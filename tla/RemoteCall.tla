----------------------------- MODULE RemoteCall -----------------------------
(***************************************************************************)
(* What a remote call over an unreliable network promises: it ends, and if *)
(* it ends well the other side has served it.  If it does not, the other   *)
(* side may have served it, and may still do so.                           *)
(***************************************************************************)
CONSTANT Call  \* the calls

VARIABLES
  state,  \* of each call: "new", "pending", "ok" or "failed"
  served  \* whether the other side has served it

vars == <<state, served>>

Init ==
  /\ state = [k \in Call |-> "new"]
  /\ served = [k \in Call |-> FALSE]

Begin(k) ==
  /\ state[k] = "new"
  /\ state' = [state EXCEPT ![k] = "pending"]
  /\ UNCHANGED served

Serve(k) ==
  /\ state[k] # "new"
  /\ served' = [served EXCEPT ![k] = TRUE]
  /\ UNCHANGED state

Succeed(k) ==
  /\ state[k] = "pending"
  /\ served[k]
  /\ state' = [state EXCEPT ![k] = "ok"]
  /\ UNCHANGED served

Fail(k) ==
  /\ state[k] = "pending"
  /\ state' = [state EXCEPT ![k] = "failed"]
  /\ UNCHANGED served

Next == \E k \in Call : Begin(k) \/ Serve(k) \/ Succeed(k) \/ Fail(k)

Spec == Init /\ [][Next]_vars

FairSpec == Spec /\ \A k \in Call : WF_vars(Succeed(k) \/ Fail(k))

=============================================================================
