------------------------------- MODULE Mutex -------------------------------
(***************************************************************************)
(* What locks promise: each has one owner at most, is acquired when it has *)
(* none, and is given up by its owner only.                                *)
(***************************************************************************)
CONSTANTS
  Client,  \* who may own a lock
  Lock     \* the locks

VARIABLE owner  \* of each lock: {} or {c}

Init == owner = [l \in Lock |-> {}]

Acquire(c, l) ==
  /\ owner[l] = {}
  /\ owner' = [owner EXCEPT ![l] = {c}]

\* Some of the locks of c, all at once when c dies.
Release(c, ls) ==
  /\ \A l \in ls : owner[l] = {c}
  /\ owner' = [l \in Lock |-> IF l \in ls THEN {} ELSE owner[l]]

Next ==
  \E c \in Client :
     (\E l \in Lock : Acquire(c, l)) \/ (\E ls \in SUBSET Lock : Release(c, ls))

Spec == Init /\ [][Next]_owner

=============================================================================
