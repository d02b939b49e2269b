--------------------------- MODULE DistributedLock ---------------------------
(***************************************************************************)
(* The lock of the schedulers (distributed_lock.rb): a column of a row of  *)
(* the database, "0" or "1", that each process reads and writes under a    *)
(* mutex of its own.  It is set to "0" once, before the processes start:   *)
(* by controller.rb before its threads, by controller_fork.rb before it    *)
(* forks, by daemons/init.rb before the scripts of the daemons.            *)
(***************************************************************************)
CONSTANTS
  Process,   \* the processes of the controller
  Scheduler  \* the threads of each that use the lock

Thread == Process \X Scheduler
ProcessOf(t) == t[1]

VARIABLES
  lock,   \* locks.job_reservation
  pc,     \* "dead", "out", "get" (in the loop), "update" (has read "0") or "in"
  mutex,  \* of each process: the thread that has it, as a set
  ready   \* the initialisation was done

vars == <<lock, pc, mutex, ready>>

Init ==
  /\ lock \in {"0", "1"}
  /\ pc = [t \in Thread |-> "dead"]
  /\ mutex = [p \in Process |-> {}]
  /\ ready = FALSE

Goes(t, from, to) == pc[t] = from /\ pc' = [pc EXCEPT ![t] = to]

\* The initialisation, when none of the processes runs.
Initialize ==
  /\ \A t \in Thread : pc[t] = "dead"
  /\ lock' = "0"
  /\ ready' = TRUE
  /\ UNCHANGED <<pc, mutex>>

\* A process starts, for the first time or again, and leaves the lock as it is.
Start(p) ==
  /\ ready
  /\ \A t \in Thread : ProcessOf(t) = p => pc[t] = "dead"
  /\ pc' = [t \in Thread |-> IF ProcessOf(t) = p THEN "out" ELSE pc[t]]
  /\ UNCHANGED <<lock, mutex, ready>>

Get(t) == Goes(t, "out", "get") /\ UNCHANGED <<lock, mutex, ready>>

\* The SELECT of a turn of the loop, which does not lock the row: "1" means
\* another turn.
Select(t) ==
  /\ mutex[ProcessOf(t)] = {}
  /\ lock = "0"
  /\ Goes(t, "get", "update")
  /\ mutex' = [mutex EXCEPT ![ProcessOf(t)] = {t}]
  /\ UNCHANGED <<lock, ready>>

\* The UPDATE and the end of the transaction.
Update(t) ==
  /\ Goes(t, "update", "in")
  /\ lock' = "1"
  /\ mutex' = [mutex EXCEPT ![ProcessOf(t)] = {}]
  /\ UNCHANGED ready

Release(t) ==
  /\ mutex[ProcessOf(t)] = {}
  /\ Goes(t, "in", "out")
  /\ lock' = "0"
  /\ UNCHANGED <<mutex, ready>>

\* A statement of get, or what the thread does with the lock, raises: the thread
\* ends, and nothing releases the lock.
Raise(t) ==
  /\ pc[t] \in {"get", "update", "in"}
  /\ pc' = [pc EXCEPT ![t] = "dead"]
  /\ mutex' = [mutex EXCEPT ![ProcessOf(t)] = @ \ {t}]
  /\ UNCHANGED <<lock, ready>>

\* The process stops, anywhere.
Stop(p) ==
  /\ pc' = [t \in Thread |-> IF ProcessOf(t) = p THEN "dead" ELSE pc[t]]
  /\ mutex' = [mutex EXCEPT ![p] = {}]
  /\ UNCHANGED <<lock, ready>>

Next ==
  \/ Initialize
  \/ \E t \in Thread : Get(t) \/ Select(t) \/ Update(t) \/ Release(t) \/ Raise(t)
  \/ \E p \in Process : Start(p) \/ Stop(p)

Spec == Init /\ [][Next]_vars

----------------------------------------------------------------------------
(* Properties *)

Holders == {t \in Thread : pc[t] = "in"}

\* What the class says it is for: "locks between different hosts (or different
\* local instance ...)".  Two schedulers never have the lock together.
OneHolder == \A t, u \in Holders : t = u

OneOwner ==
  INSTANCE Mutex
    WITH Client <- Thread,
         Lock <- {"job_reservation"},
         owner <- [l \in {"job_reservation"} |-> Holders]

\* The same, step by step.
IsMutex == OneOwner!Spec

=============================================================================
