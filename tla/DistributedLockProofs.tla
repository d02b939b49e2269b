------------------------ MODULE DistributedLockProofs ------------------------
(***************************************************************************)
(* With one process, as controller.rb runs it, the lock of the schedulers  *)
(* is a mutex, for any number of threads that raise and any restart.       *)
(***************************************************************************)
EXTENDS DistributedLock, TLAPS

TypeOK ==
  /\ lock \in {"0", "1"}
  /\ pc \in [Thread -> {"dead", "out", "get", "update", "in"}]
  /\ mutex \in [Process -> SUBSET Thread]

\* Between its SELECT and its UPDATE a thread has the mutex, and what it read is
\* still true.
ReadIsTrue ==
  \A t \in Thread : pc[t] = "update" => mutex[ProcessOf(t)] = {t} /\ lock = "0"

\* Whoever has the lock has it in the database.
Taken == \A t \in Thread : pc[t] = "in" => lock = "1"

Inv == TypeOK /\ ReadIsTrue /\ Taken /\ OneHolder

OneProcess == \A p, q \in Process : p = q

LEMMA ThreadProcess == \A t \in Thread : ProcessOf(t) \in Process
  BY DEF Thread, ProcessOf

LEMMA InitInv == Init => Inv
  BY DEF Init, Inv, TypeOK, ReadIsTrue, Taken, OneHolder, Holders

\* The mutex of the process is the mutex of all threads.
LEMMA Alone ==
  ASSUME OneProcess, Inv, NEW t \in Thread, NEW u \in Thread, pc[u] = "update"
  PROVE  mutex[ProcessOf(t)] = {u}
  BY ThreadProcess DEF OneProcess, Inv, ReadIsTrue

LEMMA InitializeInv == ASSUME Inv, Initialize PROVE Inv'
  BY DEF Initialize, Inv, TypeOK, ReadIsTrue, Taken, OneHolder, Holders

LEMMA StartInv == ASSUME OneProcess, Inv, NEW p \in Process, Start(p) PROVE Inv'
  <1>1. \A t \in Thread : pc'[t] = "out"
    BY ThreadProcess DEF OneProcess, Start
  <1>2. TypeOK'
    BY DEF Inv, TypeOK, Start
  <1> QED BY <1>1, <1>2 DEF Inv, ReadIsTrue, Taken, OneHolder, Holders

LEMMA StopInv == ASSUME OneProcess, Inv, NEW p \in Process, Stop(p) PROVE Inv'
  <1>1. \A t \in Thread : pc'[t] = "dead"
    BY ThreadProcess DEF OneProcess, Stop
  <1>2. TypeOK'
    BY DEF Inv, TypeOK, Stop
  <1> QED BY <1>1, <1>2 DEF Inv, ReadIsTrue, Taken, OneHolder, Holders

LEMMA GetInv == ASSUME Inv, NEW t \in Thread, Get(t) PROVE Inv'
  BY DEF Get, Goes, Inv, TypeOK, ReadIsTrue, Taken, OneHolder, Holders

LEMMA SelectInv == ASSUME OneProcess, Inv, NEW t \in Thread, Select(t) PROVE Inv'
  <1>1. TypeOK'
    BY ThreadProcess DEF Inv, TypeOK, Select, Goes
  <1>2. \A u \in Thread : pc[u] # "update"
    BY Alone DEF Select
  <1>3. ReadIsTrue'
    BY <1>2, ThreadProcess DEF Inv, TypeOK, ReadIsTrue, Select, Goes
  <1>4. Taken' /\ OneHolder'
    BY DEF Inv, TypeOK, Taken, OneHolder, Holders, Select, Goes
  <1> QED BY <1>1, <1>3, <1>4 DEF Inv

LEMMA UpdateInv == ASSUME OneProcess, Inv, NEW t \in Thread, Update(t) PROVE Inv'
  <1>1. TypeOK'
    BY ThreadProcess DEF Inv, TypeOK, Update, Goes
  <1>2. \A u \in Thread : u # t => pc[u] \notin {"update", "in"}
    <2>1. \A u \in Thread : pc[u] = "update" => {u} = {t}
      BY Alone DEF Update, Goes
    <2>2. \A u \in Thread : pc[u] # "in"
      BY DEF Inv, ReadIsTrue, Taken, Update, Goes
    <2> QED BY <2>1, <2>2
  <1>3. ReadIsTrue' /\ Taken' /\ OneHolder'
    BY <1>2 DEF Inv, TypeOK, ReadIsTrue, Taken, OneHolder, Holders, Update, Goes
  <1> QED BY <1>1, <1>3 DEF Inv

LEMMA ReleaseInv == ASSUME OneProcess, Inv, NEW t \in Thread, Release(t) PROVE Inv'
  <1>1. TypeOK'
    BY DEF Inv, TypeOK, Release, Goes
  <1>2. \A u \in Thread : pc'[u] \notin {"update", "in"}
    BY Alone DEF Inv, TypeOK, OneHolder, Holders, Release, Goes
  <1> QED BY <1>1, <1>2 DEF Inv, ReadIsTrue, Taken, OneHolder, Holders

LEMMA RaiseInv == ASSUME OneProcess, Inv, NEW t \in Thread, Raise(t) PROVE Inv'
  <1>1. TypeOK'
    BY ThreadProcess DEF Inv, TypeOK, Raise
  <1>2. ReadIsTrue'
    <2> SUFFICES ASSUME NEW u \in Thread, pc'[u] = "update"
                 PROVE  mutex'[ProcessOf(u)] = {u} /\ lock' = "0"
      BY DEF ReadIsTrue
    <2>1. u # t /\ pc[u] = "update"
      BY DEF Inv, TypeOK, Raise
    <2>2. mutex[ProcessOf(u)] = {u} /\ mutex[ProcessOf(t)] = {u} /\ lock = "0"
      BY <2>1, Alone DEF Inv, ReadIsTrue
    <2>3. ProcessOf(u) = ProcessOf(t)
      BY ThreadProcess DEF OneProcess
    <2> QED BY <2>1, <2>2, <2>3, ThreadProcess DEF Inv, TypeOK, Raise
  <1>3. Taken' /\ OneHolder'
    BY DEF Inv, TypeOK, Taken, OneHolder, Holders, Raise
  <1> QED BY <1>1, <1>2, <1>3 DEF Inv

LEMMA NextInv == ASSUME OneProcess, Inv, [Next]_vars PROVE Inv'
  <1>1. CASE UNCHANGED vars
    BY <1>1 DEF vars, Inv, TypeOK, ReadIsTrue, Taken, OneHolder, Holders
  <1> QED BY <1>1, InitializeInv, StartInv, StopInv, GetInv, SelectInv, UpdateInv, ReleaseInv, RaiseInv
          DEF Next

----------------------------------------------------------------------------
(* Theorems *)

\* In one process, two schedulers never have the lock together, whatever thread
\* raises and whenever the process stops and starts again.
THEOREM OneHolderInOneProcess == ASSUME OneProcess PROVE Spec => []OneHolder
  <1>1. Inv /\ [Next]_vars => Inv'
    BY NextInv
  <1>2. Inv => OneHolder
    BY DEF Inv
  <1> QED BY <1>1, <1>2, InitInv, PTL DEF Spec

Owns == [l \in {"job_reservation"} |-> Holders]

\* What a step does to those who have the lock.
LEMMA HoldersStep ==
  ASSUME OneProcess, Inv, [Next]_vars
  PROVE  \/ UNCHANGED Holders
         \/ \E t \in Thread : Holders = {} /\ Holders' = {t}
         \/ \E t \in Thread : Holders = {t} /\ Holders' = {}
  <1>1. CASE \E t \in Thread : Update(t)
    <2> PICK t \in Thread : Update(t)
      BY <1>1
    <2>1. \A u \in Thread : pc[u] # "in"
      BY DEF Inv, ReadIsTrue, Taken, Update, Goes
    <2>2. Holders = {} /\ Holders' = {t}
      BY <2>1 DEF Inv, TypeOK, Holders, Update, Goes
    <2> QED BY <2>2
  <1>2. CASE Holders' \subseteq Holders
    <2>1. Holders = {} \/ \E t \in Thread : Holders = {t}
      BY DEF Inv, OneHolder, Holders
    <2> QED BY <1>2, <2>1
  <1>3. ASSUME NEW t \in Thread, Get(t) \/ Select(t) \/ Release(t) \/ Raise(t)
        PROVE  Holders' \subseteq Holders
    BY <1>3 DEF Inv, TypeOK, Holders, Get, Select, Release, Raise, Goes
  <1>4. ASSUME Initialize \/ \E p \in Process : Start(p) \/ Stop(p)
        PROVE  Holders' \subseteq Holders
    BY <1>4 DEF Inv, TypeOK, Holders, Initialize, Start, Stop
  <1>5. CASE UNCHANGED vars
    BY <1>5 DEF vars, Holders
  <1> QED BY <1>1, <1>2, <1>3, <1>4, <1>5 DEF Next

LEMMA MutexStep ==
  ASSUME OneProcess, Inv, [Next]_vars
  PROVE  [OneOwner!Next]_Owns
  <1> DEFINE l == "job_reservation"
  <1>1. CASE UNCHANGED Holders
    BY <1>1 DEF Owns
  <1>2. ASSUME NEW t \in Thread, Holders = {}, Holders' = {t}
        PROVE  OneOwner!Acquire(t, l)
    BY <1>2 DEF OneOwner!Acquire
  <1>3. ASSUME NEW t \in Thread, Holders = {t}, Holders' = {}
        PROVE  OneOwner!Release(t, {l})
    BY <1>3 DEF OneOwner!Release
  <1>4. {l} \in SUBSET {"job_reservation"}
    OBVIOUS
  <1> QED BY <1>1, <1>2, <1>3, <1>4, HoldersStep DEF OneOwner!Next

\* In one process, the lock of the schedulers implements a mutex that a thread
\* gives up when it raises or its process stops.
THEOREM ImplementsMutexInOneProcess == ASSUME OneProcess PROVE Spec => IsMutex
  <1>1. Init => OneOwner!Init
    BY DEF Init, OneOwner!Init, Holders
  <1>2. Inv /\ [Next]_vars => Inv'
    BY NextInv
  <1>3. Inv /\ [Next]_vars => [OneOwner!Next]_([l \in {"job_reservation"} |-> Holders])
    BY MutexStep DEF Owns
  <1> QED BY <1>1, <1>2, <1>3, InitInv, PTL DEF Spec, IsMutex, OneOwner!Spec

=============================================================================
