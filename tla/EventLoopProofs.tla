-------------------------- MODULE EventLoopProofs --------------------------
(***************************************************************************)
(* The event loop, for any number of threads, events and semaphores.       *)
(* First the semaphores: the loop runs many actions and only three kinds   *)
(* of them touch a semaphore, a thread enters, leaves or dies.  Then the   *)
(* wake-ups, the implementation of Mutex, and last the places: each        *)
(* living thread is in exactly one container of the loop.                  *)
(***************************************************************************)
EXTENDS EventLoop, FiniteSetTheorems, TLAPS

----------------------------------------------------------------------------
(* The helpers on sequences *)

LEMMA RemovedType ==
  ASSUME NEW s \in Seq(Thread), NEW i \in DOMAIN s
  PROVE  Removed(s, i) \in Seq(Thread)
  <1>1. Len(s) - 1 \in Nat /\ i \in 1..Len(s)
    OBVIOUS
  <1>2. \A k \in 1..(Len(s) - 1) : s[k] \in Thread /\ s[k + 1] \in Thread
    BY <1>1
  <1> QED BY <1>1, <1>2 DEF Removed

LEMMA DropType ==
  ASSUME NEW s \in Seq(Thread), NEW t \in Thread
  PROVE  Drop(s, t) \in Seq(Thread) /\ (s = <<>> => Drop(s, t) = <<>>)
  <1>1. CASE In(s, t)
    <2>1. (CHOOSE i \in DOMAIN s : s[i] = t) \in DOMAIN s
      BY <1>1 DEF In
    <2>2. s # <<>>
      BY <1>1 DEF In
    <2> QED BY <1>1, <2>1, <2>2, RemovedType DEF Drop
  <1> QED BY <1>1 DEF Drop

LEMMA SwappedType ==
  ASSUME NEW s \in Seq(Thread), NEW i \in DOMAIN s
  PROVE  Swapped(s, i) \in Seq(Thread)
  <1>1. Len(s) - 1 \in Nat /\ i \in 1..Len(s)
    OBVIOUS
  <1>2. s[Len(s)] \in Thread /\ \A k \in 1..(Len(s) - 1) : s[k] \in Thread
    BY <1>1
  <1> QED BY <1>1, <1>2 DEF Swapped

----------------------------------------------------------------------------
(* What a step does to the semaphores *)

\* A thread that waits in lock is not in the semaphore.
Asking == \A t \in Thread, l \in Lock, b \in BOOLEAN :
            locking[t] = <<l, b>> => l \notin holds[t]

\* What is given back when a thread dies is what the thread is in.
Recorded == \A t \in Thread : locked_by_thread[t] \subseteq holds[t]

Enters == \E t \in Thread, l \in Lock : l \notin holds[t] /\ Enter(t, l)
Leaves == \E t \in Thread, l \in Lock : Unlock(t, l)
Dies ==
  \E t \in Thread, err \in BOOLEAN, by \in Thread \cup {NoThread} : Die(t, err, by)
Keeps == UNCHANGED <<inside, locked_by_thread, holds>>

LEMMA LoopKeeps == Loop => UNCHANGED lockVars
  BY DEF Loop, RunNew, StartEvents, StartSockets, RunThread, EndScan, TakeThreads,
         LookForTimeouts, RunTimedOut, SkipThread, TakeSocket, Resume, lockVars

LEMMA Effects ==
  ASSUME Asking, [Next]_vars
  PROVE  Enters \/ Leaves \/ Dies \/ Keeps
  <1>1. CASE UNCHANGED vars
    BY <1>1 DEF vars, Keeps
  <1>2. CASE Loop
    BY <1>2, LoopKeeps DEF lockVars, Keeps
  <1>3. ASSUME NEW t \in Thread, Executes(t) PROVE Enters \/ Leaves \/ Dies \/ Keeps
    <2>1. CASE GivesControl(t)
      BY <2>1 DEF GivesControl, Yield, Sleep, Wait, WaitSocket, End, Suspend, lockVars,
                  Keeps, Dies
    <2>2. ASSUME NEW l \in Lock, NEW b \in BOOLEAN, LockIt(t, l, b) \/ LockAgain(t, l, b)
          PROVE  Enters \/ Keeps
      <3>1. l \notin holds[t]
        BY <2>2 DEF LockIt, LockAgain, Asking
      <3>2. Enter(t, l) \/ Keeps
        BY <2>2 DEF LockIt, LockAgain, Block, GiveUp, Keeps
      <3> QED BY <3>1, <3>2 DEF Enters
    <2>3. ASSUME NEW l \in Lock, Unlock(t, l) PROVE Leaves
      BY <2>3 DEF Leaves
    <2>4. ASSUME NEW e \in Message, Fire(t, e) PROVE Keeps
      BY <2>4 DEF Fire, lockVars, Keeps
    <2>5. ASSUME NEW u \in Thread, NewThread(t, u) PROVE Keeps
      BY <2>5 DEF NewThread, lockVars, Keeps
    <2>6. ASSUME NEW u \in Thread, Kill(t, u) PROVE Dies
      <3>1. FALSE \in BOOLEAN /\ NoThread \in Thread \cup {NoThread}
        OBVIOUS
      <3> QED BY <2>6, <3>1 DEF Kill, KillParked, KillSelf, Dies
    <2> QED BY <1>3, <2>1, <2>2, <2>3, <2>4, <2>5, <2>6 DEF Executes, Locks
  <1> QED BY <1>1, <1>2, <1>3 DEF Next

----------------------------------------------------------------------------
(* The number of threads in a semaphore *)

LEMMA HoldersFinite ==
  ASSUME NEW l \in Lock
  PROVE  IsFiniteSet(Holders(l)) /\ Cardinality(Holders(l)) \in Nat
  BY ThreadAssumption, FS_Subset, FS_CardinalityType DEF Holders

\* A thread that is in a semaphore is counted there.
LEMMA Counted ==
  ASSUME TypeOK, NeverOverfull, NEW t \in Thread, NEW l \in holds[t]
  PROVE  l \in Lock /\ inside[l] >= 1
  <1>1. l \in Lock /\ t \in Holders(l)
    BY DEF TypeOK, Holders
  <1>2. Cardinality(Holders(l)) >= 1
    BY <1>1, HoldersFinite, FS_EmptySet
  <1> QED BY <1>1, <1>2, HoldersFinite DEF TypeOK, NeverOverfull

LEMMA EnterCount ==
  ASSUME TypeOK, NEW t \in Thread, NEW l \in Lock, l \notin holds[t], Enter(t, l)
  PROVE  /\ Holders(l)' = Holders(l) \cup {t}
         /\ Cardinality(Holders(l)') = Cardinality(Holders(l)) + 1
         /\ inside'[l] = inside[l] + 1
         /\ \A k \in Lock \ {l} : Holders(k)' = Holders(k) /\ inside'[k] = inside[k]
  <1>1. /\ Holders(l)' = Holders(l) \cup {t}
        /\ t \notin Holders(l)
        /\ \A k \in Lock \ {l} : Holders(k)' = Holders(k)
    BY DEF TypeOK, Holders, Enter
  <1>2. Cardinality(Holders(l) \cup {t}) = Cardinality(Holders(l)) + 1
    BY <1>1, HoldersFinite, FS_AddElement
  <1> QED BY <1>1, <1>2 DEF TypeOK, Enter

LEMMA LeaveCount ==
  ASSUME TypeOK, NEW t \in Thread, NEW l \in Lock, Unlock(t, l)
  PROVE  /\ Holders(l)' = Holders(l) \ {t}
         /\ t \in Holders(l)
         /\ Cardinality(Holders(l)') = Cardinality(Holders(l)) - 1
         /\ inside'[l] = inside[l] - 1
         /\ \A k \in Lock \ {l} : Holders(k)' = Holders(k) /\ inside'[k] = inside[k]
  <1>1. /\ Holders(l)' = Holders(l) \ {t}
        /\ t \in Holders(l)
        /\ \A k \in Lock \ {l} : Holders(k)' = Holders(k)
    BY DEF TypeOK, Holders, Unlock
  <1>2. Cardinality(Holders(l) \ {t}) = Cardinality(Holders(l)) - 1
    BY <1>1, HoldersFinite, FS_RemoveElement
  <1> QED BY <1>1, <1>2 DEF TypeOK, Unlock

LEMMA DieCount ==
  ASSUME TypeOK, Recorded, NEW t \in Thread, NEW err \in BOOLEAN, NEW by,
         Die(t, err, by), NEW l \in Lock
  PROVE  /\ Holders(l)' = Holders(l) \ {t}
         /\ Returned(t, err) \subseteq holds[t]
         /\ l \in holds[t] <=> t \in Holders(l)
         /\ Cardinality(Holders(l)') = IF l \in holds[t] THEN Cardinality(Holders(l)) - 1
                                                         ELSE Cardinality(Holders(l))
         /\ inside'[l] = IF l \in Returned(t, err) THEN inside[l] - 1 ELSE inside[l]
  <1>1. /\ Holders(l)' = Holders(l) \ {t}
        /\ Returned(t, err) \subseteq holds[t]
        /\ l \in holds[t] <=> t \in Holders(l)
    BY DEF TypeOK, Holders, Die, Recorded, Returned
  <1>2. l \in holds[t] => Cardinality(Holders(l) \ {t}) = Cardinality(Holders(l)) - 1
    BY <1>1, HoldersFinite, FS_RemoveElement
  <1>3. l \notin holds[t] => Holders(l) \ {t} = Holders(l)
    BY <1>1
  <1> QED BY <1>1, <1>2, <1>3 DEF Die

LEMMA OverfullStep ==
  ASSUME TypeOK, Asking, Recorded, NeverOverfull, [Next]_vars
  PROVE  NeverOverfull'
  <1> SUFFICES ASSUME NEW k \in Lock
               PROVE  Cardinality(Holders(k)') <= inside'[k] /\ inside'[k] <= Max[k]
    BY DEF NeverOverfull, Holders
  <1> DEFINE C == Cardinality(Holders(k))
             D == Cardinality(Holders(k)')
  <1>0. /\ C \in Nat /\ inside[k] \in Nat /\ Max[k] \in Nat
        /\ C <= inside[k] /\ inside[k] <= Max[k]
    BY HoldersFinite, LockAssumption DEF TypeOK, NeverOverfull
  <1>1. CASE Enters
    <2> PICK t \in Thread, l \in Lock : l \notin holds[t] /\ Enter(t, l)
      BY <1>1 DEF Enters
    <2>1. k = l => D = C + 1 /\ inside'[k] = inside[k] + 1 /\ inside[k] < Max[k]
      BY EnterCount DEF Enter
    <2>2. k # l => D = C /\ inside'[k] = inside[k]
      BY EnterCount
    <2> HIDE DEF C, D
    <2>3. D <= inside'[k] /\ inside'[k] <= Max[k]
      BY <1>0, <2>1, <2>2
    <2> QED BY <2>3 DEF D
  <1>2. CASE Leaves
    <2> PICK t \in Thread, l \in Lock : Unlock(t, l)
      BY <1>2 DEF Leaves
    <2>1. k = l => D = C - 1 /\ inside'[k] = inside[k] - 1
      BY LeaveCount
    <2>2. k # l => D = C /\ inside'[k] = inside[k]
      BY LeaveCount
    <2> HIDE DEF C, D
    <2>3. D <= inside'[k] /\ inside'[k] <= Max[k]
      BY <1>0, <2>1, <2>2
    <2> QED BY <2>3 DEF D
  <1>3. CASE Dies
    <2> PICK t \in Thread, err \in BOOLEAN, by \in Thread \cup {NoThread} : Die(t, err, by)
      BY <1>3 DEF Dies
    <2>1. \/ k \in holds[t] /\ D = C - 1
          \/ k \notin Returned(t, err) /\ D = C
      BY DieCount
    <2>2. inside'[k] = IF k \in Returned(t, err) THEN inside[k] - 1 ELSE inside[k]
      BY DieCount
    <2> HIDE DEF C, D
    <2>3. D <= inside'[k] /\ inside'[k] <= Max[k]
      BY <1>0, <2>1, <2>2
    <2> QED BY <2>3 DEF D
  <1>4. CASE Keeps
    BY <1>0, <1>4 DEF Keeps, Holders
  <1> QED BY <1>1, <1>2, <1>3, <1>4, Effects

----------------------------------------------------------------------------
(* Types *)

LEMMA SemaphoreTypes ==
  ASSUME TypeOK, Asking, Recorded, NeverOverfull, [Next]_vars
  PROVE  /\ inside' \in [Lock -> Nat]
         /\ locked_by_thread' \in [Thread -> SUBSET Lock]
         /\ holds' \in [Thread -> SUBSET Lock]
         /\ Recorded'
  <1>1. CASE Enters
    <2> PICK t \in Thread, l \in Lock : l \notin holds[t] /\ Enter(t, l)
      BY <1>1 DEF Enters
    <2> QED BY DEF Enter, TypeOK, Recorded
  <1>2. CASE Leaves
    <2> PICK t \in Thread, l \in Lock : Unlock(t, l)
      BY <1>2 DEF Leaves
    <2>1. inside[l] >= 1
      BY Counted DEF Unlock
    <2> QED BY <2>1 DEF Unlock, TypeOK, Recorded
  <1>3. CASE Dies
    <2> PICK t \in Thread, err \in BOOLEAN, by \in Thread \cup {NoThread} : Die(t, err, by)
      BY <1>3 DEF Dies
    <2>1. Returned(t, err) \subseteq holds[t]
      BY DEF Returned, Recorded
    <2>2. \A l \in Returned(t, err) : inside[l] >= 1
      BY <2>1, Counted
    <2>3. inside' \in [Lock -> Nat]
      BY <2>2 DEF Die, TypeOK
    <2>4. locked_by_thread' \in [Thread -> SUBSET Lock] /\ holds' \in [Thread -> SUBSET Lock]
      BY DEF Die, TypeOK
    <2>5. Recorded'
      BY DEF Die, TypeOK, Recorded
    <2> QED BY <2>3, <2>4, <2>5
  <1>4. CASE Keeps
    BY <1>4 DEF Keeps, TypeOK, Recorded
  <1> QED BY <1>1, <1>2, <1>3, <1>4, Effects

\* The part of TypeOK that is not about semaphores.
LoopTypes ==
  /\ running \in Thread \cup {NoThread}
  /\ new_threads \in Seq(Thread)
  /\ queue \in [Event -> Seq(Thread)]
  /\ socket_queue \in [Socket -> Seq(Thread)]
  /\ timeouts \in SUBSET Thread
  /\ events \in SUBSET Event
  /\ events_tmp \in SUBSET Event
  /\ tmp_queue \in SUBSET Event
  /\ socket_events \in SUBSET Socket
  /\ tmp \in Seq(Thread)
  /\ scan \in [event : Event, at : Nat]
  /\ threads_ref \in SUBSET Thread
  /\ locking \in [Thread -> (Lock \X BOOLEAN) \cup {NoCall}]

LEMMA EventTypes ==
  /\ "event:yield" \in Event
  /\ "event:sleep" \in Event
  /\ Lock \subseteq Event
  /\ Message \subseteq Event
  BY DEF Event

LEMMA SuspendTypes ==
  ASSUME LoopTypes, NEW t \in Thread, NEW e \in Event, NEW b \in BOOLEAN, Suspend(t, e, b)
  PROVE  /\ running' \in Thread \cup {NoThread}
         /\ queue' \in [Event -> Seq(Thread)]
         /\ timeouts' \in SUBSET Thread
  BY DEF Suspend, LoopTypes

LEMMA LockTypes ==
  ASSUME LoopTypes, NEW t \in Thread, NEW l \in Lock, NEW b \in BOOLEAN,
         LockIt(t, l, b) \/ LockAgain(t, l, b)
  PROVE  LoopTypes'
  <1>1. CASE Enter(t, l)
    BY <1>1 DEF LockIt, LockAgain, Enter, LoopTypes, loopVars
  <1>2. CASE Block(t, l, b)
    <2>1. l \in Event
      BY EventTypes
    <2>2. /\ running' \in Thread \cup {NoThread}
          /\ queue' \in [Event -> Seq(Thread)]
          /\ timeouts' \in SUBSET Thread
      BY <1>2, <2>1, SuspendTypes DEF Block
    <2> QED BY <1>2, <2>2 DEF LockIt, LockAgain, Block, LoopTypes, loopVars
  <1>3. CASE GiveUp(t, l)
    BY <1>3 DEF LockIt, LockAgain, GiveUp, LoopTypes, loopVars
  <1> QED BY <1>1, <1>2, <1>3 DEF LockIt, LockAgain

LEMMA DieTypes ==
  ASSUME TypeOK, NEW t \in Thread, NEW err, NEW by, Die(t, err, by)
  PROVE  /\ threads_ref' \in SUBSET Thread
         /\ events' \in SUBSET Event
         /\ locking' \in [Thread -> (Lock \X BOOLEAN) \cup {NoCall}]
  BY EventTypes DEF Die, Returned, TypeOK

LEMMA KillTypes ==
  ASSUME TypeOK, NEW t \in Thread, NEW u \in Thread, Kill(t, u)
  PROVE  LoopTypes'
  <1>1. CASE KillParked(t, u)
    <2>1. new_threads' \in Seq(Thread)
      BY <1>1, DropType DEF KillParked, TypeOK
    <2>2. queue' \in [Event -> Seq(Thread)]
      BY <1>1, DropType DEF KillParked, TypeOK
    <2>3. socket_queue' \in [Socket -> Seq(Thread)]
      BY <1>1, DropType DEF KillParked, TypeOK
    <2>4. Die(u, FALSE, t)
      BY <1>1 DEF KillParked
    <2> QED BY <1>1, <2>1, <2>2, <2>3, <2>4, DieTypes
            DEF Kill, KillParked, TypeOK, LoopTypes, loopVars
  <1>2. CASE KillSelf(t, u)
    <2>1. Die(t, FALSE, NoThread)
      BY <1>2 DEF KillSelf
    <2> QED BY <1>2, <2>1, DieTypes DEF Kill, KillSelf, TypeOK, LoopTypes, loopVars
  <1> QED BY <1>1, <1>2 DEF Kill

LEMMA ExecutesTypes ==
  ASSUME TypeOK, NEW t \in Thread, Executes(t)
  PROVE  LoopTypes'
  <1>0. LoopTypes
    BY DEF TypeOK, LoopTypes
  <1>1. ASSUME NEW e \in Event, NEW b \in BOOLEAN, Wait(t, e, b) PROVE LoopTypes'
    BY <1>0, <1>1, SuspendTypes DEF Wait, LoopTypes, loopVars, lockVars
  <1>2. ASSUME NEW s \in Socket, NEW b \in BOOLEAN, WaitSocket(t, s, b) PROVE LoopTypes'
    BY <1>0, <1>2 DEF WaitSocket, LoopTypes, loopVars, lockVars
  <1>3. ASSUME NEW err \in BOOLEAN, End(t, err) PROVE LoopTypes'
    <2>1. Die(t, err, NoThread)
      BY <1>3 DEF End
    <2> QED BY <1>0, <1>3, <2>1, DieTypes DEF End, LoopTypes, loopVars, waitVars
  <1>4. ASSUME NEW l \in Lock, NEW b \in BOOLEAN, LockIt(t, l, b) \/ LockAgain(t, l, b)
        PROVE  LoopTypes'
    BY <1>0, <1>4, LockTypes
  <1>5. ASSUME NEW l \in Lock, Unlock(t, l) PROVE LoopTypes'
    BY <1>0, <1>5, EventTypes DEF Unlock, LoopTypes, loopVars, waitVars
  <1>6. ASSUME NEW e \in Message, Fire(t, e) PROVE LoopTypes'
    BY <1>0, <1>6, EventTypes DEF Fire, LoopTypes, loopVars, waitVars, lockVars
  <1>7. ASSUME NEW u \in Thread, NewThread(t, u) PROVE LoopTypes'
    BY <1>0, <1>7 DEF NewThread, LoopTypes, loopVars, lockVars
  <1>8. CASE GivesControl(t)
    BY <1>1, <1>2, <1>3, <1>8, EventTypes DEF GivesControl, Yield, Sleep
  <1> QED BY <1>4, <1>5, <1>6, <1>7, <1>8, KillTypes DEF Executes, Locks

LEMMA LoopKeepsTypes ==
  ASSUME TypeOK, Loop
  PROVE  LoopTypes'
  <1>0. LoopTypes /\ NotScanning \in [event : Event, at : Nat]
    BY EventTypes DEF TypeOK, LoopTypes, NotScanning
  <1>1. CASE RunNew
    BY <1>0, <1>1 DEF RunNew, Resume, LoopTypes, loopVars, lockVars
  <1>2. CASE StartEvents
    BY <1>0, <1>2, EventTypes
       DEF StartEvents, Waited, Fired, WaitedSockets, LoopTypes, waitVars, lockVars
  <1>3. CASE StartSockets
    BY <1>0, <1>3, EventTypes
       DEF StartSockets, Fired, WaitedSockets, LoopTypes, waitVars, lockVars
  <1>4. CASE RunThread
    BY <1>0, <1>4 DEF RunThread, Resume, LoopTypes, lockVars
  <1>5. CASE EndScan
    BY <1>0, <1>5 DEF EndScan, LoopTypes, waitVars, lockVars
  <1>6. ASSUME NEW e \in Event, TakeThreads(e) PROVE LoopTypes'
    <2>1. tmp' \in Seq(Thread) /\ queue' \in [Event -> Seq(Thread)]
      BY <1>0, <1>6 DEF TakeThreads, LoopTypes
    <2> QED BY <1>0, <1>6, <2>1 DEF TakeThreads, LoopTypes, lockVars
  <1>7. ASSUME NEW e \in Event, LookForTimeouts(e) PROVE LoopTypes'
    BY <1>0, <1>7 DEF LookForTimeouts, LoopTypes, waitVars, lockVars
  <1>8. ASSUME NEW t \in Thread, RunTimedOut(t) PROVE LoopTypes'
    <2>1. Swapped(queue[scan.event], scan.at) \in Seq(Thread)
      BY <1>0, <1>8, SwappedType DEF RunTimedOut, ScanAt, LoopTypes
    <2>2. queue' \in [Event -> Seq(Thread)]
      BY <1>0, <1>8, <2>1 DEF RunTimedOut, LoopTypes
    <2>3. scan' = [event |-> scan.event, at |-> scan.at + 1]
      BY <1>8 DEF RunTimedOut, NextInScan
    <2>4. scan' \in [event : Event, at : Nat]
      BY <1>0, <2>3 DEF LoopTypes
    <2>5. /\ running' = t /\ timeouts' = timeouts \ {t}
          /\ UNCHANGED <<events, threads_ref, locking, new_threads, socket_queue,
                         events_tmp, tmp_queue, socket_events, tmp>>
      BY <1>8 DEF RunTimedOut, Resume, lockVars
    <2> QED BY <1>0, <2>2, <2>4, <2>5 DEF LoopTypes
  <1>9. ASSUME NEW t \in Thread, SkipThread(t) PROVE LoopTypes'
    BY <1>0, <1>9 DEF SkipThread, NextInScan, LoopTypes, waitVars, lockVars
  <1>10. ASSUME NEW s \in Socket, TakeSocket(s) PROVE LoopTypes'
    BY <1>0, <1>10 DEF TakeSocket, LoopTypes, lockVars
  <1> QED BY <1>1, <1>2, <1>3, <1>4, <1>5, <1>6, <1>7, <1>8, <1>9, <1>10 DEF Loop

----------------------------------------------------------------------------
(* The invariant of the semaphores *)

LEMMA AskingStep ==
  ASSUME TypeOK, Asking, [Next]_vars
  PROVE  Asking'
  <1>0. \A l \in Lock, b \in BOOLEAN : NoCall # <<l, b>>
    BY LockAssumption
  <1>1. CASE UNCHANGED <<locking, holds>>
    BY <1>1 DEF Asking
  <1>2. ASSUME NEW t \in Thread, NEW l \in Lock, Enter(t, l) PROVE Asking'
    BY <1>0, <1>2 DEF Enter, Asking, TypeOK
  <1>3. ASSUME NEW t \in Thread, NEW l \in Lock, NEW b \in BOOLEAN, l \notin holds[t],
               Block(t, l, b)
        PROVE  Asking'
    BY <1>0, <1>3 DEF Block, Asking, TypeOK
  <1>4. ASSUME NEW t \in Thread, NEW l \in Lock, GiveUp(t, l) PROVE Asking'
    BY <1>0, <1>4 DEF GiveUp, Asking, TypeOK
  <1>5. ASSUME NEW t \in Thread, NEW l \in Lock, Unlock(t, l) PROVE Asking'
    BY <1>5 DEF Unlock, Asking, TypeOK
  <1>6. ASSUME NEW t \in Thread, NEW err \in BOOLEAN, NEW by, Die(t, err, by) PROVE Asking'
    BY <1>0, <1>6 DEF Die, Asking, TypeOK
  <1>7. ASSUME NEW t \in Thread, Executes(t) PROVE Asking'
    <2>1. CASE GivesControl(t)
      BY <1>1, <1>6, <2>1
         DEF GivesControl, Yield, Sleep, Wait, WaitSocket, End, lockVars
    <2>2. ASSUME NEW l \in Lock, NEW b \in BOOLEAN, LockIt(t, l, b) \/ LockAgain(t, l, b)
          PROVE  Asking'
      <3>1. l \notin holds[t]
        BY <2>2 DEF LockIt, LockAgain, Asking
      <3> QED BY <1>2, <1>3, <1>4, <2>2, <3>1 DEF LockIt, LockAgain
    <2>3. ASSUME NEW u \in Thread, Kill(t, u) PROVE Asking'
      BY <1>6, <2>3 DEF Kill, KillParked, KillSelf
    <2> QED BY <1>1, <1>5, <1>7, <2>1, <2>2, <2>3
            DEF Executes, Locks, Fire, NewThread, lockVars
  <1> QED BY <1>1, <1>7, LoopKeeps DEF Next, vars, lockVars

Inv == TypeOK /\ Asking /\ Recorded /\ NeverOverfull

LEMMA InitInv == Init => Inv
  <1> SUFFICES ASSUME Init PROVE Inv
    OBVIOUS
  <1>1. TypeOK
    BY EventTypes DEF Init, TypeOK, NotScanning
  <1>2. Asking /\ Recorded
    BY DEF Init, Asking, Recorded
  <1>3. ASSUME NEW l \in Lock
        PROVE  Cardinality(Holders(l)) <= inside[l] /\ inside[l] <= Max[l]
    <2>1. Holders(l) = {}
      BY DEF Init, Holders
    <2> QED BY <2>1, FS_EmptySet, LockAssumption DEF Init
  <1> QED BY <1>1, <1>2, <1>3 DEF Inv, NeverOverfull

LEMMA NextInv == Inv /\ [Next]_vars => Inv'
  <1> SUFFICES ASSUME Inv, [Next]_vars PROVE Inv'
    OBVIOUS
  <1>0. TypeOK /\ Asking /\ Recorded /\ NeverOverfull
    BY DEF Inv
  <1>1. LoopTypes'
    <2>1. CASE UNCHANGED vars
      BY <1>0, <2>1 DEF vars, TypeOK, LoopTypes
    <2> QED BY <1>0, <2>1, LoopKeepsTypes, ExecutesTypes DEF Next
  <1>2. /\ inside' \in [Lock -> Nat]
        /\ locked_by_thread' \in [Thread -> SUBSET Lock]
        /\ holds' \in [Thread -> SUBSET Lock]
        /\ Recorded'
    BY <1>0, SemaphoreTypes
  <1>3. TypeOK'
    BY <1>1, <1>2 DEF LoopTypes, TypeOK
  <1> QED BY <1>0, <1>2, <1>3, AskingStep, OverfullStep DEF Inv

LEMMA InvHolds == Spec => []Inv
  BY InitInv, NextInv, PTL DEF Spec

\* Every variable of the event loop keeps its type.
THEOREM TypeCorrect == Spec => []TypeOK
  <1>1. Inv => TypeOK
    BY DEF Inv
  <1> QED BY <1>1, InvHolds, PTL

\* A semaphore counts every thread it let in and never lets in too many,
\* whichever threads raise, return early or kill each other.
THEOREM SemaphoreRight == Spec => []NeverOverfull
  <1>1. Inv => NeverOverfull
    BY DEF Inv
  <1> QED BY <1>1, InvHolds, PTL

----------------------------------------------------------------------------
(* No wake-up is lost *)

\* The loop forgets an event only when it takes its threads.
Pending == events_tmp \subseteq tmp_queue

LEMMA PendingStep ==
  ASSUME Pending, [Next]_vars
  PROVE  Pending'
  <1>1. CASE UNCHANGED <<events_tmp, tmp_queue>>
    BY <1>1 DEF Pending
  <1>2. ASSUME NEW t \in Thread, Executes(t) PROVE UNCHANGED <<events_tmp, tmp_queue>>
    BY <1>2 DEF Executes, GivesControl, Yield, Sleep, Wait, WaitSocket, End, Locks, LockIt,
                LockAgain, Unlock, Fire, NewThread, Kill, loopVars
  <1>3. CASE Loop
    BY <1>1, <1>3
       DEF Loop, RunNew, StartEvents, StartSockets, RunThread, EndScan, TakeThreads,
           LookForTimeouts, RunTimedOut, SkipThread, TakeSocket, Resume, loopVars, Pending
  <1> QED BY <1>1, <1>2, <1>3 DEF Next, vars

\* No thread joins those who wait for l, no room is made, no event is forgotten.
Quiet(l) ==
  /\ queue'[l] # <<>> => queue[l] # <<>>
  /\ inside'[l] >= inside[l]
  /\ events \cup events_tmp \subseteq events' \cup events_tmp'

Awaited(l) ==
  queue[l] # <<>> /\ inside[l] < Max[l] => l \in events \cup events_tmp

LEMMA QuietStep ==
  ASSUME NEW l \in Lock, TypeOK, TypeOK', Awaited(l), Quiet(l)
  PROVE  Awaited(l)'
  BY LockAssumption DEF TypeOK, Awaited, Quiet

\* Waiting for something else than the semaphore.
LEMMA OtherWait ==
  ASSUME NEW l \in Lock, TypeOK, NEW t \in Thread, NEW e \in Event \ {l},
         NEW b \in BOOLEAN, Suspend(t, e, b)
  PROVE  queue'[l] = queue[l]
  BY EventTypes DEF Suspend, TypeOK

LEMMA DieWakes ==
  ASSUME NEW l \in Lock, TypeOK, NEW t \in Thread, NEW err, NEW by, Die(t, err, by)
  PROVE  /\ l \in events' \/ inside'[l] = inside[l]
         /\ events \subseteq events'
  BY DEF Die, TypeOK

LEMMA ExecutesWakes ==
  ASSUME NEW l \in Lock, TypeOK, TypeOK', Awaited(l), NEW t \in Thread, Executes(t)
  PROVE  Awaited(l)'
  <1>0. /\ inside[l] \in Nat /\ l \in Event
        /\ \A e \in Message \cup {"event:yield", "event:sleep"} : e \in Event \ {l}
    BY EventTypes, EventAssumption DEF TypeOK
  <1>1. ASSUME NEW e \in Event \ {l}, NEW b \in BOOLEAN, Wait(t, e, b) PROVE Quiet(l)
    <2>1. queue'[l] = queue[l]
      BY <1>1, OtherWait DEF Wait
    <2> QED BY <1>0, <1>1, <2>1 DEF Wait, Quiet, loopVars, lockVars
  <1>2. ASSUME NEW s \in Socket, NEW b \in BOOLEAN, WaitSocket(t, s, b) PROVE Quiet(l)
    BY <1>0, <1>2 DEF WaitSocket, Quiet, loopVars, lockVars
  <1>3. ASSUME NEW err \in BOOLEAN, End(t, err) PROVE Awaited(l)'
    <2>1. l \in events' \/ Quiet(l)
      BY <1>0, <1>3, DieWakes DEF End, Quiet, loopVars, waitVars
    <2> QED BY <2>1, QuietStep DEF Awaited
  <1>4. ASSUME NEW k \in Lock, NEW b \in BOOLEAN, LockIt(t, k, b) \/ LockAgain(t, k, b)
        PROVE  Awaited(l)'
    <2>1. UNCHANGED <<events, events_tmp>>
      BY <1>4 DEF LockIt, LockAgain, loopVars
    <2>2. CASE Enter(t, k)
      <3>1. inside'[l] >= inside[l] /\ queue' = queue
        BY <1>0, <2>2 DEF Enter, TypeOK
      <3> QED BY <2>1, <3>1, QuietStep DEF Quiet
    <2>3. CASE GiveUp(t, k)
      BY <1>0, <2>1, <2>3, QuietStep DEF GiveUp, Quiet
    <2>4. CASE Block(t, k, b) /\ k = l
      BY <1>0, <2>4, LockAssumption DEF Block, Awaited
    <2>5. CASE Block(t, k, b) /\ k # l
      <3>1. k \in Event \ {l}
        BY <2>5, EventTypes
      <3>2. queue'[l] = queue[l]
        BY <2>5, <3>1, OtherWait DEF Block
      <3> QED BY <1>0, <2>1, <2>5, <3>2, QuietStep DEF Block, Quiet
    <2> QED BY <1>4, <2>2, <2>3, <2>4, <2>5 DEF LockIt, LockAgain
  <1>5. ASSUME NEW k \in Lock, Unlock(t, k) PROVE Awaited(l)'
    <2>1. CASE k = l
      BY <1>5, <2>1 DEF Unlock, Awaited
    <2>2. CASE k # l
      <3>1. /\ inside'[l] = inside[l] /\ queue' = queue
            /\ events \subseteq events' /\ events_tmp' = events_tmp
        BY <1>5, <2>2 DEF Unlock, loopVars, waitVars, TypeOK
      <3> QED BY <1>0, <3>1, QuietStep DEF Quiet
    <2> QED BY <2>1, <2>2
  <1>6. ASSUME NEW e \in Message, Fire(t, e) PROVE Quiet(l)
    BY <1>0, <1>6 DEF Fire, Quiet, loopVars, waitVars, lockVars
  <1>7. ASSUME NEW u \in Thread, NewThread(t, u) PROVE Quiet(l)
    BY <1>0, <1>7 DEF NewThread, Quiet, loopVars, lockVars
  <1>8. ASSUME NEW u \in Thread, Kill(t, u) PROVE Awaited(l)'
    <2>1. CASE KillParked(t, u)
      <3>1. queue'[l] # <<>> => queue[l] # <<>>
        BY <1>0, <2>1, DropType DEF KillParked, TypeOK
      <3>2. /\ l \in events' \/ inside'[l] = inside[l]
            /\ events \subseteq events'
        BY <2>1, DieWakes DEF KillParked
      <3>3. l \in events' \/ Quiet(l)
        BY <1>0, <1>8, <3>1, <3>2 DEF Kill, Quiet, loopVars
      <3> QED BY <3>3, QuietStep DEF Awaited
    <2>2. CASE KillSelf(t, u)
      <3>1. /\ l \in events' \/ inside'[l] = inside[l]
            /\ events \subseteq events' /\ queue' = queue
        BY <2>2, DieWakes DEF KillSelf
      <3>2. l \in events' \/ Quiet(l)
        BY <1>0, <1>8, <3>1 DEF Kill, Quiet, loopVars
      <3> QED BY <3>2, QuietStep DEF Awaited
    <2> QED BY <1>8, <2>1, <2>2 DEF Kill
  <1>9. CASE GivesControl(t)
    <2>1. Yield(t) \/ Sleep(t) => Quiet(l)
      BY <1>0, <1>1 DEF Yield, Sleep
    <2>2. ASSUME NEW e \in Message, NEW b \in BOOLEAN, Wait(t, e, b) PROVE Quiet(l)
      BY <1>0, <1>1, <2>2
    <2> QED BY <1>2, <1>3, <1>9, <2>1, <2>2, QuietStep DEF GivesControl
  <1> QED BY <1>4, <1>5, <1>6, <1>7, <1>8, <1>9, QuietStep DEF Executes, Locks

LEMMA LoopWakes ==
  ASSUME NEW l \in Lock, TypeOK, TypeOK', Pending, Awaited(l), Loop
  PROVE  Awaited(l)'
  <1>0. l \in Event /\ inside[l] \in Nat /\ inside' = inside
    BY EventTypes, LoopKeeps DEF TypeOK, lockVars
  <1>1. CASE StartEvents
    BY <1>0, <1>1 DEF StartEvents, Top, Pending, Fired, Waited, Awaited, waitVars
  <1>2. CASE RunNew \/ StartSockets \/ RunThread \/ EndScan
    BY <1>0, <1>2, QuietStep
       DEF RunNew, StartSockets, RunThread, EndScan, Resume, Fired, Quiet, loopVars, waitVars
  <1>3. ASSUME NEW e \in Event, TakeThreads(e) PROVE Awaited(l)'
    BY <1>0, <1>3 DEF TakeThreads, Awaited, TypeOK
  <1>4. ASSUME NEW e \in Event, LookForTimeouts(e) PROVE Quiet(l)
    BY <1>0, <1>4 DEF LookForTimeouts, Quiet, waitVars
  <1>5. ASSUME NEW t \in Thread, RunTimedOut(t) PROVE Quiet(l)
    <2>1. queue'[l] # <<>> => queue[l] # <<>>
      BY <1>0, <1>5 DEF RunTimedOut, ScanAt, TypeOK
    <2> QED BY <1>0, <1>5, <2>1 DEF RunTimedOut, Resume, Quiet
  <1>6. ASSUME NEW t \in Thread, SkipThread(t) PROVE Quiet(l)
    BY <1>0, <1>6 DEF SkipThread, Quiet, waitVars
  <1>7. ASSUME NEW s \in Socket, TakeSocket(s) PROVE Quiet(l)
    BY <1>0, <1>7 DEF TakeSocket, Quiet
  <1> QED BY <1>1, <1>2, <1>3, <1>4, <1>5, <1>6, <1>7, QuietStep DEF Loop

\* A thread that waits in lock while there is room is about to be woken.
THEOREM WakeupKept == Spec => []NoLostWakeup
  <1>1. Init => Pending /\ NoLostWakeup
    BY EventTypes DEF Init, Pending, NoLostWakeup
  <1>2. TypeOK /\ TypeOK' /\ Pending /\ NoLostWakeup /\ [Next]_vars => Pending' /\ NoLostWakeup'
    <2> SUFFICES ASSUME TypeOK, TypeOK', Pending, NoLostWakeup, [Next]_vars
                 PROVE  NoLostWakeup'
      BY PendingStep
    <2> SUFFICES ASSUME NEW l \in Lock PROVE Awaited(l)'
      BY DEF NoLostWakeup, Awaited
    <2>1. Awaited(l)
      BY DEF NoLostWakeup, Awaited
    <2>2. CASE UNCHANGED vars
      BY <2>1, <2>2 DEF vars, Awaited
    <2> QED BY <2>1, <2>2, ExecutesWakes, LoopWakes DEF Next
  <1> QED BY <1>1, <1>2, TypeCorrect, PTL DEF Spec

----------------------------------------------------------------------------
(* Semaphores with room for one *)

LEMMA AtMostOne ==
  ASSUME Inv, NEW l \in Exclusive
  PROVE  /\ inside[l] = 0 => Holders(l) = {}
         /\ \A t \in Holders(l) : Holders(l) = {t}
  <1>0. /\ l \in Lock /\ inside[l] \in Nat
        /\ Cardinality(Holders(l)) <= inside[l] /\ inside[l] <= 1
        /\ IsFiniteSet(Holders(l)) /\ Cardinality(Holders(l)) \in Nat
    BY HoldersFinite DEF Exclusive, Inv, TypeOK, NeverOverfull
  <1>1. inside[l] = 0 => Holders(l) = {}
    BY <1>0, FS_EmptySet
  <1>2. ASSUME NEW t \in Holders(l) PROVE Holders(l) = {t}
    <2>1. Cardinality(Holders(l) \ {t}) = Cardinality(Holders(l)) - 1
      BY <1>0, FS_RemoveElement
    <2>2. IsFiniteSet(Holders(l) \ {t}) /\ Cardinality(Holders(l) \ {t}) \in Nat
      BY <1>0, FS_RemoveElement, FS_CardinalityType
    <2>3. Cardinality(Holders(l) \ {t}) = 0
      BY <1>0, <2>1, <2>2
    <2>4. Holders(l) \ {t} = {}
      BY <2>2, <2>3, FS_EmptySet
    <2> QED BY <2>4
  <1> QED BY <1>1, <1>2

\* A thread in a lock of level 2 is on record, and is counted exactly.
Kept ==
  \A l \in Exclusive :
     Secure[l] = 2 => /\ \A t \in Thread : l \in holds[t] => l \in locked_by_thread[t]
                      /\ inside[l] = Cardinality(Holders(l))

LEMMA KeptStep ==
  ASSUME Inv, Kept, [Next]_vars
  PROVE  Kept'
  <1>0. TypeOK /\ Asking /\ Recorded /\ NeverOverfull
    BY DEF Inv
  <1> SUFFICES ASSUME NEW l \in Exclusive, Secure[l] = 2
               PROVE  /\ \A t \in Thread : l \in holds'[t] => l \in locked_by_thread'[t]
                      /\ inside'[l] = Cardinality(Holders(l)')
    BY DEF Kept, Exclusive, Holders
  <1>1. /\ l \in Lock
        /\ \A t \in Thread : l \in holds[t] => l \in locked_by_thread[t]
        /\ inside[l] = Cardinality(Holders(l))
    BY DEF Kept, Exclusive
  <1>2. CASE Enters
    <2> PICK t \in Thread, k \in Lock : k \notin holds[t] /\ Enter(t, k)
      BY <1>2 DEF Enters
    <2>1. inside'[l] = Cardinality(Holders(l)')
      BY <1>0, <1>1, EnterCount
    <2>2. \A u \in Thread : l \in holds'[u] => l \in locked_by_thread'[u]
      BY <1>0, <1>1 DEF Enter, TypeOK
    <2> QED BY <2>1, <2>2
  <1>3. CASE Leaves
    <2> PICK t \in Thread, k \in Lock : Unlock(t, k)
      BY <1>3 DEF Leaves
    <2>1. inside'[l] = Cardinality(Holders(l)')
      BY <1>0, <1>1, LeaveCount
    <2>2. \A u \in Thread : l \in holds'[u] => l \in locked_by_thread'[u]
      BY <1>0, <1>1 DEF Unlock, TypeOK
    <2> QED BY <2>1, <2>2
  <1>4. CASE Dies
    <2> PICK t \in Thread, err \in BOOLEAN, by \in Thread \cup {NoThread} : Die(t, err, by)
      BY <1>4 DEF Dies
    <2>1. l \in Returned(t, err) <=> l \in holds[t]
      BY <1>0, <1>1 DEF Returned, Recorded
    <2>2. inside'[l] = Cardinality(Holders(l)')
      BY <1>0, <1>1, <2>1, DieCount
    <2>3. ASSUME NEW u \in Thread \ {t}, l \in holds[u] PROVE l \notin Returned(t, err)
      <3>1. u \in Holders(l) /\ (l \in holds[t] => t \in Holders(l))
        BY <2>3 DEF Holders
      <3> QED BY <2>1, <3>1, AtMostOne
    <2>4. \A u \in Thread : l \in holds'[u] => l \in locked_by_thread'[u]
      BY <1>0, <1>1, <2>3 DEF Die, TypeOK
    <2> QED BY <2>2, <2>4
  <1>5. CASE Keeps
    BY <1>1, <1>5 DEF Keeps, Holders
  <1> QED BY <1>0, <1>2, <1>3, <1>4, <1>5, Effects

\* A lock of level 2 comes back from every thread that dies in it.
THEOREM ComesBack == Spec => []LockComesBack
  <1>1. Init => Kept
    <2> SUFFICES ASSUME Init, NEW l \in Exclusive PROVE inside[l] = Cardinality(Holders(l))
      BY DEF Kept, Init
    <2>1. Holders(l) = {} /\ inside[l] = 0
      BY DEF Init, Holders, Exclusive
    <2> QED BY <2>1, FS_EmptySet
  <1>2. Inv /\ Kept /\ [Next]_vars => Kept'
    BY KeptStep
  <1>3. Kept => LockComesBack
    BY DEF Kept, LockComesBack, Exclusive
  <1> QED BY <1>1, <1>2, <1>3, InvHolds, PTL DEF Spec

Owner == [l \in Exclusive |-> Holders(l)]

LEMMA MutexStep ==
  ASSUME Inv, [Next]_vars
  PROVE  OneOwner!Next \/ UNCHANGED Owner
  <1>0. TypeOK /\ Asking /\ Recorded /\ NeverOverfull
    BY DEF Inv
  <1>1. CASE Enters
    <2> PICK t \in Thread, k \in Lock : k \notin holds[t] /\ Enter(t, k)
      BY <1>1 DEF Enters
    <2>1. /\ Holders(k)' = Holders(k) \cup {t}
          /\ \A l \in Lock \ {k} : Holders(l)' = Holders(l)
      BY <1>0, EnterCount
    <2>2. CASE k \in Exclusive
      <3>1. inside[k] = 0
        BY <1>0, <2>2 DEF Enter, Exclusive, TypeOK
      <3>2. Holders(k) = {}
        BY <2>2, <3>1, AtMostOne
      <3>3. Owner' = [Owner EXCEPT ![k] = {t}]
        BY <2>1, <2>2, <3>2 DEF Owner, Exclusive
      <3>4. Owner[k] = {}
        BY <2>2, <3>2 DEF Owner
      <3>5. OneOwner!Acquire(t, k)
        BY <3>3, <3>4 DEF OneOwner!Acquire, Owner
      <3> QED BY <2>2, <3>5 DEF OneOwner!Next
    <2>3. CASE k \notin Exclusive
      BY <2>1, <2>3 DEF Owner, Exclusive
    <2> QED BY <2>2, <2>3
  <1>2. CASE Leaves
    <2> PICK t \in Thread, k \in Lock : Unlock(t, k)
      BY <1>2 DEF Leaves
    <2>1. /\ Holders(k)' = Holders(k) \ {t}
          /\ t \in Holders(k)
          /\ \A l \in Lock \ {k} : Holders(l)' = Holders(l)
      BY <1>0, LeaveCount
    <2>2. CASE k \in Exclusive
      <3>1. Holders(k) = {t}
        BY <2>1, <2>2, AtMostOne
      <3>2. Owner' = [l \in Exclusive |-> IF l \in {k} THEN {} ELSE Owner[l]]
        BY <2>1, <2>2, <3>1 DEF Owner, Exclusive
      <3>3. \A l \in {k} : Owner[l] = {t}
        BY <2>2, <3>1 DEF Owner
      <3>4. OneOwner!Release(t, {k})
        BY <3>2, <3>3 DEF OneOwner!Release, Owner
      <3> QED BY <2>2, <3>4 DEF OneOwner!Next
    <2>3. CASE k \notin Exclusive
      BY <2>1, <2>3 DEF Owner, Exclusive
    <2> QED BY <2>2, <2>3
  <1>3. CASE Dies
    <2> PICK t \in Thread, err \in BOOLEAN, by \in Thread \cup {NoThread} : Die(t, err, by)
      BY <1>3 DEF Dies
    <2> DEFINE ls == holds[t] \cap Exclusive
    <2>1. \A l \in Exclusive : /\ Holders(l)' = Holders(l) \ {t}
                               /\ l \in ls <=> t \in Holders(l)
      BY <1>0, DieCount DEF Exclusive
    <2>2. \A l \in ls : Holders(l) = {t}
      BY <2>1, AtMostOne
    <2> HIDE DEF ls
    <2>3. Owner' = [l \in Exclusive |-> IF l \in ls THEN {} ELSE Owner[l]]
      <3>1. \A l \in Exclusive : Holders(l)' = IF l \in ls THEN {} ELSE Owner[l]
        BY <2>1, <2>2 DEF Owner
      <3>2. Owner' = [l \in Exclusive |-> Holders(l)']
        BY DEF Owner, Exclusive
      <3> QED BY <3>1, <3>2
    <2>4. ls \in SUBSET Exclusive /\ \A l \in ls : Owner[l] = {t}
      BY <2>2 DEF Owner, ls
    <2>5. OneOwner!Release(t, ls)
      BY <2>3, <2>4 DEF OneOwner!Release, Owner
    <2> QED BY <2>4, <2>5 DEF OneOwner!Next
  <1>4. CASE Keeps
    BY <1>4 DEF Keeps, Owner, Exclusive, Holders
  <1> QED BY <1>0, <1>1, <1>2, <1>3, <1>4, Effects

\* The semaphores with room for one implement mutexes, for any threads that wait,
\* time out, raise and kill each other.
THEOREM ImplementsMutex == Spec => LocksAreMutexes
  <1>1. Init => OneOwner!Init
    BY DEF Init, OneOwner!Init, Holders, Exclusive
  <1>2. Inv /\ [Next]_vars => [OneOwner!Next]_Owner
    BY MutexStep
  <1>3. Inv /\ [Next]_vars => [OneOwner!Next]_([l \in Exclusive |-> Holders(l)])
    BY <1>2 DEF Owner
  <1> QED BY <1>1, <1>3, InvHolds, PTL DEF Spec, LocksAreMutexes, OneOwner!Spec

----------------------------------------------------------------------------
(* Sequences with no thread twice *)

\* A sequence with no thread twice.
Once(s) == \A i, j \in DOMAIN s : s[i] = s[j] => i = j

LEMMA EmptyOnce == Once(<<>>) /\ \A t : ~In(<<>>, t)
  BY DEF Once, In

LEMMA AppendOnce ==
  ASSUME NEW s \in Seq(Thread), NEW t \in Thread
  PROVE  /\ Once(s) /\ ~In(s, t) => Once(Append(s, t))
         /\ \A u : In(Append(s, t), u) <=> In(s, u) \/ u = t
  <1>1. /\ Len(s) \in Nat /\ DOMAIN s = 1..Len(s) /\ DOMAIN Append(s, t) = 1..(Len(s) + 1)
        /\ Append(s, t)[Len(s) + 1] = t
        /\ \A i \in 1..Len(s) : Append(s, t)[i] = s[i]
    OBVIOUS
  <1> HIDE DEF Append
  <1>2. \A i \in 1..(Len(s) + 1) : i \in 1..Len(s) \/ i = Len(s) + 1
    BY <1>1
  <1>3. \A i \in 1..Len(s) : i \in 1..(Len(s) + 1) /\ i # Len(s) + 1
    BY <1>1
  <1>4. Len(s) + 1 \in 1..(Len(s) + 1)
    BY <1>1
  <1>5. Once(s) /\ ~In(s, t) => Once(Append(s, t))
    BY <1>1, <1>2, <1>3, Zenon DEF Once, In
  <1>6. ASSUME NEW u PROVE In(Append(s, t), u) <=> In(s, u) \/ u = t
    BY <1>1, <1>2, <1>3, <1>4, Zenon DEF In
  <1> QED BY <1>5, <1>6

LEMMA TailOnce ==
  ASSUME NEW s \in Seq(Thread), s # <<>>, Once(s)
  PROVE  /\ Head(s) \in Thread /\ In(s, Head(s)) /\ Once(Tail(s))
         /\ \A u : In(Tail(s), u) <=> In(s, u) /\ u # Head(s)
  <1>1. /\ Len(s) \in Nat \ {0} /\ DOMAIN s = 1..Len(s) /\ Head(s) = s[1]
        /\ DOMAIN Tail(s) = 1..(Len(s) - 1)
        /\ \A i \in 1..(Len(s) - 1) : Tail(s)[i] = s[i + 1]
        /\ \A i \in 1..Len(s) : s[i] \in Thread
    OBVIOUS
  <1>2. /\ 1 \in 1..Len(s)
        /\ \A i \in 1..(Len(s) - 1) : i + 1 \in 1..Len(s) /\ i + 1 # 1
    BY <1>1
  <1>3. \A i \in 1..Len(s) : i # 1 => i - 1 \in 1..(Len(s) - 1) /\ (i - 1) + 1 = i
    BY <1>1
  <1>4. \A i, j \in 1..(Len(s) - 1) : i + 1 = j + 1 => i = j
    BY <1>1
  <1>5. Once(Tail(s))
    BY <1>1, <1>2, <1>4, Zenon DEF Once
  <1>6. ASSUME NEW u PROVE In(Tail(s), u) <=> In(s, u) /\ u # Head(s)
    <2>1. In(Tail(s), u) => In(s, u) /\ u # Head(s)
      BY <1>1, <1>2, Zenon DEF Once, In
    <2>2. ASSUME In(s, u), u # Head(s) PROVE In(Tail(s), u)
      <3>1. PICK i \in 1..Len(s) : s[i] = u
        BY <1>1, <2>2 DEF In
      <3>2. i - 1 \in 1..(Len(s) - 1) /\ Tail(s)[i - 1] = u
        BY <1>1, <1>3, <2>2, <3>1
      <3> QED BY <1>1, <3>2 DEF In
    <2> QED BY <2>1, <2>2
  <1> QED BY <1>1, <1>2, <1>5, <1>6 DEF In

LEMMA RemovedOnce ==
  ASSUME NEW s \in Seq(Thread), Once(s), NEW i \in DOMAIN s
  PROVE  /\ Once(Removed(s, i))
         /\ \A u : In(Removed(s, i), u) <=> In(s, u) /\ u # s[i]
  <1> DEFINE r == Removed(s, i)
  <1>1. /\ Len(s) \in Nat \ {0} /\ DOMAIN s = 1..Len(s) /\ i \in 1..Len(s)
        /\ DOMAIN r = 1..(Len(s) - 1)
        /\ \A k \in 1..(Len(s) - 1) : r[k] = IF k < i THEN s[k] ELSE s[k + 1]
    BY DEF Removed
  <1> HIDE DEF r
  <1>2. ASSUME NEW u, In(r, u) PROVE In(s, u) /\ u # s[i]
    <2>1. PICK k \in 1..(Len(s) - 1) : r[k] = u
      BY <1>1, <1>2 DEF In
    <2>2. PICK m \in 1..Len(s) : m # i /\ s[m] = u
      <3>1. CASE k < i
        BY <1>1, <2>1, <3>1
      <3>2. CASE ~(k < i)
        BY <1>1, <2>1, <3>2
      <3> QED BY <3>1, <3>2
    <2> QED BY <1>1, <2>2 DEF Once, In
  <1>3. ASSUME NEW u, In(s, u), u # s[i] PROVE In(r, u)
    <2>1. PICK m \in 1..Len(s) : m # i /\ s[m] = u
      BY <1>1, <1>3 DEF In
    <2>2. \E k \in 1..(Len(s) - 1) : r[k] = u
      <3>1. CASE m < i
        BY <1>1, <2>1, <3>1
      <3>2. CASE m > i
        <4>1. m - 1 \in 1..(Len(s) - 1) /\ r[m - 1] = s[(m - 1) + 1]
          BY <1>1, <2>1, <3>2
        <4> QED BY <1>1, <2>1, <4>1
      <3> QED BY <1>1, <2>1, <3>1, <3>2
    <2> QED BY <1>1, <2>2 DEF In
  <1>4. Once(r)
    <2> SUFFICES ASSUME NEW k \in 1..(Len(s) - 1), NEW m \in 1..(Len(s) - 1), r[k] = r[m]
                 PROVE  k = m
      BY <1>1 DEF Once
    <2>1. \A a, b \in 1..Len(s) : s[a] = s[b] => a = b
      BY <1>1 DEF Once
    <2>2. CASE k < i /\ m < i
      BY <1>1, <2>1, <2>2
    <2>3. CASE k < i /\ ~(m < i)
      <3>1. s[k] = s[m + 1] /\ k # m + 1 /\ k \in 1..Len(s) /\ m + 1 \in 1..Len(s)
        BY <1>1, <2>3
      <3> QED BY <2>1, <3>1
    <2>4. CASE ~(k < i) /\ m < i
      <3>1. s[k + 1] = s[m] /\ k + 1 # m /\ k + 1 \in 1..Len(s) /\ m \in 1..Len(s)
        BY <1>1, <2>4
      <3> QED BY <2>1, <3>1
    <2>5. CASE ~(k < i) /\ ~(m < i)
      <3>1. s[k + 1] = s[m + 1] /\ k + 1 \in 1..Len(s) /\ m + 1 \in 1..Len(s)
        BY <1>1, <2>5
      <3>2. k + 1 = m + 1
        BY <2>1, <3>1
      <3> QED BY <3>2
    <2> QED BY <2>2, <2>3, <2>4, <2>5
  <1> QED BY <1>2, <1>3, <1>4 DEF r

LEMMA DropOnce ==
  ASSUME NEW s \in Seq(Thread), Once(s), NEW t
  PROVE  /\ Once(Drop(s, t))
         /\ \A u : In(Drop(s, t), u) <=> In(s, u) /\ u # t
  <1>1. CASE In(s, t)
    <2>1. PICK i \in DOMAIN s : s[i] = t /\ Drop(s, t) = Removed(s, i)
      BY <1>1 DEF In, Drop
    <2> QED BY <2>1, RemovedOnce
  <1>2. CASE ~In(s, t)
    BY <1>2 DEF Drop, In
  <1> QED BY <1>1, <1>2

LEMMA SwappedOnce ==
  ASSUME NEW s \in Seq(Thread), Once(s), NEW i \in DOMAIN s
  PROVE  /\ Once(Swapped(s, i))
         /\ \A u : In(Swapped(s, i), u) <=> In(s, u) /\ u # s[i]
  <1> DEFINE r == Swapped(s, i)
             n == Len(s)
  <1>1. /\ n \in Nat \ {0} /\ DOMAIN s = 1..n /\ i \in 1..n /\ n \in 1..n
        /\ DOMAIN r = 1..(n - 1)
        /\ \A k \in 1..(n - 1) : r[k] = IF k = i THEN s[n] ELSE s[k]
    BY DEF Swapped
  <1> HIDE DEF r, n
  <1>2. \A k \in 1..(n - 1) : k \in 1..n /\ k # n
    BY <1>1
  <1>3. \A k \in 1..n : k # n => k \in 1..(n - 1)
    BY <1>1
  <1>4. \A a, b \in 1..n : s[a] = s[b] => a = b
    BY <1>1 DEF Once
  <1>5. ASSUME NEW u, In(r, u) PROVE In(s, u) /\ u # s[i]
    <2>1. PICK k \in 1..(n - 1) : r[k] = u
      BY <1>1, <1>5 DEF In
    <2>2. PICK m \in 1..n : m # i /\ s[m] = u
      <3>1. CASE k = i
        BY <1>1, <1>2, <2>1, <3>1
      <3>2. CASE k # i
        BY <1>1, <1>2, <2>1, <3>2
      <3> QED BY <3>1, <3>2
    <2> QED BY <1>1, <1>4, <2>2 DEF In
  <1>6. ASSUME NEW u, In(s, u), u # s[i] PROVE In(r, u)
    <2>1. PICK m \in 1..n : m # i /\ s[m] = u
      BY <1>1, <1>6 DEF In
    <2>2. \E k \in 1..(n - 1) : r[k] = u
      <3>1. CASE m = n
        BY <1>1, <1>3, <2>1, <3>1
      <3>2. CASE m # n
        BY <1>1, <1>3, <2>1, <3>2
      <3> QED BY <3>1, <3>2
    <2> QED BY <1>1, <2>2 DEF In
  <1>7. Once(r)
    <2> SUFFICES ASSUME NEW k \in 1..(n - 1), NEW m \in 1..(n - 1), r[k] = r[m] PROVE k = m
      BY <1>1 DEF Once
    <2> QED BY <1>1, <1>2, <1>4
  <1> QED BY <1>5, <1>6, <1>7 DEF r

----------------------------------------------------------------------------
(* One place *)

\* Where t is not: in the lists of the loop, in a queue, in the queue of a socket.
Loose(t) == ~In(new_threads, t) /\ ~In(tmp, t) /\ running # t
NotQueued(t) == \A e \in Event : ~In(queue[e], t)
NotPolled(t) == \A s \in Socket : ~In(socket_queue[s], t)

Nowhere(t) == Loose(t) /\ NotQueued(t) /\ NotPolled(t)

\* t is in one place only: of the loop, of an event or of a socket.
InLoop(t) ==
  /\ NotQueued(t) /\ NotPolled(t)
  /\ \/ In(new_threads, t) /\ ~In(tmp, t) /\ running # t
     \/ In(tmp, t) /\ ~In(new_threads, t) /\ running # t
     \/ running = t /\ ~In(new_threads, t) /\ ~In(tmp, t)

InQueue(t, e) ==
  /\ In(queue[e], t) /\ \A f \in Event \ {e} : ~In(queue[f], t)
  /\ Loose(t) /\ NotPolled(t)

InSocket(t, s) ==
  /\ In(socket_queue[s], t) /\ \A r \in Socket \ {s} : ~In(socket_queue[r], t)
  /\ Loose(t) /\ NotQueued(t)

Placed(t) ==
  InLoop(t) \/ (\E e \in Event : InQueue(t, e)) \/ (\E s \in Socket : InSocket(t, s))

Accounted(t) ==
  IF t \in threads_ref THEN Placed(t) ELSE Nowhere(t) /\ t \notin timeouts

Lines ==
  /\ Once(new_threads) /\ Once(tmp)
  /\ \A e \in Event : Once(queue[e])
  /\ \A s \in Socket : Once(socket_queue[s])

\* A thread that runs has no timeout: it may die there, with kill looking for
\* another one.
Tidy == Lines /\ running \notin timeouts /\ \A t \in Thread : Accounted(t)

\* The step leaves u where it is.
Stays(u) ==
  /\ In(new_threads', u) <=> In(new_threads, u)
  /\ In(tmp', u) <=> In(tmp, u)
  /\ running' = u <=> running = u
  /\ \A e \in Event : In(queue'[e], u) <=> In(queue[e], u)
  /\ \A s \in Socket : In(socket_queue'[s], u) <=> In(socket_queue[s], u)

LEMMA StaysPlaced ==
  ASSUME NEW u, Stays(u)
  PROVE  (Placed(u)' <=> Placed(u)) /\ (Nowhere(u)' <=> Nowhere(u))
  BY DEF Stays, Placed, Nowhere, InLoop, InQueue, InSocket, Loose, NotQueued, NotPolled

\* The step does not concern u.
Untouched(u) ==
  /\ Stays(u)
  /\ u \in threads_ref' <=> u \in threads_ref
  /\ u \in timeouts' => u \in timeouts \/ u \in threads_ref

LEMMA UntouchedAccounted ==
  ASSUME NEW u, Accounted(u), Untouched(u)
  PROVE  Accounted(u)'
  BY StaysPlaced DEF Accounted, Untouched

LEMMA Idle ==
  ASSUME TypeOK, running = NoThread
  PROVE  \A t \in Thread : running # t
  BY ThreadAssumption

\* A thread that is somewhere is alive, and is nowhere else.
LEMMA Somewhere ==
  ASSUME Tidy, NEW t \in Thread
  PROVE  /\ running = t => t \in threads_ref /\ NotQueued(t) /\ NotPolled(t)
                           /\ ~In(new_threads, t) /\ ~In(tmp, t)
         /\ In(new_threads, t) => t \in threads_ref /\ NotQueued(t) /\ NotPolled(t)
                                  /\ running # t /\ ~In(tmp, t)
         /\ In(tmp, t) => t \in threads_ref /\ NotQueued(t) /\ NotPolled(t)
                          /\ running # t /\ ~In(new_threads, t)
         /\ \A e \in Event : In(queue[e], t) =>
              t \in threads_ref /\ Loose(t) /\ NotPolled(t)
              /\ \A f \in Event \ {e} : ~In(queue[f], t)
         /\ \A s \in Socket : In(socket_queue[s], t) =>
              t \in threads_ref /\ Loose(t) /\ NotQueued(t)
              /\ \A r \in Socket \ {s} : ~In(socket_queue[r], t)
  <1>1. Accounted(t)
    BY DEF Tidy
  <1> QED BY <1>1, Zenon
          DEF Accounted, Placed, Nowhere, InLoop, InQueue, InSocket, Loose, NotQueued, NotPolled

LEMMA UntouchedTidy ==
  ASSUME Tidy, Lines', running' \notin timeouts', \A u \in Thread : Untouched(u)
  PROVE  Tidy'
  BY UntouchedAccounted DEF Tidy

\* What the actions that wait have in common.
LEMMA SuspendTidy ==
  ASSUME TypeOK, Tidy, NEW t \in Thread, running = t, NEW e \in Event,
         NEW b \in BOOLEAN, Suspend(t, e, b),
         UNCHANGED <<new_threads, socket_queue, tmp, threads_ref>>
  PROVE  Tidy'
  <1>1. /\ queue[e] \in Seq(Thread) /\ queue'[e] = Append(queue[e], t)
        /\ \A f \in Event \ {e} : queue'[f] = queue[f]
        /\ running' = NoThread
        /\ timeouts \subseteq timeouts' /\ timeouts' \subseteq timeouts \cup {t}
        /\ timeouts \subseteq Thread
    BY DEF Suspend, TypeOK
  <1>2. /\ t \in threads_ref /\ NotQueued(t) /\ NotPolled(t)
        /\ ~In(new_threads, t) /\ ~In(tmp, t)
    BY Somewhere
  <1>3. /\ Once(queue'[e])
        /\ \A u : In(queue'[e], u) <=> In(queue[e], u) \/ u = t
    BY <1>1, <1>2, AppendOnce DEF Tidy, Lines, NotQueued
  <1>4. Lines'
    BY <1>1, <1>3 DEF Tidy, Lines
  <1>5. running' \notin timeouts'
    BY <1>1, ThreadAssumption
  <1>6. ASSUME NEW u \in Thread, u # t PROVE Accounted(u)'
    <2>1. Stays(u)
      BY <1>1, <1>3, <1>6, ThreadAssumption DEF Stays
    <2> QED BY <1>1, <1>6, <2>1, UntouchedAccounted DEF Tidy, Untouched
  <1>7. Accounted(t)'
    <2>1. Loose(t)' /\ NotPolled(t)' /\ \A f \in Event \ {e} : ~In(queue'[f], t)
      BY <1>1, <1>2, ThreadAssumption DEF Loose, NotPolled, NotQueued
    <2>2. InQueue(t, e)'
      BY <1>3, <2>1 DEF InQueue
    <2> QED BY <1>2, <2>2 DEF Accounted, Placed
  <1> QED BY <1>4, <1>5, <1>6, <1>7 DEF Tidy

LEMMA WaitSocketTidy ==
  ASSUME TypeOK, Tidy, NEW t \in Thread, NEW z \in Socket, NEW b \in BOOLEAN,
         WaitSocket(t, z, b)
  PROVE  Tidy'
  <1>1. /\ running = t /\ running' = NoThread
        /\ socket_queue[z] \in Seq(Thread) /\ socket_queue'[z] = Append(socket_queue[z], t)
        /\ \A r \in Socket \ {z} : socket_queue'[r] = socket_queue[r]
        /\ timeouts \subseteq timeouts' /\ timeouts' \subseteq timeouts \cup {t}
        /\ timeouts \subseteq Thread
        /\ UNCHANGED <<new_threads, queue, tmp, threads_ref>>
    BY DEF WaitSocket, Free, loopVars, TypeOK
  <1>2. /\ t \in threads_ref /\ NotQueued(t) /\ NotPolled(t)
        /\ ~In(new_threads, t) /\ ~In(tmp, t)
    BY <1>1, Somewhere
  <1>3. /\ Once(socket_queue'[z])
        /\ \A u : In(socket_queue'[z], u) <=> In(socket_queue[z], u) \/ u = t
    BY <1>1, <1>2, AppendOnce DEF Tidy, Lines, NotPolled
  <1>4. Lines'
    BY <1>1, <1>3 DEF Tidy, Lines
  <1>5. running' \notin timeouts'
    BY <1>1, ThreadAssumption
  <1>6. ASSUME NEW u \in Thread, u # t PROVE Accounted(u)'
    <2>1. Stays(u)
      BY <1>1, <1>3, <1>6, ThreadAssumption DEF Stays
    <2> QED BY <1>1, <1>6, <2>1, UntouchedAccounted DEF Tidy, Untouched
  <1>7. Accounted(t)'
    <2>1. Loose(t)' /\ NotQueued(t)' /\ \A r \in Socket \ {z} : ~In(socket_queue'[r], t)
      BY <1>1, <1>2, ThreadAssumption DEF Loose, NotPolled, NotQueued
    <2>2. InSocket(t, z)'
      BY <1>3, <2>1 DEF InSocket
    <2> QED BY <1>1, <1>2, <2>2 DEF Accounted, Placed
  <1> QED BY <1>4, <1>5, <1>6, <1>7 DEF Tidy

LEMMA NewThreadTidy ==
  ASSUME TypeOK, Tidy, NEW t \in Thread, NEW v \in Thread, NewThread(t, v)
  PROVE  Tidy'
  <1>1. /\ v \notin threads_ref /\ threads_ref' = threads_ref \cup {v}
        /\ new_threads \in Seq(Thread) /\ new_threads' = Append(new_threads, v)
        /\ UNCHANGED <<running, queue, socket_queue, timeouts, tmp>>
    BY DEF NewThread, loopVars, TypeOK
  <1>2. Nowhere(v) /\ v \notin timeouts
    BY <1>1 DEF Tidy, Accounted
  <1>3. /\ Once(new_threads')
        /\ \A u : In(new_threads', u) <=> In(new_threads, u) \/ u = v
    BY <1>1, <1>2, AppendOnce DEF Tidy, Lines, Nowhere, Loose
  <1>4. Lines' /\ running' \notin timeouts'
    BY <1>1, <1>3 DEF Tidy, Lines
  <1>5. ASSUME NEW u \in Thread, u # v PROVE Accounted(u)'
    <2>1. Stays(u)
      BY <1>1, <1>3, <1>5 DEF Stays
    <2> QED BY <1>1, <1>5, <2>1, UntouchedAccounted DEF Tidy, Untouched
  <1>6. Accounted(v)'
    <2>1. InLoop(v)'
      BY <1>1, <1>2, <1>3 DEF InLoop, Nowhere, Loose, NotQueued, NotPolled
    <2> QED BY <1>1, <2>1 DEF Accounted, Placed
  <1> QED BY <1>4, <1>5, <1>6 DEF Tidy

\* The thread that runs dies, by itself or in the place of another; kill forgets
\* the timeout of the other one.
LEMMA DiesRunning ==
  ASSUME TypeOK, Tidy, NEW t \in Thread, running = t, running' = NoThread,
         threads_ref' = threads_ref \ {t}, timeouts' \subseteq timeouts,
         UNCHANGED <<new_threads, queue, socket_queue, tmp>>
  PROVE  Tidy'
  <1>1. /\ NotQueued(t) /\ NotPolled(t) /\ ~In(new_threads, t) /\ ~In(tmp, t)
        /\ t \notin timeouts /\ timeouts \subseteq Thread
    BY Somewhere DEF Tidy, TypeOK
  <1>2. Lines' /\ running' \notin timeouts'
    BY <1>1, ThreadAssumption DEF Tidy, Lines
  <1>3. ASSUME NEW u \in Thread, u # t PROVE Accounted(u)'
    <2>1. Stays(u)
      BY <1>3, ThreadAssumption DEF Stays
    <2> QED BY <1>3, <2>1, UntouchedAccounted DEF Tidy, Untouched
  <1>4. Accounted(t)'
    <2>1. Nowhere(t)'
      BY <1>1, ThreadAssumption DEF Nowhere, Loose, NotQueued, NotPolled
    <2> QED BY <1>1, <2>1 DEF Accounted
  <1> QED BY <1>2, <1>3, <1>4 DEF Tidy

LEMMA KillTidy ==
  ASSUME TypeOK, Tidy, NEW t \in Thread, NEW v \in Thread, Kill(t, v)
  PROVE  Tidy'
  <1>1. running = t /\ timeouts' = timeouts \ {v} /\ tmp' = tmp /\ v \in threads_ref
    BY DEF Kill, Free, loopVars
  <1>2. CASE KillSelf(t, v)
    BY <1>1, <1>2, DiesRunning DEF KillSelf, Die
  <1>3. CASE KillParked(t, v)
    <2>1. /\ running' = running /\ threads_ref' = threads_ref \ {v}
          /\ new_threads' = Drop(new_threads, v)
          /\ \A e \in Event : queue'[e] = Drop(queue[e], v)
          /\ \A s \in Socket : socket_queue'[s] = Drop(socket_queue[s], v)
      BY <1>3 DEF KillParked, Die
    <2>2. running # v /\ ~In(tmp, v)
      BY <1>3, Somewhere DEF KillParked, Parked, Loose, NotQueued, NotPolled
    <2>t. /\ new_threads \in Seq(Thread) /\ Once(new_threads)
          /\ \A e \in Event : queue[e] \in Seq(Thread) /\ Once(queue[e])
          /\ \A s \in Socket : socket_queue[s] \in Seq(Thread) /\ Once(socket_queue[s])
      BY DEF TypeOK, Tidy, Lines
    <2>3. /\ Once(new_threads')
          /\ \A u : In(new_threads', u) <=> In(new_threads, u) /\ u # v
      BY <2>t, <2>1, DropOnce
    <2>4. ASSUME NEW e \in Event
          PROVE  /\ Once(queue'[e])
                 /\ \A u : In(queue'[e], u) <=> In(queue[e], u) /\ u # v
      BY <2>t, <2>1, DropOnce
    <2>5. ASSUME NEW s \in Socket
          PROVE  /\ Once(socket_queue'[s])
                 /\ \A u : In(socket_queue'[s], u) <=> In(socket_queue[s], u) /\ u # v
      BY <2>t, <2>1, DropOnce
    <2>6. Lines' /\ running' \notin timeouts'
      BY <1>1, <2>1, <2>3, <2>4, <2>5 DEF Tidy, Lines
    <2>7. ASSUME NEW u \in Thread, u # v PROVE Accounted(u)'
      <3>1. Stays(u)
        BY <1>1, <2>1, <2>3, <2>4, <2>5, <2>7 DEF Stays
      <3> QED BY <1>1, <2>1, <2>7, <3>1, UntouchedAccounted DEF Tidy, Untouched
    <2>8. Accounted(v)'
      <3>1. Nowhere(v)'
        BY <1>1, <2>1, <2>2, <2>3, <2>4, <2>5 DEF Nowhere, Loose, NotQueued, NotPolled
      <3> QED BY <1>1, <2>1, <3>1 DEF Accounted
    <2> QED BY <2>6, <2>7, <2>8 DEF Tidy
  <1> QED BY <1>2, <1>3 DEF Kill

LEMMA ExecutesTidy ==
  ASSUME TypeOK, Tidy, NEW t \in Thread, Executes(t)
  PROVE  Tidy'
  <1>1. ASSUME NEW e \in Event, NEW b \in BOOLEAN, Wait(t, e, b) PROVE Tidy'
    BY <1>1, SuspendTidy DEF Wait, Free, loopVars
  <1>2. ASSUME NEW err \in BOOLEAN, End(t, err) PROVE Tidy'
    BY <1>2, DiesRunning DEF End, Free, Die, waitVars, loopVars
  <1>3. ASSUME UNCHANGED <<running, new_threads, queue, socket_queue, timeouts, tmp, threads_ref>>
        PROVE  Tidy'
    <2>1. Lines' /\ running' \notin timeouts'
      BY <1>3 DEF Tidy, Lines
    <2>2. \A u \in Thread : Untouched(u)
      BY <1>3 DEF Untouched, Stays
    <2> QED BY <2>1, <2>2, UntouchedTidy
  <1>4. ASSUME NEW l \in Lock, NEW b \in BOOLEAN, LockIt(t, l, b) \/ LockAgain(t, l, b)
        PROVE  Tidy'
    <2>1. l \in Event /\ running = t
      BY <1>4, EventTypes DEF LockIt, LockAgain, Free
    <2>2. UNCHANGED <<new_threads, socket_queue, tmp, threads_ref>>
      BY <1>4 DEF LockIt, LockAgain, loopVars
    <2>3. CASE Suspend(t, l, b)
      BY <2>1, <2>2, <2>3, SuspendTidy
    <2>4. CASE UNCHANGED <<running, queue, timeouts>>
      BY <1>3, <2>2, <2>4
    <2>5. Suspend(t, l, b) \/ UNCHANGED <<running, queue, timeouts>>
      BY <1>4 DEF LockIt, LockAgain, Enter, Block, GiveUp
    <2> QED BY <2>3, <2>4, <2>5
  <1>5. ASSUME NEW l \in Lock, Unlock(t, l) PROVE Tidy'
    BY <1>3, <1>5 DEF Unlock, waitVars, loopVars
  <1>6. ASSUME NEW e \in Message, Fire(t, e) PROVE Tidy'
    BY <1>3, <1>6 DEF Fire, waitVars, loopVars
  <1>7. CASE GivesControl(t)
    BY <1>1, <1>2, <1>7, EventTypes, WaitSocketTidy DEF GivesControl, Yield, Sleep
  <1> QED BY <1>4, <1>5, <1>6, <1>7, NewThreadTidy, KillTidy DEF Executes, Locks

\* The loop resumes v, which it takes from where it was.
LEMMA ResumeTidy ==
  ASSUME TypeOK, Tidy, Lines', NEW v \in Thread, v \in threads_ref, Resume(v),
         running = NoThread,
         ~In(new_threads', v), ~In(tmp', v), NotQueued(v)', NotPolled(v)',
         \A u \in Thread \ {v} :
           /\ In(new_threads', u) <=> In(new_threads, u)
           /\ In(tmp', u) <=> In(tmp, u)
           /\ \A e \in Event : In(queue'[e], u) <=> In(queue[e], u)
           /\ \A s \in Socket : In(socket_queue'[s], u) <=> In(socket_queue[s], u)
  PROVE  Tidy'
  <1>1. running' = v /\ timeouts' = timeouts \ {v} /\ threads_ref' = threads_ref
    BY DEF Resume
  <1>2. ASSUME NEW u \in Thread, u # v PROVE Accounted(u)'
    <2>1. Stays(u)
      BY <1>1, <1>2, ThreadAssumption DEF Stays
    <2> QED BY <1>1, <1>2, <2>1, UntouchedAccounted DEF Tidy, Untouched
  <1>3. Accounted(v)'
    <2>1. InLoop(v)'
      BY <1>1 DEF InLoop
    <2> QED BY <1>1, <2>1 DEF Accounted, Placed
  <1> QED BY <1>1, <1>2, <1>3 DEF Tidy

LEMMA RunNewTidy ==
  ASSUME TypeOK, Tidy, RunNew
  PROVE  Tidy'
  <1>1. /\ running = NoThread /\ new_threads # <<>> /\ new_threads \in Seq(Thread)
        /\ new_threads' = Tail(new_threads) /\ Resume(Head(new_threads))
        /\ UNCHANGED <<queue, socket_queue, tmp>>
    BY DEF RunNew, Top, Looping, loopVars, TypeOK
  <1>v. PICK v \in Thread : v = Head(new_threads)
    BY <1>1
  <1>2. /\ Resume(v) /\ In(new_threads, v) /\ Once(new_threads')
        /\ \A u : In(new_threads', u) <=> In(new_threads, u) /\ u # v
    BY <1>1, <1>v, TailOnce DEF Tidy, Lines
  <1>3. v \in threads_ref /\ NotQueued(v) /\ NotPolled(v) /\ ~In(tmp, v)
    BY <1>2, Somewhere
  <1>4. Lines'
    BY <1>1, <1>2 DEF Tidy, Lines
  <1>5. NotQueued(v)' /\ NotPolled(v)' /\ ~In(new_threads', v) /\ ~In(tmp', v)
    BY <1>1, <1>2, <1>3 DEF NotQueued, NotPolled
  <1> QED BY <1>1, <1>2, <1>3, <1>4, <1>5, ResumeTidy

LEMMA RunThreadTidy ==
  ASSUME TypeOK, Tidy, RunThread
  PROVE  Tidy'
  <1>1. /\ running = NoThread /\ tmp # <<>> /\ tmp \in Seq(Thread)
        /\ tmp' = Tail(tmp) /\ Resume(Head(tmp))
        /\ UNCHANGED <<queue, socket_queue, new_threads>>
    BY DEF RunThread, TypeOK
  <1>v. PICK v \in Thread : v = Head(tmp)
    BY <1>1
  <1>2. /\ Resume(v) /\ In(tmp, v) /\ Once(tmp')
        /\ \A u : In(tmp', u) <=> In(tmp, u) /\ u # v
    BY <1>1, <1>v, TailOnce DEF Tidy, Lines
  <1>3. v \in threads_ref /\ NotQueued(v) /\ NotPolled(v) /\ ~In(new_threads, v)
    BY <1>2, Somewhere
  <1>4. Lines'
    BY <1>1, <1>2 DEF Tidy, Lines
  <1>5. NotQueued(v)' /\ NotPolled(v)' /\ ~In(new_threads', v) /\ ~In(tmp', v)
    BY <1>1, <1>2, <1>3 DEF NotQueued, NotPolled
  <1> QED BY <1>1, <1>2, <1>3, <1>4, <1>5, ResumeTidy

LEMMA RunTimedOutTidy ==
  ASSUME TypeOK, Tidy, NEW v \in Thread, RunTimedOut(v)
  PROVE  Tidy'
  <1> DEFINE e == scan.event
             i == scan.at
  <1>1. /\ running = NoThread /\ e \in Event /\ queue[e] \in Seq(Thread)
        /\ i \in DOMAIN queue[e] /\ queue[e][i] = v /\ Resume(v)
        /\ queue'[e] = Swapped(queue[e], i)
        /\ \A f \in Event \ {e} : queue'[f] = queue[f]
        /\ UNCHANGED <<new_threads, socket_queue, tmp>>
    BY DEF RunTimedOut, ScanAt, TypeOK
  <1> HIDE DEF e, i
  <1>2. /\ In(queue[e], v) /\ Once(queue'[e])
        /\ \A u : In(queue'[e], u) <=> In(queue[e], u) /\ u # v
    <2>1. Once(queue[e])
      BY <1>1 DEF Tidy, Lines
    <2>2. /\ Once(Swapped(queue[e], i))
          /\ \A u : In(Swapped(queue[e], i), u) <=> In(queue[e], u) /\ u # queue[e][i]
      BY <1>1, <2>1, SwappedOnce
    <2> QED BY <1>1, <2>2 DEF In
  <1>3. /\ v \in threads_ref /\ Loose(v) /\ NotPolled(v)
        /\ \A f \in Event \ {e} : ~In(queue[f], v)
    BY <1>1, <1>2, Somewhere
  <1>4. Lines'
    BY <1>1, <1>2 DEF Tidy, Lines
  <1>5. NotQueued(v)' /\ NotPolled(v)' /\ ~In(new_threads', v) /\ ~In(tmp', v)
    BY <1>1, <1>2, <1>3 DEF NotQueued, NotPolled, Loose
  <1>6. \A u \in Thread \ {v}, f \in Event : In(queue'[f], u) <=> In(queue[f], u)
    BY <1>1, <1>2
  <1> QED BY <1>1, <1>3, <1>4, <1>5, <1>6, ResumeTidy

\* The loop takes all who wait for an event.
LEMMA TakeThreadsTidy ==
  ASSUME TypeOK, Tidy, NEW e \in Event, TakeThreads(e)
  PROVE  Tidy'
  <1>1. /\ running = NoThread /\ tmp = <<>> /\ tmp' = queue[e] /\ queue'[e] = <<>>
        /\ \A f \in Event \ {e} : queue'[f] = queue[f]
        /\ UNCHANGED <<running, new_threads, socket_queue, timeouts, threads_ref>>
    BY DEF TakeThreads, Looping, TypeOK
  <1>2. Lines' /\ running' \notin timeouts'
    BY <1>1, EmptyOnce DEF Tidy, Lines
  <1>3. ASSUME NEW u \in Thread PROVE Accounted(u)'
    <2>1. CASE In(queue[e], u)
      <3>1. /\ u \in threads_ref /\ Loose(u) /\ NotPolled(u)
            /\ \A f \in Event \ {e} : ~In(queue[f], u)
        BY <2>1, Somewhere
      <3>2. NotQueued(u)' /\ NotPolled(u)' /\ In(tmp', u)
        BY <1>1, <2>1, <3>1, EmptyOnce DEF NotQueued, NotPolled
      <3>3. InLoop(u)'
        BY <1>1, <3>1, <3>2 DEF InLoop, Loose
      <3> QED BY <1>1, <3>1, <3>3 DEF Accounted, Placed
    <2>2. CASE ~In(queue[e], u)
      <3>1. Stays(u)
        BY <1>1, <2>2, EmptyOnce DEF Stays
      <3> QED BY <1>1, <3>1, UntouchedAccounted DEF Tidy, Untouched
    <2> QED BY <2>1, <2>2
  <1> QED BY <1>2, <1>3 DEF Tidy

LEMMA TakeSocketTidy ==
  ASSUME TypeOK, Tidy, NEW z \in Socket, TakeSocket(z)
  PROVE  Tidy'
  <1>1. /\ running = NoThread /\ tmp = <<>> /\ tmp' = socket_queue[z]
        /\ socket_queue'[z] = <<>>
        /\ \A r \in Socket \ {z} : socket_queue'[r] = socket_queue[r]
        /\ UNCHANGED <<running, new_threads, queue, timeouts, threads_ref>>
    BY DEF TakeSocket, Looping, TypeOK
  <1>2. Lines' /\ running' \notin timeouts'
    BY <1>1, EmptyOnce DEF Tidy, Lines
  <1>3. ASSUME NEW u \in Thread PROVE Accounted(u)'
    <2>1. CASE In(socket_queue[z], u)
      <3>1. /\ u \in threads_ref /\ Loose(u) /\ NotQueued(u)
            /\ \A r \in Socket \ {z} : ~In(socket_queue[r], u)
        BY <2>1, Somewhere
      <3>2. NotQueued(u)' /\ NotPolled(u)' /\ In(tmp', u)
        BY <1>1, <2>1, <3>1, EmptyOnce DEF NotQueued, NotPolled
      <3>3. InLoop(u)'
        BY <1>1, <3>1, <3>2 DEF InLoop, Loose
      <3> QED BY <1>1, <3>1, <3>3 DEF Accounted, Placed
    <2>2. CASE ~In(socket_queue[z], u)
      <3>1. Stays(u)
        BY <1>1, <2>2, EmptyOnce DEF Stays
      <3> QED BY <1>1, <3>1, UntouchedAccounted DEF Tidy, Untouched
    <2> QED BY <2>1, <2>2
  <1> QED BY <1>2, <1>3 DEF Tidy

LEMMA NextTidy ==
  ASSUME TypeOK, Tidy, [Next]_vars
  PROVE  Tidy'
  <1>1. ASSUME UNCHANGED <<running, new_threads, queue, socket_queue, timeouts, tmp, threads_ref>>
        PROVE  Tidy'
    <2>1. Lines' /\ running' \notin timeouts'
      BY <1>1 DEF Tidy, Lines
    <2>2. \A u \in Thread : Untouched(u)
      BY <1>1 DEF Untouched, Stays
    <2> QED BY <2>1, <2>2, UntouchedTidy
  <1>2. CASE StartEvents \/ StartSockets \/ EndScan
    BY <1>1, <1>2 DEF StartEvents, StartSockets, EndScan, waitVars
  <1>3. ASSUME NEW e \in Event, LookForTimeouts(e) PROVE Tidy'
    BY <1>1, <1>3 DEF LookForTimeouts, waitVars
  <1>4. ASSUME NEW t \in Thread, SkipThread(t) PROVE Tidy'
    BY <1>1, <1>4 DEF SkipThread, waitVars
  <1>5. CASE UNCHANGED vars
    BY <1>1, <1>5 DEF vars
  <1> QED BY <1>2, <1>3, <1>4, <1>5, ExecutesTidy, RunNewTidy, RunThreadTidy, RunTimedOutTidy,
             TakeThreadsTidy, TakeSocketTidy DEF Next, Loop

LEMMA InitTidy == Init => Tidy
  <1> SUFFICES ASSUME Init PROVE Tidy
    OBVIOUS
  <1>1. PICK t \in Thread : new_threads = <<t>> /\ threads_ref = {t}
    BY DEF Init
  <1>2. \A u : In(new_threads, u) <=> u = t
    BY <1>1 DEF In
  <1>3. Lines /\ running \notin timeouts
    BY <1>1, EmptyOnce DEF Init, Lines, Once
  <1>4. \A u \in Thread : NotQueued(u) /\ NotPolled(u) /\ running # u /\ ~In(tmp, u)
    BY EmptyOnce, ThreadAssumption DEF Init, NotQueued, NotPolled
  <1>5. \A u \in Thread : Accounted(u)
    BY <1>1, <1>2, <1>3, <1>4 DEF Init, Accounted, Placed, InLoop, Nowhere, Loose
  <1> QED BY <1>3, <1>5 DEF Tidy

\* The places of t in a sequence.
\* The places of t in one sequence, named c.
LEMMA OneIndex ==
  ASSUME NEW s, Once(s), NEW t, NEW c
  PROVE  LET places == {<<c, i>> : i \in {k \in DOMAIN s : s[k] = t}}
         IN  (In(s, t) => \E x : places = {x}) /\ (~In(s, t) => places = {})
  <1> DEFINE places == {<<c, i>> : i \in {k \in DOMAIN s : s[k] = t}}
  <1>1. ASSUME In(s, t) PROVE \E x : places = {x}
    <2>1. PICK i \in DOMAIN s : s[i] = t
      BY <1>1 DEF In
    <2>2. {k \in DOMAIN s : s[k] = t} = {i}
      BY <2>1 DEF Once
    <2>3. places = {<<c, i>>}
      BY <2>2
    <2> QED BY <2>3
  <1>2. ASSUME ~In(s, t) PROVE places = {}
    BY <1>2 DEF In
  <1> QED BY <1>1, <1>2

LEMMA TidyOnePlace == Tidy => OnePlace
  <1> SUFFICES ASSUME Tidy, NEW t \in Thread
               PROVE  IF t \in threads_ref THEN Cardinality(Places(t)) = 1
                                           ELSE Places(t) = {} /\ t \notin timeouts
    BY DEF OnePlace
  <1> DEFINE N == {<<"new", i>> : i \in {k \in DOMAIN new_threads : new_threads[k] = t}}
             T == {<<"tmp", i>> : i \in {k \in DOMAIN tmp : tmp[k] = t}}
             Q(e) == {<<e, i>> : i \in {k \in DOMAIN queue[e] : queue[e][k] = t}}
             S(s) == {<<s, i>> : i \in {k \in DOMAIN socket_queue[s] : socket_queue[s][k] = t}}
             Qs == UNION {Q(e) : e \in Event}
             Ss == UNION {S(s) : s \in Socket}
             R == IF running = t THEN {<<"running", 1>>} ELSE {}
  <1>1. Places(t) = N \cup T \cup Qs \cup Ss \cup R
    BY Zenon DEF Places
  <1>2. /\ In(new_threads, t) => \E x : N = {x}
        /\ ~In(new_threads, t) => N = {}
    BY OneIndex, Zenon DEF Tidy, Lines
  <1>3. /\ In(tmp, t) => \E x : T = {x}
        /\ ~In(tmp, t) => T = {}
    BY OneIndex, Zenon DEF Tidy, Lines
  <1>4. \A e \in Event : /\ In(queue[e], t) => \E x : Q(e) = {x}
                         /\ ~In(queue[e], t) => Q(e) = {}
    BY OneIndex, Zenon DEF Tidy, Lines
  <1>5. \A s \in Socket : /\ In(socket_queue[s], t) => \E x : S(s) = {x}
                          /\ ~In(socket_queue[s], t) => S(s) = {}
    BY OneIndex, Zenon DEF Tidy, Lines
  <1>6. Accounted(t)
    BY DEF Tidy
  <1>7. /\ running = t => \E x : R = {x}
        /\ running # t => R = {}
    OBVIOUS
  <1> HIDE DEF N, T, Q, S, R
  <1>8. NotQueued(t) => Qs = {}
    BY <1>4 DEF NotQueued
  <1>9. NotPolled(t) => Ss = {}
    BY <1>5 DEF NotPolled
  <1>10. ASSUME NEW e \in Event, InQueue(t, e) PROVE \E x : Qs = {x}
    <2>1. PICK x : Q(e) = {x}
      BY <1>4, <1>10 DEF InQueue
    <2>2. \A f \in Event \ {e} : Q(f) = {}
      BY <1>4, <1>10 DEF InQueue
    <2>3. Qs = {x}
      BY <2>1, <2>2
    <2> QED BY <2>3
  <1>11. ASSUME NEW s \in Socket, InSocket(t, s) PROVE \E x : Ss = {x}
    <2>1. PICK x : S(s) = {x}
      BY <1>5, <1>11 DEF InSocket
    <2>2. \A r \in Socket \ {s} : S(r) = {}
      BY <1>5, <1>11 DEF InSocket
    <2>3. Ss = {x}
      BY <2>1, <2>2
    <2> QED BY <2>3
  <1> HIDE DEF Qs, Ss
  <1>12. ASSUME Nowhere(t) PROVE Places(t) = {}
    BY <1>1, <1>2, <1>3, <1>7, <1>8, <1>9, <1>12 DEF Nowhere, Loose
  <1>13. ASSUME Placed(t) PROVE \E x : Places(t) = {x}
    <2>1. CASE InLoop(t)
      <3>1. CASE In(new_threads, t) /\ ~In(tmp, t) /\ running # t
        BY <1>1, <1>2, <1>3, <1>7, <1>8, <1>9, <2>1, <3>1 DEF InLoop
      <3>2. CASE In(tmp, t) /\ ~In(new_threads, t) /\ running # t
        BY <1>1, <1>2, <1>3, <1>7, <1>8, <1>9, <2>1, <3>2 DEF InLoop
      <3>3. CASE running = t /\ ~In(new_threads, t) /\ ~In(tmp, t)
        BY <1>1, <1>2, <1>3, <1>7, <1>8, <1>9, <2>1, <3>3 DEF InLoop
      <3> QED BY <2>1, <3>1, <3>2, <3>3 DEF InLoop
    <2>2. ASSUME NEW e \in Event, InQueue(t, e) PROVE \E x : Places(t) = {x}
      BY <1>1, <1>2, <1>3, <1>7, <1>9, <1>10, <2>2 DEF InQueue, Loose
    <2>3. ASSUME NEW s \in Socket, InSocket(t, s) PROVE \E x : Places(t) = {x}
      BY <1>1, <1>2, <1>3, <1>7, <1>8, <1>11, <2>3 DEF InSocket, Loose
    <2> QED BY <1>13, <2>1, <2>2, <2>3 DEF Placed
  <1>14. Placed(t) => Cardinality(Places(t)) = 1
    BY <1>13, FS_Singleton
  <1> QED BY <1>6, <1>12, <1>14 DEF Accounted

\* A live thread is in exactly one place, so the loop neither forgets it nor
\* resumes it twice, for any threads, events and sockets; a dead thread is in
\* none and has no timeout.
THEOREM EachInOnePlace == Spec => []OnePlace
  <1>1. TypeOK /\ Tidy /\ [Next]_vars => Tidy'
    BY NextTidy
  <1> QED BY <1>1, InitTidy, TidyOnePlace, TypeCorrect, PTL DEF Spec

=============================================================================
