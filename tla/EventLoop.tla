----------------------------- MODULE EventLoop -----------------------------
(***************************************************************************)
(* The scheduler of cooperative threads of an application (events.lua):    *)
(* new threads, events that are fired and waited for, timeouts, sockets,   *)
(* kill, and the locks and semaphores built on them.                       *)
(*                                                                         *)
(* One coroutine runs at a time.  It keeps running until it waits for      *)
(* something, so each call it makes of this library is one action; the     *)
(* main loop (run) decides who is next when nobody runs.                   *)
(*                                                                         *)
(* Time is left out: a timeout may have expired whenever it is looked at.  *)
(* The identity of a dead thread is used again for a new one, so that      *)
(* threads can be created for ever.                                        *)
(***************************************************************************)
EXTENDS Integers, Sequences, FiniteSets

CONSTANTS
  Thread,    \* the coroutines
  NoThread,  \* nobody: the main loop is executing
  Lock,      \* the semaphores, each also the event "unlock:id"
  Max,       \* how many threads may be inside each
  Secure,    \* of each semaphore: 0 (false), 1 (given back by a thread that
             \* dies on an error) or 2 (by any thread that dies)
  Message,   \* the events of the application
  Socket,    \* what a thread may wait for in select()
  NoCall     \* the thread is not inside a call of lock

ASSUME ThreadAssumption == NoThread \notin Thread /\ IsFiniteSet(Thread)
ASSUME LockAssumption ==
  /\ Max \in [Lock -> Nat \ {0}]
  /\ Secure \in [Lock -> 0..2]
  /\ NoCall \notin Lock \X BOOLEAN
ASSUME EventAssumption ==
  /\ Lock \cap Message = {}
  /\ {"event:yield", "event:sleep"} \cap (Lock \cup Message) = {}

Event == {"event:yield", "event:sleep"} \cup Lock \cup Message

VARIABLES
  running,           \* the coroutine that executes, or NoThread
  new_threads,       \* created, not run yet
  queue,             \* who waits for each event
  socket_queue,      \* who waits for each socket
  timeouts,          \* who waits with a timeout
  events,            \* fired since the main loop last looked
  events_tmp,        \* fired before, whose threads the loop has not reached
  tmp_queue,         \* events the loop has still to look at
  socket_events,     \* sockets the loop has still to look at
  tmp,               \* the threads of one event the loop is running
  scan,              \* the queue the loop looks through for timeouts, and where
  threads_ref,       \* the threads that are alive
  inside,            \* of each semaphore
  locked_by_thread,  \* the semaphores to give back when a thread dies
  locking,           \* the call of lock a thread is in: semaphore, timeout or not
  holds              \* the semaphores a thread is in, as its calls told it

loopVars == <<events_tmp, tmp_queue, socket_events, tmp, scan>>
waitVars == <<new_threads, queue, socket_queue, timeouts>>
lockVars == <<inside, locked_by_thread, locking, holds>>
vars == <<running, new_threads, queue, socket_queue, timeouts, events,
          events_tmp, tmp_queue, socket_events, tmp, scan, threads_ref, inside,
          locked_by_thread, locking, holds>>

NotScanning == [event |-> "event:yield", at |-> 0]

\* run(th): one thread, the main one, to start with.
Init ==
  /\ running = NoThread
  /\ \E t \in Thread : new_threads = <<t>> /\ threads_ref = {t}
  /\ queue = [e \in Event |-> <<>>]
  /\ socket_queue = [s \in Socket |-> <<>>]
  /\ timeouts = {}
  /\ events = {} /\ events_tmp = {} /\ tmp_queue = {} /\ socket_events = {}
  /\ tmp = <<>> /\ scan = NotScanning
  /\ inside = [l \in Lock |-> 0]
  /\ locked_by_thread = [t \in Thread |-> {}]
  /\ locking = [t \in Thread |-> NoCall]
  /\ holds = [t \in Thread |-> {}]

In(s, t) == \E i \in DOMAIN s : s[i] = t

\* table.remove of the element at i.
Removed(s, i) == [k \in 1..(Len(s) - 1) |-> IF k < i THEN s[k] ELSE s[k + 1]]

Drop(s, t) ==
  IF In(s, t) THEN Removed(s, CHOOSE i \in DOMAIN s : s[i] = t) ELSE s

\* Mutant of Swapped: the last place is not emptied.
SwappedCopy(s, i) == [k \in 1..Len(s) |-> IF k = i THEN s[Len(s)] ELSE s[k]]

\* The last element takes the place of the one at i.
Swapped(s, i) == [k \in 1..(Len(s) - 1) |-> IF k = i THEN s[Len(s)] ELSE s[k]]

----------------------------------------------------------------------------
(* What the running thread calls *)

\* t executes the code of the application, not the one of lock.
Free(t) == running = t /\ locking[t] = NoCall

\* fire: the event is there already, or is now.
Fire(t, e) ==
  /\ Free(t)
  /\ events' = events \cup {e}
  /\ UNCHANGED <<running, waitVars, loopVars, threads_ref, lockVars>>

\* The coroutine gives control back to run_n_insert, which puts it in the queue
\* of e.
Suspend(t, e, timed) ==
  /\ running' = NoThread
  /\ queue' = [queue EXCEPT ![e] = Append(@, t)]
  /\ timeouts' = IF timed THEN timeouts \cup {t} ELSE timeouts

Wait(t, e, timed) ==
  /\ Free(t)
  /\ Suspend(t, e, timed)
  /\ UNCHANGED <<new_threads, socket_queue, events, loopVars, threads_ref, lockVars>>

Yield(t) == Wait(t, "event:yield", FALSE)

Sleep(t) == Wait(t, "event:sleep", TRUE)

WaitSocket(t, s, timed) ==
  /\ Free(t)
  /\ running' = NoThread
  /\ socket_queue' = [socket_queue EXCEPT ![s] = Append(@, t)]
  /\ timeouts' = IF timed THEN timeouts \cup {t} ELSE timeouts
  /\ UNCHANGED <<new_threads, queue, events, loopVars, threads_ref, lockVars>>

\* thread(f): runs in the next turn of the main loop.
NewThread(t, u) ==
  /\ Free(t)
  /\ u \notin threads_ref
  /\ new_threads' = Append(new_threads, u)
  /\ threads_ref' = threads_ref \cup {u}
  /\ UNCHANGED <<running, queue, socket_queue, timeouts, events, loopVars, lockVars>>

----------------------------------------------------------------------------
(* Locks and semaphores *)

\* Mutant of Enter: lets in one too many.
EnterOffByOne(t, l) ==
  /\ inside[l] <= Max[l]
  /\ inside' = [inside EXCEPT ![l] = @ + 1]
  /\ locked_by_thread' =
       IF Secure[l] = 0 THEN locked_by_thread
                        ELSE [locked_by_thread EXCEPT ![t] = @ \cup {l}]
  /\ holds' = [holds EXCEPT ![t] = @ \cup {l}]
  /\ locking' = [locking EXCEPT ![t] = NoCall]
  /\ UNCHANGED <<running, queue, timeouts>>

Enter(t, l) ==
  /\ inside[l] < Max[l]
  /\ inside' = [inside EXCEPT ![l] = @ + 1]
  /\ locked_by_thread' =
       IF Secure[l] = 0 THEN locked_by_thread
                        ELSE [locked_by_thread EXCEPT ![t] = @ \cup {l}]
  /\ holds' = [holds EXCEPT ![t] = @ \cup {l}]
  /\ locking' = [locking EXCEPT ![t] = NoCall]
  /\ UNCHANGED <<running, queue, timeouts>>

Block(t, l, timed) ==
  /\ inside[l] >= Max[l]
  /\ Suspend(t, l, timed)
  /\ locking' = [locking EXCEPT ![t] = <<l, timed>>]
  /\ UNCHANGED <<inside, locked_by_thread, holds>>

\* A thread does not ask again for a semaphore it is in.
LockIt(t, l, timed) ==
  /\ Free(t)
  /\ l \notin holds[t]
  /\ Enter(t, l) \/ Block(t, l, timed)
  /\ UNCHANGED <<new_threads, socket_queue, events, loopVars, threads_ref>>

\* The timeout of lock is over and there is still no room: lock returns false.
GiveUp(t, l) ==
  /\ inside[l] >= Max[l]
  /\ locking' = [locking EXCEPT ![t] = NoCall]
  /\ UNCHANGED <<running, queue, timeouts, inside, locked_by_thread, holds>>

\* A thread that waited in lock runs again: woken by an unlock, or by its
\* timeout.
LockAgain(t, l, timed) ==
  /\ running = t
  /\ locking[t] = <<l, timed>>
  /\ Enter(t, l) \/ Block(t, l, timed) \/ (timed /\ GiveUp(t, l))
  /\ UNCHANGED <<new_threads, socket_queue, events, loopVars, threads_ref>>

\* Mutant of Unlock: the thread gives the semaphore back again when it dies.
UnlockRemembered(t, l) ==
  /\ Free(t)
  /\ l \in holds[t]
  /\ inside' = [inside EXCEPT ![l] = @ - 1]
  /\ holds' = [holds EXCEPT ![t] = @ \ {l}]
  /\ events' = events \cup {l}
  /\ UNCHANGED <<running, waitVars, loopVars, threads_ref, locking, locked_by_thread>>

Unlock(t, l) ==
  /\ Free(t)
  /\ l \in holds[t]
  /\ inside' = [inside EXCEPT ![l] = @ - 1]
  /\ locked_by_thread' = [locked_by_thread EXCEPT ![t] = @ \ {l}]
  /\ holds' = [holds EXCEPT ![t] = @ \ {l}]
  /\ events' = events \cup {l}
  /\ UNCHANGED <<running, waitVars, loopVars, threads_ref, locking>>

----------------------------------------------------------------------------
(* Threads that die *)

\* Mutant of Returned: the levels are not told apart.
ReturnedOnError(t, err) == {l \in locked_by_thread[t] : Secure[l] > 0 /\ err}

\* The semaphores unlock_die gives back for t.
Returned(t, err) ==
  {l \in locked_by_thread[t] : Secure[l] = 2 \/ (Secure[l] = 1 /\ err)}

\* Mutant of Die: nobody is told that a semaphore came back.
DieSilently(t, err, by) ==
  /\ threads_ref' = threads_ref \ {t}
  /\ inside' = [l \in Lock |-> IF l \in Returned(t, err) THEN inside[l] - 1
                                                         ELSE inside[l]]
  /\ locked_by_thread' =
       [u \in Thread |-> IF u = t THEN {}
                         ELSE IF u = by THEN locked_by_thread[u] \ Returned(t, err)
                         ELSE locked_by_thread[u]]
  /\ holds' = [holds EXCEPT ![t] = {}]
  /\ locking' = [locking EXCEPT ![t] = NoCall]
  /\ UNCHANGED events

\* t dies while by runs (NoThread: the main loop).  unlock forgets the semaphore
\* of the coroutine that runs, not of the one that dies.
Die(t, err, by) ==
  /\ threads_ref' = threads_ref \ {t}
  /\ inside' = [l \in Lock |-> IF l \in Returned(t, err) THEN inside[l] - 1
                                                         ELSE inside[l]]
  /\ locked_by_thread' =
       [u \in Thread |-> IF u = t THEN {}
                         ELSE IF u = by THEN locked_by_thread[u] \ Returned(t, err)
                         ELSE locked_by_thread[u]]
  /\ events' = events \cup Returned(t, err)
  /\ holds' = [holds EXCEPT ![t] = {}]
  /\ locking' = [locking EXCEPT ![t] = NoCall]

\* The function of the thread returns, or raises.
End(t, err) ==
  /\ Free(t)
  /\ running' = NoThread
  /\ Die(t, err, NoThread)
  /\ UNCHANGED <<waitVars, loopVars>>

\* u is where kill looks for it.
Parked(u) ==
  \/ In(new_threads, u)
  \/ \E e \in Event : In(queue[e], u)
  \/ \E s \in Socket : In(socket_queue[s], u)

KillParked(t, u) ==
  /\ Parked(u)
  /\ new_threads' = Drop(new_threads, u)
  /\ queue' = [e \in Event |-> Drop(queue[e], u)]
  /\ socket_queue' = [s \in Socket |-> Drop(socket_queue[s], u)]
  /\ Die(u, FALSE, t)
  /\ UNCHANGED running

\* The thread runs, so it kills itself; or it is one of those the loop is about
\* to run, which kill does not look at, and the killer dies in its place.
KillSelf(t, u) ==
  /\ ~Parked(u)
  /\ running' = NoThread
  /\ Die(t, FALSE, NoThread)
  /\ UNCHANGED <<new_threads, queue, socket_queue>>

Kill(t, u) ==
  /\ Free(t)
  /\ u \in threads_ref
  /\ KillParked(t, u) \/ KillSelf(t, u)
  /\ timeouts' = timeouts \ {u}
  /\ UNCHANGED loopVars

----------------------------------------------------------------------------
(* The main loop *)

Resume(t) ==
  /\ running' = t
  /\ timeouts' = timeouts \ {t}
  /\ UNCHANGED <<events, threads_ref, lockVars>>

\* The loop is between two threads, or at its top.
Looping == running = NoThread /\ tmp = <<>> /\ scan = NotScanning
Top == Looping /\ tmp_queue = {} /\ socket_events = {}

RunNew ==
  /\ Top
  /\ new_threads # <<>>
  /\ new_threads' = Tail(new_threads)
  /\ Resume(Head(new_threads))
  /\ UNCHANGED <<queue, socket_queue, loopVars>>

Fired == events \cup {"event:yield"}
Waited == {e \in Event : queue[e] # <<>>}
WaitedSockets == {s \in Socket : socket_queue[s] # <<>>}

\* There are threads to run, or timeouts: all sockets are looked at too.
\* Otherwise the application halts.
StartEvents ==
  /\ Top
  /\ new_threads = <<>>
  /\ timeouts # {} \/ Fired \cap Waited # {} \/ WaitedSockets # {}
  /\ events' = {}
  /\ events_tmp' = Fired \cap Waited
  /\ tmp_queue' = Waited
  /\ socket_events' = WaitedSockets
  /\ UNCHANGED <<running, waitVars, tmp, scan, threads_ref, lockVars>>

\* Nothing to run: select() tells some sockets, the rest waits.
StartSockets ==
  /\ Top
  /\ new_threads = <<>>
  /\ Fired \cap Waited = {}
  /\ \E ready \in SUBSET WaitedSockets : ready # {} /\ socket_events' = ready
  /\ events' = Fired
  /\ UNCHANGED <<running, waitVars, events_tmp, tmp_queue, tmp, scan, threads_ref,
                 lockVars>>

\* Mutant of TakeThreads: wakes only the first of those who wait.
TakeFirstThread(e) ==
  /\ Looping
  /\ e \in tmp_queue \cap events_tmp
  /\ tmp_queue' = tmp_queue \ {e}
  /\ events_tmp' = events_tmp \ {e}
  /\ tmp' = IF queue[e] = <<>> THEN <<>> ELSE <<Head(queue[e])>>
  /\ queue' = [queue EXCEPT ![e] = IF @ = <<>> THEN @ ELSE Tail(@)]
  /\ UNCHANGED <<running, new_threads, socket_queue, timeouts, events, socket_events,
                 scan, threads_ref, lockVars>>

\* An event that was fired: all who waited for it will run.
TakeThreads(e) ==
  /\ Looping
  /\ e \in tmp_queue \cap events_tmp
  /\ tmp_queue' = tmp_queue \ {e}
  /\ events_tmp' = events_tmp \ {e}
  /\ tmp' = queue[e]
  /\ queue' = [queue EXCEPT ![e] = <<>>]
  /\ UNCHANGED <<running, new_threads, socket_queue, timeouts, events, socket_events,
                 scan, threads_ref, lockVars>>

RunThread ==
  /\ running = NoThread
  /\ tmp # <<>>
  /\ tmp' = Tail(tmp)
  /\ Resume(Head(tmp))
  /\ UNCHANGED <<new_threads, queue, socket_queue, events_tmp, tmp_queue, socket_events,
                 scan>>

\* An event that was not: those whose timeout is over will run.
LookForTimeouts(e) ==
  /\ Looping
  /\ e \in tmp_queue \ events_tmp
  /\ tmp_queue' = tmp_queue \ {e}
  /\ scan' = [event |-> e, at |-> 1]
  /\ UNCHANGED <<running, waitVars, events, events_tmp, socket_events, tmp, threads_ref,
                 lockVars>>

\* The thread the scan is at.
ScanAt(t) ==
  /\ running = NoThread
  /\ scan.at \in DOMAIN queue[scan.event]
  /\ queue[scan.event][scan.at] = t

NextInScan == scan' = [event |-> scan.event, at |-> scan.at + 1]

\* Mutant of RunTimedOut: passes over the last thread of a queue.
RunTimedOutNotLast(t) ==
  /\ ScanAt(t)
  /\ t \in timeouts
  /\ scan.at # Len(queue[scan.event])
  /\ queue' = [queue EXCEPT ![scan.event] = Swapped(@, scan.at)]
  /\ NextInScan
  /\ Resume(t)
  /\ UNCHANGED <<new_threads, socket_queue, events_tmp, tmp_queue, socket_events, tmp>>

RunTimedOut(t) ==
  /\ ScanAt(t)
  /\ t \in timeouts
  /\ queue' = [queue EXCEPT ![scan.event] = Swapped(@, scan.at)]
  /\ NextInScan
  /\ Resume(t)
  /\ UNCHANGED <<new_threads, socket_queue, events_tmp, tmp_queue, socket_events, tmp>>

SkipThread(t) ==
  /\ ScanAt(t)
  /\ NextInScan
  /\ UNCHANGED <<running, waitVars, events, events_tmp, tmp_queue, socket_events, tmp,
                 threads_ref, lockVars>>

EndScan ==
  /\ running = NoThread
  /\ scan.at > Len(queue[scan.event])
  /\ scan' = NotScanning
  /\ UNCHANGED <<running, waitVars, events, events_tmp, tmp_queue, socket_events, tmp,
                 threads_ref, lockVars>>

\* After the events, the sockets.
TakeSocket(s) ==
  /\ Looping
  /\ tmp_queue = {}
  /\ s \in socket_events
  /\ socket_events' = socket_events \ {s}
  /\ tmp' = socket_queue[s]
  /\ socket_queue' = [socket_queue EXCEPT ![s] = <<>>]
  /\ UNCHANGED <<running, new_threads, queue, timeouts, events, events_tmp, tmp_queue,
                 scan, threads_ref, lockVars>>

Loop ==
  \/ RunNew
  \/ StartEvents
  \/ StartSockets
  \/ RunThread
  \/ EndScan
  \/ \E e \in Event : TakeThreads(e) \/ LookForTimeouts(e)
  \/ \E t \in Thread : RunTimedOut(t) \/ SkipThread(t)
  \/ \E s \in Socket : TakeSocket(s)

\* What a thread does that ends its turn, if it is not in lock.
GivesControl(t) ==
  \/ Yield(t)
  \/ Sleep(t)
  \/ \E e \in Message, timed \in BOOLEAN : Wait(t, e, timed)
  \/ \E s \in Socket, timed \in BOOLEAN : WaitSocket(t, s, timed)
  \/ \E err \in BOOLEAN : End(t, err)

Locks(t) ==
  \E l \in Lock, timed \in BOOLEAN : LockIt(t, l, timed) \/ LockAgain(t, l, timed)

Executes(t) ==
  \/ GivesControl(t)
  \/ Locks(t)
  \/ \E l \in Lock : Unlock(t, l)
  \/ \E e \in Message : Fire(t, e)
  \/ \E u \in Thread : NewThread(t, u) \/ Kill(t, u)

Next == Loop \/ \E t \in Thread : Executes(t)

Spec == Init /\ [][Next]_vars

\* Threads are cooperative: a thread gives control back in the end.  An expired
\* timeout keeps the loop from select(), and is seen when the scan is at it.
FairSpec ==
  /\ Spec
  /\ WF_vars(Loop) /\ SF_vars(StartEvents)
  /\ \A t \in Thread :
       /\ WF_vars(GivesControl(t))
       /\ WF_vars(\E l \in Lock, timed \in BOOLEAN : LockAgain(t, l, timed))
       /\ SF_vars(RunTimedOut(t))

----------------------------------------------------------------------------
(* Properties *)

TypeOK ==
  /\ running \in Thread \cup {NoThread}
  /\ new_threads \in Seq(Thread)
  /\ queue \in [Event -> Seq(Thread)]
  /\ socket_queue \in [Socket -> Seq(Thread)]
  /\ timeouts \in SUBSET Thread
  /\ events \in SUBSET Event
  /\ events_tmp \in SUBSET Event
  /\ tmp_queue \in SUBSET Event
  /\ socket_events \in SUBSET Socket
  /\ tmp \in Seq(Thread)
  /\ scan \in [event : Event, at : Nat]
  /\ threads_ref \in SUBSET Thread
  /\ inside \in [Lock -> Nat]
  /\ locked_by_thread \in [Thread -> SUBSET Lock]
  /\ locking \in [Thread -> (Lock \X BOOLEAN) \cup {NoCall}]
  /\ holds \in [Thread -> SUBSET Lock]

\* Every place a thread is in.
Places(t) ==
  {<<"new", i>> : i \in {k \in DOMAIN new_threads : new_threads[k] = t}}
    \cup {<<"tmp", i>> : i \in {k \in DOMAIN tmp : tmp[k] = t}}
    \cup (UNION {{<<e, i>> : i \in {k \in DOMAIN queue[e] : queue[e][k] = t}} :
                   e \in Event})
    \cup (UNION {{<<s, i>> : i \in {k \in DOMAIN socket_queue[s] : socket_queue[s][k] = t}} :
                   s \in Socket})
    \cup (IF running = t THEN {<<"running", 1>>} ELSE {})

\* A thread that is alive is in exactly one place, so the loop never forgets it
\* and never resumes it twice; a dead thread is in none, and has no timeout that
\* would keep the application from halting.
OnePlace ==
  \A t \in Thread :
     IF t \in threads_ref THEN Cardinality(Places(t)) = 1
                          ELSE Places(t) = {} /\ t \notin timeouts

\* Whoever waits in lock while there is room is about to be woken: the unlock is
\* an event the loop has not reached.  An event is lost when it is fired twice,
\* and deleted at the next turn whether somebody got it or not.
NoLostWakeup ==
  \A l \in Lock :
     queue[l] # <<>> /\ inside[l] < Max[l] => l \in events \cup events_tmp

Holders(l) == {t \in Thread : l \in holds[t]}

\* A semaphore never lets in more threads than it has room for, and counts those
\* it let in, although kill and errors give back the place of another thread.
NeverOverfull ==
  \A l \in Lock : Cardinality(Holders(l)) <= inside[l] /\ inside[l] <= Max[l]

\* A lock (room for one) of level 2 comes back from every thread that dies.
LockComesBack ==
  \A l \in Lock :
     Max[l] = 1 /\ Secure[l] = 2 => inside[l] = Cardinality(Holders(l))

Exclusive == {l \in Lock : Max[l] = 1}

OneOwner ==
  INSTANCE Mutex
    WITH Client <- Thread,
         Lock <- Exclusive,
         owner <- [l \in Exclusive |-> Holders(l)]

\* The semaphores with room for one implement mutexes, whatever thread kills
\* whatever other in the middle of a call.
LocksAreMutexes == OneOwner!Spec

\* The loop gets past the new threads again and again.  (It runs all of them
\* first, so threads that create threads for ever keep it from all the others.)
NewThreadsEnd == []<>(Top /\ new_threads = <<>>)

\* A thread whose event was fired runs, whatever the other threads do.
FiredRuns ==
  NewThreadsEnd =>
    \A t \in Thread, e \in Event :
       In(queue[e], t) /\ e \in Fired ~> ~In(queue[e], t)

\* A thread whose timeout is over runs, although the scan skips the thread that
\* takes the place of one it ran.
TimedOutRuns ==
  NewThreadsEnd => \A t \in Thread : t \in timeouts ~> t \notin timeouts

=============================================================================
