-------------------------------- MODULE Urpc --------------------------------
(***************************************************************************)
(* Remote calls over UDP (urpc.lua): one application calls functions of    *)
(* another.  A request is sent again until it is answered; the callee      *)
(* keeps its answers, so as not to call the function again, until the      *)
(* caller frees them or they are old.                                      *)
(*                                                                         *)
(* Time passes in ticks, at the same rate on both sides.  What is due may  *)
(* happen later: a thread runs when the event loop gets to it.  A call is  *)
(* known by its key, which is drawn at random.                             *)
(*                                                                         *)
(* Datagrams are received in any order; one that is lost is one that stays *)
(* on its way for ever.                                                    *)
(***************************************************************************)
EXTENDS Integers, FiniteSets

CONSTANTS
  Call,           \* the calls, each with the key of its messages
  Ping,           \* those of type "ping": no function is called
  Max,            \* settings.max: how many calls at a time (0: no limit)
  Timeout,        \* of a call, as do_call adjusted it
  RetryNumber,    \* settings.retry_number: how often a request is sent
  RetryAfter,     \* timeout / (retry_number + 1)
  CleaningAfter,  \* settings.cleaning_after: age of an answer that is cleaned
  TryFree,        \* settings.try_free: an answer is freed by a message
  MaxCopies       \* bound: how many requests the network duplicates

ASSUME CallAssumption == IsFiniteSet(Call) /\ Ping \subseteq Call
ASSUME LimitAssumption == Max \in Nat /\ MaxCopies \in Nat /\ TryFree \in BOOLEAN

\* do_call: no timeout is more than 0.9 * cleaning_after.
ASSUME TimeAssumption ==
  /\ RetryNumber \in Nat \ {0} /\ RetryAfter \in Nat \ {0}
  /\ Timeout = (RetryNumber + 1) * RetryAfter
  /\ CleaningAfter \in Nat /\ Timeout < CleaningAfter

VARIABLES
  \* the caller
  call,        \* where each call is in do_call, or how it ended
  left,        \* time left to each call
  answered,    \* the reply is there, the thread of the call has not seen it
  inside,      \* of the semaphore call_s
  messages,    \* keys of the messages to send or to send again
  nb_try,      \* how often each was sent
  next_try,    \* when it is to be sent again
  wakeup,      \* when the sender runs: 0 is now
  \* the network: datagrams of each kind on their way
  calls, replies, frees, copies,
  \* the callee
  server_run,  \* it has made a call of its own
  running,     \* calls of the function that have not returned
  replied,     \* keys of the answers it keeps
  life,        \* how long each is kept still
  \* history
  served,      \* the callee has computed an answer
  runs         \* how often it has called the function

callVars == <<call, left, answered, inside>>
sendVars == <<messages, nb_try, next_try, wakeup>>
calleeVars == <<server_run, running, replied, life, served, runs>>
netVars == <<calls, replies, frees, copies>>
vars == <<call, left, answered, inside, messages, nb_try, next_try, wakeup, calls,
          replies, frees, copies, server_run, running, replied, life, served, runs>>

\* events.wait without a timeout.
Never == -1

Zero == [k \in Call |-> 0]

Init ==
  /\ call = [k \in Call |-> "new"]
  /\ left = Zero
  /\ answered = [k \in Call |-> FALSE]
  /\ inside = 0
  /\ messages = {} /\ nb_try = Zero /\ next_try = Zero /\ wakeup = Never
  /\ calls = Zero /\ replies = Zero /\ frees = Zero /\ copies = 0
  /\ server_run = FALSE /\ running = Zero /\ replied = {} /\ life = Zero
  /\ served = [k \in Call |-> FALSE] /\ runs = Zero

More(f, k) == [f EXCEPT ![k] = @ + 1]
Less(f, k) == [f EXCEPT ![k] = @ - 1]

----------------------------------------------------------------------------
(* The caller: do_call *)

Limited == Max > 0
Full == Limited /\ inside >= Max

Enter == inside' = IF Limited THEN inside + 1 ELSE inside
Unlock == inside' = IF Limited THEN inside - 1 ELSE inside

\* Mutant of Store: the sender is not told.
StoreSilently(k) ==
  /\ call' = [call EXCEPT ![k] = "waiting"]
  /\ messages' = messages \cup {k}
  /\ UNCHANGED <<nb_try, next_try, wakeup>>

\* The message is due at once, and the sender is told.
Store(k) ==
  /\ call' = [call EXCEPT ![k] = "waiting"]
  /\ messages' = messages \cup {k}
  /\ wakeup' = 0
  /\ UNCHANGED <<nb_try, next_try>>

\* Mutant of DoCall: lets in one too many.
DoCallOffByOne(k) ==
  /\ call[k] = "new"
  /\ inside <= Max
  /\ left' = [left EXCEPT ![k] = Timeout]
  /\ Enter
  /\ Store(k)
  /\ UNCHANGED <<answered, netVars, calleeVars>>

DoCall(k) ==
  /\ call[k] = "new"
  /\ left' = [left EXCEPT ![k] = Timeout]
  /\ \/ ~Full /\ Enter /\ Store(k)
     \/ /\ Full
        /\ call' = [call EXCEPT ![k] = "locking"]
        /\ UNCHANGED <<inside, sendVars>>
  /\ UNCHANGED <<answered, netVars, calleeVars>>

\* lock returned true, perhaps when the time was over: then do_call returns
\* without giving the place back.
Locked(k) ==
  /\ call[k] = "locking"
  /\ ~Full
  /\ Enter
  /\ \/ left[k] > 0 /\ Store(k)
     \/ /\ left[k] = 0
        /\ call' = [call EXCEPT ![k] = "failed"]
        /\ UNCHANGED sendVars
  /\ UNCHANGED <<left, answered, netVars, calleeVars>>

\* Mutant of NotLocked: gives back a place the call has not got.
NotLockedUnlocks(k) ==
  /\ call[k] = "locking"
  /\ Full /\ left[k] = 0
  /\ Unlock
  /\ call' = [call EXCEPT ![k] = "failed"]
  /\ UNCHANGED <<left, answered, sendVars, netVars, calleeVars>>

\* lock returned false.
NotLocked(k) ==
  /\ call[k] = "locking"
  /\ Full /\ left[k] = 0
  /\ call' = [call EXCEPT ![k] = "failed"]
  /\ UNCHANGED <<left, answered, inside, sendVars, netVars, calleeVars>>

End(k, how) ==
  /\ call' = [call EXCEPT ![k] = how]
  /\ left' = [left EXCEPT ![k] = 0]
  /\ answered' = [answered EXCEPT ![k] = FALSE]
  /\ Unlock
  /\ UNCHANGED <<sendVars, netVars, calleeVars>>

\* An answer too long for a datagram comes back as an error.
Answered(k) ==
  /\ call[k] = "waiting"
  /\ answered[k]
  /\ \/ End(k, "ok")
     \/ k \notin Ping /\ End(k, "failed")

\* A reply that came meanwhile finds nobody.  The message may still be in the
\* queue: the time the call waited for its place does not count there.
TimedOut(k) ==
  /\ call[k] = "waiting"
  /\ left[k] = 0
  /\ End(k, "failed")

----------------------------------------------------------------------------
(* The caller: sender and receiver *)

Due == {k \in messages : next_try[k] = 0}

\* Mutant of Last: sends once more.
LastOffByOne == {k \in Due : nb_try[k] >= RetryNumber}

Last == {k \in Due : nb_try[k] + 1 >= RetryNumber}

\* Until the first of the messages that are left is due.
SleepUntilNext ==
  \/ messages' = {} /\ wakeup' = Never
  \/ \E k \in messages' :
       /\ wakeup' = next_try'[k]
       /\ \A i \in messages' : next_try'[k] <= next_try'[i]

\* Sends what is due, and sleeps until the next.
Sender ==
  /\ wakeup = 0
  /\ calls' = [k \in Call |-> IF k \in Due THEN calls[k] + 1 ELSE calls[k]]
  /\ nb_try' = [k \in Call |-> IF k \in Due THEN nb_try[k] + 1 ELSE nb_try[k]]
  /\ next_try' = [k \in Call |-> IF k \in Due \ Last THEN RetryAfter ELSE next_try[k]]
  /\ messages' = messages \ Last
  /\ SleepUntilNext
  /\ UNCHANGED <<callVars, replies, frees, copies, calleeVars>>

ReceiveReply(k) ==
  /\ replies[k] > 0
  /\ replies' = Less(replies, k)
  /\ messages' = messages \ {k}
  /\ next_try' = [next_try EXCEPT ![k] = 0]
  /\ frees' = IF TryFree THEN More(frees, k) ELSE frees
  /\ answered' = [answered EXCEPT ![k] = call[k] = "waiting"]
  /\ UNCHANGED <<call, left, inside, nb_try, wakeup, calls, copies, calleeVars>>

----------------------------------------------------------------------------
(* The callee *)

\* Mutant of ReceiveCall: the answer counts as there once the function is called.
ReceiveCallMarksFirst(k) ==
  /\ calls[k] > 0
  /\ calls' = Less(calls, k)
  /\ \/ /\ k \in replied \cup Ping \/ running[k] > 0
        /\ replies' = More(replies, k)
        /\ served' = [served EXCEPT ![k] = @ \/ k \in Ping]
        /\ UNCHANGED <<running, runs>>
     \/ /\ k \notin replied \cup Ping /\ running[k] = 0
        /\ running' = More(running, k)
        /\ runs' = More(runs, k)
        /\ UNCHANGED <<replies, served>>
  /\ UNCHANGED <<callVars, sendVars, frees, copies, server_run, replied, life>>

\* The function is called unless there is an answer.  It may wait for something,
\* and another request for the same call arrive meanwhile.
ReceiveCall(k) ==
  /\ calls[k] > 0
  /\ calls' = Less(calls, k)
  /\ \/ /\ k \in replied \cup Ping
        /\ replies' = More(replies, k)
        /\ served' = [served EXCEPT ![k] = TRUE]
        /\ UNCHANGED <<running, runs>>
     \/ /\ k \notin replied \cup Ping
        /\ running' = More(running, k)
        /\ runs' = More(runs, k)
        /\ UNCHANGED <<replies, served>>
  /\ UNCHANGED <<callVars, sendVars, frees, copies, server_run, replied, life>>

\* The function returns.
Returns(k) ==
  /\ running[k] > 0
  /\ running' = Less(running, k)
  /\ replied' = replied \cup {k}
  /\ life' = [life EXCEPT ![k] = CleaningAfter]
  /\ served' = [served EXCEPT ![k] = TRUE]
  /\ replies' = More(replies, k)
  /\ UNCHANGED <<callVars, sendVars, calls, frees, copies, server_run, runs>>

\* It raises: the thread of the request dies.
Raises(k) ==
  /\ running[k] > 0
  /\ running' = Less(running, k)
  /\ UNCHANGED <<callVars, sendVars, netVars, server_run, replied, life, served, runs>>

Forget(ks) ==
  /\ replied' = replied \ ks
  /\ life' = [k \in Call |-> IF k \in ks THEN 0 ELSE life[k]]

ReceiveFree(k) ==
  /\ frees[k] > 0
  /\ frees' = Less(frees, k)
  /\ Forget({k})
  /\ UNCHANGED <<callVars, sendVars, calls, replies, copies, server_run, running, served,
                 runs>>

\* default_server, which a first call of the callee starts, also starts the
\* cleaning.
CalleeCalls ==
  /\ ~server_run
  /\ server_run' = TRUE
  /\ UNCHANGED <<callVars, sendVars, netVars, running, replied, life, served, runs>>

\* Mutant of Old: the comparison is the other way round.
Young == {k \in replied : life[k] > 0}

Old == {k \in replied : life[k] = 0}

CleanReplied ==
  /\ server_run
  /\ Old # {}
  /\ Forget(Old)
  /\ UNCHANGED <<callVars, sendVars, netVars, server_run, running, served, runs>>

----------------------------------------------------------------------------
(* The network and the time *)

\* Copies of requests: those of replies and frees follow from them.
Duplicate(k) ==
  /\ copies < MaxCopies
  /\ calls[k] > 0
  /\ copies' = copies + 1
  /\ calls' = More(calls, k)
  /\ UNCHANGED <<callVars, sendVars, replies, frees, calleeVars>>

Down(n) == IF n > 0 THEN n - 1 ELSE n

Tick ==
  /\ wakeup > 0 \/ \E k \in Call : left[k] > 0 \/ next_try[k] > 0 \/ life[k] > 0
  /\ left' = [k \in Call |-> Down(left[k])]
  /\ next_try' = [k \in Call |-> Down(next_try[k])]
  /\ life' = [k \in Call |-> Down(life[k])]
  /\ wakeup' = Down(wakeup)
  /\ UNCHANGED <<call, answered, inside, messages, nb_try, netVars, server_run, running,
                 replied, served, runs>>

Caller(k) == Locked(k) \/ NotLocked(k) \/ Answered(k) \/ TimedOut(k)
Callee(k) == ReceiveCall(k) \/ Returns(k) \/ Raises(k) \/ ReceiveFree(k)

Next ==
  \/ \E k \in Call : DoCall(k) \/ Caller(k) \/ ReceiveReply(k) \/ Callee(k) \/ Duplicate(k)
  \/ Sender \/ CalleeCalls \/ CleanReplied \/ Tick

Spec == Init /\ [][Next]_vars

\* Time passes, the event loops run the threads that are due, and the cleaning is
\* periodic.  The network and the functions owe nothing.
FairSpec ==
  /\ Spec
  /\ WF_vars(Tick) /\ WF_vars(Sender) /\ WF_vars(CleanReplied)
  /\ \A k \in Call : WF_vars(Caller(k))

----------------------------------------------------------------------------
(* Properties *)

TypeOK ==
  /\ call \in [Call -> {"new", "locking", "waiting", "ok", "failed"}]
  /\ left \in [Call -> 0..Timeout]
  /\ answered \in [Call -> BOOLEAN]
  /\ inside \in 0..Max
  /\ messages \subseteq Call
  /\ nb_try \in [Call -> 0..RetryNumber]
  /\ next_try \in [Call -> 0..RetryAfter]
  /\ wakeup \in Never..RetryAfter
  /\ calls \in [Call -> Nat] /\ replies \in [Call -> Nat] /\ frees \in [Call -> Nat]
  /\ copies \in 0..MaxCopies
  /\ server_run \in BOOLEAN
  /\ running \in [Call -> Nat]
  /\ replied \subseteq Call
  /\ life \in [Call -> 0..CleaningAfter]
  /\ served \in [Call -> BOOLEAN]
  /\ runs \in [Call -> Nat]

\* The caller waits for the answer of k and has time left.
Awaited(k) == call[k] = "waiting" /\ ~answered[k] /\ left[k] > 0

\* As long as the caller waits, the callee keeps the answer it computed: neither
\* the cleaning nor a free that comes early or twice makes it call again a
\* function that has returned.
AnswerKept == \A k \in Call \ Ping : served[k] /\ Awaited(k) => k \in replied

\* The function is called as often as the request is sent, at most, and the
\* network duplicates it.  (Not once: it is called again while it has not
\* returned, when it raised, and when a request arrives after the free.)
RunsBounded == \A k \in Call : runs[k] <= RetryNumber + copies

\* No more than Max calls are on their way at a time.
CallsLimited == Limited => Cardinality({k \in Call : call[k] = "waiting"}) <= Max

Remote ==
  INSTANCE RemoteCall
    WITH state <- [k \in Call |-> IF call[k] \in {"locking", "waiting"} THEN "pending"
                                                                       ELSE call[k]]

\* Every call ends, and one that ends well was served by the callee.
CallsEnd == Remote!FairSpec

\* The sender never sleeps past a message: each one leaves the queue, although
\* the caller has stopped waiting for it.
MessagesLeave == \A k \in Call : k \in messages ~> k \notin messages

\* An answer is not kept for ever by a callee that makes calls too.
AnswersLeave == \A k \in Call : (k \in replied /\ server_run) ~> k \notin replied

\* What do_call says of the time left when it has got its place ("normally not
\* possible here"): a place is taken by the calls on their way, and by no other.
PlacesComeBack == Limited => inside = Cardinality({k \in Call : call[k] = "waiting"})

=============================================================================
