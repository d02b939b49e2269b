----------------------------- MODULE UrpcProofs -----------------------------
(***************************************************************************)
(* Remote calls over UDP, for any number of calls and any settings: the    *)
(* answers that are kept, how often a function is called, the limit of     *)
(* calls, and what a call that ends well means.                            *)
(*                                                                         *)
(* The inductive invariant has a conjunct for each place where the key of  *)
(* a call may be: nowhere before the call has its place (Fresh), in the    *)
(* queue and in requests (Sends), in answers (Serves), and what is kept    *)
(* for whoever still waits (KeepsAnswers).                                 *)
(***************************************************************************)
EXTENDS Urpc, FiniteSetTheorems, TLAPS

Waiting == {k \in Call : call[k] = "waiting"}

\* A call that has no place yet has left no trace.
Fresh ==
  \A k \in Call : call[k] \in {"new", "locking"} =>
     /\ k \notin messages /\ k \notin replied
     /\ nb_try[k] = 0 /\ runs[k] = 0 /\ running[k] = 0
     /\ calls[k] = 0 /\ replies[k] = 0 /\ frees[k] = 0
     /\ ~served[k] /\ ~answered[k]

\* A request was sent for each call of the function and each request on its way.
Sends ==
  \A k \in Call :
     /\ k \in messages => nb_try[k] < RetryNumber
     /\ runs[k] + calls[k] <= nb_try[k] + copies

\* Whoever has an answer has it from the callee.
Serves ==
  \A k \in Call :
     (replies[k] > 0 \/ answered[k] \/ k \in replied \/ call[k] = "ok") => served[k]

\* Nobody has freed the answer of a call that is waited for, and it will be kept
\* for longer than that: cleaning_after is longer than any timeout.
KeepsAnswers ==
  \A k \in Call \ Ping : Awaited(k) =>
     /\ frees[k] = 0
     /\ served[k] => k \in replied /\ left[k] + (CleaningAfter - Timeout) <= life[k]

\* Each call on its way has a place.
Places == Limited => Cardinality(Waiting) <= inside

Inv == TypeOK /\ Fresh /\ Sends /\ Serves /\ KeepsAnswers /\ Places

----------------------------------------------------------------------------
(* The calls on their way *)

LEMMA WaitingType == IsFiniteSet(Waiting) /\ Cardinality(Waiting) \in Nat
  BY CallAssumption, FS_Subset, FS_CardinalityType DEF Waiting

LEMMA WaitingSame ==
  ASSUME \A k \in Call : call'[k] = "waiting" <=> call[k] = "waiting"
  PROVE  Waiting' = Waiting
  BY DEF Waiting

LEMMA OneMoreWaits ==
  ASSUME TypeOK, NEW k \in Call, call[k] # "waiting",
         call' = [call EXCEPT ![k] = "waiting"]
  PROVE  Cardinality(Waiting') = Cardinality(Waiting) + 1
  <1>1. Waiting' = Waiting \cup {k} /\ k \notin Waiting
    BY DEF Waiting, TypeOK
  <1> QED BY <1>1, WaitingType, FS_AddElement

LEMMA OneLessWaits ==
  ASSUME TypeOK, NEW k \in Call, NEW how \in {"ok", "failed"}, call[k] = "waiting",
         call' = [call EXCEPT ![k] = how]
  PROVE  /\ Cardinality(Waiting') = Cardinality(Waiting) - 1
         /\ Cardinality(Waiting) > 0
  <1>1. Waiting' = Waiting \ {k} /\ k \in Waiting
    BY DEF Waiting, TypeOK
  <1>2. Cardinality(Waiting') = Cardinality(Waiting) - 1
    BY <1>1, WaitingType, FS_RemoveElement
  <1>3. Cardinality(Waiting') \in Nat
    BY <1>1, WaitingType, FS_RemoveElement, FS_CardinalityType
  <1> QED BY <1>2, <1>3, WaitingType

\* Who waits does not change, and neither does the semaphore.
LEMMA PlacesSame ==
  ASSUME Places, UNCHANGED <<call, inside>>
  PROVE  Places'
  BY DEF Places, Waiting, Limited

----------------------------------------------------------------------------
(* Steps of the caller *)

LEMMA InitInv == Init => Inv
  <1> SUFFICES ASSUME Init PROVE Inv
    OBVIOUS
  <1>1. TypeOK
    <2>1. inside \in 0..Max /\ copies \in 0..MaxCopies
      BY LimitAssumption DEF Init
    <2>2. wakeup \in Never..RetryAfter
      BY TimeAssumption DEF Init, Never
    <2>3. /\ left \in [Call -> 0..Timeout] /\ nb_try \in [Call -> 0..RetryNumber]
          /\ next_try \in [Call -> 0..RetryAfter] /\ life \in [Call -> 0..CleaningAfter]
      BY TimeAssumption DEF Init, Zero
    <2>4. /\ call \in [Call -> {"new", "locking", "waiting", "ok", "failed"}]
          /\ answered \in [Call -> BOOLEAN] /\ served \in [Call -> BOOLEAN]
          /\ server_run \in BOOLEAN
      BY DEF Init
    <2>5. /\ calls \in [Call -> Nat] /\ replies \in [Call -> Nat]
          /\ frees \in [Call -> Nat] /\ running \in [Call -> Nat]
          /\ runs \in [Call -> Nat]
      BY DEF Init, Zero
    <2>6. messages \subseteq Call /\ replied \subseteq Call
      BY DEF Init
    <2> QED BY <2>1, <2>2, <2>3, <2>4, <2>5, <2>6 DEF TypeOK
  <1>2. Fresh /\ Sends /\ Serves /\ KeepsAnswers
    BY DEF Init, Zero, Fresh, Sends, Serves, KeepsAnswers, Awaited
  <1>3. Waiting = {}
    BY DEF Init, Waiting
  <1>4. Places
    BY <1>3, FS_EmptySet DEF Places, Init
  <1> QED BY <1>1, <1>2, <1>4 DEF Inv

\* A call gets its place and its message is stored.
LEMMA GetsPlace ==
  ASSUME Inv, NEW k \in Call, call[k] \in {"new", "locking"}, ~Full, Enter, Store(k),
         left' \in [Call -> 0..Timeout],
         \A i \in Call : i # k => left'[i] = left[i],
         UNCHANGED <<answered, netVars, calleeVars>>
  PROVE  Inv'
  <1>1. TypeOK'
    <2>1. inside' \in 0..Max
      BY LimitAssumption DEF Inv, TypeOK, Full, Enter, Limited
    <2>2. wakeup' \in Never..RetryAfter
      BY TimeAssumption DEF Store, Never
    <2>3. /\ call' \in [Call -> {"new", "locking", "waiting", "ok", "failed"}]
          /\ messages' \subseteq Call
      BY DEF Inv, TypeOK, Store
    <2> QED BY <2>1, <2>2, <2>3 DEF Inv, TypeOK, Store, netVars, calleeVars
  <1>2. Fresh'
    BY DEF Inv, TypeOK, Fresh, Store, netVars, calleeVars
  <1>3. Sends'
    BY TimeAssumption DEF Inv, TypeOK, Fresh, Sends, Store, netVars, calleeVars
  <1>4. Serves'
    BY DEF Inv, TypeOK, Fresh, Serves, Store, netVars, calleeVars
  <1>5. KeepsAnswers'
    BY DEF Inv, TypeOK, Fresh, KeepsAnswers, Awaited, Store, netVars, calleeVars
  <1>6. Cardinality(Waiting') = Cardinality(Waiting) + 1
    BY OneMoreWaits DEF Inv, Store
  <1>7. Places'
    BY <1>6, WaitingType, LimitAssumption DEF Inv, TypeOK, Places, Enter, Limited
  <1> QED BY <1>1, <1>2, <1>3, <1>4, <1>5, <1>7 DEF Inv

\* A call waits for a place, or ends without a message.
LEMMA NoMessage ==
  ASSUME Inv, NEW k \in Call, call[k] \in {"new", "locking"},
         NEW how \in {"locking", "failed"},
         call' = [call EXCEPT ![k] = how],
         left' \in [Call -> 0..Timeout],
         \A i \in Call : i # k => left'[i] = left[i],
         inside' \in inside..Max,
         UNCHANGED <<answered, sendVars, netVars, calleeVars>>
  PROVE  Inv'
  <1>1. TypeOK'
    <2>1. inside' \in 0..Max
      BY LimitAssumption DEF Inv, TypeOK
    <2>2. call' \in [Call -> {"new", "locking", "waiting", "ok", "failed"}]
      BY DEF Inv, TypeOK
    <2> QED BY <2>1, <2>2 DEF Inv, TypeOK, sendVars, netVars, calleeVars
  <1>2. Fresh'
    BY DEF Inv, TypeOK, Fresh, sendVars, netVars, calleeVars
  <1>3. Sends'
    BY DEF Inv, Sends, sendVars, netVars, calleeVars
  <1>4. Serves'
    BY DEF Inv, TypeOK, Serves, netVars, calleeVars
  <1>5. KeepsAnswers'
    BY DEF Inv, TypeOK, KeepsAnswers, Awaited, netVars, calleeVars
  <1>6. Waiting' = Waiting
    BY DEF Inv, TypeOK, Waiting
  <1>7. Places'
    BY <1>6, WaitingType, LimitAssumption DEF Inv, TypeOK, Places, Limited
  <1> QED BY <1>1, <1>2, <1>3, <1>4, <1>5, <1>7 DEF Inv

LEMMA DoCallInv == ASSUME Inv, NEW k \in Call, DoCall(k) PROVE Inv'
  <1>1. /\ left' \in [Call -> 0..Timeout]
        /\ \A i \in Call : i # k => left'[i] = left[i]
    BY TimeAssumption DEF Inv, TypeOK, DoCall
  <1>2. CASE ~Full /\ Enter /\ Store(k)
    BY <1>1, <1>2, GetsPlace DEF DoCall
  <1>3. CASE Full /\ call' = [call EXCEPT ![k] = "locking"] /\ UNCHANGED <<inside, sendVars>>
    <2>1. inside' \in inside..Max
      BY <1>3, LimitAssumption DEF Inv, TypeOK
    <2> QED BY <1>1, <1>3, <2>1, NoMessage DEF DoCall
  <1> QED BY <1>2, <1>3 DEF DoCall

LEMMA LockedInv == ASSUME Inv, NEW k \in Call, Locked(k) PROVE Inv'
  <1>1. /\ left' \in [Call -> 0..Timeout]
        /\ \A i \in Call : i # k => left'[i] = left[i]
    BY DEF Inv, TypeOK, Locked
  <1>2. CASE Store(k)
    BY <1>1, <1>2, GetsPlace DEF Locked
  <1>3. CASE call' = [call EXCEPT ![k] = "failed"] /\ UNCHANGED sendVars
    <2>1. inside' \in inside..Max
      BY LimitAssumption DEF Inv, TypeOK, Locked, Full, Enter, Limited
    <2> QED BY <1>1, <1>3, <2>1, NoMessage DEF Locked
  <1> QED BY <1>2, <1>3 DEF Locked

LEMMA NotLockedInv == ASSUME Inv, NEW k \in Call, NotLocked(k) PROVE Inv'
  <1>1. /\ left' \in [Call -> 0..Timeout]
        /\ \A i \in Call : i # k => left'[i] = left[i]
        /\ inside' \in inside..Max
    BY LimitAssumption DEF Inv, TypeOK, NotLocked
  <1> QED BY <1>1, NoMessage DEF NotLocked

LEMMA EndInv ==
  ASSUME Inv, NEW k \in Call, NEW how \in {"ok", "failed"},
         call[k] = "waiting", how = "ok" => answered[k], End(k, how)
  PROVE  Inv'
  <1>1. call' = [call EXCEPT ![k] = how]
    BY DEF End
  <1>2. /\ Cardinality(Waiting') = Cardinality(Waiting) - 1
        /\ Cardinality(Waiting) > 0
    BY <1>1, OneLessWaits DEF Inv
  <1>3. inside' \in 0..Max /\ (Limited => inside' = inside - 1)
    BY <1>2, WaitingType, LimitAssumption DEF Inv, TypeOK, Places, End, Unlock, Limited
  <1>4. TypeOK'
    BY <1>3, TimeAssumption DEF Inv, TypeOK, End, sendVars, netVars, calleeVars
  <1>5. Fresh'
    BY DEF Inv, TypeOK, Fresh, End, sendVars, netVars, calleeVars
  <1>6. Sends'
    BY DEF Inv, Sends, End, sendVars, netVars, calleeVars
  <1>7. Serves'
    BY DEF Inv, TypeOK, Serves, End, netVars, calleeVars
  <1>8. KeepsAnswers'
    BY DEF Inv, TypeOK, KeepsAnswers, Awaited, End, netVars, calleeVars
  <1>9. Places'
    BY <1>2, <1>3, WaitingType DEF Inv, TypeOK, Places, Limited
  <1> QED BY <1>4, <1>5, <1>6, <1>7, <1>8, <1>9 DEF Inv

LEMMA CallerInv == ASSUME Inv, NEW k \in Call, Caller(k) PROVE Inv'
  <1>1. CASE Answered(k)
    BY <1>1, EndInv DEF Answered
  <1>2. CASE TimedOut(k)
    BY <1>2, EndInv DEF TimedOut
  <1> QED BY <1>1, <1>2, LockedInv, NotLockedInv DEF Caller

LEMMA SenderInv == ASSUME Inv, Sender PROVE Inv'
  <1>1. \A k \in Call : k \in Due => k \in messages /\ nb_try[k] < RetryNumber
    BY DEF Inv, Sends, Due
  <1>2. nb_try' \in [Call -> 0..RetryNumber] /\ calls' \in [Call -> Nat]
    BY <1>1, TimeAssumption DEF Inv, TypeOK, Sender
  <1>3. next_try' \in [Call -> 0..RetryAfter] /\ messages' \subseteq messages
    BY TimeAssumption DEF Inv, TypeOK, Sender
  <1>4. wakeup' \in Never..RetryAfter
    BY <1>3, TimeAssumption DEF Inv, TypeOK, Sender, SleepUntilNext, Never
  <1>5. TypeOK'
    BY <1>2, <1>3, <1>4 DEF Inv, TypeOK, Sender, callVars, calleeVars
  <1>6. Fresh'
    BY <1>1 DEF Inv, TypeOK, Fresh, Sender, callVars, calleeVars
  <1>7. Sends'
    <2> SUFFICES ASSUME NEW k \in Call
                 PROVE  /\ k \in messages' => nb_try'[k] < RetryNumber
                        /\ runs'[k] + calls'[k] <= nb_try'[k] + copies'
      BY DEF Sends
    <2>1. CASE k \in Due
      <3>1. nb_try'[k] = nb_try[k] + 1 /\ calls'[k] = calls[k] + 1
        BY <2>1 DEF Sender
      <3>2. runs'[k] = runs[k] /\ copies' = copies
        BY DEF Sender, calleeVars
      <3>3. k \in messages' => nb_try[k] + 1 < RetryNumber
        BY <2>1, TimeAssumption DEF Sender, Last, Inv, TypeOK
      <3> QED BY <3>1, <3>2, <3>3 DEF Inv, TypeOK, Sends
    <2>2. CASE k \notin Due
      BY <2>2, <1>3 DEF Inv, TypeOK, Sends, Sender, calleeVars
    <2> QED BY <2>1, <2>2
  <1>8. Serves'
    BY DEF Inv, Serves, Sender, callVars, calleeVars
  <1>9. KeepsAnswers'
    BY DEF Inv, KeepsAnswers, Awaited, Sender, callVars, calleeVars
  <1>10. Places'
    BY PlacesSame DEF Inv, Sender, callVars
  <1> QED BY <1>5, <1>6, <1>7, <1>8, <1>9, <1>10 DEF Inv

LEMMA ReceiveReplyInv == ASSUME Inv, NEW k \in Call, ReceiveReply(k) PROVE Inv'
  <1>1. TypeOK'
    <2>1. answered' \in [Call -> BOOLEAN]
      BY DEF Inv, TypeOK, ReceiveReply
    <2>2. replies' \in [Call -> Nat] /\ frees' \in [Call -> Nat]
      BY DEF Inv, TypeOK, ReceiveReply, More, Less
    <2>3. messages' \subseteq Call /\ next_try' \in [Call -> 0..RetryAfter]
      BY TimeAssumption DEF Inv, TypeOK, ReceiveReply
    <2> QED BY <2>1, <2>2, <2>3 DEF Inv, TypeOK, ReceiveReply, calleeVars
  <1>2. Fresh'
    BY DEF Inv, TypeOK, Fresh, ReceiveReply, More, Less, calleeVars
  <1>3. Sends'
    BY DEF Inv, Sends, ReceiveReply, calleeVars
  <1>4. Serves'
    BY DEF Inv, TypeOK, Serves, ReceiveReply, Less, calleeVars
  <1>5. KeepsAnswers'
    BY DEF Inv, TypeOK, KeepsAnswers, Awaited, ReceiveReply, More, calleeVars
  <1>6. Places'
    BY PlacesSame DEF Inv, ReceiveReply
  <1> QED BY <1>1, <1>2, <1>3, <1>4, <1>5, <1>6 DEF Inv

----------------------------------------------------------------------------
(* Steps of the callee, the network and the time *)

LEMMA ReceiveCallInv == ASSUME Inv, NEW k \in Call, ReceiveCall(k) PROVE Inv'
  <1>1. TypeOK'
    <2>1. served' \in [Call -> BOOLEAN]
      BY DEF Inv, TypeOK, ReceiveCall
    <2>2. /\ calls' \in [Call -> Nat] /\ replies' \in [Call -> Nat]
          /\ running' \in [Call -> Nat] /\ runs' \in [Call -> Nat]
      BY DEF Inv, TypeOK, ReceiveCall, More, Less
    <2> QED BY <2>1, <2>2 DEF Inv, TypeOK, ReceiveCall, callVars, sendVars
  <1>2. Fresh'
    BY DEF Inv, TypeOK, Fresh, ReceiveCall, More, Less, callVars, sendVars
  <1>3. Sends'
    BY DEF Inv, TypeOK, Sends, ReceiveCall, More, Less, callVars, sendVars
  <1>4. Serves'
    BY DEF Inv, TypeOK, Serves, ReceiveCall, More, callVars
  <1>5. KeepsAnswers'
    BY DEF Inv, TypeOK, Serves, KeepsAnswers, Awaited, ReceiveCall, callVars
  <1>6. Places'
    BY PlacesSame DEF Inv, ReceiveCall, callVars
  <1> QED BY <1>1, <1>2, <1>3, <1>4, <1>5, <1>6 DEF Inv

LEMMA ReturnsInv == ASSUME Inv, NEW k \in Call, Returns(k) PROVE Inv'
  <1>1. TypeOK'
    BY TimeAssumption DEF Inv, TypeOK, Returns, More, Less, callVars, sendVars
  <1>2. Fresh'
    BY DEF Inv, TypeOK, Fresh, Returns, More, Less, callVars, sendVars
  <1>3. Sends'
    BY DEF Inv, Sends, Returns, callVars, sendVars
  <1>4. Serves'
    BY DEF Inv, TypeOK, Serves, Returns, More, callVars
  <1>5. KeepsAnswers'
    BY TimeAssumption DEF Inv, TypeOK, KeepsAnswers, Awaited, Returns, callVars
  <1>6. Places'
    BY PlacesSame DEF Inv, Returns, callVars
  <1> QED BY <1>1, <1>2, <1>3, <1>4, <1>5, <1>6 DEF Inv

LEMMA RaisesInv == ASSUME Inv, NEW k \in Call, Raises(k) PROVE Inv'
  <1>1. TypeOK'
    BY DEF Inv, TypeOK, Raises, Less, callVars, sendVars, netVars
  <1>2. Fresh'
    BY DEF Inv, TypeOK, Fresh, Raises, Less, callVars, sendVars, netVars
  <1>3. Sends' /\ Serves'
    BY DEF Inv, Sends, Serves, Raises, callVars, sendVars, netVars
  <1>4. KeepsAnswers'
    BY DEF Inv, KeepsAnswers, Awaited, Raises, callVars, netVars
  <1>5. Places'
    BY PlacesSame DEF Inv, Raises, callVars
  <1> QED BY <1>1, <1>2, <1>3, <1>4, <1>5 DEF Inv

\* The callee forgets answers nobody waits for.
LEMMA ForgetInv ==
  ASSUME Inv, NEW ks \in SUBSET Call, Forget(ks),
         \A k \in ks \ Ping : served[k] => ~Awaited(k),
         frees' \in [Call -> Nat], \A k \in Call : frees'[k] <= frees[k],
         UNCHANGED <<callVars, sendVars, calls, replies, copies, server_run, running,
                     served, runs>>
  PROVE  Inv'
  <1>1. TypeOK'
    BY TimeAssumption DEF Inv, TypeOK, Forget, callVars, sendVars
  <1>2. Fresh'
    BY DEF Inv, TypeOK, Fresh, Forget, callVars, sendVars
  <1>3. Sends' /\ Serves'
    BY DEF Inv, Sends, Serves, Forget, callVars, sendVars
  <1>4. KeepsAnswers'
    BY DEF Inv, TypeOK, KeepsAnswers, Awaited, Forget, callVars
  <1>5. Places'
    BY PlacesSame DEF Inv, callVars
  <1> QED BY <1>1, <1>2, <1>3, <1>4, <1>5 DEF Inv

LEMMA ReceiveFreeInv == ASSUME Inv, NEW k \in Call, ReceiveFree(k) PROVE Inv'
  <1>1. \A i \in {k} \ Ping : served[i] => ~Awaited(i)
    BY DEF Inv, KeepsAnswers, ReceiveFree
  <1>2. frees' \in [Call -> Nat] /\ \A i \in Call : frees'[i] <= frees[i]
    BY DEF Inv, TypeOK, ReceiveFree, Less
  <1> QED BY <1>1, <1>2, ForgetInv DEF ReceiveFree

LEMMA CleanRepliedInv == ASSUME Inv, CleanReplied PROVE Inv'
  <1>1. \A k \in Old \ Ping : served[k] => ~Awaited(k)
    BY TimeAssumption DEF Inv, TypeOK, KeepsAnswers, Old, Awaited
  <1>2. Old \in SUBSET Call
    BY DEF Inv, TypeOK, Old
  <1>3. frees' \in [Call -> Nat] /\ \A k \in Call : frees'[k] <= frees[k]
    BY DEF Inv, TypeOK, CleanReplied, netVars
  <1> QED BY <1>1, <1>2, <1>3, ForgetInv DEF CleanReplied, netVars

LEMMA DuplicateInv == ASSUME Inv, NEW k \in Call, Duplicate(k) PROVE Inv'
  <1>1. TypeOK'
    BY LimitAssumption DEF Inv, TypeOK, Duplicate, More, callVars, sendVars, calleeVars
  <1>2. Fresh'
    BY DEF Inv, TypeOK, Fresh, Duplicate, More, callVars, sendVars, calleeVars
  <1>3. Sends'
    BY DEF Inv, TypeOK, Sends, Duplicate, More, callVars, sendVars, calleeVars
  <1>4. Serves' /\ KeepsAnswers'
    BY DEF Inv, Serves, KeepsAnswers, Awaited, Duplicate, callVars, calleeVars
  <1>5. Places'
    BY PlacesSame DEF Inv, Duplicate, callVars
  <1> QED BY <1>1, <1>2, <1>3, <1>4, <1>5 DEF Inv

LEMMA TickInv == ASSUME Inv, Tick PROVE Inv'
  <1>1. TypeOK'
    BY TimeAssumption DEF Inv, TypeOK, Tick, Down, netVars, Never
  <1>2. Fresh' /\ Sends' /\ Serves'
    BY DEF Inv, Fresh, Sends, Serves, Tick, netVars
  <1>3. KeepsAnswers'
    BY TimeAssumption DEF Inv, TypeOK, KeepsAnswers, Awaited, Tick, Down, netVars
  <1>4. Places'
    BY PlacesSame DEF Inv, Tick
  <1> QED BY <1>1, <1>2, <1>3, <1>4 DEF Inv

LEMMA StutterInv == ASSUME Inv, UNCHANGED vars PROVE Inv'
  BY PlacesSame DEF Inv, vars, TypeOK, Fresh, Sends, Serves, KeepsAnswers, Awaited

LEMMA CalleeInv == ASSUME Inv, NEW k \in Call, Callee(k) PROVE Inv'
  BY ReceiveCallInv, ReturnsInv, RaisesInv, ReceiveFreeInv DEF Callee

LEMMA CalleeCallsInv == ASSUME Inv, CalleeCalls PROVE Inv'
  BY PlacesSame
  DEF Inv, CalleeCalls, callVars, sendVars, netVars, TypeOK, Fresh, Sends, Serves,
      KeepsAnswers, Awaited

LEMMA NextInv == ASSUME Inv, [Next]_vars PROVE Inv'
  BY DoCallInv, CallerInv, ReceiveReplyInv, CalleeInv, DuplicateInv, SenderInv,
     CalleeCallsInv, CleanRepliedInv, TickInv, StutterInv
  DEF Next

LEMMA Invariance == Spec => []Inv
  BY InitInv, NextInv, PTL DEF Spec

----------------------------------------------------------------------------
(* Theorems *)

\* The variables of urpc.lua keep their types: in particular the semaphore never
\* counts below zero nor above settings.max, although a call may leave a place
\* behind.
THEOREM TypeCorrect == Spec => []TypeOK
  <1>1. Inv => TypeOK
    BY DEF Inv
  <1> QED BY <1>1, Invariance, PTL

\* As long as the caller waits for a call, neither clean_replied nor a free takes
\* away the answer the callee keeps for it.
THEOREM AnswersAreKept == Spec => []AnswerKept
  <1>1. Inv => AnswerKept
    BY DEF Inv, KeepsAnswers, AnswerKept
  <1> QED BY <1>1, Invariance, PTL

\* A function is called retry_number times at most, and once more for each
\* request the network duplicates.
THEOREM RunsAreBounded == Spec => []RunsBounded
  <1>1. Inv => RunsBounded
    BY TimeAssumption DEF Inv, TypeOK, Sends, RunsBounded
  <1> QED BY <1>1, Invariance, PTL

\* No more than settings.max calls are on their way.
THEOREM CallsAreLimited == Spec => []CallsLimited
  <1>1. Inv => CallsLimited
    BY WaitingType, LimitAssumption DEF Inv, TypeOK, Places, Waiting, CallsLimited
  <1> QED BY <1>1, Invariance, PTL

----------------------------------------------------------------------------
(* What a remote call promises *)

Abstract(c) == IF c \in {"locking", "waiting"} THEN "pending" ELSE c
State == [k \in Call |-> Abstract(call[k])]

LEMMA StateSame == ASSUME UNCHANGED call PROVE State' = State
  BY DEF State, Abstract

\* A call gets from one place of do_call to another.
LEMMA StateMoves ==
  ASSUME TypeOK, NEW k \in Call, NEW c \in {"locking", "waiting", "ok", "failed"},
         call' = [call EXCEPT ![k] = c]
  PROVE  State' = [State EXCEPT ![k] = Abstract(c)]
  BY DEF TypeOK, State, Abstract

LEMMA BeginsRemote == ASSUME Inv, NEW k \in Call, DoCall(k) PROVE Remote!Begin(k)
  <1>1. State[k] = "new" /\ UNCHANGED served
    BY DEF DoCall, State, Abstract, calleeVars
  <1>2. CASE call' = [call EXCEPT ![k] = "waiting"]
    <2>1. State' = [State EXCEPT ![k] = "pending"]
      BY <1>2, StateMoves DEF Inv, Abstract
    <2> QED BY <1>1, <2>1 DEF Remote!Begin, State, Abstract
  <1>3. CASE call' = [call EXCEPT ![k] = "locking"]
    <2>1. State' = [State EXCEPT ![k] = "pending"]
      BY <1>3, StateMoves DEF Inv, Abstract
    <2> QED BY <1>1, <2>1 DEF Remote!Begin, State, Abstract
  <1> QED BY <1>2, <1>3 DEF DoCall, Store

LEMMA FailsRemote ==
  ASSUME Inv, NEW k \in Call, call[k] \in {"locking", "waiting"},
         call' = [call EXCEPT ![k] = "failed"], UNCHANGED served
  PROVE  Remote!Fail(k)
  <1>1. State' = [State EXCEPT ![k] = "failed"] /\ State[k] = "pending"
    BY StateMoves DEF Inv, State, Abstract
  <1> QED BY <1>1 DEF Remote!Fail, State, Abstract

LEMMA CallerIsRemote ==
  ASSUME Inv, NEW k \in Call, Caller(k)
  PROVE  Remote!Succeed(k) \/ Remote!Fail(k) \/ UNCHANGED <<State, served>>
  <1>1. UNCHANGED served
    BY DEF Caller, Locked, NotLocked, Answered, TimedOut, End, calleeVars
  <1>2. CASE Answered(k) /\ End(k, "ok")
    <2>1. State' = [State EXCEPT ![k] = "ok"] /\ State[k] = "pending"
      BY <1>2, StateMoves DEF Inv, State, Abstract, Answered, End
    <2>2. served[k]
      BY <1>2 DEF Inv, Serves, Answered
    <2> QED BY <1>1, <2>1, <2>2 DEF Remote!Succeed, State, Abstract
  <1>3. CASE Locked(k) /\ Store(k)
    <2>1. State' = [State EXCEPT ![k] = "pending"] /\ State[k] = "pending"
      BY <1>3, StateMoves DEF Inv, State, Abstract, Locked, Store
    <2>2. State' = State
      BY <2>1 DEF State
    <2> QED BY <1>1, <2>2
  <1>4. CASE call[k] \in {"locking", "waiting"} /\ call' = [call EXCEPT ![k] = "failed"]
    BY <1>1, <1>4, FailsRemote
  <1> QED BY <1>2, <1>3, <1>4 DEF Caller, Locked, NotLocked, Answered, TimedOut, End

LEMMA CalleeIsRemote ==
  ASSUME Inv, NEW k \in Call, Callee(k)
  PROVE  Remote!Serve(k) \/ UNCHANGED <<State, served>>
  <1>1. UNCHANGED call /\ State' = State
    BY StateSame DEF Callee, ReceiveCall, Returns, Raises, ReceiveFree, callVars
  <1>2. CASE served' = [served EXCEPT ![k] = TRUE] /\ (calls[k] > 0 \/ running[k] > 0)
    <2>1. call[k] # "new"
      BY <1>2 DEF Inv, Fresh
    <2>2. State[k] # "new"
      BY <2>1 DEF State, Abstract
    <2> QED BY <1>1, <1>2, <2>2 DEF Remote!Serve, State, Abstract
  <1> QED BY <1>1, <1>2 DEF Callee, ReceiveCall, Returns, Raises, ReceiveFree

LEMMA OthersAreRemote ==
  ASSUME \/ Sender \/ CalleeCalls \/ CleanReplied \/ Tick \/ UNCHANGED vars
         \/ \E k \in Call : ReceiveReply(k) \/ Duplicate(k)
  PROVE  UNCHANGED <<State, served>>
  <1>1. UNCHANGED <<call, served>>
    BY DEF Sender, CalleeCalls, CleanReplied, Tick, vars, ReceiveReply, Duplicate,
           callVars, calleeVars
  <1> QED BY <1>1, StateSame

LEMMA StepIsRemote ==
  ASSUME Inv, [Next]_vars
  PROVE  [Remote!Next]_<<State, served>>
  <1>1. ASSUME NEW k \in Call, DoCall(k) \/ Caller(k) \/ Callee(k)
        PROVE  Remote!Next \/ UNCHANGED <<State, served>>
    BY <1>1, BeginsRemote, CallerIsRemote, CalleeIsRemote DEF Remote!Next
  <1> QED BY <1>1, OthersAreRemote DEF Next

\* do_call implements a remote call over an unreliable network: when it returns
\* true, the callee has served the request.
THEOREM ImplementsRemoteCall == Spec => Remote!Spec
  <1>1. Init => Remote!Init
    BY DEF Init, Remote!Init
  <1>2. Inv /\ [Next]_vars => [Remote!Next]_(Remote!vars)
    BY StepIsRemote DEF Remote!vars, State, Abstract
  <1> QED BY <1>1, <1>2, Invariance, PTL DEF Spec, Remote!Spec

=============================================================================
