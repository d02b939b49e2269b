-------------------------- MODULE SplaySyncProofs --------------------------
(***************************************************************************)
(* What the tables say of a daemon is what the daemon does.  A daemon is   *)
(* never told to register a job it has, and a job the tables show as       *)
(* WAITING or RUNNING on a daemon that is served is on that daemon,        *)
(* whatever fails and however many connections, threads and restarts       *)
(* there were.                                                             *)
(*                                                                         *)
(* The argument has six parts, each an invariant on top of the ones before *)
(* it: Wire (what can be on a connection when its thread is somewhere),    *)
(* Sessions (no session is ever restored, so that every admission clears   *)
(* both sides), Ids (an id of actions stands for one command), FirstAsk    *)
(* (a job that was not sent yet is unknown to every daemon that can be     *)
(* chosen), RegisterOnce and Rows.                                         *)
(***************************************************************************)
EXTENDS SplayLifeProofs

\* The thread of connection k is past the reset of the daemon's rows.
Admitted == {"infos", "log", "available", "restore", "free", "register"} \cup Serving

\* Connection k works and its thread serves the daemon.
Attached(k) == link[k] = "up" /\ tpc[k] \in Admitted

---------------------------------------------------------------------------
(* The invariants: connections *)

InfosMessage == [cmd |-> "INFOS"]
LogMessage == [cmd |-> "LOG"]

\* What AskInfos writes, and what SendAction writes for action a.
Greeting(s) == <<[cmd |-> "AUTH", session |-> s], InfosMessage>>
Order(a) == [cmd |-> a.cmd, job |-> a.job, data |-> a.data]

Greets(k) == \E s \in Nat : req[k] = Greeting(s)

\* Where the thread waits for no reply.
Silent == {"none", "hello", "auth", "reset", "available", "restore", "free", "register",
           "main", "picked", "applied"}

\* What can be on connection k.
Shape(k) ==
  /\ tpc[k] \in Silent => req[k] = <<>> /\ rep[k] = "none"
  /\ tpc[k] = "infos" => req[k] \in {<<>>, <<InfosMessage>>} \/ Greets(k)
  /\ tpc[k] = "log" => req[k] \in {<<>>, <<LogMessage>>}
  /\ tpc[k] = "wait" => req[k] \in {<<>>, <<Order(taction[k])>>}
  /\ tpc[k] = "dead" =>
       req[k] = <<>> \/ Greets(k) \/ \E m : req[k] = <<m>> /\ m.cmd # "AUTH"
  /\ rep[k] # "none" => req[k] = <<>>

\* The two ends of connection k.
Ends(k) ==
  LET d == SplaydOf(k) IN
  /\ link[k] = "up" => k = Current(d)
  /\ tpc[k] = "none" => link[k] = "free" /\ k # Current(d)
  /\ link[k] = "up" /\ tpc[k] \in {"hello", "auth", "reset"} => ~dloop[d]
  /\ Attached(k) => (dloop[d] <=> ~Greets(k))

Wire ==
  /\ \A k \in Conn : Shape(k) /\ Ends(k)
  /\ \A d \in Splayd : dconn[d] = NoConn => ~dloop[d]

---------------------------------------------------------------------------
(* The invariants: sessions *)

\* The session a row can have, and a session sent for an earlier row.
SessionNumber(n) == n = NullSession \/ n >= FirstSession

OlderThan(s, n) == n >= FirstSession /\ (s = NullText \/ (FirstSession <= s /\ s < n))

\* A daemon has no session or an older one than its row.
Outdated(s, n) == s = EmptyText \/ OlderThan(s, n)

ThreadSession(k) ==
  LET d == SplaydOf(k)
      n == splayds[d].session
  IN /\ k = Current(d) /\ ~dloop[d] => dsession[d] = tsession[k]
     /\ tpc[k] = "hello" => Outdated(tsession[k], n)
     /\ tpc[k] \in {"auth", "reset"} =>
          /\ SessionNumber(trow[k].session)
          /\ Outdated(tsession[k], trow[k].session)
          /\ trow[k].session <= n
     /\ tpc[k] = "reset" => trow[k].session < n
     /\ \A s \in Nat : req[k] = Greeting(s) => s # tsession[k] /\ OlderThan(s, n)

Sessions ==
  /\ \A d \in Splayd :
       SessionNumber(splayds[d].session) /\ Outdated(dsession[d], splayds[d].session)
  /\ \A k \in Conn : ThreadSession(k)

---------------------------------------------------------------------------
(* Messages *)

LEMMA OneMessage ==
  ASSUME NEW a
  PROVE  <<a>> # <<>> /\ Head(<<a>>) = a /\ Tail(<<a>>) = <<>> /\ <<>> \o <<a>> = <<a>>
  OBVIOUS

LEMMA TwoMessages ==
  ASSUME NEW a, NEW b
  PROVE  /\ <<a, b>> # <<>> /\ Head(<<a, b>>) = a
         /\ Tail(<<a, b>>) = <<b>> /\ <<>> \o <<a, b>> = <<a, b>>
  OBVIOUS

LEMMA GreetingParts ==
  ASSUME NEW s
  PROVE  /\ Greeting(s) # <<>>
         /\ Head(Greeting(s)) = [cmd |-> "AUTH", session |-> s]
         /\ Tail(Greeting(s)) = <<InfosMessage>>
         /\ \A t : Greeting(t) = Greeting(s) => t = s
         /\ \A m : Greeting(s) # <<m>>
  BY DEF Greeting

LEMMA ConnParts ==
  ASSUME NEW k \in Conn
  PROVE  /\ SplaydOf(k) \in Splayd /\ k[2] \in 1 .. MaxConn
         /\ k = <<SplaydOf(k), k[2]>>
         /\ \A c \in Conn : c = k <=> SplaydOf(c) = SplaydOf(k) /\ c[2] = k[2]
         /\ k = Current(SplaydOf(k)) <=> dconn[SplaydOf(k)] = k[2]
  BY DEF Conn, SplaydOf, Current

---------------------------------------------------------------------------
(* What a step of a thread and a command leave alone *)

Same(c) ==
  /\ tpc'[c] = tpc[c] /\ taction'[c] = taction[c]
  /\ req'[c] = req[c] /\ rep'[c] = rep[c] /\ link'[c] = link[c]

LEMMA SameShape ==
  ASSUME NEW c, Shape(c), Same(c)
  PROVE  Shape(c)'
  BY DEF Shape, Same, Greets

LEMMA SameEnds ==
  ASSUME NEW c, Ends(c), Same(c), dconn'[SplaydOf(c)] = dconn[SplaydOf(c)],
         dloop'[SplaydOf(c)] = dloop[SplaydOf(c)]
  PROVE  Ends(c)'
  BY DEF Ends, Same, Greets, Attached, Current, SplaydOf

\* A thread writes only on its own connection.
LEMMA ThreadOwn ==
  ASSUME TypeOK, NEW k \in Conn, ThreadStep(k)
  PROVE  /\ UNCHANGED <<dsession, djobs, dconn, dloop, link, tsession>>
         /\ \A c \in Conn \ {k} : Same(c) /\ trow'[c] = trow[c] /\ tfailed'[c] = tfailed[c]
  <1>1. UNCHANGED <<dsession, djobs, dconn, dloop, link, tsession>>
    BY DEF ThreadStep, ReadRow, Authenticate, AskInfos, InfosOK, Available, ReadFailed,
       RestoreAction, DeleteRegister, FreeFirst, RegisterAgain, AuthFails, MainFails,
       PickAction, SendAction, ApplyReply, ReplyNotOK, FinishAction, daemonVars
  <1>2. \A c \in Conn \ {k} : req'[c] = req[c] /\ rep'[c] = rep[c]
    BY DEF TypeOK, DaemonTypeOK, ThreadStep, ReadRow, Authenticate, AskInfos, InfosOK,
       Available, ReadFailed, RestoreAction, DeleteRegister, FreeFirst, RegisterAgain,
       AuthFails, MainFails, PickAction, SendAction, ApplyReply, ReplyNotOK, FinishAction,
       daemonVars, Write, Read
  <1>3. \A c \in Conn \ {k} : tpc'[c] = tpc[c] /\ taction'[c] = taction[c]
    BY DEF TypeOK, ThreadTypeOK, ThreadStep, ReadRow, Authenticate, AskInfos, InfosOK,
       Available, ReadFailed, RestoreAction, DeleteRegister, FreeFirst, RegisterAgain,
       AuthFails, MainFails, PickAction, SendAction, ApplyReply, ReplyNotOK, FinishAction,
       GoesOnWith, Goto, EndMain
  <1>4. \A c \in Conn \ {k} : trow'[c] = trow[c] /\ tfailed'[c] = tfailed[c]
    BY DEF TypeOK, ThreadTypeOK, ThreadStep, ReadRow, Authenticate, AskInfos, InfosOK,
       Available, ReadFailed, RestoreAction, DeleteRegister, FreeFirst, RegisterAgain,
       AuthFails, MainFails, PickAction, SendAction, ApplyReply, ReplyNotOK, FinishAction,
       GoesOnWith
  <1> QED BY <1>1, <1>2, <1>3, <1>4 DEF Same

\* A daemon reads a command of its connection, and answers it, breaks the
\* connection, or takes a session.
LEMMA CommandOwn ==
  ASSUME TypeOK, NEW d \in Splayd, NEW busy \in BOOLEAN, NEW k, k = Current(d),
         Execute(d, k, busy)
  PROVE  /\ k \in Conn /\ SplaydOf(k) = d /\ dconn[d] # NoConn
         /\ req[k] # <<>> /\ req' = [req EXCEPT ![k] = Tail(@)]
         /\ \A c \in Conn \ {k} : rep'[c] = rep[c] /\ link'[c] = link[c]
         /\ \A e \in Splayd \ {d} : /\ dconn'[e] = dconn[e] /\ dloop'[e] = dloop[e]
                                    /\ dsession'[e] = dsession[e] /\ djobs'[e] = djobs[e]
         /\ \/ ReceiveSession(d, k) /\ Head(req[k]).cmd = "AUTH"
            \/ /\ Head(req[k]).cmd # "AUTH" /\ dsession' = dsession
               /\ Breaks(d, k) \/ \E r \in Reply \ {"none"} : Answers(d, k, r)
  <1>1. PICK c \in {"AUTH", "INFOS", "LOG"} \cup Command :
           /\ Receives(d, k, c)
           /\ \/ c = "AUTH" /\ ReceiveSession(d, k)
              \/ /\ c # "AUTH"
                 /\ Breaks(d, k) \/ \E r \in Reply \ {"none"} : Answers(d, k, r)
    <2>1. CASE ReceiveSession(d, k)
      BY <2>1 DEF ReceiveSession
    <2>2. CASE ReceiveSettings(d, k)
      BY <2>2 DEF ReceiveSettings, Reply
    <2>3. CASE Register(d, k, busy)
      <3>1. \A j : RegisterReply(d, j, busy) \in Reply \ {"none"}
        BY DEF RegisterReply, Reply
      <3> QED BY <2>3, <3>1 DEF Register, Command
    <2>4. CASE Free(d, k)
      BY <2>4 DEF Free, Reply, Command
    <2>5. CASE List(d, k)
      BY <2>5 DEF List, Reply, Command
    <2>6. CASE Start(d, k)
      <3>1. CASE Breaks(d, k)
        BY <2>6, <3>1 DEF Start, Command
      <3>2. CASE ~Breaks(d, k)
        <4>1. PICK r \in Reply \ {"none"} : Answers(d, k, r)
          BY <2>6, <3>2 DEF Start, Reply
        <4> QED BY <2>6, <4>1 DEF Start, Command
      <3> QED BY <3>1, <3>2
    <2> QED BY <2>1, <2>2, <2>3, <2>4, <2>5, <2>6 DEF Execute
  <1>2. k \in Conn
    BY <1>1, ReceivesType DEF TypeOK
  <1>3. /\ SplaydOf(k) = d /\ dconn[d] # NoConn
        /\ req[k] # <<>> /\ req' = [req EXCEPT ![k] = Tail(@)] /\ Head(req[k]).cmd = c
    BY <1>1 DEF Receives, Current, SplaydOf
  <1>4. \A b \in Conn \ {k} : rep'[b] = rep[b] /\ link'[b] = link[b]
    BY <1>1, <1>2 DEF ReceiveSession, Breaks, Answers, TypeOK, DaemonTypeOK
  <1>5. \A e \in Splayd \ {d} : dconn'[e] = dconn[e] /\ dloop'[e] = dloop[e]
    <2>1. CASE ReceiveSession(d, k) \/ Breaks(d, k)
      BY <2>1 DEF ReceiveSession, Breaks, TypeOK, DaemonTypeOK
    <2>2. ASSUME NEW r, Answers(d, k, r)
          PROVE  \A e \in Splayd \ {d} : dconn'[e] = dconn[e] /\ dloop'[e] = dloop[e]
      BY <2>2 DEF Answers, TypeOK, DaemonTypeOK
    <2> QED BY <1>1, <2>1, <2>2
  <1>6. \A e \in Splayd \ {d} : dsession'[e] = dsession[e] /\ djobs'[e] = djobs[e]
    BY DEF Execute, ReceiveSession, ReceiveSettings, Register, Breaks, Free, List, Start,
       TypeOK, DaemonTypeOK
  <1>7. c # "AUTH" => dsession' = dsession
    <2>1. c # "AUTH" => ~ReceiveSession(d, k)
      BY <1>3 DEF ReceiveSession, Receives
    <2> QED BY <2>1 DEF Execute, ReceiveSettings, Register, Breaks, Free, List, Start
  <1> QED BY <1>1, <1>2, <1>3, <1>4, <1>5, <1>6, <1>7

---------------------------------------------------------------------------
(* Wire *)

LEMMA WriteEffect ==
  ASSUME TypeOK, NEW k \in Conn, NEW msgs, Write(k, msgs)
  PROVE  req'[k] = IF link[k] = "up" THEN req[k] \o msgs ELSE req[k]
  BY DEF Write, TypeOK, DaemonTypeOK

\* Before the first reply a session is never the one of the row.
LEMMA NeverSameSession ==
  ASSUME TypeOK, Sessions, NEW k \in Conn, tpc[k] = "auth"
  PROVE  ~SameSession(k)
  <1>1. /\ SessionNumber(trow[k].session) /\ Outdated(tsession[k], trow[k].session)
        /\ tsession[k] \in Nat /\ trow[k].session \in Nat
    BY DEF Sessions, ThreadSession, TypeOK, ThreadTypeOK
  <1> QED BY <1>1 DEF SameSession, SessionNumber, Outdated, OlderThan, NullSession, NullText,
       EmptyText, FirstSession

\* A greeting comes with nothing but INFOS after it.
LEMMA ShapeForm ==
  ASSUME TypeOK, Wire, NEW k \in Conn
  PROVE  req[k] = <<>> \/ Greets(k) \/ \E m : req[k] = <<m>> /\ m.cmd # "AUTH"
  <1>1. Shape(k) /\ tpc[k] \in Pc
    BY DEF Wire, TypeOK, ThreadTypeOK
  <1>2. CASE tpc[k] = "wait"
    <2>1. taction[k] \in Action
      BY <1>2 DEF TypeOK, ThreadTypeOK, Holding
    <2>2. Order(taction[k]).cmd # "AUTH"
      BY <2>1 DEF Order, Action, Command
    <2> QED BY <1>1, <1>2, <2>2 DEF Shape
  <1>3. CASE tpc[k] # "wait"
    BY <1>1, <1>3 DEF Shape, Silent, Pc, InfosMessage, LogMessage
  <1> QED BY <1>2, <1>3

\* The step of the thread of connection k, seen from that connection.
LEMMA ThreadShape ==
  ASSUME TypeOK, Wire, Sessions, NEW k \in Conn, ThreadStep(k)
  PROVE  Shape(k)' /\ Ends(k)'
  <1> DEFINE d == SplaydOf(k)
  <1>o. UNCHANGED <<dsession, djobs, dconn, dloop, link, tsession>>
    BY ThreadOwn
  <1>c. Current(d)' = Current(d) /\ SplaydOf(k)' = SplaydOf(k)
    BY <1>o DEF Current, SplaydOf
  <1>s. Shape(k) /\ Ends(k)
    BY DEF Wire
  <1>t. tpc \in [Conn -> Pc]
    BY DEF TypeOK, ThreadTypeOK
  <1>r. rep \in [Conn -> Reply]
    BY DEF TypeOK, DaemonTypeOK
  <1>1. CASE ReadRow(k) \/ Authenticate(k)
    <2>1. /\ tpc[k] \in {"hello", "auth"} /\ tpc'[k] \in {"auth", "reset"}
          /\ req' = req /\ rep' = rep
      BY <1>1, <1>t, NeverSameSession DEF ReadRow, Authenticate, At, Goto, daemonVars
    <2>2. Shape(k)'
      BY <1>s, <2>1 DEF Shape, Silent
    <2>3. Ends(k)'
      BY <1>o, <1>c, <1>s, <2>1 DEF Ends, Attached, Admitted, Serving
    <2> QED BY <2>2, <2>3
  <1>2. CASE ReadFailed(k) \/ RestoreAction(k) \/ DeleteRegister(k) \/ FreeFirst(k)
             \/ RegisterAgain(k) \/ PickAction(k) \/ FinishAction(k)
    <2>1. /\ tpc[k] \in (Silent \cap Admitted) /\ tpc'[k] \in (Silent \cap Admitted)
          /\ req' = req /\ rep' = rep
      BY <1>2, <1>t DEF ReadFailed, RestoreAction, DeleteRegister, FreeFirst, RegisterAgain,
         PickAction, FinishAction, At, Goto, GoesOnWith, daemonVars, Silent, Admitted, Serving
    <2>2. Shape(k)'
      BY <1>s, <2>1 DEF Shape, Silent, Admitted
    <2>3. Ends(k)'
      BY <1>o, <1>c, <1>s, <2>1 DEF Ends, Attached, Silent, Admitted, Serving, Greets
    <2> QED BY <2>2, <2>3
  <1>3. CASE AskInfos(k)
    <2>1. /\ tpc[k] = "reset" /\ tpc'[k] = "infos" /\ rep' = rep
          /\ Write(k, Greeting(SessionText(trow[k].session)))
      BY <1>3, <1>t DEF AskInfos, At, Goto, Auth, Greeting, InfosMessage
    <2>2. req[k] = <<>> /\ rep[k] = "none"
      BY <1>s, <2>1 DEF Shape, Silent
    <2>3. SessionText(trow[k].session) \in Nat
      BY DEF SessionText, NullText, TypeOK, ThreadTypeOK
    <2>4. req'[k] = IF link[k] = "up" THEN Greeting(SessionText(trow[k].session)) ELSE <<>>
      <3>1. <<>> \o Greeting(SessionText(trow[k].session)) = Greeting(SessionText(trow[k].session))
        BY TwoMessages DEF Greeting
      <3> QED BY <2>1, <2>2, <3>1, WriteEffect
    <2>5. Shape(k)'
      BY <2>1, <2>2, <2>3, <2>4 DEF Shape, Greets, Silent
    <2>6. Ends(k)'
      <3>1. link[k] = "up" => ~dloop[d] /\ Greets(k)'
        BY <1>s, <2>1, <2>3, <2>4 DEF Ends, Greets
      <3> QED BY <1>o, <1>c, <1>s, <2>1, <3>1 DEF Ends, Attached
    <2> QED BY <2>5, <2>6
  <1>4. CASE InfosOK(k)
    <2>1. /\ tpc[k] = "infos" /\ tpc'[k] = "log" /\ rep[k] = "OK" /\ rep'[k] = "none"
          /\ Write(k, <<LogMessage>>)
      BY <1>4, <1>t, <1>r DEF InfosOK, At, Goto, Read, LogMessage
    <2>2. req[k] = <<>>
      BY <1>s, <2>1 DEF Shape
    <2>3. req'[k] = IF link[k] = "up" THEN <<LogMessage>> ELSE <<>>
      BY <2>1, <2>2, WriteEffect, OneMessage
    <2>4. Shape(k)'
      BY <2>1, <2>3 DEF Shape, Silent
    <2>5. ~Greets(k) /\ ~Greets(k)'
      BY <2>2, <2>3, GreetingParts DEF Greets
    <2>6. Ends(k)'
      BY <1>o, <1>c, <1>s, <2>1, <2>5 DEF Ends, Attached, Admitted
    <2> QED BY <2>4, <2>6
  <1>5. CASE Available(k) \/ ApplyReply(k)
    <2>1. /\ tpc[k] \in {"log", "wait"} /\ tpc'[k] \in (Silent \cap Admitted)
          /\ rep[k] # "none" /\ rep'[k] = "none" /\ req' = req
      BY <1>5, <1>t, <1>r DEF Available, ApplyReply, At, Goto, Read, Silent, Admitted, Serving
    <2>2. req[k] = <<>>
      BY <1>s, <2>1 DEF Shape
    <2>3. Shape(k)'
      BY <2>1, <2>2 DEF Shape, Silent, Admitted
    <2>4. Ends(k)'
      BY <1>o, <1>c, <1>s, <2>1 DEF Ends, Attached, Silent, Admitted, Serving, Greets
    <2> QED BY <2>3, <2>4
  <1>6. CASE SendAction(k)
    <2>1. /\ tpc[k] = "picked" /\ tpc'[k] = "wait" /\ rep' = rep /\ taction' = taction
          /\ Write(k, <<Order(taction[k])>>)
      BY <1>6, <1>t DEF SendAction, At, Goto, Order
    <2>2. req[k] = <<>> /\ rep[k] = "none"
      BY <1>s, <2>1 DEF Shape, Silent
    <2>3. req'[k] = IF link[k] = "up" THEN <<Order(taction[k])>> ELSE <<>>
      BY <2>1, <2>2, WriteEffect, OneMessage
    <2>4. Shape(k)'
      BY <2>1, <2>2, <2>3 DEF Shape, Silent
    <2>5. ~Greets(k) /\ ~Greets(k)'
      BY <2>2, <2>3, GreetingParts DEF Greets
    <2>6. Ends(k)'
      BY <1>o, <1>c, <1>s, <2>1, <2>5 DEF Ends, Attached, Admitted, Serving
    <2> QED BY <2>4, <2>6
  <1>7. CASE AuthFails(k) \/ MainFails(k) \/ ReplyNotOK(k)
    <2>1. /\ tpc[k] \in {"infos", "log", "main", "wait"} /\ tpc'[k] = "dead" /\ req' = req
          /\ rep' = rep \/ rep'[k] = "none"
      BY <1>7, <1>t, <1>r DEF AuthFails, MainFails, ReplyNotOK, EndMain, At, Goto, Read, daemonVars
    <2>2. req[k] = <<>> \/ Greets(k) \/ \E m : req[k] = <<m>> /\ m.cmd # "AUTH"
      BY ShapeForm
    <2>4. rep'[k] # "none" => req[k] = <<>>
      BY <1>s, <2>1 DEF Shape
    <2>5. Shape(k)'
      BY <1>o, <2>1, <2>2, <2>4 DEF Shape, Silent, Greets
    <2>6. Ends(k)'
      BY <1>o, <1>c, <1>s, <2>1 DEF Ends, Attached, Admitted, Serving
    <2> QED BY <2>5, <2>6
  <1> QED BY <1>1, <1>2, <1>3, <1>4, <1>5, <1>6, <1>7 DEF ThreadStep

\* A connection that is not up, or no longer.
LEMMA DownShape ==
  ASSUME NEW c, Shape(c), link'[c] # "up", tpc'[c] = tpc[c], taction'[c] = taction[c],
         req'[c] = req[c], rep'[c] = rep[c]
  PROVE  Shape(c)'
  BY DEF Shape, Greets

LEMMA DownEnds ==
  ASSUME NEW c, link'[c] # "up", tpc'[c] = "none" => link'[c] = "free" /\ c # Current(SplaydOf(c))'
  PROVE  Ends(c)'
  BY DEF Ends, Attached, SplaydOf, Current

LEMMA CommandWire ==
  ASSUME TypeOK, Wire, NEW d \in Splayd, NEW busy \in BOOLEAN, NEW k, k = Current(d),
         Execute(d, k, busy), UNCHANGED threadVars
  PROVE  Wire'
  <1>1. /\ k \in Conn /\ SplaydOf(k) = d /\ dconn[d] # NoConn
        /\ req[k] # <<>> /\ req' = [req EXCEPT ![k] = Tail(@)]
        /\ \A c \in Conn \ {k} : rep'[c] = rep[c] /\ link'[c] = link[c]
        /\ \A e \in Splayd \ {d} : dconn'[e] = dconn[e] /\ dloop'[e] = dloop[e]
        /\ \/ ReceiveSession(d, k) /\ Head(req[k]).cmd = "AUTH"
           \/ /\ Head(req[k]).cmd # "AUTH"
              /\ Breaks(d, k) \/ \E r \in Reply \ {"none"} : Answers(d, k, r)
    BY CommandOwn
  <1>2. Shape(k) /\ Ends(k)
    BY <1>1 DEF Wire
  <1>3. rep[k] = "none" /\ tpc[k] \in {"infos", "log", "wait", "dead"}
    BY <1>1, <1>2 DEF Shape, Silent, TypeOK, ThreadTypeOK, Pc
  <1>4. tpc' = tpc /\ taction' = taction
    BY DEF threadVars
  <1>5. /\ req \in [Conn -> Seq(Message)] /\ rep \in [Conn -> Reply]
        /\ link \in [Conn -> {"free", "up", "down"}]
        /\ dconn \in [Splayd -> 0 .. MaxConn] /\ dloop \in [Splayd -> BOOLEAN]
    BY DEF TypeOK, DaemonTypeOK
  <1>6. req'[k] = Tail(req[k])
    BY <1>1, <1>5
  <1>7. /\ Shape(k)' /\ Ends(k)'
        /\ dconn'[d] = NoConn => ~dloop'[d]
        /\ dconn'[d] \in {dconn[d], NoConn}
    <2>1. CASE ReceiveSession(d, k) /\ Head(req[k]).cmd = "AUTH"
      <3>1. PICK s \in Nat : req[k] = Greeting(s)
        BY <1>1, <2>1, ShapeForm, OneMessage DEF Greets
      <3>2. req'[k] = <<InfosMessage>>
        BY <1>6, <3>1, GreetingParts
      <3>3. tpc[k] \in {"infos", "dead"}
        <4>1. tpc[k] # "log" /\ tpc[k] # "wait"
          BY <1>1, <1>2, <3>1, GreetingParts DEF Shape
        <4> QED BY <1>3, <4>1
      <3>4. ~Greets(k)'
        BY <3>2, GreetingParts DEF Greets
      <3>5. rep' = rep /\ link' = link /\ dconn' = dconn /\ dloop'[d]
        BY <1>5, <2>1 DEF ReceiveSession
      <3>6. Shape(k)'
        <4>1. InfosMessage.cmd # "AUTH"
          BY DEF InfosMessage
        <4> QED BY <1>3, <1>4, <3>2, <3>3, <3>5, <4>1 DEF Shape, Silent
      <3>7. Ends(k)'
        BY <1>1, <1>2, <1>4, <3>3, <3>4, <3>5 DEF Ends, Attached, Current, SplaydOf
      <3> QED BY <1>1, <3>5, <3>6, <3>7
    <2>2. CASE Head(req[k]).cmd # "AUTH"
      <3>1. req'[k] = <<>> /\ ~Greets(k)
        <4>1. ~Greets(k)
          BY <2>2, GreetingParts DEF Greets
        <4>2. k \in Conn /\ req[k] # <<>>
          BY <1>1
        <4>3. PICK m : req[k] = <<m>>
          BY <4>1, <4>2, ShapeForm
        <4> QED BY <1>6, <4>1, <4>3, OneMessage
      <3>2. ~Greets(k)'
        BY <3>1, GreetingParts DEF Greets
      <3>3. Shape(k)'
        BY <1>3, <1>4, <3>1 DEF Shape, Silent
      <3>4. CASE link[k] = "up" /\ UNCHANGED <<dconn, dloop, link>>
        <4>0. k[1] = d /\ dloop'[d] = dloop[d] /\ dconn'[d] = dconn[d] /\ link'[k] = "up"
          BY <1>1, <3>4 DEF SplaydOf
        <4>1. tpc[k] = "dead" \/ dloop[d]
          <5> SUFFICES ASSUME tpc[k] # "dead" PROVE dloop[d]
            OBVIOUS
          <5>1. Attached(k)
            BY <1>3, <3>4 DEF Attached, Admitted, Serving
          <5> QED BY <1>2, <3>1, <4>0, <5>1 DEF Ends, SplaydOf
        <4>2. Ends(k)'
          BY <1>2, <1>3, <1>4, <3>2, <3>4, <4>0, <4>1 DEF Ends, Attached, Admitted, Serving,
             Current, SplaydOf
        <4> QED BY <1>1, <3>3, <3>4, <4>2
      <3>5. CASE /\ link'[k] # "up"
                 /\ dconn'[d] = NoConn => ~dloop'[d]
                 /\ dconn'[d] \in {dconn[d], NoConn}
        <4>1. Ends(k)'
          BY <1>3, <1>4, <3>5, DownEnds
        <4> QED BY <3>3, <3>5, <4>1
      <3>6. Breaks(d, k) \/ \E r : Answers(d, k, r)
        BY <1>1, <2>2 DEF ReceiveSession, Receives
      <3> QED BY <1>1, <1>5, <3>4, <3>5, <3>6 DEF Breaks, Answers
    <2> QED BY <1>1, <2>1, <2>2
  <1>8. ASSUME NEW c \in Conn, c # k
        PROVE  Shape(c)' /\ Ends(c)'
    <2>1. Same(c)
      BY <1>1, <1>4, <1>5, <1>8 DEF Same
    <2>2. Shape(c) /\ Ends(c)
      BY DEF Wire
    <2>3. CASE SplaydOf(c) # d
      BY <1>1, <2>1, <2>2, <2>3, ConnParts, SameShape, SameEnds
    <2>4. CASE SplaydOf(c) = d
      <3>1. link[c] # "up" /\ link'[c] # "up"
        BY <1>8, <2>1, <2>2, <2>4 DEF Ends, Same
      <3>2. c # Current(d)'
        <4>1. c[2] # NoConn /\ c = <<d, c[2]>>
          BY <2>4, ConnParts, MaxConnAssumption DEF NoConn
        <4> QED BY <1>7, <1>8, <4>1 DEF Current
      <3>3. Ends(c)'
        BY <2>1, <2>2, <2>4, <3>1, <3>2, DownEnds DEF Same, Ends
      <3> QED BY <2>1, <2>2, <3>3, SameShape
    <2> QED BY <2>3, <2>4
  <1>9. \A e \in Splayd : dconn'[e] = NoConn => ~dloop'[e]
    BY <1>1, <1>7 DEF Wire
  <1> QED BY <1>7, <1>8, <1>9 DEF Wire

LEMMA ConnectWire ==
  ASSUME TypeOK, Wire, NEW d \in Splayd, NEW n \in 1 .. MaxConn, Connect(d, n)
  PROVE  Wire'
  <1> DEFINE k == <<d, n>>
  <1>1. k \in Conn /\ SplaydOf(k) = d /\ k[1] = d /\ k[2] = n
    BY DEF Conn, SplaydOf
  <1>2. /\ dconn[d] = NoConn /\ tpc[k] = "none"
        /\ dconn' = [dconn EXCEPT ![d] = n] /\ link' = [link EXCEPT ![k] = "up"]
        /\ tpc' = [tpc EXCEPT ![k] = "hello"]
        /\ UNCHANGED <<dloop, req, rep, taction>>
    BY DEF Connect, At, Goto
  <1>3. /\ link \in [Conn -> {"free", "up", "down"}] /\ tpc \in [Conn -> Pc]
        /\ dconn \in [Splayd -> 0 .. MaxConn]
    BY DEF TypeOK, DaemonTypeOK, ThreadTypeOK
  <1>4. \A c \in Conn : Shape(c) /\ Ends(c)
    BY DEF Wire
  <1>5. dconn'[d] = n /\ ~dloop[d] /\ \A e \in Splayd \ {d} : dconn'[e] = dconn[e]
    BY <1>2, <1>3 DEF Wire
  <1>6. tpc'[k] = "hello" /\ link'[k] = "up"
    BY <1>1, <1>2, <1>3
  <1>7. ASSUME NEW c \in Conn, c # k PROVE Same(c)
    BY <1>1, <1>2, <1>3, <1>7 DEF Same
  <1> HIDE DEF k
  <1>8. Shape(k)'
    BY <1>1, <1>2, <1>4, <1>6 DEF Shape, Silent
  <1>9. Ends(k)'
    <2>1. k = <<d, n>>
      BY DEF k
    <2> QED BY <1>1, <1>2, <1>5, <1>6, <2>1 DEF Ends, Attached, Admitted, Serving, SplaydOf, Current
  <1>10. ASSUME NEW c \in Conn, c # k PROVE Shape(c)' /\ Ends(c)'
    <2>1. Same(c) /\ Shape(c) /\ Ends(c)
      BY <1>4, <1>7, <1>10
    <2>2. CASE SplaydOf(c) # d
      BY <1>2, <1>5, <2>1, <2>2, ConnParts, SameShape, SameEnds
    <2>3. CASE SplaydOf(c) = d
      <3>1. link[c] # "up"
        BY <1>2, <2>1, <2>3, ConnParts DEF Ends, NoConn
      <3>2. c # Current(d)'
        BY <1>5, <1>10 DEF Current, k
      <3>3. Ends(c)'
        BY <2>1, <2>3, <3>1, <3>2, DownEnds DEF Same, Ends
      <3> QED BY <2>1, <3>3, SameShape
    <2> QED BY <2>2, <2>3
  <1>11. \A e \in Splayd : dconn'[e] = NoConn => ~dloop'[e]
    BY <1>2, <1>5 DEF Wire
  <1> QED BY <1>8, <1>9, <1>10, <1>11 DEF Wire

\* A daemon leaves its connection, which is broken at both ends if it was not.
LEMMA LeaveWire ==
  ASSUME TypeOK, Wire, NEW d \in Splayd, HandshakeFails(d) \/ DaemonRestart(d),
         UNCHANGED threadVars
  PROVE  Wire'
  <1>1. /\ dconn' = [dconn EXCEPT ![d] = NoConn] /\ UNCHANGED <<req, rep, tpc, taction>>
        /\ \A e \in Splayd \ {d} : dloop'[e] = dloop[e]
        /\ ~dloop'[d]
    BY DEF HandshakeFails, DaemonRestart, threadVars, TypeOK, DaemonTypeOK
  <1>2. /\ link \in [Conn -> {"free", "up", "down"}] /\ dconn \in [Splayd -> 0 .. MaxConn]
        /\ Wire
    BY DEF TypeOK, DaemonTypeOK
  <1>3. \A c \in Conn : c # Current(d) => link'[c] = link[c]
    BY <1>2 DEF HandshakeFails, DaemonRestart
  <1>4. ASSUME NEW c \in Conn, c = Current(d) PROVE link'[c] = "down" /\ tpc[c] # "none"
    <2>1. tpc[c] # "none"
      BY <1>4 DEF Wire, Ends, SplaydOf, Current
    <2>2. dconn[d] # NoConn
      BY <1>4, ConnParts, MaxConnAssumption DEF NoConn, Current
    <2> QED BY <1>2, <1>4, <2>1, <2>2 DEF HandshakeFails, DaemonRestart
  <1>5. ASSUME NEW c \in Conn PROVE Shape(c)' /\ Ends(c)'
    <2>1. Shape(c) /\ Ends(c)
      BY DEF Wire
    <2>2. CASE SplaydOf(c) # d
      <3>1. c # Current(d)
        BY <2>2 DEF SplaydOf, Current
      <3>2. Same(c)
        BY <1>1, <1>3, <3>1 DEF Same
      <3> QED BY <1>1, <1>2, <2>1, <2>2, <3>2, ConnParts, SameShape, SameEnds
    <2>3. CASE SplaydOf(c) = d
      <3>1. link'[c] # "up"
        BY <1>3, <1>4, <2>1, <2>3 DEF Ends
      <3>2. c # Current(d)'
        BY <1>1, <1>2, ConnParts, MaxConnAssumption DEF NoConn, Current
      <3>3. Ends(c)'
        BY <1>1, <1>3, <1>4, <2>1, <2>3, <3>1, <3>2, DownEnds DEF Ends
      <3> QED BY <1>1, <2>1, <3>1, <3>3, DownShape
    <2> QED BY <2>2, <2>3
  <1>6. \A e \in Splayd : dconn'[e] = NoConn => ~dloop'[e]
    BY <1>1, <1>2 DEF Wire
  <1> QED BY <1>5, <1>6 DEF Wire

\* Links that break, and the end of the controller.
LEMMA BrokenWire ==
  ASSUME TypeOK, Wire,
         (\E k \in Conn : LinkFails(k) \/ SocketCollected(k)) \/ ControllerRestarts
  PROVE  Wire'
  <1>1. UNCHANGED <<dconn, dloop, req, rep>> /\ link \in [Conn -> {"free", "up", "down"}]
    BY DEF LinkFails, SocketCollected, CollectSocket, ControllerRestarts, TypeOK, DaemonTypeOK
  <1>2. ASSUME NEW c \in Conn PROVE Shape(c) /\ Ends(c) /\ Current(SplaydOf(c))' = Current(SplaydOf(c))
    BY <1>1 DEF Wire, Current, SplaydOf
  <1>3. ASSUME NEW k \in Conn, LinkFails(k) \/ SocketCollected(k),
               NEW c \in Conn
        PROVE  Shape(c)' /\ Ends(c)'
    <2>1. /\ tpc' = tpc /\ taction' = taction /\ link[k] = "up"
          /\ link' = [link EXCEPT ![k] = "down"]
      BY <1>3 DEF LinkFails, SocketCollected, CollectSocket, threadVars
    <2>2. CASE c # k
      <3>1. Same(c)
        BY <1>1, <2>1, <2>2 DEF Same
      <3> QED BY <1>1, <1>2, <3>1, SameShape, SameEnds
    <2>3. CASE c = k
      <3>1. link'[c] = "down" /\ tpc[c] # "none"
        BY <1>1, <1>2, <2>1, <2>3 DEF Ends
      <3> QED BY <1>1, <1>2, <2>1, <3>1, DownShape, DownEnds
    <2> QED BY <2>2, <2>3
  <1>4. ASSUME ControllerRestarts, NEW c \in Conn
        PROVE  Shape(c)' /\ Ends(c)'
    <2>1. tpc'[c] = IF tpc[c] = "none" THEN "none" ELSE "dead"
      BY <1>4 DEF ControllerRestarts
    <2>2. link'[c] # "up" /\ (link[c] = "free" => link'[c] = "free")
      BY <1>4 DEF ControllerRestarts
    <2>3. Shape(c)'
      BY <1>1, <1>2, <2>1, <2>2, ShapeForm DEF Shape, Silent, Greets
    <2>4. Ends(c)'
      BY <1>2, <2>1, <2>2, DownEnds DEF Ends
    <2> QED BY <2>3, <2>4
  <1> QED BY <1>1, <1>3, <1>4 DEF Wire

LEMMA WireInductive == TypeOK /\ Wire /\ Sessions /\ [Next]_vars => Wire'
  <1> SUFFICES ASSUME TypeOK, Wire, Sessions, [Next]_vars PROVE Wire'
    OBVIOUS
  <1>1. CASE UNCHANGED <<dconn, dloop, link, req, rep, tpc, taction>>
    BY <1>1, SameShape, SameEnds DEF Wire, Same
  <1>2. ASSUME NEW k \in Conn, ThreadRuns(k) PROVE Wire'
    <2>1. ThreadStep(k)
      BY <1>2 DEF ThreadRuns
    <2>2. UNCHANGED <<dconn, dloop>> /\ \A c \in Conn \ {k} : Same(c)
      BY <2>1, ThreadOwn
    <2>3. \A c \in Conn \ {k} : Shape(c)' /\ Ends(c)'
      BY <2>2, SameShape, SameEnds DEF Wire
    <2>4. Shape(k)' /\ Ends(k)'
      BY <2>1, ThreadShape
    <2> QED BY <2>2, <2>3, <2>4 DEF Wire
  <1>3. ASSUME NEW d \in Splayd, DaemonCommand(d) \/ BusyPorts(d) PROVE Wire'
    <2>1. \E busy \in BOOLEAN : Execute(d, Current(d), busy)
      BY <1>3 DEF DaemonCommand, BusyPorts, Execute
    <2> QED BY <1>3, <2>1, CommandWire DEF DaemonCommand, BusyPorts
  <1>4. ASSUME NEW d \in Splayd, DaemonConnects(d) PROVE Wire'
    BY <1>4, ConnectWire DEF DaemonConnects
  <1>5. ASSUME NEW d \in Splayd, DaemonGivesUp(d) \/ DaemonFails(d) PROVE Wire'
    <2>1. CASE FullReset(d)
      BY <1>1, <1>5, <2>1 DEF FullReset, DaemonGivesUp, DaemonFails, threadVars
    <2> QED BY <1>5, <2>1, LeaveWire DEF DaemonGivesUp, DaemonFails
  <1>6. CASE \/ JobdRuns \/ UnseenSelect \/ UNCHANGED vars
             \/ \E d \in Splayd : UnseenReset(d)
             \/ \E j \in Job : UserActs(j)
    BY <1>1, <1>6 DEF JobdRuns, UnseenSelect, UnseenReset, UserActs, vars, daemonVars, threadVars
  <1> QED BY <1>2, <1>3, <1>4, <1>5, <1>6, BrokenWire DEF Next

---------------------------------------------------------------------------
(* Sessions *)

LEMMA OlderStays ==
  ASSUME NEW s \in Nat, NEW n \in Nat, NEW m \in Nat, n <= m
  PROVE  /\ OlderThan(s, n) => OlderThan(s, m)
         /\ Outdated(s, n) => Outdated(s, m)
  BY DEF OlderThan, Outdated, FirstSession

\* reset gives a row a session no thread has read.
LEMMA ResetGrows ==
  ASSUME TypeOK, NEW d \in Splayd, SessionNumber(splayds[d].session), ResetSession(d)
  PROVE  /\ splayds[d].session < splayds'[d].session
         /\ splayds'[d].session >= FirstSession /\ splayds'[d].session \in Nat
         /\ \A e \in Splayd \ {d} : splayds'[e] = splayds[e]
  BY DEF ResetSession, SessionNumber, NullSession, FirstSession, TypeOK, TablesTypeOK

\* Nothing else writes a session of splayds.
LEMMA RowsGrow ==
  ASSUME TypeOK, Sessions, [Next]_vars
  PROVE  \A d \in Splayd : /\ splayds[d].session <= splayds'[d].session
                           /\ SessionNumber(splayds'[d].session)
  <1>1. \A d \in Splayd : SessionNumber(splayds[d].session) /\ splayds[d].session \in Nat
    BY DEF Sessions, TypeOK, TablesTypeOK
  <1>2. ASSUME NEW e \in Splayd, ResetSession(e),
               NEW d \in Splayd
        PROVE  /\ splayds[d].session <= splayds'[d].session
               /\ SessionNumber(splayds'[d].session)
    BY <1>1, <1>2, ResetGrows DEF SessionNumber
  <1>3. CASE \A e \in Splayd : splayds'[e].session = splayds[e].session
    BY <1>1, <1>3
  <1>4. ASSUME NEW k \in Conn, ThreadRuns(k)
        PROVE  \/ \E e \in Splayd : ResetSession(e)
               \/ \A e \in Splayd : splayds'[e].session = splayds[e].session
    <2>1. CASE Authenticate(k)
      BY <2>1, SplaydOfType DEF Authenticate, SetSplaydStatus, TypeOK, TablesTypeOK
    <2>2. CASE Available(k) \/ AuthFails(k) \/ MainFails(k) \/ ReplyNotOK(k)
      BY <2>2, SplaydOfType DEF Available, AuthFails, MainFails, ReplyNotOK, EndMain,
         SetSplaydStatus, TypeOK, TablesTypeOK
    <2>3. CASE ~Authenticate(k) /\ ~(Available(k) \/ AuthFails(k) \/ MainFails(k) \/ ReplyNotOK(k))
      BY <1>4, <2>3 DEF ThreadRuns, ThreadStep, ReadRow, AskInfos, ResetJobs, InfosOK, ReadFailed,
         RestoreAction, DeleteRegister, FreeFirst, RegisterAgain, PickAction, SendAction,
         ApplyReply, FinishAction, tables
    <2> QED BY <2>1, <2>2, <2>3
  <1>5. \/ \E e \in Splayd : ResetSession(e)
        \/ \A e \in Splayd : splayds'[e].session = splayds[e].session
        \/ JobdRuns \/ ControllerRestarts \/ \E k \in Conn : ThreadRuns(k)
    BY DEF Next, vars, DaemonCommand, BusyPorts, DaemonConnects, Connect, DaemonGivesUp,
       DaemonFails, UnseenReset, ResetJobs, UnseenSelect, LinkFails, SocketCollected,
       CollectSocket, UserActs, Submit, KillJob, tables
  <1>6. CASE JobdRuns
    <2>1. splayds' = splayds
      BY <1>6 DEF JobdRuns, JobdStep, FreesAll, NextPhase, StatusLocal, StatusQueued,
       SelectSplayds, StatusRegistering, SelectSplayd, KeepRegistering, RegisterTimeout,
       StatusRunning, KillMaxTime, ExecuteKill, InsertSelections, InsertSplaydJobs,
       InsertRegisters, CommitRegisters, SetRegistering, FreeOthers, SendAllList,
       CommitList, SetRunning, SendStart, FreeAll, DeleteSelections, SetRegisterTimeout,
       tables
    <2> QED BY <1>3, <2>1
  <1>7. CASE ControllerRestarts
    <2>1. \A e \in Splayd : splayds'[e].session = splayds[e].session
      BY <1>7 DEF ControllerRestarts, SplaydInit, TypeOK, TablesTypeOK
    <2> QED BY <1>3, <2>1
  <1> QED BY <1>2, <1>3, <1>4, <1>5, <1>6, <1>7

\* A connection whose thread is no nearer to AUTH than before.
LEMMA KeepThread ==
  ASSUME TypeOK, TypeOK', NEW c \in Conn, NEW d, d = SplaydOf(c), ThreadSession(c),
         splayds[d].session <= splayds'[d].session,
         \/ tpc'[c] \notin {"hello", "auth", "reset"}
         \/ tpc'[c] = tpc[c] /\ trow'[c] = trow[c],
         tsession'[c] = tsession[c],
         \A s \in Nat : req'[c] = Greeting(s) => req[c] = Greeting(s),
         c = Current(d)' /\ ~dloop'[d] => c = Current(d) /\ ~dloop[d] /\ dsession'[d] = dsession[d]
  PROVE  ThreadSession(c)'
  <1>1. d \in Splayd /\ c[1] = d
    BY ConnParts DEF SplaydOf
  <1>2. /\ tsession[c] \in Nat /\ trow[c].session \in Nat /\ dsession[d] \in Nat
        /\ splayds[d].session \in Nat /\ splayds'[d].session \in Nat
    BY <1>1 DEF TypeOK, TablesTypeOK, DaemonTypeOK, ThreadTypeOK
  <1>3. \A s \in Nat : /\ OlderThan(s, splayds[d].session) => OlderThan(s, splayds'[d].session)
                       /\ Outdated(s, splayds[d].session) => Outdated(s, splayds'[d].session)
    BY <1>2, OlderStays
  <1>4. c = Current(d)' /\ ~dloop'[d] => dsession'[d] = tsession'[c]
    BY <1>1 DEF ThreadSession, SplaydOf
  <1>5. tpc'[c] = "hello" => Outdated(tsession'[c], splayds'[d].session)
    BY <1>1, <1>2, <1>3 DEF ThreadSession, SplaydOf
  <1>6. tpc'[c] \in {"auth", "reset"} =>
          /\ SessionNumber(trow'[c].session)
          /\ Outdated(tsession'[c], trow'[c].session)
          /\ trow'[c].session <= splayds'[d].session
    BY <1>1, <1>2 DEF ThreadSession, SplaydOf
  <1>7. tpc'[c] = "reset" => trow'[c].session < splayds'[d].session
    BY <1>1, <1>2 DEF ThreadSession, SplaydOf
  <1>8. \A s \in Nat : req'[c] = Greeting(s) =>
           s # tsession'[c] /\ OlderThan(s, splayds'[d].session)
    BY <1>1, <1>3 DEF ThreadSession, SplaydOf
  <1>9. c = Current(c[1])' <=> c = Current(d)'
    BY <1>1
  <1> QED BY <1>1, <1>4, <1>5, <1>6, <1>7, <1>8, <1>9 DEF ThreadSession, SplaydOf, Current

\* What the thread of connection k does to its session.
LEMMA ThreadOwnSession ==
  ASSUME TypeOK, TypeOK', Wire, Sessions, NEW k \in Conn, ThreadStep(k),
         splayds[SplaydOf(k)].session <= splayds'[SplaydOf(k)].session
  PROVE  ThreadSession(k)'
  <1> DEFINE d == SplaydOf(k)
  <1>o. UNCHANGED <<dsession, djobs, dconn, dloop, link, tsession>>
    BY ThreadOwn
  <1>d. d \in Splayd /\ k[1] = d /\ (k = Current(d)' <=> k = Current(d))
    BY <1>o, ConnParts DEF SplaydOf, Current
  <1>s. ThreadSession(k) /\ SessionNumber(splayds[d].session)
    BY <1>d DEF Sessions
  <1>t. /\ tpc \in [Conn -> Pc] /\ tsession[k] \in Nat /\ trow[k].session \in Nat
        /\ splayds[d].session \in Nat /\ splayds'[d].session \in Nat
        /\ trow \in [Conn -> [status : SplaydStatus, session : Nat]]
    BY <1>d DEF TypeOK, ThreadTypeOK, TablesTypeOK
  <1>1. CASE ReadRow(k)
    <2>1. /\ tpc[k] = "hello" /\ tpc'[k] = "auth" /\ trow'[k] = splayds[d]
          /\ req' = req /\ splayds' = splayds
      BY <1>1, <1>t DEF ReadRow, At, Goto, daemonVars, tables
    <2> QED BY <1>o, <1>d, <1>s, <1>t, <2>1 DEF ThreadSession, SplaydOf, Current
  <1>2. CASE Authenticate(k)
    <2>1. /\ tpc[k] = "auth" /\ tpc'[k] = "reset" /\ UNCHANGED <<trow, req>> /\ ResetSession(d)
      BY <1>2, <1>t, NeverSameSession DEF Authenticate, At, Goto
    <2>2. splayds[d].session < splayds'[d].session
      BY <1>d, <1>s, <2>1, ResetGrows
    <2>3. \A s \in Nat : OlderThan(s, splayds[d].session) => OlderThan(s, splayds'[d].session)
      BY <1>t, <2>2, OlderStays
    <2> HIDE DEF d
    <2> QED BY <1>o, <1>d, <1>s, <1>t, <2>1, <2>2, <2>3 DEF ThreadSession, SplaydOf, Current
  <1>3. CASE AskInfos(k)
    <2>1. /\ tpc[k] = "reset" /\ tpc'[k] = "infos" /\ splayds' = splayds
          /\ Write(k, Greeting(SessionText(trow[k].session)))
      BY <1>3, <1>t DEF AskInfos, ResetJobs, At, Goto, Auth, Greeting, InfosMessage
    <2>2. req[k] = <<>>
      BY <2>1 DEF Wire, Shape, Silent
    <2>3. req'[k] \in {<<>>, Greeting(SessionText(trow[k].session))}
      <3>1. <<>> \o Greeting(SessionText(trow[k].session)) = Greeting(SessionText(trow[k].session))
        BY TwoMessages DEF Greeting
      <3> QED BY <2>1, <2>2, <3>1, WriteEffect
    <2>4. /\ SessionNumber(trow[k].session) /\ Outdated(tsession[k], trow[k].session)
          /\ trow[k].session < splayds[d].session
      BY <1>s, <1>d, <2>1 DEF ThreadSession, SplaydOf
    <2>5. /\ SessionText(trow[k].session) # tsession[k]
          /\ OlderThan(SessionText(trow[k].session), splayds[d].session)
      BY <1>s, <1>t, <2>4 DEF SessionText, SessionNumber, Outdated, OlderThan, NullSession,
         NullText, EmptyText, FirstSession
    <2>6. \A s \in Nat : req'[k] = Greeting(s) => s # tsession[k] /\ OlderThan(s, splayds[d].session)
      BY <2>3, <2>5, GreetingParts
    <2> HIDE DEF d
    <2> QED BY <1>o, <1>d, <1>s, <2>1, <2>6 DEF ThreadSession, SplaydOf, Current
  <1>4. CASE ~ReadRow(k) /\ ~Authenticate(k) /\ ~AskInfos(k)
    <2>1. tpc'[k] \notin {"hello", "auth", "reset"}
      BY <1>4, <1>t DEF ThreadStep, InfosOK, Available, ReadFailed, RestoreAction, DeleteRegister,
         FreeFirst, RegisterAgain, AuthFails, MainFails, PickAction, SendAction, ApplyReply,
         ReplyNotOK, FinishAction, EndMain, GoesOnWith, Goto
    <2>2. req' = req \/ InfosOK(k) \/ SendAction(k)
      BY <1>4 DEF ThreadStep, Available, ReadFailed, RestoreAction, DeleteRegister,
         FreeFirst, RegisterAgain, AuthFails, MainFails, PickAction, ApplyReply,
         ReplyNotOK, FinishAction, daemonVars
    <2>3. ASSUME InfosOK(k) \/ SendAction(k) PROVE \A s \in Nat : req'[k] # Greeting(s)
      <3>1. tpc'[k] \in {"log", "wait"}
        BY <1>t, <2>3 DEF InfosOK, SendAction, Goto
      <3>2. Shape(k)'
        BY ThreadShape
      <3> QED BY <3>1, <3>2, GreetingParts DEF Shape
    <2>4. \A s \in Nat : req'[k] = Greeting(s) => req[k] = Greeting(s)
      BY <2>2, <2>3
    <2> QED BY <1>o, <1>d, <1>s, <2>1, <2>4, KeepThread
  <1> QED BY <1>1, <1>2, <1>3, <1>4

\* The session a daemon takes is older than its row.
LEMMA CommandSessions ==
  ASSUME TypeOK, TypeOK', Wire, Sessions, NEW d \in Splayd, NEW busy \in BOOLEAN,
         NEW k, k = Current(d), Execute(d, k, busy), UNCHANGED <<tables, threadVars>>
  PROVE  Sessions'
  <1>1. /\ k \in Conn /\ SplaydOf(k) = d /\ dconn[d] # NoConn
        /\ req[k] # <<>> /\ req' = [req EXCEPT ![k] = Tail(@)]
        /\ \A e \in Splayd \ {d} : /\ dconn'[e] = dconn[e] /\ dloop'[e] = dloop[e]
                                   /\ dsession'[e] = dsession[e]
        /\ \/ ReceiveSession(d, k) /\ Head(req[k]).cmd = "AUTH"
           \/ /\ Head(req[k]).cmd # "AUTH" /\ dsession' = dsession
              /\ Breaks(d, k) \/ \E r \in Reply \ {"none"} : Answers(d, k, r)
    BY CommandOwn
  <1>2. /\ req \in [Conn -> Seq(Message)] /\ dsession \in [Splayd -> Nat]
        /\ dconn \in [Splayd -> 0 .. MaxConn] /\ dloop \in [Splayd -> BOOLEAN]
        /\ splayds' = splayds /\ tpc' = tpc /\ trow' = trow /\ tsession' = tsession
        /\ \A e \in Splayd : splayds[e].session \in Nat
    BY DEF TypeOK, DaemonTypeOK, TablesTypeOK, threadVars, tables
  <1>3. \A s \in Nat : req'[k] # Greeting(s)
    <2>1. req'[k] = Tail(req[k])
      BY <1>1, <1>2
    <2>2. k \in Conn
      BY <1>1
    <2>3. CASE Greets(k)
      BY <2>1, <2>3, GreetingParts DEF Greets
    <2>4. CASE \E m : req[k] = <<m>>
      <3>1. req'[k] = <<>>
        BY <2>1, <2>4, OneMessage
      <3> QED BY <3>1, GreetingParts
    <2> QED BY <1>1, <2>2, <2>3, <2>4, ShapeForm
  <1>4. \A c \in Conn : \A s \in Nat : req'[c] = Greeting(s) => req[c] = Greeting(s)
    BY <1>1, <1>2, <1>3
  <1>5. Current(d)' = Current(d) /\ ~dloop'[d] => ~dloop[d] /\ dsession'[d] = dsession[d]
    <2>1. CASE ReceiveSession(d, k)
      BY <1>2, <2>1 DEF ReceiveSession
    <2>2. CASE dsession' = dsession /\ \E r \in Reply : Answers(d, k, r)
      BY <1>1, <1>2, <2>2 DEF Answers, Current
    <2>3. CASE Breaks(d, k)
      BY <1>1, <1>2, <2>3 DEF Breaks, Current, NoConn
    <2> QED BY <1>1, <2>1, <2>2, <2>3
  <1>6. Current(d)' = k \/ dconn'[d] = NoConn
    BY <1>1, <1>2 DEF ReceiveSession, Answers, Breaks, Current
  <1>7. ASSUME NEW c \in Conn, NEW e, e = SplaydOf(c) PROVE ThreadSession(c)'
    <2>1. e \in Splayd /\ ThreadSession(c)
      BY <1>7, ConnParts DEF Sessions
    <2>2. /\ splayds[e].session <= splayds'[e].session
          /\ tpc'[c] = tpc[c] /\ trow'[c] = trow[c] /\ tsession'[c] = tsession[c]
      BY <1>2, <2>1
    <2>3. \A s \in Nat : req'[c] = Greeting(s) => req[c] = Greeting(s)
      BY <1>4
    <2>4. c = Current(e)' /\ ~dloop'[e] =>
            c = Current(e) /\ ~dloop[e] /\ dsession'[e] = dsession[e]
      <3>1. CASE e = d
        <4>1. c = Current(d)' => Current(d)' = Current(d)
          BY <1>1, <1>6, <1>7, <3>1, ConnParts, MaxConnAssumption DEF Current, NoConn, SplaydOf
        <4> QED BY <1>5, <3>1, <4>1
      <3>2. CASE e # d
        BY <1>1, <2>1, <3>2 DEF Current
      <3> QED BY <3>1, <3>2
    <2> QED BY <1>7, <2>1, <2>2, <2>3, <2>4, KeepThread
  <1>8. ASSUME ReceiveSession(d, k), Head(req[k]).cmd = "AUTH"
        PROVE  Outdated(dsession'[d], splayds'[d].session)
    <2>1. PICK s \in Nat : req[k] = Greeting(s)
      BY <1>1, <1>8, ShapeForm, OneMessage DEF Greets
    <2>2. OlderThan(s, splayds[d].session)
      BY <1>1, <2>1 DEF Sessions, ThreadSession
    <2>3. dsession'[d] = s
      BY <1>2, <1>8, <2>1, GreetingParts DEF ReceiveSession
    <2> QED BY <1>2, <2>2, <2>3 DEF Outdated
  <1>9. \A e \in Splayd :
          SessionNumber(splayds'[e].session) /\ Outdated(dsession'[e], splayds'[e].session)
    BY <1>1, <1>2, <1>8 DEF Sessions
  <1>10. \A c \in Conn : ThreadSession(c)'
    BY <1>7
  <1> QED BY <1>9, <1>10 DEF Sessions

LEMMA ConnectSessions ==
  ASSUME TypeOK, TypeOK', Wire, Sessions, NEW d \in Splayd, NEW n \in 1 .. MaxConn, Connect(d, n)
  PROVE  Sessions'
  <1> DEFINE k == <<d, n>>
  <1>1. k \in Conn /\ SplaydOf(k) = d /\ k[1] = d
    BY DEF Conn, SplaydOf
  <1>2. /\ dconn[d] = NoConn /\ tpc[k] = "none"
        /\ dconn' = [dconn EXCEPT ![d] = n] /\ tpc' = [tpc EXCEPT ![k] = "hello"]
        /\ tsession' = [tsession EXCEPT ![k] = dsession[d]]
        /\ UNCHANGED <<dsession, dloop, req, trow, splayds>>
    BY DEF Connect, At, Goto, tables
  <1>3. /\ tpc \in [Conn -> Pc] /\ dconn \in [Splayd -> 0 .. MaxConn]
        /\ tsession \in [Conn -> Nat] /\ \A e \in Splayd : splayds[e].session \in Nat
    BY DEF TypeOK, DaemonTypeOK, ThreadTypeOK, TablesTypeOK
  <1>4. tpc'[k] = "hello" /\ tsession'[k] = dsession[d] /\ dconn'[d] = n
    BY <1>1, <1>2, <1>3
  <1> HIDE DEF k
  <1>5. ThreadSession(k)'
    <2>1. \A s \in Nat : req[k] # Greeting(s)
      BY <1>1, <1>2, GreetingParts DEF Wire, Shape, Silent
    <2>2. Outdated(dsession[d], splayds[d].session)
      BY DEF Sessions
    <2> QED BY <1>1, <1>2, <1>4, <2>1, <2>2 DEF ThreadSession, SplaydOf, Current
  <1>6. ASSUME NEW c \in Conn, c # k PROVE ThreadSession(c)'
    <2>1. SplaydOf(c) \in Splayd /\ ThreadSession(c)
      BY ConnParts DEF Sessions
    <2>2. tpc'[c] = tpc[c] /\ tsession'[c] = tsession[c]
      BY <1>1, <1>2, <1>3, <1>6
    <2>3. c = Current(c[1])' => c = Current(c[1])
      <3>1. CASE SplaydOf(c) = d
        BY <1>4, <1>6, <3>1 DEF Current, SplaydOf, k
      <3>2. CASE SplaydOf(c) # d
        BY <1>2, <1>3, <2>1, <3>2 DEF Current, SplaydOf
      <3> QED BY <3>1, <3>2
    <2>4. c[1] = SplaydOf(c)
      BY DEF SplaydOf
    <2> QED BY <1>2, <1>3, <2>1, <2>2, <2>3, <2>4, KeepThread
  <1> QED BY <1>2, <1>5, <1>6 DEF Sessions

\* Steps that at most forget a session, a connection, or all the threads.
LEMMA OtherSessions ==
  ASSUME TypeOK, TypeOK', Sessions,
         \A d \in Splayd : /\ splayds[d].session <= splayds'[d].session
                           /\ SessionNumber(splayds'[d].session)
                           /\ dsession'[d] = dsession[d] \/ dsession'[d] = EmptyText
                           /\ \/ dconn'[d] = NoConn
                              \/ /\ dsession'[d] = dsession[d] /\ dloop'[d] = dloop[d]
                                 /\ dconn'[d] = dconn[d],
         UNCHANGED <<req, tsession, trow>>,
         \A c \in Conn : tpc'[c] \in {tpc[c], "dead"}
  PROVE  Sessions'
  <1>1. \A d \in Splayd : /\ splayds[d].session \in Nat /\ splayds'[d].session \in Nat
                          /\ dsession[d] \in Nat
    BY DEF TypeOK, TablesTypeOK, DaemonTypeOK
  <1>2. \A d \in Splayd : Outdated(dsession'[d], splayds'[d].session)
    <2> SUFFICES ASSUME NEW d \in Splayd PROVE Outdated(dsession'[d], splayds'[d].session)
      OBVIOUS
    <2>1. Outdated(dsession[d], splayds'[d].session)
      BY <1>1, OlderStays DEF Sessions
    <2> QED BY <2>1 DEF Outdated
  <1>3. ASSUME NEW c \in Conn PROVE ThreadSession(c)'
    <2>1. SplaydOf(c) \in Splayd /\ ThreadSession(c)
      BY ConnParts DEF Sessions
    <2>2. c[1] = SplaydOf(c) /\ c[2] # NoConn
      BY ConnParts, MaxConnAssumption DEF SplaydOf, NoConn
    <2>3. c = Current(c[1])' /\ ~dloop'[c[1]] =>
            c = Current(c[1]) /\ ~dloop[c[1]] /\ dsession'[c[1]] = dsession[c[1]]
      BY <2>1, <2>2 DEF Current
    <2> QED BY <2>1, <2>2, <2>3, KeepThread
  <1> QED BY <1>2, <1>3 DEF Sessions

LEMMA SessionsInductive == TypeOK /\ Wire /\ Sessions /\ [Next]_vars => Sessions'
  <1> SUFFICES ASSUME TypeOK, Wire, Sessions, [Next]_vars PROVE Sessions'
    OBVIOUS
  <1>t. TypeOK'
    BY NextType
  <1>g. \A d \in Splayd : /\ splayds[d].session <= splayds'[d].session
                          /\ SessionNumber(splayds'[d].session)
    BY RowsGrow
  <1>1. ASSUME NEW k \in Conn, ThreadRuns(k) PROVE Sessions'
    <2>1. ThreadStep(k)
      BY <1>1 DEF ThreadRuns
    <2>2. /\ UNCHANGED <<dsession, dconn, dloop, tsession>>
          /\ \A c \in Conn \ {k} : Same(c) /\ trow'[c] = trow[c]
      BY <2>1, ThreadOwn
    <2>3. ThreadSession(k)'
      BY <1>t, <1>g, <2>1, ThreadOwnSession, ConnParts
    <2>4. ASSUME NEW c \in Conn, c # k PROVE ThreadSession(c)'
      <3>1. Current(c[1])' = Current(c[1]) /\ c[1] = SplaydOf(c)
        BY <2>2 DEF Current, SplaydOf
      <3>2. ThreadSession(c) /\ SplaydOf(c) \in Splayd
        BY ConnParts DEF Sessions
      <3> QED BY <1>t, <1>g, <2>2, <2>4, <3>1, <3>2, KeepThread DEF Same
    <2>5. \A e \in Splayd : Outdated(dsession'[e], splayds'[e].session)
      <3>1. \A e \in Splayd : /\ splayds[e].session \in Nat /\ splayds'[e].session \in Nat
                              /\ dsession[e] \in Nat
        BY <1>t DEF TypeOK, TablesTypeOK, DaemonTypeOK
      <3> QED BY <1>g, <2>2, <3>1, OlderStays DEF Sessions
    <2> QED BY <1>g, <2>3, <2>4, <2>5 DEF Sessions
  <1>2. ASSUME NEW d \in Splayd, DaemonCommand(d) \/ BusyPorts(d) PROVE Sessions'
    <2>1. \E busy \in BOOLEAN : Execute(d, Current(d), busy)
      BY <1>2 DEF DaemonCommand, BusyPorts, Execute
    <2> QED BY <1>2, <1>t, <2>1, CommandSessions DEF DaemonCommand, BusyPorts
  <1>3. ASSUME NEW d \in Splayd, DaemonConnects(d) PROVE Sessions'
    BY <1>3, <1>t, ConnectSessions DEF DaemonConnects
  <1>4. ASSUME NEW d \in Splayd, DaemonGivesUp(d) \/ DaemonFails(d) PROVE Sessions'
    <2>1. UNCHANGED <<req, tsession, trow, tpc>>
      BY <1>4 DEF DaemonGivesUp, HandshakeFails, FullReset, DaemonFails, DaemonRestart, threadVars
    <2>2. dconn \in [Splayd -> 0 .. MaxConn] /\ dsession \in [Splayd -> Nat]
          /\ dloop \in [Splayd -> BOOLEAN]
      BY DEF TypeOK, DaemonTypeOK
    <2>3. \A e \in Splayd : dsession'[e] = dsession[e] \/ dsession'[e] = EmptyText
      BY <1>4, <2>2 DEF DaemonGivesUp, HandshakeFails, FullReset, DaemonFails, DaemonRestart
    <2>4. \A e \in Splayd : \/ dconn'[e] = NoConn
                            \/ /\ dsession'[e] = dsession[e] /\ dloop'[e] = dloop[e]
                               /\ dconn'[e] = dconn[e]
      BY <1>4, <2>2 DEF DaemonGivesUp, HandshakeFails, FullReset, DaemonFails, DaemonRestart
    <2> QED BY <1>g, <1>t, <2>1, <2>3, <2>4, OtherSessions
  <1>5. CASE \/ JobdRuns \/ UnseenSelect \/ UNCHANGED vars \/ ControllerRestarts
             \/ \E d \in Splayd : UnseenReset(d)
             \/ \E j \in Job : UserActs(j)
             \/ \E k \in Conn : LinkFails(k) \/ SocketCollected(k)
    <2>1. UNCHANGED <<dsession, dconn, dloop, req, tsession, trow>>
      BY <1>5 DEF JobdRuns, UnseenSelect, UnseenReset, UserActs, LinkFails, SocketCollected,
         CollectSocket, ControllerRestarts, vars, daemonVars, threadVars
    <2>2. \A c \in Conn : tpc'[c] \in {tpc[c], "dead"}
      BY <1>5 DEF JobdRuns, UnseenSelect, UnseenReset, UserActs, LinkFails, SocketCollected,
         CollectSocket, ControllerRestarts, vars, threadVars
    <2> QED BY <1>g, <1>t, <2>1, <2>2, OtherSessions
  <1> QED BY <1>1, <1>2, <1>3, <1>4, <1>5 DEF Next

LEMMA InitWire == Init => Wire /\ Sessions
  <1> SUFFICES ASSUME Init PROVE Wire /\ Sessions
    OBVIOUS
  <1>1. /\ \A k \in Conn : /\ link[k] = "free" /\ req[k] = <<>> /\ rep[k] = "none"
                           /\ tpc[k] = "none"
        /\ \A d \in Splayd : /\ dconn[d] = NoConn /\ ~dloop[d] /\ dsession[d] = EmptyText
                             /\ splayds[d].session = NullSession
    BY DEF Init, DaemonInit, ThreadInit, TablesInit
  <1>2. ASSUME NEW k \in Conn PROVE Shape(k) /\ Ends(k) /\ ThreadSession(k)
    <2>1. k # Current(SplaydOf(k))
      BY <1>1, ConnParts, MaxConnAssumption DEF NoConn
    <2>2. \A s : req[k] # Greeting(s)
      BY <1>1, <1>2, GreetingParts
    <2>3. tpc[k] \notin Admitted
      BY <1>1, <1>2 DEF Admitted, Serving
    <2> QED BY <1>1, <1>2, <2>1, <2>2, <2>3 DEF Shape, Ends, ThreadSession, Silent, Attached
  <1>3. \A d \in Splayd : SessionNumber(splayds[d].session)
                          /\ Outdated(dsession[d], splayds[d].session)
    BY <1>1 DEF SessionNumber, Outdated
  <1> QED BY <1>1, <1>2, <1>3 DEF Wire, Sessions

\* The daemon was given the session of its row before reset changed it.
NeverRestored == \A k \in Conn : tpc[k] = "auth" => ~SameSession(k)

\* auth sends the session of the row it read before reset, so a daemon that
\* connects again never has the one its row has by then: the branch of auth that
\* restores a session is dead, and every connection begins with a reset.
THEOREM SessionNeverRestored == Spec => []NeverRestored
  <1>1. TypeOK /\ Sessions => NeverRestored
    BY NeverSameSession DEF NeverRestored
  <1> QED BY <1>1, InitWire, TypeCorrect, WireInductive, SessionsInductive, PTL DEF Spec

---------------------------------------------------------------------------
(* The invariants: commands *)

OneCommand(a, b) == a.splayd = b.splayd /\ a.id = b.id => a.cmd = b.cmd

\* An id of actions is never used again, and stands for one command.
Ids ==
  /\ \A a \in actions : a.id < nextAction[a.splayd]
  /\ \A a, b \in actions : OneCommand(a, b)
  /\ \A k \in Conn : \A a \in tfailed[k] :
       /\ a.splayd = SplaydOf(k) /\ a.id < nextAction[a.splayd]
       /\ \A b \in actions : OneCommand(a, b)

\* A REGISTER that the daemon can decode.
Registers(a) == a.cmd = "REGISTER" /\ a.data = "json"

Unsent == {"WAITING", "TEMP"}

SameOrder(a, b) ==
  a.id = b.id /\ a.splayd = b.splayd /\ a.job = b.job /\ a.cmd = b.cmd /\ a.data = b.data

\* Row b was in the table, and was to be sent if it registers a job and is now.
Kept(b) ==
  \E a \in actions : SameOrder(a, b) /\ (Registers(b) /\ b.status \in Unsent => a.status \in Unsent)

\* Row b gets a new id.
Fresh(b) == nextAction[b.splayd] <= b.id /\ b.id < nextAction'[b.splayd]

\* Row b is added by a thread that restores a failed REGISTER, ...
Again(b) ==
  /\ ~Registers(b)
  /\ \E k \in Conn : /\ SplaydOf(k) = b.splayd /\ tpc[k] \in {"free", "register"}
                     /\ b.job = taction[k].job

\* ... by the scheduler, for a job that was sent, ...
Decided(b) == ~Registers(b) /\ b.job = jjob /\ jstep \in Deciding \cup GivingUp \cup {"start"}

\* ... or by the scheduler, to send a job.
First(b) ==
  /\ b.job = jjob /\ jstep = "registers" /\ jstep' = "commit" /\ jjob' = jjob
  /\ b.splayd \in jset /\ b.id = nextAction[b.splayd]

ActionsStep ==
  /\ \A d \in Splayd : nextAction[d] <= nextAction'[d]
  /\ \E c \in Command : \A b \in actions' :
       Kept(b) \/ (b.cmd = c /\ Fresh(b) /\ (Again(b) \/ Decided(b) \/ First(b)))

---------------------------------------------------------------------------
(* Ids *)

LEMMA SetStatusKeeps ==
  ASSUME TypeOK, NEW rows, NEW st, actions' = SetActionStatus(rows, st),
         st \in Unsent => \A a \in actions \cap rows : Registers(a) => a.status \in Unsent
  PROVE  \A b \in actions' : Kept(b)
  <1>1. actions \in SUBSET Action
    BY DEF TypeOK, TablesTypeOK
  <1>2. ASSUME NEW b \in actions' PROVE Kept(b)
    <2>1. PICK a \in actions : b = IF a \in rows THEN [a EXCEPT !.status = st] ELSE a
      BY <1>2 DEF SetActionStatus
    <2>2. SameOrder(a, b) /\ (b = a \/ (a \in rows /\ b.status = st))
      BY <1>1, <2>1 DEF Action, SameOrder
    <2> QED BY <2>2 DEF Kept, SameOrder, Registers
  <1> QED BY <1>2

LEMMA FewerKept == actions' \subseteq actions => \A b \in actions' : Kept(b)
  BY DEF Kept, SameOrder

LEMMA AddKeeps ==
  ASSUME TypeOK, NEW k \in Conn, tpc[k] \in {"free", "register"}, NEW c, NEW data,
         c # "REGISTER" \/ data # "json", AddAction(SplaydOf(k), taction[k].job, c, data)
  PROVE  /\ \A d \in Splayd : nextAction[d] <= nextAction'[d]
         /\ \A b \in actions' : Kept(b) \/ (b.cmd = c /\ Fresh(b) /\ Again(b))
  <1> DEFINE d == SplaydOf(k)
             row == Row(nextAction[d], d, taction[k].job, c, data, "WAITING")
  <1>1. d \in Splayd /\ nextAction \in [Splayd -> Nat]
    BY SplaydOfType DEF TypeOK, TablesTypeOK
  <1>2. actions' = actions \cup {row} /\ nextAction' = [nextAction EXCEPT ![d] = @ + 1]
    BY DEF AddAction
  <1>3. /\ row.id = nextAction[d] /\ row.splayd = d /\ row.job = taction[k].job
        /\ row.cmd = c /\ row.data = data
    BY DEF Row
  <1> HIDE DEF row
  <1>4. Fresh(row)
    BY <1>1, <1>2, <1>3 DEF Fresh
  <1>5. Again(row)
    BY <1>3 DEF Again, Registers
  <1>6. \A b \in actions : Kept(b)
    BY DEF Kept, SameOrder
  <1> QED BY <1>1, <1>2, <1>3, <1>4, <1>5, <1>6

\* INSERT INTO actions, one row for each of sels.
LEMMA InsertKeeps ==
  ASSUME TypeOK, NEW sels, IsFiniteSet(sels), NEW c, NEW st,
         \A s \in sels : s.splayd \in Splayd /\ s.seq \in Nat,
         InsertActions(sels, c, st)
  PROVE  /\ \A d \in Splayd : nextAction[d] <= nextAction'[d]
         /\ \A b \in actions' :
              \/ Kept(b)
              \/ /\ b.cmd = c /\ Fresh(b)
                 /\ \E s \in sels :
                      /\ b.splayd = s.splayd /\ b.job = s.job
                      /\ (\A t \in sels : t.seq = s.seq) => b.id = nextAction[b.splayd]
  <1> DEFINE before(s) == {t \in sels : t.splayd = s.splayd /\ t.seq < s.seq}
             of(d) == {s \in sels : s.splayd = d}
             row(s) == Row(nextAction[s.splayd] + Cardinality(before(s)),
                           s.splayd, s.job, c, "json", st)
  <1>1. nextAction \in [Splayd -> Nat]
    BY DEF TypeOK, TablesTypeOK
  <1>2. actions' = actions \cup {row(s) : s \in sels}
    BY DEF InsertActions
  <1>3. nextAction' = [d \in Splayd |-> nextAction[d] + Cardinality(of(d))]
    BY DEF InsertActions
  <1>4. ASSUME NEW d PROVE IsFiniteSet(of(d)) /\ Cardinality(of(d)) \in Nat
    <2>1. of(d) \in SUBSET sels
      OBVIOUS
    <2> HIDE DEF of
    <2> QED BY <2>1, CountType
  <1>5. ASSUME NEW s \in sels
        PROVE  /\ Cardinality(before(s)) \in Nat
               /\ Cardinality(before(s)) < Cardinality(of(s.splayd))
               /\ (\A t \in sels : t.seq = s.seq) => Cardinality(before(s)) = 0
    <2>1. before(s) \in SUBSET of(s.splayd) /\ before(s) # of(s.splayd)
      <3>1. s \in of(s.splayd) /\ s \notin before(s)
        OBVIOUS
      <3> QED BY <3>1
    <2>2. (\A t \in sels : t.seq = s.seq) => before(s) = {}
      OBVIOUS
    <2>3. IsFiniteSet(of(s.splayd)) /\ Cardinality(of(s.splayd)) \in Nat
      BY <1>4
    <2> HIDE DEF before, of
    <2>4. /\ Cardinality(before(s)) \in Nat
          /\ Cardinality(before(s)) <= Cardinality(of(s.splayd))
          /\ Cardinality(before(s)) # Cardinality(of(s.splayd))
      BY <2>1, <2>3, FS_Subset, CountType
    <2>5. Cardinality(before(s)) < Cardinality(of(s.splayd))
      BY <2>3, <2>4
    <2>6. (\A t \in sels : t.seq = s.seq) => Cardinality(before(s)) = 0
      BY <2>2, FS_EmptySet, Zenon
    <2> QED BY <2>4, <2>5, <2>6
  <1>6. \A s : /\ row(s).id = nextAction[s.splayd] + Cardinality(before(s))
               /\ row(s).splayd = s.splayd /\ row(s).job = s.job /\ row(s).cmd = c
    <2> HIDE DEF before
    <2> QED BY DEF Row
  <1> HIDE DEF before, of, row
  <1>7. ASSUME NEW s \in sels PROVE Fresh(row(s))
    <2>1. nextAction'[s.splayd] = nextAction[s.splayd] + Cardinality(of(s.splayd))
      BY <1>3
    <2> QED BY <1>1, <1>4, <1>5, <1>6, <2>1 DEF Fresh
  <1>8. \A b \in actions : Kept(b)
    BY DEF Kept, SameOrder
  <1>9. ASSUME NEW s \in sels, \A t \in sels : t.seq = s.seq
        PROVE  row(s).id = nextAction[row(s).splayd]
    BY <1>1, <1>5, <1>6, <1>9
  <1>10. \A d \in Splayd : nextAction[d] <= nextAction'[d]
    BY <1>1, <1>3, <1>4
  <1>11. ASSUME NEW s \in sels
         PROVE  /\ row(s).cmd = c /\ Fresh(row(s))
                /\ row(s).splayd = s.splayd /\ row(s).job = s.job
                /\ (\A t \in sels : t.seq = s.seq) => row(s).id = nextAction[row(s).splayd]
    BY <1>6, <1>7, <1>9
  <1> QED BY <1>2, <1>8, <1>10, <1>11

LEMMA SameNext ==
  ASSUME TypeOK, nextAction' = nextAction
  PROVE  \A d \in Splayd : nextAction[d] <= nextAction'[d]
  BY DEF TypeOK, TablesTypeOK

LEMMA KeptStep ==
  ASSUME TypeOK, nextAction' = nextAction, \A b \in actions' : Kept(b)
  PROVE  ActionsStep
  BY SameNext DEF ActionsStep, Command

LEMMA ThreadActions ==
  ASSUME TypeOK, Ids, NEW k \in Conn, ThreadStep(k)
  PROVE  ActionsStep
  <1> DEFINE d == SplaydOf(k)
  <1>1. actions \in SUBSET Action
    BY DEF TypeOK, TablesTypeOK
  <1>2. CASE RestoreAction(k)
    <2>1. PICK a \in tfailed[k] :
            /\ a.cmd # "REGISTER"
            /\ actions' = SetActionStatus({b \in actions : b.splayd = a.splayd /\ b.id = a.id},
                                          "WAITING")
      BY <1>2 DEF RestoreAction
    <2>2. \A b \in actions : b.splayd = a.splayd /\ b.id = a.id => ~Registers(b)
      BY <2>1 DEF Ids, OneCommand, Registers
    <2>3. \A b \in actions' : Kept(b)
      BY <2>1, <2>2, SetStatusKeeps
    <2> QED BY <1>2, <2>3, KeptStep DEF RestoreAction
  <1>3. CASE MainFails(k) \/ ReplyNotOK(k) \/ SendAction(k)
    <2>1. PICK rows, st : actions' = SetActionStatus(rows, st) /\ st \notin Unsent
      BY <1>3 DEF MainFails, ReplyNotOK, EndMain, ActionFailure, SendAction, MarkSending, Unsent
    <2>2. \A b \in actions' : Kept(b)
      BY <2>1, SetStatusKeeps
    <2> QED BY <1>3, <2>2, KeptStep DEF MainFails, ReplyNotOK, SendAction
  <1>4. CASE ReadRow(k) \/ Authenticate(k) \/ AskInfos(k) \/ InfosOK(k) \/ Available(k)
             \/ ReadFailed(k) \/ DeleteRegister(k) \/ AuthFails(k) \/ PickAction(k)
             \/ ApplyReply(k) \/ FinishAction(k)
    <2>1. actions' \in SUBSET actions /\ nextAction' = nextAction
      BY <1>4 DEF ReadRow, Authenticate, ResetSession, AskInfos, ResetJobs, InfosOK, Available,
         ReadFailed, DeleteRegister, AuthFails, PickAction, ApplyReply, FinishAction,
         RemoveAction, tables
    <2> QED BY <2>1, FewerKept, KeptStep
  <1>5. CASE FreeFirst(k)
    BY <1>5, AddKeeps DEF FreeFirst, At, ActionsStep, Command
  <1>6. CASE RegisterAgain(k)
    BY <1>6, AddKeeps DEF RegisterAgain, At, ActionsStep, Command
  <1> QED BY <1>2, <1>3, <1>4, <1>5, <1>6 DEF ThreadStep

LEMMA JobdActions ==
  ASSUME TypeOK, JobdStep
  PROVE  ActionsStep
  <1>1. actions \in SUBSET Action
    BY DEF TypeOK, TablesTypeOK
  <1>2. jstep # "next" => jjob \in Job
    BY DEF TypeOK, JobdTypeOK
  <1>3. CASE InsertRegisters
    <2> DEFINE regs == {[splayd |-> d, job |-> jjob, seq |-> 0] : d \in jset}
    <2>1. /\ jstep = "registers" /\ jstep' = "commit" /\ jjob' = jjob
          /\ InsertActions(regs, "REGISTER", "TEMP")
      BY <1>3 DEF InsertRegisters, Statement
    <2>2. IsFiniteSet(regs)
      BY <1>2, <2>1, SelsType DEF TypeOK
    <2>3. \A s \in regs : s.splayd \in jset /\ s.splayd \in Splayd /\ s.job = jjob /\ s.seq = 0
      BY DEF TypeOK, JobdTypeOK
    <2> HIDE DEF regs
    <2>4. \A b \in actions' : Kept(b) \/ (b.cmd = "REGISTER" /\ Fresh(b) /\ First(b))
      BY <2>1, <2>2, <2>3, InsertKeeps DEF First
    <2>5. \A d \in Splayd : nextAction[d] <= nextAction'[d]
      BY <2>1, <2>2, <2>3, InsertKeeps
    <2> QED BY <2>4, <2>5 DEF ActionsStep, Command
  <1>4. CASE FreeOthers \/ SendAllList \/ SendStart \/ FreesAll
    <2>1. PICK sels \in SUBSET selections, c \in Command \ {"REGISTER"}, st \in ActionStatus :
            /\ InsertActions(sels, c, st)
            /\ \A s \in sels : s.job = jjob
      <3>1. CASE FreeOthers \/ SendAllList \/ SendStart
        BY <3>1 DEF FreeOthers, SendAllList, SendStart, Selected, SelectionsOf, Command,
           ActionStatus
      <3>2. ASSUME NEW d \in Splayd, FreeAll(d)
            PROVE  \E sels \in SUBSET selections :
                      /\ InsertActions(sels, "FREE", "WAITING")
                      /\ \A s \in sels : s.job = jjob
        <4> DEFINE sels == {s \in SelectionsOf(jjob) : s.splayd = d}
        <4>1. sels \in SUBSET selections /\ \A s \in sels : s.job = jjob
          BY DEF SelectionsOf
        <4>2. InsertActions(sels, "FREE", "WAITING")
          BY <3>2 DEF FreeAll
        <4> QED BY <4>1, <4>2
      <3>3. "FREE" \in Command \ {"REGISTER"} /\ "WAITING" \in ActionStatus
        BY DEF Command, ActionStatus
      <3> QED BY <1>4, <3>1, <3>2, <3>3 DEF FreesAll
    <2>2. jstep \in Deciding \cup GivingUp \cup {"start"}
      BY <1>4 DEF FreeOthers, SendAllList, SendStart, FreesAll, FreeAll, Statement, Turn,
         LastStatement, Deciding, GivingUp
    <2>3. jstep # "next"
      BY <2>2 DEF Deciding, GivingUp
    <2>4. IsFiniteSet(sels) /\ \A s \in sels : s.splayd \in Splayd /\ s.seq \in Nat
      BY <1>2, <2>3, SelsType DEF TypeOK, TablesTypeOK, Selection
    <2>5. \A b \in actions' : Kept(b) \/ (b.cmd = c /\ Fresh(b) /\ Decided(b))
      BY <2>1, <2>2, <2>4, InsertKeeps DEF Decided, Registers
    <2>6. \A d \in Splayd : nextAction[d] <= nextAction'[d]
      BY <2>1, <2>4, InsertKeeps
    <2> QED BY <2>1, <2>5, <2>6 DEF ActionsStep
  <1>5. CASE CommitRegisters \/ CommitList
    <2>1. PICK c : /\ actions' = CommitActions(jjob, c) /\ nextAction' = nextAction
      BY <1>5 DEF CommitRegisters, CommitList
    <2>2. \A b \in actions' : Kept(b)
      BY <2>1, SetStatusKeeps DEF CommitActions, Unsent
    <2> QED BY <2>1, <2>2, KeptStep
  <1>6. CASE actions' \in SUBSET actions /\ nextAction' = nextAction
    BY <1>6, FewerKept, KeptStep
  <1> QED BY <1>3, <1>4, <1>5, <1>6
       DEF JobdStep, FreesAll, NextPhase, StatusLocal, StatusQueued, SelectSplayds,
       StatusRegistering, SelectSplayd, KeepRegistering, RegisterTimeout, StatusRunning,
       KillMaxTime, ExecuteKill, InsertSelections, InsertSplaydJobs, SetRegistering,
       SetRunning, DeleteSelections, SetRegisterTimeout, tables

LEMMA ActionsChange ==
  ASSUME TypeOK, Ids, [Next]_vars
  PROVE  ActionsStep
  <1>1. CASE JobdRuns
    BY <1>1, JobdActions DEF JobdRuns
  <1>2. ASSUME NEW k \in Conn, ThreadRuns(k) PROVE ActionsStep
    BY <1>2, ThreadActions DEF ThreadRuns
  <1>3. CASE ControllerRestarts
    <2>1. actions' = ResetActions /\ nextAction' = nextAction
      BY <1>3 DEF ControllerRestarts, SplaydInit
    <2>2. ASSUME NEW b \in actions' PROVE Kept(b)
      <3>1. PICK a \in actions :
              b = IF a.status = "SENDING" THEN [a EXCEPT !.status = "FAILURE"] ELSE a
        BY <2>1, <2>2 DEF ResetActions
      <3>2. SameOrder(a, b) /\ (b = a \/ b.status = "FAILURE")
        BY <3>1 DEF TypeOK, TablesTypeOK, Action, SameOrder
      <3> QED BY <3>2 DEF Kept, Unsent
    <2> QED BY <2>1, <2>2, KeptStep
  <1>4. CASE actions' \subseteq actions /\ nextAction' = nextAction
    BY <1>4, FewerKept, KeptStep
  <1>5. \/ JobdRuns \/ ControllerRestarts \/ \E k \in Conn : ThreadRuns(k)
        \/ actions' \subseteq actions /\ nextAction' = nextAction
    BY DEF Next, vars, DaemonCommand, BusyPorts, DaemonConnects, Connect, DaemonGivesUp,
       DaemonFails, UnseenReset, ResetJobs, ResetSession, UnseenSelect, LinkFails,
       SocketCollected, CollectSocket, UserActs, Submit, KillJob, tables
  <1> QED BY <1>1, <1>2, <1>3, <1>4, <1>5

\* restore_actions reads the rows of its daemon.
LEMMA FailedChange ==
  ASSUME TypeOK, [Next]_vars, NEW k \in Conn
  PROVE  tfailed'[k] \subseteq tfailed[k] \cup {a \in actions : a.splayd = SplaydOf(k)}
  <1>1. tfailed \in [Conn -> SUBSET Action]
    BY DEF TypeOK, ThreadTypeOK
  <1>2. ASSUME NEW c \in Conn, ThreadStep(c)
        PROVE  tfailed'[c] \subseteq tfailed[c] \cup {a \in actions : a.splayd = SplaydOf(c)}
    BY <1>1, <1>2 DEF ThreadStep, ReadRow, Authenticate, AskInfos, InfosOK, Available, ReadFailed,
       RestoreAction, DeleteRegister, FreeFirst, RegisterAgain, AuthFails, MainFails, PickAction,
       SendAction, ApplyReply, ReplyNotOK, FinishAction, GoesOnWith, ActionsOf
  <1>3. ASSUME NEW c \in Conn, ThreadRuns(c)
        PROVE  tfailed'[k] \subseteq tfailed[k] \cup {a \in actions : a.splayd = SplaydOf(k)}
    <2>1. ThreadStep(c)
      BY <1>3 DEF ThreadRuns
    <2>2. k # c => tfailed'[k] = tfailed[k]
      BY <2>1, ThreadOwn
    <2> QED BY <1>2, <2>1, <2>2
  <1>4. \/ tfailed' = tfailed \/ tfailed' = [c \in Conn |-> {}]
        \/ \E c \in Conn : ThreadRuns(c)
    BY DEF Next, vars, threadVars, DaemonCommand, BusyPorts, DaemonConnects, Connect,
       DaemonGivesUp, DaemonFails, UnseenReset, UnseenSelect, LinkFails,
       SocketCollected, CollectSocket, UserActs, JobdRuns, ControllerRestarts
  <1> QED BY <1>3, <1>4

LEMMA IdsInductive == TypeOK /\ Ids /\ [Next]_vars => Ids'
  <1> SUFFICES ASSUME TypeOK, Ids, [Next]_vars PROVE Ids'
    OBVIOUS
  <1>t. /\ actions \in SUBSET Action /\ nextAction \in [Splayd -> Nat]
        /\ actions' \in SUBSET Action /\ nextAction' \in [Splayd -> Nat]
        /\ tfailed \in [Conn -> SUBSET Action]
    BY NextType DEF TypeOK, TablesTypeOK, ThreadTypeOK
  <1>1. PICK c \in Command : \A b \in actions' : Kept(b) \/ (b.cmd = c /\ Fresh(b))
    BY ActionsChange DEF ActionsStep
  <1>2. \A d \in Splayd : nextAction[d] <= nextAction'[d]
    BY ActionsChange DEF ActionsStep
  <1>3. ASSUME NEW b \in actions' PROVE b.id < nextAction'[b.splayd]
    <2>1. b.splayd \in Splayd /\ b.id \in Nat
      BY <1>t, <1>3 DEF Action
    <2>2. CASE Kept(b)
      <3>1. b.id < nextAction[b.splayd]
        BY <2>2 DEF Kept, SameOrder, Ids
      <3> QED BY <1>t, <1>2, <2>1, <3>1
    <2> QED BY <1>1, <1>3, <2>2 DEF Fresh
  <1>4. ASSUME NEW a \in Action, a.id < nextAction[a.splayd],
               \A b \in actions : OneCommand(a, b),
               NEW b \in actions'
        PROVE  OneCommand(a, b)
    <2>1. CASE Kept(b)
      BY <1>4, <2>1 DEF Kept, SameOrder, OneCommand
    <2>2. CASE Fresh(b)
      BY <1>t, <1>4, <2>2 DEF Fresh, OneCommand, Action
    <2> QED BY <1>1, <1>4, <2>1, <2>2
  <1>5. ASSUME NEW a \in actions', NEW b \in actions' PROVE OneCommand(a, b)
    <2>1. CASE Kept(a)
      <3>1. PICK e \in actions : SameOrder(e, a)
        BY <2>1 DEF Kept
      <3>2. OneCommand(e, b)
        BY <1>t, <1>4, <1>5 DEF Ids
      <3> QED BY <3>1, <3>2 DEF SameOrder, OneCommand
    <2>2. CASE Kept(b)
      <3>1. PICK e \in actions : SameOrder(e, b)
        BY <2>2 DEF Kept
      <3>2. OneCommand(e, a)
        BY <1>t, <1>4, <1>5 DEF Ids
      <3> QED BY <3>1, <3>2 DEF SameOrder, OneCommand
    <2> QED BY <1>1, <1>5, <2>1, <2>2 DEF OneCommand
  <1>6. ASSUME NEW k \in Conn, NEW a \in tfailed'[k]
        PROVE  /\ a.splayd = SplaydOf(k) /\ a.id < nextAction'[a.splayd]
               /\ \A b \in actions' : OneCommand(a, b)
    <2>1. a \in Action /\ a.splayd \in Splayd /\ a.id \in Nat
      BY <1>t, <1>6, FailedChange DEF Action
    <2>2. /\ a.splayd = SplaydOf(k) /\ a.id < nextAction[a.splayd]
          /\ \A b \in actions : OneCommand(a, b)
      BY <1>6, FailedChange DEF Ids
    <2>3. a.id < nextAction'[a.splayd]
      BY <1>t, <1>2, <2>1, <2>2
    <2> QED BY <1>4, <2>1, <2>2, <2>3
  <1> QED BY <1>3, <1>5, <1>6 DEF Ids

---------------------------------------------------------------------------
(* The invariants: jobs that were not sent *)

\* The REGISTER commands of job j were inserted, or it is over.
HasAsked(j) ==
  \/ jobs[j].status \notin {"NONE", "LOCAL", "QUEUED", "QUEUE_TIMEOUT"}
  \/ jjob = j /\ jstep \in {"commit", "registering"}

Restoring == {"restore", "free", "register"}

NoActions(d, j) == \A a \in actions : ~(a.splayd = d /\ a.job = j)

\* Daemon d cannot be chosen, and will be reset before it can.
Idle(d, j) ==
  /\ splayds[d].status # "AVAILABLE"
  /\ jstep \in Sending => d \notin jset
  /\ \A k \in Conn : SplaydOf(k) = d =>
       /\ tpc[k] \notin Admitted
       /\ tpc[k] = "reset" => NoActions(d, j)

\* Daemon d may be chosen, and nothing about job j is on its way to it.
Unheard(d, j) ==
  /\ NoActions(d, j)
  /\ \A k \in Conn : SplaydOf(k) = d =>
       /\ tpc[k] \in Holding => taction[k].job # j
       /\ tpc[k] \in Restoring => \A a \in tfailed[k] : a.job # j
       /\ Attached(k) /\ dloop[d] => djobs[d][j] = "none"

FirstAsk == \A d \in Splayd, j \in Job : ~HasAsked(j) => Idle(d, j) \/ Unheard(d, j)

---------------------------------------------------------------------------
(* FirstAsk *)

LEMMA AskedStays ==
  ASSUME TypeOK, Known, [Next]_vars, NEW j \in Job, HasAsked(j), ~ControllerRestarts
  PROVE  HasAsked(j)'
  <1>1. CASE JobdRuns
    <2>1. JobdStep /\ jobs \in [Job -> [status : JobStatus, command : BOOLEAN]]
      BY <1>1 DEF JobdRuns, TypeOK, TablesTypeOK
    <2>2. CASE jstep = "next"
      <3>1. ASSUME NEW i \in Job, StatusLocal(i) \/ StatusQueued(i) PROVE HasAsked(j)'
        <4>1. i # j /\ \A e \in Job \ {i} : jobs'[e] = jobs[e]
          BY <2>1, <2>2, <3>1 DEF StatusLocal, StatusQueued, SelectSplayds, Takes, Known,
             TodoStatus, HasAsked, SetJobStatus
        <4> QED BY <2>2, <4>1 DEF HasAsked
      <3>2. ASSUME NEW i \in Job, StatusRunning(i) \/ KillMaxTime(i) \/ ExecuteKill(i)
            PROVE  HasAsked(j)'
        BY <2>1, <2>2, <3>2 DEF StatusRunning, KillMaxTime, ExecuteKill, SetJobStatus, Killed,
           HasAsked
      <3>3. CASE jobs' = jobs
        BY <2>2, <3>3 DEF HasAsked
      <3> QED BY <2>1, <2>2, <3>1, <3>2, <3>3 DEF JobdStep, FreesAll, NextPhase,
           StatusRegistering, SelectSplayd, KeepRegistering, RegisterTimeout,
           InsertSelections, InsertSplaydJobs, InsertRegisters, CommitRegisters,
           SetRegistering, FreeOthers, SendAllList, CommitList, SetRunning, SendStart,
           FreeAll, DeleteSelections, SetRegisterTimeout, Statement, Turn, LastStatement,
           tables
    <2>3. CASE SetRegistering \/ SetRunning \/ SetRegisterTimeout
      BY <2>1, <2>3 DEF SetRegistering, SetRunning, SetRegisterTimeout, SetJobStatus, Statement,
         LastStatement, HasAsked
    <2>4. CASE jstep # "next" /\ ~SetRegistering /\ ~SetRunning /\ ~SetRegisterTimeout
      <3>1. /\ jobs' = jobs
            /\ jstep = "commit" => jstep' = "registering" /\ jjob' = jjob
            /\ jstep # "registering"
        BY <2>1, <2>4 DEF JobdStep, FreesAll, NextPhase, StatusLocal, StatusQueued,
           SelectSplayds, StatusRegistering, SelectSplayd, KeepRegistering, RegisterTimeout,
           StatusRunning, KillMaxTime, ExecuteKill, Takes, InsertSelections,
           InsertSplaydJobs, InsertRegisters, CommitRegisters, FreeOthers, SendAllList,
           CommitList, SendStart, FreeAll, DeleteSelections, Statement, Turn, LastStatement
      <3> QED BY <3>1 DEF HasAsked
    <2> QED BY <2>2, <2>3, <2>4
  <1>2. ASSUME NEW i \in Job, UserActs(i) PROVE HasAsked(j)'
    BY <1>2 DEF UserActs, Submit, KillJob, SetJobStatus, jobdVars, HasAsked, TypeOK, TablesTypeOK
  <1>3. CASE ~JobdRuns /\ \A i \in Job : ~UserActs(i)
    BY <1>3, OthersKeep DEF jobdVars, HasAsked
  <1> QED BY <1>1, <1>2, <1>3

\* select_splayds chooses daemons that are available.
LEMMA ChosenAvailable ==
  ASSUME [Next]_vars, jstep' \in Sending, NEW d \in jset', jstep \in Sending => d \notin jset
  PROVE  splayds[d].status = "AVAILABLE"
  <1>1. CASE JobdRuns
    BY <1>1 DEF JobdRuns, JobdStep, FreesAll, NextPhase, StatusLocal, StatusQueued,
       SelectSplayds, StatusRegistering, SelectSplayd, KeepRegistering, RegisterTimeout,
       StatusRunning, KillMaxTime, ExecuteKill, InsertSelections, InsertSplaydJobs,
       InsertRegisters, CommitRegisters, SetRegistering, FreeOthers, SendAllList,
       CommitList, SetRunning, SendStart, FreeAll, DeleteSelections, SetRegisterTimeout,
       Statement, Turn, LastStatement, Takes, Done, GoesOn, Sending, Chosen, Occupation,
       Candidates
  <1> QED BY <1>1 DEF Next, vars, jobdVars, DaemonCommand, BusyPorts, DaemonConnects,
       DaemonGivesUp, DaemonFails, UnseenReset, UnseenSelect, LinkFails, SocketCollected,
       ThreadRuns, UserActs, ControllerRestarts

\* A daemon becomes available when its thread is past the reset.
LEMMA AvailableFrom ==
  ASSUME TypeOK, Sessions, [Next]_vars, NEW d \in Splayd,
         splayds'[d].status = "AVAILABLE", splayds[d].status # "AVAILABLE"
  PROVE  \E k \in Conn : SplaydOf(k) = d /\ tpc[k] \in {"infos", "log"}
  <1>t. splayds \in [Splayd -> [status : SplaydStatus, session : Nat]]
    BY DEF TypeOK, TablesTypeOK
  <1>1. ASSUME NEW k \in Conn, ThreadRuns(k)
        PROVE  SplaydOf(k) = d /\ tpc[k] \in {"infos", "log"}
    <2>1. CASE Authenticate(k)
      <3>1. ResetSession(SplaydOf(k))
        BY <2>1, NeverSameSession DEF Authenticate, At
      <3> QED BY <1>t, <3>1, SplaydOfType DEF ResetSession
    <2>2. CASE Available(k) \/ AuthFails(k) \/ MainFails(k) \/ ReplyNotOK(k)
      BY <1>t, <2>2, SplaydOfType DEF Available, AuthFails, MainFails, ReplyNotOK, EndMain,
         SetSplaydStatus, At
    <2>3. CASE ~Authenticate(k) /\ ~(Available(k) \/ AuthFails(k) \/ MainFails(k) \/ ReplyNotOK(k))
      BY <1>1, <2>3 DEF ThreadRuns, ThreadStep, ReadRow, AskInfos, ResetJobs, InfosOK, ReadFailed,
         RestoreAction, DeleteRegister, FreeFirst, RegisterAgain, PickAction, SendAction,
         ApplyReply, FinishAction, tables
    <2> QED BY <2>1, <2>2, <2>3
  <1>2. CASE JobdRuns
    BY <1>2 DEF JobdRuns, JobdStep, FreesAll, NextPhase, StatusLocal, StatusQueued,
       SelectSplayds, StatusRegistering, SelectSplayd, KeepRegistering, RegisterTimeout,
       StatusRunning, KillMaxTime, ExecuteKill, InsertSelections, InsertSplaydJobs,
       InsertRegisters, CommitRegisters, SetRegistering, FreeOthers, SendAllList,
       CommitList, SetRunning, SendStart, FreeAll, DeleteSelections, SetRegisterTimeout,
       tables
  <1>3. CASE \E e \in Splayd : UnseenReset(e)
    BY <1>t, <1>3 DEF UnseenReset, ResetSession, ResetJobs
  <1>4. CASE ControllerRestarts
    BY <1>t, <1>4 DEF ControllerRestarts, SplaydInit
  <1> QED BY <1>1, <1>2, <1>3, <1>4 DEF Next, vars, DaemonCommand, BusyPorts, DaemonConnects,
       Connect, DaemonGivesUp, DaemonFails, UnseenSelect, LinkFails, SocketCollected,
       CollectSocket, UserActs, Submit, KillJob, tables

\* A thread takes a step, or stays where it is, or begins, or ends.
LEMMA ThreadsMove ==
  ASSUME TypeOK, [Next]_vars, NEW c \in Conn
  PROVE  \/ ThreadRuns(c)
         \/ tpc'[c] = tpc[c] /\ taction'[c] = taction[c] /\ tfailed'[c] = tfailed[c]
         \/ tpc'[c] \in {"none", "hello", "dead"}
  <1>1. ASSUME NEW k \in Conn, ThreadRuns(k), k # c
        PROVE  tpc'[c] = tpc[c] /\ taction'[c] = taction[c] /\ tfailed'[c] = tfailed[c]
    BY <1>1, ThreadOwn DEF ThreadRuns, Same
  <1>2. ASSUME NEW d \in Splayd, DaemonConnects(d)
        PROVE  \/ tpc'[c] = tpc[c] /\ taction'[c] = taction[c] /\ tfailed'[c] = tfailed[c]
               \/ tpc'[c] = "hello"
    BY <1>2 DEF DaemonConnects, Connect, Goto, TypeOK, ThreadTypeOK
  <1>3. CASE ControllerRestarts
    BY <1>3 DEF ControllerRestarts
  <1> QED BY <1>1, <1>2, <1>3 DEF Next, vars, threadVars, DaemonCommand, BusyPorts,
       DaemonGivesUp, DaemonFails, UnseenReset, UnseenSelect, LinkFails, SocketCollected,
       CollectSocket, UserActs, JobdRuns

\* What a thread holds comes from its daemon's rows.
LEMMA ThreadHolds ==
  ASSUME TypeOK, Sessions, NEW k \in Conn, ThreadStep(k)
  PROVE  /\ tpc'[k] \in Holding =>
              \/ tpc[k] \in Holding /\ taction'[k] = taction[k]
              \/ tpc[k] = "main" /\ PickAction(k)
                 /\ taction'[k] \in actions /\ taction'[k].splayd = SplaydOf(k)
              \/ tpc[k] = "restore" /\ taction'[k] \in tfailed[k]
         /\ tpc'[k] \in Restoring =>
              \/ tpc[k] \in Restoring /\ tfailed'[k] \subseteq tfailed[k]
              \/ tfailed'[k] \subseteq {a \in actions : a.splayd = SplaydOf(k)}
         /\ tpc'[k] \in Admitted =>
              tpc[k] \in Admitted \/ (AskInfos(k) /\ tpc'[k] = "infos")
         /\ tpc'[k] = "reset" => ResetSession(SplaydOf(k))
  <1>1. /\ tpc \in [Conn -> Pc] /\ tfailed \in [Conn -> SUBSET Action]
        /\ taction \in [Conn -> Action \cup {NoAction}]
    BY DEF TypeOK, ThreadTypeOK
  <1>2. CASE ReadRow(k) \/ Authenticate(k) \/ AskInfos(k) \/ InfosOK(k) \/ Available(k)
    BY <1>1, <1>2, NeverSameSession DEF ReadRow, Authenticate, AskInfos, InfosOK, Available,
       At, Goto, Holding, Restoring, Admitted, Serving
  <1>3. CASE ReadFailed(k) \/ RestoreAction(k) \/ RegisterAgain(k)
    <2>1. /\ tpc[k] \in Admitted /\ tpc'[k] \in {"main", "restore"}
          /\ tfailed'[k] \subseteq {a \in actions : a.splayd = SplaydOf(k)}
             \/ (tpc[k] \in Restoring /\ tfailed'[k] \subseteq tfailed[k])
      <3>1. ASSUME NEW rows, GoesOnWith(k, rows)
            PROVE  tfailed'[k] = rows /\ tpc'[k] \in {"main", "restore"}
        BY <1>1, <3>1 DEF GoesOnWith, Goto
      <3>2. CASE ReadFailed(k)
        BY <3>1, <3>2 DEF ReadFailed, ActionsOf, At, Admitted
      <3>3. CASE RestoreAction(k)
        BY <3>1, <3>3 DEF RestoreAction, At, Restoring, Admitted
      <3>4. CASE RegisterAgain(k)
        BY <3>1, <3>4 DEF RegisterAgain, At, Restoring, Admitted
      <3> QED BY <1>3, <3>2, <3>3, <3>4
    <2> QED BY <2>1 DEF Holding
  <1>6. CASE DeleteRegister(k) \/ FreeFirst(k)
    BY <1>1, <1>6 DEF DeleteRegister, FreeFirst, At, Goto, Holding, Restoring, Admitted
  <1>4. CASE AuthFails(k) \/ MainFails(k) \/ ReplyNotOK(k)
    BY <1>1, <1>4 DEF AuthFails, MainFails, ReplyNotOK, EndMain, At, Goto, Holding, Restoring,
       Admitted, Serving
  <1>5. CASE PickAction(k) \/ SendAction(k) \/ ApplyReply(k) \/ FinishAction(k)
    BY <1>1, <1>5 DEF PickAction, SendAction, ApplyReply, FinishAction, FirstWaiting, FirstOf,
       ActionsOf, At, Goto, Holding, Restoring, Admitted, Serving
  <1> QED BY <1>2, <1>3, <1>4, <1>5, <1>6 DEF ThreadStep

\* A daemon attached to the thread of c has a job it did not have only by executing
\* the REGISTER that thread has sent.
Registering(c, j) ==
  /\ tpc[c] = "wait" /\ Registers(taction[c]) /\ taction[c].job = j
  /\ req[c] # <<>> /\ req'[c] = <<>>
  /\ tpc'[c] = "wait" /\ taction'[c] = taction[c]

LEMMA CommandArrives ==
  ASSUME TypeOK, Wire, Sessions, NEW d \in Splayd, NEW busy \in BOOLEAN, NEW k, k = Current(d),
         Execute(d, k, busy), UNCHANGED threadVars, Attached(k), NEW j \in Job,
         djobs'[d][j] # "none"
  PROVE  dloop[d] /\ (djobs[d][j] # "none" \/ Registering(k, j))
  <1>1. /\ k \in Conn /\ SplaydOf(k) = d
        /\ req[k] # <<>> /\ req' = [req EXCEPT ![k] = Tail(@)]
        /\ \/ ReceiveSession(d, k) /\ Head(req[k]).cmd = "AUTH"
           \/ Head(req[k]).cmd # "AUTH"
    BY CommandOwn
  <1>2. /\ Shape(k) /\ Ends(k) /\ ThreadSession(k)
        /\ tpc[k] \in Pc /\ tpc' = tpc /\ taction' = taction
        /\ djobs \in [Splayd -> [Job -> DaemonJobStatus]]
        /\ req \in [Conn -> Seq(Message)]
    BY <1>1 DEF Wire, Sessions, TypeOK, ThreadTypeOK, DaemonTypeOK, threadVars
  <1>3. Head(req[k]).cmd # "AUTH"
    <2> SUFFICES ASSUME Head(req[k]).cmd = "AUTH" PROVE FALSE
      OBVIOUS
    <2>1. PICK s \in Nat : req[k] = Greeting(s)
      BY <1>1, ShapeForm, OneMessage DEF Greets
    <2>2. ~dloop[d]
      BY <1>1, <1>2, <2>1 DEF Ends, Greets
    <2>3. dsession[d] # s
      BY <1>1, <1>2, <2>1, <2>2 DEF ThreadSession
    <2>4. ReceiveSession(d, k) /\ Head(req[k]).session = s
      BY <1>1, <2>1, GreetingParts
    <2>5. djobs' = [djobs EXCEPT ![d] = NoJobs]
      BY <2>3, <2>4 DEF ReceiveSession
    <2> QED BY <1>2, <2>5 DEF NoJobs
  <1>4. ~Greets(k)
    BY <1>3, GreetingParts DEF Greets
  <1>5. dloop[d]
    BY <1>1, <1>2, <1>4 DEF Ends
  <1>6. ASSUME djobs[d][j] = "none" PROVE Registering(k, j)
    <2>1. Register(d, k, busy)
      BY <1>1, <1>2, <1>3, <1>6 DEF Execute, ReceiveSession, ReceiveSettings, Receives, Free,
         List, Start, Breaks
    <2>2. /\ Head(req[k]).cmd = "REGISTER" /\ Head(req[k]).data # "code"
          /\ Head(req[k]).job = j
      BY <1>2, <1>6, <2>1 DEF Register, Receives, Breaks
    <2>3. tpc[k] = "wait" /\ req[k] = <<Order(taction[k])>>
      <3>1. InfosMessage.cmd # "REGISTER" /\ LogMessage.cmd # "REGISTER"
        BY DEF InfosMessage, LogMessage
      <3> QED BY <1>1, <1>2, <1>4, <2>2, <3>1, OneMessage
           DEF Shape, Silent, Pc, Attached, Admitted, Serving
    <2>4. Head(req[k]) = Order(taction[k]) /\ req'[k] = <<>>
      BY <1>1, <1>2, <2>3, OneMessage
    <2>5. taction[k] \in Action
      BY <1>1, <2>3 DEF TypeOK, ThreadTypeOK, Holding
    <2>6. Registers(taction[k]) /\ taction[k].job = j
      BY <2>2, <2>4, <2>5 DEF Order, Registers, Action, ActionData
    <2> QED BY <1>1, <1>2, <2>3, <2>4, <2>6 DEF Registering
  <1> QED BY <1>5, <1>6

LEMMA JobArrives ==
  ASSUME TypeOK, Wire, Sessions, [Next]_vars, NEW c \in Conn, NEW d, d = SplaydOf(c),
         NEW j \in Job, Attached(c)', dloop'[d], djobs'[d][j] # "none"
  PROVE  /\ Attached(c) /\ dloop[d]
         /\ djobs[d][j] # "none" \/ Registering(c, j)
  <1>t. /\ d \in Splayd /\ Shape(c) /\ Ends(c) /\ link'[c] = "up" /\ tpc'[c] \in Admitted
        /\ link \in [Conn -> {"free", "up", "down"}] /\ tpc \in [Conn -> Pc]
        /\ dloop \in [Splayd -> BOOLEAN]
        /\ djobs \in [Splayd -> [Job -> DaemonJobStatus]]
    BY ConnParts DEF Wire, Attached, TypeOK, DaemonTypeOK, ThreadTypeOK
  <1>1. ASSUME NEW k \in Conn, ThreadRuns(k)
        PROVE  Attached(c) /\ dloop[d] /\ djobs[d][j] # "none"
    <2>1. /\ ThreadStep(k) /\ UNCHANGED <<djobs, dloop, link>>
          /\ c # k => tpc'[c] = tpc[c]
      BY <1>1, ThreadOwn DEF ThreadRuns, Same
    <2>2. CASE c = k
      <3>1. tpc[c] # "reset"
        BY <1>t, <2>1 DEF Ends
      <3>2. tpc[c] \in Admitted
        BY <1>t, <2>1, <2>2, <3>1, ThreadHolds DEF AskInfos, At
      <3> QED BY <1>t, <2>1, <3>2 DEF Attached
    <2> QED BY <1>t, <2>1, <2>2 DEF Attached
  <1>2. ASSUME NEW e \in Splayd, DaemonCommand(e) \/ BusyPorts(e)
        PROVE  /\ Attached(c) /\ dloop[d]
               /\ djobs[d][j] # "none" \/ Registering(c, j)
    <2> DEFINE k == Current(e)
    <2>1. PICK busy \in BOOLEAN : Execute(e, k, busy)
      BY <1>2 DEF DaemonCommand, BusyPorts, Execute
    <2>2. UNCHANGED threadVars
      BY <1>2 DEF DaemonCommand, BusyPorts
    <2>3. /\ SplaydOf(k) = e
          /\ \A b \in Conn \ {k} : link'[b] = link[b]
          /\ \A f \in Splayd \ {e} : dloop'[f] = dloop[f] /\ djobs'[f] = djobs[f]
          /\ \/ ReceiveSession(e, k)
             \/ Breaks(e, k) \/ \E r \in Reply \ {"none"} : Answers(e, k, r)
      BY <2>1, CommandOwn
    <2>4. link[c] = "up"
      <3>1. link'[k] = link[k] \/ link'[k] = "down" \/ k \notin Conn
        BY <1>t, <2>3 DEF ReceiveSession, Breaks, Answers
      <3> QED BY <1>t, <2>3, <3>1
    <2>5. Attached(c)
      BY <1>t, <2>2, <2>4 DEF threadVars, Attached
    <2>6. c = Current(d)
      BY <1>t, <2>4 DEF Ends
    <2>7. CASE e = d
      BY <2>1, <2>2, <2>5, <2>6, <2>7, CommandArrives
    <2>8. CASE e # d
      BY <1>t, <2>3, <2>5, <2>8
    <2> QED BY <2>7, <2>8
  <1>3. ASSUME NEW e \in Splayd, DaemonConnects(e)
        PROVE  Attached(c) /\ dloop[d] /\ djobs[d][j] # "none"
    <2>1. PICK n \in 1 .. MaxConn : Connect(e, n)
      BY <1>3 DEF DaemonConnects
    <2>2. /\ UNCHANGED <<djobs, dloop>> /\ tpc' = [tpc EXCEPT ![<<e, n>>] = "hello"]
          /\ link' = [link EXCEPT ![<<e, n>>] = "up"]
      BY <2>1 DEF Connect, Goto
    <2>3. c # <<e, n>>
      BY <1>t, <2>2 DEF Admitted, Serving
    <2> QED BY <1>t, <2>2, <2>3 DEF Attached
  <1>4. ASSUME NEW e \in Splayd, DaemonGivesUp(e) \/ DaemonFails(e)
        PROVE  Attached(c) /\ dloop[d] /\ djobs[d][j] # "none"
    <2>1. /\ tpc' = tpc
          /\ \A b \in Conn : link'[b] \in {link[b], "down"}
          /\ dloop'[d] = dloop[d]
          /\ djobs'[d] \in {djobs[d], NoJobs}
      BY <1>t, <1>4 DEF DaemonGivesUp, HandshakeFails, FullReset, DaemonFails, DaemonRestart,
         threadVars
    <2> QED BY <1>t, <2>1 DEF Attached, NoJobs
  <1>5. CASE UNCHANGED <<djobs, dloop, tpc>> /\ \A b \in Conn : link'[b] \in {link[b], "down"}
    BY <1>t, <1>5 DEF Attached
  <1>6. CASE ControllerRestarts
    BY <1>t, <1>6 DEF ControllerRestarts, Admitted, Serving
  <1>7. \/ UNCHANGED <<djobs, dloop, tpc>> /\ \A b \in Conn : link'[b] \in {link[b], "down"}
        \/ ControllerRestarts \/ \E k \in Conn : ThreadRuns(k)
        \/ \E e \in Splayd : \/ DaemonCommand(e) \/ BusyPorts(e) \/ DaemonConnects(e)
                             \/ DaemonGivesUp(e) \/ DaemonFails(e)
    BY <1>t DEF Next, vars, daemonVars, threadVars, UnseenReset, UnseenSelect, LinkFails,
       SocketCollected, CollectSocket, UserActs, JobdRuns
  <1> QED BY <1>1, <1>2, <1>3, <1>4, <1>5, <1>6, <1>7

\* The scheduler adds commands only for jobs it has sent.
LEMMA NoneAdded ==
  ASSUME TypeOK, Known, Ids, [Next]_vars, NEW d \in Splayd, NEW j \in Job, ~HasAsked(j)',
         ~HasAsked(j), NoActions(d, j),
         \A k \in Conn : SplaydOf(k) = d /\ tpc[k] \in {"free", "register"} => taction[k].job # j
  PROVE  NoActions(d, j)'
  <1> SUFFICES ASSUME NEW b \in actions', b.splayd = d, b.job = j PROVE FALSE
    BY DEF NoActions
  <1>1. Kept(b) \/ Again(b) \/ Decided(b) \/ First(b)
    BY ActionsChange DEF ActionsStep
  <1>2. ~Kept(b)
    BY DEF Kept, SameOrder, NoActions
  <1>3. ~Again(b)
    BY DEF Again
  <1>4. ~Decided(b)
    BY DEF Decided, Known, HasAsked
  <1>5. ~First(b)
    BY DEF First, HasAsked
  <1> QED BY <1>1, <1>2, <1>3, <1>4, <1>5

LEMMA UnheardStays ==
  ASSUME TypeOK, Wire, Sessions, Known, Ids, [Next]_vars, NEW d \in Splayd, NEW j \in Job,
         ~HasAsked(j)', ~HasAsked(j), Unheard(d, j)
  PROVE  Unheard(d, j)'
  <1>1. NoActions(d, j)'
    BY NoneAdded DEF Unheard, Holding
  <1>2. ASSUME NEW k \in Conn, SplaydOf(k) = d
        PROVE  /\ tpc'[k] \in Holding => taction'[k].job # j
               /\ tpc'[k] \in Restoring => \A a \in tfailed'[k] : a.job # j
    <2>1. /\ tpc[k] \in Holding => taction[k].job # j
          /\ tpc[k] \in Restoring => \A a \in tfailed[k] : a.job # j
          /\ \A a \in actions : a.splayd = d => a.job # j
      BY <1>2 DEF Unheard, NoActions
    <2>2. CASE ThreadRuns(k)
      <3>1. ThreadStep(k)
        BY <2>2 DEF ThreadRuns
      <3>2. tpc[k] = "restore" => tpc[k] \in Restoring
        BY DEF Restoring
      <3> QED BY <1>2, <2>1, <3>1, <3>2, ThreadHolds
    <2>3. CASE tpc'[k] \in {"none", "hello", "dead"}
      BY <2>3 DEF Holding, Restoring
    <2> QED BY <2>1, <2>2, <2>3, ThreadsMove
  <1>3. ASSUME NEW k \in Conn, SplaydOf(k) = d, Attached(k)', dloop'[d]
        PROVE  djobs'[d][j] = "none"
    <2> SUFFICES ASSUME djobs'[d][j] # "none" PROVE FALSE
      OBVIOUS
    <2>1. Attached(k) /\ dloop[d] /\ (djobs[d][j] # "none" \/ Registering(k, j))
      BY <1>3, JobArrives
    <2>2. djobs[d][j] = "none" /\ (tpc[k] \in Holding => taction[k].job # j)
      BY <1>3, <2>1 DEF Unheard
    <2> QED BY <2>1, <2>2 DEF Registering, Holding
  <1> QED BY <1>1, <1>2, <1>3 DEF Unheard, SplaydOf

LEMMA IdleStays ==
  ASSUME TypeOK, Wire, Sessions, Known, Ids, [Next]_vars, NEW d \in Splayd, NEW j \in Job,
         ~HasAsked(j)', ~HasAsked(j), Idle(d, j)
  PROVE  Idle(d, j)' \/ Unheard(d, j)'
  <1>i. \A k \in Conn : SplaydOf(k) = d =>
          /\ tpc[k] \notin Admitted
          /\ tpc[k] = "reset" => NoActions(d, j)
    BY DEF Idle
  <1>1. splayds'[d].status # "AVAILABLE"
    BY AvailableFrom DEF Idle, Admitted
  <1>2. jstep' \in Sending => d \notin jset'
    BY ChosenAvailable DEF Idle
  <1>3. NoActions(d, j) => NoActions(d, j)'
    BY <1>i, NoneAdded DEF Admitted
  <1>4. CASE \E k \in Conn : SplaydOf(k) = d /\ AskInfos(k) /\ ThreadRuns(k)
    <2> PICK k \in Conn : SplaydOf(k) = d /\ AskInfos(k) /\ ThreadRuns(k)
      BY <1>4
    <2>1. ThreadStep(k) /\ tpc[k] = "reset" /\ tpc'[k] = "infos"
      BY DEF ThreadRuns, AskInfos, At, Goto, TypeOK, ThreadTypeOK
    <2>2. UNCHANGED <<djobs, dloop, link>> /\ \A c \in Conn \ {k} : tpc'[c] = tpc[c]
      BY <2>1, ThreadOwn DEF Same
    <2>3. NoActions(d, j)'
      BY <1>i, <1>3, <2>1
    <2>4. ASSUME NEW c \in Conn, SplaydOf(c) = d
          PROVE  tpc'[c] \notin Holding \cup Restoring /\ ~(Attached(c)' /\ dloop'[d])
      <3>1. CASE c = k
        <4>1. link[k] = "up" => ~dloop[d]
          BY <2>1, <3>1 DEF Wire, Ends
        <4> QED BY <2>1, <2>2, <3>1, <4>1 DEF Attached, Holding, Restoring
      <3>2. CASE c # k
        <4>1. tpc'[c] \notin Admitted
          BY <1>i, <2>2, <2>4, <3>2
        <4> QED BY <4>1 DEF Attached, Admitted, Serving, Holding, Restoring
      <3> QED BY <3>1, <3>2
    <2>5. Unheard(d, j)'
      BY <2>3, <2>4 DEF Unheard, SplaydOf
    <2> QED BY <2>5
  <1>5. CASE ~\E k \in Conn : SplaydOf(k) = d /\ AskInfos(k) /\ ThreadRuns(k)
    <2>1. ASSUME NEW k \in Conn, SplaydOf(k) = d
          PROVE  /\ tpc'[k] \notin Admitted
                 /\ tpc'[k] = "reset" => NoActions(d, j)'
      <3>1. CASE ThreadRuns(k)
        <4>1. ThreadStep(k) /\ ~AskInfos(k)
          BY <1>5, <2>1, <3>1 DEF ThreadRuns
        <4>2. tpc'[k] \notin Admitted /\ (tpc'[k] = "reset" => ResetSession(d))
          BY <1>i, <2>1, <4>1, ThreadHolds
        <4>3. ResetSession(d) => NoActions(d, j)'
          BY DEF ResetSession, NoActions
        <4> QED BY <4>2, <4>3
      <3>2. CASE tpc'[k] = tpc[k]
        BY <1>i, <1>3, <2>1, <3>2
      <3>3. CASE tpc'[k] \in {"none", "hello", "dead"}
        BY <3>3 DEF Admitted, Serving
      <3> QED BY <3>1, <3>2, <3>3, ThreadsMove
    <2> QED BY <1>1, <1>2, <2>1 DEF Idle, SplaydOf
  <1> QED BY <1>4, <1>5

LEMMA RestartIdle ==
  ASSUME TypeOK, ControllerRestarts, NEW d \in Splayd, NEW j \in Job
  PROVE  Idle(d, j)'
  BY DEF ControllerRestarts, SplaydInit, Idle, Sending, Admitted, Serving, TypeOK, TablesTypeOK

LEMMA FirstAskInductive ==
  TypeOK /\ Wire /\ Sessions /\ Known /\ Ids /\ FirstAsk /\ [Next]_vars => FirstAsk'
  <1> SUFFICES ASSUME TypeOK, Wire, Sessions, Known, Ids, FirstAsk, [Next]_vars,
                      NEW d \in Splayd, NEW j \in Job, ~HasAsked(j)'
               PROVE  Idle(d, j)' \/ Unheard(d, j)'
    BY DEF FirstAsk
  <1>1. CASE ControllerRestarts
    BY <1>1, RestartIdle
  <1>2. CASE ~ControllerRestarts
    <2>1. ~HasAsked(j)
      BY <1>2, AskedStays
    <2> QED BY <2>1, UnheardStays, IdleStays DEF FirstAsk
  <1> QED BY <1>1, <1>2

\* A daemon the job being sent was given to has not heard of it.
LEMMA ChosenUnheard ==
  ASSUME TypeOK, Known, FirstAsk, jstep \in {"selections", "splayd_jobs", "registers"},
         NEW d \in jset
  PROVE  d \in Splayd /\ jjob \in Job /\ Unheard(d, jjob)
  <1>1. d \in Splayd /\ jjob \in Job
    BY DEF TypeOK, JobdTypeOK
  <1>2. ~HasAsked(jjob)
    BY DEF Known, Sending, HasAsked
  <1> QED BY <1>1, <1>2 DEF FirstAsk, Idle, Sending

---------------------------------------------------------------------------
(* The invariants: REGISTER commands *)

RegisterRows(d, j) == {a \in actions : a.splayd = d /\ a.job = j /\ Registers(a)}

\* The thread of k is at a REGISTER of job j.
AtRegister(k, j) == Registers(taction[k]) /\ taction[k].job = j

\* The daemon of k has job j, or was told to register it.
Sent(k, j) ==
  \/ tpc[k] \in {"wait", "applied"} /\ AtRegister(k, j)
  \/ dloop[SplaydOf(k)] /\ djobs[SplaydOf(k)][j] # "none"

\* The daemon of k has still to read a REGISTER of job j, which its thread did not
\* wait for.
Abandoned(k, j) ==
  /\ tpc[k] = "dead" /\ link[k] = "up" /\ req[k] # <<>>
  /\ Registers(Head(req[k])) /\ Head(req[k]).job = j

\* One id for the REGISTER of a job on a daemon; when it was sent on the connection
\* in use it will not be sent again, and it is sent to a daemon without the job.
RegisterOnce ==
  /\ \A d \in Splayd, j \in Job : \A a, b \in RegisterRows(d, j) : a.id = b.id
  /\ \A k \in Conn, j \in Job :
       LET d == SplaydOf(k) IN
       /\ tpc[k] = "picked" /\ AtRegister(k, j) =>
            \A a \in RegisterRows(d, j) : a.id = taction[k].id
       /\ Attached(k) /\ Sent(k, j) => \A a \in RegisterRows(d, j) : a.status \notin Unsent
       /\ /\ Attached(k) /\ AtRegister(k, j)
          /\ tpc[k] = "picked" \/ (tpc[k] = "wait" /\ req[k] # <<>>)
          => djobs[d][j] = "none"
       /\ Abandoned(k, j) => djobs[d][j] = "none"
  /\ NeverRegisteredTwice

---------------------------------------------------------------------------
(* RegisterOnce *)

\* What one step does to a connection.
LEMMA ConnStep ==
  ASSUME TypeOK, [Next]_vars, NEW k \in Conn
  PROVE  /\ link'[k] = "up" => link[k] = "up" \/ tpc'[k] = "hello"
         /\ req'[k] # <<>> => req[k] # <<>> \/ ThreadRuns(k)
         /\ \/ rep'[k] \in {rep[k], "none"}
            \/ /\ UNCHANGED threadVars /\ link[k] = "up"
               /\ k = Current(SplaydOf(k))
               /\ \E busy \in BOOLEAN : Execute(SplaydOf(k), k, busy)
  <1>t. /\ link \in [Conn -> {"free", "up", "down"}] /\ tpc \in [Conn -> Pc]
        /\ req \in [Conn -> Seq(Message)] /\ rep \in [Conn -> Reply]
    BY DEF TypeOK, DaemonTypeOK, ThreadTypeOK
  <1>1. CASE ThreadRuns(k)
    <2>1. ThreadStep(k)
      BY <1>1 DEF ThreadRuns
    <2>2. link' = link
      BY <2>1, ThreadOwn
    <2>3. rep'[k] \in {rep[k], "none"}
      BY <1>t, <2>1 DEF ThreadStep, ReadRow, Authenticate, AskInfos, InfosOK, Available,
         ReadFailed, RestoreAction, DeleteRegister, FreeFirst, RegisterAgain, AuthFails,
         MainFails, PickAction, SendAction, ApplyReply, ReplyNotOK, FinishAction, Read, daemonVars
    <2> QED BY <1>1, <2>2, <2>3
  <1>2. ASSUME NEW c \in Conn, ThreadRuns(c), c # k
        PROVE  link'[k] = link[k] /\ req'[k] = req[k] /\ rep'[k] = rep[k]
    BY <1>2, ThreadOwn DEF ThreadRuns, Same
  <1>3. ASSUME NEW d \in Splayd, DaemonCommand(d) \/ BusyPorts(d)
        PROVE  /\ link'[k] = "up" => link[k] = "up"
               /\ req'[k] # <<>> => req[k] # <<>>
               /\ \/ rep'[k] \in {rep[k], "none"}
                  \/ /\ UNCHANGED threadVars /\ link[k] = "up"
                     /\ k = Current(SplaydOf(k))
                     /\ \E busy \in BOOLEAN : Execute(SplaydOf(k), k, busy)
    <2> DEFINE c == Current(d)
    <2>1. PICK busy \in BOOLEAN : Execute(d, c, busy)
      BY <1>3 DEF DaemonCommand, BusyPorts, Execute
    <2>2. UNCHANGED threadVars
      BY <1>3 DEF DaemonCommand, BusyPorts
    <2>3. /\ SplaydOf(c) = d /\ req[c] # <<>> /\ req' = [req EXCEPT ![c] = Tail(@)]
          /\ \A b \in Conn \ {c} : link'[b] = link[b] /\ rep'[b] = rep[b]
          /\ \/ ReceiveSession(d, c)
             \/ Breaks(d, c) \/ \E r \in Reply \ {"none"} : Answers(d, c, r)
      BY <2>1, CommandOwn
    <2> HIDE DEF c
    <2>4. CASE k = c
      <3>1. link'[k] = "up" => link[k] = "up"
        BY <1>t, <2>3, <2>4 DEF ReceiveSession, Breaks, Answers
      <3>2. rep'[k] = rep[k] \/ link[k] = "up"
        BY <1>t, <2>3, <2>4 DEF ReceiveSession, Breaks, Answers
      <3> QED BY <2>1, <2>2, <2>3, <2>4, <3>1, <3>2 DEF c
    <2>5. CASE k # c
      BY <1>t, <2>3, <2>5
    <2> QED BY <2>4, <2>5
  <1>4. ASSUME NEW d \in Splayd, DaemonConnects(d)
        PROVE  /\ link'[k] = "up" => link[k] = "up" \/ tpc'[k] = "hello"
               /\ UNCHANGED <<req, rep>>
    BY <1>t, <1>4 DEF DaemonConnects, Connect, Goto
  <1>5. ASSUME NEW d \in Splayd, DaemonGivesUp(d) \/ DaemonFails(d)
        PROVE  /\ link'[k] = "up" => link[k] = "up"
               /\ UNCHANGED <<req, rep>>
    BY <1>t, <1>5 DEF DaemonGivesUp, HandshakeFails, FullReset, DaemonFails, DaemonRestart
  <1>6. CASE \/ JobdRuns \/ UnseenSelect \/ UNCHANGED vars \/ ControllerRestarts
             \/ \E d \in Splayd : UnseenReset(d)
             \/ \E j \in Job : UserActs(j)
             \/ \E c \in Conn : LinkFails(c) \/ SocketCollected(c)
    BY <1>t, <1>6 DEF JobdRuns, UnseenSelect, UnseenReset, UserActs, LinkFails, SocketCollected,
       CollectSocket, ControllerRestarts, vars, daemonVars
  <1> QED BY <1>1, <1>2, <1>3, <1>4, <1>5, <1>6 DEF Next

\* Where a thread of main comes from.
LEMMA ThreadComes ==
  ASSUME TypeOK, NEW k \in Conn, ThreadStep(k)
  PROVE  /\ tpc'[k] = "picked" => PickAction(k)
         /\ tpc'[k] = "wait" => SendAction(k)
         /\ tpc'[k] = "applied" => ApplyReply(k)
         /\ tpc'[k] \in {"infos", "hello"} => AskInfos(k)
  <1>1. tpc \in [Conn -> Pc]
    BY DEF TypeOK, ThreadTypeOK
  <1>2. ASSUME NEW rows, GoesOnWith(k, rows) PROVE tpc'[k] \in {"main", "restore"}
    BY <1>1, <1>2 DEF GoesOnWith, Goto
  <1>3. CASE ReadFailed(k) \/ RestoreAction(k) \/ RegisterAgain(k)
    BY <1>2, <1>3 DEF ReadFailed, RestoreAction, RegisterAgain
  <1>4. CASE DeleteRegister(k) \/ FreeFirst(k) \/ ReadRow(k) \/ Authenticate(k) \/ AskInfos(k)
             \/ InfosOK(k) \/ Available(k)
    BY <1>1, <1>4 DEF DeleteRegister, FreeFirst, ReadRow, Authenticate, AskInfos, InfosOK,
       Available, Goto
  <1>5. CASE AuthFails(k) \/ MainFails(k) \/ ReplyNotOK(k)
             \/ PickAction(k) \/ SendAction(k) \/ ApplyReply(k) \/ FinishAction(k)
    BY <1>1, <1>5 DEF AuthFails, MainFails, ReplyNotOK, EndMain, PickAction, SendAction,
       ApplyReply, FinishAction, Goto
  <1> QED BY <1>3, <1>4, <1>5 DEF ThreadStep

\* A connection in service was in service, unless its thread has just reset the
\* tables, before the daemon has the session.
LEMMA AttachedFrom ==
  ASSUME TypeOK, Wire, Sessions, [Next]_vars, NEW k \in Conn, Attached(k)'
  PROVE  \/ Attached(k)
         \/ /\ tpc[k] = "reset" /\ tpc'[k] = "infos" /\ ThreadRuns(k) /\ AskInfos(k)
            /\ ~dloop[SplaydOf(k)]
  <1>1. link'[k] = "up" /\ tpc'[k] \in Admitted
    BY DEF Attached
  <1>2. link[k] = "up"
    BY <1>1, ConnStep DEF Admitted, Serving
  <1>3. CASE ThreadRuns(k)
    <2>1. ThreadStep(k)
      BY <1>3 DEF ThreadRuns
    <2>2. tpc[k] \in Admitted \/ (AskInfos(k) /\ tpc'[k] = "infos")
      BY <1>1, <2>1, ThreadHolds
    <2> QED BY <1>2, <1>3, <2>2 DEF Attached, AskInfos, At, Wire, Ends
  <1>4. CASE tpc'[k] = tpc[k]
    BY <1>1, <1>2, <1>4 DEF Attached
  <1> QED BY <1>1, <1>3, <1>4, ThreadsMove DEF Admitted, Serving

\* A REGISTER row was there, or is the first one of a job nobody has heard of.
LEMMA RegisterRowsStep ==
  ASSUME TypeOK, Known, Ids, FirstAsk, [Next]_vars, NEW d \in Splayd, NEW j \in Job
  PROVE  \/ \A b \in RegisterRows(d, j)' : \E a \in RegisterRows(d, j) :
              a.id = b.id /\ (b.status \in Unsent => a.status \in Unsent)
         \/ /\ \A b \in RegisterRows(d, j)' : b.id = nextAction[d]
            /\ Unheard(d, j)
            /\ UNCHANGED <<threadVars, daemonVars>>
  <1>1. \A b \in RegisterRows(d, j)' : Kept(b) \/ First(b)
    BY ActionsChange DEF ActionsStep, RegisterRows, Again, Decided, Registers
  <1>2. CASE \E b \in RegisterRows(d, j)' : First(b)
    <2>1. PICK b \in RegisterRows(d, j)' : First(b)
      BY <1>2
    <2>2. b.splayd = d /\ b.job = j
      BY DEF RegisterRows
    <2>3. d \in jset /\ jjob = j /\ jstep = "registers" /\ jstep' = "commit"
      BY <2>1, <2>2 DEF First
    <2>4. Unheard(d, j)
      BY <2>3, ChosenUnheard
    <2>5. \A e \in RegisterRows(d, j)' : ~Kept(e)
      BY <2>4 DEF Unheard, NoActions, Kept, SameOrder, RegisterRows
    <2>6. \A e \in RegisterRows(d, j)' : e.id = nextAction[d]
      BY <1>1, <2>5 DEF First, RegisterRows
    <2>7. JobdRuns
      BY <2>3 DEF Next, vars, jobdVars, DaemonCommand, BusyPorts, DaemonConnects, DaemonGivesUp,
         DaemonFails, UnseenReset, UnseenSelect, LinkFails, SocketCollected, ThreadRuns, UserActs,
         ControllerRestarts
    <2> QED BY <2>4, <2>6, <2>7 DEF JobdRuns
  <1>3. CASE \A b \in RegisterRows(d, j)' : Kept(b)
    BY <1>3 DEF Kept, SameOrder, RegisterRows, Registers
  <1> QED BY <1>1, <1>2, <1>3

\* The parts of RegisterOnce for one connection and one job.
PickedOne(k, j) ==
  tpc[k] = "picked" /\ AtRegister(k, j) =>
     \A a \in RegisterRows(SplaydOf(k), j) : a.id = taction[k].id

SentOnce(k, j) ==
  Attached(k) /\ Sent(k, j) => \A a \in RegisterRows(SplaydOf(k), j) : a.status \notin Unsent

SentToNew(k, j) ==
  /\ Attached(k) /\ AtRegister(k, j)
  /\ tpc[k] = "picked" \/ (tpc[k] = "wait" /\ req[k] # <<>>)
  => djobs[SplaydOf(k)][j] = "none"

LateToNew(k, j) == Abandoned(k, j) => djobs[SplaydOf(k)][j] = "none"

LEMMA OnceParts ==
  RegisterOnce <=>
     /\ \A d \in Splayd, j \in Job : \A a, b \in RegisterRows(d, j) : a.id = b.id
     /\ \A k \in Conn, j \in Job :
          PickedOne(k, j) /\ SentOnce(k, j) /\ SentToNew(k, j) /\ LateToNew(k, j)
     /\ NeverRegisteredTwice
  BY DEF RegisterOnce, PickedOne, SentOnce, SentToNew, LateToNew

LEMMA PickedOneStays ==
  ASSUME TypeOK, Known, Ids, FirstAsk, RegisterOnce, [Next]_vars, NEW k \in Conn, NEW j \in Job
  PROVE  PickedOne(k, j)'
  <1> DEFINE d == SplaydOf(k)
  <1> SUFFICES ASSUME tpc'[k] = "picked", Registers(taction'[k]), taction'[k].job = j,
                      NEW b \in RegisterRows(d, j)'
               PROVE  b.id = taction'[k].id
    BY DEF PickedOne, AtRegister, Registers, SplaydOf
  <1>1. d \in Splayd
    BY SplaydOfType
  <1>2. CASE ThreadRuns(k)
    <2>1. PickAction(k)
      BY <1>2, ThreadComes DEF ThreadRuns
    <2>2. actions' = actions /\ taction'[k] \in RegisterRows(d, j)
      BY <2>1 DEF PickAction, FirstWaiting, FirstOf, ActionsOf, RegisterRows, tables, TypeOK,
         ThreadTypeOK
    <2>3. b \in RegisterRows(d, j)
      BY <2>2 DEF RegisterRows, Registers
    <2> QED BY <1>1, <2>2, <2>3, OnceParts
  <1>3. CASE tpc'[k] = tpc[k] /\ taction'[k] = taction[k]
    <2>1. \A a \in RegisterRows(d, j) : a.id = taction[k].id
      BY <1>3, OnceParts DEF PickedOne, AtRegister
    <2>2. ~Unheard(d, j)
      BY <1>3 DEF Unheard, Holding
    <2> QED BY <1>1, <1>3, <2>1, <2>2, RegisterRowsStep
  <1> QED BY <1>2, <1>3, ThreadsMove

LEMMA SentOnceStays ==
  ASSUME TypeOK, Wire, Sessions, Known, Ids, FirstAsk, RegisterOnce, [Next]_vars,
         NEW k \in Conn, NEW j \in Job
  PROVE  SentOnce(k, j)'
  <1> DEFINE d == SplaydOf(k)
  <1> SUFFICES ASSUME Attached(k)', Sent(k, j)', NEW b \in RegisterRows(d, j)'
               PROVE  b.status \notin Unsent
    BY DEF SentOnce, SplaydOf
  <1>1. d \in Splayd
    BY SplaydOfType
  <1>2. CASE Attached(k) /\ Sent(k, j)
    <2>1. \A a \in RegisterRows(d, j) : a.status \notin Unsent
      BY <1>2, OnceParts DEF SentOnce
    <2>2. ~Unheard(d, j)
      BY <1>2 DEF Unheard, Sent, AtRegister, Holding
    <2> QED BY <1>1, <2>1, <2>2, RegisterRowsStep
  <1>3. CASE dloop'[d] /\ djobs'[d][j] # "none"
    <2>1. Attached(k) /\ dloop[d] /\ (djobs[d][j] # "none" \/ Registering(k, j))
      BY <1>3, JobArrives
    <2>2. Sent(k, j)
      BY <2>1 DEF Sent, Registering, AtRegister
    <2> QED BY <1>2, <2>1, <2>2
  <1>4. CASE tpc'[k] \in {"wait", "applied"} /\ AtRegister(k, j)'
    <2>1. Attached(k)
      BY <1>4, AttachedFrom
    <2>2. CASE ThreadRuns(k)
      <3>1. CASE SendAction(k)
        <4>1. tpc[k] = "picked" /\ AtRegister(k, j)
          BY <1>4, <3>1 DEF SendAction, At, AtRegister, Registers
        <4>2. actions' = MarkSending(d, taction[k].id)
          BY <3>1 DEF SendAction
        <4>3. PICK a \in actions :
                b = IF a.splayd = d /\ a.id = taction[k].id
                    THEN [a EXCEPT !.status = "SENDING"] ELSE a
          BY <4>2 DEF MarkSending, SetActionStatus, RegisterRows
        <4>4. a \in Action
          BY DEF TypeOK, TablesTypeOK
        <4>5. a \in RegisterRows(d, j)
          BY <4>3, <4>4 DEF RegisterRows, Registers, Action
        <4>6. a.id = taction[k].id
          BY <4>1, <4>5, OnceParts DEF PickedOne
        <4>7. b.status = "SENDING"
          BY <4>3, <4>4, <4>5, <4>6 DEF RegisterRows, Action
        <4> QED BY <4>7 DEF Unsent
      <3>2. CASE ApplyReply(k)
        <4>1. Sent(k, j)
          BY <1>4, <3>2 DEF ApplyReply, At, Sent, AtRegister, Registers
        <4> QED BY <1>2, <2>1, <4>1
      <3> QED BY <1>4, <2>2, <3>1, <3>2, ThreadComes DEF ThreadRuns
    <2>3. CASE tpc'[k] = tpc[k] /\ taction'[k] = taction[k]
      <3>1. Sent(k, j)
        BY <1>4, <2>3 DEF Sent, AtRegister, Registers
      <3> QED BY <1>2, <2>1, <3>1
    <2> QED BY <1>4, <2>2, <2>3, ThreadsMove
  <1> QED BY <1>3, <1>4 DEF Sent, SplaydOf

LEMMA SentToNewStays ==
  ASSUME TypeOK, Wire, Wire', Sessions, Known, Ids, FirstAsk, RegisterOnce, [Next]_vars,
         NEW k \in Conn, NEW j \in Job
  PROVE  SentToNew(k, j)'
  <1> DEFINE d == SplaydOf(k)
  <1> SUFFICES ASSUME Attached(k)', AtRegister(k, j)', djobs'[d][j] # "none",
                      tpc'[k] = "picked" \/ (tpc'[k] = "wait" /\ req'[k] # <<>>)
               PROVE  FALSE
    BY DEF SentToNew, SplaydOf
  <1>1. dloop'[d]
    <2>1. Shape(k)' /\ Ends(k)'
      BY DEF Wire
    <2>2. ~Greets(k)'
      <3>1. (\E m : req'[k] = <<m>>) \/ req'[k] = <<>>
        BY <2>1 DEF Shape, Silent
      <3> QED BY <3>1, GreetingParts DEF Greets
    <2> QED BY <2>1, <2>2 DEF Ends, SplaydOf
  <1>2. Attached(k) /\ dloop[d] /\ djobs[d][j] # "none"
    <2>1. ~Registering(k, j)
      BY DEF Registering
    <2> QED BY <1>1, <2>1, JobArrives
  <1>3. \A a \in RegisterRows(d, j) : a.status \notin Unsent
    BY <1>2, OnceParts DEF SentOnce, Sent
  <1>4. CASE ThreadRuns(k)
    <2>1. CASE PickAction(k)
      <3>1. taction'[k] \in RegisterRows(d, j) /\ taction'[k].status = "WAITING"
        BY <2>1 DEF PickAction, FirstWaiting, FirstOf, ActionsOf, RegisterRows, TypeOK,
           ThreadTypeOK, AtRegister, Registers
      <3> QED BY <1>3, <3>1 DEF Unsent
    <2>2. CASE SendAction(k)
      <3>1. tpc[k] = "picked" /\ AtRegister(k, j)
        BY <2>2 DEF SendAction, At, AtRegister, Registers
      <3> QED BY <1>2, <3>1, OnceParts DEF SentToNew
    <2> QED BY <1>4, <2>1, <2>2, ThreadComes DEF ThreadRuns
  <1>5. CASE ~ThreadRuns(k) /\ tpc'[k] = tpc[k] /\ taction'[k] = taction[k]
    <2>1. req'[k] # <<>> => req[k] # <<>>
      BY <1>5, ConnStep
    <2>2. AtRegister(k, j)
      BY <1>5 DEF AtRegister, Registers
    <2> QED BY <1>2, <1>5, <2>1, <2>2, OnceParts DEF SentToNew
  <1> QED BY <1>4, <1>5, ThreadsMove

\* How a thread ends.
LEMMA ThreadEnds ==
  ASSUME TypeOK, [Next]_vars, NEW k \in Conn, tpc[k] # "dead", tpc'[k] = "dead",
         ~ControllerRestarts
  PROVE  ThreadRuns(k) /\ (AuthFails(k) \/ MainFails(k) \/ ReplyNotOK(k))
  <1>t. tpc \in [Conn -> Pc]
    BY DEF TypeOK, ThreadTypeOK
  <1>1. ASSUME NEW c \in Conn, ThreadRuns(c), c # k
        PROVE  FALSE
    BY <1>1, ThreadOwn DEF ThreadRuns, Same
  <1>2. ASSUME NEW d \in Splayd, DaemonConnects(d)
        PROVE  FALSE
    BY <1>t, <1>2 DEF DaemonConnects, Connect, Goto
  <1>3. ThreadRuns(k)
    BY <1>1, <1>2 DEF Next, vars, threadVars, DaemonCommand, BusyPorts, DaemonGivesUp,
       DaemonFails, UnseenReset, UnseenSelect, LinkFails, SocketCollected, CollectSocket,
       UserActs, JobdRuns
  <1>4. ASSUME NEW rows, GoesOnWith(k, rows) PROVE tpc'[k] \in {"main", "restore"}
    BY <1>t, <1>4 DEF GoesOnWith, Goto
  <1>5. ~ReadFailed(k) /\ ~RestoreAction(k) /\ ~RegisterAgain(k)
    BY <1>4 DEF ReadFailed, RestoreAction, RegisterAgain
  <1>6. /\ ~DeleteRegister(k) /\ ~FreeFirst(k) /\ ~ReadRow(k) /\ ~Authenticate(k)
        /\ ~AskInfos(k) /\ ~InfosOK(k) /\ ~Available(k)
    BY <1>t DEF DeleteRegister, FreeFirst, ReadRow, Authenticate, AskInfos, InfosOK, Available,
       Goto
  <1>7. ~PickAction(k) /\ ~SendAction(k) /\ ~ApplyReply(k) /\ ~FinishAction(k)
    BY <1>t DEF PickAction, SendAction, ApplyReply, FinishAction, Goto
  <1> QED BY <1>3, <1>5, <1>6, <1>7 DEF ThreadRuns, ThreadStep

\* What the others do to the connection of a thread that has gone.
LEMMA DeadConnStep ==
  ASSUME TypeOK, Wire, [Next]_vars, NEW k \in Conn,
         tpc[k] = "dead", tpc'[k] = "dead", link'[k] = "up"
  PROVE  /\ link[k] = "up"
         /\ \/ req'[k] = req[k] /\ djobs'[SplaydOf(k)] \in {djobs[SplaydOf(k)], NoJobs}
            \/ req[k] # <<>> /\ req'[k] = Tail(req[k])
  <1> DEFINE d == SplaydOf(k)
  <1>1. link[k] = "up" /\ k = Current(d) /\ d \in Splayd
    BY ConnStep, ConnParts DEF Wire, Ends
  <1>t. /\ req \in [Conn -> Seq(Message)]
        /\ djobs \in [Splayd -> [Job -> DaemonJobStatus]]
    BY DEF TypeOK, DaemonTypeOK
  <1>2. ASSUME NEW c \in Conn, ThreadRuns(c)
        PROVE  req'[k] = req[k] /\ djobs' = djobs
    <2>1. ThreadStep(c)
      BY <1>2 DEF ThreadRuns
    <2>2. c # k
      BY <2>1 DEF ThreadStep, ReadRow, Authenticate, AskInfos, InfosOK, Available, ReadFailed,
         RestoreAction, DeleteRegister, FreeFirst, RegisterAgain, AuthFails, MainFails,
         PickAction, SendAction, ApplyReply, ReplyNotOK, FinishAction, At
    <2> QED BY <2>1, <2>2, ThreadOwn DEF Same
  <1>3. ASSUME NEW e \in Splayd, DaemonCommand(e) \/ BusyPorts(e)
        PROVE  \/ req'[k] = req[k] /\ djobs'[d] = djobs[d]
               \/ req[k] # <<>> /\ req'[k] = Tail(req[k])
    <2> DEFINE c == Current(e)
    <2>1. PICK busy \in BOOLEAN : Execute(e, c, busy)
      BY <1>3 DEF DaemonCommand, BusyPorts, Execute
    <2>2. /\ SplaydOf(c) = e /\ req[c] # <<>> /\ req' = [req EXCEPT ![c] = Tail(@)]
          /\ \A f \in Splayd \ {e} : djobs'[f] = djobs[f]
      BY <2>1, CommandOwn
    <2>3. CASE e = d
      BY <1>1, <1>t, <2>2, <2>3
    <2>4. CASE e # d
      BY <1>1, <1>t, <2>2, <2>4
    <2> QED BY <2>3, <2>4
  <1>4. ASSUME NEW e \in Splayd, DaemonConnects(e) \/ DaemonGivesUp(e) \/ DaemonFails(e)
        PROVE  req' = req /\ djobs'[d] \in {djobs[d], NoJobs}
    BY <1>1, <1>t, <1>4 DEF DaemonConnects, Connect, DaemonGivesUp, HandshakeFails, FullReset,
       DaemonFails, DaemonRestart
  <1> QED BY <1>1, <1>2, <1>3, <1>4 DEF Next, vars, daemonVars, UnseenReset, UnseenSelect, LinkFails,
       SocketCollected, CollectSocket, JobdRuns, UserActs, ControllerRestarts

LEMMA LateToNewStays ==
  ASSUME TypeOK, Wire, Wire', Sessions, Known, Ids, FirstAsk, RegisterOnce, [Next]_vars,
         NEW k \in Conn, NEW j \in Job
  PROVE  LateToNew(k, j)'
  <1> DEFINE d == SplaydOf(k)
  <1> SUFFICES ASSUME Abandoned(k, j)' PROVE djobs'[d][j] = "none"
    BY DEF LateToNew, SplaydOf
  <1>1. tpc'[k] = "dead" /\ link'[k] = "up" /\ req'[k] # <<>> /\ Registers(Head(req'[k]))
        /\ Head(req'[k]).job = j
    BY DEF Abandoned, Registers
  <1>2. CASE tpc[k] = "dead"
    <2>1. /\ link[k] = "up"
          /\ \/ req'[k] = req[k] /\ djobs'[d] \in {djobs[d], NoJobs}
             \/ req[k] # <<>> /\ req'[k] = Tail(req[k])
      BY <1>1, <1>2, DeadConnStep
    <2>2. CASE req'[k] = req[k] /\ djobs'[d] \in {djobs[d], NoJobs}
      <3>1. djobs[d][j] = "none"
        BY <1>1, <1>2, <2>1, <2>2, OnceParts DEF LateToNew, Abandoned
      <3> QED BY <2>2, <3>1 DEF NoJobs
    <2>3. CASE req[k] # <<>> /\ req'[k] = Tail(req[k])
      <3>1. req'[k] = <<>> \/ req'[k] = <<InfosMessage>>
        BY <2>3, ShapeForm, GreetingParts, OneMessage DEF Greets
      <3>2. ~Registers(InfosMessage)
        BY DEF InfosMessage, Registers
      <3> QED BY <1>1, <3>1, <3>2, OneMessage
    <2> QED BY <2>1, <2>2, <2>3
  <1>3. CASE tpc[k] # "dead"
    <2>2. ~ControllerRestarts
      BY <1>1 DEF ControllerRestarts, TypeOK, DaemonTypeOK
    <2>3. ThreadStep(k)
      BY <1>1, <1>3, <2>2, ThreadEnds DEF ThreadRuns
    <2>4. UNCHANGED <<djobs, link>>
      BY <2>3, ThreadOwn
    <2>5. AuthFails(k) \/ MainFails(k) \/ ReplyNotOK(k)
      BY <1>1, <1>3, <2>2, ThreadEnds
    <2>6. /\ tpc[k] \in {"infos", "log", "main", "wait"} /\ req'[k] = req[k]
      BY <2>5 DEF AuthFails, MainFails, ReplyNotOK, At, daemonVars
    <2>7. Shape(k)
      BY DEF Wire
    <2>8. ~Registers(InfosMessage) /\ ~Registers(LogMessage)
      BY DEF InfosMessage, LogMessage, Registers
    <2>9. ~Greets(k)
      <3>1. ASSUME NEW s \in Nat, req[k] = Greeting(s) PROVE FALSE
        BY <1>1, <2>6, <3>1, GreetingParts DEF Registers
      <3> QED BY <3>1 DEF Greets
    <2>10. tpc[k] = "wait" /\ req[k] = <<Order(taction[k])>>
      BY <1>1, <2>6, <2>7, <2>8, <2>9, OneMessage DEF Shape, Silent
    <2>11. AtRegister(k, j) /\ Attached(k)
      BY <1>1, <2>4, <2>6, <2>10, OneMessage DEF AtRegister, Registers, Order, Attached, Admitted,
         Serving
    <2>12. djobs[d][j] = "none"
      BY <1>1, <2>6, <2>10, <2>11, OnceParts DEF SentToNew
    <2> QED BY <2>4, <2>12
  <1> QED BY <1>2, <1>3

LEMMA NeverTwiceStays ==
  ASSUME TypeOK, Wire, Sessions, RegisterOnce, [Next]_vars, NEW k \in Conn
  PROVE  rep'[k] # "EXISTING_REF"
  <1> DEFINE d == SplaydOf(k)
  <1> SUFFICES ASSUME rep'[k] = "EXISTING_REF" PROVE FALSE
    OBVIOUS
  <1>1. rep[k] # "EXISTING_REF"
    BY DEF RegisterOnce, NeverRegisteredTwice
  <1>2. PICK busy \in BOOLEAN : Execute(d, k, busy)
    BY <1>1, ConnStep
  <1>3. UNCHANGED threadVars /\ link[k] = "up" /\ k = Current(d) /\ d \in Splayd
    BY <1>1, ConnStep, SplaydOfType
  <1>4. /\ req \in [Conn -> Seq(Message)] /\ rep \in [Conn -> Reply]
        /\ Shape(k) /\ tpc[k] \in Pc
    BY DEF Wire, TypeOK, DaemonTypeOK, ThreadTypeOK
  <1>5. \A r : Answers(d, k, r) => rep'[k] = r
    BY <1>3, <1>4 DEF Answers
  <1>6. Register(d, k, busy) /\ ~Breaks(d, k)
    <2>1. ~Breaks(d, k) /\ ~ReceiveSession(d, k)
      BY <1>1, <1>4 DEF Breaks, ReceiveSession
    <2>2. ~ReceiveSettings(d, k) /\ ~Free(d, k) /\ ~List(d, k)
      BY <1>5 DEF ReceiveSettings, Free, List
    <2>3. ~Start(d, k)
      BY <1>5, <2>1 DEF Start
    <2> QED BY <1>2, <2>1, <2>2, <2>3 DEF Execute
  <1> DEFINE m == Head(req[k])
  <1>7. /\ m.cmd = "REGISTER" /\ m.data # "code" /\ req[k] # <<>>
        /\ RegisterReply(d, m.job, busy) = "EXISTING_REF"
    BY <1>5, <1>6 DEF Register, Receives
  <1>13. tpc[k] # "dead"
    <2> SUFFICES ASSUME tpc[k] = "dead" PROVE FALSE
      OBVIOUS
    <2>1. m \in Message
      BY <1>4, <1>7
    <2>2. m.job \in Job /\ Registers(m)
      BY <1>7, <2>1 DEF Message, ActionData, Registers
    <2>3. djobs[d][m.job] = "none"
      BY <1>3, <1>7, <2>2, OnceParts DEF LateToNew, Abandoned
    <2> QED BY <1>7, <2>3 DEF RegisterReply
  <1>8. tpc[k] = "wait" /\ m = Order(taction[k])
    <2>1. ~Greets(k) /\ tpc[k] # "dead"
      BY <1>3, <1>4, <1>7, <1>13, GreetingParts DEF Greets, Shape
    <2>2. InfosMessage.cmd # "REGISTER" /\ LogMessage.cmd # "REGISTER"
      BY DEF InfosMessage, LogMessage
    <2> QED BY <1>4, <1>7, <2>1, <2>2, OneMessage DEF Shape, Silent, Pc
  <1>9. taction[k] \in Action
    BY <1>8 DEF TypeOK, ThreadTypeOK, Holding
  <1>10. m.job \in Job /\ AtRegister(k, m.job) /\ Attached(k)
    BY <1>3, <1>7, <1>8, <1>9
       DEF Order, AtRegister, Registers, Action, ActionData, Attached, Admitted, Serving
  <1>11. djobs[d][m.job] = "none"
    BY <1>7, <1>8, <1>10, OnceParts DEF SentToNew
  <1> QED BY <1>7, <1>11 DEF RegisterReply

LEMMA RegisterOnceInductive ==
  /\ TypeOK /\ Wire /\ Sessions /\ Known /\ Ids /\ FirstAsk /\ RegisterOnce
  /\ [Next]_vars
  => RegisterOnce'
  <1> SUFFICES ASSUME TypeOK, Wire, Sessions, Known, Ids, FirstAsk, RegisterOnce, [Next]_vars
               PROVE  RegisterOnce'
    OBVIOUS
  <1>1. Wire'
    BY WireInductive
  <1>2. ASSUME NEW d \in Splayd, NEW j \in Job,
               NEW a \in RegisterRows(d, j)', NEW b \in RegisterRows(d, j)'
        PROVE  a.id = b.id
    BY RegisterRowsStep, OnceParts
  <1>3. \A k \in Conn, j \in Job :
          PickedOne(k, j)' /\ SentOnce(k, j)' /\ SentToNew(k, j)' /\ LateToNew(k, j)'
    BY <1>1, PickedOneStays, SentOnceStays, SentToNewStays, LateToNewStays
  <1>4. NeverRegisteredTwice'
    BY NeverTwiceStays DEF NeverRegisteredTwice
  <1> QED BY <1>2, <1>3, <1>4 DEF RegisterOnce, PickedOne, SentOnce, SentToNew, LateToNew

---------------------------------------------------------------------------
(* The invariants: rows of splayd_jobs *)

\* The thread of k has a reply to a command that leaves the job on the daemon.
HasReply(k) ==
  tpc[k] = "wait" /\ rep[k] # "none" /\ taction[k].cmd \in {"REGISTER", "START"}

\* The thread of k waits for the reply to FREE of job j.
Freeing(k, j) == tpc[k] = "wait" /\ taction[k].cmd = "FREE" /\ taction[k].job = j

\* An accepted reply says that the daemon has the job.
ReplyMeansJob(k) ==
  HasReply(k) /\ Accepted(taction[k].cmd, rep[k]) => djobs[SplaydOf(k)][taction[k].job] # "none"

\* A reply on an abandoned connection is for a job without a row.
LateReply(k) ==
  \A e \in Conn \ {k} :
     SplaydOf(e) = SplaydOf(k) /\ HasReply(e) => SplaydJobsOf(SplaydOf(k), taction[e].job) = {}

\* A row says that the daemon has the job.
Shown(k) ==
  LET d == SplaydOf(k) IN
  \A r \in splayd_jobs : r.splayd = d /\ r.status # "RESERVED" =>
     dloop[d] /\ (djobs[d][r.job] # "none" \/ Freeing(k, r.job))

Rows == \A k \in Conn : Attached(k) => ReplyMeansJob(k) /\ LateReply(k) /\ Shown(k)

---------------------------------------------------------------------------
(* Rows *)

\* A thread that has a reply, or has none any more.
LEMMA ThreadWaits ==
  ASSUME TypeOK, NEW k \in Conn, ThreadStep(k), tpc[k] = "wait"
  PROVE  MainFails(k) \/ ApplyReply(k) \/ ReplyNotOK(k)
  BY DEF ThreadStep, ReadRow, Authenticate, AskInfos, InfosOK, Available, ReadFailed,
     RestoreAction, DeleteRegister, FreeFirst, RegisterAgain, AuthFails, PickAction, SendAction,
     FinishAction, At

\* A row of splayd_jobs after a step: it was there, it is new and RESERVED, or a reply
\* has changed it.
SameJob(r, s) == r.splayd = s.splayd /\ r.job = s.job

OldRow(s) ==
  \E r \in splayd_jobs : SameJob(r, s) /\ (s.status # "RESERVED" => r.status # "RESERVED")

NewRow(s) ==
  /\ s.status = "RESERVED" /\ s.job = jjob /\ jstep = "splayd_jobs" /\ s.splayd \in jset
  /\ UNCHANGED <<threadVars, daemonVars>>

AnsweredRow(s) ==
  /\ \E r \in splayd_jobs : SameJob(r, s)
  /\ \E e \in Conn :
       /\ ApplyReply(e) /\ HasReply(e) /\ Accepted(taction[e].cmd, rep[e])
       /\ SplaydOf(e) = s.splayd /\ taction[e].job = s.job

LEMMA SetRowsKeeps ==
  ASSUME TypeOK, NEW rows, NEW st, splayd_jobs' = SetSplaydJobStatus(rows, st)
  PROVE  \A s \in splayd_jobs' : \E r \in splayd_jobs : SameJob(r, s) /\ (s = r \/ r \in rows)
  <1>1. splayd_jobs \in SUBSET SplaydJob
    BY DEF TypeOK, TablesTypeOK
  <1>2. ASSUME NEW s \in splayd_jobs'
        PROVE  \E r \in splayd_jobs : SameJob(r, s) /\ (s = r \/ r \in rows)
    <2>1. PICK r \in splayd_jobs : s = IF r \in rows THEN [r EXCEPT !.status = st] ELSE r
      BY <1>2 DEF SetSplaydJobStatus
    <2> QED BY <1>1, <2>1 DEF SplaydJob, SameJob
  <1> QED BY <1>2

LEMMA ReplyRows ==
  ASSUME TypeOK, NEW k \in Conn, ApplyReply(k)
  PROVE  /\ \A s \in splayd_jobs' : OldRow(s) \/ AnsweredRow(s)
         /\ taction[k].cmd = "FREE" =>
              \A s \in splayd_jobs' : ~(s.splayd = SplaydOf(k) /\ s.job = taction[k].job)
  <1> DEFINE d == SplaydOf(k)
             j == taction[k].job
             c == taction[k].cmd
  <1>1. /\ tpc[k] = "wait" /\ rep[k] # "none" /\ Accepted(c, rep[k])
        /\ CASE c = "REGISTER" -> SJRegister(d, j)
             [] c = "START"    -> SJStart(d, j) /\ UNCHANGED selections
             [] c = "FREE"     -> SJFree(d, j) /\ UNCHANGED selections
             [] OTHER          -> UNCHANGED <<splayd_jobs, selections>>
    BY DEF ApplyReply, At, Read
  <1>2. CASE c \in {"REGISTER", "START"}
    <2>1. PICK rows, st :
            rows \subseteq SplaydJobsOf(d, j) /\ splayd_jobs' = SetSplaydJobStatus(rows, st)
      BY <1>1, <1>2 DEF SJRegister, SJStart
    <2>2. ASSUME NEW s \in splayd_jobs' PROVE OldRow(s) \/ AnsweredRow(s)
      <3>1. PICK r \in splayd_jobs : SameJob(r, s) /\ (s = r \/ r \in rows)
        BY <2>1, <2>2, SetRowsKeeps
      <3>2. CASE s = r
        BY <3>1, <3>2 DEF OldRow
      <3>3. CASE r \in rows
        <4>1. s.splayd = d /\ s.job = j
          BY <2>1, <3>1, <3>3 DEF SplaydJobsOf, SameJob
        <4> QED BY <1>1, <1>2, <3>1, <4>1 DEF AnsweredRow, HasReply
      <3> QED BY <3>1, <3>2, <3>3
    <2> QED BY <1>2, <2>2
  <1>3. CASE c = "FREE"
    BY <1>1, <1>3 DEF SJFree, SplaydJobsOf, OldRow, SameJob
  <1>4. CASE c \notin {"REGISTER", "START", "FREE"}
    BY <1>1, <1>4 DEF OldRow, SameJob
  <1> QED BY <1>2, <1>3, <1>4

LEMMA RowsStep ==
  ASSUME TypeOK, [Next]_vars, NEW s \in splayd_jobs'
  PROVE  OldRow(s) \/ NewRow(s) \/ AnsweredRow(s)
  <1>1. splayd_jobs' \subseteq splayd_jobs => OldRow(s)
    BY DEF OldRow, SameJob
  <1>2. ASSUME NEW k \in Conn, ThreadRuns(k) PROVE OldRow(s) \/ AnsweredRow(s)
    <2>1. CASE ApplyReply(k)
      BY <2>1, ReplyRows
    <2>2. CASE ~ApplyReply(k)
      <3>1. splayd_jobs' \subseteq splayd_jobs
        BY <1>2, <2>2 DEF ThreadRuns, ThreadStep, ReadRow, Authenticate, ResetSession, AskInfos,
           ResetJobs, InfosOK, Available, ReadFailed, RestoreAction, DeleteRegister, FreeFirst,
           RegisterAgain, AuthFails, MainFails, PickAction, SendAction, ReplyNotOK, FinishAction,
           tables
      <3> QED BY <1>1, <3>1
    <2> QED BY <2>1, <2>2
  <1>3. CASE JobdRuns /\ InsertSplaydJobs
    <2>1. s \in splayd_jobs \/ NewRow(s)
      BY <1>3 DEF JobdRuns, InsertSplaydJobs, Statement, NewRow
    <2> QED BY <2>1 DEF OldRow, SameJob
  <1>4. CASE JobdRuns /\ ~InsertSplaydJobs
    BY <1>1, <1>4 DEF JobdRuns, JobdStep, FreesAll, NextPhase, StatusLocal, StatusQueued,
       SelectSplayds, StatusRegistering, SelectSplayd, KeepRegistering, RegisterTimeout,
       StatusRunning, KillMaxTime, ExecuteKill, InsertSelections, InsertRegisters,
       CommitRegisters, SetRegistering, FreeOthers, SendAllList, CommitList, SetRunning,
       SendStart, FreeAll, DeleteSelections, SetRegisterTimeout, tables
  <1> QED BY <1>1, <1>2, <1>3, <1>4 DEF Next, vars, DaemonCommand, BusyPorts, DaemonConnects,
       Connect, DaemonGivesUp, DaemonFails, UnseenReset, ResetSession, ResetJobs, UnseenSelect,
       LinkFails, SocketCollected, CollectSocket, UserActs, Submit, KillJob, ControllerRestarts,
       tables

LEMMA LateReplyStays ==
  ASSUME TypeOK, Wire, Sessions, Known, FirstAsk, Rows, [Next]_vars, NEW k \in Conn, Attached(k)'
  PROVE  LateReply(k)'
  <1> DEFINE d == SplaydOf(k)
  <1> SUFFICES ASSUME NEW e \in Conn \ {k}, SplaydOf(e) = d, HasReply(e)',
                      NEW s \in splayd_jobs', s.splayd = d, s.job = taction'[e].job
               PROVE  FALSE
    BY DEF LateReply, SplaydJobsOf, SplaydOf
  <1>1. d \in Splayd /\ tpc'[e] = "wait" /\ rep'[e] # "none"
    BY SplaydOfType DEF HasReply
  <1>2. ~AskInfos(k)
    BY DEF AskInfos, ResetJobs
  <1>3. Attached(k)
    BY <1>2, AttachedFrom
  <1>4. ~ThreadRuns(e)
    <2> SUFFICES ASSUME ThreadRuns(e) PROVE FALSE
      OBVIOUS
    <2>1. SendAction(e)
      BY <1>1, ThreadComes DEF ThreadRuns
    <2>2. tpc[e] = "picked" /\ rep' = rep
      BY <2>1 DEF SendAction, At
    <2> QED BY <1>1, <2>2 DEF Wire, Shape, Silent
  <1>5. tpc[e] = "wait" /\ taction'[e] = taction[e]
    BY <1>1, <1>4, ThreadsMove
  <1>6. rep'[e] = rep[e]
    <2> SUFFICES ASSUME rep'[e] # rep[e] PROVE FALSE
      OBVIOUS
    <2>1. e = Current(d)
      BY <1>1, ConnStep
    <2>2. k = Current(d)
      BY <1>3 DEF Attached, Wire, Ends
    <2> QED BY <2>1, <2>2
  <1>7. SplaydJobsOf(d, s.job) = {}
    BY <1>3, <1>5, <1>6 DEF Rows, LateReply, HasReply
  <1>8. ~OldRow(s) /\ ~AnsweredRow(s)
    BY <1>7 DEF OldRow, AnsweredRow, SameJob, SplaydJobsOf
  <1>9. NewRow(s)
    BY <1>8, RowsStep
  <1>10. Unheard(d, jjob) /\ s.job = jjob
    BY <1>9, ChosenUnheard DEF NewRow
  <1> QED BY <1>5, <1>10 DEF Unheard, Holding

\* The daemon frees job j, as the thread of k asks it to.
Frees(k, j) ==
  /\ Freeing(k, j) /\ req[k] # <<>>
  /\ tpc'[k] = tpc[k] /\ taction'[k] = taction[k]

LEMMA CommandLeaves ==
  ASSUME TypeOK, Wire, NEW d \in Splayd, NEW busy \in BOOLEAN, NEW k, k = Current(d),
         Execute(d, k, busy), UNCHANGED threadVars, Attached(k), Attached(k)', dloop[d],
         NEW j \in Job
  PROVE  dloop'[d] /\ (djobs[d][j] # "none" /\ djobs'[d][j] = "none" => Frees(k, j))
  <1>1. /\ k \in Conn /\ SplaydOf(k) = d /\ req[k] # <<>>
        /\ \/ ReceiveSession(d, k) /\ Head(req[k]).cmd = "AUTH"
           \/ /\ Head(req[k]).cmd # "AUTH"
              /\ Breaks(d, k) \/ \E r \in Reply \ {"none"} : Answers(d, k, r)
    BY CommandOwn
  <1>2. /\ Shape(k) /\ Ends(k) /\ link[k] = "up" /\ link'[k] = "up" /\ tpc[k] \in Pc
        /\ tpc' = tpc /\ taction' = taction
        /\ djobs \in [Splayd -> [Job -> DaemonJobStatus]]
        /\ link \in [Conn -> {"free", "up", "down"}]
        /\ tpc[k] # "dead"
    BY <1>1 DEF Wire, Attached, Admitted, Serving, TypeOK, DaemonTypeOK, ThreadTypeOK, threadVars
  <1>3. ~Greets(k)
    BY <1>1, <1>2 DEF Ends
  <1>4. Head(req[k]).cmd # "AUTH"
    BY <1>1, <1>3, ShapeForm, OneMessage
  <1>5. ~Breaks(d, k) /\ ~ReceiveSession(d, k)
    BY <1>1, <1>2, <1>4 DEF Breaks, ReceiveSession, Receives
  <1>6. dloop'[d]
    BY <1>1, <1>2, <1>5 DEF Answers
  <1>7. ASSUME djobs[d][j] # "none", djobs'[d][j] = "none" PROVE Frees(k, j)
    <2>1. Free(d, k)
      BY <1>2, <1>5, <1>7 DEF Execute, ReceiveSettings, Register, List, Start
    <2>2. Head(req[k]).cmd = "FREE" /\ Head(req[k]).job = j
      BY <1>2, <1>7, <2>1 DEF Free, Receives
    <2>3. tpc[k] = "wait" /\ Head(req[k]) = Order(taction[k])
      <3>1. InfosMessage.cmd # "FREE" /\ LogMessage.cmd # "FREE"
        BY DEF InfosMessage, LogMessage
      <3> QED BY <1>1, <1>2, <1>3, <2>2, <3>1, OneMessage DEF Shape, Silent, Pc
    <2> QED BY <1>1, <1>2, <2>2, <2>3 DEF Frees, Freeing, Order
  <1> QED BY <1>6, <1>7

\* As long as the connection serves the daemon, a job leaves it when it is freed.
LEMMA JobLeaves ==
  ASSUME TypeOK, Wire, [Next]_vars, NEW c \in Conn, NEW d, d = SplaydOf(c), NEW j \in Job,
         Attached(c), Attached(c)', dloop[d]
  PROVE  dloop'[d] /\ (djobs[d][j] # "none" /\ djobs'[d][j] = "none" => Frees(c, j))
  <1>t. /\ d \in Splayd /\ c = Current(d) /\ c[2] # NoConn /\ dconn[d] # NoConn
        /\ link[c] = "up" /\ link'[c] = "up" /\ tpc'[c] # "dead"
        /\ link \in [Conn -> {"free", "up", "down"}]
        /\ dloop \in [Splayd -> BOOLEAN]
        /\ djobs \in [Splayd -> [Job -> DaemonJobStatus]]
    BY ConnParts, MaxConnAssumption
       DEF Wire, Ends, Attached, Admitted, Serving, NoConn, TypeOK, DaemonTypeOK
  <1>1. ASSUME NEW e \in Splayd, DaemonCommand(e) \/ BusyPorts(e)
        PROVE  dloop'[d] /\ (djobs[d][j] # "none" /\ djobs'[d][j] = "none" => Frees(c, j))
    <2>1. PICK busy \in BOOLEAN : Execute(e, Current(e), busy)
      BY <1>1 DEF DaemonCommand, BusyPorts, Execute
    <2>2. UNCHANGED threadVars
      BY <1>1 DEF DaemonCommand, BusyPorts
    <2>3. \A f \in Splayd \ {e} : dloop'[f] = dloop[f] /\ djobs'[f] = djobs[f]
      BY <2>1, CommandOwn
    <2>4. CASE e = d
      <3>1. Execute(d, c, busy)
        BY <1>t, <2>1, <2>4
      <3> QED BY <1>t, <2>2, <3>1, CommandLeaves
    <2>5. CASE e # d
      BY <1>t, <2>3, <2>5
    <2> QED BY <2>4, <2>5
  <1>2. ASSUME NEW e \in Splayd, DaemonGivesUp(e) \/ DaemonFails(e)
        PROVE  UNCHANGED dloop[d] /\ djobs'[d] = djobs[d]
    BY <1>t, <1>2 DEF DaemonGivesUp, HandshakeFails, FullReset, DaemonFails, DaemonRestart
  <1>3. ASSUME NEW k \in Conn, ThreadRuns(k) PROVE UNCHANGED <<djobs, dloop>>
    BY <1>3, ThreadOwn DEF ThreadRuns
  <1>4. \/ UNCHANGED <<djobs, dloop>> \/ \E k \in Conn : ThreadRuns(k)
        \/ \E e \in Splayd : \/ DaemonCommand(e) \/ BusyPorts(e)
                             \/ DaemonGivesUp(e) \/ DaemonFails(e)
    BY DEF Next, vars, daemonVars, DaemonConnects, Connect, UnseenReset, UnseenSelect, LinkFails,
       SocketCollected, CollectSocket, UserActs, JobdRuns, ControllerRestarts
  <1> QED BY <1>t, <1>1, <1>2, <1>3, <1>4

LEMMA ReplyMeansJobStays ==
  ASSUME TypeOK, Wire, Sessions, Rows, [Next]_vars, NEW k \in Conn, Attached(k)'
  PROVE  ReplyMeansJob(k)'
  <1> DEFINE d == SplaydOf(k)
             j == taction[k].job
  <1> SUFFICES ASSUME HasReply(k)', Accepted(taction'[k].cmd, rep'[k])
               PROVE  djobs'[d][taction'[k].job] # "none"
    BY DEF ReplyMeansJob, SplaydOf, Accepted
  <1>1. tpc'[k] = "wait" /\ rep'[k] # "none" /\ taction'[k].cmd \in {"REGISTER", "START"}
    BY DEF HasReply
  <1>2. Attached(k)
    BY <1>1, AttachedFrom
  <1>3. Shape(k) /\ Ends(k) /\ d \in Splayd
    BY SplaydOfType DEF Wire
  <1>4. ~ThreadRuns(k)
    <2> SUFFICES ASSUME ThreadRuns(k) PROVE FALSE
      OBVIOUS
    <2>1. SendAction(k)
      BY <1>1, ThreadComes DEF ThreadRuns
    <2>2. tpc[k] = "picked" /\ rep' = rep
      BY <2>1 DEF SendAction, At
    <2> QED BY <1>1, <1>3, <2>2 DEF Shape, Silent
  <1>5. tpc[k] = "wait" /\ taction'[k] = taction[k]
    BY <1>1, <1>4, ThreadsMove
  <1>6. taction[k] \in Action /\ j \in Job
    BY <1>5 DEF TypeOK, ThreadTypeOK, Holding, Action
  <1>7. CASE rep'[k] = rep[k]
    <2>1. djobs[d][j] # "none" /\ req[k] = <<>>
      BY <1>1, <1>2, <1>3, <1>5, <1>7 DEF Rows, ReplyMeansJob, HasReply, Shape
    <2>2. dloop[d]
      BY <1>2, <1>3, <2>1, GreetingParts DEF Ends, Greets
    <2> QED BY <1>2, <1>5, <1>6, <2>1, <2>2, JobLeaves DEF Frees
  <1>8. CASE rep'[k] # rep[k]
    <2>1. PICK busy \in BOOLEAN : Execute(d, k, busy)
      BY <1>1, <1>8, ConnStep
    <2>2. k = Current(d) /\ req[k] # <<>> /\ Head(req[k]) = Order(taction[k])
      <3>1. k = Current(d)
        BY <1>1, <1>8, ConnStep
      <3>2. req[k] # <<>>
        BY <1>3, <2>1, <3>1, CommandOwn
      <3> QED BY <1>3, <1>5, <3>1, <3>2, OneMessage DEF Shape
    <2>3. rep[k] = "none" /\ rep \in [Conn -> Reply]
          /\ djobs \in [Splayd -> [Job -> DaemonJobStatus]]
      BY <1>3, <2>2 DEF Shape, TypeOK, DaemonTypeOK
    <2>4. \A r : Answers(d, k, r) => rep'[k] = r \/ rep' = rep
      BY <2>3 DEF Answers
    <2>5. ~Breaks(d, k)
      BY <1>8 DEF Breaks
    <2>6. Head(req[k]).cmd = taction[k].cmd /\ Head(req[k]).job = j
      BY <2>2 DEF Order
    <2>7. CASE taction[k].cmd = "REGISTER"
      <3>1. Register(d, k, busy)
        BY <2>1, <2>6, <2>7 DEF Execute, ReceiveSession, ReceiveSettings, Free, List, Start, Receives
      <3>2. RegisterReply(d, j, busy) = "OK"
        BY <1>5, <1>8, <2>4, <2>5, <2>6, <2>7, <3>1 DEF Register, Accepted
      <3> QED BY <1>3, <1>5, <1>6, <2>3, <2>5, <2>6, <3>1, <3>2 DEF Register
    <2>8. CASE taction[k].cmd = "START"
      <3>1. Start(d, k)
        BY <2>1, <2>6, <2>8
           DEF Execute, ReceiveSession, ReceiveSettings, Free, List, Register, Receives
      <3>2. djobs[d][j] # "none"
        BY <1>5, <1>8, <2>4, <2>5, <2>6, <2>8, <3>1 DEF Start, Accepted
      <3> QED BY <1>3, <1>5, <1>6, <2>3, <2>5, <2>6, <3>1, <3>2 DEF Start
    <2> QED BY <1>1, <1>5, <2>7, <2>8
  <1> QED BY <1>7, <1>8

LEMMA ShownStays ==
  ASSUME TypeOK, Wire, Sessions, Rows, [Next]_vars, NEW k \in Conn, Attached(k)'
  PROVE  Shown(k)'
  <1> DEFINE d == SplaydOf(k)
  <1> SUFFICES ASSUME NEW s \in splayd_jobs', s.splayd = d, s.status # "RESERVED"
               PROVE  dloop'[d] /\ (djobs'[d][s.job] # "none" \/ Freeing(k, s.job)')
    BY DEF Shown, SplaydOf
  <1>1. Attached(k)
    <2>1. ~AskInfos(k)
      BY DEF AskInfos, ResetJobs
    <2> QED BY <2>1, AttachedFrom
  <1>2. Shape(k) /\ Ends(k) /\ ReplyMeansJob(k) /\ LateReply(k) /\ Shown(k)
    BY <1>1 DEF Wire, Rows
  <1>3. s.job \in Job
    BY NextType DEF TypeOK, TablesTypeOK, SplaydJob
  <1>4. CASE OldRow(s)
    <2>1. dloop[d] /\ (djobs[d][s.job] # "none" \/ Freeing(k, s.job))
      BY <1>2, <1>4 DEF OldRow, SameJob, Shown
    <2>2. dloop'[d] /\ (djobs[d][s.job] # "none" /\ djobs'[d][s.job] = "none" => Frees(k, s.job))
      BY <1>1, <1>3, <2>1, JobLeaves
    <2>3. Frees(k, s.job) => Freeing(k, s.job)'
      BY DEF Frees, Freeing
    <2>4. Freeing(k, s.job) => Freeing(k, s.job)'
      <3> SUFFICES ASSUME Freeing(k, s.job) PROVE Freeing(k, s.job)'
        OBVIOUS
      <3>1. ~ThreadRuns(k)
        <4> SUFFICES ASSUME ThreadRuns(k) PROVE FALSE
          OBVIOUS
        <4>1. MainFails(k) \/ ApplyReply(k) \/ ReplyNotOK(k)
          BY ThreadWaits DEF ThreadRuns, Freeing
        <4>2. ~MainFails(k)
          <5>1. tpc'[k] # "dead"
            BY DEF Attached, Admitted, Serving
          <5>2. MainFails(k) => tpc'[k] = "dead"
            BY DEF MainFails, EndMain, Goto, TypeOK, ThreadTypeOK
          <5> QED BY <5>1, <5>2
        <4>3. ~ReplyNotOK(k)
          BY DEF ReplyNotOK, Accepted, Freeing
        <4>4. ~ApplyReply(k)
          BY ReplyRows DEF Freeing
        <4> QED BY <4>1, <4>2, <4>3, <4>4
      <3>2. tpc'[k] \notin {"none", "hello", "dead"}
        BY DEF Attached, Admitted, Serving
      <3> QED BY <3>1, <3>2, ThreadsMove DEF Freeing
    <2> QED BY <2>1, <2>2, <2>3, <2>4
  <1>5. CASE AnsweredRow(s)
    <2>1. PICK e \in Conn : /\ ApplyReply(e) /\ HasReply(e) /\ Accepted(taction[e].cmd, rep[e])
                            /\ SplaydOf(e) = d /\ taction[e].job = s.job
      BY <1>5 DEF AnsweredRow
    <2>2. SplaydJobsOf(d, s.job) # {}
      BY <1>5 DEF AnsweredRow, SplaydJobsOf, SameJob
    <2>3. e = k
      BY <1>2, <2>1, <2>2 DEF LateReply
    <2>4. djobs[d][s.job] # "none" /\ req[k] = <<>>
      BY <1>2, <2>1, <2>3 DEF ReplyMeansJob, Shape, HasReply
    <2>5. dloop[d]
      BY <1>1, <1>2, <2>4, GreetingParts DEF Ends, Greets
    <2>6. UNCHANGED <<djobs, dloop>>
      BY <2>1 DEF ApplyReply
    <2> QED BY <2>4, <2>5, <2>6
  <1> QED BY <1>4, <1>5, RowsStep DEF NewRow

LEMMA RowsInductive ==
  TypeOK /\ Wire /\ Sessions /\ Known /\ FirstAsk /\ Rows /\ [Next]_vars => Rows'
  <1> SUFFICES ASSUME TypeOK, Wire, Sessions, Known, FirstAsk, Rows, [Next]_vars,
                      NEW k \in Conn, Attached(k)'
               PROVE  ReplyMeansJob(k)' /\ LateReply(k)' /\ Shown(k)'
    BY DEF Rows
  <1> QED BY ReplyMeansJobStays, LateReplyStays, ShownStays

---------------------------------------------------------------------------
(* The theorems *)

LEMMA InitSync == Init => Known /\ Ids /\ FirstAsk /\ RegisterOnce /\ Rows
  <1> SUFFICES ASSUME Init PROVE Known /\ Ids /\ FirstAsk /\ RegisterOnce /\ Rows
    OBVIOUS
  <1>1. /\ \A k \in Conn : tpc[k] = "none" /\ rep[k] = "none" /\ tfailed[k] = {}
        /\ actions = {} /\ splayd_jobs = {}
        /\ \A j \in Job : jobs[j].status = "NONE"
        /\ \A d \in Splayd : splayds[d].status = "REGISTERED"
        /\ jset = {}
    BY DEF Init, TablesInit, DaemonInit, ThreadInit, JobdInit
  <1>2. \A k \in Conn : tpc[k] \notin Admitted
    BY <1>1 DEF Admitted, Serving
  <1>3. Known
    BY InitAsked
  <1>4. Ids
    BY <1>1 DEF Ids
  <1>5. FirstAsk
    BY <1>1, <1>2 DEF FirstAsk, Idle
  <1>6. RegisterOnce
    BY <1>1, <1>2 DEF RegisterOnce, RegisterRows, Attached, Abandoned, NeverRegisteredTwice
  <1>7. Rows
    BY <1>2 DEF Rows, Attached
  <1> QED BY <1>3, <1>4, <1>5, <1>6, <1>7

\* A daemon is never told to register a job it has: a REGISTER sent on a connection is
\* not sent again on it, and a new connection begins with a reset of both sides,
\* whatever fails and wherever the controller stops.  The FREE of restore_actions has
\* no part in it: the REGISTER it precedes carries jobs.code and cannot be decoded.
THEOREM RegisteredOnce == Spec => []NeverRegisteredTwice
  <1>1. RegisterOnce => NeverRegisteredTwice
    BY DEF RegisterOnce
  <1> QED BY <1>1, InitWire, InitSync, TypeCorrect, WireInductive, SessionsInductive,
             KnownInductive, IdsInductive, FirstAskInductive, RegisterOnceInductive, PTL DEF Spec

\* A job the tables show as WAITING or RUNNING on a daemon that is served is on that
\* daemon: no late reply, of whatever thread, shows a job the daemon has lost.
THEOREM RowsTellJobs == Spec => []RowMeansJob
  <1>1. TypeOK /\ Rows => RowMeansJob
    <2> SUFFICES ASSUME TypeOK, Rows, NEW k \in Conn, NEW r \in splayd_jobs,
                        Synchronized(r.splayd, k), r.status # "RESERVED"
                 PROVE  \/ djobs[r.splayd][r.job] # "none"
                        \/ /\ tpc[k] = "wait"
                           /\ taction[k].cmd = "FREE" /\ taction[k].job = r.job
      BY DEF RowMeansJob
    <2>1. Attached(k) /\ SplaydOf(k) = r.splayd
      BY DEF Synchronized, Attached, Admitted
    <2> QED BY <2>1 DEF Rows, Shown, Freeing
  <1> QED BY <1>1, InitWire, InitSync, TypeCorrect, WireInductive, SessionsInductive,
             KnownInductive, IdsInductive, FirstAskInductive, RowsInductive, PTL DEF Spec

=============================================================================
