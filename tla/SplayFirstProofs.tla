------------------------- MODULE SplayFirstProofs -------------------------
(***************************************************************************)
(* What the controller promises a daemon on its first connection, as long  *)
(* as no other has been opened: a job it should not have is freed, and     *)
(* START never comes before the LIST of the job.  A second connection      *)
(* breaks both: its reset deletes the commands on their way, and an old    *)
(* thread, or a restarted controller, goes on sending for the first.       *)
(*                                                                         *)
(* Nothing disturbs the one thread of such a daemon (Unused, Undisturbed), *)
(* so that every command it is sent is one of the scheduler's, in the      *)
(* order the scheduler inserted them (Numbered, InOrder, Late).  The rest  *)
(* follows a job from the selection of the daemon to FREE or START:        *)
(* InHand, Answered, AskedOf, DoomedFreed, ListComes and StartHasList.     *)
(***************************************************************************)
EXTENDS SplaySyncProofs

\* No other connection of the daemon was ever opened.
Alone(k) == \A c \in Conn : SplaydOf(c) = SplaydOf(k) /\ c # k => tpc[c] = "none"

\* The daemon of connection k was not made available yet ...
Before == {"none", "hello", "auth", "reset", "infos", "log"}

\* ... it is, and its thread lives.
Served == {"available"} \cup Serving

---------------------------------------------------------------------------
(* What is on its way to a daemon *)

HasRow(d, j, c) == \E a \in actions : a.splayd = d /\ a.job = j /\ a.cmd = c

\* The thread of connection k is at command c of job j.
InThread == {"picked", "wait", "applied"}
Hands(k, j, c) == tpc[k] \in InThread /\ taction[k].job = j /\ taction[k].cmd = c

Coming(k, j, c) == HasRow(SplaydOf(k), j, c) \/ Hands(k, j, c)

\* The daemon has the job, or will.
OnItsWay(k, j) == Coming(k, j, "REGISTER") \/ djobs[SplaydOf(k)][j] # "none"

\* The daemon waits for the list of the job, or will.
Waits(k, j) == Coming(k, j, "REGISTER") \/ djobs[SplaydOf(k)][j] = "waiting"

IsAsked(d, j) == \E s \in selections : s.splayd = d /\ s.job = j
IsSelected(d, j) == \E s \in selections : s.splayd = d /\ s.job = j /\ s.selected

---------------------------------------------------------------------------
(* What was decided of a job *)

PastSending(j) == jobs[j].status \notin {"NONE", "LOCAL", "QUEUED", "QUEUE_TIMEOUT"}
PastDeciding(j) == PastSending(j) /\ jobs[j].status # "REGISTERING"

TimedOut(j) == jobs[j].status = "REGISTER_TIMEOUT" \/ (jjob = j /\ jstep = "timeout")

\* The daemons that were not selected were sent FREE.
Settled(j) ==
  \/ jobs[j].status \in {"RUNNING", "ENDED"}
  \/ jjob = j /\ jstep \in {"list", "list_data", "running"}

\* The daemon should not have the job, and was sent FREE.
Doomed(d, j) ==
  \/ TimedOut(j)
  \/ jjob = j /\ jstep = "unregister" /\ d \notin jset
  \/ jjob = j /\ jstep = "forget"
  \/ Settled(j) /\ ~IsSelected(d, j)

\* The daemon was sent LIST, and will be sent START.
Listing == {"list_data", "running", "start"}
ListDue(k, j) ==
  (jjob = j /\ jstep \in Listing /\ IsSelected(SplaydOf(k), j)) \/ Coming(k, j, "START")

---------------------------------------------------------------------------
(* The invariants *)

\* Nothing concerns a daemon that was not made available.
Unused(k) ==
  LET d == SplaydOf(k) IN
  tpc[k] \in Before =>
    /\ splayds[d].status \notin {"AVAILABLE", "UNAVAILABLE"}
    /\ d \notin jset
    /\ \A a \in actions : a.splayd # d
    /\ \A s \in selections : s.splayd # d
    /\ djobs[d] = NoJobs

\* The unseen daemon leaves it alone, and there is nothing to restore.
Undisturbed(k) ==
  LET d == SplaydOf(k) IN
  /\ tpc[k] # "dead" => unseen[d] = "seen"
  /\ tpc[k] \notin Restoring
  /\ tpc[k] \in Served => \A a \in actions : a.splayd = d => a.status # "FAILURE"

\* A number stands for one command of one job, in the table and in the thread.
Numbered(k) ==
  LET d == SplaydOf(k) IN
  /\ \A a, b \in actions : a.splayd = d /\ b.splayd = d /\ a.id = b.id => a.job = b.job
  /\ tpc[k] \in InThread =>
       /\ taction[k].splayd = d /\ taction[k].id < nextAction[d]
       /\ \A b \in actions : b.splayd = d /\ b.id = taction[k].id =>
             b.cmd = taction[k].cmd /\ b.job = taction[k].job

\* REGISTER comes first, and START after LIST.
Precedes(c, e) == (c = "REGISTER" /\ e # "REGISTER") \/ (c = "LIST" /\ e = "START")
InOrder(k) ==
  \A a, b \in actions :
     a.splayd = SplaydOf(k) /\ b.splayd = SplaydOf(k) /\ a.job = b.job
       /\ Precedes(a.cmd, b.cmd) => a.id < b.id

\* The other commands come when the job has got that far.
Late(k, j) ==
  /\ \A c \in Command \ {"REGISTER"} : Coming(k, j, c) => PastSending(j)
  /\ Coming(k, j, "START") => PastDeciding(j)

\* What the thread is at was the first of the rows of the job.
InHand(k, j) ==
  /\ \A c \in Command \ {"REGISTER"} : Hands(k, j, c) => ~HasRow(SplaydOf(k), j, "REGISTER")
  /\ Hands(k, j, "START") => ~HasRow(SplaydOf(k), j, "LIST")

\* A command that was answered was executed.
Answered(k, j) ==
  tpc[k] = "applied" \/ rep[k] # "none" =>
    /\ Hands(k, j, "FREE") => djobs[SplaydOf(k)][j] = "none"
    /\ Hands(k, j, "LIST") => djobs[SplaydOf(k)][j] # "waiting"

\* A daemon that has the job, or will, has its row in splayd_selections.
AskedOf(k, j) ==
  LET d == SplaydOf(k) IN
  /\ jjob = j /\ jstep \in {"splayd_jobs", "registers"} /\ d \in jset => IsAsked(d, j)
  /\ OnItsWay(k, j) /\ ~TimedOut(j) => IsAsked(d, j)

\* A daemon that should not have the job has a FREE to come.
DoomedFreed(k, j) ==
  Doomed(SplaydOf(k), j) /\ OnItsWay(k, j) => HasRow(SplaydOf(k), j, "FREE")

\* A daemon that waits for the list has a LIST to come when START is.
ListComes(k, j) ==
  ListDue(k, j) /\ Waits(k, j) => HasRow(SplaydOf(k), j, "LIST")

StartHasList(k) ==
  req[k] # <<>> /\ Head(req[k]).cmd = "START" =>
     djobs[SplaydOf(k)][Head(req[k]).job] # "waiting"

\* What holds of a daemon that is served ...
Follows(k, j) ==
  /\ Late(k, j) /\ InHand(k, j) /\ Answered(k, j)
  /\ AskedOf(k, j) /\ DoomedFreed(k, j) /\ ListComes(k, j)

Service(k) == Numbered(k) /\ InOrder(k) /\ \A j \in Job : Follows(k, j)

\* ... and of every daemon on its first connection.
FirstConnection ==
  \A k \in Conn : Alone(k) =>
     /\ Unused(k) /\ Undisturbed(k) /\ StartHasList(k)
     /\ tpc[k] \in Served => Service(k)

---------------------------------------------------------------------------
(* The steps that concern a daemon on its first connection *)

\* A thread that was there stays, and only a connection makes one.
LEMMA ThreadStays ==
  ASSUME TypeOK, [Next]_vars, NEW c \in Conn, tpc'[c] = "none"
  PROVE  tpc[c] = "none"
  <1>t. tpc \in [Conn -> Pc]
    BY DEF TypeOK, ThreadTypeOK
  <1>1. ASSUME NEW k \in Conn, ThreadRuns(k) PROVE tpc[c] = "none"
    BY <1>t, <1>1 DEF ThreadRuns, ThreadStep, ReadRow, Authenticate, AskInfos, InfosOK, Available,
       ReadFailed, RestoreAction, DeleteRegister, FreeFirst, RegisterAgain, AuthFails, MainFails,
       PickAction, SendAction, ApplyReply, ReplyNotOK, FinishAction, EndMain, GoesOnWith, Goto, At
  <1>2. ASSUME NEW d \in Splayd, DaemonConnects(d) PROVE tpc[c] = "none"
    BY <1>t, <1>2 DEF DaemonConnects, Connect, Goto, Conn
  <1>3. CASE ControllerRestarts
    BY <1>3 DEF ControllerRestarts
  <1>4. CASE UNCHANGED tpc
    BY <1>4
  <1> QED BY <1>1, <1>2, <1>3, <1>4
       DEF Next, vars, threadVars, DaemonCommand, BusyPorts, DaemonGivesUp, DaemonFails,
       UnseenReset, UnseenSelect, LinkFails, SocketCollected, CollectSocket, JobdRuns, UserActs

LEMMA AloneBefore ==
  ASSUME TypeOK, [Next]_vars, NEW k \in Conn, Alone(k)'
  PROVE  Alone(k)
  <1>1. \A c \in Conn : tpc'[c] = "none" => tpc[c] = "none"
    BY ThreadStays
  <1> QED BY <1>1 DEF Alone, SplaydOf

\* Nothing of the daemon of connection k changes, but that it may lose its jobs
\* and that a user may submit a job.
Quiet(k) ==
  LET d == SplaydOf(k) IN
  /\ tpc'[k] = tpc[k] /\ taction'[k] = taction[k] /\ req'[k] = req[k] /\ rep'[k] = rep[k]
  /\ splayds'[d].status = splayds[d].status
  /\ unseen'[d] = "seen" \/ unseen[d] # "seen" \/ (d \in Unseen /\ tpc[k] \notin Contacted)
  /\ \A j \in Job : djobs'[d][j] \in {djobs[d][j], "none"}
  /\ \A a : a.splayd = d => (a \in actions' <=> a \in actions)
  /\ SameSelected
  /\ \A j \in Job : \/ jobs'[j].status = jobs[j].status
                    \/ jobs[j].status = "NONE" /\ jobs'[j].status = "LOCAL"
  /\ UNCHANGED jobdVars

\* The daemon executes what it read on connection k.
Executes(k) ==
  LET d == SplaydOf(k) IN
  /\ k = Current(d)
  /\ \E busy \in BOOLEAN : Execute(d, k, busy)
  /\ UNCHANGED <<tables, threadVars, jobdVars, unseen>>

\* The daemon opens connection k.
Opens(k) ==
  /\ tpc[k] = "none" /\ tpc'[k] = "hello"
  /\ req'[k] = req[k] /\ rep'[k] = rep[k]
  /\ UNCHANGED <<tables, jobdVars, unseen, djobs>>

\* UPDATE and DELETE on rows of one daemon leave those of the others.
LEMMA OthersRows ==
  ASSUME TypeOK, NEW e, NEW rows, \A a \in rows : a.splayd = e, NEW st,
         actions' = SetActionStatus(rows, st), NEW a, a.splayd # e
  PROVE  a \in actions' <=> a \in actions
  <1>1. \A b \in actions : b.splayd = [b EXCEPT !.status = st].splayd
    BY DEF TypeOK, TablesTypeOK, Action
  <1> QED BY <1>1 DEF SetActionStatus

LEMMA OtherThread ==
  ASSUME TypeOK, Ids, NEW c \in Conn, ThreadStep(c), NEW d \in Splayd, d # SplaydOf(c)
  PROVE  /\ splayds'[d] = splayds[d]
         /\ \A a : a.splayd = d => (a \in actions' <=> a \in actions)
  <1> DEFINE e == SplaydOf(c)
  <1>t. /\ splayds \in [Splayd -> [status : SplaydStatus, session : Nat]] /\ e \in Splayd
        /\ actions \in SUBSET Action
    BY SplaydOfType DEF TypeOK, TablesTypeOK
  <1>1. splayds'[d] = splayds[d]
    BY <1>t DEF ThreadStep, ReadRow, Authenticate, ResetSession, AskInfos, ResetJobs, InfosOK,
       Available, ReadFailed, RestoreAction, DeleteRegister, FreeFirst, RegisterAgain, AuthFails,
       MainFails, EndMain, PickAction, SendAction, ApplyReply, ReplyNotOK, FinishAction,
       SetSplaydStatus, tables
  <1>2. ASSUME NEW a, a.splayd = d PROVE a \in actions' <=> a \in actions
    <2>1. CASE RestoreAction(c)
      <3>1. PICK b \in tfailed[c] :
              actions' = SetActionStatus({x \in actions : x.splayd = b.splayd /\ x.id = b.id},
                                         "WAITING")
        BY <2>1 DEF RestoreAction
      <3>2. b.splayd = e
        BY <3>1 DEF Ids
      <3> QED BY <1>2, <3>1, <3>2, OthersRows
    <2>2. CASE MainFails(c) \/ ReplyNotOK(c)
      <3>1. actions' = SetActionStatus(ActionsOf(e, "SENDING"), "FAILURE")
        BY <2>2 DEF MainFails, ReplyNotOK, EndMain, ActionFailure
      <3> QED BY <1>2, <3>1, OthersRows DEF ActionsOf
    <2>3. CASE SendAction(c)
      <3>1. actions' = SetActionStatus({x \in actions : x.splayd = e /\ x.id = taction[c].id},
                                       "SENDING")
        BY <2>3 DEF SendAction, MarkSending
      <3> QED BY <1>2, <3>1, OthersRows
    <2>4. CASE FreeFirst(c) \/ RegisterAgain(c)
      <3>1. PICK n, j, cmd, data :
              actions' = actions \cup {Row(n, e, j, cmd, data, "WAITING")}
        BY <2>4 DEF FreeFirst, RegisterAgain, AddAction
      <3>2. Row(n, e, j, cmd, data, "WAITING").splayd = e
        BY DEF Row
      <3> QED BY <1>2, <3>1, <3>2
    <2>5. CASE DeleteRegister(c) \/ FinishAction(c)
      <3>1. PICK n : actions' = {x \in actions : ~(x.splayd = e /\ x.id = n)}
        BY <2>5 DEF DeleteRegister, FinishAction, RemoveAction
      <3> QED BY <1>2, <3>1
    <2>6. CASE Authenticate(c)
      BY <1>2, <2>6 DEF Authenticate, ResetSession
    <2>7. CASE actions' = actions
      BY <2>7
    <2> QED BY <2>1, <2>2, <2>3, <2>4, <2>5, <2>6, <2>7
         DEF ThreadStep, ReadRow, AskInfos, ResetJobs, InfosOK, Available, ReadFailed, AuthFails,
             PickAction, ApplyReply, tables
  <1> QED BY <1>1, <1>2

\* Quiet, when tables and threads stay.
LEMMA SameQuiet ==
  ASSUME NEW k \in Conn, UNCHANGED <<tables, tpc, taction, unseen>>, UNCHANGED jobdVars,
         req'[k] = req[k], rep'[k] = rep[k],
         \A j \in Job : djobs'[SplaydOf(k)][j] \in {djobs[SplaydOf(k)][j], "none"}
  PROVE  Quiet(k)
  <1>1. SameSelected
    BY SameRows DEF tables
  <1> QED BY <1>1 DEF Quiet, tables

\* What a step can be, for a daemon on its first connection.
LEMMA FirstStep ==
  ASSUME TypeOK, Wire, Ids, [Next]_vars, NEW k \in Conn, Alone(k), Alone(k)'
  PROVE  \/ ThreadRuns(k) \/ Executes(k) \/ Opens(k) \/ JobdRuns \/ ControllerRestarts
         \/ UnseenReset(SplaydOf(k))
         \/ Quiet(k)
  <1> DEFINE d == SplaydOf(k)
  <1>d. d \in Splayd
    BY SplaydOfType
  <1>t. tpc \in [Conn -> Pc] /\ djobs \in [Splayd -> [Job -> DaemonJobStatus]]
    BY DEF TypeOK, ThreadTypeOK, DaemonTypeOK
  <1>1. \A c \in Conn \ {k} : SplaydOf(c) = d => tpc[c] = "none" /\ c # Current(d)
    BY DEF Alone, Wire, Ends
  <1>2. ASSUME NEW c \in Conn, ThreadRuns(c), c # k PROVE Quiet(k)
    <2>1. ThreadStep(c) /\ tpc[c] # "none" /\ UNCHANGED <<unseen>> /\ UNCHANGED jobdVars
      BY <1>2 DEF ThreadRuns, NoEvent, Fault, ThreadStep, ReadRow, Authenticate, AskInfos, InfosOK,
         Available, ReadFailed, RestoreAction, DeleteRegister, FreeFirst, RegisterAgain,
         AuthFails, MainFails, PickAction, SendAction, ApplyReply, ReplyNotOK, FinishAction, At
    <2>2. SplaydOf(c) # d
      BY <1>1, <1>2, <2>1
    <2>3. Same(k) /\ UNCHANGED djobs
      BY <1>2, <2>1, ThreadOwn
    <2>4. SameSelected /\ jobs' = jobs
      BY <2>1, ThreadSelected
    <2>5. splayds'[d] = splayds[d] /\ \A a : a.splayd = d => (a \in actions' <=> a \in actions)
      BY <1>d, <2>1, <2>2, OtherThread
    <2> QED BY <2>1, <2>3, <2>4, <2>5 DEF Quiet, Same, jobdVars
  <1>3. ASSUME NEW e \in Splayd, DaemonCommand(e) \/ BusyPorts(e) PROVE Executes(k) \/ Quiet(k)
    <2>1. PICK c : c = Current(e)
      OBVIOUS
    <2>2. PICK busy \in BOOLEAN : Execute(e, c, busy)
      BY <1>3, <2>1 DEF DaemonCommand, BusyPorts, Execute
    <2>3. UNCHANGED <<tables, threadVars, jobdVars, unseen>>
      BY <1>3 DEF DaemonCommand, BusyPorts, NoEvent, Fault
    <2>4. /\ c \in Conn /\ SplaydOf(c) = e /\ req' = [req EXCEPT ![c] = Tail(@)]
          /\ \A x \in Conn \ {c} : rep'[x] = rep[x]
          /\ \A x \in Splayd \ {e} : djobs'[x] = djobs[x]
      BY <2>1, <2>2, CommandOwn
    <2>5. CASE e = d
      <3>1. c = k
        BY <1>1, <2>1, <2>4, <2>5
      <3> QED BY <2>1, <2>2, <2>3, <2>5, <3>1 DEF Executes
    <2>6. CASE e # d
      <3>1. c # k /\ req \in [Conn -> Seq(Message)]
        BY <2>4, <2>6 DEF TypeOK, DaemonTypeOK
      <3>2. req'[k] = req[k] /\ rep'[k] = rep[k] /\ djobs'[d] = djobs[d]
        BY <1>d, <2>4, <2>6, <3>1
      <3> QED BY <2>3, <3>2, SameQuiet DEF threadVars
    <2> QED BY <2>5, <2>6
  <1>4. ASSUME NEW e \in Splayd, DaemonConnects(e) PROVE Opens(k) \/ Quiet(k)
    <2>1. PICK n \in 1 .. MaxConn : Connect(e, n)
      BY <1>4 DEF DaemonConnects
    <2>2. /\ UNCHANGED <<tables, jobdVars, unseen, djobs, req, rep, taction>>
          /\ tpc[<<e, n>>] = "none" /\ tpc' = [tpc EXCEPT ![<<e, n>>] = "hello"]
      BY <1>4, <2>1 DEF DaemonConnects, NoEvent, Connect, At, Goto
    <2>3. <<e, n>> \in Conn
      BY DEF Conn
    <2>4. CASE k = <<e, n>>
      BY <1>t, <2>2, <2>4 DEF Opens
    <2>5. CASE k # <<e, n>>
      <3>1. SameSelected
        BY <2>2, SameRows DEF tables
      <3> QED BY <1>t, <2>2, <2>3, <2>5, <3>1 DEF Quiet, tables, jobdVars
    <2> QED BY <2>4, <2>5
  <1>5. ASSUME NEW e \in Splayd, DaemonGivesUp(e) \/ DaemonFails(e) PROVE Quiet(k)
    <2>1. /\ UNCHANGED <<tables, threadVars, jobdVars, unseen, req, rep>>
          /\ djobs' = djobs \/ djobs' = [djobs EXCEPT ![e] = NoJobs]
      BY <1>5 DEF DaemonGivesUp, DaemonFails, HandshakeFails, FullReset, DaemonRestart, NoEvent,
         Fault
    <2>2. \A j \in Job : djobs'[d][j] \in {djobs[d][j], "none"}
      BY <1>d, <1>t, <2>1 DEF NoJobs
    <2> QED BY <2>1, <2>2, SameQuiet DEF threadVars
  <1>6. ASSUME NEW e \in Splayd, UnseenReset(e), e # d PROVE Quiet(k)
    <2>1. UNCHANGED <<daemonVars, threadVars, jobdVars>>
      BY <1>6 DEF UnseenReset
    <2>2. splayds'[d] = splayds[d] /\ unseen'[d] = unseen[d] /\ jobs' = jobs
      BY <1>d, <1>6 DEF UnseenReset, ResetSession, ResetJobs, TypeOK, TablesTypeOK, EventsTypeOK
    <2>3. \A a : a.splayd = d => (a \in actions' <=> a \in actions)
      BY <1>6 DEF UnseenReset, ResetSession, ResetJobs
    <2>4. SameSelected
      <3>1. CASE ResetJobs(e)
        BY <3>1, ResetJobsSelected
      <3>2. CASE ~ResetJobs(e)
        BY <1>6, <3>2, SameRows DEF UnseenReset, ResetSession
      <3> QED BY <3>1, <3>2
    <2> QED BY <2>1, <2>2, <2>3, <2>4 DEF Quiet, daemonVars, threadVars, jobdVars
  <1>7. CASE UnseenSelect
    <2>1. UNCHANGED <<tables, daemonVars, threadVars, jobdVars>>
      BY <1>7 DEF UnseenSelect
    <2>2. unseen'[d] = "seen" \/ (d \in Unseen /\ tpc[k] \notin Contacted)
      <3>1. PICK ds \in SUBSET {x \in Unseen : \A n \in 1 .. MaxConn : tpc[<<x, n>>] \notin Contacted} :
              unseen' = [x \in Splayd |-> IF x \in ds THEN "unseen" ELSE "seen"]
        BY <1>7 DEF UnseenSelect
      <3>2. k = <<d, k[2]>> /\ k[2] \in 1 .. MaxConn
        BY ConnParts
      <3> QED BY <1>d, <3>1, <3>2
    <2>3. SameSelected
      BY <2>1, SameRows DEF tables
    <2> QED BY <2>1, <2>2, <2>3 DEF Quiet, tables, daemonVars, threadVars, jobdVars
  <1>8. ASSUME NEW j \in Job, UserActs(j) PROVE Quiet(k)
    <2>1. UNCHANGED <<daemonVars, threadVars, jobdVars, unseen, splayds, actions, selections>>
      BY <1>8 DEF UserActs, Submit, KillJob, NoEvent
    <2>2. \A i \in Job : \/ jobs'[i].status = jobs[i].status
                         \/ jobs[i].status = "NONE" /\ jobs'[i].status = "LOCAL"
      BY <1>8 DEF UserActs, Submit, KillJob, SetJobStatus, TypeOK, TablesTypeOK
    <2>3. SameSelected
      BY <2>1, SameRows
    <2> QED BY <2>1, <2>2, <2>3 DEF Quiet, daemonVars, threadVars, jobdVars
  <1>9. CASE (\E c \in Conn : LinkFails(c) \/ SocketCollected(c)) \/ UNCHANGED vars
    <2>1. UNCHANGED <<tables, threadVars, jobdVars, unseen, djobs, req, rep>>
      BY <1>9 DEF LinkFails, SocketCollected, CollectSocket, NoEvent, Fault, vars, daemonVars
    <2> QED BY <2>1, SameQuiet DEF threadVars
  <1> QED BY <1>2, <1>3, <1>4, <1>5, <1>6, <1>7, <1>8, <1>9 DEF Next

---------------------------------------------------------------------------
(* Commands in the table *)

\* A row that was there, whatever its status, and a row that is still there.
OldOrder(b) == \E a \in actions : SameOrder(a, b)
StillOrder(a) == \E b \in actions' : SameOrder(a, b)
SameOrders == (\A b \in actions' : OldOrder(b)) /\ (\A a \in actions : StillOrder(a))

LEMMA OrderParts ==
  /\ \A b : Kept(b) => OldOrder(b)
  /\ \A a, b : SameOrder(a, b) <=> SameOrder(b, a)
  /\ \A a : SameOrder(a, a)
  BY DEF Kept, OldOrder, SameOrder

LEMMA SetStatusSame ==
  ASSUME TypeOK, NEW rows, NEW st, actions' = SetActionStatus(rows, st)
  PROVE  SameOrders
  <1>1. \A a \in actions : SameOrder(a, IF a \in rows THEN [a EXCEPT !.status = st] ELSE a)
    BY DEF TypeOK, TablesTypeOK, Action, SameOrder
  <1> QED BY <1>1 DEF SetActionStatus, SameOrders, OldOrder, StillOrder

LEMMA SameHasRow ==
  ASSUME SameOrders, NEW d, NEW j, NEW c
  PROVE  HasRow(d, j, c)' <=> HasRow(d, j, c)
  BY DEF SameOrders, OldOrder, StillOrder, SameOrder, HasRow

\* A command the scheduler inserts in this step.
Inserted(b) ==
  /\ Fresh(b) /\ b.job = jjob
  /\ \/ jstep = "registers" /\ b.cmd = "REGISTER" /\ b.splayd \in jset
     \/ jstep = "list" /\ b.cmd = "LIST" /\ IsSelected(b.splayd, jjob)
     \/ jstep = "start" /\ b.cmd = "START" /\ IsSelected(b.splayd, jjob)
     \/ jstep \in {"free", "unregister"} /\ b.cmd = "FREE" /\ IsAsked(b.splayd, jjob)

\* An INSERT adds a row for each row of sels, and leaves the others.
LEMMA InsertAdds ==
  ASSUME NEW sels, NEW c, NEW st, InsertActions(sels, c, st)
  PROVE  /\ actions \subseteq actions'
         /\ \A s \in sels : HasRow(s.splayd, s.job, c)'
  <1> DEFINE n(s) == nextAction[s.splayd]
                       + Cardinality({t \in sels : t.splayd = s.splayd /\ t.seq < s.seq})
             row(s) == Row(n(s), s.splayd, s.job, c, "json", st)
  <1>1. actions' = actions \cup {row(s) : s \in sels}
    BY DEF InsertActions
  <1>2. \A s : row(s).splayd = s.splayd /\ row(s).job = s.job /\ row(s).cmd = c
    <2> HIDE DEF n
    <2> QED BY DEF Row
  <1> HIDE DEF row
  <1> QED BY <1>1, <1>2 DEF HasRow

\* The INSERTs of the scheduler for some of the rows of splayd_selections.
LEMMA InsertsFor ==
  ASSUME TypeOK, jjob \in Job, NEW sels \in SUBSET SelectionsOf(jjob), NEW c, NEW st,
         InsertActions(sels, c, st),
         \/ jstep = "list" /\ c = "LIST" /\ sels \subseteq Selected(jjob)
         \/ jstep = "start" /\ c = "START" /\ sels \subseteq Selected(jjob)
         \/ jstep \in {"free", "unregister"} /\ c = "FREE"
  PROVE  /\ actions \subseteq actions'
         /\ \A b \in actions' : OldOrder(b) \/ Inserted(b)
         /\ \A s \in sels : s.job = jjob /\ HasRow(s.splayd, s.job, c)'
  <1>1. actions \subseteq actions' /\ \A s \in sels : HasRow(s.splayd, s.job, c)'
    BY InsertAdds
  <1>2. \A s \in sels : s.job = jjob /\ s.splayd \in Splayd /\ s.seq \in Nat
    BY DEF SelectionsOf, TypeOK, TablesTypeOK, Selection
  <1>3. IsFiniteSet(sels)
    <2>1. sels \in SUBSET selections
      BY DEF SelectionsOf
    <2> QED BY <2>1, SelsType DEF TypeOK
  <1>4. ASSUME NEW b \in actions' PROVE OldOrder(b) \/ Inserted(b)
    <2>1. \/ Kept(b)
          \/ /\ b.cmd = c /\ Fresh(b)
             /\ \E s \in sels : b.splayd = s.splayd /\ b.job = s.job
      BY <1>2, <1>3, InsertKeeps
    <2>2. ASSUME NEW s \in sels, b.splayd = s.splayd, b.job = s.job, b.cmd = c, Fresh(b)
          PROVE  Inserted(b)
      <3>1. /\ b.job = jjob /\ IsAsked(b.splayd, jjob)
            /\ s \in Selected(jjob) => IsSelected(b.splayd, jjob)
        BY <1>2, <2>2 DEF SelectionsOf, Selected, IsAsked, IsSelected
      <3> QED BY <2>2, <3>1 DEF Inserted
    <2> QED BY <2>1, <2>2, OrderParts
  <1> QED BY <1>1, <1>2, <1>4

\* FREE to the daemons that were not selected ...
LEMMA FreesOthers ==
  ASSUME TypeOK, FreeOthers
  PROVE  /\ actions \subseteq actions'
         /\ \A b \in actions' : OldOrder(b) \/ Inserted(b)
         /\ \A d : IsAsked(d, jjob) /\ ~IsSelected(d, jjob) => HasRow(d, jjob, "FREE")'
  <1> DEFINE sels == SelectionsOf(jjob) \ Selected(jjob)
  <1>1. /\ jstep = "free" /\ jjob \in Job /\ jjob' = jjob
        /\ InsertActions(sels, "FREE", "WAITING")
    BY DEF FreeOthers, Statement, TypeOK, JobdTypeOK
  <1>2. \A d : IsAsked(d, jjob) /\ ~IsSelected(d, jjob) => \E s \in sels : s.splayd = d
    BY DEF IsAsked, IsSelected, SelectionsOf, Selected
  <1>3. PICK r : r = sels
    OBVIOUS
  <1>4. /\ actions \subseteq actions'
        /\ \A b \in actions' : OldOrder(b) \/ Inserted(b)
        /\ \A s \in r : s.job = jjob /\ HasRow(s.splayd, s.job, "FREE")'
    BY <1>1, <1>3, InsertsFor
  <1> QED BY <1>1, <1>2, <1>3, <1>4 DEF HasRow

\* ... LIST and START to those that were ...
LEMMA SendsSelected ==
  ASSUME TypeOK, SendAllList \/ SendStart
  PROVE  /\ actions \subseteq actions'
         /\ \A b \in actions' : OldOrder(b) \/ Inserted(b)
         /\ SendAllList => \A d : IsSelected(d, jjob) => HasRow(d, jjob, "LIST")'
  <1>1. Selected(jjob) \in SUBSET SelectionsOf(jjob)
    BY DEF Selected
  <1>2. PICK st, c :
          /\ jjob \in Job /\ InsertActions(Selected(jjob), c, st)
          /\ \/ jstep = "list" /\ c = "LIST" /\ jjob' = jjob
             \/ jstep = "start" /\ c = "START" /\ ~SendAllList
    BY DEF SendAllList, SendStart, Statement, LastStatement, TypeOK, JobdTypeOK
  <1>3. \A d : IsSelected(d, jjob) => \E s \in Selected(jjob) : s.splayd = d
    BY DEF IsSelected, SelectionsOf, Selected
  <1>4. PICK r : r = Selected(jjob)
    OBVIOUS
  <1>5. /\ actions \subseteq actions'
        /\ \A b \in actions' : OldOrder(b) \/ Inserted(b)
        /\ \A s \in r : s.job = jjob /\ HasRow(s.splayd, s.job, c)'
    BY <1>1, <1>2, <1>4, InsertsFor
  <1> QED BY <1>2, <1>3, <1>4, <1>5 DEF HasRow

\* ... and FREE to one of the daemons of a job whose registration timed out.
LEMMA FreesOne ==
  ASSUME TypeOK, NEW e \in Splayd, FreeAll(e)
  PROVE  /\ jstep = "unregister" /\ e \in jset /\ jset' = jset \ {e}
         /\ actions \subseteq actions'
         /\ \A b \in actions' : OldOrder(b) \/ Inserted(b)
         /\ IsAsked(e, jjob) => HasRow(e, jjob, "FREE")'
  <1> DEFINE sels == {s \in SelectionsOf(jjob) : s.splayd = e}
  <1>1. /\ jstep = "unregister" /\ e \in jset /\ jset' = jset \ {e}
        /\ jjob \in Job /\ jjob' = jjob /\ InsertActions(sels, "FREE", "WAITING")
    BY DEF FreeAll, Turn, TypeOK, JobdTypeOK
  <1>2. IsAsked(e, jjob) => \E s \in sels : s.splayd = e
    BY DEF IsAsked, SelectionsOf
  <1>3. PICK r : r = sels
    OBVIOUS
  <1>4. /\ actions \subseteq actions'
        /\ \A b \in actions' : OldOrder(b) \/ Inserted(b)
        /\ \A s \in r : s.job = jjob /\ HasRow(s.splayd, s.job, "FREE")'
    BY <1>1, <1>3, InsertsFor
  <1> QED BY <1>1, <1>2, <1>3, <1>4 DEF HasRow

LEMMA JobdRows ==
  ASSUME TypeOK, JobdStep
  PROVE  /\ \A b \in actions' : OldOrder(b) \/ Inserted(b)
         /\ \A a \in actions : \/ StillOrder(a)
                               \/ a.cmd = "REGISTER" /\ \E j \in Job : RegisterTimeout(j) /\ a.job = j
  <1>1. CASE FreeOthers \/ SendAllList \/ SendStart \/ FreesAll
    <2>1. actions \subseteq actions' /\ \A b \in actions' : OldOrder(b) \/ Inserted(b)
      BY <1>1, FreesOthers, SendsSelected, FreesOne DEF FreesAll
    <2> QED BY <2>1, OrderParts DEF StillOrder
  <1>2. CASE InsertRegisters
    <2> DEFINE regs == {[splayd |-> d, job |-> jjob, seq |-> 0] : d \in jset}
    <2>1. jstep = "registers" /\ InsertActions(regs, "REGISTER", "TEMP")
      BY <1>2 DEF InsertRegisters, Statement
    <2>2. jjob \in Job
      BY <2>1 DEF TypeOK, JobdTypeOK
    <2>3. IsFiniteSet(regs) /\ \A s \in regs : s.splayd \in jset /\ s.splayd \in Splayd
                                                 /\ s.seq \in Nat /\ s.job = jjob
      BY <2>2, SelsType DEF TypeOK, JobdTypeOK
    <2> HIDE DEF regs
    <2>4. \A b \in actions' : OldOrder(b) \/ Inserted(b)
      BY <2>1, <2>3, InsertKeeps, OrderParts DEF Inserted
    <2>5. actions \subseteq actions'
      BY <2>1, InsertAdds
    <2> QED BY <2>4, <2>5, OrderParts DEF StillOrder
  <1>3. CASE CommitRegisters \/ CommitList
    <2>1. PICK c : actions' = CommitActions(jjob, c)
      BY <1>3 DEF CommitRegisters, CommitList
    <2>2. SameOrders
      BY <2>1, SetStatusSame DEF CommitActions
    <2> QED BY <2>2 DEF SameOrders
  <1>4. ASSUME NEW j \in Job, RegisterTimeout(j)
        PROVE  /\ \A b \in actions' : OldOrder(b)
               /\ \A a \in actions : StillOrder(a) \/ (a.cmd = "REGISTER" /\ a.job = j)
    BY <1>4, OrderParts DEF RegisterTimeout, OldOrder, StillOrder
  <1>5. CASE actions' = actions
    BY <1>5, OrderParts DEF OldOrder, StillOrder
  <1> QED BY <1>1, <1>2, <1>3, <1>4, <1>5
       DEF JobdStep, FreesAll, NextPhase, StatusLocal, StatusQueued, SelectSplayds,
       StatusRegistering, SelectSplayd, KeepRegistering, StatusRunning, KillMaxTime,
       ExecuteKill, InsertSelections, InsertSplaydJobs, SetRegistering, SetRunning,
       DeleteSelections, SetRegisterTimeout, tables

\* The thread of a daemon that is served adds no command and removes one at most.
LEMMA ThreadOrders ==
  ASSUME TypeOK, NEW k \in Conn, ThreadStep(k), tpc[k] \in Served \cup {"log"}
  PROVE  /\ SameOrders \/ (FinishAction(k) /\ \A b \in actions' : b \in actions)
         /\ nextAction' = nextAction
  <1>1. CASE MainFails(k) \/ ReplyNotOK(k) \/ SendAction(k)
    <2>1. (\E rows, st : actions' = SetActionStatus(rows, st)) /\ nextAction' = nextAction
      BY <1>1 DEF MainFails, ReplyNotOK, SendAction, EndMain, ActionFailure, MarkSending
    <2> QED BY <2>1, SetStatusSame
  <1>2. CASE FinishAction(k)
    BY <1>2 DEF FinishAction, RemoveAction
  <1>3. CASE actions' = actions /\ nextAction' = nextAction
    BY <1>3, OrderParts DEF SameOrders, OldOrder, StillOrder
  <1> QED BY <1>1, <1>2, <1>3
       DEF ThreadStep, ReadRow, Authenticate, AskInfos, ResetJobs, InfosOK, Available, ReadFailed,
       RestoreAction, DeleteRegister, FreeFirst, RegisterAgain, AuthFails, PickAction, ApplyReply,
       At, tables, Served, Serving

---------------------------------------------------------------------------
(* The statements of the scheduler *)

\* Each value of jstep is one statement.
LEMMA StepAction ==
  ASSUME JobdStep
  PROVE  /\ jstep = "selections" => InsertSelections
         /\ jstep = "splayd_jobs" => InsertSplaydJobs
         /\ jstep = "registers" => InsertRegisters
         /\ jstep = "commit" => CommitRegisters
         /\ jstep = "registering" => SetRegistering
         /\ jstep = "select" => Selects
         /\ jstep = "free" => FreeOthers
         /\ jstep = "list" => SendAllList
         /\ jstep = "list_data" => CommitList
         /\ jstep = "running" => SetRunning
         /\ jstep = "start" => SendStart
         /\ jstep = "unregister" => FreesAll
         /\ jstep = "forget" => DeleteSelections
         /\ jstep = "timeout" => SetRegisterTimeout
  BY DEF JobdStep, FreesAll, Selects, NextPhase, StatusLocal, StatusQueued, SelectSplayds,
     StatusRegistering, SelectSplayd, KeepRegistering, RegisterTimeout, StatusRunning,
     KillMaxTime, ExecuteKill, Takes, InsertSelections, InsertSplaydJobs, InsertRegisters,
     CommitRegisters, SetRegistering, FreeOthers, SendAllList, CommitList, SetRunning,
     SendStart, FreeAll, DeleteSelections, SetRegisterTimeout, Statement, Turn,
     LastStatement

\* Where the scheduler goes from there.
LEMMA StepMoves ==
  ASSUME TypeOK, JobdStep
  PROVE  /\ jstep = "next" => jstep' \in {"next", "selections", "select", "unregister", "forget"}
         /\ jstep # "next" =>
               jjob \in Job /\ (jstep' = "next" \/ (jjob' = jjob /\ jset' \subseteq jset))
         /\ jstep = "selections" => jstep' = "splayd_jobs"
         /\ jstep = "splayd_jobs" => jstep' = "registers"
         /\ jstep = "registers" => jstep' = "commit"
         /\ jstep = "commit" => jstep' = "registering"
         /\ jstep \in {"registering", "start", "timeout"} => jstep' = "next"
         /\ jstep = "select" => jstep' \in {"select", "free"}
         /\ jstep = "free" => jstep' = "list"
         /\ jstep = "list" => jstep' \in {"list_data", "running"}
         /\ jstep = "list_data" => jstep' = "running"
         /\ jstep = "running" => jstep' = "start"
         /\ jstep = "unregister" => jstep' \in {"unregister", "forget"}
         /\ jstep = "forget" => jstep' = "timeout"
  <1>1. jstep \in Step /\ (jstep # "next" => jjob \in Job)
    BY DEF TypeOK, JobdTypeOK
  <1>2. jstep = "next" => jstep' \in {"next", "selections", "select", "unregister", "forget"}
    BY DEF JobdStep, FreesAll, NextPhase, StatusLocal, StatusQueued, SelectSplayds,
       StatusRegistering, SelectSplayd, KeepRegistering, RegisterTimeout, StatusRunning,
       KillMaxTime, ExecuteKill, Done, GoesOn, InsertSelections, InsertSplaydJobs,
       InsertRegisters, CommitRegisters, SetRegistering, FreeOthers, SendAllList,
       CommitList, SetRunning, SendStart, FreeAll, DeleteSelections, SetRegisterTimeout,
       Statement, Turn, LastStatement
  <1> QED BY <1>1, <1>2, StepAction
       DEF InsertSelections, InsertSplaydJobs, InsertRegisters, CommitRegisters,
       SetRegistering, Selects, SelectSplayd, FreeOthers, SendAllList, CommitList, SetRunning,
       SendStart, FreesAll, FreeAll, DeleteSelections, SetRegisterTimeout, Statement, Turn,
       LastStatement, Step

\* The registration that is given up timed out.
LEMMA ToTimeout ==
  ASSUME JobdStep, jstep = "next", jstep' \in {"unregister", "forget"}
  PROVE  jjob' \in Job /\ RegisterTimeout(jjob')
  BY DEF JobdStep, NextPhase, StatusLocal, StatusQueued, SelectSplayds, StatusRegistering,
     SelectSplayd, KeepRegistering, RegisterTimeout, StatusRunning, KillMaxTime, ExecuteKill,
     Done, GoesOn, InsertSelections, InsertSplaydJobs, InsertRegisters, CommitRegisters,
     SetRegistering, FreeOthers, SendAllList, CommitList, SetRunning, SendStart, FreeAll,
     DeleteSelections, SetRegisterTimeout, Statement, Turn, LastStatement

\* What the scheduler makes of the status of a job.
StatusMove(j) ==
  \/ jobs'[j].status = jobs[j].status
  \/ /\ jstep = "next"
     /\ \/ /\ jobs[j].status \in {"LOCAL", "QUEUED"}
           /\ jobs'[j].status \in {"NO_RESSOURCES", "QUEUED", "QUEUE_TIMEOUT"}
        \/ jobs'[j].status = "KILLED" /\ jobs[j].status \in {"LOCAL", "QUEUED", "REGISTERING", "RUNNING"}
        \/ jobs[j].status = "RUNNING" /\ jobs'[j].status = "ENDED"
  \/ /\ jjob = j
     /\ \/ /\ jstep = "registering" /\ jobs'[j].status = "REGISTERING"
           /\ jobs[j].status \in {"LOCAL", "QUEUED", "QUEUE_TIMEOUT"}
        \/ /\ jobs[j].status = "REGISTERING"
           /\ \/ jstep = "running" /\ jobs'[j].status = "RUNNING"
              \/ jstep = "timeout" /\ jobs'[j].status = "REGISTER_TIMEOUT"

LEMMA StatusMoves ==
  ASSUME TypeOK, Known, JobdStep, NEW j \in Job
  PROVE  StatusMove(j)
  <1>t. jobs \in [Job -> [status : JobStatus, command : BOOLEAN]]
    BY DEF TypeOK, TablesTypeOK
  <1>1. CASE jstep = "next"
    <2>1. ASSUME NEW i \in Job, StatusLocal(i) \/ StatusQueued(i) PROVE StatusMove(j)
      <3>0. PICK p \in {"local", "queued"} : \E late, timeout : SelectSplayds(i, p, late, timeout)
        BY <2>1 DEF StatusLocal, StatusQueued
      <3>1. PICK late, timeout : SelectSplayds(i, p, late, timeout)
        BY <3>0
      <3>2. jobs[i].status \in {"LOCAL", "QUEUED"}
        BY <3>1 DEF SelectSplayds, Takes, Known, TodoStatus
      <3>3. PICK st \in {"NO_RESSOURCES", "QUEUED", "QUEUE_TIMEOUT", jobs[i].status} :
              jobs' = [jobs EXCEPT ![i].status = st]
        BY <3>1 DEF SelectSplayds, SetJobStatus
      <3> QED BY <1>t, <1>1, <3>2, <3>3 DEF StatusMove
    <2>2. ASSUME NEW i \in Job, StatusRunning(i) PROVE StatusMove(j)
      <3>1. jobs[i].status = "RUNNING"
        BY <2>2 DEF StatusRunning, Takes, Known, TodoStatus
      <3> QED BY <1>t, <1>1, <2>2, <3>1 DEF StatusRunning, SetJobStatus, StatusMove
    <2>3. ASSUME NEW i \in Job, KillMaxTime(i) \/ ExecuteKill(i) PROVE StatusMove(j)
      BY <1>t, <1>1, <2>3 DEF KillMaxTime, ExecuteKill, SetJobStatus, Killed, StatusMove
    <2>4. CASE jobs' = jobs
      BY <2>4 DEF StatusMove
    <2> QED BY <1>1, <2>1, <2>2, <2>3, <2>4 DEF JobdStep, FreesAll, NextPhase,
         StatusRegistering, SelectSplayd, KeepRegistering, RegisterTimeout,
         InsertSelections, InsertSplaydJobs, InsertRegisters, CommitRegisters,
         SetRegistering, FreeOthers, SendAllList, CommitList, SetRunning, SendStart,
         FreeAll, DeleteSelections, SetRegisterTimeout, Statement, Turn, LastStatement,
         tables
  <1>2. CASE jstep \in {"registering", "running", "timeout"}
    <2>1. /\ jjob \in Job
          /\ jstep = "registering" => jobs[jjob].status \in {"LOCAL", "QUEUED", "QUEUE_TIMEOUT"}
          /\ jstep # "registering" => jobs[jjob].status = "REGISTERING"
      BY <1>2 DEF Known, Sending, Deciding, GivingUp, TypeOK, JobdTypeOK
    <2>2. jobs' = [jobs EXCEPT ![jjob].status =
                     CASE jstep = "registering" -> "REGISTERING"
                       [] jstep = "running" -> "RUNNING"
                       [] jstep = "timeout" -> "REGISTER_TIMEOUT"]
      BY <1>2, StepAction DEF SetRegistering, SetRunning, SetRegisterTimeout, SetJobStatus
    <2> QED BY <1>t, <1>2, <2>1, <2>2 DEF StatusMove
  <1>3. CASE jstep \in Step \ {"next", "registering", "running", "timeout"}
    BY <1>3, StepAction DEF InsertSelections, InsertSplaydJobs, InsertRegisters,
       CommitRegisters, Selects, SelectSplayd, FreeOthers, SendAllList, CommitList, SendStart,
       FreesAll, FreeAll, DeleteSelections, StatusMove, Step
  <1> QED BY <1>1, <1>2, <1>3 DEF TypeOK, JobdTypeOK

LEMMA JobdDecides ==
  ASSUME TypeOK, Known, JobdStep, NEW j \in Job
  PROVE  /\ PastSending(j) => PastSending(j)'
         /\ PastDeciding(j) => PastDeciding(j)'
         /\ TimedOut(j) => TimedOut(j)'
         /\ TimedOut(j)' => TimedOut(j) \/ (jjob = j /\ jstep = "forget")
         /\ Settled(j)' => Settled(j) \/ (jjob = j /\ jstep = "free")
  <1>1. StatusMove(j)
    BY StatusMoves
  <1>2. PastSending(j) => PastSending(j)'
    BY <1>1 DEF StatusMove, PastSending
  <1>3. PastDeciding(j) => PastDeciding(j)'
    BY <1>1 DEF StatusMove, PastSending, PastDeciding
  <1>4. jjob = j /\ jstep = "timeout" => jobs'[j].status = "REGISTER_TIMEOUT"
    BY StepAction DEF SetRegisterTimeout, SetJobStatus, TypeOK, TablesTypeOK
  <1>5. TimedOut(j) => TimedOut(j)'
    BY <1>1, <1>4 DEF StatusMove, TimedOut
  <1>6. TimedOut(j)' => TimedOut(j) \/ (jjob = j /\ jstep = "forget")
    <2>1. jjob' = j /\ jstep' = "timeout" => jjob = j /\ jstep = "forget"
      BY StepMoves DEF TypeOK, JobdTypeOK, Step
    <2> QED BY <1>1, <2>1 DEF StatusMove, TimedOut
  <1>7. Settled(j)' => Settled(j) \/ (jjob = j /\ jstep = "free")
    <2>1. jjob' = j /\ jstep' \in {"list", "list_data", "running"} =>
             jjob = j /\ jstep \in {"free", "list", "list_data"}
      BY StepMoves DEF TypeOK, JobdTypeOK, Step
    <2> QED BY <1>1, <2>1 DEF StatusMove, Settled
  <1> QED BY <1>2, <1>3, <1>5, <1>6, <1>7

\* Rows of splayd_selections come by one statement and go by one, and are selected
\* in one loop.
LEMMA JobdSelects ==
  ASSUME TypeOK, JobdStep, NEW d, NEW j \in Job
  PROVE  /\ IsAsked(d, j) => IsAsked(d, j)' \/ (jjob = j /\ jstep = "forget")
         /\ IsSelected(d, j) => IsSelected(d, j)' \/ (jjob = j /\ jstep = "forget")
         /\ IsSelected(d, j)' => IsSelected(d, j) \/ (jjob = j /\ jstep = "select")
         /\ IsAsked(d, j)' => IsAsked(d, j) \/ (jjob = j /\ jstep = "selections" /\ d \in jset)
         /\ jjob = j /\ jstep = "selections" /\ d \in jset => IsAsked(d, j)'
  <1>t. selections \in SUBSET Selection
    BY DEF TypeOK, TablesTypeOK
  <1>1. CASE InsertSelections
    <2>1. jstep = "selections"
      BY <1>1 DEF InsertSelections, Statement
    <2> DEFINE n(e) == Cardinality({s \in SelectionsOf(jjob) : s.splayd = e})
               row(e) == [splayd |-> e, job |-> jjob, seq |-> n(e),
                          selected |-> FALSE, replied |-> FALSE, reset |-> FALSE]
    <2>2. selections' = selections \cup {row(e) : e \in jset}
      BY <1>1 DEF InsertSelections
    <2>3. \A e : row(e).splayd = e /\ row(e).job = jjob /\ row(e).selected = FALSE
      OBVIOUS
    <2> HIDE DEF row
    <2>4. ASSUME NEW s \in selections'
          PROVE  s \in selections \/ (s.job = jjob /\ s.splayd \in jset /\ s.selected = FALSE)
      BY <2>2, <2>3
    <2>5. jjob = j /\ d \in jset => IsAsked(d, j)'
      BY <2>2, <2>3 DEF IsAsked
    <2>6. (IsAsked(d, j) => IsAsked(d, j)') /\ (IsSelected(d, j) => IsSelected(d, j)')
      BY <2>2 DEF IsAsked, IsSelected
    <2>7. IsSelected(d, j)' => IsSelected(d, j)
      BY <2>4 DEF IsSelected
    <2>8. IsAsked(d, j)' => IsAsked(d, j) \/ (jjob = j /\ d \in jset)
      BY <2>4 DEF IsAsked
    <2> QED BY <2>1, <2>5, <2>6, <2>7, <2>8
  <1>2. CASE DeleteSelections
    <2>1. jstep = "forget" /\ selections' = selections \ SelectionsOf(jjob)
      BY <1>2 DEF DeleteSelections, Statement
    <2> QED BY <2>1 DEF IsAsked, IsSelected, SelectionsOf
  <1>3. ASSUME NEW e \in Splayd, SelectSplayd(e)
        PROVE  /\ IsAsked(d, j) <=> IsAsked(d, j)'
               /\ IsSelected(d, j) => IsSelected(d, j)'
               /\ IsSelected(d, j)' => IsSelected(d, j) \/ jjob = j
               /\ jstep = "select"
    <2> DEFINE f(s) == IF s.job = jjob /\ s.splayd = e THEN [s EXCEPT !.selected = TRUE] ELSE s
    <2>1. \A s \in selections : /\ f(s).job = s.job /\ f(s).splayd = s.splayd
                                /\ s.selected => f(s).selected
                                /\ f(s).selected => s.selected \/ s.job = jjob
      BY <1>t DEF Selection
    <2>2. selections' = {f(s) : s \in selections} /\ jstep = "select"
      BY <1>3 DEF SelectSplayd, Turn
    <2> HIDE DEF f
    <2>3. IsAsked(d, j) <=> IsAsked(d, j)'
      BY <2>1, <2>2 DEF IsAsked
    <2>4. IsSelected(d, j) => IsSelected(d, j)'
      BY <2>1, <2>2 DEF IsSelected
    <2>5. IsSelected(d, j)' => IsSelected(d, j) \/ jjob = j
      BY <2>1, <2>2 DEF IsSelected
    <2> QED BY <2>2, <2>3, <2>4, <2>5
  <1>4. CASE selections' = selections /\ ~InsertSelections
    <2>1. jstep # "selections"
      BY <1>4, StepAction
    <2> QED BY <1>4, <2>1 DEF IsAsked, IsSelected
  <1>5. /\ jstep = "selections" => InsertSelections
        /\ InsertSelections \/ DeleteSelections \/ Selects \/ selections' = selections
    BY StepAction DEF JobdStep, Selects, NextPhase, StatusLocal, StatusQueued,
       SelectSplayds, StatusRegistering, KeepRegistering, RegisterTimeout, StatusRunning, KillMaxTime,
       ExecuteKill, InsertSplaydJobs, InsertRegisters, CommitRegisters, SetRegistering,
       FreeOthers, SendAllList, CommitList, SetRunning, SendStart, FreeAll,
       SetRegisterTimeout, tables
  <1>6. CASE Selects
    BY <1>3, <1>6 DEF Selects
  <1> QED BY <1>1, <1>2, <1>4, <1>5, <1>6

\* The daemons of a job come from what is available, or from its rows.
LEMMA JobsDaemons ==
  ASSUME JobdStep, NEW d \in jset'
  PROVE  d \in jset \/ splayds[d].status = "AVAILABLE" \/ \E j \in Job : IsAsked(d, j)
  <1>1. ASSUME NEW j \in Job, NEW p, NEW late, NEW timeout, SelectSplayds(j, p, late, timeout)
        PROVE  d \in jset \/ splayds[d].status = "AVAILABLE"
    BY <1>1 DEF SelectSplayds, Done, GoesOn, Chosen, Occupation, Candidates
  <1>2. ASSUME NEW j \in Job, StatusRegistering(j) \/ RegisterTimeout(j) PROVE IsAsked(d, j)
    BY <1>2 DEF StatusRegistering, RegisterTimeout, GoesOn, Replied, AskedDaemons, SelectionsOf,
       IsAsked
  <1>3. CASE jset' \subseteq jset
    BY <1>3
  <1> QED BY <1>1, <1>2, <1>3
       DEF JobdStep, NextPhase, StatusLocal, StatusQueued, KeepRegistering, StatusRunning,
       KillMaxTime, ExecuteKill, Done, InsertSelections, InsertSplaydJobs, InsertRegisters,
       CommitRegisters, SetRegistering, SelectSplayd, FreeOthers, SendAllList, CommitList,
       SetRunning, SendStart, FreeAll, DeleteSelections, SetRegisterTimeout, Statement, Turn,
       LastStatement

\* Replies and resets change neither.
LEMMA SameAsked ==
  ASSUME SameSelected, NEW d, NEW j
  PROVE  (IsAsked(d, j)' <=> IsAsked(d, j)) /\ (IsSelected(d, j)' <=> IsSelected(d, j))
  BY DEF SameSelected, SameRow, IsAsked, IsSelected

---------------------------------------------------------------------------
(* Before a daemon is available, and as long as nothing fails *)

\* Where the thread of a daemon that is not disturbed can come from.
LEMMA ThreadFrom ==
  ASSUME TypeOK, Sessions, NEW k \in Conn, ThreadStep(k), Undisturbed(k)
  PROVE  /\ tpc'[k] \in Before =>
              /\ tpc[k] \in Before
              /\ ReadRow(k) \/ ResetSession(SplaydOf(k)) \/ AskInfos(k) \/ InfosOK(k)
         /\ tpc'[k] \notin Restoring
         /\ tpc'[k] \in Served => tpc[k] \in Served \/ (tpc[k] = "log" /\ Available(k))
         /\ tpc'[k] # "none" /\ tpc[k] # "none" /\ tpc[k] # "dead"
  <1> DEFINE d == SplaydOf(k)
  <1>t. tpc \in [Conn -> Pc]
    BY DEF TypeOK, ThreadTypeOK
  <1>1. CASE Authenticate(k)
    <2>1. ~SameSession(k)
      BY <1>1, NeverSameSession DEF Authenticate, At
    <2> QED BY <1>1, <1>t, <2>1 DEF Authenticate, At, Goto, Before, Served, Serving, Restoring
  <1>2. CASE ReadFailed(k)
    <2>1. ActionsOf(d, "FAILURE") = {}
      BY <1>2 DEF ReadFailed, At, Undisturbed, ActionsOf, Served
    <2> QED BY <1>2, <1>t, <2>1 DEF ReadFailed, GoesOnWith, At, Goto, Before, Served, Serving,
         Restoring
  <1>3. tpc[k] \notin {"restore", "free", "register"}
    BY DEF Undisturbed, Restoring
  <1>4. CASE ReadRow(k) \/ AskInfos(k) \/ InfosOK(k) \/ Available(k)
    BY <1>4, <1>t DEF ReadRow, AskInfos, InfosOK, Available, At, Goto, Before, Served, Serving,
       Restoring
  <1>5. CASE \/ AuthFails(k) \/ MainFails(k) \/ PickAction(k) \/ SendAction(k)
             \/ ApplyReply(k) \/ ReplyNotOK(k) \/ FinishAction(k)
    BY <1>5, <1>t DEF AuthFails, MainFails, PickAction, SendAction, ApplyReply, ReplyNotOK,
       FinishAction, EndMain, At, Goto, Before, Served, Serving, Restoring
  <1> QED BY <1>1, <1>2, <1>3, <1>4, <1>5
       DEF ThreadStep, RestoreAction, DeleteRegister, FreeFirst, RegisterAgain, At

LEMMA UnusedStays ==
  ASSUME TypeOK, TypeOK', Wire, Sessions, Ids, [Next]_vars, NEW k \in Conn,
         Alone(k), Alone(k)', Unused(k), Undisturbed(k)
  PROVE  Unused(k)'
  <1> DEFINE d == SplaydOf(k)
  <1> SUFFICES ASSUME tpc'[k] \in Before
               PROVE  /\ splayds'[d].status \notin {"AVAILABLE", "UNAVAILABLE"}
                      /\ d \notin jset'
                      /\ \A a \in actions' : a.splayd # d
                      /\ \A s \in selections' : s.splayd # d
                      /\ djobs'[d] = NoJobs
    BY DEF Unused, SplaydOf, NoJobs
  <1>d. d \in Splayd
    BY SplaydOfType
  <1>t. /\ splayds \in [Splayd -> [status : SplaydStatus, session : Nat]]
        /\ selections \in SUBSET Selection /\ actions \in SUBSET Action
        /\ tpc \in [Conn -> Pc] /\ djobs \in [Splayd -> [Job -> DaemonJobStatus]]
    BY DEF TypeOK, TablesTypeOK, ThreadTypeOK, DaemonTypeOK
  <1>u. ASSUME tpc[k] \in Before
        PROVE  /\ splayds[d].status \notin {"AVAILABLE", "UNAVAILABLE"}
               /\ d \notin jset
               /\ \A a \in actions : a.splayd # d
               /\ \A s \in selections : s.splayd # d
               /\ djobs[d] = NoJobs
    BY <1>u DEF Unused
  <1>1. CASE ThreadRuns(k)
    <2>1. ThreadStep(k) /\ jset' = jset
      BY <1>1 DEF ThreadRuns, jobdVars
    <2>2. /\ tpc[k] \in Before
          /\ ReadRow(k) \/ ResetSession(d) \/ AskInfos(k) \/ InfosOK(k)
      BY <2>1, ThreadFrom
    <2>3. djobs' = djobs
      BY <2>1, ThreadOwn
    <2>4. CASE ReadRow(k) \/ InfosOK(k)
      BY <1>u, <2>1, <2>2, <2>3, <2>4 DEF ReadRow, InfosOK, tables
    <2>5. CASE ResetSession(d)
      BY <1>d, <1>t, <1>u, <2>1, <2>2, <2>3, <2>5 DEF ResetSession
    <2>6. CASE AskInfos(k)
      <3>1. ResetJobs(d)
        BY <2>6 DEF AskInfos
      <3>2. SameSelected
        BY <3>1, ResetJobsSelected
      <3> QED BY <1>u, <2>1, <2>2, <2>3, <3>1, <3>2 DEF ResetJobs, SameSelected, SameRow
    <2> QED BY <2>2, <2>4, <2>5, <2>6
  <1>2. CASE Executes(k)
    <2>1. UNCHANGED <<tables, threadVars, jobdVars>> /\ \E busy \in BOOLEAN : Execute(d, k, busy)
      BY <1>2 DEF Executes
    <2>2. tpc[k] \in Before
      BY <2>1 DEF threadVars
    <2>3. Shape(k)
      BY DEF Wire
    <2>4. req[k] = <<>> \/ Head(req[k]).cmd \in {"AUTH", "INFOS", "LOG"}
      BY <2>2, <2>3, GreetingParts, OneMessage DEF Shape, Before, Silent, Greets, InfosMessage,
         LogMessage
    <2>5. ReceiveSession(d, k) \/ ReceiveSettings(d, k)
      BY <2>1, <2>4 DEF Execute, Register, Free, List, Start, Receives
    <2>6. djobs'[d] = djobs[d] \/ djobs'[d] = NoJobs
      BY <1>d, <1>t, <2>5 DEF ReceiveSession, ReceiveSettings
    <2> QED BY <1>u, <2>1, <2>2, <2>6 DEF tables, jobdVars
  <1>3. CASE Opens(k)
    <2>1. tpc[k] \in Before
      BY <1>3 DEF Opens, Before
    <2> QED BY <1>3, <1>u, <2>1 DEF Opens, tables, jobdVars
  <1>4. CASE JobdRuns
    <2>1. JobdStep /\ UNCHANGED <<daemonVars, threadVars>>
      BY <1>4 DEF JobdRuns
    <2>2. tpc[k] \in Before
      BY <2>1 DEF threadVars
    <2>3. splayds' = splayds
      BY <2>1 DEF JobdStep, FreesAll, NextPhase, StatusLocal, StatusQueued, SelectSplayds,
         StatusRegistering, SelectSplayd, KeepRegistering, RegisterTimeout, StatusRunning,
         KillMaxTime, ExecuteKill, InsertSelections, InsertSplaydJobs, InsertRegisters,
         CommitRegisters, SetRegistering, FreeOthers, SendAllList, CommitList, SetRunning,
         SendStart, FreeAll, DeleteSelections, SetRegisterTimeout, tables
    <2>5. \A j : ~IsAsked(d, j) /\ ~IsSelected(d, j)
      BY <1>u, <2>2 DEF IsAsked, IsSelected
    <2>4. d \notin jset'
      BY <1>u, <2>1, <2>2, <2>5, JobsDaemons
    <2>6. \A b \in actions' : b.splayd # d
      <3>1. SUFFICES ASSUME NEW b \in actions', b.splayd = d PROVE FALSE
        OBVIOUS
      <3>2. OldOrder(b) \/ Inserted(b)
        BY <2>1, JobdRows
      <3> QED BY <1>u, <2>2, <2>5, <3>1, <3>2 DEF OldOrder, SameOrder, Inserted
    <2>7. \A s \in selections' : s.splayd # d
      <3>1. SUFFICES ASSUME NEW s \in selections', s.splayd = d PROVE FALSE
        OBVIOUS
      <3>2. s.job \in Job
        BY DEF TypeOK, TablesTypeOK, Selection
      <3>3. IsAsked(d, s.job)'
        BY <3>1 DEF IsAsked
      <3>4. PICK j \in Job : j = s.job
        BY <3>2
      <3>5. IsAsked(d, j)'
        BY <3>1, <3>4 DEF IsAsked
      <3> QED BY <1>u, <2>1, <2>2, <2>5, <3>5, JobdSelects
    <2> QED BY <1>u, <2>1, <2>2, <2>3, <2>4, <2>6, <2>7 DEF daemonVars
  <1>5. CASE ControllerRestarts
    <2>1. /\ SplaydInit /\ jset' = {} /\ UNCHANGED <<djobs, selections>>
          /\ tpc' = [c \in Conn |-> IF tpc[c] = "none" THEN "none" ELSE "dead"]
      BY <1>5 DEF ControllerRestarts
    <2>2. tpc[k] \in Before
      BY <2>1 DEF Before
    <2>3. splayds'[d].status \notin {"AVAILABLE", "UNAVAILABLE"}
      BY <1>d, <1>t, <1>u, <2>1, <2>2 DEF SplaydInit
    <2>4. \A a \in actions' : a.splayd # d
      BY <1>t, <1>u, <2>1, <2>2 DEF SplaydInit, ResetActions, Action
    <2> QED BY <1>u, <2>1, <2>2, <2>3, <2>4
  <1>6. CASE UnseenReset(d)
    <2>1. unseen[d] # "seen" /\ UNCHANGED threadVars
      BY <1>6 DEF UnseenReset
    <2> QED BY <2>1 DEF threadVars, Undisturbed, Before
  <1>7. CASE Quiet(k)
    <2>1. /\ tpc[k] \in Before /\ splayds'[d].status = splayds[d].status
          /\ \A j \in Job : djobs'[d][j] \in {djobs[d][j], "none"}
          /\ \A a : a.splayd = d => (a \in actions' <=> a \in actions)
          /\ SameSelected /\ jset' = jset
      BY <1>7 DEF Quiet, jobdVars
    <2>2. djobs'[d] = NoJobs
      <3>1. djobs'[d] \in [Job -> DaemonJobStatus]
        BY <1>d DEF TypeOK, DaemonTypeOK
      <3>2. \A j \in Job : djobs'[d][j] = "none"
        BY <1>u, <2>1 DEF NoJobs
      <3> QED BY <3>1, <3>2 DEF NoJobs
    <2>3. \A s \in selections' : s.splayd # d
      BY <1>u, <2>1 DEF SameSelected, SameRow
    <2> QED BY <1>u, <2>1, <2>2, <2>3
  <1> QED BY <1>1, <1>2, <1>3, <1>4, <1>5, <1>6, <1>7, FirstStep

LEMMA NoFailureAdded ==
  ASSUME TypeOK, JobdStep
  PROVE  NoNew("FAILURE")
  <1>1. actions \in SUBSET Action
    BY DEF TypeOK, TablesTypeOK
  <1>2. CASE InsertRegisters \/ FreeOthers \/ SendAllList \/ SendStart \/ FreesAll
    <2>1. PICK sels, c, st : InsertActions(sels, c, st) /\ st # "FAILURE"
      <3>1. CASE FreesAll
        <4>1. PICK d \in Splayd : FreeAll(d)
          BY <3>1 DEF FreesAll
        <4>2. PICK rows : rows = {s \in SelectionsOf(jjob) : s.splayd = d}
          OBVIOUS
        <4>3. InsertActions(rows, "FREE", "WAITING")
          BY <4>1, <4>2 DEF FreeAll
        <4> QED BY <4>3
      <3> QED BY <1>2, <3>1 DEF InsertRegisters, FreeOthers, SendAllList, SendStart
    <2> QED BY <2>1, InsertNoNew
  <1>3. CASE CommitRegisters \/ CommitList
    <2>1. PICK rows : actions' = SetActionStatus(rows, "WAITING")
      BY <1>3 DEF CommitRegisters, CommitList, CommitActions
    <2> QED BY <1>1, <2>1, SetActionStatusNoNew DEF ActionStatus
  <1>4. CASE actions' \in SUBSET actions
    BY <1>4 DEF NoNew
  <1> QED BY <1>2, <1>3, <1>4
       DEF JobdStep, FreesAll, NextPhase, StatusLocal, StatusQueued, SelectSplayds,
       StatusRegistering, SelectSplayd, KeepRegistering, RegisterTimeout, StatusRunning,
       KillMaxTime, ExecuteKill, InsertSelections, InsertSplaydJobs, SetRegistering,
       SetRunning, DeleteSelections, SetRegisterTimeout, tables

LEMMA UndisturbedStays ==
  ASSUME TypeOK, Wire, Sessions, Ids, [Next]_vars, NEW k \in Conn,
         Alone(k), Alone(k)', Unused(k), Undisturbed(k)
  PROVE  Undisturbed(k)'
  <1> DEFINE d == SplaydOf(k)
  <1> SUFFICES /\ tpc'[k] # "dead" => unseen'[d] = "seen"
               /\ tpc'[k] \notin Restoring
               /\ tpc'[k] \in Served => \A a \in actions' : a.splayd = d => a.status # "FAILURE"
    BY DEF Undisturbed, SplaydOf, Restoring, Served, Serving
  <1>d. d \in Splayd
    BY SplaydOfType
  <1>t. actions \in SUBSET Action /\ tpc \in [Conn -> Pc]
    BY DEF TypeOK, TablesTypeOK, ThreadTypeOK
  <1>u. /\ tpc[k] # "dead" => unseen[d] = "seen"
        /\ tpc[k] \notin Restoring
        /\ tpc[k] \in Served => \A a \in actions : a.splayd = d => a.status # "FAILURE"
    BY DEF Undisturbed
  <1>1. CASE ThreadRuns(k)
    <2>1. ThreadStep(k) /\ unseen' = unseen
      BY <1>1 DEF ThreadRuns, NoEvent, Fault
    <2>2. /\ tpc'[k] \notin Restoring
          /\ tpc'[k] \in Served => tpc[k] \in Served \/ (tpc[k] = "log" /\ Available(k))
          /\ tpc[k] # "dead"
      BY <2>1, ThreadFrom
    <2>3. CASE tpc'[k] \in Served /\ tpc[k] = "log" /\ Available(k)
      <3>1. \A a \in actions : a.splayd # d
        BY <2>3 DEF Unused, Before
      <3> QED BY <1>u, <2>1, <2>2, <2>3, <3>1 DEF Available
    <2>4. CASE tpc'[k] \in Served /\ tpc[k] \in Served
      <3>1. ~MainFails(k) /\ ~ReplyNotOK(k)
        BY <1>t, <2>4 DEF MainFails, ReplyNotOK, EndMain, Goto, Served, Serving
      <3>2. NoNew("FAILURE")
        <4>1. CASE SendAction(k)
          BY <1>t, <4>1, SetActionStatusNoNew DEF SendAction, MarkSending, ActionStatus
        <4>2. CASE actions' \in SUBSET actions
          BY <4>2 DEF NoNew
        <4>3. FinishAction(k) => actions' \in SUBSET actions
          BY DEF FinishAction, RemoveAction
        <4> QED BY <2>1, <2>4, <3>1, <4>1, <4>2, <4>3
             DEF ThreadStep, ReadRow, Authenticate, AskInfos, InfosOK, Available, ReadFailed,
             RestoreAction, DeleteRegister, FreeFirst, RegisterAgain, AuthFails, PickAction,
             ApplyReply, At, tables, Served, Serving
      <3> QED BY <1>u, <2>1, <2>2, <2>4, <3>2 DEF NoNew
    <2> QED BY <1>u, <2>1, <2>2, <2>3, <2>4
  <1>2. CASE Executes(k)
    BY <1>2, <1>u DEF Executes, tables, threadVars
  <1>3. CASE Opens(k)
    BY <1>3, <1>u DEF Opens, Restoring, Served, Serving
  <1>4. CASE JobdRuns
    <2>1. NoNew("FAILURE")
      BY <1>4, NoFailureAdded DEF JobdRuns
    <2> QED BY <1>4, <1>u, <2>1 DEF JobdRuns, NoEvent, threadVars, NoNew
  <1>5. CASE ControllerRestarts
    <2>1. tpc'[k] \in {"none", "dead"} /\ unseen' = AllSeen
      BY <1>5 DEF ControllerRestarts
    <2> QED BY <1>d, <2>1 DEF AllSeen, Restoring, Served, Serving
  <1>6. CASE UnseenReset(d)
    <2>1. unseen[d] # "seen" /\ UNCHANGED threadVars
      BY <1>6 DEF UnseenReset
    <2> QED BY <1>u, <2>1 DEF threadVars, Restoring, Served, Serving
  <1>7. CASE Quiet(k)
    <2>1. /\ tpc'[k] = tpc[k]
          /\ unseen'[d] = "seen" \/ unseen[d] # "seen" \/ (d \in Unseen /\ tpc[k] \notin Contacted)
          /\ \A a : a.splayd = d => (a \in actions' <=> a \in actions)
      BY <1>7 DEF Quiet
    <2>2. tpc[k] # "dead" => ~(d \in Unseen /\ tpc[k] \notin Contacted)
      <3>1. tpc[k] \in Before => d \notin Unseen
        BY DEF Unused, Unseen
      <3>2. tpc[k] \notin Before \cup {"dead"} => tpc[k] \in Contacted
        BY <1>t DEF Before, Contacted, Serving, Pc
      <3> QED BY <3>1, <3>2
    <2> QED BY <1>u, <2>1, <2>2
  <1> QED BY <1>1, <1>2, <1>3, <1>4, <1>5, <1>6, <1>7, FirstStep

---------------------------------------------------------------------------
(* The steps of a daemon that is served *)

LEMMA ServedStep ==
  ASSUME TypeOK, Wire, Sessions, Ids, [Next]_vars, NEW k \in Conn, Alone(k), Alone(k)',
         Undisturbed(k), tpc'[k] \in Served
  PROVE  \/ ThreadRuns(k) /\ tpc[k] = "log" /\ Available(k)
         \/ tpc[k] \in Served /\ ThreadRuns(k)
         \/ tpc[k] \in Served /\ tpc'[k] = tpc[k] /\ (Executes(k) \/ JobdRuns \/ Quiet(k))
  <1>1. CASE ThreadRuns(k)
    BY <1>1, ThreadFrom DEF ThreadRuns
  <1>2. ~Opens(k) /\ ~ControllerRestarts
    BY DEF Opens, ControllerRestarts, Served, Serving
  <1>3. CASE Executes(k) \/ JobdRuns \/ Quiet(k)
    BY <1>3 DEF Executes, JobdRuns, Quiet, threadVars
  <1>4. ~UnseenReset(SplaydOf(k))
    <2>1. SUFFICES ASSUME UnseenReset(SplaydOf(k)) PROVE FALSE
      OBVIOUS
    <2>2. unseen[SplaydOf(k)] # "seen" /\ tpc'[k] = tpc[k]
      BY <2>1 DEF UnseenReset, threadVars
    <2> QED BY <2>2 DEF Undisturbed, Served, Serving
  <1> QED BY <1>1, <1>2, <1>3, <1>4, FirstStep

\* The rows of a daemon that is served are the scheduler's.
LEMMA ServedRows ==
  ASSUME TypeOK, NEW k \in Conn, tpc[k] \in Served,
         ThreadRuns(k) \/ Executes(k) \/ JobdRuns \/ Quiet(k),
         NEW b \in actions', b.splayd = SplaydOf(k)
  PROVE  OldOrder(b) \/ (JobdRuns /\ Inserted(b))
  <1>1. CASE ThreadRuns(k)
    <2>1. ThreadStep(k)
      BY <1>1 DEF ThreadRuns
    <2>2. SameOrders \/ \A x \in actions' : x \in actions
      BY <2>1, ThreadOrders
    <2> QED BY <2>2, OrderParts DEF SameOrders, OldOrder
  <1>2. CASE Executes(k) \/ Quiet(k)
    <2>1. b \in actions
      BY <1>2 DEF Executes, Quiet, tables
    <2> QED BY <2>1, OrderParts DEF OldOrder
  <1>3. CASE JobdRuns
    BY <1>3, JobdRows DEF JobdRuns
  <1> QED BY <1>1, <1>2, <1>3

\* What the thread is at was there, or was just picked.
LEMMA ServedHand ==
  ASSUME TypeOK, Sessions, NEW k \in Conn, tpc[k] \in Served, tpc'[k] \in InThread,
         ThreadRuns(k) \/ Executes(k) \/ JobdRuns \/ Quiet(k)
  PROVE  \/ tpc[k] \in InThread /\ taction'[k] = taction[k]
         \/ /\ ThreadRuns(k) /\ tpc[k] = "main" /\ PickAction(k) /\ actions' = actions
            /\ tpc'[k] = "picked" /\ taction'[k] \in actions
            /\ FirstWaiting(SplaydOf(k), taction'[k])
  <1>1. CASE ThreadRuns(k)
    <2>1. ThreadStep(k) /\ tpc'[k] \in Holding
      BY <1>1 DEF ThreadRuns, Holding, InThread
    <2>2. \/ tpc[k] \in Holding /\ taction'[k] = taction[k]
          \/ tpc[k] = "main" /\ PickAction(k)
      BY <2>1, ThreadHolds DEF Served, Serving
    <2>3. tpc[k] \in Holding => tpc[k] \in InThread
      BY DEF Holding, InThread, Served, Serving
    <2>4. CASE PickAction(k) /\ tpc[k] = "main"
      <3>1. PICK a \in actions : /\ FirstWaiting(SplaydOf(k), a)
                                 /\ taction' = [taction EXCEPT ![k] = a]
        BY <2>4 DEF PickAction
      <3>2. taction'[k] = a /\ actions' = actions /\ tpc'[k] = "picked"
        BY <2>4, <3>1 DEF PickAction, Goto, tables, TypeOK, ThreadTypeOK
      <3> QED BY <1>1, <2>4, <3>1, <3>2
    <2> QED BY <2>2, <2>3, <2>4
  <1>2. CASE Executes(k) \/ JobdRuns \/ Quiet(k)
    <2>1. tpc'[k] = tpc[k] /\ taction'[k] = taction[k]
      BY <1>2 DEF Executes, JobdRuns, Quiet, threadVars
    <2> QED BY <2>1
  <1> QED BY <1>1, <1>2

LEMMA NumberedStays ==
  ASSUME TypeOK, Sessions, Ids, [Next]_vars, NEW k \in Conn, tpc[k] \in Served,
         ThreadRuns(k) \/ Executes(k) \/ JobdRuns \/ Quiet(k), Numbered(k)
  PROVE  Numbered(k)'
  <1> DEFINE d == SplaydOf(k)
  <1>d. d \in Splayd
    BY SplaydOfType
  <1>t. /\ nextAction \in [Splayd -> Nat] /\ actions \in SUBSET Action
        /\ nextAction[d] \in Nat /\ nextAction'[d] \in Nat
        /\ actions' \in SUBSET Action
    BY <1>d, NextType DEF TypeOK, TablesTypeOK
  <1>n. nextAction[d] <= nextAction'[d]
    BY <1>d, ActionsChange DEF ActionsStep
  <1>i. \A a \in actions : a.id \in Nat /\ (a.splayd = d => a.id < nextAction[d])
    BY <1>t DEF Ids, Action
  <1>b. \A b \in actions' : b.splayd = d =>
           OldOrder(b) \/ (b.job = jjob /\ b.id \in Nat /\ nextAction[d] <= b.id)
    BY <1>t, ServedRows DEF Inserted, Fresh, Action
  <1>1. ASSUME NEW a \in actions', NEW b \in actions', a.splayd = d, b.splayd = d, a.id = b.id
        PROVE  a.job = b.job
    <2>1. CASE OldOrder(a) /\ OldOrder(b)
      BY <1>1, <2>1 DEF OldOrder, SameOrder, Numbered
    <2>2. OldOrder(a) => a.id < nextAction[d]
      BY <1>1, <1>i DEF OldOrder, SameOrder
    <2>3. OldOrder(b) => b.id < nextAction[d]
      BY <1>1, <1>i DEF OldOrder, SameOrder
    <2>4. a.id \in Nat /\ b.id \in Nat
      BY <1>t DEF Action
    <2> QED BY <1>1, <1>b, <1>t, <2>1, <2>2, <2>3, <2>4
  <1>2. ASSUME tpc'[k] \in InThread
        PROVE  /\ taction'[k].splayd = d /\ taction'[k].id < nextAction'[d]
               /\ \A b \in actions' : b.splayd = d /\ b.id = taction'[k].id =>
                     b.cmd = taction'[k].cmd /\ b.job = taction'[k].job
    <2>1. CASE tpc[k] \in InThread /\ taction'[k] = taction[k]
      <3>1. /\ taction[k].splayd = d /\ taction[k].id < nextAction[d]
            /\ \A b \in actions : b.splayd = d /\ b.id = taction[k].id =>
                     b.cmd = taction[k].cmd /\ b.job = taction[k].job
        BY <2>1 DEF Numbered
      <3>2. taction[k] \in Action
        BY <2>1 DEF InThread, Holding, TypeOK, ThreadTypeOK
      <3>3. taction[k].id \in Nat
        BY <3>2 DEF Action
      <3>4. taction[k].id < nextAction'[d]
        BY <1>n, <1>t, <3>1, <3>3
      <3>5. ASSUME NEW b \in actions', b.splayd = d, b.id = taction[k].id
            PROVE  b.cmd = taction[k].cmd /\ b.job = taction[k].job
        <4>1. OldOrder(b)
          BY <1>b, <1>t, <3>1, <3>3, <3>5
        <4> QED BY <3>1, <3>5, <4>1 DEF OldOrder, SameOrder
      <3> QED BY <2>1, <3>1, <3>4, <3>5
    <2>2. CASE /\ taction'[k] \in actions /\ FirstWaiting(SplaydOf(k), taction'[k])
               /\ actions' = actions
      <3>1. taction'[k].splayd = d
        BY <2>2 DEF FirstWaiting, FirstOf, ActionsOf
      <3>2. taction'[k].id < nextAction'[d]
        BY <1>i, <1>n, <1>t, <2>2, <3>1
      <3>3. \A b \in actions : b.splayd = d /\ b.id = taction'[k].id =>
              b.cmd = taction'[k].cmd /\ b.job = taction'[k].job
        BY <2>2, <3>1 DEF Numbered, Ids, OneCommand
      <3> QED BY <2>2, <3>1, <3>2, <3>3
    <2> QED BY <1>2, <2>1, <2>2, ServedHand
  <1> QED BY <1>1, <1>2 DEF Numbered, SplaydOf, InThread

LEMMA InOrderStays ==
  ASSUME TypeOK, Known, Ids, FirstAsk, [Next]_vars, NEW k \in Conn, tpc[k] \in Served,
         ThreadRuns(k) \/ Executes(k) \/ JobdRuns \/ Quiet(k),
         InOrder(k), \A j \in Job : Late(k, j)
  PROVE  InOrder(k)'
  <1> DEFINE d == SplaydOf(k)
  <1> SUFFICES ASSUME NEW a \in actions', NEW b \in actions', a.splayd = d, b.splayd = d,
                      a.job = b.job, Precedes(a.cmd, b.cmd)
               PROVE  a.id < b.id
    BY DEF InOrder, SplaydOf, Precedes
  <1>d. d \in Splayd
    BY SplaydOfType
  <1>t. nextAction[d] \in Nat /\ a.id \in Nat /\ b.id \in Nat /\ a.job \in Job
    BY <1>d, NextType DEF TypeOK, TablesTypeOK, Action
  <1>1. (OldOrder(a) \/ (JobdRuns /\ Inserted(a))) /\ (OldOrder(b) \/ (JobdRuns /\ Inserted(b)))
    BY ServedRows
  <1>2. CASE OldOrder(a) /\ OldOrder(b)
    BY <1>2 DEF OldOrder, SameOrder, InOrder
  <1>3. CASE OldOrder(a) /\ Inserted(b)
    <2>1. a.id < nextAction[d]
      BY <1>3 DEF OldOrder, SameOrder, Ids
    <2>2. nextAction[d] <= b.id
      BY <1>3 DEF Inserted, Fresh
    <2> QED BY <1>t, <2>1, <2>2
  <1>4. CASE Inserted(a) /\ OldOrder(b)
    <2>1. PICK b0 \in actions : b0.splayd = d /\ b0.job = a.job /\ b0.cmd = b.cmd
      BY <1>4 DEF OldOrder, SameOrder
    <2>2. a.job = jjob
      BY <1>4 DEF Inserted
    <2>3. a.cmd # "REGISTER"
      <3>1. SUFFICES ASSUME a.cmd = "REGISTER" PROVE FALSE
        OBVIOUS
      <3>2. jstep = "registers" /\ d \in jset
        BY <1>4, <3>1 DEF Inserted
      <3>3. NoActions(d, jjob)
        BY <3>2, ChosenUnheard DEF Unheard
      <3> QED BY <2>1, <2>2, <3>3 DEF NoActions
    <2>4. ~(a.cmd = "LIST" /\ b.cmd = "START")
      <3>1. SUFFICES ASSUME a.cmd = "LIST", b.cmd = "START" PROVE FALSE
        OBVIOUS
      <3>2. jstep = "list"
        BY <1>4, <3>1 DEF Inserted
      <3>3. jobs[jjob].status = "REGISTERING"
        BY <3>2 DEF Known, Deciding
      <3>4. Coming(k, jjob, "START")
        BY <2>1, <2>2, <3>1 DEF Coming, HasRow
      <3>5. PastDeciding(jjob)
        BY <1>t, <2>2, <3>4 DEF Late
      <3> QED BY <3>3, <3>5 DEF PastDeciding
    <2> QED BY <2>3, <2>4 DEF Precedes
  <1>5. CASE Inserted(a) /\ Inserted(b)
    BY <1>5 DEF Inserted, Precedes
  <1> QED BY <1>1, <1>2, <1>3, <1>4, <1>5

LEMMA ServiceBegins ==
  ASSUME TypeOK, NEW k \in Conn, ThreadRuns(k), tpc[k] = "log", Available(k), Unused(k)
  PROVE  Service(k)'
  <1>u. /\ \A a \in actions : a.splayd # SplaydOf(k)
        /\ SplaydOf(k) \notin jset /\ djobs[SplaydOf(k)] = NoJobs
    BY DEF Unused, Before
  <1>1. actions' = actions /\ djobs' = djobs /\ jset' = jset /\ tpc'[k] \notin InThread
    BY DEF ThreadRuns, Available, Goto, At, jobdVars, InThread, TypeOK, ThreadTypeOK
  <1>2. \A j, c : ~Coming(k, j, c)'
    BY <1>u, <1>1 DEF Coming, HasRow, Hands, SplaydOf
  <1>3. \A j \in Job : ~OnItsWay(k, j)' /\ djobs'[SplaydOf(k)][j] = "none"
    BY <1>u, <1>1, <1>2 DEF OnItsWay, NoJobs, SplaydOf
  <1>4. Numbered(k)' /\ InOrder(k)'
    BY <1>u, <1>1 DEF Numbered, InOrder, SplaydOf
  <1>5. ASSUME NEW j \in Job PROVE Follows(k, j)'
    <2>1. Late(k, j)' /\ InHand(k, j)' /\ Answered(k, j)'
      BY <1>1, <1>2 DEF Late, InHand, Answered, Hands
    <2>2. AskedOf(k, j)' /\ DoomedFreed(k, j)'
      BY <1>u, <1>1, <1>3 DEF AskedOf, DoomedFreed, SplaydOf
    <2>3. ListComes(k, j)'
      BY <1>2, <1>3 DEF ListComes, Waits, SplaydOf
    <2> QED BY <2>1, <2>2, <2>3 DEF Follows
  <1> QED BY <1>4, <1>5 DEF Service

---------------------------------------------------------------------------
(* A job and a daemon that is served *)

\* The scheduler inserts command c of job j for daemon d in this step.
Inserts(d, j, c) ==
  /\ JobdRuns /\ jjob = j
  /\ \/ jstep = "registers" /\ c = "REGISTER" /\ d \in jset
     \/ jstep = "list" /\ c = "LIST" /\ IsSelected(d, j)
     \/ jstep = "start" /\ c = "START" /\ IsSelected(d, j)
     \/ jstep \in {"free", "unregister"} /\ c = "FREE" /\ IsAsked(d, j)

LEMMA ComingFrom ==
  ASSUME TypeOK, Sessions, NEW k \in Conn, tpc[k] \in Served,
         ThreadRuns(k) \/ Executes(k) \/ JobdRuns \/ Quiet(k),
         NEW j, NEW c, Coming(k, j, c)'
  PROVE  Coming(k, j, c) \/ Inserts(SplaydOf(k), j, c)
  <1> DEFINE d == SplaydOf(k)
  <1>1. ASSUME NEW b \in actions', b.splayd = d, b.job = j, b.cmd = c
        PROVE  Coming(k, j, c) \/ Inserts(d, j, c)
    <2>1. CASE OldOrder(b)
      BY <1>1, <2>1 DEF OldOrder, SameOrder, Coming, HasRow
    <2>2. CASE JobdRuns /\ Inserted(b)
      BY <1>1, <2>2 DEF Inserted, Inserts
    <2> QED BY <1>1, <2>1, <2>2, ServedRows
  <1>2. ASSUME tpc'[k] \in InThread, taction'[k].job = j, taction'[k].cmd = c
        PROVE  Coming(k, j, c)
    <2>1. CASE tpc[k] \in InThread /\ taction'[k] = taction[k]
      BY <1>2, <2>1 DEF Coming, Hands
    <2>2. CASE taction'[k] \in actions /\ FirstWaiting(SplaydOf(k), taction'[k])
      BY <1>2, <2>2 DEF Coming, HasRow, FirstWaiting, FirstOf, ActionsOf
    <2> QED BY <1>2, <2>1, <2>2, ServedHand
  <1>3. (\E b \in actions' : b.splayd = d /\ b.job = j /\ b.cmd = c)
          \/ (tpc'[k] \in InThread /\ taction'[k].job = j /\ taction'[k].cmd = c)
    BY DEF Coming, HasRow, Hands, SplaydOf, InThread
  <1> QED BY <1>1, <1>2, <1>3

\* A row of the daemon only goes when its command is finished, or when its
\* registration timed out.
LEMMA RowStays ==
  ASSUME TypeOK, NEW k \in Conn, tpc[k] \in Served, Numbered(k),
         ThreadRuns(k) \/ Executes(k) \/ JobdRuns \/ Quiet(k),
         NEW j, NEW c, c # "REGISTER", HasRow(SplaydOf(k), j, c)
  PROVE  HasRow(SplaydOf(k), j, c)' \/ (FinishAction(k) /\ tpc[k] = "applied" /\ Hands(k, j, c))
  <1> DEFINE d == SplaydOf(k)
  <1>1. PICK a \in actions : a.splayd = d /\ a.job = j /\ a.cmd = c
    BY DEF HasRow
  <1>2. StillOrder(a) => HasRow(SplaydOf(k), j, c)'
    BY <1>1 DEF StillOrder, SameOrder, HasRow, SplaydOf
  <1>3. CASE ThreadRuns(k) /\ FinishAction(k)
    <2>1. actions' = {x \in actions : ~(x.splayd = d /\ x.id = taction[k].id)} /\ tpc[k] = "applied"
      BY <1>3 DEF FinishAction, RemoveAction, At
    <2>2. CASE a.id = taction[k].id
      <3>1. taction[k].job = j /\ taction[k].cmd = c
        BY <1>1, <2>1, <2>2 DEF Numbered, InThread
      <3> QED BY <1>3, <2>1, <3>1 DEF Hands, InThread
    <2>3. CASE a.id # taction[k].id
      <3>1. a \in actions'
        BY <1>1, <2>1, <2>3
      <3> QED BY <1>2, <3>1, OrderParts DEF StillOrder
    <2> QED BY <2>2, <2>3
  <1>4. CASE ThreadRuns(k) /\ ~FinishAction(k)
    <2>1. SameOrders
      BY <1>4, ThreadOrders DEF ThreadRuns
    <2> QED BY <1>2, <2>1 DEF SameOrders
  <1>5. CASE Executes(k) \/ Quiet(k)
    <2>1. a \in actions'
      BY <1>1, <1>5 DEF Executes, Quiet, tables
    <2> QED BY <1>2, <2>1, OrderParts DEF StillOrder
  <1>6. CASE JobdRuns
    <2>1. StillOrder(a)
      BY <1>1, <1>6, JobdRows DEF JobdRuns
    <2> QED BY <1>2, <2>1
  <1> QED BY <1>3, <1>4, <1>5, <1>6

\* What a command does to a job: it is the one the thread waits for.
LEMMA ExecutesJobs ==
  ASSUME TypeOK, Wire, NEW k \in Conn, tpc[k] \in Served, Executes(k),
         NEW d, d = SplaydOf(k), NEW j \in Job
  PROVE  /\ djobs'[d][j] # "none" => djobs[d][j] # "none" \/ Hands(k, j, "REGISTER")
         /\ djobs'[d][j] = "waiting" => djobs[d][j] = "waiting" \/ Hands(k, j, "REGISTER")
         /\ Hands(k, j, "FREE") => djobs'[d][j] = "none"
         /\ Hands(k, j, "LIST") => djobs'[d][j] # "waiting"
  <1>d. d \in Splayd
    BY SplaydOfType
  <1>t. djobs \in [Splayd -> [Job -> DaemonJobStatus]]
    BY DEF TypeOK, DaemonTypeOK
  <1>1. PICK busy \in BOOLEAN : Execute(d, k, busy)
    BY DEF Executes
  <1>2. req[k] # <<>>
    BY <1>1 DEF Execute, ReceiveSession, ReceiveSettings, Register, Free, List, Start, Receives
  <1>3. Shape(k)
    BY DEF Wire
  <1>4. tpc[k] = "wait" /\ req[k] = <<Order(taction[k])>>
    BY <1>2, <1>3 DEF Shape, Silent, Served, Serving
  <1> DEFINE m == Order(taction[k])
  <1>5. taction[k] \in Action
    BY <1>4 DEF TypeOK, ThreadTypeOK, Holding
  <1>6. /\ Head(req[k]) = m /\ m.cmd = taction[k].cmd /\ m.job = taction[k].job
        /\ taction[k].job \in Job /\ taction[k].cmd \in Command
    BY <1>4, <1>5, OneMessage DEF Order, Action
  <1>h. \A c : Hands(k, j, c) <=> m.job = j /\ m.cmd = c
    BY <1>4, <1>6 DEF Hands, InThread
  <1> HIDE DEF m
  <1>7. CASE Register(d, k, busy)
    <2>1. m.cmd = "REGISTER"
      BY <1>6, <1>7 DEF Register, Receives
    <2>2. djobs' = djobs \/ djobs' = [djobs EXCEPT ![d][m.job] = "waiting"]
      BY <1>6, <1>7 DEF Register, Breaks
    <2>3. djobs'[d][j] = djobs[d][j] \/ m.job = j
      BY <1>d, <1>t, <2>2
    <2> QED BY <1>h, <2>1, <2>3
  <1>8. CASE Free(d, k)
    <2>1. m.cmd = "FREE" /\ djobs' = [djobs EXCEPT ![d][m.job] = "none"]
      BY <1>6, <1>8 DEF Free, Receives
    <2>2. djobs'[d][j] = IF j = m.job THEN "none" ELSE djobs[d][j]
      BY <1>d, <1>t, <2>1
    <2> QED BY <1>h, <2>1, <2>2
  <1>9. CASE List(d, k)
    <2>1. /\ m.cmd = "LIST"
          /\ djobs' = [djobs EXCEPT ![d][m.job] = IF @ = "waiting" THEN "listed" ELSE @]
      BY <1>6, <1>9 DEF List, Receives
    <2>2. djobs'[d][j] = IF j = m.job /\ djobs[d][j] = "waiting" THEN "listed" ELSE djobs[d][j]
      BY <1>d, <1>t, <2>1
    <2> QED BY <1>h, <2>1, <2>2
  <1>10. CASE Start(d, k)
    <2>1. /\ m.cmd = "START"
          /\ \/ djobs' = djobs
             \/ djobs' = [djobs EXCEPT ![d][m.job] = IF @ = "listed" THEN "running" ELSE @]
      BY <1>6, <1>10 DEF Start, Receives, Breaks
    <2>2. \/ djobs'[d][j] = djobs[d][j]
          \/ djobs[d][j] = "listed" /\ djobs'[d][j] = "running"
      BY <1>d, <1>t, <2>1
    <2> QED BY <1>h, <2>1, <2>2
  <1>11. ~ReceiveSession(d, k) /\ ~ReceiveSettings(d, k)
    BY <1>6 DEF ReceiveSession, ReceiveSettings, Receives, Command
  <1> QED BY <1>1, <1>7, <1>8, <1>9, <1>10, <1>11 DEF Execute

\* Only the scheduler decides.
LEMMA StillDecided ==
  ASSUME TypeOK, NEW k \in Conn, ThreadRuns(k) \/ Executes(k) \/ Quiet(k), NEW j \in Job, NEW d
  PROVE  /\ UNCHANGED jobdVars
         /\ (PastSending(j)' <=> PastSending(j)) /\ (PastDeciding(j)' <=> PastDeciding(j))
         /\ (TimedOut(j)' <=> TimedOut(j)) /\ (Doomed(d, j)' <=> Doomed(d, j))
         /\ (IsAsked(d, j)' <=> IsAsked(d, j)) /\ (IsSelected(d, j)' <=> IsSelected(d, j))
  <1>1. /\ SameSelected /\ UNCHANGED jobdVars
        /\ \/ jobs'[j].status = jobs[j].status
           \/ jobs[j].status = "NONE" /\ jobs'[j].status = "LOCAL"
    <2>1. CASE ThreadRuns(k)
      BY <2>1, ThreadSelected DEF ThreadRuns
    <2>2. CASE Executes(k)
      BY <2>2, SameRows DEF Executes, tables
    <2>3. CASE Quiet(k)
      BY <2>3 DEF Quiet
    <2> QED BY <2>1, <2>2, <2>3
  <1>2. (IsAsked(d, j)' <=> IsAsked(d, j)) /\ (IsSelected(d, j)' <=> IsSelected(d, j))
    BY <1>1, SameAsked
  <1>3. jjob' = jjob /\ jstep' = jstep
    BY <1>1 DEF jobdVars
  <1>4. PastSending(j)' <=> PastSending(j)
    BY <1>1 DEF PastSending
  <1>5. PastDeciding(j)' <=> PastDeciding(j)
    BY <1>1 DEF PastSending, PastDeciding
  <1>6. TimedOut(j)' <=> TimedOut(j)
    BY <1>1, <1>3 DEF TimedOut
  <1>7. Settled(j)' <=> Settled(j)
    BY <1>1, <1>3 DEF Settled
  <1>8. Doomed(d, j)' <=> Doomed(d, j)
    BY <1>1, <1>2, <1>3, <1>6, <1>7 DEF Doomed, jobdVars
  <1> QED BY <1>1, <1>2, <1>4, <1>5, <1>6, <1>8

LEMMA LateStays ==
  ASSUME TypeOK, Sessions, Known, NEW k \in Conn, tpc[k] \in Served,
         ThreadRuns(k) \/ Executes(k) \/ JobdRuns \/ Quiet(k),
         NEW j \in Job, Late(k, j)
  PROVE  Late(k, j)'
  <1>1. (PastSending(j) => PastSending(j)') /\ (PastDeciding(j) => PastDeciding(j)')
    <2>1. CASE JobdRuns
      BY <2>1, JobdDecides DEF JobdRuns
    <2>2. CASE ~JobdRuns
      BY <2>2, StillDecided
    <2> QED BY <2>1, <2>2
  <1>2. ASSUME NEW c \in Command \ {"REGISTER"}, Coming(k, j, c)'
        PROVE  PastSending(j) /\ (c = "START" => PastDeciding(j))
    <2>1. CASE Coming(k, j, c)
      BY <1>2, <2>1 DEF Late
    <2>2. CASE Inserts(SplaydOf(k), j, c)
      <3>1. /\ jjob = j /\ jstep \in {"list", "start", "free", "unregister"}
            /\ c = "START" => jstep = "start"
        BY <1>2, <2>2 DEF Inserts
      <3>2. /\ jobs[j].status \in {"REGISTERING", "RUNNING"}
            /\ jstep = "start" => jobs[j].status = "RUNNING"
        BY <3>1 DEF Known, Deciding, GivingUp
      <3> QED BY <3>1, <3>2 DEF PastSending, PastDeciding
    <2> QED BY <1>2, <2>1, <2>2, ComingFrom
  <1> QED BY <1>1, <1>2 DEF Late, Command

LEMMA InHandStays ==
  ASSUME TypeOK, Wire, Sessions, Known, FirstAsk, SendingHasSender, TempHasWriter,
         NEW k \in Conn, Alone(k), tpc[k] \in Served, Undisturbed(k), InOrder(k),
         ThreadRuns(k) \/ Executes(k) \/ JobdRuns \/ Quiet(k),
         NEW j \in Job, Late(k, j), InHand(k, j)
  PROVE  InHand(k, j)'
  <1> DEFINE d == SplaydOf(k)
  <1> SUFFICES ASSUME NEW c \in Command, NEW e \in Command, Precedes(e, c),
                      e = "LIST" \/ e = "REGISTER",
                      Hands(k, j, c)', HasRow(d, j, e)'
               PROVE  FALSE
    BY DEF InHand, Precedes, Command, SplaydOf
  <1>c. c # "REGISTER" /\ (e = "LIST" => c = "START")
    BY DEF Precedes
  <1>1. Coming(k, j, c)' /\ Coming(k, j, e)'
    BY DEF Coming, SplaydOf
  <1>2. tpc'[k] \in InThread /\ taction'[k].job = j /\ taction'[k].cmd = c
    BY DEF Hands, InThread
  <1>3. CASE tpc[k] \in InThread /\ taction'[k] = taction[k]
    <2>1. Hands(k, j, c) /\ Coming(k, j, c)
      BY <1>2, <1>3 DEF Hands, Coming
    <2>2. ~HasRow(d, j, e)
      BY <1>c, <2>1 DEF InHand
    <2>3. ~Hands(k, j, e)
      BY <1>c, <2>1 DEF Hands
    <2>4. Inserts(d, j, e)
      BY <1>1, <2>2, <2>3, ComingFrom DEF Coming
    <2>5. CASE e = "REGISTER"
      <3>1. jjob = j /\ jstep = "registers" /\ d \in jset
        BY <2>4, <2>5 DEF Inserts
      <3>2. Unheard(d, j)
        BY <3>1, ChosenUnheard
      <3>3. tpc[k] \in Holding
        BY <1>3 DEF InThread, Holding
      <3> QED BY <2>1, <3>2, <3>3 DEF Unheard, Hands
    <2>6. CASE e = "LIST"
      <3>1. jjob = j /\ jstep = "list"
        BY <2>4, <2>6 DEF Inserts
      <3>2. jobs[j].status = "REGISTERING"
        BY <3>1 DEF Known, Deciding
      <3>3. PastDeciding(j)
        BY <1>c, <2>1, <2>6 DEF Late
      <3> QED BY <3>2, <3>3 DEF PastDeciding
    <2> QED BY <2>5, <2>6
  <1>4. CASE /\ tpc[k] = "main" /\ actions' = actions /\ taction'[k] \in actions
             /\ FirstWaiting(SplaydOf(k), taction'[k])
    <2>1. PICK r \in actions : r.splayd = d /\ r.job = j /\ r.cmd = e
      BY <1>4 DEF HasRow, SplaydOf
    <2>2. PICK a \in actions : a = taction'[k]
      BY <1>4
    <2>3. /\ a.splayd = d /\ a.job = j /\ a.cmd = c
          /\ \A b \in ActionsOf(d, "WAITING") : a.id <= b.id
      BY <1>2, <1>4, <2>2 DEF FirstWaiting, FirstOf, ActionsOf
    <2>4. r.id < a.id
      BY <2>1, <2>3 DEF InOrder
    <2>5. r \in Action /\ a \in Action
      BY DEF TypeOK, TablesTypeOK
    <2>6. r.status # "WAITING"
      BY <2>1, <2>3, <2>4, <2>5 DEF ActionsOf, Action
    <2>7. r.status # "FAILURE"
      BY <1>4, <2>1 DEF Undisturbed, Served, Serving
    <2>8. r.status # "SENDING"
      <3>1. SUFFICES ASSUME r.status = "SENDING" PROVE FALSE
        OBVIOUS
      <3>2. PICK x \in Conn : SplaydOf(x) = d /\ tpc[x] \in {"wait", "applied"}
        BY <2>1, <3>1 DEF SendingHasSender
      <3>3. x = k
        BY <3>2 DEF Alone
      <3> QED BY <1>4, <3>2, <3>3
    <2>9. r.status # "TEMP"
      <3>1. SUFFICES ASSUME r.status = "TEMP" PROVE FALSE
        OBVIOUS
      <3>2. /\ j = jjob
            /\ (e = "REGISTER" /\ jstep = "commit") \/ (e = "LIST" /\ jstep = "list_data")
        BY <2>1, <3>1 DEF TempHasWriter
      <3>3. HasRow(d, j, c)
        BY <2>2, <2>3 DEF HasRow
      <3>4. PastSending(j) /\ (c = "START" => PastDeciding(j))
        BY <1>c, <3>3 DEF Late, Coming
      <3>5. /\ jstep = "commit" => jobs[j].status \in {"LOCAL", "QUEUED", "QUEUE_TIMEOUT"}
            /\ jstep = "list_data" => jobs[j].status = "REGISTERING"
        BY <3>2 DEF Known, Sending, Deciding
      <3> QED BY <1>c, <3>2, <3>4, <3>5 DEF PastSending, PastDeciding
    <2> QED BY <2>5, <2>6, <2>7, <2>8, <2>9 DEF Action, ActionStatus
  <1> QED BY <1>2, <1>3, <1>4, ServedHand

LEMMA AnsweredStays ==
  ASSUME TypeOK, Wire, Sessions, [Next]_vars, NEW k \in Conn, tpc[k] \in Served,
         ThreadRuns(k) \/ Executes(k) \/ JobdRuns \/ Quiet(k),
         NEW j \in Job, Answered(k, j)
  PROVE  Answered(k, j)'
  <1> DEFINE d == SplaydOf(k)
  <1>1. CASE ThreadRuns(k)
    <2>1. ThreadStep(k)
      BY <1>1 DEF ThreadRuns
    <2>2. djobs' = djobs
      BY <2>1, ThreadOwn
    <2>3. SUFFICES ASSUME tpc'[k] = "applied" \/ rep'[k] # "none", tpc'[k] \in InThread
                   PROVE  /\ taction'[k] = taction[k] /\ tpc[k] \in InThread
                          /\ tpc[k] = "applied" \/ rep[k] # "none"
      BY <2>2 DEF Answered, Hands, SplaydOf, InThread
    <2>4. CASE tpc'[k] = "applied"
      <3>1. ApplyReply(k)
        BY <2>1, <2>4, ThreadComes
      <3> QED BY <3>1 DEF ApplyReply, Read, At, InThread
    <2>5. CASE rep'[k] # "none"
      <3>1. rep' = rep \/ rep' = [rep EXCEPT ![k] = "none"]
        BY <2>1 DEF ThreadStep, ReadRow, Authenticate, AskInfos, InfosOK, Available, ReadFailed,
           RestoreAction, DeleteRegister, FreeFirst, RegisterAgain, AuthFails, MainFails,
           PickAction, SendAction, ApplyReply, ReplyNotOK, FinishAction, Read, daemonVars
      <3>2. rep[k] # "none"
        BY <2>5, <3>1 DEF TypeOK, DaemonTypeOK
      <3>3. tpc[k] # "main"
        BY <3>2 DEF Wire, Shape, Silent
      <3> QED BY <2>3, <3>2, <3>3, ServedHand
    <2> QED BY <2>3, <2>4, <2>5
  <1>2. CASE Executes(k)
    <2>1. tpc'[k] = tpc[k] /\ taction'[k] = taction[k]
      BY <1>2 DEF Executes, threadVars
    <2>2. PICK e : e = SplaydOf(k)
      OBVIOUS
    <2>3. /\ Hands(k, j, "FREE") => djobs'[e][j] = "none"
          /\ Hands(k, j, "LIST") => djobs'[e][j] # "waiting"
      BY <1>2, <2>2, ExecutesJobs
    <2> QED BY <2>1, <2>2, <2>3 DEF Answered, Hands, SplaydOf
  <1>3. CASE JobdRuns
    BY <1>3 DEF JobdRuns, daemonVars, threadVars, Answered, Hands, SplaydOf
  <1>4. CASE Quiet(k)
    <2>1. /\ tpc'[k] = tpc[k] /\ taction'[k] = taction[k] /\ rep'[k] = rep[k]
          /\ djobs'[d][j] \in {djobs[d][j], "none"}
      BY <1>4 DEF Quiet
    <2> QED BY <2>1 DEF Answered, Hands, SplaydOf
  <1> QED BY <1>1, <1>2, <1>3, <1>4

\* Only REGISTER brings a job.
LEMMA JobFrom ==
  ASSUME TypeOK, Wire, Sessions, NEW k \in Conn, tpc[k] \in Served,
         ThreadRuns(k) \/ Executes(k) \/ JobdRuns \/ Quiet(k), NEW j \in Job
  PROVE  /\ OnItsWay(k, j)' => OnItsWay(k, j) \/ Inserts(SplaydOf(k), j, "REGISTER")
         /\ Waits(k, j)' => Waits(k, j) \/ Inserts(SplaydOf(k), j, "REGISTER")
  <1> DEFINE d == SplaydOf(k)
  <1>1. Coming(k, j, "REGISTER")' => Coming(k, j, "REGISTER") \/ Inserts(d, j, "REGISTER")
    BY ComingFrom
  <1>2. /\ djobs'[d][j] # "none" => djobs[d][j] # "none" \/ Hands(k, j, "REGISTER")
        /\ djobs'[d][j] = "waiting" => djobs[d][j] = "waiting" \/ Hands(k, j, "REGISTER")
    <2>1. CASE ThreadRuns(k)
      BY <2>1, ThreadOwn DEF ThreadRuns
    <2>2. CASE Executes(k)
      <3>1. PICK e : e = SplaydOf(k)
        OBVIOUS
      <3> QED BY <2>2, <3>1, ExecutesJobs
    <2>3. CASE JobdRuns
      BY <2>3 DEF JobdRuns, daemonVars
    <2>4. CASE Quiet(k)
      BY <2>4 DEF Quiet
    <2> QED BY <2>1, <2>2, <2>3, <2>4
  <1>3. Hands(k, j, "REGISTER") => Coming(k, j, "REGISTER")
    BY DEF Coming
  <1> QED BY <1>1, <1>2, <1>3 DEF OnItsWay, Waits, SplaydOf

\* When FREE is finished the daemon has lost the job, and no longer waits for the
\* list when LIST is.
LEMMA FinishedRows ==
  ASSUME TypeOK, Wire, Sessions, NEW k \in Conn, tpc[k] = "applied", ThreadRuns(k), FinishAction(k),
         NEW j \in Job, InHand(k, j), Answered(k, j)
  PROVE  /\ Hands(k, j, "FREE") => ~OnItsWay(k, j)'
         /\ Hands(k, j, "LIST") => ~Waits(k, j)'
  <1>1. tpc'[k] = "main"
    BY DEF FinishAction, Goto, TypeOK, ThreadTypeOK
  <1>2. ~JobdRuns
    BY <1>1 DEF JobdRuns, threadVars
  <1>3. Hands(k, j, "FREE") \/ Hands(k, j, "LIST") => ~Coming(k, j, "REGISTER")
    BY DEF Coming, InHand, Hands, Command
  <1>4. tpc[k] \in Served
    BY DEF Served, Serving
  <1>5. /\ OnItsWay(k, j)' => OnItsWay(k, j)
        /\ Waits(k, j)' => Waits(k, j)
    BY <1>2, <1>4, JobFrom DEF Inserts
  <1> QED BY <1>3, <1>5 DEF Answered, OnItsWay, Waits

LEMMA AskedOfStays ==
  ASSUME TypeOK, Wire, Sessions, Known, NEW k \in Conn, tpc[k] \in Served,
         ThreadRuns(k) \/ Executes(k) \/ JobdRuns \/ Quiet(k), NEW j \in Job, AskedOf(k, j)
  PROVE  AskedOf(k, j)'
  <1> DEFINE d == SplaydOf(k)
  <1>a. AskedOf(k, j)' <=>
          /\ jjob' = j /\ jstep' \in {"splayd_jobs", "registers"} /\ d \in jset' => IsAsked(d, j)'
          /\ OnItsWay(k, j)' /\ ~TimedOut(j)' => IsAsked(d, j)'
    BY DEF AskedOf, SplaydOf, IsAsked
  <1>f. OnItsWay(k, j)' => OnItsWay(k, j) \/ Inserts(d, j, "REGISTER")
    BY JobFrom
  <1>1. CASE JobdRuns
    <2>1. JobdStep
      BY <1>1 DEF JobdRuns
    <2>2. ASSUME jjob' = j, jstep' \in {"splayd_jobs", "registers"}, d \in jset'
          PROVE  IsAsked(d, j)'
      <3>1. /\ jjob = j /\ d \in jset
            /\ (jstep = "selections" \/ jstep = "splayd_jobs")
        BY <2>1, <2>2, StepMoves DEF TypeOK, JobdTypeOK, Step
      <3> QED BY <2>1, <3>1, JobdSelects DEF AskedOf
    <2>3. ASSUME OnItsWay(k, j)', ~TimedOut(j)' PROVE IsAsked(d, j)'
      <3>1. ~TimedOut(j)
        BY <2>1, <2>3, JobdDecides
      <3>2. IsAsked(d, j)
        BY <1>f, <2>3, <3>1 DEF AskedOf, Inserts
      <3>3. ~(jjob = j /\ jstep = "forget")
        <4>1. jjob = j /\ jstep = "forget" => jjob' = j /\ jstep' = "timeout"
          BY <2>1, StepMoves
        <4> QED BY <2>3, <4>1 DEF TimedOut
      <3> QED BY <2>1, <3>2, <3>3, JobdSelects
    <2> QED BY <1>a, <2>2, <2>3
  <1>2. CASE ~JobdRuns
    <2>1. UNCHANGED jobdVars /\ (TimedOut(j)' <=> TimedOut(j)) /\ (IsAsked(d, j)' <=> IsAsked(d, j))
      BY <1>2, StillDecided
    <2> QED BY <1>2, <1>a, <1>f, <2>1 DEF AskedOf, Inserts, jobdVars
  <1> QED BY <1>1, <1>2

LEMMA DoomedFreedStays ==
  ASSUME TypeOK, Wire, Sessions, Known, NEW k \in Conn, tpc[k] \in Served, Numbered(k),
         ThreadRuns(k) \/ Executes(k) \/ JobdRuns \/ Quiet(k), NEW j \in Job, Follows(k, j)
  PROVE  DoomedFreed(k, j)'
  <1> DEFINE d == SplaydOf(k)
  <1>a. AskedOf(k, j) /\ DoomedFreed(k, j) /\ InHand(k, j) /\ Answered(k, j)
    BY DEF Follows
  <1> SUFFICES ASSUME Doomed(d, j)', OnItsWay(k, j)'
               PROVE  HasRow(d, j, "FREE")'
    BY DEF DoomedFreed, SplaydOf
  <1>f. OnItsWay(k, j) \/ Inserts(d, j, "REGISTER")
    BY JobFrom
  <1>s. HasRow(d, j, "FREE") =>
           HasRow(d, j, "FREE")' \/ (FinishAction(k) /\ tpc[k] = "applied" /\ Hands(k, j, "FREE"))
    BY RowStays
  <1>1. CASE JobdRuns
    <2>1. JobdStep /\ tpc'[k] = tpc[k]
      BY <1>1 DEF JobdRuns, threadVars
    <2>2. ~(FinishAction(k) /\ tpc[k] = "applied")
      BY <2>1 DEF FinishAction, Goto, TypeOK, ThreadTypeOK
    <2>3. CASE Doomed(d, j)
      <3>1. ~Inserts(d, j, "REGISTER")
        <4>1. SUFFICES ASSUME jjob = j, jstep = "registers" PROVE FALSE
          BY DEF Inserts
        <4>2. jobs[j].status \in {"LOCAL", "QUEUED", "QUEUE_TIMEOUT"}
          BY <4>1 DEF Known, Sending
        <4> QED BY <2>3, <4>1, <4>2 DEF Doomed, TimedOut, Settled
      <3>2. HasRow(d, j, "FREE")
        BY <1>a, <1>f, <2>3, <3>1 DEF DoomedFreed
      <3> QED BY <1>s, <2>2, <3>2
    <2>4. CASE ~Doomed(d, j)
      <3>1. OnItsWay(k, j) => IsAsked(d, j)
        BY <1>a, <2>4 DEF AskedOf, Doomed
      <3>2. \/ jjob = j /\ jstep = "free" /\ ~IsSelected(d, j)
            \/ jjob' = j /\ jstep' \in {"unregister", "forget"} /\ (jstep' = "unregister" => d \notin jset')
        <4>1. TimedOut(j)' => TimedOut(j) \/ (jjob = j /\ jstep = "forget")
          BY <2>1, JobdDecides
        <4>2. Settled(j)' => Settled(j) \/ (jjob = j /\ jstep = "free")
          BY <2>1, JobdDecides
        <4>3. IsSelected(d, j) => IsSelected(d, j)' \/ (jjob = j /\ jstep = "forget")
          BY <2>1, JobdSelects
        <4>4. \/ TimedOut(j)'
              \/ jjob' = j /\ jstep' = "unregister" /\ d \notin jset'
              \/ jjob' = j /\ jstep' = "forget"
              \/ Settled(j)' /\ ~IsSelected(d, j)'
          BY DEF Doomed, SplaydOf
        <4> QED BY <2>4, <4>1, <4>2, <4>3, <4>4 DEF Doomed
      <3>3. CASE jjob = j /\ jstep = "free" /\ ~IsSelected(d, j)
        <4>1. FreeOthers /\ jjob' = jjob
          BY <2>1, <3>3, StepAction DEF FreeOthers, Statement
        <4>2. IsAsked(d, j)
          BY <1>f, <3>1, <3>3 DEF Inserts
        <4>3. HasRow(d, jjob, "FREE")'
          BY <3>3, <4>1, <4>2, FreesOthers
        <4> QED BY <3>3, <4>1, <4>3 DEF HasRow, SplaydOf
      <3>4. CASE /\ jjob' = j /\ jstep' \in {"unregister", "forget"}
                 /\ jstep' = "unregister" => d \notin jset'
        <4>1. jstep \in {"next", "unregister"}
          BY <2>1, <3>4, StepMoves DEF TypeOK, JobdTypeOK, Step
        <4>2. IsAsked(d, j)
          BY <1>f, <3>1, <4>1 DEF Inserts
        <4>3. CASE jstep = "next"
          <5>1. RegisterTimeout(j)
            BY <2>1, <3>4, <4>3, ToTimeout
          <5>2. d \in AskedDaemons(j)
            BY <4>2 DEF IsAsked, AskedDaemons, SelectionsOf
          <5> QED BY <3>4, <5>1, <5>2 DEF RegisterTimeout, GoesOn
        <4>4. CASE jstep = "unregister"
          <5>1. PICK e \in Splayd : FreeAll(e)
            BY <2>1, <4>4, StepAction DEF FreesAll
          <5>2. /\ jjob' = jjob /\ jset' = jset \ {e}
                /\ jstep' = "forget" => jset' = {}
            BY <5>1 DEF FreeAll, Turn
          <5>3. d \in jset
            BY <2>4, <3>4, <4>4, <5>2 DEF Doomed
          <5>4. d = e
            BY <3>4, <5>2, <5>3
          <5>5. HasRow(e, jjob, "FREE")'
            BY <3>4, <4>2, <5>1, <5>2, <5>4, FreesOne
          <5>6. HasRow(d, j, "FREE")'
            BY <3>4, <5>2, <5>4, <5>5 DEF HasRow
          <5> QED BY <5>6 DEF HasRow, SplaydOf
        <4> QED BY <4>1, <4>3, <4>4
      <3> QED BY <3>2, <3>3, <3>4
    <2> QED BY <2>3, <2>4
  <1>2. CASE ~JobdRuns
    <2>1. Doomed(d, j)
      BY <1>2, StillDecided
    <2>2. HasRow(d, j, "FREE")
      BY <1>2, <1>a, <1>f, <2>1 DEF DoomedFreed, Inserts
    <2>3. CASE FinishAction(k) /\ tpc[k] = "applied" /\ Hands(k, j, "FREE")
      <3>1. ThreadRuns(k)
        <4>1. tpc'[k] # tpc[k]
          BY <2>3 DEF FinishAction, Goto, TypeOK, ThreadTypeOK
        <4> QED BY <1>2, <4>1 DEF Executes, Quiet, threadVars
      <3> QED BY <1>a, <2>3, <3>1, FinishedRows
    <2> QED BY <1>s, <2>2, <2>3
  <1> QED BY <1>1, <1>2

LEMMA ListComesStays ==
  ASSUME TypeOK, Wire, Sessions, Known, NEW k \in Conn, tpc[k] \in Served, Numbered(k),
         ThreadRuns(k) \/ Executes(k) \/ JobdRuns \/ Quiet(k), NEW j \in Job, Follows(k, j)
  PROVE  ListComes(k, j)'
  <1> DEFINE d == SplaydOf(k)
  <1>a. ListComes(k, j) /\ Late(k, j) /\ InHand(k, j) /\ Answered(k, j)
    BY DEF Follows
  <1> SUFFICES ASSUME ListDue(k, j)', Waits(k, j)'
               PROVE  HasRow(d, j, "LIST")'
    BY DEF ListComes, SplaydOf
  <1>f. Waits(k, j) \/ Inserts(d, j, "REGISTER")
    BY JobFrom
  <1>c. Coming(k, j, "START")' => Coming(k, j, "START") \/ Inserts(d, j, "START")
    BY ComingFrom
  <1>d. \/ jjob' = j /\ jstep' \in Listing /\ IsSelected(d, j)'
        \/ Coming(k, j, "START")'
    BY DEF ListDue, SplaydOf, Listing, IsSelected
  <1>s. HasRow(d, j, "LIST") =>
           HasRow(d, j, "LIST")' \/ (FinishAction(k) /\ tpc[k] = "applied" /\ Hands(k, j, "LIST"))
    BY RowStays
  <1>1. CASE JobdRuns
    <2>1. JobdStep /\ tpc'[k] = tpc[k]
      BY <1>1 DEF JobdRuns, threadVars
    <2>2. ~(FinishAction(k) /\ tpc[k] = "applied")
      BY <2>1 DEF FinishAction, Goto, TypeOK, ThreadTypeOK
    <2>3. CASE ListDue(k, j)
      <3>1. ~Inserts(d, j, "REGISTER")
        <4>1. SUFFICES ASSUME jjob = j, jstep = "registers" PROVE FALSE
          BY DEF Inserts
        <4>2. jobs[j].status \in {"LOCAL", "QUEUED", "QUEUE_TIMEOUT"}
          BY <4>1 DEF Known, Sending
        <4>3. PastDeciding(j)
          BY <1>a, <2>3, <4>1 DEF ListDue, Listing, Late
        <4> QED BY <4>2, <4>3 DEF PastDeciding, PastSending
      <3>2. HasRow(d, j, "LIST")
        BY <1>a, <1>f, <2>3, <3>1 DEF ListComes
      <3> QED BY <1>s, <2>2, <3>2
    <2>4. CASE ~ListDue(k, j)
      <3>1. ~Coming(k, j, "START")'
        BY <1>c, <2>4 DEF ListDue, Inserts, Listing
      <3>2. jjob' = j /\ jstep' \in Listing /\ IsSelected(d, j)'
        BY <1>d, <3>1
      <3>3. jjob = j /\ jstep \in {"list", "list_data", "running"}
        BY <2>1, <3>2, StepMoves DEF TypeOK, JobdTypeOK, Step, Listing
      <3>4. IsSelected(d, j)
        BY <2>1, <3>2, <3>3, JobdSelects
      <3>5. jstep = "list"
        BY <2>4, <3>3, <3>4 DEF ListDue, Listing
      <3>6. SendAllList
        BY <2>1, <3>5, StepAction
      <3>7. HasRow(d, jjob, "LIST")'
        BY <3>3, <3>4, <3>6, SendsSelected
      <3> QED BY <3>2, <3>3, <3>7 DEF HasRow, SplaydOf
    <2> QED BY <2>3, <2>4
  <1>2. CASE ~JobdRuns
    <2>1. UNCHANGED jobdVars /\ (IsSelected(d, j)' <=> IsSelected(d, j))
      BY <1>2, StillDecided
    <2>2. ListDue(k, j)
      BY <1>2, <1>c, <1>d, <2>1 DEF ListDue, Inserts, jobdVars
    <2>3. HasRow(d, j, "LIST")
      BY <1>2, <1>a, <1>f, <2>2 DEF ListComes, Inserts
    <2>4. CASE FinishAction(k) /\ tpc[k] = "applied" /\ Hands(k, j, "LIST")
      <3>1. ThreadRuns(k)
        <4>1. tpc'[k] # tpc[k]
          BY <2>4 DEF FinishAction, Goto, TypeOK, ThreadTypeOK
        <4> QED BY <1>2, <4>1 DEF Executes, Quiet, threadVars
      <3> QED BY <1>a, <2>4, <3>1, FinishedRows
    <2> QED BY <1>s, <2>3, <2>4
  <1> QED BY <1>1, <1>2

LEMMA ServiceStays ==
  ASSUME TypeOK, Wire, Sessions, Known, Ids, FirstAsk, SendingHasSender, TempHasWriter,
         [Next]_vars, NEW k \in Conn, Alone(k), Undisturbed(k), tpc[k] \in Served, Service(k),
         ThreadRuns(k) \/ Executes(k) \/ JobdRuns \/ Quiet(k)
  PROVE  Service(k)'
  <1>1. Numbered(k) /\ InOrder(k) /\ \A j \in Job : Follows(k, j) /\ Late(k, j)
    BY DEF Service, Follows
  <1>2. Numbered(k)'
    BY <1>1, NumberedStays
  <1>3. InOrder(k)'
    BY <1>1, InOrderStays
  <1>4. ASSUME NEW j \in Job PROVE Follows(k, j)'
    <2>1. /\ Follows(k, j) /\ Late(k, j) /\ InHand(k, j) /\ Answered(k, j) /\ AskedOf(k, j)
          /\ InOrder(k) /\ Numbered(k)
      BY <1>1 DEF Follows
    <2>2. Late(k, j)'
      BY <2>1, LateStays
    <2>3. InHand(k, j)'
      BY <2>1, InHandStays
    <2>4. Answered(k, j)'
      BY <2>1, AnsweredStays
    <2>5. AskedOf(k, j)'
      BY <2>1, AskedOfStays
    <2>6. DoomedFreed(k, j)'
      BY <2>1, DoomedFreedStays
    <2>7. ListComes(k, j)'
      BY <2>1, ListComesStays
    <2> QED BY <2>2, <2>3, <2>4, <2>5, <2>6, <2>7 DEF Follows
  <1> QED BY <1>2, <1>3, <1>4 DEF Service

\* What the thread of a daemon writes is START only when the list was sent before.
LEMMA StartWritten ==
  ASSUME TypeOK, Wire, Wire', Sessions, NEW k \in Conn, ThreadStep(k),
         tpc[k] \in Served => Service(k), StartHasList(k)
  PROVE  StartHasList(k)'
  <1> DEFINE d == SplaydOf(k)
  <1>1. djobs' = djobs
    BY ThreadOwn
  <1>2. CASE req' = req
    BY <1>1, <1>2 DEF StartHasList, SplaydOf
  <1>3. CASE tpc'[k] \in Silent \cup {"infos", "log"}
    <2>1. Shape(k)'
      BY DEF Wire
    <2>2. req'[k] \in {<<>>, <<InfosMessage>>, <<LogMessage>>} \/ \E s : req'[k] = Greeting(s)
      BY <1>3, <2>1 DEF Shape, Greets
    <2>3. req'[k] # <<>> => Head(req'[k]).cmd # "START"
      BY <2>2, GreetingParts, OneMessage DEF InfosMessage, LogMessage
    <2> QED BY <2>3 DEF StartHasList
  <1>4. CASE SendAction(k)
    <2>1. tpc[k] = "picked" /\ Write(k, <<Order(taction[k])>>)
      BY <1>4 DEF SendAction, At, Order
    <2>2. Shape(k) /\ Service(k) /\ taction[k] \in Action
      BY <2>1 DEF Wire, Served, Serving, TypeOK, ThreadTypeOK, Holding
    <2>3. req[k] = <<>>
      BY <2>1, <2>2 DEF Shape, Silent
    <2>4. req'[k] = IF link[k] = "up" THEN req[k] \o <<Order(taction[k])>> ELSE req[k]
      BY <2>1, WriteEffect
    <2>5. req'[k] # <<>> => Head(req'[k]) = Order(taction[k])
      BY <2>3, <2>4, OneMessage
    <2>6. SUFFICES ASSUME taction[k].cmd = "START"
                   PROVE  djobs[d][taction[k].job] # "waiting"
      BY <1>1, <2>5 DEF StartHasList, Order, SplaydOf
    <2>7. PICK j \in Job : j = taction[k].job
      BY <2>2 DEF Action
    <2>8. Hands(k, j, "START") /\ ListDue(k, j)
      BY <2>1, <2>6, <2>7 DEF Hands, InThread, ListDue, Coming
    <2>9. InHand(k, j) /\ ListComes(k, j)
      BY <2>2 DEF Service, Follows
    <2> QED BY <2>7, <2>8, <2>9 DEF InHand, ListComes, Waits
  <1>5. CASE Authenticate(k)
    <2>1. ~SameSession(k)
      BY <1>5, NeverSameSession DEF Authenticate, At
    <2> QED BY <1>2, <1>5, <2>1 DEF Authenticate
  <1>6. CASE AskInfos(k) \/ InfosOK(k)
    BY <1>3, <1>6 DEF AskInfos, InfosOK, Goto, TypeOK, ThreadTypeOK
  <1> QED BY <1>2, <1>4, <1>5, <1>6
       DEF ThreadStep, ReadRow, Available, ReadFailed, RestoreAction, DeleteRegister, FreeFirst,
           RegisterAgain, AuthFails, MainFails, PickAction, ApplyReply, ReplyNotOK, FinishAction,
           daemonVars

LEMMA StartHasListStays ==
  ASSUME TypeOK, Wire, Wire', Sessions, Ids, [Next]_vars, NEW k \in Conn, Alone(k), Alone(k)',
         tpc[k] \in Served => Service(k), StartHasList(k)
  PROVE  StartHasList(k)'
  <1> DEFINE d == SplaydOf(k)
  <1>1. CASE ThreadRuns(k)
    BY <1>1, StartWritten DEF ThreadRuns
  <1>2. CASE Executes(k)
    <2>1. PICK busy \in BOOLEAN : \E e : e = d /\ k = Current(e) /\ Execute(e, k, busy)
      BY <1>2 DEF Executes
    <2>2. req' = [req EXCEPT ![k] = Tail(@)] /\ req[k] # <<>>
      BY <2>1, SplaydOfType, CommandOwn
    <2>3. req'[k] = Tail(req[k])
      BY <2>2 DEF TypeOK, DaemonTypeOK
    <2>4. req'[k] = <<>> \/ req'[k] = <<InfosMessage>>
      BY <2>2, <2>3, ShapeForm, GreetingParts, OneMessage DEF Greets
    <2> QED BY <2>4, OneMessage DEF StartHasList, InfosMessage
  <1>3. CASE Opens(k) \/ JobdRuns \/ ControllerRestarts \/ UnseenReset(d)
    <2>1. req'[k] = req[k] /\ djobs' = djobs
      BY <1>3 DEF Opens, JobdRuns, ControllerRestarts, UnseenReset, daemonVars
    <2> QED BY <2>1 DEF StartHasList, SplaydOf
  <1>4. CASE Quiet(k)
    <2>1. req'[k] = req[k] /\ \A j \in Job : djobs'[d][j] \in {djobs[d][j], "none"}
      BY <1>4 DEF Quiet
    <2>2. req[k] # <<>> /\ Head(req[k]).cmd = "START" => Head(req[k]).job \in Job
      <3>1. req[k] \in Seq(Message)
        BY DEF TypeOK, DaemonTypeOK
      <3>2. req[k] # <<>> => Head(req[k]) \in Message
        BY <3>1
      <3> QED BY <3>2, MessageType DEF Command
    <2> QED BY <2>1, <2>2 DEF StartHasList, SplaydOf
  <1> QED BY <1>1, <1>2, <1>3, <1>4, FirstStep

---------------------------------------------------------------------------
(* The theorems *)

LEMMA FirstInductive ==
  /\ TypeOK /\ Wire /\ Sessions /\ Known /\ Ids /\ FirstAsk
  /\ SendingHasSender /\ TempHasWriter /\ FirstConnection
  /\ [Next]_vars
  => FirstConnection'
  <1> SUFFICES ASSUME TypeOK, Wire, Sessions, Known, Ids, FirstAsk, SendingHasSender,
                      TempHasWriter, FirstConnection, [Next]_vars, NEW k \in Conn, Alone(k)'
               PROVE  /\ Unused(k)' /\ Undisturbed(k)' /\ StartHasList(k)'
                      /\ tpc'[k] \in Served => Service(k)'
    BY DEF FirstConnection, Served, Serving
  <1>1. Alone(k)
    BY AloneBefore
  <1>2. Unused(k) /\ Undisturbed(k) /\ StartHasList(k) /\ (tpc[k] \in Served => Service(k))
    BY <1>1 DEF FirstConnection
  <1>3. TypeOK' /\ Wire'
    BY NextType, WireInductive
  <1>4. Unused(k)' /\ Undisturbed(k)'
    BY <1>1, <1>2, <1>3, UnusedStays, UndisturbedStays
  <1>5. StartHasList(k)'
    BY <1>1, <1>2, <1>3, StartHasListStays
  <1>6. ASSUME tpc'[k] \in Served PROVE Service(k)'
    <2>1. CASE ThreadRuns(k) /\ tpc[k] = "log" /\ Available(k)
      BY <1>2, <2>1, ServiceBegins
    <2>2. CASE /\ tpc[k] \in Served
               /\ ThreadRuns(k) \/ Executes(k) \/ JobdRuns \/ Quiet(k)
      BY <1>1, <1>2, <2>2, ServiceStays
    <2> QED BY <1>1, <1>2, <1>6, <2>1, <2>2, ServedStep
  <1> QED BY <1>4, <1>5, <1>6

LEMMA InitFirst == Init => FirstConnection
  <1> SUFFICES ASSUME Init, NEW k \in Conn
               PROVE  /\ Unused(k) /\ Undisturbed(k) /\ StartHasList(k)
                      /\ tpc[k] \notin Served
    BY DEF FirstConnection
  <1>1. /\ tpc[k] = "none" /\ req[k] = <<>> /\ jset = {}
        /\ actions = {} /\ selections = {} /\ unseen = AllSeen
        /\ splayds[SplaydOf(k)].status = "REGISTERED" /\ djobs[SplaydOf(k)] = NoJobs
    BY SplaydOfType DEF Init, TablesInit, DaemonInit, ThreadInit, JobdInit, NoJobs
  <1>2. unseen[SplaydOf(k)] = "seen"
    BY <1>1, SplaydOfType DEF AllSeen
  <1>3. tpc[k] \notin Served /\ tpc[k] \notin Restoring
    BY <1>1 DEF Served, Serving, Restoring
  <1> QED BY <1>1, <1>2, <1>3 DEF Unused, Undisturbed, StartHasList

LEMMA FirstAlways == Spec => [](TypeOK /\ FirstConnection)
  BY InitWire, InitSync, InitFirst, TypeCorrect, WireInductive, SessionsInductive, KnownInductive,
     IdsInductive, FirstAskInductive, SendingAnswered, TempCompleted, FirstInductive, PTL DEF Spec

\* UnwantedIsFreed for a daemon on its first connection.
FirstIsFreed ==
  \A k \in Conn, j \in Job :
     LET d == SplaydOf(k) IN
     Alone(k) /\ Synchronized(d, k) /\ djobs[d][j] # "none" /\ Unwanted(d, j) =>
        \E a \in actions : a.splayd = d /\ a.job = j /\ a.cmd = "FREE"

\* A daemon on its first connection that has a job whose registration timed out, or
\* for which it was not selected, has a FREE to come: of several statements of the
\* scheduler, commands on their way and answers that arrive meanwhile, none leaves
\* the job on the daemon.  Other daemons may come and come back, links fail, and the
\* controller restart.
THEOREM FirstFreed == Spec => []FirstIsFreed
  <1>1. TypeOK /\ FirstConnection => FirstIsFreed
    <2> SUFFICES ASSUME TypeOK, FirstConnection, NEW k \in Conn, NEW j \in Job, Alone(k),
                        Synchronized(SplaydOf(k), k), djobs[SplaydOf(k)][j] # "none",
                        Unwanted(SplaydOf(k), j)
                 PROVE  HasRow(SplaydOf(k), j, "FREE")
      BY DEF FirstIsFreed, HasRow
    <2>1. DoomedFreed(k, j)
      BY DEF Synchronized, Served, FirstConnection, Service, Follows
    <2>2. OnItsWay(k, j)
      BY DEF OnItsWay
    <2>3. Doomed(SplaydOf(k), j)
      <3>1. IsSelected(SplaydOf(k), j) => \E s \in Selected(j) : s.splayd = SplaydOf(k)
        BY DEF IsSelected, Selected, SelectionsOf
      <3> QED BY <3>1 DEF Unwanted, Doomed, TimedOut, Settled
    <2> QED BY <2>1, <2>2, <2>3 DEF DoomedFreed
  <1> QED BY <1>1, FirstAlways, PTL

\* ListBeforeStart for a daemon on its first connection.
FirstListBeforeStart ==
  [][\A d \in Splayd : Current(d) \in Conn /\ Alone(Current(d)) /\ Start(d, Current(d)) =>
        djobs[d][Head(req[Current(d)]).job] # "waiting"]_vars

\* A daemon on its first connection never executes START while it waits for the list
\* of the job: the LIST inserted several statements before is still ahead of START,
\* or was executed after REGISTER.
THEOREM FirstListed == Spec => FirstListBeforeStart
  <1> DEFINE Listed ==
        \A d \in Splayd : Current(d) \in Conn /\ Alone(Current(d)) /\ Start(d, Current(d)) =>
           djobs[d][Head(req[Current(d)]).job] # "waiting"
  <1>1. TypeOK /\ FirstConnection => Listed
    <2> SUFFICES ASSUME FirstConnection, NEW d \in Splayd, NEW k \in Conn, k = Current(d),
                        Alone(k), Start(d, k)
                 PROVE  djobs[d][Head(req[k]).job] # "waiting"
      OBVIOUS
    <2>1. SplaydOf(k) = d /\ StartHasList(k)
      BY DEF Current, SplaydOf, FirstConnection
    <2> QED BY <2>1 DEF Start, Receives, StartHasList
  <1> QED BY <1>1, FirstAlways, PTL DEF FirstListBeforeStart

\* Daemons that open one connection.
LEMMA OneConnection ==
  ASSUME MaxConn = 1, NEW k \in Conn
  PROVE  Alone(k)
  <1>1. \A c \in Conn : c[2] = 1
    BY ConnParts
  <1> QED BY <1>1, ConnParts DEF Alone

\* When no daemon opens a second connection, every daemon that is served and has a job
\* it should not have has a FREE to come.
THEOREM UnwantedFreed ==
  ASSUME MaxConn = 1
  PROVE  Spec => []UnwantedIsFreed
  <1>1. FirstIsFreed => UnwantedIsFreed
    BY OneConnection DEF FirstIsFreed, UnwantedIsFreed
  <1> QED BY <1>1, FirstFreed, PTL

\* When no daemon opens a second connection, none executes START before LIST.
THEOREM ListedFirst ==
  ASSUME MaxConn = 1
  PROVE  Spec => ListBeforeStart
  <1> DEFINE Listed ==
        \A d \in Splayd : Current(d) \in Conn /\ Alone(Current(d)) /\ Start(d, Current(d)) =>
           djobs[d][Head(req[Current(d)]).job] # "waiting"
  <1>1. TypeOK /\ Listed => \A d \in Splayd : Start(d, Current(d)) =>
                               djobs[d][Head(req[Current(d)]).job] # "waiting"
    <2> SUFFICES ASSUME TypeOK, Listed, NEW d \in Splayd, Start(d, Current(d))
                 PROVE  djobs[d][Head(req[Current(d)]).job] # "waiting"
      OBVIOUS
    <2>1. Current(d) \in Conn
      BY DEF Start, Receives, TypeOK, DaemonTypeOK, Conn, Current, NoConn
    <2> QED BY <2>1, OneConnection
  <1> DEFINE AllListed ==
        \A d \in Splayd :
          LET k == Current(d)
              j == Head(req[k]).job
          IN Start(d, k) /\ djobs[d][j] = "waiting" =>
               \/ splayds[d].session # trow[k].session
               \/ \E a \in actions : /\ a.splayd = d /\ a.job = j /\ a.cmd = "LIST"
                                    /\ a.status \in {"SENDING", "FAILURE"}
  <1>2. TypeOK /\ Listed => AllListed
    BY <1>1
  <1> QED BY <1>2, FirstListed, TypeCorrect, PTL DEF ListBeforeStart, FirstListBeforeStart

=============================================================================
