--------------------------- MODULE SplaydProtocol ---------------------------
(***************************************************************************)
(* lib/splayd_protocol.rb: the controller's thread for one connection.     *)
(* auth compares sessions, resets the daemon's rows and makes it           *)
(* available; main sends the daemon's actions one at a time and applies    *)
(* each reply.  Several threads may serve the same daemon: the check that  *)
(* refused a second one is commented out (lines 92-96).                    *)
(*                                                                         *)
(* SplaydServer.threads is left out: @id of a SplaydProtocol is never      *)
(* assigned, so the table only ever has the key nil, and Splayd#kill,      *)
(* which looks an id up, finds no thread.                                  *)
(***************************************************************************)
EXTENDS SplaydDaemon

VARIABLES
  tpc,        \* what the thread of a connection is doing
  tsession,   \* session: what the daemon sent
  trow,       \* @splayd.row: the daemon's row as cached, [status, session]
  taction,    \* action: the row next_action returned, or the one that
              \* restore_actions is at
  tfailed     \* the rows restore_actions has read and not restored yet

threadVars == <<tpc, tsession, trow, taction, tfailed>>

Pc == {"none",      \* no thread yet
       "hello",     \* accepted, key and session received
       "auth",      \* row read, sessions not compared yet
       "reset",     \* in the middle of reset
       "infos",     \* waiting for the reply to INFOS
       "log",       \* waiting for the replies to BLACKLIST and LOG
       "available", \* available, restore_actions to come
       "restore",   \* restore_actions, between two rows
       "free",      \* a failed REGISTER is deleted: FREE to add
       "register",  \* ... and REGISTER to add
       "main",      \* top of the loop of main
       "picked",    \* next_action has read a row
       "wait",      \* waiting for the reply to the action
       "applied",   \* reply applied, action not removed yet
       "dead"}

\* The daemon a connection belongs to (@splayd), known by its key.
SplaydOf(k) == k[1]

NoAction == [id |-> 0]

\* The thread is in the middle of an action.
Holding == {"free", "register", "picked", "wait", "applied"}

Serving == {"main", "picked", "wait", "applied"}

ThreadTypeOK ==
  /\ tpc \in [Conn -> Pc]
  /\ tsession \in [Conn -> Nat]
  /\ trow \in [Conn -> [status : SplaydStatus, session : Nat]]
  /\ taction \in [Conn -> Action \cup {NoAction}]
  /\ \A k \in Conn : tpc[k] \in Holding => taction[k] \in Action
  /\ tfailed \in [Conn -> SUBSET Action]

ThreadInit ==
  /\ tpc = [k \in Conn |-> "none"]
  /\ tsession = [k \in Conn |-> EmptyText]
  /\ trow = [k \in Conn |-> [status |-> "REGISTERED", session |-> NullSession]]
  /\ taction = [k \in Conn |-> NoAction]
  /\ tfailed = [k \in Conn |-> {}]

At(k, pc) == tpc[k] = pc
Goto(k, pc) == tpc' = [tpc EXCEPT ![k] = pc]

\* so.write: lost when the connection is broken (the error comes with the
\* read that follows).
Write(k, msgs) ==
  req' = IF link[k] = "up" THEN [req EXCEPT ![k] = @ \o msgs] ELSE req

\* so.read: a reply that arrived can be read, even from a broken connection.
Read(k, r) ==
  /\ r # "none"
  /\ rep[k] = r
  /\ rep' = [rep EXCEPT ![k] = "none"]

\* splayd.lua run/controller: the daemon connects, sends its key and session;
\* SplaydServer starts the thread.
Connect(d, n) ==
  LET k == <<d, n>> IN
  /\ dconn[d] = NoConn
  /\ At(k, "none")
  /\ \A m \in 1 .. n - 1 : ~At(<<d, m>>, "none")
  /\ dconn' = [dconn EXCEPT ![d] = n]
  /\ link' = [link EXCEPT ![k] = "up"]
  /\ Goto(k, "hello")
  /\ tsession' = [tsession EXCEPT ![k] = dsession[d]]
  /\ UNCHANGED <<tables, dsession, djobs, dloop, req, rep, trow, taction, tfailed>>

\* auth, Splayd.new(key): the row is read once.
ReadRow(k) ==
  /\ At(k, "hello")
  /\ trow' = [trow EXCEPT ![k] = splayds[SplaydOf(k)]]
  /\ Goto(k, "auth")
  /\ UNCHANGED <<tables, daemonVars, tsession, taction, tfailed>>

\* auth: a session can be restored when the daemon sent the one of the row.
SameSession(k) == tsession[k] = trow[k].session /\ tsession[k] # NullSession

\* auth: "OK" and the session of the cached row, which reset did not change.
Auth(k) == [cmd |-> "AUTH", session |-> SessionText(trow[k].session)]

\* auth: the session is restored and the daemon is available, or reset begins ...
Authenticate(k) ==
  LET d == SplaydOf(k)
  IN /\ At(k, "auth")
     /\ IF SameSession(k)
        THEN /\ Write(k, <<Auth(k)>>)
             /\ splayds' = SetSplaydStatus(d, "AVAILABLE")
             /\ Goto(k, "available")
             /\ UNCHANGED <<actions, nextAction, splayd_jobs, selections, jobs>>
        ELSE /\ ResetSession(d)
             /\ Goto(k, "reset")
             /\ UNCHANGED req
     /\ UNCHANGED <<dsession, djobs, dconn, dloop, link, rep,
                    tsession, trow, taction, tfailed>>

\* ... and the daemon is asked for its description.
AskInfos(k) ==
  /\ At(k, "reset")
  /\ ResetJobs(SplaydOf(k))
  /\ Write(k, <<Auth(k), [cmd |-> "INFOS"]>>)
  /\ Goto(k, "infos")
  /\ UNCHANGED <<dsession, djobs, dconn, dloop, link, rep,
                 tsession, trow, taction, tfailed>>

\* auth: INFOS answered, update_splayd_infos reads the row again.
InfosOK(k) ==
  /\ At(k, "infos")
  /\ Read(k, "OK")
  /\ trow' = [trow EXCEPT ![k] = splayds[SplaydOf(k)]]
  /\ Write(k, <<[cmd |-> "LOG"]>>)
  /\ Goto(k, "log")
  /\ UNCHANGED <<tables, dsession, djobs, dconn, dloop, link,
                 tsession, taction, tfailed>>

\* auth: LOG answered; available.
Available(k) ==
  /\ At(k, "log")
  /\ Read(k, "OK")
  /\ splayds' = SetSplaydStatus(SplaydOf(k), "AVAILABLE")
  /\ Goto(k, "available")
  /\ UNCHANGED <<actions, nextAction, splayd_jobs, selections, jobs, dsession, djobs,
                 dconn, dloop, link, req, tsession, trow, taction, tfailed>>

\* restore_actions goes on with the rows left, or auth is over.
GoesOnWith(k, rows) ==
  /\ tfailed' = [tfailed EXCEPT ![k] = rows]
  /\ Goto(k, IF rows = {} THEN "main" ELSE "restore")

\* restore_actions: the SELECT.
ReadFailed(k) ==
  /\ At(k, "available")
  /\ GoesOnWith(k, ActionsOf(SplaydOf(k), "FAILURE"))
  /\ UNCHANGED <<tables, daemonVars, tsession, trow, taction>>

\* restore_actions: a row back to WAITING, if it is still there.
RestoreAction(k) ==
  /\ At(k, "restore")
  /\ \E a \in tfailed[k] :
       /\ FirstOf(tfailed[k], a) /\ a.cmd # "REGISTER"
       /\ actions' = SetActionStatus({b \in actions : b.splayd = a.splayd /\ b.id = a.id},
                                     "WAITING")
       /\ GoesOnWith(k, tfailed[k] \ {a})
  /\ UNCHANGED <<splayds, nextAction, splayd_jobs, selections, jobs, daemonVars,
                 tsession, trow, taction>>

\* restore_actions: a REGISTER is deleted, and replaced by ...
DeleteRegister(k) ==
  /\ At(k, "restore")
  /\ \E a \in tfailed[k] :
       /\ FirstOf(tfailed[k], a) /\ a.cmd = "REGISTER"
       /\ actions' = RemoveAction(SplaydOf(k), a.id)
       /\ tfailed' = [tfailed EXCEPT ![k] = @ \ {a}]
       /\ taction' = [taction EXCEPT ![k] = a]
  /\ Goto(k, "free")
  /\ UNCHANGED <<splayds, nextAction, splayd_jobs, selections, jobs, daemonVars,
                 tsession, trow>>

\* ... a FREE ...
FreeFirst(k) ==
  /\ At(k, "free")
  /\ AddAction(SplaydOf(k), taction[k].job, "FREE", "json")
  /\ Goto(k, "register")
  /\ UNCHANGED <<splayds, splayd_jobs, selections, jobs, daemonVars,
                 tsession, trow, taction, tfailed>>

\* ... and a REGISTER, at the end of the table and with jobs.code as its data.
RegisterAgain(k) ==
  /\ At(k, "register")
  /\ AddAction(SplaydOf(k), taction[k].job, "REGISTER", "code")
  /\ taction' = [taction EXCEPT ![k] = NoAction]
  /\ GoesOnWith(k, tfailed[k])
  /\ UNCHANGED <<splayds, splayd_jobs, selections, jobs, daemonVars, tsession, trow>>

\* A read raises: the link is broken, or no answer came before the socket timeout
\* (the daemon may still execute the command, and answer a thread that has gone).
ReadRaises(k) == link[k] = "down" \/ rep[k] = "none"

\* auth, rescue: a read raised.  The status of the cached row comes back.
AuthFails(k) ==
  /\ At(k, "infos") \/ At(k, "log")
  /\ ReadRaises(k)
  /\ splayds' = SetSplaydStatus(SplaydOf(k), trow[k].status)
  /\ Goto(k, "dead")
  /\ UNCHANGED <<actions, nextAction, splayd_jobs, selections, jobs, daemonVars,
                 tsession, trow, taction, tfailed>>

(***************************************************************************)
(* The ensure of main: unavailable, then action_failure.  The ensure of    *)
(* run raises on @row[:key] (@row is nil), before it closes the socket, so *)
(* the daemon's end stays open.                                            *)
(***************************************************************************)
EndMain(k) ==
  /\ splayds' = SetSplaydStatus(SplaydOf(k), "UNAVAILABLE")
  /\ actions' = ActionFailure(SplaydOf(k))
  /\ taction' = [taction EXCEPT ![k] = NoAction]
  /\ Goto(k, "dead")

\* main: a read (of a reply, or of the reply to PING) raises.
MainFails(k) ==
  /\ At(k, "main") \/ At(k, "wait")
  /\ ReadRaises(k)
  /\ EndMain(k)
  /\ UNCHANGED <<nextAction, splayd_jobs, selections, jobs, daemonVars,
                 tsession, trow, tfailed>>

\* main: next_action reads the first WAITING row ...
PickAction(k) ==
  /\ At(k, "main")
  /\ \E a \in actions : FirstWaiting(SplaydOf(k), a) /\ taction' = [taction EXCEPT ![k] = a]
  /\ Goto(k, "picked")
  /\ UNCHANGED <<tables, daemonVars, tsession, trow, tfailed>>

\* ... marks it SENDING, and main writes it.
SendAction(k) ==
  /\ At(k, "picked")
  /\ actions' = MarkSending(SplaydOf(k), taction[k].id)
  /\ Write(k, <<[cmd |-> taction[k].cmd, job |-> taction[k].job,
                 data |-> taction[k].data]>>)
  /\ Goto(k, "wait")
  /\ UNCHANGED <<splayds, nextAction, splayd_jobs, selections, jobs,
                 dsession, djobs, dconn, dloop, link, rep,
                 tsession, trow, taction, tfailed>>

\* The replies main accepts for a command; any other is a ProtocolError.
Accepted(c, r) ==
  CASE c = "REGISTER" -> r = "OK"
    [] c = "START"    -> r \in {"OK", "RUNNING"}
    [] OTHER          -> TRUE

\* main: an accepted reply, applied to the tables.
ApplyReply(k) ==
  LET d == SplaydOf(k)
      j == taction[k].job
      c == taction[k].cmd
  IN /\ At(k, "wait")
     /\ \E r \in Reply : Read(k, r) /\ Accepted(c, r)
     /\ CASE c = "REGISTER" -> SJRegister(d, j)
          [] c = "START"    -> SJStart(d, j) /\ UNCHANGED selections
          [] c = "FREE"     -> SJFree(d, j) /\ UNCHANGED selections
          [] OTHER          -> UNCHANGED <<splayd_jobs, selections>>
     /\ Goto(k, "applied")
     /\ UNCHANGED <<splayds, actions, nextAction, jobs, dsession, djobs, dconn, dloop,
                    link, req, tsession, trow, taction, tfailed>>

\* main: any other reply raises.
ReplyNotOK(k) ==
  /\ At(k, "wait")
  /\ \E r \in Reply : Read(k, r) /\ ~Accepted(taction[k].cmd, r)
  /\ EndMain(k)
  /\ UNCHANGED <<nextAction, splayd_jobs, selections, jobs, dsession, djobs, dconn,
                 dloop, link, req, tsession, trow, tfailed>>

\* main: the action is removed last, so that a crash before redoes it.
FinishAction(k) ==
  /\ At(k, "applied")
  /\ actions' = RemoveAction(SplaydOf(k), taction[k].id)
  /\ taction' = [taction EXCEPT ![k] = NoAction]
  /\ Goto(k, "main")
  /\ UNCHANGED <<splayds, nextAction, splayd_jobs, selections, jobs, daemonVars,
                 tsession, trow, tfailed>>

\* The garbage collector closes the socket of a dead thread, some day.
CollectSocket(k) ==
  /\ At(k, "dead")
  /\ link[k] = "up"
  /\ link' = [link EXCEPT ![k] = "down"]
  /\ UNCHANGED <<tables, threadVars, dsession, djobs, dconn, dloop, req, rep>>

\* A step of run: auth, then main, then the ensure.
ThreadStep(k) ==
  \/ ReadRow(k)
  \/ Authenticate(k)
  \/ AskInfos(k)
  \/ InfosOK(k)
  \/ Available(k)
  \/ ReadFailed(k)
  \/ RestoreAction(k)
  \/ DeleteRegister(k)
  \/ FreeFirst(k)
  \/ RegisterAgain(k)
  \/ AuthFails(k)
  \/ MainFails(k)
  \/ PickAction(k)
  \/ SendAction(k)
  \/ ApplyReply(k)
  \/ ReplyNotOK(k)
  \/ FinishAction(k)

=============================================================================
