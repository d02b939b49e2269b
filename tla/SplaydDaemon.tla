---------------------------- MODULE SplaydDaemon ----------------------------
(***************************************************************************)
(* The daemon (splayd.lua) as the controller sees it: its session, its job *)
(* table, the connection it has, and how it executes one command.  Ports,  *)
(* processes and churn are in the daemon's own modules.                    *)
(*                                                                         *)
(* A daemon has one connection at a time and executes one command at a     *)
(* time.  Its connections are numbered; each is a FIFO of commands one way *)
(* and at most one reply the other way, and breaks for good.               *)
(***************************************************************************)
EXTENDS SplayTables, Sequences

CONSTANT MaxConn       \* bound: connections a daemon ever opens

ASSUME MaxConnAssumption == MaxConn \in Nat

\* <<d, n>> is the n-th connection of daemon d.
Conn == Splayd \X (1 .. MaxConn)
NoConn == 0

VARIABLES
  dsession,   \* splayd.session
  djobs,      \* splayd.jobs: "none" (no entry), "waiting" (no list received
              \* yet: network.list is nil), "listed" (waiting, list received),
              \* "running"
  dconn,      \* the number of the connection it uses, or NoConn
  dloop,      \* TRUE: in server_loop, FALSE: before (in controller)
  link,       \* "free", "up", or "down" (either end closed, or network lost)
  req,        \* commands written by the controller, not yet read
  rep         \* reply written by the daemon, not yet read, or "none"

daemonVars == <<dsession, djobs, dconn, dloop, link, req, rep>>

DaemonJobStatus == {"none", "waiting", "listed", "running"}
Reply == {"none", "OK", "EXISTING_REF", "NO_NEW", "BUSY_PORTS", "UNKNOWN_REF", "RUNNING"}

Message ==
  [cmd : {"AUTH"}, session : Nat] \cup [cmd : {"INFOS", "LOG"}]
    \cup [cmd : Command, job : Job, data : ActionData]

DaemonTypeOK ==
  /\ dsession \in [Splayd -> Nat]
  /\ djobs \in [Splayd -> [Job -> DaemonJobStatus]]
  /\ dconn \in [Splayd -> 0 .. MaxConn]
  /\ dloop \in [Splayd -> BOOLEAN]
  /\ link \in [Conn -> {"free", "up", "down"}]
  /\ req \in [Conn -> Seq(Message)]
  /\ rep \in [Conn -> Reply]

DaemonInit ==
  /\ dsession = [d \in Splayd |-> EmptyText]
  /\ djobs = [d \in Splayd |-> [j \in Job |-> "none"]]
  /\ dconn = [d \in Splayd |-> NoConn]
  /\ dloop = [d \in Splayd |-> FALSE]
  /\ link = [k \in Conn |-> "free"]
  /\ req = [k \in Conn |-> <<>>]
  /\ rep = [k \in Conn |-> "none"]

---------------------------------------------------------------------------
\* reset(): every job is freed
NoJobs == [j \in Job |-> "none"]

\* The connection of daemon d.
Current(d) == <<d, dconn[d]>>

NbJobs(d) == Cardinality({j \in Job : djobs[d][j] # "none"})

\* The daemon reads the next command; what is left in the buffers of a
\* broken connection can still be read.
Receives(d, k, c) ==
  /\ dconn[d] # NoConn
  /\ k = Current(d)
  /\ req[k] # <<>>
  /\ Head(req[k]).cmd = c
  /\ req' = [req EXCEPT ![k] = Tail(@)]

(***************************************************************************)
(* assert(so:send(reply)).  On a broken connection the reply is lost and   *)
(* the send either raises, which ends server_loop and the connection, or   *)
(* goes unnoticed.                                                         *)
(***************************************************************************)
Answers(d, k, r) ==
  \/ /\ link[k] = "up"
     /\ rep' = [rep EXCEPT ![k] = r]
     /\ UNCHANGED <<dconn, dloop, link>>
  \/ /\ link[k] = "down"
     /\ dconn' \in {dconn, [dconn EXCEPT ![d] = NoConn]}
     /\ dloop' = [dloop EXCEPT ![d] = dconn'[d] # NoConn]
     /\ UNCHANGED <<rep, link>>

\* A Lua error ends the server_loop coroutine; run closes the socket and
\* will connect again.  The jobs and the session stay.
Breaks(d, k) ==
  /\ dconn' = [dconn EXCEPT ![d] = NoConn]
  /\ dloop' = [dloop EXCEPT ![d] = FALSE]
  /\ link' = [link EXCEPT ![k] = "down"]
  /\ UNCHANGED <<rep, dsession, djobs>>

\* Mutant of ReceiveSession: a new session does not reset the jobs.
ReceiveSessionKeepsJobs(d, k) ==
  /\ Receives(d, k, "AUTH")
  /\ dsession' = [dsession EXCEPT ![d] = Head(req[k]).session]
  /\ dloop' = [dloop EXCEPT ![d] = TRUE]
  /\ UNCHANGED <<djobs, dconn, link, rep>>

\* controller(so), from the receipt of "OK" and the session on
ReceiveSession(d, k) ==
  /\ Receives(d, k, "AUTH")
  /\ LET s == Head(req[k]).session
     IN /\ djobs' = IF s = dsession[d] THEN djobs
                    ELSE [djobs EXCEPT ![d] = NoJobs]
        /\ dsession' = [dsession EXCEPT ![d] = s]
  /\ dloop' = [dloop EXCEPT ![d] = TRUE]
  /\ UNCHANGED <<dconn, link, rep>>

\* infos(so), blacklist(so) and n_log(so)
ReceiveSettings(d, k) ==
  /\ \E c \in {"INFOS", "LOG"} : Receives(d, k, c)
  /\ Answers(d, k, "OK")
  /\ UNCHANGED <<dsession, djobs>>

\* register(so); busy: find_reserve_ports finds no range, other programs
\* hold the ports.  Only a job described in JSON can be decoded.
RegisterReply(d, j, busy) ==
  IF djobs[d][j] # "none" THEN "EXISTING_REF"
  ELSE IF NbJobs(d) >= MaxNumber THEN "NO_NEW"
  ELSE IF busy THEN "BUSY_PORTS"
  ELSE "OK"

Register(d, k, busy) ==
  /\ Receives(d, k, "REGISTER")
  /\ LET m == Head(req[k])
         r == RegisterReply(d, m.job, busy)
     IN IF m.data = "code" THEN Breaks(d, k)
        ELSE /\ Answers(d, k, r)
             /\ djobs' = IF r = "OK" THEN [djobs EXCEPT ![d][m.job] = "waiting"]
                         ELSE djobs
             /\ UNCHANGED dsession

\* n_free(so)
Free(d, k) ==
  /\ Receives(d, k, "FREE")
  /\ LET j == Head(req[k]).job
     IN /\ Answers(d, k, IF djobs[d][j] = "none" THEN "UNKNOWN_REF" ELSE "OK")
        /\ djobs' = [djobs EXCEPT ![d][j] = "none"]
  /\ UNCHANGED dsession

\* list(so)
List(d, k) ==
  /\ Receives(d, k, "LIST")
  /\ LET j == Head(req[k]).job
     IN /\ Answers(d, k, IF djobs[d][j] = "none" THEN "UNKNOWN_REF" ELSE "OK")
        /\ djobs' = [djobs EXCEPT ![d][j] = IF @ = "waiting" THEN "listed" ELSE @]
  /\ UNCHANGED dsession

\* n_start(so) for a job without a timeline.  It indexes network.list before
\* anything else: without a list that is a Lua error.
Start(d, k) ==
  /\ Receives(d, k, "START")
  /\ LET j == Head(req[k]).job
     IN IF djobs[d][j] = "waiting" THEN Breaks(d, k)
        ELSE /\ Answers(d, k, CASE djobs[d][j] = "none"    -> "UNKNOWN_REF"
                                [] djobs[d][j] = "running" -> "RUNNING"
                                [] OTHER                   -> "OK")
             /\ djobs' = [djobs EXCEPT ![d][j] = IF @ = "listed" THEN "running" ELSE @]
             /\ UNCHANGED dsession

\* Before server_loop every read is asserted: a broken connection raises.
HandshakeFails(d) ==
  /\ dconn[d] # NoConn
  /\ ~dloop[d]
  /\ link[Current(d)] = "down"
  /\ dconn' = [dconn EXCEPT ![d] = NoConn]
  /\ UNCHANGED <<dsession, djobs, dloop, link, req, rep>>

\* run(): more than max_disconnection_time without server_loop.
FullReset(d) ==
  /\ dconn[d] = NoConn
  /\ dsession[d] # EmptyText
  /\ djobs' = [djobs EXCEPT ![d] = NoJobs]
  /\ dsession' = [dsession EXCEPT ![d] = EmptyText]
  /\ UNCHANGED <<dconn, dloop, link, req, rep>>

\* The daemon executes one command (busy: see Register).
Execute(d, k, busy) ==
  \/ ReceiveSession(d, k)
  \/ ReceiveSettings(d, k)
  \/ Register(d, k, busy)
  \/ Free(d, k)
  \/ List(d, k)
  \/ Start(d, k)

\* The process is killed and started again, with nothing but its settings.
DaemonRestart(d) ==
  /\ djobs' = [djobs EXCEPT ![d] = NoJobs]
  /\ dsession' = [dsession EXCEPT ![d] = EmptyText]
  /\ dconn' = [dconn EXCEPT ![d] = NoConn]
  /\ dloop' = [dloop EXCEPT ![d] = FALSE]
  /\ link' = IF dconn[d] = NoConn THEN link ELSE [link EXCEPT ![Current(d)] = "down"]
  /\ UNCHANGED <<req, rep>>

=============================================================================
