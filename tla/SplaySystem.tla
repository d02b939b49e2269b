---------------------------- MODULE SplaySystem ----------------------------
(***************************************************************************)
(* The controller and its daemons: the daemons, a controller thread for    *)
(* each connection, the job scheduler and the unseen daemon, all working   *)
(* on the same tables; links that break, daemons that restart, and a       *)
(* controller that stops anywhere and starts again.                        *)
(***************************************************************************)
EXTENDS SplaydProtocol, JobdStandard

CONSTANTS
  MaxFaults,     \* bound: links lost, answers too late, daemon restarts, busy
                 \* ports and controller restarts
  MaxRestarts    \* bound: restarts of the controller

ASSUME BoundsAssumption == MaxFaults \in Nat /\ MaxRestarts \in Nat

VARIABLES
  unseen,            \* what reset_unseen does with a daemon
  faults, restarts   \* how many there were

vars == <<tables, daemonVars, threadVars, jobdVars, unseen, faults, restarts>>

UnseenState == {"seen",        \* nothing
                "unseen",      \* found not seen for unseen_timeout
                "resetting"}   \* in the middle of reset

AllSeen == [d \in Splayd |-> "seen"]

EventsTypeOK ==
  /\ unseen \in [Splayd -> UnseenState]
  /\ faults \in 0 .. MaxFaults
  /\ restarts \in 0 .. MaxRestarts

TypeOK ==
  /\ TablesTypeOK
  /\ DaemonTypeOK
  /\ ThreadTypeOK
  /\ JobdTypeOK
  /\ EventsTypeOK

Init ==
  /\ TablesInit
  /\ DaemonInit
  /\ ThreadInit
  /\ JobdInit
  /\ unseen = AllSeen
  /\ faults = 0
  /\ restarts = 0

---------------------------------------------------------------------------
NoEvent == UNCHANGED <<unseen, faults, restarts>>

Fault ==
  /\ faults < MaxFaults
  /\ faults' = faults + 1
  /\ UNCHANGED <<unseen, restarts>>

\* A daemon executes the next command.
DaemonCommand(d) ==
  /\ Execute(d, Current(d), FALSE)
  /\ NoEvent
  /\ UNCHANGED <<tables, threadVars, jobdVars>>

\* A daemon finds no range of free ports for a job.
BusyPorts(d) ==
  /\ Register(d, Current(d), TRUE)
  /\ Fault
  /\ UNCHANGED <<tables, threadVars, jobdVars>>

\* run() without a connection: connects, or first resets after a long time.
DaemonConnects(d) ==
  /\ \E n \in 1 .. MaxConn : Connect(d, n)
  /\ NoEvent
  /\ UNCHANGED jobdVars

DaemonGivesUp(d) ==
  /\ HandshakeFails(d) \/ FullReset(d)
  /\ NoEvent
  /\ UNCHANGED <<tables, threadVars, jobdVars>>

DaemonFails(d) ==
  /\ DaemonRestart(d)
  /\ Fault
  /\ UNCHANGED <<tables, threadVars, jobdVars>>

LinkFails(k) ==
  /\ link[k] = "up"
  /\ link' = [link EXCEPT ![k] = "down"]
  /\ Fault
  /\ UNCHANGED <<tables, threadVars, jobdVars, dsession, djobs, dconn, dloop, req, rep>>

\* A thread dies though the link is there and no reply was wrong: the daemon took
\* longer to answer than the socket timeout.
TimesOut(k) == link[k] = "up" /\ rep[k] = "none" /\ tpc'[k] = "dead"

ThreadRuns(k) ==
  /\ ThreadStep(k)
  /\ IF TimesOut(k) THEN Fault ELSE NoEvent
  /\ UNCHANGED jobdVars

SocketCollected(k) ==
  /\ CollectSocket(k)
  /\ NoEvent
  /\ UNCHANGED jobdVars

JobdRuns ==
  /\ JobdStep
  /\ NoEvent
  /\ UNCHANGED <<daemonVars, threadVars>>

UserActs(j) ==
  /\ Submit(j) \/ KillJob(j)
  /\ NoEvent
  /\ UNCHANGED <<daemonVars, threadVars, jobdVars>>

\* available and main refresh last_contact_time.
Contacted == Serving \cup {"available", "restore", "free", "register"}

\* unseend.rb: the SELECT of reset_unseen.  No contact for unseen_timeout, so no
\* thread has got that far: it would have pinged it or sent much more often.
UnseenSelect ==
  /\ unseen = AllSeen
  /\ \E ds \in SUBSET {d \in Unseen : \A n \in 1 .. MaxConn : tpc[<<d, n>>] \notin Contacted} :
       unseen' = [d \in Splayd |-> IF d \in ds THEN "unseen" ELSE "seen"]
  /\ UNCHANGED <<tables, daemonVars, threadVars, jobdVars, faults, restarts>>

\* reset_unseen, for each daemon of the SELECT, whatever became of it since:
\* kill finds no thread (see SplaydProtocol), then reset.
UnseenReset(d) ==
  /\ \/ /\ unseen[d] = "unseen"
        /\ \A e \in Splayd : unseen[e] # "resetting"
        /\ ResetSession(d)
        /\ unseen' = [unseen EXCEPT ![d] = "resetting"]
     \/ /\ unseen[d] = "resetting"
        /\ ResetJobs(d)
        /\ unseen' = [unseen EXCEPT ![d] = "seen"]
  /\ UNCHANGED <<daemonVars, threadVars, jobdVars, faults, restarts>>

\* controller.rb: the process is gone, with its threads and its sockets, and
\* started again (Splayd.init).
ControllerRestarts ==
  /\ faults < MaxFaults /\ restarts < MaxRestarts
  /\ faults' = faults + 1 /\ restarts' = restarts + 1
  /\ SplaydInit
  /\ tpc' = [k \in Conn |-> IF tpc[k] = "none" THEN "none" ELSE "dead"]
  /\ taction' = [k \in Conn |-> NoAction]
  /\ tfailed' = [k \in Conn |-> {}]
  /\ unseen' = AllSeen
  /\ link' = [k \in Conn |-> IF link[k] = "up" THEN "down" ELSE link[k]]
  /\ jphase' = "queued" /\ jtodo' = {} /\ jjob' = NoJob /\ jstep' = "next" /\ jset' = {}
  /\ UNCHANGED <<nextAction, splayd_jobs, selections, jobs, dsession, djobs,
                 dconn, dloop, req, rep, tsession, trow>>

Next ==
  \/ \E d \in Splayd :
       \/ DaemonCommand(d) \/ BusyPorts(d) \/ DaemonConnects(d)
       \/ DaemonGivesUp(d) \/ DaemonFails(d) \/ UnseenReset(d)
  \/ \E k \in Conn : LinkFails(k) \/ ThreadRuns(k) \/ SocketCollected(k)
  \/ UnseenSelect
  \/ JobdRuns
  \/ \E j \in Job : UserActs(j)
  \/ ControllerRestarts

Spec == Init /\ [][Next]_vars

(***************************************************************************)
(* Fairness: every process goes on.  The scheduler never blocks; a thread  *)
(* notices a broken link within the socket timeout; a daemon reads what it *)
(* receives and connects again for ever.  The timeouts of registering and  *)
(* queued jobs are strong: they are looked at in every round, and in some  *)
(* round the time has passed.  Users, faults (also an answer that is too   *)
(* late) and the garbage collector owe nothing.                            *)
(***************************************************************************)
FairSpec ==
  /\ Spec
  /\ \A d \in Splayd :
       /\ WF_vars(DaemonCommand(d))
       /\ WF_vars(DaemonConnects(d))
       /\ WF_vars(HandshakeFails(d) /\ DaemonGivesUp(d))
  /\ \A k \in Conn : WF_vars(ThreadRuns(k) /\ NoEvent)
  /\ WF_vars(JobdRuns)
  /\ \A j \in Job :
       /\ SF_vars(RegisterTimeout(j) /\ JobdRuns)
       /\ SF_vars(SelectSplayds(j, "queued", {}, TRUE) /\ JobdRuns)

---------------------------------------------------------------------------
(* Actions and who answers for them *)

\* A command marked SENDING is in the hands of a live thread of its daemon: none
\* is left behind by a thread that died or a controller that stopped.
SendingHasSender ==
  \A a \in actions : a.status = "SENDING" =>
     \E k \in Conn : /\ SplaydOf(k) = a.splayd
                     /\ tpc[k] \in {"wait", "applied"}
                     /\ taction[k].id = a.id

\* A TEMP command is about to be completed by the scheduler, in the middle of
\* the same job: none is skipped for ever by next_action.
TempHasWriter ==
  \A a \in actions : a.status = "TEMP" =>
     /\ a.job = jjob
     /\ \/ a.cmd = "REGISTER" /\ jstep = "commit"
        \/ a.cmd = "LIST" /\ jstep = "list_data"

---------------------------------------------------------------------------
(* What the tables say and what the daemons do *)

\* Daemon d uses connection k, and its thread is in main.
Synchronized(d, k) ==
  /\ SplaydOf(k) = d /\ k = Current(d)
  /\ dloop[d] /\ link[k] = "up"
  /\ tpc[k] \in Serving

\* A job the tables show as WAITING or RUNNING on a synchronized daemon is on
\* that daemon, unless the daemon has just executed FREE.
RowMeansJob ==
  \A k \in Conn, r \in splayd_jobs :
     Synchronized(r.splayd, k) /\ r.status # "RESERVED" =>
        \/ djobs[r.splayd][r.job] # "none"
        \/ /\ tpc[k] = "wait"
           /\ taction[k].cmd = "FREE" /\ taction[k].job = r.job

\* The scheduler never gives a daemon more jobs than it has slots.
NoOverbooking == \A d \in Splayd : NbNodes(d) <= MaxNumber

\* A job whose registration timed out, or a daemon that was not selected: a
\* synchronized daemon that has the job has a FREE on its way.
Unwanted(d, j) ==
  \/ jobs[j].status = "REGISTER_TIMEOUT"
  \/ /\ jobs[j].status \in {"RUNNING", "ENDED"}
     /\ \A s \in Selected(j) : s.splayd # d

UnwantedIsFreed ==
  \A k \in Conn, j \in Job :
     LET d == SplaydOf(k) IN
     Synchronized(d, k) /\ djobs[d][j] # "none" /\ Unwanted(d, j) =>
        \E a \in actions : a.splayd = d /\ a.job = j /\ a.cmd = "FREE"

\* A job that runs was given to as many daemons as it asked for.
RunningIsSelected ==
  \A j \in Job : jobs[j].status \in {"RUNNING", "ENDED"} =>
     Cardinality({s.splayd : s \in Selected(j)}) = NbSplayds

\* A daemon is never told to register a job it has.
NeverRegisteredTwice == \A k \in Conn : rep[k] # "EXISTING_REF"

\* A daemon that gets START without the LIST of the job (n_start raises) gets it
\* because LIST is still in the table, in the hands of another thread or given up
\* by it, or because the daemon was reset under its thread.  So no LIST is lost by
\* a broken connection, a thread that dies or gives up, or a controller that stops,
\* and START is not sent while LIST waits.
ListBeforeStart ==
  [][\A d \in Splayd :
       LET k == Current(d)
           j == Head(req[k]).job
       IN Start(d, k) /\ djobs[d][j] = "waiting" =>
            \/ splayds[d].session # trow[k].session
            \/ \E a \in actions : /\ a.splayd = d /\ a.job = j /\ a.cmd = "LIST"
                                 /\ a.status \in {"SENDING", "FAILURE"}]_vars

---------------------------------------------------------------------------
(* The life of a job *)

\* A job whose time in the queue is over is processed all the same in that
\* round, so it still waits until the scheduler lets it go.
LifeState(j) ==
  CASE jobs[j].status = "NONE"                  -> "new"
    [] jobs[j].status \in {"LOCAL", "QUEUED"}   -> "waiting"
    [] jobs[j].status = "QUEUE_TIMEOUT"         -> IF jjob = j THEN "waiting" ELSE "over"
    [] jobs[j].status = "REGISTERING"           -> "registering"
    [] jobs[j].status = "RUNNING"               -> "running"
    [] OTHER                                    -> "over"

\* The daemons of the job, while it runs.
LifeHosts(j) ==
  IF jobs[j].status = "RUNNING" THEN {s.splayd : s \in Selected(j)} ELSE {}

Life ==
  INSTANCE JobLifecycle
    WITH state <- [j \in Job |-> LifeState(j)],
         hosts <- [j \in Job |-> LifeHosts(j)],
         HostSets <- {ds \in SUBSET Splayd : Cardinality(ds) = NbSplayds}

\* The scheduler implements the life of a job, on the number of daemons the job
\* asked for.  What it read of the job stays true until it writes, several
\* statements later, and replies that arrive meanwhile change no host.
JobsLive == Life!Spec

LifeAnySize ==
  INSTANCE JobLifecycle
    WITH state <- [j \in Job |-> LifeState(j)],
         hosts <- [j \in Job |-> LifeHosts(j)],
         HostSets <- SUBSET Splayd

\* The same on any number of daemons: what is left when the controller may stop
\* in the middle of a decision and decide again.
JobsLiveOn == LifeAnySize!Spec

---------------------------------------------------------------------------
(* What the repository says of the program, and the program does not do *)

\* A daemon that is connected has the session its row has, so that it can be
\* restored when it connects again.
SessionsAgree ==
  \A k \in Conn :
     LET d == SplaydOf(k) IN
     Synchronized(d, k) => dsession[d] = SessionText(splayds[d].session)

\* A killed job is freed on the daemons that have it.
KilledIsFreed ==
  \A k \in Conn, j \in Job :
     LET d == SplaydOf(k) IN
     Synchronized(d, k) /\ djobs[d][j] # "none" /\ jobs[j].status = "KILLED" =>
        \E a \in actions : a.splayd = d /\ a.job = j /\ a.cmd = "FREE"

\* A job only passes to ENDED when it is not on any daemon.
EndedIsOver ==
  [][\A j \in Job : jobs[j].status = "RUNNING" /\ jobs'[j].status = "ENDED" =>
        \A d \in Splayd : \A r \in SplaydJobsOf(d, j) : r.status = "RESERVED"]_vars

\* A daemon leaves a broken connection, to connect again.
BrokenLinkIsLeft ==
  \A d \in Splayd, k \in Conn :
     (k = Current(d) /\ link[k] = "down") ~> k # Current(d)

---------------------------------------------------------------------------
(* Progress *)

\* A registration is decided, whatever the daemons answer.
RegistrationDecided ==
  \A j \in Job : jobs[j].status = "REGISTERING" ~> jobs[j].status # "REGISTERING"

\* A job does not stay in the queue for ever, even if no slot is ever free.
QueueDecided ==
  \A j \in Job : jobs[j].status = "QUEUED" ~> jobs[j].status # "QUEUED"

\* A command waiting for a daemon leaves the table as long as it is connected.
Delivered ==
  \A d \in Splayd :
     LET synchronized == \E k \in Conn : Synchronized(d, k)
     IN (synchronized /\ ActionsOf(d, "WAITING") # {})
           ~> (ActionsOf(d, "WAITING") = {} \/ ~synchronized)

\* When the registration timed out, the job leaves every connected daemon.
TimedOutLeaves ==
  \A j \in Job, k \in Conn :
     jobs[j].status = "REGISTER_TIMEOUT" ~>
        (djobs[SplaydOf(k)][j] = "none" \/ ~Synchronized(SplaydOf(k), k))

=============================================================================
