-------------------------- MODULE SplayLifeProofs --------------------------
(***************************************************************************)
(* SplaySystem implements the life of a job: what the scheduler read of a  *)
(* job is still true when it writes, although users, the threads of the    *)
(* daemons and failures go on between the two.                             *)
(***************************************************************************)
EXTENDS SplaySystemProofs

\* The status the SELECT of a phase asked for.
TodoStatus(p) ==
  CASE p = "local"              -> {"LOCAL"}
    [] p = "registering"        -> {"REGISTERING"}
    [] p \in {"running", "maxtime"} -> {"RUNNING"}
    [] p = "queued"             -> {"QUEUED"}
    [] OTHER                    -> JobStatus

\* The statements after the decision to send the REGISTER commands, those that
\* follow enough replies, and those that follow the timeout.
Sending == {"selections", "splayd_jobs", "registers", "commit", "registering"}
Deciding == {"select", "free", "list", "list_data", "running"}
GivingUp == {"unregister", "forget", "timeout"}

\* The jobs of the phase, and the one being processed, still have the status that
\* was read.
Known ==
  /\ \A j \in jtodo : jobs[j].status \in TodoStatus(jphase)
  /\ jjob \notin jtodo
  /\ jstep \in Sending => jobs[jjob].status \in {"LOCAL", "QUEUED", "QUEUE_TIMEOUT"}
  /\ jstep \in Deciding \cup GivingUp => jobs[jjob].status = "REGISTERING"
  /\ jstep = "start" => jobs[jjob].status = "RUNNING"

HostsOf(j) == {s.splayd : s \in Selected(j)}

\* selections has the same rows as before, as far as jobs, daemons and the flag
\* selected go.
SameRow(s, t) == s.splayd = t.splayd /\ s.job = t.job /\ s.selected = t.selected

SameSelected ==
  /\ \A s \in selections : \E t \in selections' : SameRow(s, t)
  /\ \A t \in selections' : \E s \in selections : SameRow(s, t)

---------------------------------------------------------------------------
(* The steps of everyone but the scheduler *)

LEMMA SameSelectedHosts ==
  ASSUME SameSelected
  PROVE  \A j \in Job : HostsOf(j)' = HostsOf(j)
  BY DEF SameSelected, SameRow, HostsOf, Selected, SelectionsOf

LEMMA SameRows == UNCHANGED selections => SameSelected
  BY DEF SameSelected, SameRow

LEMMA ResetJobsSelected ==
  ASSUME TypeOK, NEW d, ResetJobs(d)
  PROVE  SameSelected
  <1>1. selections \in SUBSET Selection
    BY DEF TypeOK, TablesTypeOK
  <1>2. \A s \in selections : SameRow(s, IF s.splayd = d THEN [s EXCEPT !.reset = TRUE] ELSE s)
    BY <1>1 DEF Selection, SameRow
  <1> QED BY <1>2 DEF SameSelected, ResetJobs

LEMMA SJRegisterSelected ==
  ASSUME TypeOK, NEW d, NEW j, SJRegister(d, j)
  PROVE  SameSelected
  <1>1. selections \in SUBSET Selection
    BY DEF TypeOK, TablesTypeOK
  <1>2. \A s \in selections :
          SameRow(s, IF s.splayd = d /\ s.job = j THEN [s EXCEPT !.replied = TRUE] ELSE s)
    BY <1>1 DEF Selection, SameRow
  <1> QED BY <1>2 DEF SameSelected, SJRegister

LEMMA ThreadSelected ==
  ASSUME TypeOK, NEW k \in Conn, ThreadStep(k)
  PROVE  SameSelected /\ jobs' = jobs
  <1>1. CASE ApplyReply(k)
    BY <1>1, SJRegisterSelected, SameRows DEF ApplyReply
  <1>2. CASE AskInfos(k)
    BY <1>2, ResetJobsSelected DEF AskInfos, ResetJobs
  <1>3. CASE ~ApplyReply(k) /\ ~AskInfos(k)
    BY <1>3, SameRows DEF ThreadStep, ReadRow, Authenticate, ResetSession, InfosOK,
       Available, ReadFailed, RestoreAction, DeleteRegister, FreeFirst, RegisterAgain,
       AuthFails, MainFails, PickAction, SendAction, ReplyNotOK, FinishAction, tables
  <1> QED BY <1>1, <1>2, <1>3

\* Nobody else writes jobs or the flag selected.
LEMMA OthersKeep ==
  ASSUME TypeOK, [Next]_vars, ~JobdRuns, ~ControllerRestarts, \A j \in Job : ~UserActs(j)
  PROVE  SameSelected /\ jobs' = jobs /\ UNCHANGED jobdVars
  <1>1. CASE \E k \in Conn : ThreadRuns(k)
    BY <1>1, ThreadSelected DEF ThreadRuns
  <1>2. CASE \E d \in Splayd : UnseenReset(d)
    <2> PICK d \in Splayd : UnseenReset(d)
      BY <1>2
    <2>1. CASE ResetJobs(d)
      BY <2>1, ResetJobsSelected DEF UnseenReset, ResetJobs
    <2>2. CASE ~ResetJobs(d)
      BY <2>2, SameRows DEF UnseenReset, ResetSession
    <2> QED BY <2>1, <2>2
  <1>3. CASE (\A k \in Conn : ~ThreadRuns(k)) /\ (\A d \in Splayd : ~UnseenReset(d))
    BY <1>3, SameRows DEF Next, vars, DaemonCommand, BusyPorts, DaemonConnects, Connect, DaemonGivesUp,
       DaemonFails, UnseenSelect, LinkFails, SocketCollected, CollectSocket, tables
  <1> QED BY <1>1, <1>2, <1>3

---------------------------------------------------------------------------
(* What the scheduler read is still true *)

LEMMA JobsOfStatus ==
  ASSUME TypeOK, NEW p \in Phase, NEW late, NEW old
  PROVE  \A j \in JobsOf(p, late, old) : j \in Job /\ jobs[j].status \in TodoStatus(p)
  BY DEF TypeOK, TablesTypeOK, Phase, JobsOf, JobsIn, TodoStatus

LEMMA StatementsKnown ==
  ASSUME TypeOK, Known, jstep # "next", JobdStep
  PROVE  Known'
  <1>1. jjob \in Job
    BY DEF TypeOK, JobdTypeOK
  <1>2. \A st : \A j \in jtodo : [jobs EXCEPT ![jjob].status = st][j] = jobs[j]
    BY <1>1 DEF TypeOK, TablesTypeOK, JobdTypeOK, Known
  <1>3. \A st : [jobs EXCEPT ![jjob].status = st][jjob].status = st
    BY <1>1 DEF TypeOK, TablesTypeOK
  <1>4. CASE \/ InsertSelections \/ InsertSplaydJobs \/ InsertRegisters \/ CommitRegisters
             \/ FreeOthers \/ SendAllList \/ CommitList \/ DeleteSelections
    BY <1>4 DEF InsertSelections, InsertSplaydJobs, InsertRegisters, CommitRegisters,
       FreeOthers, SendAllList, CommitList, DeleteSelections, Statement, Known, Sending,
       Deciding, GivingUp
  <1>7. CASE Selects \/ FreesAll
    BY <1>7 DEF Selects, SelectSplayd, FreesAll, FreeAll, Turn, Known, Sending, Deciding,
       GivingUp
  <1>5. CASE SetRegistering \/ SetRegisterTimeout \/ SendStart
    <2>1. \A j \in jtodo : j \in Job
      BY DEF TypeOK, JobdTypeOK
    <2>2. \A j \in jtodo : j # NoJob
      BY <2>1, JobAssumption
    <2> QED BY <1>2, <1>5, <2>2 DEF SetRegistering, SetRegisterTimeout, SendStart,
         LastStatement, SetJobStatus, Known, Sending, Deciding, GivingUp
  <1>6. CASE SetRunning
    BY <1>2, <1>3, <1>6 DEF SetRunning, Statement, SetJobStatus, Known, Sending, Deciding,
       GivingUp
  <1> QED BY <1>4, <1>5, <1>6, <1>7 DEF JobdStep, FreesAll, Selects, NextPhase, StatusLocal,
       StatusQueued, SelectSplayds, StatusRegistering, KeepRegistering, RegisterTimeout,
       StatusRunning, KillMaxTime, ExecuteKill, Takes

LEMMA TakesKnown ==
  ASSUME TypeOK, Known, NEW j \in Job, NEW p, Takes(j, p),
         \A i \in Job \ {j} : jobs'[i] = jobs[i],
         \/ Done
         \/ /\ \E ds : GoesOn(j, "selections", ds)
            /\ jobs'[j].status \in {"LOCAL", "QUEUED", "QUEUE_TIMEOUT"}
         \/ /\ \E ds : \E s \in {"select", "unregister", "forget"} : GoesOn(j, s, ds)
            /\ jobs'[j].status = "REGISTERING"
  PROVE  Known'
  <1>1. jtodo' \in SUBSET (Job \ {j}) /\ jtodo' \in SUBSET jtodo /\ j \notin jtodo'
    BY DEF Takes, TypeOK, JobdTypeOK
  <1>2. \A i \in jtodo' : jobs'[i].status \in TodoStatus(jphase')
    BY <1>1 DEF Takes, Known
  <1>3. jstep = "next"
    BY DEF Takes
  <1> QED BY <1>1, <1>2, <1>3 DEF Known, Done, GoesOn, Sending, Deciding, GivingUp

LEMMA SelectKnown ==
  ASSUME TypeOK, Known, NEW j \in Job, NEW p \in {"local", "queued"}, NEW late, NEW timeout,
         SelectSplayds(j, p, late, timeout)
  PROVE  Known'
  <1>1. Takes(j, p) /\ jobs[j].status \in {"LOCAL", "QUEUED"}
    BY DEF SelectSplayds, Takes, Known, TodoStatus
  <1>2. \A st : /\ \A i \in Job \ {j} : [jobs EXCEPT ![j].status = st][i] = jobs[i]
                /\ [jobs EXCEPT ![j].status = st][j].status = st
    BY DEF TypeOK, TablesTypeOK
  <1>3. \E st : jobs' = [jobs EXCEPT ![j].status = st]
    BY DEF SelectSplayds, SetJobStatus
  <1>4. \/ Done
        \/ /\ \E ds : GoesOn(j, "selections", ds)
           /\ jobs'[j].status \in {"LOCAL", "QUEUED", "QUEUE_TIMEOUT"}
    BY <1>1, <1>2 DEF SelectSplayds, SetJobStatus
  <1> QED BY <1>1, <1>2, <1>3, <1>4, TakesKnown

LEMMA RoundsKnown ==
  ASSUME TypeOK, Known, jstep = "next", JobdStep
  PROVE  Known'
  <1>1. CASE NextPhase
    <2>1. jphase' \in Phase
      BY <1>1, TypeOK DEF NextPhase, After, TypeOK, JobdTypeOK, Phase
    <2>2. PICK late, old : jtodo' = JobsOf(jphase', late, old)
      BY <1>1 DEF NextPhase
    <2>3. jjob = NoJob
      BY DEF TypeOK, JobdTypeOK
    <2>4. \A i \in jtodo' : i \in Job /\ jobs[i].status \in TodoStatus(jphase')
      BY <2>1, <2>2, JobsOfStatus
    <2> QED BY <1>1, <2>3, <2>4, JobAssumption DEF NextPhase, Known, tables, Sending, Deciding,
         GivingUp
  <1>2. ASSUME NEW j \in Job, StatusLocal(j) \/ StatusQueued(j) PROVE Known'
    BY <1>2, SelectKnown DEF StatusLocal, StatusQueued
  <1>3. ASSUME NEW j \in Job,
               StatusRegistering(j) \/ KeepRegistering(j) \/ RegisterTimeout(j)
        PROVE  Known'
    <2>1. Takes(j, "registering") /\ jobs' = jobs /\ jobs[j].status = "REGISTERING"
      BY <1>3 DEF StatusRegistering, KeepRegistering, RegisterTimeout, Takes, Known, TodoStatus,
         tables
    <2>2. Done \/ \E ds : \E s \in {"select", "unregister", "forget"} : GoesOn(j, s, ds)
      BY <1>3 DEF StatusRegistering, KeepRegistering, RegisterTimeout
    <2> QED BY <2>1, <2>2, TakesKnown
  <1>4. ASSUME NEW j \in Job, StatusRunning(j) \/ KillMaxTime(j) \/ ExecuteKill(j)
        PROVE  Known'
    <2>1. Done /\ \E p : Takes(j, p)
      BY <1>4 DEF StatusRunning, KillMaxTime, ExecuteKill
    <2>2. \A i \in Job \ {j} : jobs'[i] = jobs[i]
      BY <1>4 DEF StatusRunning, KillMaxTime, ExecuteKill, SetJobStatus, TypeOK, TablesTypeOK
    <2> QED BY <2>1, <2>2, TakesKnown
  <1> QED BY <1>1, <1>2, <1>3, <1>4 DEF JobdStep, SelectSplayd, FreeAll, Turn,
       InsertSelections, InsertSplaydJobs, InsertRegisters, CommitRegisters, SetRegistering,
       FreeOthers, SendAllList, CommitList, SetRunning, SendStart, DeleteSelections,
       SetRegisterTimeout, Statement, LastStatement

\* Submit and KillJob change no status the scheduler has read.
LEMMA UserKnown ==
  ASSUME TypeOK, Known, NEW j \in Job, UserActs(j)
  PROVE  Known'
  <1>1. UNCHANGED jobdVars
    BY DEF UserActs
  <1>2. \A i \in Job : \/ jobs'[i].status = jobs[i].status
                       \/ jobs[i].status = "NONE" /\ jobs'[i].status = "LOCAL"
    BY DEF UserActs, Submit, KillJob, SetJobStatus, TypeOK, TablesTypeOK
  <1>3. \A i \in jtodo : jobs'[i].status \in TodoStatus(jphase)
    BY <1>2 DEF Known, TodoStatus, TypeOK, JobdTypeOK, JobStatus
  <1>4. jjob \in Job \/ jstep = "next"
    BY DEF TypeOK, JobdTypeOK
  <1> QED BY <1>1, <1>2, <1>3, <1>4 DEF Known, jobdVars, Sending, Deciding, GivingUp

LEMMA KnownInductive == TypeOK /\ Known /\ [Next]_vars => Known'
  <1> SUFFICES ASSUME TypeOK, Known, [Next]_vars PROVE Known'
    OBVIOUS
  <1>1. CASE JobdRuns
    BY <1>1, StatementsKnown, RoundsKnown DEF JobdRuns
  <1>2. CASE \E j \in Job : UserActs(j)
    BY <1>2, UserKnown
  <1>3. CASE ControllerRestarts
    BY <1>3 DEF ControllerRestarts, Known, Sending, Deciding, GivingUp
  <1>4. CASE ~JobdRuns /\ ~ControllerRestarts /\ \A j \in Job : ~UserActs(j)
    BY <1>4, OthersKeep DEF Known, jobdVars
  <1> QED BY <1>1, <1>2, <1>3, <1>4

---------------------------------------------------------------------------
(* Every step of the system is a step of one job's life, or of none *)

Unmoved(j) == LifeState(j)' = LifeState(j) /\ LifeHosts(j)' = LifeHosts(j)

Moves(j, from, to) ==
  /\ LifeState(j) \in from /\ LifeState(j)' = to
  /\ \A i \in Job \ {j} : Unmoved(i)

Lives ==
  \/ \A i \in Job : Unmoved(i)
  \/ \E j \in Job : \/ Moves(j, {"new"}, "waiting")
                    \/ Moves(j, {"waiting"}, "registering")
                    \/ Moves(j, {"registering"}, "running")
                    \/ Moves(j, {"waiting", "registering", "running"}, "over")

\* The same job counts as processed.
SameProcessed(j) == (jjob' = j) <=> (jjob = j)

LEMMA UnmovedWhen ==
  ASSUME NEW j \in Job, jobs'[j].status = jobs[j].status,
         jobs[j].status = "RUNNING" => HostsOf(j)' = HostsOf(j),
         jobs[j].status = "QUEUE_TIMEOUT" => SameProcessed(j)
  PROVE  Unmoved(j)
  BY DEF Unmoved, LifeState, LifeHosts, HostsOf, SameProcessed

LEMMA StateIsHostless ==
  \A j \in Job : /\ LifeState(j) # "running" => LifeHosts(j) = {}
                /\ LifeState(j) = "running" => LifeHosts(j) = HostsOf(j)
  BY DEF LifeState, LifeHosts, HostsOf

\* Steps of the scheduler that write neither jobs nor selections.
LEMMA QuietLives ==
  ASSUME UNCHANGED <<jobs, selections>>,
         \A j \in Job : jobs[j].status = "QUEUE_TIMEOUT" => SameProcessed(j)
  PROVE  Lives
  <1>1. \A j \in Job : HostsOf(j)' = HostsOf(j)
    BY DEF HostsOf, Selected, SelectionsOf
  <1> QED BY <1>1, UnmovedWhen DEF Lives

LEMMA StatementsLive ==
  ASSUME TypeOK, Known, jstep # "next", JobdStep
  PROVE  Lives
  <1>1. jjob \in Job
    BY DEF TypeOK, JobdTypeOK
  <1>2. \A st : \A j \in Job \ {jjob} : [jobs EXCEPT ![jjob].status = st][j] = jobs[j]
    BY DEF TypeOK, TablesTypeOK
  <1>3. \A st : [jobs EXCEPT ![jjob].status = st][jjob].status = st
    BY <1>1 DEF TypeOK, TablesTypeOK
  <1>4. CASE \/ InsertSplaydJobs \/ InsertRegisters \/ CommitRegisters
             \/ FreeOthers \/ SendAllList \/ CommitList \/ FreesAll \/ SendStart
    <2>1. UNCHANGED <<jobs, selections>>
      BY <1>4 DEF InsertSplaydJobs, InsertRegisters, CommitRegisters, FreeOthers,
         SendAllList, CommitList, FreesAll, FreeAll, SendStart
    <2>2. \/ jjob' = jjob
          \/ jjob' = NoJob /\ jobs[jjob].status = "RUNNING"
      BY <1>4 DEF InsertSplaydJobs, InsertRegisters, CommitRegisters, FreeOthers,
         SendAllList, CommitList, FreesAll, FreeAll, SendStart, Statement, Turn,
         LastStatement, Known
    <2> QED BY <1>1, <2>1, <2>2, QuietLives, JobAssumption DEF SameProcessed
  <1>7. CASE Selects
    <2>1. jobs' = jobs /\ jjob' = jjob /\ jobs[jjob].status = "REGISTERING"
      BY <1>7 DEF Selects, SelectSplayd, Turn, Known, Deciding
    <2>2. \A j \in Job \ {jjob} : Selected(j)' = Selected(j)
      <3>1. \A s \in selections : [s EXCEPT !.selected = TRUE].job = s.job
        BY DEF TypeOK, TablesTypeOK, Selection
      <3> QED BY <1>7, <3>1 DEF Selects, SelectSplayd, Selected, SelectionsOf
    <2>3. \A j \in Job \ {jjob} : HostsOf(j)' = HostsOf(j)
      BY <2>2 DEF HostsOf
    <2> QED BY <2>1, <2>3, UnmovedWhen DEF Lives, SameProcessed
  <1>5. CASE InsertSelections \/ DeleteSelections
    <2>1. jobs' = jobs /\ jjob' = jjob /\ jobs[jjob].status # "RUNNING"
      BY <1>5 DEF InsertSelections, DeleteSelections, Statement, Known, Sending, GivingUp
    <2>2. \A j \in Job \ {jjob} : Selected(j)' = Selected(j)
      <3>1. CASE InsertSelections
        <4> DEFINE row(d) == [splayd |-> d, job |-> jjob,
                              seq |-> Cardinality({s \in SelectionsOf(jjob) : s.splayd = d}),
                              selected |-> FALSE, replied |-> FALSE, reset |-> FALSE]
        <4>3. selections' = selections \cup {row(d) : d \in jset}
          BY <3>1 DEF InsertSelections
        <4>4. \A d : row(d).job = jjob
          OBVIOUS
        <4>1. \A s \in selections' \ selections : s.job = jjob
          <5> HIDE DEF row
          <5> QED BY <4>3, <4>4
        <4>2. selections \in SUBSET selections'
          BY <3>1 DEF InsertSelections
        <4> QED BY <4>1, <4>2 DEF Selected, SelectionsOf
      <3>2. CASE DeleteSelections
        BY <3>2 DEF DeleteSelections, Selected, SelectionsOf
      <3> QED BY <1>5, <3>1, <3>2
    <2>3. \A j \in Job \ {jjob} : HostsOf(j)' = HostsOf(j)
      BY <2>2 DEF HostsOf
    <2> QED BY <2>1, <2>3, UnmovedWhen DEF Lives, SameProcessed
  <1>6. CASE SetRegistering \/ SetRunning \/ SetRegisterTimeout
    <2>1. selections' = selections
      BY <1>6 DEF SetRegistering, SetRunning, SetRegisterTimeout
    <2>2. \A j \in Job \ {jjob} : HostsOf(j)' = HostsOf(j) /\ jobs'[j].status = jobs[j].status
      BY <1>2, <1>6, <2>1 DEF HostsOf, Selected, SelectionsOf, SetRegistering, SetRunning,
         SetRegisterTimeout, SetJobStatus
    <2>3. \A j \in Job \ {jjob} : SameProcessed(j)
      BY <1>6, JobAssumption DEF SetRegistering, SetRunning, SetRegisterTimeout, Statement,
         LastStatement, SameProcessed
    <2>4. \A j \in Job \ {jjob} : Unmoved(j)
      BY <2>2, <2>3, UnmovedWhen
    <2>5. CASE SetRegistering
      BY <1>1, <1>3, <2>4, <2>5 DEF SetRegistering, LastStatement, SetJobStatus, Known, Sending,
         Lives, Moves, LifeState
    <2>6. CASE SetRunning
      BY <1>1, <1>3, <2>4, <2>6 DEF SetRunning, Statement, SetJobStatus, Known, Deciding,
         Lives, Moves, LifeState
    <2>7. CASE SetRegisterTimeout
      BY <1>1, <1>3, <2>4, <2>7 DEF SetRegisterTimeout, LastStatement, SetJobStatus, Known,
         GivingUp, Lives, Moves, LifeState
    <2> QED BY <1>6, <2>5, <2>6, <2>7
  <1> QED BY <1>4, <1>5, <1>6, <1>7 DEF JobdStep, FreesAll, Selects, NextPhase, StatusLocal,
       StatusQueued, SelectSplayds, StatusRegistering, KeepRegistering, RegisterTimeout,
       StatusRunning, KillMaxTime, ExecuteKill, Takes

\* A step that writes the status of one job, when none is being processed.
LEMMA OneJobLives ==
  ASSUME TypeOK, NEW j \in Job, jjob \notin Job, jjob' \notin Job \ {j},
         selections' = selections,
         \A i \in Job \ {j} : jobs'[i] = jobs[i]
  PROVE  \A i \in Job \ {j} : Unmoved(i)
  <1>1. \A i \in Job : HostsOf(i)' = HostsOf(i)
    BY DEF HostsOf, Selected, SelectionsOf
  <1> QED BY <1>1, UnmovedWhen DEF SameProcessed

LEMMA SelectLives ==
  ASSUME TypeOK, Known, NEW j \in Job, NEW p \in {"local", "queued"}, NEW late, NEW timeout,
         SelectSplayds(j, p, late, timeout)
  PROVE  Lives
  <1>1. /\ jobs[j].status \in {"LOCAL", "QUEUED"} /\ jjob = NoJob /\ jjob' \in {j, NoJob}
        /\ selections' = selections
    BY DEF SelectSplayds, Takes, Known, TodoStatus, TypeOK, JobdTypeOK, Done, GoesOn
  <1>2. \A st : /\ \A i \in Job \ {j} : [jobs EXCEPT ![j].status = st][i] = jobs[i]
                /\ [jobs EXCEPT ![j].status = st][j].status = st
    BY DEF TypeOK, TablesTypeOK
  <1>3. \E st \in {"LOCAL", "QUEUED", "QUEUE_TIMEOUT", "NO_RESSOURCES"} : SetJobStatus(j, st)
    <2>1. (IF p = "queued" /\ timeout THEN "QUEUE_TIMEOUT" ELSE jobs[j].status)
            \in {"LOCAL", "QUEUED", "QUEUE_TIMEOUT"}
      BY <1>1
    <2> QED BY <2>1 DEF SelectSplayds
  <1>4. /\ jobs'[j].status \in {"LOCAL", "QUEUED", "QUEUE_TIMEOUT", "NO_RESSOURCES"}
        /\ \A i \in Job \ {j} : jobs'[i] = jobs[i]
    BY <1>2, <1>3 DEF SetJobStatus
  <1>5. \A i \in Job \ {j} : Unmoved(i)
    BY <1>1, <1>4, OneJobLives, JobAssumption
  <1>6. LifeState(j) = "waiting" /\ LifeState(j)' \in {"waiting", "over"}
    BY <1>1, <1>4 DEF LifeState
  <1>7. CASE LifeState(j)' = "waiting"
    BY <1>5, <1>6, <1>7 DEF Lives, Unmoved, LifeHosts, LifeState
  <1>8. CASE LifeState(j)' = "over"
    BY <1>5, <1>6, <1>8 DEF Lives, Moves
  <1> QED BY <1>6, <1>7, <1>8

LEMMA RoundsLive ==
  ASSUME TypeOK, Known, jstep = "next", JobdStep
  PROVE  Lives
  <1>1. jjob = NoJob
    BY DEF TypeOK, JobdTypeOK
  <1>2. CASE NextPhase
    BY <1>2, QuietLives DEF NextPhase, tables, SameProcessed
  <1>3. ASSUME NEW j \in Job, StatusLocal(j) \/ StatusQueued(j) PROVE Lives
    BY <1>3, SelectLives DEF StatusLocal, StatusQueued
  <1>4. ASSUME NEW j \in Job,
               StatusRegistering(j) \/ KeepRegistering(j) \/ RegisterTimeout(j)
        PROVE  Lives
    <2>1. UNCHANGED <<jobs, selections>> /\ jobs[j].status = "REGISTERING" /\ jjob' \in {j, NoJob}
      BY <1>1, <1>4 DEF StatusRegistering, KeepRegistering, RegisterTimeout, Takes, Known, TodoStatus, tables,
         Done, GoesOn
    <2> QED BY <1>1, <2>1, QuietLives, JobAssumption DEF SameProcessed
  <1>5. ASSUME NEW j \in Job, StatusRunning(j) \/ KillMaxTime(j) \/ ExecuteKill(j)
        PROVE  Lives
    <2>1. jjob' = NoJob /\ selections' = selections
      BY <1>1, <1>5 DEF StatusRunning, KillMaxTime, ExecuteKill, Done
    <2>2. \A i \in Job \ {j} : jobs'[i] = jobs[i]
      BY <1>5 DEF StatusRunning, KillMaxTime, ExecuteKill, SetJobStatus, TypeOK, TablesTypeOK
    <2>3. \A i \in Job \ {j} : Unmoved(i)
      BY <1>1, <2>1, <2>2, OneJobLives, JobAssumption
    <2>4. \/ jobs'[j].status = jobs[j].status
          \/ jobs[j].status = "RUNNING" /\ jobs'[j].status = "ENDED"
          \/ /\ jobs[j].status \in {"LOCAL", "QUEUED", "REGISTERING", "RUNNING"}
             /\ jobs'[j].status = "KILLED"
      BY <1>5 DEF StatusRunning, KillMaxTime, ExecuteKill, SetJobStatus, Killed, TypeOK,
         TablesTypeOK, Takes, Known, TodoStatus
    <2>5. CASE jobs'[j].status = jobs[j].status
      <3>1. HostsOf(j)' = HostsOf(j)
        BY <2>1 DEF HostsOf, Selected, SelectionsOf
      <3>2. Unmoved(j)
        BY <1>1, <2>1, <2>5, <3>1, UnmovedWhen DEF SameProcessed
      <3> QED BY <2>3, <3>2 DEF Lives
    <2>6. CASE jobs'[j].status # jobs[j].status
      BY <2>3, <2>4, <2>6 DEF Lives, Moves, LifeState
    <2> QED BY <2>5, <2>6
  <1> QED BY <1>2, <1>3, <1>4, <1>5 DEF JobdStep, SelectSplayd, FreeAll, Turn,
       InsertSelections, InsertSplaydJobs, InsertRegisters, CommitRegisters, SetRegistering,
       FreeOthers, SendAllList, CommitList, SetRunning, SendStart, DeleteSelections,
       SetRegisterTimeout, Statement, LastStatement

LEMMA UserLives ==
  ASSUME TypeOK, NEW j \in Job, UserActs(j)
  PROVE  Lives
  <1>1. selections' = selections /\ jjob' = jjob
    BY DEF UserActs, Submit, KillJob, jobdVars
  <1>2. \A i \in Job : HostsOf(i)' = HostsOf(i) /\ SameProcessed(i)
    BY <1>1 DEF HostsOf, Selected, SelectionsOf, SameProcessed
  <1>3. \A i \in Job \ {j} : jobs'[i] = jobs[i]
    BY DEF UserActs, Submit, KillJob, SetJobStatus, TypeOK, TablesTypeOK
  <1>4. \/ jobs'[j].status = jobs[j].status
        \/ jobs[j].status = "NONE" /\ jobs'[j].status = "LOCAL"
    BY DEF UserActs, Submit, KillJob, SetJobStatus, TypeOK, TablesTypeOK
  <1>5. \A i \in Job \ {j} : Unmoved(i)
    BY <1>2, <1>3, UnmovedWhen
  <1>6. CASE jobs'[j].status = jobs[j].status
    BY <1>2, <1>5, <1>6, UnmovedWhen DEF Lives
  <1>7. CASE jobs[j].status = "NONE" /\ jobs'[j].status = "LOCAL"
    BY <1>5, <1>7 DEF Lives, Moves, LifeState
  <1> QED BY <1>4, <1>6, <1>7

\* A job whose time in the queue was over is let go, the others stay.
LEMMA RestartLives ==
  ASSUME TypeOK, ControllerRestarts
  PROVE  Lives
  <1>1. UNCHANGED <<jobs, selections>> /\ jjob' = NoJob
    BY DEF ControllerRestarts
  <1>2. \A i \in Job : HostsOf(i)' = HostsOf(i)
    BY <1>1 DEF HostsOf, Selected, SelectionsOf
  <1>3. \A i \in Job \ {jjob} : Unmoved(i)
    BY <1>1, <1>2, UnmovedWhen, JobAssumption DEF SameProcessed
  <1>4. CASE jjob \in Job /\ jobs[jjob].status = "QUEUE_TIMEOUT"
    BY <1>1, <1>3, <1>4, JobAssumption DEF Lives, Moves, LifeState
  <1>5. CASE jjob \in Job /\ jobs[jjob].status # "QUEUE_TIMEOUT"
    BY <1>1, <1>2, <1>3, <1>5, UnmovedWhen DEF Lives
  <1>6. CASE jjob \notin Job
    BY <1>3, <1>6 DEF Lives
  <1> QED BY <1>4, <1>5, <1>6

LEMMA StepLives == TypeOK /\ Known /\ [Next]_vars => Lives
  <1> SUFFICES ASSUME TypeOK, Known, [Next]_vars PROVE Lives
    OBVIOUS
  <1>1. CASE JobdRuns
    BY <1>1, StatementsLive, RoundsLive DEF JobdRuns
  <1>2. CASE \E j \in Job : UserActs(j)
    BY <1>2, UserLives
  <1>3. CASE ControllerRestarts
    BY <1>3, RestartLives
  <1>4. CASE ~JobdRuns /\ ~ControllerRestarts /\ \A j \in Job : ~UserActs(j)
    <2>1. SameSelected /\ jobs' = jobs /\ jjob' = jjob
      BY <1>4, OthersKeep DEF jobdVars
    <2> QED BY <2>1, SameSelectedHosts, UnmovedWhen DEF Lives, SameProcessed
  <1> QED BY <1>1, <1>2, <1>3, <1>4

---------------------------------------------------------------------------
(* The refinement *)

\* What the abstract specification sees.
State == [j \in Job |-> LifeState(j)]
Hosts == [j \in Job |-> LifeHosts(j)]

LEMMA InitLives == Init => LifeAnySize!Init /\ Life!Init
  <1> SUFFICES ASSUME Init PROVE LifeAnySize!Init /\ Life!Init
    OBVIOUS
  <1>1. \A j \in Job : LifeState(j) = "new" /\ LifeHosts(j) = {}
    BY DEF Init, TablesInit, LifeState, LifeHosts
  <1> QED BY <1>1 DEF LifeAnySize!Init, Life!Init

LEMMA MovesGoes ==
  ASSUME NEW j \in Job, NEW from, NEW to, Moves(j, from, to)
  PROVE  /\ State[j] \in from /\ State' = [State EXCEPT ![j] = to]
         /\ Hosts' = [Hosts EXCEPT ![j] = LifeHosts(j)']
  BY DEF Moves, Unmoved, State, Hosts

LEMMA MovesKeepsHosts ==
  ASSUME NEW j \in Job, NEW from, NEW to, Moves(j, from, to),
         "running" \notin from, to # "running"
  PROVE  Hosts' = Hosts
  BY DEF Moves, Unmoved, Hosts, LifeState, LifeHosts

LEMMA UnmovedStutters ==
  ASSUME \A i \in Job : Unmoved(i)
  PROVE  State' = State /\ Hosts' = Hosts
  BY DEF Unmoved, State, Hosts

LEMMA HostsAreSplaydsAfter ==
  ASSUME TypeOK', NEW j \in Job
  PROVE  HostsOf(j)' \in SUBSET Splayd
  BY DEF TypeOK, TablesTypeOK, Selection, HostsOf, Selected, SelectionsOf

\* A step of Lives is a step of the abstract specification.
LEMMA LivesRefinesAnySize ==
  ASSUME Lives, TypeOK'
  PROVE  [LifeAnySize!Next]_(LifeAnySize!lifeVars)
  <1> USE DEF LifeAnySize!Goes
  <1>1. CASE \A i \in Job : Unmoved(i)
    BY <1>1, UnmovedStutters DEF LifeAnySize!lifeVars, State, Hosts
  <1>2. ASSUME NEW j \in Job, Moves(j, {"new"}, "waiting")
        PROVE  LifeAnySize!Next
    <2>1. LifeAnySize!Submit(j)
      BY <1>2, MovesGoes, MovesKeepsHosts DEF LifeAnySize!Submit, State, Hosts
    <2> QED BY <2>1 DEF LifeAnySize!Next
  <1>3. ASSUME NEW j \in Job, Moves(j, {"waiting"}, "registering")
        PROVE  LifeAnySize!Next
    <2>1. LifeAnySize!Register(j)
      BY <1>3, MovesGoes, MovesKeepsHosts DEF LifeAnySize!Register, State, Hosts
    <2> QED BY <2>1 DEF LifeAnySize!Next
  <1>4. ASSUME NEW j \in Job, Moves(j, {"registering"}, "running")
        PROVE  LifeAnySize!Next
    <2>1. LifeHosts(j)' = HostsOf(j)' /\ LifeState(j)' = "running"
      BY <1>4 DEF Moves, LifeState, LifeHosts, HostsOf
    <2>2. LifeHosts(j)' \in SUBSET Splayd
      BY <2>1, HostsAreSplaydsAfter
    <2>3. \E ds \in SUBSET Splayd : Hosts' = [Hosts EXCEPT ![j] = ds]
      BY <1>4, <2>2, MovesGoes
    <2>4. LifeAnySize!Goes(j, {"registering"}, "running")
      BY <1>4, MovesGoes DEF State
    <2>5. LifeAnySize!Start(j)
      BY <2>3, <2>4 DEF LifeAnySize!Start, Hosts
    <2> QED BY <2>5 DEF LifeAnySize!Next
  <1>5. ASSUME NEW j \in Job, Moves(j, {"waiting", "registering", "running"}, "over")
        PROVE  LifeAnySize!Next
    <2>1. LifeHosts(j)' = {}
      BY <1>5 DEF Moves, LifeState, LifeHosts
    <2>2. LifeAnySize!Leave(j)
      BY <1>5, <2>1, MovesGoes DEF LifeAnySize!Leave, State, Hosts
    <2> QED BY <2>2 DEF LifeAnySize!Next
  <1> QED BY <1>1, <1>2, <1>3, <1>4, <1>5 DEF Lives

\* The sets of as many daemons as a job asks for.
FullSets == {ds \in SUBSET Splayd : Cardinality(ds) = NbSplayds}

\* The same, when a job that runs has as many hosts as it asked for.
LEMMA LivesRefines ==
  ASSUME Lives, TypeOK',
         \A j \in Job : LifeState(j)' = "running" => Cardinality(HostsOf(j)') = NbSplayds
  PROVE  [Life!Next]_(Life!lifeVars)
  <1> USE DEF Life!Goes
  <1>1. CASE \A i \in Job : Unmoved(i)
    BY <1>1, UnmovedStutters DEF Life!lifeVars, State, Hosts
  <1>2. ASSUME NEW j \in Job, Moves(j, {"new"}, "waiting")
        PROVE  Life!Next
    <2>1. Life!Submit(j)
      BY <1>2, MovesGoes, MovesKeepsHosts DEF Life!Submit, State, Hosts
    <2> QED BY <2>1 DEF Life!Next
  <1>3. ASSUME NEW j \in Job, Moves(j, {"waiting"}, "registering")
        PROVE  Life!Next
    <2>1. Life!Register(j)
      BY <1>3, MovesGoes, MovesKeepsHosts DEF Life!Register, State, Hosts
    <2> QED BY <2>1 DEF Life!Next
  <1>4. ASSUME NEW j \in Job, Moves(j, {"registering"}, "running")
        PROVE  Life!Next
    <2>1. LifeHosts(j)' = HostsOf(j)' /\ LifeState(j)' = "running"
      BY <1>4 DEF Moves, LifeState, LifeHosts, HostsOf
    <2>2. LifeHosts(j)' \in FullSets
      BY <2>1, HostsAreSplaydsAfter DEF FullSets
    <2>3. \E ds \in FullSets : Hosts' = [Hosts EXCEPT ![j] = ds]
      BY <1>4, <2>2, MovesGoes
    <2>4. Life!Goes(j, {"registering"}, "running")
      BY <1>4, MovesGoes DEF State
    <2>5. Life!Start(j)
      BY <2>3, <2>4 DEF Life!Start, Hosts, FullSets
    <2> QED BY <2>5 DEF Life!Next
  <1>5. ASSUME NEW j \in Job, Moves(j, {"waiting", "registering", "running"}, "over")
        PROVE  Life!Next
    <2>1. LifeHosts(j)' = {}
      BY <1>5 DEF Moves, LifeState, LifeHosts
    <2>2. Life!Leave(j)
      BY <1>5, <2>1, MovesGoes DEF Life!Leave, State, Hosts
    <2> QED BY <2>2 DEF Life!Next
  <1> QED BY <1>1, <1>2, <1>3, <1>4, <1>5 DEF Lives

\* Whatever fails and wherever the controller stops, a job only goes forward, and
\* keeps its hosts while it runs.
THEOREM LifeOnAnySize == Spec => JobsLiveOn
  <1>1. Init => Known
    BY JobAssumption DEF Init, JobdInit, Known, Sending, Deciding, GivingUp
  <1>2. TypeOK /\ Known /\ [Next]_vars => [LifeAnySize!Next]_(LifeAnySize!lifeVars)
    <2> SUFFICES ASSUME TypeOK, Known, [Next]_vars
                 PROVE  [LifeAnySize!Next]_(LifeAnySize!lifeVars)
      OBVIOUS
    <2>1. Lives /\ TypeOK'
      BY StepLives, NextType
    <2> QED BY <2>1, LivesRefinesAnySize
  <1> QED BY <1>1, <1>2, InitLives, TypeCorrect, KnownInductive, PTL
          DEF Spec, JobsLiveOn, LifeAnySize!Spec

---------------------------------------------------------------------------
(* On as many daemons as it asked for, when the controller does not stop *)

\* The daemons selected for a job, and those its decision has still to select.
ChosenFor(j) == HostsOf(j) \cup (IF jjob = j /\ jstep = "select" THEN jset ELSE {})

\* A job has one row per daemon, none before it is sent, none selected before the
\* decision; from then on as many daemons as it asked for, all with a row.
Asked ==
  /\ \A s, t \in selections : s.job = t.job /\ s.splayd = t.splayd => s = t
  /\ \A s \in selections :
       \/ jobs[s.job].status \in {"REGISTERING", "RUNNING", "ENDED", "KILLED"}
       \/ s.job = jjob /\ jstep \in Sending \ {"selections"}
  /\ \A s \in selections : s.selected =>
       \/ jobs[s.job].status \in {"RUNNING", "ENDED", "KILLED"}
       \/ s.job = jjob /\ jstep \in Deciding
  /\ \A j \in Job :
       jobs[j].status \in {"RUNNING", "ENDED"} \/ (jjob = j /\ jstep \in Deciding) =>
          Cardinality(ChosenFor(j)) = NbSplayds
  /\ jstep = "select" => \A d \in jset : \E s \in selections : s.job = jjob /\ s.splayd = d
  /\ jstep = "timeout" => \A s \in selections : s.job # jjob

\* selections is changed row by row, and the rows stay what they are.
Updated ==
  \E f : /\ selections' = {f[s] : s \in selections}
        /\ \A s \in selections : f[s].splayd = s.splayd /\ f[s].job = s.job

LEMMA UpdatedRowsUnique ==
  ASSUME Asked, Updated
  PROVE  \A s, t \in selections' : s.job = t.job /\ s.splayd = t.splayd => s = t
  <1> PICK f : /\ selections' = {f[s] : s \in selections}
               /\ \A s \in selections : f[s].splayd = s.splayd /\ f[s].job = s.job
    BY DEF Updated
  <1> SUFFICES ASSUME NEW s \in selections, NEW t \in selections,
                      f[s].job = f[t].job, f[s].splayd = f[t].splayd
               PROVE  f[s] = f[t]
    OBVIOUS
  <1> QED BY DEF Asked

LEMMA ResetUpdated ==
  ASSUME TypeOK, NEW d, ResetJobs(d)
  PROVE  Updated
  <1> DEFINE f == [s \in selections |-> IF s.splayd = d THEN [s EXCEPT !.reset = TRUE] ELSE s]
  <1>1. selections' = {f[s] : s \in selections}
    BY DEF ResetJobs
  <1>2. \A s \in selections : f[s].splayd = s.splayd /\ f[s].job = s.job
    BY DEF TypeOK, TablesTypeOK, Selection
  <1> HIDE DEF f
  <1> QED BY <1>1, <1>2 DEF Updated

LEMMA RegisterUpdated ==
  ASSUME TypeOK, NEW d, NEW j, SJRegister(d, j)
  PROVE  Updated
  <1> DEFINE f == [s \in selections |->
                     IF s.splayd = d /\ s.job = j THEN [s EXCEPT !.replied = TRUE] ELSE s]
  <1>1. selections' = {f[s] : s \in selections}
    BY DEF SJRegister
  <1>2. \A s \in selections : f[s].splayd = s.splayd /\ f[s].job = s.job
    BY DEF TypeOK, TablesTypeOK, Selection
  <1> HIDE DEF f
  <1> QED BY <1>1, <1>2 DEF Updated

LEMMA UnchangedUpdated == UNCHANGED selections => Updated
  <1> SUFFICES ASSUME UNCHANGED selections PROVE Updated
    OBVIOUS
  <1> DEFINE f == [s \in selections |-> s]
  <1>1. /\ selections' = {f[s] : s \in selections}
        /\ \A s \in selections : f[s].splayd = s.splayd /\ f[s].job = s.job
    OBVIOUS
  <1> HIDE DEF f
  <1> QED BY <1>1 DEF Updated

LEMMA ThreadUpdated ==
  ASSUME TypeOK, NEW k \in Conn, ThreadStep(k)
  PROVE  Updated
  <1>1. CASE ApplyReply(k)
    BY <1>1, RegisterUpdated, UnchangedUpdated DEF ApplyReply
  <1>2. CASE AskInfos(k)
    BY <1>2, ResetUpdated DEF AskInfos
  <1>3. CASE ~ApplyReply(k) /\ ~AskInfos(k)
    BY <1>3, UnchangedUpdated DEF ThreadStep, ReadRow, Authenticate, ResetSession, InfosOK,
       Available, ReadFailed, RestoreAction, DeleteRegister, FreeFirst, RegisterAgain,
       AuthFails, MainFails, PickAction, SendAction, ReplyNotOK, FinishAction, tables
  <1> QED BY <1>1, <1>2, <1>3

LEMMA OthersUpdate ==
  ASSUME TypeOK, [Next]_vars, ~JobdRuns
  PROVE  Updated
  <1>1. CASE \E k \in Conn : ThreadRuns(k)
    BY <1>1, ThreadUpdated DEF ThreadRuns
  <1>2. CASE \E d \in Splayd : UnseenReset(d)
    BY <1>2, ResetUpdated, UnchangedUpdated DEF UnseenReset, ResetSession
  <1>3. CASE (\A k \in Conn : ~ThreadRuns(k)) /\ (\A d \in Splayd : ~UnseenReset(d))
    BY <1>3, UnchangedUpdated DEF Next, vars, DaemonCommand, BusyPorts, DaemonConnects,
       Connect, DaemonGivesUp, DaemonFails, UnseenSelect, LinkFails, SocketCollected,
       CollectSocket, tables, UserActs, Submit, KillJob, ControllerRestarts
  <1> QED BY <1>1, <1>2, <1>3

\* The replies, resets and failures.
LEMMA OthersAsked ==
  ASSUME TypeOK, Asked, [Next]_vars, ~JobdRuns, ~ControllerRestarts,
         \A j \in Job : ~UserActs(j)
  PROVE  Asked'
  <1>1. SameSelected /\ jobs' = jobs /\ UNCHANGED jobdVars
    BY OthersKeep
  <1>2. \A s, t \in selections' : s.job = t.job /\ s.splayd = t.splayd => s = t
    BY OthersUpdate, UpdatedRowsUnique
  <1>3. \A j \in Job : HostsOf(j)' = HostsOf(j)
    BY <1>1, SameSelectedHosts
  <1>4. \A t \in selections' : \E s \in selections : s.job = t.job /\ s.selected = t.selected
    BY <1>1 DEF SameSelected, SameRow
  <1>5. \A j \in Job : ChosenFor(j)' = ChosenFor(j)
    BY <1>1, <1>3 DEF ChosenFor, jobdVars
  <1>6. \A s \in selections : \E t \in selections' : s.job = t.job /\ s.splayd = t.splayd
    BY <1>1 DEF SameSelected, SameRow
  <1>7. jstep' = "select" => \A d \in jset' : \E t \in selections' : t.job = jjob' /\ t.splayd = d
    BY <1>1, <1>6 DEF Asked, jobdVars
  <1> QED BY <1>1, <1>2, <1>4, <1>5, <1>7 DEF Asked, jobdVars

LEMMA UserAsked ==
  ASSUME TypeOK, Known, Asked, NEW j \in Job, UserActs(j)
  PROVE  Asked'
  <1>1. selections' = selections /\ UNCHANGED jobdVars
    BY DEF UserActs, Submit, KillJob
  <1>2. \A i \in Job : \/ jobs'[i].status = jobs[i].status
                       \/ jobs[i].status = "NONE" /\ jobs'[i].status = "LOCAL"
    BY DEF UserActs, Submit, KillJob, SetJobStatus, TypeOK, TablesTypeOK
  <1>3. \A i \in Job : HostsOf(i)' = HostsOf(i)
    BY <1>1 DEF HostsOf, Selected, SelectionsOf
  <1>4. \A s \in selections : s.job \in Job
    BY DEF TypeOK, TablesTypeOK, Selection
  <1>5. jjob \in Job \/ jstep = "next"
    BY DEF TypeOK, JobdTypeOK
  <1>6. \A i \in Job : ChosenFor(i)' = ChosenFor(i)
    BY <1>1, <1>3 DEF ChosenFor, jobdVars
  <1> QED BY <1>1, <1>2, <1>4, <1>5, <1>6 DEF Asked, jobdVars, Deciding, Sending, Known

\* Statements that leave selections and the status of the jobs alone.
LEMMA QuietAsked ==
  ASSUME TypeOK, Asked, UNCHANGED <<jobs, selections>>,
         jstep # "select", jstep' \notin {"select", "timeout"},
         \/ jjob' = jjob /\ (jstep' \in Sending \ {"selections"} <=> jstep \in Sending \ {"selections"})
                        /\ (jstep' \in Deciding <=> jstep \in Deciding)
         \/ /\ jstep \notin (Sending \ {"selections"}) \cup Deciding
            /\ jstep' \notin (Sending \ {"selections"}) \cup Deciding
  PROVE  Asked'
  <1>1. \A j \in Job : ChosenFor(j)' = ChosenFor(j)
    BY DEF ChosenFor, HostsOf, Selected, SelectionsOf
  <1> QED BY <1>1 DEF Asked

LEMMA InsertAsked ==
  ASSUME TypeOK, Known, Asked, InsertSelections
  PROVE  Asked'
  <1> DEFINE row(d) == [splayd |-> d, job |-> jjob,
                        seq |-> Cardinality({s \in SelectionsOf(jjob) : s.splayd = d}),
                        selected |-> FALSE, replied |-> FALSE, reset |-> FALSE]
  <1>1. selections' = selections \cup {row(d) : d \in jset}
    BY DEF InsertSelections
  <1>2. \A d : row(d).job = jjob /\ row(d).splayd = d /\ ~row(d).selected
    OBVIOUS
  <1>3. /\ jstep = "selections" /\ jstep' = "splayd_jobs" /\ jjob' = jjob /\ jobs' = jobs
        /\ jobs[jjob].status \in {"LOCAL", "QUEUED", "QUEUE_TIMEOUT"}
    BY DEF InsertSelections, Statement, Known, Sending
  <1> HIDE DEF row
  <1>4. \A s \in selections : s.job # jjob
    BY <1>3 DEF Asked, Deciding, Sending
  <1>5. \A s, t \in selections' : s.job = t.job /\ s.splayd = t.splayd => s = t
    BY <1>1, <1>2, <1>4 DEF Asked
  <1>6. \A j \in Job : Selected(j)' = Selected(j)
    BY <1>1, <1>2 DEF Selected, SelectionsOf
  <1>7. \A j \in Job : ChosenFor(j)' = ChosenFor(j)
    BY <1>3, <1>6 DEF ChosenFor, HostsOf
  <1> QED BY <1>1, <1>2, <1>3, <1>5, <1>7 DEF Asked, Deciding, Sending

LEMMA DeleteAsked ==
  ASSUME TypeOK, Known, Asked, DeleteSelections
  PROVE  Asked'
  <1>1. /\ jstep = "forget" /\ jstep' = "timeout" /\ jjob' = jjob /\ jobs' = jobs
        /\ jobs[jjob].status = "REGISTERING"
    BY DEF DeleteSelections, Statement, Known, GivingUp
  <1>2. selections' \in SUBSET selections
    BY DEF DeleteSelections
  <1>3. \A j \in Job \ {jjob} : Selected(j)' = Selected(j)
    BY DEF DeleteSelections, Selected, SelectionsOf
  <1>4. \A j \in Job \ {jjob} : ChosenFor(j)' = ChosenFor(j)
    BY <1>1, <1>3 DEF ChosenFor, HostsOf
  <1>5. \A s \in selections' : s.job # jjob
    BY DEF DeleteSelections, SelectionsOf
  <1> QED BY <1>1, <1>2, <1>4, <1>5 DEF Asked, Deciding, Sending

\* The decision: the rows counted are those of as many daemons.
LEMMA DecisionAsked ==
  ASSUME TypeOK, Known, Asked, NEW j \in Job, StatusRegistering(j)
  PROVE  Asked'
  <1>1. PICK rows \in SUBSET Replied(j) :
          /\ Cardinality(rows) = NbSplayds
          /\ jset' = {r.splayd : r \in rows}
    BY DEF StatusRegistering, GoesOn
  <1>2. /\ jobs' = jobs /\ selections' = selections
        /\ jobs[j].status = "REGISTERING" /\ jjob = NoJob /\ jstep = "next"
        /\ jjob' = j /\ jstep' = "select"
    BY DEF StatusRegistering, Takes, Known, TodoStatus, GoesOn, TypeOK, JobdTypeOK, tables
  <1>3. rows \in SUBSET selections /\ \A r \in rows : r.job = j
    BY DEF Replied, SelectionsOf
  <1>4. Cardinality(jset') = NbSplayds
    <2> DEFINE g == [r \in rows |-> r.splayd]
    <2>1. g \in Surjection(rows, jset')
      BY <1>1 DEF Surjection
    <2>2. g \in Injection(rows, jset')
      <3>1. \A a, b \in rows : a.splayd = b.splayd => a = b
        BY <1>3 DEF Asked
      <3> QED BY <2>1, <3>1 DEF Surjection, Injection, IsInjective
    <2>3. IsFiniteSet(rows)
      BY <1>3, FS_Subset DEF TypeOK, TablesTypeOK
    <2> HIDE DEF g
    <2> QED BY <1>1, <2>1, <2>2, <2>3, FS_Surjection
  <1>5. ChosenFor(j)' = jset'
    <2>1. HostsOf(j)' = {}
      BY <1>2 DEF Asked, Deciding, HostsOf, Selected, SelectionsOf
    <2> QED BY <1>2, <2>1 DEF ChosenFor
  <1>6. \A i \in Job \ {j} : ChosenFor(i)' = ChosenFor(i)
    BY <1>2 DEF ChosenFor, HostsOf, Selected, SelectionsOf
  <1>7. \A d \in jset' : \E s \in selections : s.job = j /\ s.splayd = d
    BY <1>1, <1>3
  <1> QED BY <1>2, <1>4, <1>5, <1>6, <1>7 DEF Asked, Sending, Deciding

\* One of the daemons chosen: it leaves the loop and enters the hosts.
LEMMA SelectSplaydAsked ==
  ASSUME TypeOK, Known, Asked, NEW d \in Splayd, SelectSplayd(d)
  PROVE  Asked'
  <1> DEFINE f == [s \in selections |-> IF s.job = jjob /\ s.splayd = d
                                        THEN [s EXCEPT !.selected = TRUE] ELSE s]
  <1>1. /\ jobs' = jobs /\ jobs[jjob].status = "REGISTERING" /\ jjob' = jjob
        /\ jstep = "select" /\ d \in jset /\ jset' = jset \ {d}
        /\ jstep' = IF jset' = {} THEN "free" ELSE "select"
    BY DEF SelectSplayd, Turn, Known, Deciding
  <1>2. selections' = {f[s] : s \in selections}
    BY DEF SelectSplayd
  <1>3. \A s \in selections : /\ f[s].splayd = s.splayd /\ f[s].job = s.job
                              /\ s.job = jjob /\ s.splayd = d => f[s].selected
                              /\ ~(s.job = jjob /\ s.splayd = d) => f[s] = s
    BY DEF TypeOK, TablesTypeOK, Selection
  <1> HIDE DEF f
  <1>4. \A s, t \in selections' : s.job = t.job /\ s.splayd = t.splayd => s = t
    BY <1>2, <1>3, UpdatedRowsUnique DEF Updated
  <1>5. HostsOf(jjob)' = HostsOf(jjob) \cup {d}
    <2>1. /\ HostsOf(jjob) = {t.splayd : t \in {t \in selections : t.job = jjob /\ t.selected}}
          /\ HostsOf(jjob)' = {t.splayd : t \in {t \in selections' : t.job = jjob /\ t.selected}}
      BY <1>1 DEF HostsOf, Selected, SelectionsOf
    <2>2. \E s \in selections : s.job = jjob /\ s.splayd = d
      BY <1>1 DEF Asked
    <2>3. \A e : e \in HostsOf(jjob)' <=> e \in HostsOf(jjob) \cup {d}
      <3> TAKE e
      <3>1. CASE e = d
        BY <1>2, <1>3, <2>1, <2>2, <3>1
      <3>2. CASE e # d
        BY <1>2, <1>3, <2>1, <3>2
      <3> QED BY <3>1, <3>2
    <2> QED BY <2>3
  <1>6. ChosenFor(jjob)' = ChosenFor(jjob)
    BY <1>1, <1>5 DEF ChosenFor
  <1>7. \A i \in Job \ {jjob} : Selected(i)' = Selected(i)
    BY <1>2, <1>3 DEF Selected, SelectionsOf
  <1>8. \A i \in Job : ChosenFor(i)' = ChosenFor(i)
    BY <1>1, <1>6, <1>7 DEF ChosenFor, HostsOf
  <1>9. \A s \in selections' : s.job = jjob \/ s \in selections
    BY <1>2, <1>3
  <1>10. /\ \A s \in selections' :
              \/ jobs'[s.job].status \in {"REGISTERING", "RUNNING", "ENDED", "KILLED"}
              \/ s.job = jjob' /\ jstep' \in Sending \ {"selections"}
         /\ \A s \in selections' : s.selected =>
              \/ jobs'[s.job].status \in {"RUNNING", "ENDED", "KILLED"}
              \/ s.job = jjob' /\ jstep' \in Deciding
    BY <1>1, <1>9 DEF Asked, Sending, Deciding
  <1>11. \A e \in jset' : \E s \in selections' : s.job = jjob /\ s.splayd = e
    BY <1>1, <1>2, <1>3 DEF Asked
  <1>12. jjob \in Job
    BY <1>1 DEF TypeOK, JobdTypeOK
  <1> QED BY <1>1, <1>4, <1>8, <1>10, <1>11, <1>12 DEF Asked, Deciding

LEMMA StatementsAsked ==
  ASSUME TypeOK, Known, Asked, jstep # "next", JobdStep
  PROVE  Asked'
  <1>1. jjob \in Job
    BY DEF TypeOK, JobdTypeOK
  <1>2. \A st : /\ \A j \in Job \ {jjob} : [jobs EXCEPT ![jjob].status = st][j] = jobs[j]
                /\ [jobs EXCEPT ![jjob].status = st][jjob].status = st
    BY <1>1 DEF TypeOK, TablesTypeOK
  <1>3. CASE \/ InsertSplaydJobs \/ InsertRegisters \/ CommitRegisters
             \/ FreeOthers \/ SendAllList \/ CommitList \/ FreesAll \/ SendStart
    BY <1>3, QuietAsked DEF InsertSplaydJobs, InsertRegisters, CommitRegisters, FreeOthers,
       SendAllList, CommitList, FreesAll, FreeAll, SendStart, Statement, Turn,
       LastStatement, Sending, Deciding
  <1>4. CASE SetRegistering \/ SetRunning \/ SetRegisterTimeout
    <2>1. selections' = selections
      BY <1>4 DEF SetRegistering, SetRunning, SetRegisterTimeout
    <2>2. \A j \in Job : ChosenFor(j)' = ChosenFor(j)
      BY <1>4, <2>1 DEF ChosenFor, HostsOf, Selected, SelectionsOf, SetRegistering, SetRunning,
         SetRegisterTimeout, Statement, LastStatement
    <2>3. \A j \in Job \ {jjob} : jobs'[j] = jobs[j]
      <3>1. \E st : SetJobStatus(jjob, st)
        BY <1>4 DEF SetRegistering, SetRunning, SetRegisterTimeout
      <3> QED BY <1>2, <3>1 DEF SetJobStatus
    <2>4. \A s \in selections : s.job \in Job
      BY DEF TypeOK, TablesTypeOK, Selection
    <2>5. CASE SetRegistering
      <3>1. /\ jobs'[jjob].status = "REGISTERING" /\ jstep = "registering" /\ jstep' = "next"
            /\ jobs[jjob].status \in {"LOCAL", "QUEUED", "QUEUE_TIMEOUT"}
        BY <1>2, <2>5 DEF SetRegistering, LastStatement, SetJobStatus, Known, Sending
      <3> QED BY <1>1, <2>1, <2>2, <2>3, <2>4, <3>1 DEF Asked, Sending, Deciding
    <2>6. CASE SetRunning
      <3>1. /\ jobs'[jjob].status = "RUNNING" /\ jstep = "running" /\ jstep' = "start"
            /\ jjob' = jjob
        BY <1>2, <2>6 DEF SetRunning, Statement, SetJobStatus
      <3> QED BY <1>1, <2>1, <2>2, <2>3, <2>4, <3>1 DEF Asked, Sending, Deciding
    <2>7. CASE SetRegisterTimeout
      <3>1. /\ jobs'[jjob].status = "REGISTER_TIMEOUT" /\ jstep = "timeout" /\ jstep' = "next"
            /\ jobs[jjob].status = "REGISTERING"
        BY <1>2, <2>7 DEF SetRegisterTimeout, LastStatement, SetJobStatus, Known, GivingUp
      <3>2. \A s \in selections : s.job # jjob
        BY <3>1 DEF Asked
      <3> QED BY <1>1, <2>1, <2>2, <2>3, <2>4, <3>1, <3>2 DEF Asked, Sending, Deciding
    <2> QED BY <1>4, <2>5, <2>6, <2>7
  <1>5. CASE InsertSelections \/ DeleteSelections
    BY <1>5, InsertAsked, DeleteAsked
  <1>7. CASE Selects
    BY <1>7, SelectSplaydAsked DEF Selects
  <1> QED BY <1>3, <1>4, <1>5, <1>7 DEF JobdStep, FreesAll, Selects, NextPhase, StatusLocal,
       StatusQueued, SelectSplayds, StatusRegistering, KeepRegistering, RegisterTimeout,
       StatusRunning, KillMaxTime, ExecuteKill, Takes

\* A step that changes the status of a job without rows, or that ends a job.
LEMMA StatusAsked ==
  ASSUME TypeOK, Known, Asked, NEW j \in Job, jstep = "next", selections' = selections,
         \A i \in Job \ {j} : jobs'[i] = jobs[i],
         jstep' \in {"next", "selections"},
         \/ jobs'[j].status = jobs[j].status
         \/ /\ jobs[j].status \in {"LOCAL", "QUEUED"}
            /\ jobs'[j].status \notin {"RUNNING", "ENDED"}
         \/ jobs'[j].status = "KILLED"
         \/ jobs[j].status = "RUNNING" /\ jobs'[j].status = "ENDED"
  PROVE  Asked'
  <1>1. \A i \in Job : ChosenFor(i)' = ChosenFor(i)
    BY DEF ChosenFor, HostsOf, Selected, SelectionsOf
  <1>2. \A s \in selections : s.job \in Job
    BY DEF TypeOK, TablesTypeOK, Selection
  <1>3. \A s \in selections : s.job = j => jobs[j].status \notin {"LOCAL", "QUEUED"}
    BY DEF Asked, Sending
  <1> QED BY <1>1, <1>2, <1>3 DEF Asked, Sending, Deciding

LEMMA SelectAsked ==
  ASSUME TypeOK, Known, Asked, NEW j \in Job, NEW p \in {"local", "queued"}, NEW late,
         NEW timeout, SelectSplayds(j, p, late, timeout)
  PROVE  Asked'
  <1>1. /\ jobs[j].status \in {"LOCAL", "QUEUED"} /\ jstep = "next"
        /\ selections' = selections /\ jstep' \in {"next", "selections"}
    BY DEF SelectSplayds, Takes, Known, TodoStatus, Done, GoesOn
  <1>2. \A st : /\ \A i \in Job \ {j} : [jobs EXCEPT ![j].status = st][i] = jobs[i]
                /\ [jobs EXCEPT ![j].status = st][j].status = st
    BY DEF TypeOK, TablesTypeOK
  <1>3. \E st \in {"LOCAL", "QUEUED", "QUEUE_TIMEOUT", "NO_RESSOURCES"} : SetJobStatus(j, st)
    <2>1. (IF p = "queued" /\ timeout THEN "QUEUE_TIMEOUT" ELSE jobs[j].status)
            \in {"LOCAL", "QUEUED", "QUEUE_TIMEOUT"}
      BY <1>1
    <2> QED BY <2>1 DEF SelectSplayds
  <1>4. /\ jobs'[j].status \in {"LOCAL", "QUEUED", "QUEUE_TIMEOUT", "NO_RESSOURCES"}
        /\ \A i \in Job \ {j} : jobs'[i] = jobs[i]
    BY <1>2, <1>3 DEF SetJobStatus
  <1> QED BY <1>1, <1>4, StatusAsked

LEMMA RoundsAsked ==
  ASSUME TypeOK, Known, Asked, jstep = "next", JobdStep
  PROVE  Asked'
  <1>1. CASE NextPhase
    BY <1>1, QuietAsked DEF NextPhase, tables, Sending, Deciding
  <1>2. ASSUME NEW j \in Job, StatusLocal(j) \/ StatusQueued(j) PROVE Asked'
    BY <1>2, SelectAsked DEF StatusLocal, StatusQueued
  <1>3. ASSUME NEW j \in Job, KeepRegistering(j) \/ RegisterTimeout(j)
        PROVE  Asked'
    BY <1>3, QuietAsked DEF KeepRegistering, RegisterTimeout, tables, Done, GoesOn, Sending,
       Deciding
  <1>4. ASSUME NEW j \in Job, StatusRunning(j) \/ KillMaxTime(j) \/ ExecuteKill(j)
        PROVE  Asked'
    <2>1. jstep' = "next" /\ selections' = selections
      BY <1>4 DEF StatusRunning, KillMaxTime, ExecuteKill, Done
    <2>2. \A i \in Job \ {j} : jobs'[i] = jobs[i]
      BY <1>4 DEF StatusRunning, KillMaxTime, ExecuteKill, SetJobStatus, TypeOK, TablesTypeOK
    <2>3. \/ jobs'[j].status = jobs[j].status
          \/ jobs[j].status = "RUNNING" /\ jobs'[j].status = "ENDED"
          \/ jobs'[j].status = "KILLED"
      BY <1>4 DEF StatusRunning, KillMaxTime, ExecuteKill, SetJobStatus, Killed, TypeOK,
         TablesTypeOK, Takes, Known, TodoStatus
    <2> QED BY <2>1, <2>2, <2>3, StatusAsked
  <1>5. ASSUME NEW j \in Job, StatusRegistering(j) PROVE Asked'
    BY <1>5, DecisionAsked
  <1> QED BY <1>1, <1>2, <1>3, <1>4, <1>5 DEF JobdStep, SelectSplayd, FreeAll, Turn,
       InsertSelections, InsertSplaydJobs, InsertRegisters, CommitRegisters, SetRegistering,
       FreeOthers, SendAllList, CommitList, SetRunning, SendStart, DeleteSelections,
       SetRegisterTimeout, Statement, LastStatement

LEMMA AskedInductive ==
  ASSUME MaxRestarts = 0
  PROVE  TypeOK /\ Known /\ Asked /\ [Next]_vars => Asked'
  <1> SUFFICES ASSUME TypeOK, Known, Asked, [Next]_vars PROVE Asked'
    OBVIOUS
  <1>1. ~ControllerRestarts
    BY DEF ControllerRestarts, TypeOK, EventsTypeOK
  <1>2. CASE JobdRuns
    BY <1>2, StatementsAsked, RoundsAsked DEF JobdRuns
  <1>3. CASE \E j \in Job : UserActs(j)
    BY <1>3, UserAsked
  <1> QED BY <1>1, <1>2, <1>3, OthersAsked

LEMMA InitAsked == Init => Known /\ Asked
  <1> SUFFICES ASSUME Init PROVE Known /\ Asked
    OBVIOUS
  <1>1. Known
    BY JobAssumption DEF Init, JobdInit, Known, Sending, Deciding, GivingUp
  <1>2. Asked
    BY DEF Init, TablesInit, JobdInit, Asked, Deciding, Sending
  <1> QED BY <1>1, <1>2

\* If the controller does not stop, a job that runs was given to as many daemons
\* as it asked for, whenever their replies and their failures come.
THEOREM SelectedRight ==
  ASSUME MaxRestarts = 0
  PROVE  Spec => []RunningIsSelected
  <1>1. Known /\ Asked => RunningIsSelected
    BY DEF Known, Deciding, Asked, RunningIsSelected, ChosenFor, HostsOf
  <1> QED BY <1>1, InitAsked, TypeCorrect, KnownInductive, AskedInductive, PTL DEF Spec

\* If the controller does not stop, it implements the life of a job on the number
\* of daemons the job asked for.
THEOREM LifeOnHosts ==
  ASSUME MaxRestarts = 0
  PROVE  Spec => JobsLive
  <1>1. TypeOK /\ Known /\ Asked /\ [Next]_vars => [Life!Next]_(Life!lifeVars)
    <2> SUFFICES ASSUME TypeOK, Known, Asked, [Next]_vars
                 PROVE  [Life!Next]_(Life!lifeVars)
      OBVIOUS
    <2>1. Lives /\ TypeOK' /\ Known' /\ Asked'
      BY StepLives, NextType, KnownInductive, AskedInductive
    <2>2. \A j \in Job : LifeState(j)' = "running" => Cardinality(HostsOf(j)') = NbSplayds
      BY <2>1 DEF Known, Deciding, Asked, ChosenFor, LifeState
    <2> QED BY <2>1, <2>2, LivesRefines
  <1> QED BY <1>1, InitAsked, InitLives, TypeCorrect, KnownInductive, AskedInductive, PTL
          DEF Spec, JobsLive, Life!Spec

=============================================================================
