---------------------------- MODULE JobdStandard ----------------------------
(***************************************************************************)
(* lib/jobd_standard.rb, with what it takes from lib/jobd.rb: the thread   *)
(* that schedules the standard jobs.  It goes through six phases for ever; *)
(* each reads the jobs it concerns and processes them one by one, one SQL  *)
(* statement per step.                                                     *)
(*                                                                         *)
(* Time is left out: a timeout may have expired whenever it is looked at.  *)
(* Mandatory and designated daemons are left out (the code of the former   *)
(* raises a NameError), and so is the lock of status_local and             *)
(* status_queued, which only keeps other schedulers away.                  *)
(***************************************************************************)
EXTENDS SplayTables

CONSTANTS
  NbSplayds,    \* jobs.nb_splayds: the daemons a job asks for
  NbSelected,   \* (nb_splayds * factor).ceil: the daemons asked to register it
  Strict,       \* the jobs with strict = TRUE
  Scheduled,    \* the jobs with scheduled_at
  ListType,     \* jobs.list_type: "HEAD" or "RANDOM"
  NoJob

ASSUME JobAssumption ==
  /\ NbSplayds \in Nat \ {0}
  /\ NbSelected \in Nat /\ NbSelected >= NbSplayds
  /\ Strict \subseteq Job /\ Scheduled \subseteq Job
  /\ ListType \in {"HEAD", "RANDOM"}
  /\ NoJob \notin Job

VARIABLES
  jphase,   \* the phase of main
  jtodo,    \* jobs of the phase not processed yet
  jjob,     \* job: the one being processed, or NoJob
  jstep,    \* the statement to execute next
  jset      \* the daemons of occupation that were chosen; those of a SELECT that
            \* its loop has not reached

jobdVars == <<jphase, jtodo, jjob, jstep, jset>>

Phase == {"local", "registering", "running", "maxtime", "command", "queued"}

Step == {"next",                                            \* take a job
         "selections", "splayd_jobs", "registers", "commit", "registering",
         "select", "free", "list", "list_data", "running", "start",   \* enough replies
         "unregister", "forget", "timeout"}                 \* RegisterTimeout

JobdTypeOK ==
  /\ jphase \in Phase
  /\ jtodo \in SUBSET Job
  /\ jjob \in Job \cup {NoJob}
  /\ jstep \in Step
  /\ jset \in SUBSET Splayd
  /\ jjob = NoJob <=> jstep = "next"

JobdInit ==
  /\ jphase = "queued"
  /\ jtodo = {}
  /\ jjob = NoJob
  /\ jstep = "next"
  /\ jset = {}

---------------------------------------------------------------------------
JobsIn(st) == {j \in Job : jobs[j].status = st}

\* The jobs the SELECT of a phase returns; late: the scheduled jobs whose time
\* has not come.  kill_max_time only sees the jobs that ran too long (old).
\* A command that was executed is '', not NULL, but executing '' does nothing.
JobsOf(p, late, old) ==
  CASE p = "local"       -> JobsIn("LOCAL")
    [] p = "registering" -> JobsIn("REGISTERING")
    [] p = "running"     -> JobsIn("RUNNING")
    [] p = "maxtime"     -> JobsIn("RUNNING") \cap old
    [] p = "command"     -> {j \in Job : jobs[j].command}
    [] p = "queued"      -> JobsIn("QUEUED") \ late

After(p) ==
  CASE p = "local"       -> "registering"
    [] p = "registering" -> "running"
    [] p = "running"     -> "maxtime"
    [] p = "maxtime"     -> "command"
    [] p = "command"     -> "queued"
    [] p = "queued"      -> "local"

\* main: the next phase, when the jobs of this one are processed.
NextPhase ==
  /\ jstep = "next" /\ jtodo = {}
  /\ jphase' = After(jphase)
  /\ \E late \in SUBSET Scheduled, old \in SUBSET Job :
        jtodo' = JobsOf(jphase', late, old)
  /\ UNCHANGED <<tables, jjob, jstep, jset>>

\* Takes a job of the phase.
Takes(j, p) ==
  /\ jphase = p /\ jstep = "next"
  /\ j \in jtodo
  /\ jtodo' = jtodo \ {j}
  /\ UNCHANGED jphase

\* What it does is done in this step ...
Done == UNCHANGED <<jjob, jstep, jset>>

\* ... or goes on with statement s, for the daemons of ds.
GoesOn(j, s, ds) == jjob' = j /\ jstep' = s /\ jset' = ds

\* The next statement of the same job.
Statement(s, t) ==
  /\ jstep = s
  /\ jstep' = t
  /\ UNCHANGED <<jphase, jtodo, jjob, jset>>

\* Mutant of LastStatement: the job is not let go.
LastStatementKeepsJob(s) ==
  /\ jstep = s
  /\ jstep' = "next"
  /\ UNCHANGED <<jphase, jtodo, jjob, jset>>

\* The last statement of a job.
LastStatement(s) ==
  /\ jstep = s
  /\ jstep' = "next" /\ jjob' = NoJob /\ jset' = {}
  /\ UNCHANGED <<jphase, jtodo>>

SetJobStatus(j, st) == jobs' = [jobs EXCEPT ![j].status = st]

---------------------------------------------------------------------------
(* status_local and status_queued *)

Candidates == {d \in Splayd : splayds[d].status = "AVAILABLE"}

\* Mutant of Occupation: one job too many.
OccupationWhenFull == {d \in Candidates : NbNodes(d) <= MaxNumber}

\* select_splayds: occupation, the daemons with a free slot.
Occupation == {d \in Candidates : NbNodes(d) < MaxNumber}

NoRessources ==
  Cardinality(Occupation) < NbSplayds /\ Cardinality(Candidates) < NbSplayds

NotEnough == Cardinality(Occupation) < NbSplayds

\* The daemons chosen, when the job can be sent: any of occupation (the sort by
\* load is discarded), at most NbSelected.
Chosen ==
  {ds \in SUBSET Occupation :
     Cardinality(ds) = IF Cardinality(Occupation) <= NbSelected
                       THEN Cardinality(Occupation) ELSE NbSelected}

(***************************************************************************)
(* One job of status_local (p = "local") or status_queued, up to its first *)
(* INSERT.  A queued job may first be set to QUEUE_TIMEOUT (timeout); it   *)
(* is then processed all the same.                                         *)
(***************************************************************************)
SelectSplayds(j, p, late, timeout) ==
  LET st == IF p = "queued" /\ timeout THEN "QUEUE_TIMEOUT" ELSE jobs[j].status
  IN /\ Takes(j, p)
     /\ \/ /\ NoRessources
           /\ SetJobStatus(j, "NO_RESSOURCES")
           /\ Done
        \/ /\ ~NoRessources
           /\ p = "local" /\ j \in late
           /\ SetJobStatus(j, "QUEUED")
           /\ Done
        \/ /\ ~NoRessources /\ NotEnough
           /\ ~(p = "local" /\ j \in late)
           /\ SetJobStatus(j, IF j \in Strict THEN "NO_RESSOURCES"
                              ELSE IF p = "local" THEN "QUEUED" ELSE st)
           /\ Done
        \/ /\ ~NotEnough
           /\ ~(p = "local" /\ j \in late)
           /\ SetJobStatus(j, st)
           /\ \E ds \in Chosen : GoesOn(j, "selections", ds)
     /\ UNCHANGED <<splayds, actions, nextAction, splayd_jobs, selections>>

StatusLocal(j) ==
  \E late \in SUBSET Scheduled : SelectSplayds(j, "local", late, FALSE)

\* Mutant of StatusQueued: the time in the queue is not looked at.
StatusQueuedNoTimeout(j) == SelectSplayds(j, "queued", {}, FALSE)

StatusQueued(j) ==
  \E timeout \in BOOLEAN : SelectSplayds(j, "queued", {}, timeout)

\* INSERT INTO splayd_selections
InsertSelections ==
  /\ Statement("selections", "splayd_jobs")
  /\ selections' = selections \cup
       {[splayd |-> d, job |-> jjob,
         seq |-> Cardinality({s \in SelectionsOf(jjob) : s.splayd = d}),
         selected |-> FALSE, replied |-> FALSE, reset |-> FALSE] : d \in jset}
  /\ UNCHANGED <<splayds, actions, nextAction, splayd_jobs, jobs>>

\* INSERT INTO splayd_jobs
InsertSplaydJobs ==
  /\ Statement("splayd_jobs", "registers")
  /\ splayd_jobs' = splayd_jobs \cup
       {[splayd |-> d, job |-> jjob,
         seq |-> Cardinality(SplaydJobsOf(d, jjob)), status |-> "RESERVED"] : d \in jset}
  /\ UNCHANGED <<splayds, actions, nextAction, selections, jobs>>

\* INSERT INTO actions, the REGISTER commands without their data
InsertRegisters ==
  /\ Statement("registers", "commit")
  /\ InsertActions({[splayd |-> d, job |-> jjob, seq |-> 0] : d \in jset},
                   "REGISTER", "TEMP")
  /\ UNCHANGED <<splayds, splayd_jobs, selections, jobs>>

\* UPDATE actions SET data, status='WAITING'
CommitRegisters ==
  /\ Statement("commit", "registering")
  /\ actions' = CommitActions(jjob, "REGISTER")
  /\ UNCHANGED <<splayds, nextAction, splayd_jobs, selections, jobs>>

SetRegistering ==
  /\ LastStatement("registering")
  /\ SetJobStatus(jjob, "REGISTERING")
  /\ UNCHANGED <<splayds, actions, nextAction, splayd_jobs, selections>>

---------------------------------------------------------------------------
(* status_registering *)

Replied(j) == {s \in SelectionsOf(j) : s.replied}

Selected(j) == {s \in SelectionsOf(j) : s.selected}

\* Mutant of StatusRegistering: LIMIT is forgotten.
StatusRegisteringAll(j) ==
  /\ Takes(j, "registering")
  /\ Cardinality(Replied(j)) >= NbSplayds
  /\ GoesOn(j, "select", {s.splayd : s \in Replied(j)})
  /\ UNCHANGED tables

\* Enough daemons replied: the first NbSplayds rows (any, reply times are left
\* out) give the daemons to select.
StatusRegistering(j) ==
  /\ Takes(j, "registering")
  /\ \E rows \in SUBSET Replied(j) :
       /\ Cardinality(rows) = NbSplayds
       /\ GoesOn(j, "select", {s.splayd : s \in rows})
  /\ UNCHANGED tables

\* A turn of a loop over daemons, each with statements of its own: those of
\* daemon d.
Turn(s, d, t) ==
  /\ jstep = s
  /\ d \in jset
  /\ jset' = jset \ {d}
  /\ jstep' = IF jset' = {} THEN t ELSE s
  /\ UNCHANGED <<jphase, jtodo, jjob>>

\* UPDATE splayd_selections SET selected='TRUE', daemon by daemon
SelectSplayd(d) ==
  /\ Turn("select", d, "free")
  /\ selections' = {IF s.job = jjob /\ s.splayd = d
                    THEN [s EXCEPT !.selected = TRUE] ELSE s : s \in selections}
  /\ UNCHANGED <<splayds, actions, nextAction, splayd_jobs, jobs>>

\* Mutant of FreeOthers: only the daemons that replied are freed.
FreeReplied ==
  /\ Statement("free", "list")
  /\ InsertActions(Replied(jjob) \ Selected(jjob), "FREE", "WAITING")
  /\ UNCHANGED <<splayds, splayd_jobs, selections, jobs>>

\* FREE to the daemons that were not selected
FreeOthers ==
  /\ Statement("free", "list")
  /\ InsertActions(SelectionsOf(jjob) \ Selected(jjob), "FREE", "WAITING")
  /\ UNCHANGED <<splayds, splayd_jobs, selections, jobs>>

\* send_all_list: a head list is inserted without its data.
SendAllList ==
  /\ Statement("list", IF ListType = "HEAD" THEN "list_data" ELSE "running")
  /\ InsertActions(Selected(jjob), "LIST",
                   IF ListType = "HEAD" THEN "TEMP" ELSE "WAITING")
  /\ UNCHANGED <<splayds, splayd_jobs, selections, jobs>>

CommitList ==
  /\ Statement("list_data", "running")
  /\ actions' = CommitActions(jjob, "LIST")
  /\ UNCHANGED <<splayds, nextAction, splayd_jobs, selections, jobs>>

SetRunning ==
  /\ Statement("running", "start")
  /\ SetJobStatus(jjob, "RUNNING")
  /\ UNCHANGED <<splayds, actions, nextAction, splayd_jobs, selections>>

SendStart ==
  /\ LastStatement("start")
  /\ InsertActions(Selected(jjob), "START", "WAITING")
  /\ UNCHANGED <<splayds, splayd_jobs, selections, jobs>>

\* Not enough replies, and RegisterTimeout not expired.
KeepRegistering(j) ==
  /\ Takes(j, "registering")
  /\ Cardinality(Replied(j)) < NbSplayds
  /\ Done
  /\ UNCHANGED tables

\* The daemons that were asked to register the job.
AskedDaemons(j) == {s.splayd : s \in SelectionsOf(j)}

\* RegisterTimeout expired: the REGISTER commands are deleted ...
RegisterTimeout(j) ==
  /\ Takes(j, "registering")
  /\ Cardinality(Replied(j)) < NbSplayds
  /\ actions' = {a \in actions : ~(a.job = j /\ a.cmd = "REGISTER")}
  /\ GoesOn(j, IF AskedDaemons(j) = {} THEN "forget" ELSE "unregister", AskedDaemons(j))
  /\ UNCHANGED <<splayds, nextAction, splayd_jobs, selections, jobs>>

\* Mutant of FreeAll: only the daemons that replied are freed.
FreeAllReplied(d) ==
  /\ Turn("unregister", d, "forget")
  /\ InsertActions({s \in Replied(jjob) : s.splayd = d}, "FREE", "WAITING")
  /\ UNCHANGED <<splayds, splayd_jobs, selections, jobs>>

\* ... the job is freed everywhere, daemon by daemon (an INSERT for each of its
\* rows, joined) ...
FreeAll(d) ==
  /\ Turn("unregister", d, "forget")
  /\ InsertActions({s \in SelectionsOf(jjob) : s.splayd = d}, "FREE", "WAITING")
  /\ UNCHANGED <<splayds, splayd_jobs, selections, jobs>>

\* ... and forgotten.
DeleteSelections ==
  /\ Statement("forget", "timeout")
  /\ selections' = selections \ SelectionsOf(jjob)
  /\ UNCHANGED <<splayds, actions, nextAction, splayd_jobs, jobs>>

\* Mutant of SetRegisterTimeout: the status stays.
RegisterTimeoutForgotten ==
  /\ LastStatement("timeout")
  /\ UNCHANGED tables

\* Mutant of SetRegisterTimeout: goes on as if enough daemons had replied.
RegisterTimeoutGoesOn ==
  /\ Statement("timeout", "free")
  /\ SetJobStatus(jjob, "REGISTER_TIMEOUT")
  /\ UNCHANGED <<splayds, actions, nextAction, splayd_jobs, selections>>

SetRegisterTimeout ==
  /\ LastStatement("timeout")
  /\ SetJobStatus(jjob, "REGISTER_TIMEOUT")
  /\ UNCHANGED <<splayds, actions, nextAction, splayd_jobs, selections>>

---------------------------------------------------------------------------
(* status_running, kill_max_time and command *)

\* ENDED as soon as a row of the job is not RESERVED.
StatusRunning(j) ==
  /\ Takes(j, "running")
  /\ IF \E r \in splayd_jobs : r.job = j /\ r.status # "RESERVED"
     THEN SetJobStatus(j, "ENDED") ELSE UNCHANGED jobs
  /\ Done
  /\ UNCHANGED <<splayds, actions, nextAction, splayd_jobs, selections>>

\* status_killed_common: no FREE is sent, the query uses job['id'], which is
\* nil (the keys are symbols).
Killed(st) ==
  IF st \in {"LOCAL", "QUEUED", "REGISTERING", "RUNNING"} THEN "KILLED" ELSE st

KillMaxTime(j) ==
  /\ Takes(j, "maxtime")
  /\ SetJobStatus(j, Killed(jobs[j].status))
  /\ Done
  /\ UNCHANGED <<splayds, actions, nextAction, splayd_jobs, selections>>

\* command, for KILL
ExecuteKill(j) ==
  /\ Takes(j, "command")
  /\ jobs' = [jobs EXCEPT ![j] = [status |-> Killed(@.status), command |-> FALSE]]
  /\ Done
  /\ UNCHANGED <<splayds, actions, nextAction, splayd_jobs, selections>>

JobdStep ==
  \/ NextPhase
  \/ \E j \in Job :
       \/ StatusLocal(j) \/ StatusQueued(j)
       \/ StatusRegistering(j) \/ KeepRegistering(j) \/ RegisterTimeout(j)
       \/ StatusRunning(j) \/ KillMaxTime(j) \/ ExecuteKill(j)
  \/ InsertSelections \/ InsertSplaydJobs \/ InsertRegisters
  \/ CommitRegisters \/ SetRegistering
  \/ FreeOthers \/ SendAllList \/ CommitList \/ SetRunning \/ SendStart
  \/ \E d \in Splayd : SelectSplayd(d) \/ FreeAll(d)
  \/ DeleteSelections \/ SetRegisterTimeout

---------------------------------------------------------------------------
(* cli-server/controller-api.rb *)

Submit(j) ==
  /\ jobs[j].status = "NONE"
  /\ SetJobStatus(j, "LOCAL")
  /\ UNCHANGED <<splayds, actions, nextAction, splayd_jobs, selections>>

\* kill_job
KillJob(j) ==
  /\ jobs[j].status # "NONE" /\ ~jobs[j].command
  /\ jobs' = [jobs EXCEPT ![j].command = TRUE]
  /\ UNCHANGED <<splayds, actions, nextAction, splayd_jobs, selections>>

=============================================================================
