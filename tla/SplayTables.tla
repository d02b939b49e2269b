---------------------------- MODULE SplayTables ----------------------------
(***************************************************************************)
(* The controller's database, as far as it decides what runs where, and    *)
(* the operations of lib/splayd.rb on it.  Every thread of the controller  *)
(* (one per connected daemon, the job scheduler, the unseen daemon) reads  *)
(* and writes these tables; one operator here is one SQL statement or a    *)
(* run of statements no other thread can tell apart.                       *)
(*                                                                         *)
(* splayd_availabilities (an append-only history nothing reads back), the  *)
(* host description and the load averages are left out.                    *)
(***************************************************************************)
EXTENDS Naturals, FiniteSets

CONSTANTS
  Splayd,      \* the registered daemons
  Job,         \* the jobs users may submit
  MaxNumber    \* settings.job.max_number: job slots of one daemon

ASSUME MaxNumberAssumption == MaxNumber \in Nat \ {0}
ASSUME FiniteAssumption == IsFiniteSet(Splayd) /\ IsFiniteSet(Job)

VARIABLES
  splayds,      \* splayds table: [status, session] of each daemon
  actions,      \* actions table: the commands to send, a set of rows
  nextAction,   \* AUTO_INCREMENT of actions, one counter per daemon (ids are
                \* only ever compared between rows of one daemon)
  splayd_jobs,  \* splayd_jobs table, a set of rows
  selections,   \* splayd_selections table, a set of rows
  jobs          \* jobs table: [status, command] of each job

tables == <<splayds, actions, nextAction, splayd_jobs, selections, jobs>>

SplaydStatus == {"REGISTERED", "AVAILABLE", "UNAVAILABLE", "RESET"}
ActionStatus == {"TEMP", "WAITING", "SENDING", "FAILURE"}
Command == {"REGISTER", "FREE", "LIST", "START"}

\* The data of REGISTER is the JSON of the job, or only its code.
ActionData == {"json", "code"}

Action == [id : Nat, splayd : Splayd, job : Job, cmd : Command,
           data : ActionData, status : ActionStatus]

\* No key is unique in splayd_jobs and splayd_selections: seq tells the rows of
\* one (daemon, job) apart.
SplaydJob == [splayd : Splayd, job : Job, seq : Nat,
              status : {"RESERVED", "WAITING", "RUNNING"}]

Selection == [splayd : Splayd, job : Job, seq : Nat, selected : BOOLEAN,
              replied : BOOLEAN, reset : BOOLEAN]

\* "NONE": not submitted yet.
JobStatus == {"NONE", "LOCAL", "REGISTERING", "RUNNING", "ENDED",
              "NO_RESSOURCES", "REGISTER_TIMEOUT", "KILLED", "QUEUED",
              "QUEUE_TIMEOUT"}

(***************************************************************************)
(* Sessions: random digests, here numbers handed out in increasing order.  *)
(* A fresh row has a NULL session; the protocol sends it as "NULL", and a  *)
(* daemon that has no session sends the empty string.                      *)
(***************************************************************************)
NullSession == 0
NullText == 1
EmptyText == 2
FirstSession == 3

SessionText(s) == IF s = NullSession THEN NullText ELSE s

TablesTypeOK ==
  /\ splayds \in [Splayd -> [status : SplaydStatus, session : Nat]]
  /\ actions \in SUBSET Action /\ IsFiniteSet(actions)
  /\ nextAction \in [Splayd -> Nat]
  /\ splayd_jobs \in SUBSET SplaydJob /\ IsFiniteSet(splayd_jobs)
  /\ selections \in SUBSET Selection /\ IsFiniteSet(selections)
  /\ jobs \in [Job -> [status : JobStatus, command : BOOLEAN]]

TablesInit ==
  /\ splayds = [d \in Splayd |-> [status |-> "REGISTERED", session |-> NullSession]]
  /\ actions = {}
  /\ nextAction = [d \in Splayd |-> 1]
  /\ splayd_jobs = {}
  /\ selections = {}
  /\ jobs = [j \in Job |-> [status |-> "NONE", command |-> FALSE]]

---------------------------------------------------------------------------
(* actions *)

Row(n, d, j, c, data, st) ==
  [id |-> n, splayd |-> d, job |-> j, cmd |-> c, data |-> data, status |-> st]

\* UPDATE actions SET status=st WHERE a \in rows
SetActionStatus(rows, st) ==
  {IF a \in rows THEN [a EXCEPT !.status = st] ELSE a : a \in actions}

ActionsOf(d, st) == {a \in actions : a.splayd = d /\ a.status = st}

\* The first row of rows, by id.
FirstOf(rows, a) == a \in rows /\ \A b \in rows : a.id <= b.id

\* Mutant of FirstWaiting: passes over the first row.
SecondWaiting(d, a) ==
  \E b \in ActionsOf(d, "WAITING") :
     /\ FirstOf(ActionsOf(d, "WAITING"), b)
     /\ FirstOf(ActionsOf(d, "WAITING") \ {b}, a)

\* next_action, the reading half: rows by id, TEMP rows only logged.
FirstWaiting(d, a) == FirstOf(ActionsOf(d, "WAITING"), a)

\* next_action, the writing half: UPDATE ... WHERE id, whatever the row is by now.
MarkSending(d, n) ==
  SetActionStatus({a \in actions : a.splayd = d /\ a.id = n}, "SENDING")

\* Mutant of ActionFailure: the rows being sent are forgotten.
ActionFailureForgets(d) == actions \ ActionsOf(d, "SENDING")

\* action_failure
ActionFailure(d) == SetActionStatus(ActionsOf(d, "SENDING"), "FAILURE")

\* remove_action
RemoveAction(d, n) == {a \in actions : ~(a.splayd = d /\ a.id = n)}

\* Mutant of ResetActions: the rows being sent are forgotten.
ResetActionsKeepsSending == {a \in actions : a.status # "TEMP"}

\* Mutant of ResetActions: the incomplete rows stay.
ResetActionsKeepsTemp ==
  {IF a.status = "SENDING" THEN [a EXCEPT !.status = "FAILURE"] ELSE a : a \in actions}

\* Splayd.reset_actions, when the controller starts.
ResetActions ==
  {IF a.status = "SENDING" THEN [a EXCEPT !.status = "FAILURE"] ELSE a :
      a \in {b \in actions : b.status # "TEMP"}}

\* add_action: a row at the end of the table.
AddAction(d, j, c, data) ==
  /\ actions' = actions \cup {Row(nextAction[d], d, j, c, data, "WAITING")}
  /\ nextAction' = [nextAction EXCEPT ![d] = @ + 1]

\* A multi-row INSERT INTO actions, one row for each selection row of sels.
InsertActions(sels, c, st) ==
  /\ actions' = actions \cup
       {Row(nextAction[s.splayd]
              + Cardinality({t \in sels : t.splayd = s.splayd /\ t.seq < s.seq}),
            s.splayd, s.job, c, "json", st) : s \in sels}
  /\ nextAction' = [d \in Splayd |->
                      nextAction[d] + Cardinality({s \in sels : s.splayd = d})]

\* UPDATE actions SET status='WAITING' WHERE job, command and status='TEMP'
CommitActions(j, c) ==
  SetActionStatus({a \in actions : a.job = j /\ a.cmd = c /\ a.status = "TEMP"},
                  "WAITING")

---------------------------------------------------------------------------
(* splayds, splayd_jobs and splayd_selections *)

SetSplaydStatus(d, st) == [splayds EXCEPT ![d].status = st]

SelectionsOf(j) == {s \in selections : s.job = j}

(***************************************************************************)
(* reset, in two steps.  First a new session in the table (not in the row  *)
(* the caller cached), and nothing left of the daemon's actions ...        *)
(***************************************************************************)
ResetSession(d) ==
  /\ splayds' = [splayds EXCEPT ![d] =
        [status |-> "RESET",
         session |-> IF @.session = NullSession THEN FirstSession ELSE @.session + 1]]
  /\ actions' = {a \in actions : a.splayd # d}
  /\ UNCHANGED <<nextAction, splayd_jobs, selections, jobs>>

\* Mutant of ResetJobs: splayd_jobs is not cleaned.
ResetJobsKeepsRows(d) ==
  /\ selections' = {IF s.splayd = d THEN [s EXCEPT !.reset = TRUE] ELSE s :
                       s \in selections}
  /\ UNCHANGED <<splayds, actions, nextAction, splayd_jobs, jobs>>

\* ... then nothing left of its jobs.
ResetJobs(d) ==
  /\ splayd_jobs' = {r \in splayd_jobs : r.splayd # d}
  /\ selections' = {IF s.splayd = d THEN [s EXCEPT !.reset = TRUE] ELSE s :
                       s \in selections}
  /\ UNCHANGED <<splayds, actions, nextAction, jobs>>

SplaydJobsOf(d, j) == {r \in splayd_jobs : r.splayd = d /\ r.job = j}

\* UPDATE splayd_jobs SET status=st WHERE r \in rows
SetSplaydJobStatus(rows, st) ==
  {IF r \in rows THEN [r EXCEPT !.status = st] ELSE r : r \in splayd_jobs}

\* s_j_register, and s_sel_reply after it
SJRegister(d, j) ==
  /\ splayd_jobs' =
       SetSplaydJobStatus({r \in SplaydJobsOf(d, j) : r.status = "RESERVED"}, "WAITING")
  /\ selections' = {IF s.splayd = d /\ s.job = j THEN [s EXCEPT !.replied = TRUE]
                    ELSE s : s \in selections}

\* s_j_free
SJFree(d, j) == splayd_jobs' = splayd_jobs \ SplaydJobsOf(d, j)

\* s_j_start: an UPDATE, nothing when there is no row
SJStart(d, j) == splayd_jobs' = SetSplaydJobStatus(SplaydJobsOf(d, j), "RUNNING")

\* COUNT(job_id) of splayd_jobs for one daemon
NbNodes(d) == Cardinality({r \in splayd_jobs : r.splayd = d})

\* reset_unseen: the daemons that may be found not seen for long.
Unseen == {d \in Splayd : splayds[d].status \in {"AVAILABLE", "UNAVAILABLE"}}

\* Splayd.init, when the controller starts
SplaydInit ==
  /\ splayds' = [d \in Splayd |->
                   IF splayds[d].status = "AVAILABLE"
                   THEN [splayds[d] EXCEPT !.status = "UNAVAILABLE"]
                   ELSE splayds[d]]
  /\ actions' = ResetActions

=============================================================================
