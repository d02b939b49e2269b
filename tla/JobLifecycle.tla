---------------------------- MODULE JobLifecycle ----------------------------
(***************************************************************************)
(* What the controller promises of a job, whatever the daemons do: it goes *)
(* forward from its submission to its end, never back, is started once at  *)
(* most, and while it runs its hosts are a set it may run on and do not     *)
(* change.  SplaySystem implements this specification.                     *)
(***************************************************************************)
CONSTANTS
  Job,      \* the jobs
  HostSets  \* the sets of hosts a job that runs may have

VARIABLES
  state,    \* of each job
  hosts     \* of each job, while it runs

lifeVars == <<state, hosts>>

JobState == {"new", "waiting", "registering", "running", "over"}

Init ==
  /\ state = [j \in Job |-> "new"]
  /\ hosts = [j \in Job |-> {}]

Goes(j, from, to) ==
  /\ state[j] \in from
  /\ state' = [state EXCEPT ![j] = to]

\* The job is submitted.
Submit(j) == Goes(j, {"new"}, "waiting") /\ UNCHANGED hosts

\* Daemons are asked to register it.
Register(j) == Goes(j, {"waiting"}, "registering") /\ UNCHANGED hosts

\* Enough daemons have it: it is started on them.
Start(j) ==
  /\ Goes(j, {"registering"}, "running")
  /\ \E ds \in HostSets : hosts' = [hosts EXCEPT ![j] = ds]

\* It ends, is killed, or is given up before it ran.
Leave(j) ==
  /\ Goes(j, {"waiting", "registering", "running"}, "over")
  /\ hosts' = [hosts EXCEPT ![j] = {}]

Next == \E j \in Job : Submit(j) \/ Register(j) \/ Start(j) \/ Leave(j)

Spec == Init /\ [][Next]_lifeVars

=============================================================================
