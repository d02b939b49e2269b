----------------------------- MODULE SplaydJobs -----------------------------
(***************************************************************************)
(* The jobs of one daemon (splayd.lua): their slots, the ports they        *)
(* reserve, the processes that run them, and the coroutine that starts and *)
(* stops the jobs with a timeline (churn).                                 *)
(*                                                                         *)
(* splayd is one process: server_loop executes a command, then lets the    *)
(* churn coroutine run.  Only the processes of the jobs, other             *)
(* applications that take ports, and the link are concurrent with it.      *)
(* A loop of the code over the jobs, or over port ranges, is one step per  *)
(* turn.                                                                   *)
(***************************************************************************)
EXTENDS Integers, Sequences, FiniteSets

CONSTANTS
  Job,        \* references of jobs
  NoJob,
  StartPort, EndPort,  \* settings.job.network
  MaxPorts,   \* max_ports
  MaxNumber,  \* max_number
  NbPorts,    \* of each job: network.nb_ports
  DieFree,    \* the jobs freed when their process ends (the others are stopped)
  Timeline,   \* of each job: my_timeline, empty for a job without one
  PerSecond,  \* turns of the churn coroutine per second (10 in the code)
  Pid,        \* process identifiers
  RandomStart,  \* bound: the random ports a search begins at
  MaxFaults   \* bound: ports found taken, missing libraries, links that break

\* check() refuses to run otherwise.  A timeline is a sequence of distinct
\* times, the first at least 0.
ASSUME PortAssumption ==
  /\ StartPort \in Nat \ {0} /\ EndPort \in Nat
  /\ MaxPorts \in Nat \ {0} /\ MaxNumber \in Nat \ {0}
  /\ EndPort - StartPort >= MaxPorts * (MaxNumber + 1)
  /\ NbPorts \in [Job -> 0..MaxPorts]
ASSUME JobAssumption ==
  /\ NoJob \notin Job
  /\ DieFree \subseteq Job
  /\ Timeline \in [Job -> Seq(Nat)]
  /\ \A j \in Job : \A a, b \in DOMAIN Timeline[j] :
       a < b => Timeline[j][a] < Timeline[j][b]
ASSUME BoundAssumption ==
  /\ PerSecond \in Nat \ {0}
  /\ Pid \subseteq Nat \ {0}
  /\ RandomStart \subseteq StartPort..EndPort
  /\ MaxFaults \in Nat

VARIABLES
  registered,   \* the jobs in splayd.jobs
  status,       \* of a registered job: "waiting" or "running"
  port,         \* its first port (me.port), 0 if it has none
  pid,          \* the process that runs it
  listed,       \* the jobs that have received their LIST
  fresh,        \* the jobs that were never started (start_time is nil)
  trace_ended,  \* job_trace_ended
  tcp, udp,     \* the ports splayd has bound (tcp_binded_ports, udp_binded_ports)
  proc,         \* of each pid: "none", "alive", or "ended" and not waited for
  elapsed,      \* churn_mgmt_jobs: seconds since START, NotChurned if not in it
  co_churn,     \* the churn coroutine: "none", "suspended" or "dead"
  count,        \* its count_msleep
  so_timeout,   \* TRUE when it is 0: the socket is to be read without blocking
  blocking,     \* what the socket is
  first,        \* server_loop has not yielded on this connection yet
  pc,           \* what splayd is doing
  todo,         \* the jobs its loop has not reached
  finding,      \* the search of a port range
  faults

jobVars == <<registered, status, port, pid, listed, fresh, elapsed>>
portVars == <<tcp, udp>>
loopVars == <<co_churn, count, so_timeout, blocking, first, pc, todo, finding>>
vars == <<registered, status, port, pid, listed, fresh, trace_ended, tcp, udp, proc,
          elapsed, co_churn, count, so_timeout, blocking, first, pc, todo, finding, faults>>

NotChurned == -1
Churned == {j \in registered : elapsed[j] # NotChurned}
NotFinding == [ref |-> NoJob, nb |-> 0, at |-> 0, last |-> 0, rest |-> 0]

Init ==
  /\ registered = {} /\ listed = {} /\ fresh = {} /\ trace_ended = {}
  /\ status = [j \in Job |-> "waiting"]
  /\ port = [j \in Job |-> 0]
  /\ pid = [j \in Job |-> 0]
  /\ tcp = {} /\ udp = {}
  /\ proc = [p \in Pid |-> "none"]
  /\ elapsed = [j \in Job |-> NotChurned]
  /\ co_churn = "none" /\ count = PerSecond
  /\ so_timeout = FALSE /\ blocking = TRUE /\ first = TRUE
  /\ pc = "server" /\ todo = {} /\ finding = NotFinding
  /\ faults = 0

Fault == faults < MaxFaults /\ faults' = faults + 1

----------------------------------------------------------------------------
(* The socket and the two coroutines *)

\* server_loop after a command, or after a read that returned nothing: lets the
\* churn coroutine run, or goes back to blocking reads when it is dead.  The first
\* yield on a connection resumes server_loop, before the churn.
Yields(co, timeout, blocks) ==
  /\ so_timeout' = (timeout /\ co # "dead")
  /\ blocking' = (blocks \/ co = "dead")
  /\ first' = (first /\ co # "suspended")
  /\ pc' = IF co = "suspended" /\ ~first THEN "churn" ELSE "server"

\* The handler ends with so:settimeout(so_timeout).
Restored ==
  /\ Yields(co_churn, so_timeout, ~so_timeout)
  /\ UNCHANGED <<co_churn, count>>

\* The handler returns early: the socket stays blocking.
NotRestored ==
  /\ Yields(co_churn, so_timeout, TRUE)
  /\ UNCHANGED <<co_churn, count>>

\* PING, INFOS, LOG, BLACKLIST, LOADAVG, and any answer of UNKNOWN_REF that ends
\* with the timeout restored.
Ping ==
  /\ pc = "server"
  /\ Restored
  /\ UNCHANGED <<jobVars, trace_ended, portVars, proc, todo, finding, faults>>

\* LOCAL_LOG of a job that has a log.
LocalLog ==
  /\ pc = "server"
  /\ NotRestored
  /\ UNCHANGED <<jobVars, trace_ended, portVars, proc, todo, finding, faults>>

\* A read that does not block returns nothing.
Idle ==
  /\ pc = "server"
  /\ ~blocking
  /\ Yields(co_churn, so_timeout, blocking)
  /\ UNCHANGED <<jobVars, trace_ended, portVars, proc, co_churn, count, todo, finding,
                 faults>>

----------------------------------------------------------------------------
(* Ports *)

Ports(j) == port[j] .. (port[j] + NbPorts[j] - 1)

PortsOf(S) == UNION {Ports(j) : j \in S}

\* A port splayd cannot bind is its own, or another application's: a fault.
Taken(own) == IF own THEN UNCHANGED faults ELSE Fault

\* splay.reserve_ports(min, max) binds all TCP ports, then all UDP ports.
Reserve(min, max) ==
  /\ (min..max) \cap (tcp \cup udp) = {}
  /\ tcp' = tcp \cup (min..max)
  /\ udp' = udp \cup (min..max)

\* It cannot bind TCP port p, and releases those before.
StopsAtTcp(min, max, p) ==
  /\ (min..(p - 1)) \cap tcp = {}
  /\ udp' = udp \ (min..(p - 1))
  /\ UNCHANGED tcp
  /\ Taken(p \in tcp)

\* It cannot bind UDP port p, and releases those before: the TCP ports from p on
\* stay bound.
StopsAtUdp(min, max, p) ==
  /\ (min..max) \cap tcp = {}
  /\ (min..(p - 1)) \cap udp = {}
  /\ tcp' = tcp \cup (p..max)
  /\ UNCHANGED udp
  /\ Taken(p \in udp)

ReserveFails(min, max, p) == StopsAtTcp(min, max, p) \/ StopsAtUdp(min, max, p)

\* Mutant of Release: forgets the last port.
ReleaseNotLast(j) ==
  /\ tcp' = tcp \ (port[j] .. (port[j] + NbPorts[j] - 2))
  /\ udp' = udp \ (port[j] .. (port[j] + NbPorts[j] - 2))

Release(j) ==
  /\ tcp' = tcp \ Ports(j)
  /\ udp' = udp \ Ports(j)

----------------------------------------------------------------------------
(* start, stop, free, reset *)

\* A start leaves the process of a job that is running already to itself.
StartJob(j, p) ==
  /\ proc[p] = "none"
  /\ Release(j)
  /\ proc' = [proc EXCEPT ![p] = "alive"]
  /\ pid' = [pid EXCEPT ![j] = p]
  /\ status' = [status EXCEPT ![j] = "running"]
  /\ fresh' = fresh \ {j}
  /\ UNCHANGED <<registered, port, listed>>

\* kill waits for the process.
Killed(S) ==
  proc' = [p \in Pid |-> IF \E j \in S : status[j] = "running" /\ pid[j] = p
                         THEN "none" ELSE proc[p]]

\* stop tries to reserve the ports again, on best effort.
ReserveAgain(j) ==
  IF NbPorts[j] > 0
    THEN LET max == port[j] + NbPorts[j] - 1
         IN \/ Reserve(port[j], max) /\ UNCHANGED faults
            \/ \E p \in Ports(j) : ReserveFails(port[j], max, p)
    ELSE UNCHANGED <<portVars, faults>>

\* Mutant of StopJob: does not kill the process.
StopJobOnly(j) ==
  /\ UNCHANGED proc
  /\ pid' = [pid EXCEPT ![j] = 0]
  /\ status' = [status EXCEPT ![j] = "waiting"]
  /\ ReserveAgain(j)
  /\ UNCHANGED <<registered, port, listed, fresh>>

StopJob(j) ==
  /\ Killed({j})
  /\ pid' = [pid EXCEPT ![j] = 0]
  /\ status' = [status EXCEPT ![j] = "waiting"]
  /\ ReserveAgain(j)
  /\ UNCHANGED <<registered, port, listed, fresh>>

\* Mutant of FreeJobs: releases one port too many.
FreeJobsOnePortMore(S) ==
  /\ Killed(S)
  /\ tcp' = tcp \ UNION {port[j] .. (port[j] + NbPorts[j]) : j \in S}
  /\ udp' = udp \ UNION {port[j] .. (port[j] + NbPorts[j]) : j \in S}
  /\ registered' = registered \ S
  /\ status' = [j \in Job |-> IF j \in S THEN "waiting" ELSE status[j]]
  /\ port' = [j \in Job |-> IF j \in S THEN 0 ELSE port[j]]
  /\ pid' = [j \in Job |-> IF j \in S THEN 0 ELSE pid[j]]
  /\ elapsed' = [j \in Job |-> IF j \in S THEN NotChurned ELSE elapsed[j]]
  /\ listed' = listed \ S
  /\ fresh' = fresh \ S

FreeJobs(S) ==
  /\ Killed(S)
  /\ tcp' = tcp \ PortsOf(S)
  /\ udp' = udp \ PortsOf(S)
  /\ registered' = registered \ S
  /\ status' = [j \in Job |-> IF j \in S THEN "waiting" ELSE status[j]]
  /\ port' = [j \in Job |-> IF j \in S THEN 0 ELSE port[j]]
  /\ pid' = [j \in Job |-> IF j \in S THEN 0 ELSE pid[j]]
  /\ elapsed' = [j \in Job |-> IF j \in S THEN NotChurned ELSE elapsed[j]]
  /\ listed' = listed \ S
  /\ fresh' = fresh \ S

----------------------------------------------------------------------------
(* Registration: find_reserve_rand_ports *)

Refused(j) == j \in registered \/ Cardinality(registered) >= MaxNumber

\* EXISTING_REF, NO_NEW.  The limits of a job fit: the controller chooses the
\* daemons so.
RegisterRefused(j) ==
  /\ pc = "server"
  /\ Refused(j)
  /\ NotRestored
  /\ UNCHANGED <<jobVars, trace_ended, portVars, proc, todo, finding, faults>>

\* The end of register, with first port s.  Without its libraries the job is
\* refused, but its ports stay reserved.
Registered(j, s, libs) ==
  /\ IF libs
       THEN /\ registered' = registered \cup {j}
            /\ port' = [port EXCEPT ![j] = s]
            /\ fresh' = fresh \cup {j}
            /\ Restored
       ELSE /\ UNCHANGED <<registered, port, fresh>>
            /\ NotRestored
  /\ IF libs THEN UNCHANGED faults ELSE Fault
  /\ UNCHANGED <<status, pid, listed, elapsed, trace_ended, proc, todo>>

RegisterNoPorts(j, libs) ==
  /\ pc = "server"
  /\ ~Refused(j)
  /\ NbPorts[j] = 0
  /\ Registered(j, 0, libs)
  /\ UNCHANGED <<portVars, finding>>

\* Mutant of RegisterPorts: one port past the end.
RegisterPortsPast(j, r) ==
  /\ pc = "server"
  /\ ~Refused(j)
  /\ NbPorts[j] > 0
  /\ finding' = [ref |-> j, nb |-> NbPorts[j], at |-> r, last |-> EndPort + 1, rest |-> r]
  /\ pc' = "register"
  /\ UNCHANGED <<jobVars, trace_ended, portVars, proc, co_churn, count, so_timeout,
                 blocking, first, todo, faults>>

\* The search begins at a random port r; what is before it comes last.
RegisterPorts(j, r) ==
  /\ pc = "server"
  /\ ~Refused(j)
  /\ NbPorts[j] > 0
  /\ finding' = [ref |-> j, nb |-> NbPorts[j], at |-> r, last |-> EndPort, rest |-> r]
  /\ pc' = "register"
  /\ UNCHANGED <<jobVars, trace_ended, portVars, proc, co_churn, count, so_timeout,
                 blocking, first, todo, faults>>

\* Mutant of Overlaps: a range that ends where the other begins.
OverlapsInside(k, s, n) ==
  /\ NbPorts[k] > 0
  /\ IF port[k] <= s THEN port[k] + NbPorts[k] - 1 > s ELSE port[k] <= s + n - 1

\* The ports of job k and the n ports from s on have one in common.
Overlaps(k, s, n) ==
  /\ NbPorts[k] > 0
  /\ IF port[k] <= s THEN port[k] + NbPorts[k] - 1 >= s ELSE port[k] <= s + n - 1

\* The last port of the range it looks at.
MaxPort == finding.at + finding.nb - 1

\* The search goes on at port p.
SearchOn(p) ==
  /\ finding' = [ref |-> finding.ref, nb |-> finding.nb, at |-> p,
                  last |-> finding.last, rest |-> finding.rest]
  /\ UNCHANGED <<jobVars, trace_ended, proc, co_churn, count, so_timeout, blocking, first,
                 pc, todo>>

SkipJob(k) ==
  /\ pc = "register"
  /\ MaxPort <= finding.last
  /\ k \in registered
  /\ Overlaps(k, finding.at, finding.nb)
  /\ SearchOn(port[k] + NbPorts[k])
  /\ UNCHANGED <<portVars, faults>>

\* No job overlaps: the search ends, or goes on after the port it cannot bind.
CanTry ==
  /\ pc = "register"
  /\ MaxPort <= finding.last
  /\ \A k \in registered : ~Overlaps(k, finding.at, finding.nb)

TakePorts(libs) ==
  /\ CanTry
  /\ Reserve(finding.at, MaxPort)
  /\ Registered(finding.ref, finding.at, libs)
  /\ finding' = NotFinding

SkipPort(p) ==
  /\ CanTry
  /\ p \in finding.at .. MaxPort
  /\ ReserveFails(finding.at, MaxPort, p)
  /\ SearchOn(p + 1)

\* The end of the range: the other part of it, or BUSY_PORTS.
EndOfRange ==
  /\ pc = "register"
  /\ MaxPort > finding.last
  /\ IF finding.rest > 0
       THEN /\ finding' = [ref |-> finding.ref, nb |-> finding.nb, at |-> StartPort,
                           last |-> finding.rest - 1, rest |-> 0]
            /\ UNCHANGED <<co_churn, count, so_timeout, blocking, first, pc>>
       ELSE /\ finding' = NotFinding
            /\ NotRestored
  /\ UNCHANGED <<jobVars, trace_ended, portVars, proc, todo, faults>>

----------------------------------------------------------------------------
(* Commands on registered jobs *)

Free(j) ==
  /\ pc = "server"
  /\ j \in registered
  /\ FreeJobs({j})
  /\ Restored
  /\ UNCHANGED <<trace_ended, todo, finding, faults>>

List(j) ==
  /\ pc = "server"
  /\ j \in registered
  /\ listed' = listed \cup {j}
  /\ Restored
  /\ UNCHANGED <<registered, status, port, pid, fresh, elapsed, trace_ended, portVars,
                 proc, todo, finding, faults>>

\* START of a job that runs: answers RUNNING.
StartRefused(j) ==
  /\ pc = "server"
  /\ j \in registered
  /\ status[j] = "running"
  /\ NotRestored
  /\ UNCHANGED <<jobVars, trace_ended, portVars, proc, todo, finding, faults>>

\* START after LIST; without it n_start raises (SplaydDaemon).
StartNow(j, p) ==
  /\ pc = "server"
  /\ j \in registered \cap listed
  /\ status[j] = "waiting"
  /\ Timeline[j] = <<>>
  /\ StartJob(j, p)
  /\ Restored
  /\ UNCHANGED <<elapsed, trace_ended, todo, finding, faults>>

\* Mutant of StartChurn: the clock of a job that runs is set back.
StartChurnAgain(j) ==
  /\ pc = "server"
  /\ j \in registered \cap listed
  /\ Timeline[j] # <<>>
  /\ elapsed' = [elapsed EXCEPT ![j] = 0]
  /\ IF Churned \cup {j} = {j}
       THEN /\ co_churn' = "suspended" /\ count' = PerSecond
            /\ Yields("suspended", TRUE, FALSE)
       ELSE Restored
  /\ UNCHANGED <<registered, status, port, pid, listed, fresh, trace_ended, portVars,
                 proc, todo, finding, faults>>

\* Mutant of StartChurn: the table is looked at before the job is in it.
StartChurnSecond(j) ==
  /\ pc = "server"
  /\ j \in registered \cap listed
  /\ status[j] = "waiting"
  /\ Timeline[j] # <<>>
  /\ elapsed' = [elapsed EXCEPT ![j] = 0]
  /\ IF Cardinality(Churned) = 1
       THEN /\ co_churn' = "suspended" /\ count' = PerSecond
            /\ Yields("suspended", TRUE, FALSE)
       ELSE Restored
  /\ UNCHANGED <<registered, status, port, pid, listed, fresh, trace_ended, portVars,
                 proc, todo, finding, faults>>

\* START of a job with a timeline: its clock starts, and the churn coroutine when
\* it is the only one.
StartChurn(j) ==
  /\ pc = "server"
  /\ j \in registered \cap listed
  /\ status[j] = "waiting"
  /\ Timeline[j] # <<>>
  /\ elapsed' = [elapsed EXCEPT ![j] = 0]
  /\ IF Churned \cup {j} = {j}
       THEN /\ co_churn' = "suspended" /\ count' = PerSecond
            /\ Yields("suspended", TRUE, FALSE)
       ELSE Restored
  /\ UNCHANGED <<registered, status, port, pid, listed, fresh, trace_ended, portVars,
                 proc, todo, finding, faults>>

\* STOP or RESTART of a job that does not run: answers NOT_RUNNING.
StopRefused(j) ==
  /\ pc = "server"
  /\ j \in registered
  /\ status[j] = "waiting"
  /\ NotRestored
  /\ UNCHANGED <<jobVars, trace_ended, portVars, proc, todo, finding, faults>>

StopNow(j) ==
  /\ pc = "server"
  /\ j \in registered
  /\ status[j] = "running"
  /\ StopJob(j)
  /\ Restored
  /\ UNCHANGED <<elapsed, trace_ended, todo, finding>>

\* stop reserves the ports, start releases them again.
Restart(j, p) ==
  /\ pc = "server"
  /\ j \in registered
  /\ status[j] = "running"
  /\ proc[p] = "none" \/ p = pid[j]
  /\ proc' = [q \in Pid |-> IF q = p THEN "alive"
                            ELSE IF q = pid[j] THEN "none" ELSE proc[q]]
  /\ pid' = [pid EXCEPT ![j] = p]
  /\ Release(j)
  /\ Restored
  /\ UNCHANGED <<registered, status, port, listed, fresh, elapsed, trace_ended, todo,
                 finding, faults>>

\* Sent by the trace scheduler, whose jobs are those that are not freed when their
\* process ends.  The job may be unknown: then the handler raises, see LinkBreaks.
TraceEnd(j) ==
  /\ pc = "server"
  /\ j \notin DieFree
  /\ j \in registered
  /\ trace_ended' = trace_ended \cup {j}
  /\ IF status[j] = "waiting" THEN FreeJobs({j})
                              ELSE UNCHANGED <<jobVars, portVars, proc>>
  /\ Restored
  /\ UNCHANGED <<todo, finding, faults>>

Reset ==
  /\ pc = "server"
  /\ FreeJobs(registered)
  /\ Restored
  /\ UNCHANGED <<trace_ended, todo, finding, faults>>

----------------------------------------------------------------------------
(* STATUS and HALT: free_ended_jobs *)

\* A loop over the jobs, for STATUS, HALT or the churn.
BeginLoop(at, jobs) ==
  /\ pc' = at
  /\ todo' = jobs
  /\ UNCHANGED <<co_churn, count, so_timeout, blocking, first, finding>>

Reaches(at, j) ==
  /\ pc = at
  /\ j \in todo
  /\ todo' = todo \ {j}
  /\ UNCHANGED <<co_churn, count, so_timeout, blocking, first, pc, finding>>

CheckJobs(at) ==
  /\ pc = "server"
  /\ BeginLoop(at, registered)
  /\ UNCHANGED <<jobVars, trace_ended, portVars, proc, faults>>

Ended(j) == status[j] = "running" /\ proc[pid[j]] # "alive"

CheckJob(at, j) ==
  /\ Reaches(at, j)
  /\ IF Ended(j)
       THEN IF j \in DieFree \cup trace_ended
              THEN FreeJobs({j}) /\ UNCHANGED faults
              ELSE StopJob(j) /\ UNCHANGED elapsed
       ELSE UNCHANGED <<jobVars, portVars, proc, faults>>
  /\ UNCHANGED trace_ended

\* The jobs are sent; or HALT answers JOBS_REGISTERED.
EndCheck(at) ==
  /\ pc = at
  /\ todo = {}
  /\ IF at = "status" THEN Restored ELSE registered # {} /\ NotRestored
  /\ UNCHANGED <<jobVars, trace_ended, portVars, proc, todo, finding, faults>>

----------------------------------------------------------------------------
(* The churn coroutine *)

\* splay.msleep, then the coroutine yields.
ChurnSleeps ==
  /\ pc = "churn"
  /\ count < PerSecond
  /\ count' = count + 1
  /\ pc' = "server"
  /\ UNCHANGED <<jobVars, trace_ended, portVars, proc, co_churn, so_timeout, blocking,
                 first, todo, finding, faults>>

ChurnBegins ==
  /\ pc = "churn"
  /\ count = PerSecond
  /\ Churned # {}
  /\ BeginLoop("second", Churned)
  /\ UNCHANGED <<jobVars, trace_ended, portVars, proc, faults>>

\* Without jobs the coroutine ends.
ChurnDies ==
  /\ pc = "churn"
  /\ count = PerSecond
  /\ Churned = {}
  /\ co_churn' = "dead"
  /\ pc' = "server"
  /\ UNCHANGED <<jobVars, trace_ended, portVars, proc, count, so_timeout, blocking, first,
                 todo, finding, faults>>

ChurnEndsSecond ==
  /\ pc = "second"
  /\ todo = {}
  /\ count' = 1
  /\ pc' = "server"
  /\ UNCHANGED <<jobVars, trace_ended, portVars, proc, co_churn, so_timeout, blocking,
                 first, todo, finding, faults>>

\* The event of the timeline of j at its time, 0 if there is none.
EventOf(j) ==
  IF \E i \in DOMAIN Timeline[j] : Timeline[j][i] = elapsed[j]
    THEN CHOOSE i \in DOMAIN Timeline[j] : Timeline[j][i] = elapsed[j]
    ELSE 0

\* Seconds after the last event are not told apart.
NextSecond(j) ==
  IF elapsed[j] > Timeline[j][Len(Timeline[j])] THEN elapsed[j] ELSE elapsed[j] + 1

Ticks(j) == elapsed' = [elapsed EXCEPT ![j] = NextSecond(j)]

ChurnJob(j) ==
  /\ Reaches("second", j)
  /\ UNCHANGED trace_ended
  /\ LET i == EventOf(j)
     IN \/ i = 0 /\ Ticks(j)
             /\ UNCHANGED <<registered, status, port, pid, listed, fresh, portVars, proc,
                            faults>>
        \/ i % 2 = 1 /\ Ticks(j)
             /\ \E p \in Pid : StartJob(j, p)
             /\ UNCHANGED faults
        \/ i # 0 /\ i % 2 = 0 /\ i # Len(Timeline[j]) /\ Ticks(j)
             /\ StopJob(j)
        \/ i # 0 /\ i % 2 = 0 /\ i = Len(Timeline[j])
             /\ FreeJobs({j})
             /\ UNCHANGED faults

----------------------------------------------------------------------------
(* What happens to splayd *)

\* The process of a job ends; nobody waits for it yet.
ProcessEnds(p) ==
  /\ proc[p] = "alive"
  /\ proc' = [proc EXCEPT ![p] = "ended"]
  /\ UNCHANGED <<jobVars, trace_ended, portVars, loopVars, faults>>

\* An error in server_loop: the answer cannot be sent, or TRACE_END is for an
\* unknown job (the action before is then what the handler did, and its turn of the
\* churn).  run connects again; the controller restores the session, or not.
LinkBreaks ==
  /\ pc = "server"
  /\ Fault
  /\ FreeJobs({}) \/ FreeJobs(registered)
  /\ blocking' = TRUE /\ first' = TRUE
  /\ UNCHANGED <<trace_ended, co_churn, count, so_timeout, pc, todo, finding>>

\* A new splayd.  The processes of the jobs are not its children any more.
Restarted ==
  /\ registered' = {} /\ listed' = {} /\ fresh' = {} /\ trace_ended' = {}
  /\ status' = [j \in Job |-> "waiting"]
  /\ port' = [j \in Job |-> 0]
  /\ pid' = [j \in Job |-> 0]
  /\ tcp' = {} /\ udp' = {}
  /\ proc' = [p \in Pid |-> "none"]
  /\ elapsed' = [j \in Job |-> NotChurned]
  /\ co_churn' = "none" /\ count' = PerSecond
  /\ so_timeout' = FALSE /\ blocking' = TRUE /\ first' = TRUE
  /\ pc' = "server" /\ todo' = {} /\ finding' = NotFinding
  /\ UNCHANGED faults

\* KILL, or a fork that fails.
Exits == pc \in {"server", "second"} /\ Restarted

\* HALT without jobs.
Halts == pc = "halt" /\ todo = {} /\ registered = {} /\ Restarted

Register(j) ==
  \/ RegisterRefused(j)
  \/ \E libs \in BOOLEAN : RegisterNoPorts(j, libs)
  \/ \E r \in RandomStart : RegisterPorts(j, r)

FindPorts ==
  \/ \E k \in Job : SkipJob(k)
  \/ \E libs \in BOOLEAN : TakePorts(libs)
  \/ \E p \in StartPort..EndPort : SkipPort(p)
  \/ EndOfRange

Start(j) ==
  \/ StartRefused(j)
  \/ \E p \in Pid : StartNow(j, p)
  \/ StartChurn(j)

StopOrRestart(j) ==
  \/ StopRefused(j)
  \/ StopNow(j)
  \/ \E p \in Pid : Restart(j, p)

FreeEndedJobs ==
  \/ \E at \in {"status", "halt"} : EndCheck(at) \/ \E j \in Job : CheckJob(at, j)
  \/ Halts

Churn ==
  \/ ChurnSleeps
  \/ ChurnBegins
  \/ ChurnDies
  \/ ChurnEndsSecond
  \/ \E j \in Job : ChurnJob(j)

Next ==
  \/ Ping \/ LocalLog \/ Idle \/ Reset
  \/ \E j \in Job :
       Register(j) \/ Free(j) \/ List(j) \/ Start(j) \/ StopOrRestart(j) \/ TraceEnd(j)
  \/ FindPorts
  \/ CheckJobs("status") \/ CheckJobs("halt") \/ FreeEndedJobs
  \/ Churn
  \/ \E p \in Pid : ProcessEnds(p)
  \/ LinkBreaks
  \/ Exits

Spec == Init /\ [][Next]_vars

\* The controller sends PING when it has nothing else to send; splayd does not
\* stop in the middle of a loop.
FairSpec ==
  /\ Spec
  /\ WF_vars(Ping \/ Idle)
  /\ WF_vars(FindPorts)
  /\ WF_vars(FreeEndedJobs)
  /\ WF_vars(Churn)

----------------------------------------------------------------------------
(* Properties *)

TypeOK ==
  /\ registered \in SUBSET Job
  /\ status \in [Job -> {"waiting", "running"}]
  /\ port \in [Job -> 0..EndPort]
  /\ pid \in [Job -> Pid \cup {0}]
  /\ listed \in SUBSET Job
  /\ fresh \in SUBSET Job
  /\ trace_ended \in SUBSET Job
  /\ tcp \in SUBSET (StartPort..EndPort)
  /\ udp \in SUBSET (StartPort..EndPort)
  /\ proc \in [Pid -> {"none", "alive", "ended"}]
  /\ elapsed \in [Job -> Nat \cup {NotChurned}]
  /\ co_churn \in {"none", "suspended", "dead"}
  /\ count \in 0..PerSecond
  /\ so_timeout \in BOOLEAN
  /\ blocking \in BOOLEAN
  /\ first \in BOOLEAN
  /\ pc \in {"server", "churn", "register", "status", "halt", "second"}
  /\ todo \in SUBSET Job
  /\ finding \in [ref : Job \cup {NoJob}, nb : 0..MaxPorts, at : Nat, last : Nat, rest : Nat]
  /\ faults \in 0..MaxFaults

\* Two registered jobs never have a port in common, whatever ports were found
\* taken, leaked or released meanwhile.
DisjointPorts ==
  \A j, k \in registered : j # k => Ports(j) \cap Ports(k) = {}

\* The ports of a job that runs are not bound by splayd, so that the job can bind
\* them.
RunningHasPorts ==
  \A j \in registered :
     status[j] = "running" => Ports(j) \cap (tcp \cup udp) = {}

\* A job keeps the ports it reserved until it starts, TCP and UDP (afterwards
\* they are reserved on best effort), whatever happens to other jobs.
KeepsPorts == \A j \in registered \cap fresh : Ports(j) \subseteq tcp \cap udp

\* Every child of splayd is the process of one registered job that runs: no
\* process is left to itself by a stop, a free, a restart or the churn.
NoLostProcess ==
  \A p \in Pid :
     proc[p] # "none" => \E j \in registered : status[j] = "running" /\ pid[j] = p

\* The events of its timeline a job has behind it.
Passed(j) == {i \in DOMAIN Timeline[j] : Timeline[j][i] < elapsed[j]}

\* A job with a timeline runs only between a start and a stop of it, although
\* the controller may stop it, restart it or start its clock again.
RunsOnTime ==
  \A j \in registered :
     Timeline[j] # <<>> /\ status[j] = "running" => Cardinality(Passed(j)) % 2 = 1

\* A job reaches the end of its timeline and is freed, unless START sets its
\* clock back for ever.
ChurnEnds ==
  \A j \in Job :
     \/ []<><<StartChurn(j)>>_vars
     \/ (elapsed[j] # NotChurned ~> elapsed[j] = NotChurned)

=============================================================================
