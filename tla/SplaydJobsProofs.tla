-------------------------- MODULE SplaydJobsProofs --------------------------
(***************************************************************************)
(* The jobs of one daemon, for any number of jobs, ports, processes and    *)
(* events.  Most actions of splayd leave the jobs alone; the others do one *)
(* of ten things to them (Effects), and each invariant is proved over      *)
(* these ten.                                                              *)
(***************************************************************************)
EXTENDS SplaydJobs, FiniteSetTheorems, TLAPS

----------------------------------------------------------------------------
(* What the actions do to the jobs *)

jobsVars == <<registered, status, port, pid, fresh, elapsed, tcp, udp, proc>>

Quiet == UNCHANGED jobsVars
Ends == \E p \in Pid : ProcessEnds(p)
Registers ==
  \E libs \in BOOLEAN : TakePorts(libs) \/ \E j \in Job : RegisterNoPorts(j, libs)
Skips == \E p \in StartPort..EndPort : SkipPort(p)
Frees == \E S \in SUBSET registered : FreeJobs(S)
Stops == \E j \in registered : StopJob(j) /\ UNCHANGED elapsed
Starts ==
  \E j \in registered, p \in Pid :
     /\ status[j] = "waiting"
     /\ Timeline[j] = <<>>
     /\ StartJob(j, p)
     /\ UNCHANGED elapsed
StartsChurn == \E j \in Job : StartChurn(j)
Restarts == \E j \in Job, p \in Pid : Restart(j, p)
Churns == \E j \in Job : ChurnJob(j)

LEMMA Effects ==
  ASSUME todo \subseteq registered, [Next]_vars
  PROVE  \/ Quiet \/ Ends \/ Registers \/ Skips \/ Frees \/ Stops \/ Starts
         \/ StartsChurn \/ Restarts \/ Churns \/ Restarted
  <1> DEFINE Goal == \/ Quiet \/ Ends \/ Registers \/ Skips \/ Frees \/ Stops \/ Starts
                     \/ StartsChurn \/ Restarts \/ Churns \/ Restarted
  <1>1. CASE UNCHANGED vars
    BY <1>1 DEF vars, Quiet, jobsVars
  <1>2. CASE Ping \/ LocalLog \/ Idle
    BY <1>2 DEF Ping, LocalLog, Idle, Quiet, jobsVars, jobVars, portVars
  <1>3. CASE Reset
    <2>1. registered \in SUBSET registered
      OBVIOUS
    <2> QED BY <1>3, <2>1 DEF Reset, Frees
  <1>4. ASSUME NEW j \in Job, Register(j) PROVE Goal
    <2>1. CASE RegisterRefused(j)
      BY <2>1 DEF RegisterRefused, Quiet, jobsVars, jobVars, portVars
    <2>2. ASSUME NEW libs \in BOOLEAN, RegisterNoPorts(j, libs) PROVE Registers
      BY <2>2 DEF Registers
    <2>3. ASSUME NEW r \in RandomStart, RegisterPorts(j, r) PROVE Quiet
      BY <2>3 DEF RegisterPorts, Quiet, jobsVars, jobVars, portVars
    <2> QED BY <1>4, <2>1, <2>2, <2>3 DEF Register
  <1>5. ASSUME NEW j \in Job, Free(j) PROVE Goal
    <2>1. {j} \in SUBSET registered
      BY <1>5 DEF Free
    <2> QED BY <1>5, <2>1 DEF Free, Frees
  <1>6. ASSUME NEW j \in Job, List(j) PROVE Goal
    BY <1>6 DEF List, Quiet, jobsVars, portVars
  <1>7. ASSUME NEW j \in Job, Start(j) PROVE Goal
    <2>1. CASE StartRefused(j)
      BY <2>1 DEF StartRefused, Quiet, jobsVars, jobVars, portVars
    <2>2. ASSUME NEW p \in Pid, StartNow(j, p) PROVE Starts
      BY <2>2 DEF StartNow, Starts
    <2>3. CASE StartChurn(j)
      BY <2>3 DEF StartsChurn
    <2> QED BY <1>7, <2>1, <2>2, <2>3 DEF Start
  <1>8. ASSUME NEW j \in Job, StopOrRestart(j) PROVE Goal
    <2>1. CASE StopRefused(j)
      BY <2>1 DEF StopRefused, Quiet, jobsVars, jobVars, portVars
    <2>2. CASE StopNow(j)
      BY <2>2 DEF StopNow, Stops
    <2>3. ASSUME NEW p \in Pid, Restart(j, p) PROVE Restarts
      BY <2>3 DEF Restarts
    <2> QED BY <1>8, <2>1, <2>2, <2>3 DEF StopOrRestart
  <1>9. ASSUME NEW j \in Job, TraceEnd(j) PROVE Goal
    <2>1. {j} \in SUBSET registered
      BY <1>9 DEF TraceEnd
    <2>2. Frees \/ Quiet
      BY <1>9, <2>1 DEF TraceEnd, Frees, Quiet, jobsVars, jobVars, portVars
    <2> QED BY <2>2
  <1>10. CASE FindPorts
    <2>1. CASE EndOfRange \/ \E k \in Job : SkipJob(k)
      BY <2>1 DEF EndOfRange, SkipJob, SearchOn, Quiet, jobsVars, jobVars, portVars
    <2>2. CASE Registers \/ Skips
      BY <2>2
    <2> QED BY <1>10, <2>1, <2>2 DEF FindPorts, Registers, Skips
  <1>11. CASE CheckJobs("status") \/ CheckJobs("halt")
    BY <1>11 DEF CheckJobs, Quiet, jobsVars, jobVars, portVars
  <1>12. CASE FreeEndedJobs
    <2>1. ASSUME NEW at \in {"status", "halt"}, EndCheck(at) PROVE Quiet
      BY <2>1 DEF EndCheck, Quiet, jobsVars, jobVars, portVars
    <2>2. ASSUME NEW at \in {"status", "halt"}, NEW j \in Job, CheckJob(at, j) PROVE Goal
      <3>1. j \in registered /\ {j} \in SUBSET registered
        BY <2>2 DEF CheckJob, Reaches
      <3>2. FreeJobs({j}) \/ (StopJob(j) /\ UNCHANGED elapsed) \/ Quiet
        BY <2>2 DEF CheckJob, Quiet, jobsVars, jobVars, portVars
      <3> QED BY <2>2, <3>1, <3>2 DEF Frees, Stops
    <2>3. CASE Halts
      BY <2>3 DEF Halts
    <2> QED BY <1>12, <2>1, <2>2, <2>3 DEF FreeEndedJobs
  <1>13. CASE Churn
    <2>1. CASE ChurnSleeps \/ ChurnBegins \/ ChurnDies \/ ChurnEndsSecond
      BY <2>1 DEF ChurnSleeps, ChurnBegins, ChurnDies, ChurnEndsSecond, Quiet, jobsVars,
                  jobVars, portVars
    <2> QED BY <1>13, <2>1 DEF Churn, Churns
  <1>14. CASE \E p \in Pid : ProcessEnds(p)
    BY <1>14 DEF Ends
  <1>15. CASE LinkBreaks
    <2>1. {} \in SUBSET registered /\ registered \in SUBSET registered
      OBVIOUS
    <2> QED BY <1>15, <2>1 DEF LinkBreaks, Frees
  <1>16. CASE Exits
    BY <1>16 DEF Exits
  <1> QED BY <1>1, <1>2, <1>3, <1>4, <1>5, <1>6, <1>7, <1>8, <1>9, <1>10, <1>11, <1>12,
             <1>13, <1>14, <1>15, <1>16 DEF Next

----------------------------------------------------------------------------
(* Types, and what a loop and a search rely on *)

JobsOK ==
  /\ registered \in SUBSET Job
  /\ status \in [Job -> {"waiting", "running"}]
  /\ port \in [Job -> 0..EndPort]
  /\ pid \in [Job -> Pid \cup {0}]
  /\ fresh \in SUBSET registered
  /\ elapsed \in [Job -> Nat \cup {NotChurned}]
  /\ tcp \in SUBSET (StartPort..EndPort)
  /\ udp \in SUBSET (StartPort..EndPort)
  /\ proc \in [Pid -> {"none", "alive", "ended"}]

\* A job that is not registered, or never started, has no process; a job has its
\* ports in the range of the settings; only a job with a timeline is churned.
Settled ==
  /\ \A j \in Job \ registered : status[j] = "waiting" /\ elapsed[j] = NotChurned
  /\ \A j \in fresh : status[j] = "waiting"
  /\ \A j \in registered :
       NbPorts[j] > 0 => port[j] >= StartPort /\ port[j] + NbPorts[j] - 1 <= EndPort
  /\ \A j \in Job : elapsed[j] # NotChurned => Timeline[j] # <<>>

\* Where splayd is in a loop, and in a search.
Loops ==
  /\ todo \in SUBSET registered
  /\ pc \in {"server", "churn", "register"} => todo = {}
  /\ pc = "second" => todo \subseteq Churned
Searches ==
  pc = "register" =>
    /\ finding.ref \in Job \ registered
    /\ finding.nb = NbPorts[finding.ref] /\ finding.nb > 0
    /\ finding.at >= StartPort
    /\ finding.last <= EndPort /\ finding.rest <= EndPort

FindingOK ==
  finding \in [ref : Job \cup {NoJob}, nb : 0..MaxPorts, at : Nat, last : Nat, rest : Nat]

LEMMA PortFacts ==
  /\ StartPort \in Nat /\ StartPort > 0 /\ EndPort \in Nat
  /\ MaxPorts \in Nat /\ NbPorts \in [Job -> 0..MaxPorts]
  /\ \A j \in Job : NbPorts[j] \in Nat /\ NbPorts[j] <= MaxPorts
  BY PortAssumption

LEMMA PortsInRange ==
  ASSUME JobsOK, Settled, NEW j \in registered
  PROVE  Ports(j) \subseteq StartPort..EndPort
  <1>1. j \in Job /\ port[j] \in Nat /\ NbPorts[j] \in Nat
    BY PortFacts DEF JobsOK
  <1>2. CASE NbPorts[j] = 0
    <2>1. \A q \in Ports(j) : q >= port[j] /\ q <= port[j] - 1
      BY <1>1, <1>2 DEF Ports
    <2> QED BY <1>1, <2>1 DEF Ports
  <1>3. CASE NbPorts[j] > 0
    BY <1>1, <1>3, PortFacts DEF Settled, Ports
  <1> QED BY <1>1, <1>2, <1>3

\* A reservation that fails binds no port outside the range it was asked for.
LEMMA FailedReservation ==
  ASSUME NEW min \in Int, NEW max \in Int, NEW p \in min..max, ReserveFails(min, max, p)
  PROVE  /\ tcp \subseteq tcp' /\ tcp' \subseteq tcp \cup (min..max)
         /\ udp' \subseteq udp /\ udp \subseteq udp' \cup (min..max)
  BY DEF ReserveFails, StopsAtTcp, StopsAtUdp

LEMMA ReservedAgain ==
  ASSUME JobsOK, NEW j \in registered, ReserveAgain(j)
  PROVE  /\ tcp \subseteq tcp' /\ tcp' \subseteq tcp \cup Ports(j)
         /\ udp' \subseteq udp \cup Ports(j) /\ udp \subseteq udp' \cup Ports(j)
  <1> DEFINE max == port[j] + NbPorts[j] - 1
  <1>0. j \in Job /\ port[j] \in Int /\ max \in Int /\ Ports(j) = port[j]..max
    BY PortFacts DEF JobsOK, Ports
  <1> HIDE DEF max
  <1>1. CASE NbPorts[j] = 0
    BY <1>1 DEF ReserveAgain, portVars
  <1>2. CASE Reserve(port[j], max)
    BY <1>0, <1>2 DEF Reserve
  <1>3. ASSUME NEW p \in Ports(j), ReserveFails(port[j], max, p)
        PROVE  /\ tcp \subseteq tcp' /\ tcp' \subseteq tcp \cup Ports(j)
               /\ udp' \subseteq udp \cup Ports(j) /\ udp \subseteq udp' \cup Ports(j)
    BY <1>0, <1>3, FailedReservation
  <1>4. NbPorts[j] = 0 \/ NbPorts[j] > 0
    BY <1>0, PortFacts
  <1> QED BY <1>1, <1>2, <1>3, <1>4 DEF ReserveAgain, max

LEMMA KilledType ==
  ASSUME JobsOK, NEW S, Killed(S)
  PROVE  proc' \in [Pid -> {"none", "alive", "ended"}]
  BY DEF JobsOK, Killed

LEMMA FreesOK ==
  ASSUME JobsOK, Settled, Frees
  PROVE  JobsOK' /\ Settled'
  <1> PICK S \in SUBSET registered : FreeJobs(S)
    BY DEF Frees
  <1>1. JobsOK'
    <2>1. proc' \in [Pid -> {"none", "alive", "ended"}]
      BY KilledType DEF FreeJobs
    <2>2. tcp' \in SUBSET (StartPort..EndPort) /\ udp' \in SUBSET (StartPort..EndPort)
      BY DEF JobsOK, FreeJobs
    <2>3. port' \in [Job -> 0..EndPort] /\ pid' \in [Job -> Pid \cup {0}]
      BY PortFacts DEF JobsOK, FreeJobs
    <2>4. elapsed' \in [Job -> Nat \cup {NotChurned}]
      BY DEF JobsOK, FreeJobs
    <2>5. /\ registered' \in SUBSET Job
          /\ status' \in [Job -> {"waiting", "running"}]
          /\ fresh' \in SUBSET registered'
      BY DEF JobsOK, FreeJobs
    <2> QED BY <2>1, <2>2, <2>3, <2>4, <2>5 DEF JobsOK
  <1>2. Settled'
    BY DEF JobsOK, Settled, FreeJobs, NotChurned
  <1> QED BY <1>1, <1>2

LEMMA StopsOK ==
  ASSUME JobsOK, Settled, NEW j \in registered, StopJob(j),
         elapsed' \in [Job -> Nat \cup {NotChurned}],
         \A k \in Job : elapsed'[k] = NotChurned <=> elapsed[k] = NotChurned
  PROVE  JobsOK' /\ Settled'
  <1>1. JobsOK'
    <2>1. proc' \in [Pid -> {"none", "alive", "ended"}]
      BY KilledType DEF StopJob
    <2>2. tcp' \subseteq StartPort..EndPort /\ udp' \subseteq StartPort..EndPort
      BY PortsInRange, ReservedAgain DEF JobsOK, StopJob
    <2> QED BY <2>1, <2>2 DEF JobsOK, StopJob
  <1>2. Settled'
    BY DEF JobsOK, Settled, StopJob
  <1> QED BY <1>1, <1>2

LEMMA StartsOK ==
  ASSUME JobsOK, Settled, NEW j \in registered, NEW p \in Pid, StartJob(j, p),
         elapsed' \in [Job -> Nat \cup {NotChurned}],
         \A k \in Job : elapsed'[k] = NotChurned <=> elapsed[k] = NotChurned
  PROVE  JobsOK' /\ Settled'
  <1>1. JobsOK'
    BY DEF JobsOK, StartJob, Release
  <1>2. Settled'
    BY DEF JobsOK, Settled, StartJob
  <1> QED BY <1>1, <1>2

LEMMA TicksOK ==
  ASSUME JobsOK, Settled, NEW j \in registered, elapsed[j] # NotChurned, Ticks(j)
  PROVE  /\ elapsed' \in [Job -> Nat \cup {NotChurned}]
         /\ \A k \in Job : elapsed'[k] = NotChurned <=> elapsed[k] = NotChurned
  <1>1. j \in Job /\ elapsed[j] \in Nat
    BY DEF JobsOK
  <1>2. NextSecond(j) \in Nat
    BY <1>1 DEF NextSecond
  <1> QED BY <1>1, <1>2 DEF JobsOK, Ticks, NotChurned

LEMMA RegisteredOK ==
  ASSUME JobsOK, Settled, NEW j \in Job \ registered, NEW s \in 0..EndPort,
         NEW libs \in BOOLEAN, Registered(j, s, libs),
         NbPorts[j] > 0 => s >= StartPort /\ s + NbPorts[j] - 1 <= EndPort,
         tcp' \in SUBSET (StartPort..EndPort), udp' \in SUBSET (StartPort..EndPort)
  PROVE  JobsOK' /\ Settled'
  <1>1. JobsOK'
    BY DEF JobsOK, Registered
  <1>2. /\ status' = status /\ elapsed' = elapsed
        /\ registered \subseteq registered' /\ registered' \subseteq registered \cup {j}
        /\ fresh' \subseteq fresh \cup {j}
        /\ \A k \in registered : port'[k] = port[k]
        /\ j \in registered' => port'[j] = s
    BY DEF JobsOK, Registered
  <1>3. \A k \in registered' :
          NbPorts[k] > 0 => port'[k] >= StartPort /\ port'[k] + NbPorts[k] - 1 <= EndPort
    BY <1>2 DEF Settled
  <1> QED BY <1>1, <1>2, <1>3 DEF Settled

LEMMA Found ==
  ASSUME JobsOK, Searches, FindingOK, CanTry
  PROVE  /\ finding.ref \in Job \ registered /\ NbPorts[finding.ref] > 0
         /\ finding.nb = NbPorts[finding.ref]
         /\ finding.at \in 0..EndPort /\ finding.at >= StartPort
         /\ MaxPort \in Nat
         /\ MaxPort = finding.at + NbPorts[finding.ref] - 1 /\ MaxPort <= EndPort
         /\ finding.at..MaxPort \subseteq StartPort..EndPort
  <1>1. /\ finding.ref \in Job \ registered /\ NbPorts[finding.ref] > 0
        /\ finding.nb = NbPorts[finding.ref] /\ finding.at >= StartPort
        /\ MaxPort <= EndPort /\ finding.nb \in Nat
        /\ MaxPort = finding.at + finding.nb - 1
    <2>1. finding.last <= EndPort /\ MaxPort <= finding.last /\ pc = "register"
      BY DEF CanTry, Searches
    <2>2. finding.ref \in Job \ registered /\ finding.nb = NbPorts[finding.ref]
          /\ finding.nb > 0 /\ finding.at >= StartPort
      BY <2>1 DEF Searches
    <2>3. finding.nb \in Nat /\ MaxPort = finding.at + finding.nb - 1 /\ MaxPort \in Int
      BY <2>2, PortFacts DEF MaxPort, FindingOK
    <2>4. finding.last \in Nat
      BY DEF FindingOK
    <2> QED BY <2>1, <2>2, <2>3, <2>4, PortFacts
  <1>2. finding.at \in Nat
    BY DEF FindingOK
  <1> QED BY <1>1, <1>2, PortFacts

LEMMA RegistersOK ==
  ASSUME JobsOK, Settled, Searches, FindingOK, Registers
  PROVE  JobsOK' /\ Settled'
  <1>1. ASSUME NEW libs \in BOOLEAN, TakePorts(libs) PROVE JobsOK' /\ Settled'
    <2>1. CanTry /\ Registered(finding.ref, finding.at, libs)
      BY <1>1 DEF TakePorts
    <2>2. tcp' \in SUBSET (StartPort..EndPort) /\ udp' \in SUBSET (StartPort..EndPort)
      <3> DEFINE R == finding.at..MaxPort
      <3>1. R \subseteq StartPort..EndPort
        BY <2>1, Found
      <3>2. tcp' = tcp \cup R /\ udp' = udp \cup R
        BY <1>1 DEF TakePorts, Reserve
      <3> HIDE DEF R
      <3> QED BY <3>1, <3>2 DEF JobsOK
    <2>3. finding.at + NbPorts[finding.ref] - 1 <= EndPort
      BY <2>1, Found
    <2> QED BY <2>1, <2>2, <2>3, Found, RegisteredOK
  <1>2. ASSUME NEW libs \in BOOLEAN, NEW j \in Job, RegisterNoPorts(j, libs)
        PROVE  JobsOK' /\ Settled'
    <2>1. j \in Job \ registered /\ Registered(j, 0, libs) /\ NbPorts[j] = 0
      BY <1>2 DEF RegisterNoPorts, Refused
    <2>2. tcp' \in SUBSET (StartPort..EndPort) /\ udp' \in SUBSET (StartPort..EndPort)
      BY <1>2 DEF RegisterNoPorts, portVars, JobsOK
    <2> QED BY <2>1, <2>2, RegisteredOK, PortFacts
  <1> QED BY <1>1, <1>2 DEF Registers

LEMMA SkipsOK ==
  ASSUME JobsOK, Settled, Searches, FindingOK, Skips
  PROVE  JobsOK' /\ Settled'
  <1> PICK p \in StartPort..EndPort : SkipPort(p)
    BY DEF Skips
  <1>1. CanTry /\ p \in finding.at..MaxPort /\ ReserveFails(finding.at, MaxPort, p)
    BY DEF SkipPort
  <1>2. tcp' \in SUBSET (StartPort..EndPort) /\ udp' \in SUBSET (StartPort..EndPort)
    <2> DEFINE R == finding.at..MaxPort
    <2>1. finding.at \in Int /\ MaxPort \in Int /\ R \subseteq StartPort..EndPort
      BY <1>1, Found
    <2>2. tcp' \subseteq tcp \cup R /\ udp' \subseteq udp
      BY <1>1, <2>1, FailedReservation
    <2> HIDE DEF R
    <2> QED BY <2>1, <2>2 DEF JobsOK
  <1>3. UNCHANGED <<registered, status, port, pid, fresh, elapsed, proc>>
    BY DEF SkipPort, SearchOn, jobVars
  <1> QED BY <1>2, <1>3 DEF JobsOK, Settled

LEMMA ChurnsOK ==
  ASSUME JobsOK, Settled, Loops, Churns
  PROVE  JobsOK' /\ Settled'
  <1> PICK j \in Job : ChurnJob(j)
    BY DEF Churns
  <1>1. j \in registered /\ elapsed[j] # NotChurned
    BY DEF ChurnJob, Reaches, Loops, Churned
  <1>2. CASE Ticks(j) /\ UNCHANGED <<registered, status, port, pid, fresh, portVars, proc>>
    BY <1>1, <1>2, TicksOK DEF JobsOK, Settled, portVars
  <1>3. ASSUME Ticks(j), NEW p \in Pid, StartJob(j, p) PROVE JobsOK' /\ Settled'
    BY <1>1, <1>3, TicksOK, StartsOK
  <1>4. CASE Ticks(j) /\ StopJob(j)
    BY <1>1, <1>4, TicksOK, StopsOK
  <1>5. CASE FreeJobs({j})
    <2>1. {j} \in SUBSET registered
      BY <1>1
    <2> QED BY <1>5, <2>1, FreesOK DEF Frees
  <1> QED BY <1>2, <1>3, <1>4, <1>5 DEF ChurnJob

LEMMA JobsStep ==
  ASSUME JobsOK, Settled, Loops, Searches, FindingOK, [Next]_vars
  PROVE  JobsOK' /\ Settled'
  <1>1. CASE Quiet
    BY <1>1 DEF Quiet, jobsVars, JobsOK, Settled
  <1>2. CASE Ends
    BY <1>2 DEF Ends, ProcessEnds, jobVars, portVars, JobsOK, Settled
  <1>3. ASSUME NEW j \in registered, StopJob(j), UNCHANGED elapsed
        PROVE  JobsOK' /\ Settled'
    BY <1>3, StopsOK DEF JobsOK
  <1>4. ASSUME NEW j \in registered, NEW p \in Pid, StartJob(j, p), UNCHANGED elapsed
        PROVE  JobsOK' /\ Settled'
    BY <1>4, StartsOK DEF JobsOK
  <1>5. ASSUME NEW j \in Job, StartChurn(j) PROVE JobsOK' /\ Settled'
    <2>1. /\ j \in registered /\ Timeline[j] # <<>>
          /\ elapsed' = [elapsed EXCEPT ![j] = 0]
          /\ UNCHANGED <<registered, status, port, pid, fresh, tcp, udp, proc>>
      BY <1>5 DEF StartChurn, portVars
    <2> QED BY <2>1 DEF JobsOK, Settled
  <1>6. ASSUME NEW j \in Job, NEW p \in Pid, Restart(j, p) PROVE JobsOK' /\ Settled'
    <2>1. /\ proc' \in [Pid -> {"none", "alive", "ended"}]
          /\ pid' = [pid EXCEPT ![j] = p]
          /\ tcp' \subseteq tcp /\ udp' \subseteq udp
          /\ UNCHANGED <<registered, status, port, fresh, elapsed>>
      BY <1>6 DEF Restart, Release, JobsOK
    <2> QED BY <2>1 DEF JobsOK, Settled
  <1>7. CASE Restarted
    BY <1>7, PortFacts DEF Restarted, JobsOK, Settled
  <1> QED BY <1>1, <1>2, <1>3, <1>4, <1>5, <1>6, <1>7, Effects, FreesOK, RegistersOK,
             SkipsOK, ChurnsOK DEF Loops, Stops, Starts, StartsChurn, Restarts

----------------------------------------------------------------------------
(* The loops and the search *)

SocketOK ==
  /\ co_churn \in {"none", "suspended", "dead"}
  /\ count \in 0..PerSecond
  /\ so_timeout \in BOOLEAN
  /\ blocking \in BOOLEAN
  /\ first \in BOOLEAN
  /\ pc \in {"server", "churn", "register", "status", "halt", "second"}
OthersOK ==
  /\ listed \in SUBSET Job
  /\ trace_ended \in SUBSET Job
  /\ faults \in 0..MaxFaults

LEMMA TypeParts ==
  ASSUME JobsOK, Loops, SocketOK, OthersOK, FindingOK
  PROVE  TypeOK
  BY DEF TypeOK, JobsOK, Loops, SocketOK, OthersOK, FindingOK

Served == pc' \in {"server", "churn"}

LEMMA YieldsOK ==
  ASSUME SocketOK, NEW co \in {"none", "suspended", "dead"}, NEW timeout \in BOOLEAN,
         NEW blocks \in BOOLEAN, Yields(co, timeout, blocks)
  PROVE  so_timeout' \in BOOLEAN /\ blocking' \in BOOLEAN /\ first' \in BOOLEAN /\ Served
  BY DEF Yields, Served

LEMMA RestoredOK ==
  ASSUME SocketOK, Restored \/ NotRestored
  PROVE  SocketOK' /\ Served
  <1>1. /\ so_timeout \in BOOLEAN /\ TRUE \in BOOLEAN /\ (~so_timeout) \in BOOLEAN
        /\ co_churn \in {"none", "suspended", "dead"}
    BY DEF SocketOK
  <1>2. so_timeout' \in BOOLEAN /\ blocking' \in BOOLEAN /\ first' \in BOOLEAN /\ Served
    BY <1>1, YieldsOK DEF Restored, NotRestored
  <1>3. UNCHANGED <<co_churn, count>>
    BY DEF Restored, NotRestored
  <1> QED BY <1>2, <1>3 DEF SocketOK, Served

\* What every step of the loops and of the search has to show.
ControlOK == SocketOK' /\ OthersOK' /\ FindingOK' /\ Loops' /\ Searches'

\* A command that is answered.
LEMMA AnsweredOK ==
  ASSUME SocketOK, OthersOK', FindingOK', todo' = {}, Restored \/ NotRestored
  PROVE  ControlOK
  <1>1. SocketOK' /\ Served
    BY RestoredOK
  <1> QED BY <1>1 DEF ControlOK, Loops, Searches, Served

LEMMA FaultOK ==
  ASSUME OthersOK, Fault \/ UNCHANGED faults
  PROVE  faults' \in 0..MaxFaults
  BY BoundAssumption DEF OthersOK, Fault

LEMMA ReserveFaults ==
  ASSUME NEW j, StopJob(j)
  PROVE  Fault \/ UNCHANGED faults
  BY DEF StopJob, ReserveAgain, ReserveFails, StopsAtTcp, StopsAtUdp, Taken

LEMMA CommandsOK ==
  ASSUME JobsOK, SocketOK, OthersOK, FindingOK, Loops,
         Ping \/ LocalLog \/ Reset \/ \E j \in Job : Free(j) \/ List(j) \/ TraceEnd(j)
  PROVE  ControlOK
  <1>1. /\ pc = "server" /\ UNCHANGED <<todo, finding, faults>>
        /\ Restored \/ NotRestored
    BY DEF Ping, LocalLog, Reset, Free, List, TraceEnd
  <1>2. listed' \in SUBSET Job /\ trace_ended' \in SUBSET Job
    BY DEF Ping, LocalLog, Reset, Free, List, TraceEnd, FreeJobs, jobVars, OthersOK, JobsOK
  <1>3. todo' = {}
    BY <1>1 DEF Loops
  <1> QED BY <1>1, <1>2, <1>3, AnsweredOK DEF OthersOK, FindingOK

LEMMA IdleOK ==
  ASSUME SocketOK, OthersOK, FindingOK, Loops, Idle
  PROVE  ControlOK
  <1>1. SocketOK' /\ Served
    <2>1. so_timeout' \in BOOLEAN /\ blocking' \in BOOLEAN /\ first' \in BOOLEAN /\ Served
      BY YieldsOK DEF Idle, SocketOK
    <2> QED BY <2>1 DEF Idle, SocketOK, Served
  <1>2. pc = "server" /\ UNCHANGED <<listed, trace_ended, faults, todo, finding>>
    BY DEF Idle, jobVars
  <1> QED BY <1>1, <1>2 DEF ControlOK, OthersOK, FindingOK, Loops, Searches, Served

LEMMA RegisterOK ==
  ASSUME JobsOK, SocketOK, OthersOK, FindingOK, Loops, NEW j \in Job, Register(j)
  PROVE  ControlOK
  <1>1. CASE RegisterRefused(j)
    <2>1. /\ pc = "server" /\ NotRestored
          /\ UNCHANGED <<listed, trace_ended, faults, todo, finding>>
      BY <1>1 DEF RegisterRefused, jobVars
    <2> QED BY <2>1, AnsweredOK DEF OthersOK, FindingOK, Loops
  <1>2. ASSUME NEW libs \in BOOLEAN, RegisterNoPorts(j, libs) PROVE ControlOK
    <2>1. /\ pc = "server" /\ (Restored \/ NotRestored)
          /\ UNCHANGED <<listed, trace_ended, todo, finding>>
          /\ Fault \/ UNCHANGED faults
      BY <1>2 DEF RegisterNoPorts, Registered
    <2>2. OthersOK'
      BY <2>1, FaultOK DEF OthersOK
    <2> QED BY <2>1, <2>2, AnsweredOK DEF FindingOK, Loops
  <1>3. ASSUME NEW r \in RandomStart, RegisterPorts(j, r) PROVE ControlOK
    <2>1. /\ pc = "server" /\ pc' = "register" /\ j \notin registered
          /\ UNCHANGED <<registered, elapsed, listed, trace_ended, todo, co_churn, count,
                         so_timeout, blocking, first, faults>>
          /\ finding' = [ref |-> j, nb |-> NbPorts[j], at |-> r, last |-> EndPort,
                         rest |-> r]
          /\ NbPorts[j] > 0
      BY <1>3 DEF RegisterPorts, Refused, jobVars
    <2>2. r \in Nat /\ r >= StartPort /\ r <= EndPort
      BY PortFacts, BoundAssumption
    <2>3. FindingOK'
      BY <2>1, <2>2, PortFacts DEF FindingOK
    <2>4. Searches'
      BY <2>1, <2>2, PortFacts DEF Searches
    <2>5. SocketOK' /\ OthersOK' /\ Loops'
      BY <2>1 DEF SocketOK, OthersOK, Loops
    <2> QED BY <2>3, <2>4, <2>5 DEF ControlOK
  <1> QED BY <1>1, <1>2, <1>3 DEF Register

LEMMA StartsControlOK ==
  ASSUME JobsOK, SocketOK, OthersOK, FindingOK, Loops, NEW j \in Job,
         Start(j) \/ StopOrRestart(j)
  PROVE  ControlOK
  <1>1. CASE StartChurn(j)
    <2>1. UNCHANGED <<listed, trace_ended, faults, todo, finding>> /\ pc = "server"
      BY <1>1 DEF StartChurn
    <2>2. CASE Restored
      BY <2>1, <2>2, AnsweredOK DEF OthersOK, FindingOK, Loops
    <2>3. CASE Yields("suspended", TRUE, FALSE) /\ co_churn' = "suspended"
               /\ count' = PerSecond
      <3>1. so_timeout' \in BOOLEAN /\ blocking' \in BOOLEAN /\ first' \in BOOLEAN /\ Served
        BY <2>3, YieldsOK
      <3>2. SocketOK'
        BY <2>3, <3>1, BoundAssumption DEF SocketOK, Served
      <3> QED BY <2>1, <3>1, <3>2
              DEF ControlOK, OthersOK, FindingOK, Loops, Searches, Served
    <2> QED BY <1>1, <2>2, <2>3 DEF StartChurn
  <1>2. ASSUME StartRefused(j) \/ StopRefused(j) \/ StopNow(j)
               \/ \E p \in Pid : StartNow(j, p) \/ Restart(j, p)
        PROVE  ControlOK
    <2>1. /\ pc = "server" /\ (Restored \/ NotRestored)
          /\ UNCHANGED <<listed, trace_ended, todo, finding>>
          /\ Fault \/ UNCHANGED faults
      BY <1>2, ReserveFaults DEF StartRefused, StopRefused, StopNow, StartNow, Restart,
                                 StopJob, StartJob, jobVars
    <2>2. OthersOK'
      BY <2>1, FaultOK DEF OthersOK
    <2> QED BY <2>1, <2>2, AnsweredOK DEF FindingOK, Loops
  <1> QED BY <1>1, <1>2 DEF Start, StopOrRestart

LEMMA SearchOnOK ==
  ASSUME JobsOK, Settled, SocketOK, OthersOK, FindingOK, Loops, Searches,
         pc = "register", NEW p \in Nat, p >= StartPort, SearchOn(p),
         Fault \/ UNCHANGED faults
  PROVE  ControlOK
  <1>1. /\ UNCHANGED <<registered, elapsed, listed, trace_ended, co_churn, count, so_timeout,
                       blocking, first, pc, todo>>
        /\ finding' = [ref |-> finding.ref, nb |-> finding.nb, at |-> p,
                       last |-> finding.last, rest |-> finding.rest]
    BY DEF SearchOn, jobVars
  <1>2. FindingOK'
    BY <1>1 DEF FindingOK
  <1>3. Searches'
    BY <1>1 DEF Searches
  <1>4. SocketOK' /\ Loops'
    BY <1>1 DEF SocketOK, Loops, Churned
  <1>5. OthersOK'
    BY <1>1, FaultOK DEF OthersOK
  <1> QED BY <1>2, <1>3, <1>4, <1>5 DEF ControlOK

LEMMA FindPortsOK ==
  ASSUME JobsOK, Settled, SocketOK, OthersOK, FindingOK, Loops, Searches, FindPorts
  PROVE  ControlOK
  <1>1. ASSUME NEW k \in Job, SkipJob(k) PROVE ControlOK
    <2>1. /\ pc = "register" /\ k \in registered /\ NbPorts[k] > 0
          /\ SearchOn(port[k] + NbPorts[k]) /\ UNCHANGED faults
      BY <1>1 DEF SkipJob, Overlaps
    <2>2. port[k] + NbPorts[k] \in Nat /\ port[k] + NbPorts[k] >= StartPort
      BY <2>1, PortFacts DEF JobsOK, Settled
    <2> QED BY <2>1, <2>2, SearchOnOK
  <1>2. ASSUME NEW libs \in BOOLEAN, TakePorts(libs) PROVE ControlOK
    <2>1. /\ pc = "register" /\ (Restored \/ NotRestored) /\ finding' = NotFinding
          /\ UNCHANGED <<listed, trace_ended, todo>> /\ (Fault \/ UNCHANGED faults)
      BY <1>2 DEF TakePorts, CanTry, Registered
    <2>2. FindingOK' /\ todo' = {}
      BY <2>1, PortFacts DEF NotFinding, FindingOK, Loops
    <2>3. OthersOK'
      BY <2>1, FaultOK DEF OthersOK
    <2> QED BY <2>1, <2>2, <2>3, AnsweredOK
  <1>3. ASSUME NEW p \in StartPort..EndPort, SkipPort(p) PROVE ControlOK
    <2>1. pc = "register" /\ SearchOn(p + 1) /\ (Fault \/ UNCHANGED faults)
      BY <1>3 DEF SkipPort, CanTry, ReserveFails, StopsAtTcp, StopsAtUdp, Taken
    <2>2. p + 1 \in Nat /\ p + 1 >= StartPort
      BY PortFacts
    <2> QED BY <2>1, <2>2, SearchOnOK
  <1>4. CASE EndOfRange
    <2>1. pc = "register" /\ UNCHANGED <<registered, elapsed, listed, trace_ended, todo, faults>>
      BY <1>4 DEF EndOfRange, jobVars
    <2>2. CASE finding.rest > 0
      <3>1. /\ UNCHANGED <<co_churn, count, so_timeout, blocking, first, pc>>
            /\ finding' = [ref |-> finding.ref, nb |-> finding.nb, at |-> StartPort,
                           last |-> finding.rest - 1, rest |-> 0]
        BY <1>4, <2>2 DEF EndOfRange
      <3>2. finding.rest - 1 \in Nat /\ finding.rest - 1 <= EndPort /\ 0 <= EndPort
        BY <2>1, <2>2, PortFacts DEF FindingOK, Searches
      <3>3. FindingOK'
        BY <3>1, <3>2, PortFacts DEF FindingOK
      <3>4. Searches'
        BY <2>1, <3>1, <3>2, PortFacts DEF Searches
      <3>5. SocketOK' /\ OthersOK' /\ Loops'
        BY <2>1, <3>1 DEF SocketOK, OthersOK, Loops, Churned
      <3> QED BY <3>3, <3>4, <3>5 DEF ControlOK
    <2>3. CASE ~(finding.rest > 0)
      <3>1. finding' = NotFinding /\ NotRestored
        BY <1>4, <2>3 DEF EndOfRange
      <3>2. FindingOK' /\ todo' = {} /\ OthersOK'
        BY <2>1, <3>1, PortFacts DEF NotFinding, FindingOK, Loops, OthersOK
      <3> QED BY <3>1, <3>2, AnsweredOK
    <2> QED BY <2>2, <2>3
  <1> QED BY <1>1, <1>2, <1>3, <1>4 DEF FindPorts

LEMMA LoopsOK ==
  ASSUME JobsOK, Settled, SocketOK, OthersOK, FindingOK, Loops, Searches,
         CheckJobs("status") \/ CheckJobs("halt") \/ (FreeEndedJobs /\ ~Halts)
  PROVE  ControlOK
  <1>1. ASSUME NEW at \in {"status", "halt"}, CheckJobs(at) PROVE ControlOK
    BY <1>1 DEF CheckJobs, BeginLoop, jobVars, ControlOK, SocketOK, OthersOK, FindingOK,
                Loops, Searches
  <1>2. ASSUME NEW at \in {"status", "halt"}, EndCheck(at) PROVE ControlOK
    <2>1. /\ todo' = {} /\ (Restored \/ NotRestored)
          /\ UNCHANGED <<listed, trace_ended, finding, faults>>
      BY <1>2 DEF EndCheck, jobVars
    <2> QED BY <2>1, AnsweredOK DEF OthersOK, FindingOK
  <1>3. ASSUME NEW at \in {"status", "halt"}, NEW j \in Job, CheckJob(at, j) PROVE ControlOK
    <2>1. /\ pc = at /\ todo' = todo \ {j}
          /\ UNCHANGED <<co_churn, count, so_timeout, blocking, first, pc, finding, trace_ended>>
      BY <1>3 DEF CheckJob, Reaches
    <2>2. /\ registered' = registered \/ registered' = registered \ {j}
          /\ listed' \subseteq listed
          /\ Fault \/ UNCHANGED faults
      BY <1>3, ReserveFaults DEF CheckJob, FreeJobs, StopJob, jobVars
    <2>3. SocketOK' /\ FindingOK'
      BY <2>1 DEF SocketOK, FindingOK
    <2>4. OthersOK'
      BY <2>1, <2>2, FaultOK DEF OthersOK
    <2>5. Loops' /\ Searches'
      BY <2>1, <2>2 DEF Loops, Searches
    <2> QED BY <2>3, <2>4, <2>5 DEF ControlOK
  <1> QED BY <1>1, <1>2, <1>3 DEF FreeEndedJobs

LEMMA ChurnControlOK ==
  ASSUME JobsOK, Settled, SocketOK, OthersOK, FindingOK, Loops, Searches, Churn
  PROVE  ControlOK
  <1>1. CASE ChurnSleeps \/ ChurnDies \/ ChurnEndsSecond
    <2>1. /\ UNCHANGED <<listed, trace_ended, todo, finding, faults, so_timeout, blocking, first>>
          /\ todo = {} /\ pc' = "server"
      BY <1>1 DEF ChurnSleeps, ChurnDies, ChurnEndsSecond, jobVars, Loops
    <2>2. co_churn' \in {"none", "suspended", "dead"} /\ count' \in 0..PerSecond
      BY <1>1, BoundAssumption DEF ChurnSleeps, ChurnDies, ChurnEndsSecond, SocketOK
    <2> QED BY <2>1, <2>2 DEF ControlOK, SocketOK, OthersOK, FindingOK, Loops, Searches
  <1>2. CASE ChurnBegins
    BY <1>2 DEF ChurnBegins, BeginLoop, jobVars, ControlOK, SocketOK, OthersOK, FindingOK,
                Loops, Searches, Churned
  <1>3. ASSUME NEW j \in Job, ChurnJob(j) PROVE ControlOK
    <2>1. /\ pc = "second" /\ todo' = todo \ {j}
          /\ UNCHANGED <<co_churn, count, so_timeout, blocking, first, pc, finding, trace_ended>>
      BY <1>3 DEF ChurnJob, Reaches
    <2>2. /\ registered' = registered \/ registered' = registered \ {j}
          /\ listed' \subseteq listed
          /\ Fault \/ UNCHANGED faults
          /\ \A k \in Job \ {j} : elapsed'[k] = elapsed[k]
      <3>1. CASE FreeJobs({j}) /\ UNCHANGED faults
        BY <3>1 DEF FreeJobs
      <3>2. CASE Ticks(j) /\ StopJob(j)
        BY <3>2, ReserveFaults DEF Ticks, StopJob, JobsOK
      <3>3. CASE Ticks(j) /\ UNCHANGED <<registered, listed, faults>>
        BY <3>3 DEF Ticks, JobsOK
      <3> QED BY <1>3, <3>1, <3>2, <3>3 DEF ChurnJob, StartJob
    <2>3. SocketOK' /\ FindingOK'
      BY <2>1 DEF SocketOK, FindingOK
    <2>4. OthersOK'
      BY <2>1, <2>2, FaultOK DEF OthersOK
    <2>5. Loops' /\ Searches'
      BY <2>1, <2>2 DEF Loops, Searches, Churned, JobsOK
    <2> QED BY <2>3, <2>4, <2>5 DEF ControlOK
  <1> QED BY <1>1, <1>2, <1>3 DEF Churn

LEMMA ControlStep ==
  ASSUME JobsOK, Settled, SocketOK, OthersOK, FindingOK, Loops, Searches, [Next]_vars
  PROVE  ControlOK
  <1>1. CASE UNCHANGED vars
    BY <1>1 DEF vars, ControlOK, SocketOK, OthersOK, FindingOK, Loops, Searches, Churned
  <1>2. CASE Restarted
    <2>1. SocketOK' /\ OthersOK'
      <3>1. count' \in 0..PerSecond /\ faults' \in 0..MaxFaults
        BY <1>2, BoundAssumption DEF Restarted, OthersOK
      <3>2. so_timeout' \in BOOLEAN /\ blocking' \in BOOLEAN /\ first' \in BOOLEAN
        BY <1>2 DEF Restarted
      <3> QED BY <1>2, <3>1, <3>2 DEF Restarted, SocketOK, OthersOK
    <2>2. FindingOK' /\ Loops' /\ Searches'
      BY <1>2, PortFacts DEF Restarted, FindingOK, Loops, Searches, NotFinding
    <2> QED BY <2>1, <2>2 DEF ControlOK
  <1>3. ASSUME NEW p \in Pid, ProcessEnds(p) PROVE ControlOK
    BY <1>3 DEF ProcessEnds, jobVars, loopVars, ControlOK, SocketOK, OthersOK, FindingOK,
                Loops, Searches, Churned
  <1>4. CASE LinkBreaks
    <2>1. /\ todo = {} /\ pc' = "server" /\ blocking' = TRUE /\ first' = TRUE
          /\ UNCHANGED <<trace_ended, co_churn, count, so_timeout, todo, finding>>
          /\ listed' \subseteq listed
          /\ Fault
      BY <1>4 DEF LinkBreaks, FreeJobs, Loops
    <2>2. OthersOK'
      BY <2>1, FaultOK DEF OthersOK
    <2> QED BY <2>1, <2>2 DEF ControlOK, SocketOK, FindingOK, Loops, Searches
  <1>5. CASE FreeEndedJobs
    <2>1. Halts => Restarted
      BY DEF Halts
    <2> QED BY <1>2, <1>5, <2>1, LoopsOK
  <1>6. CASE Exits
    BY <1>2, <1>6 DEF Exits
  <1> QED BY <1>1, <1>3, <1>4, <1>5, <1>6, CommandsOK, IdleOK, RegisterOK,
             StartsControlOK, FindPortsOK, LoopsOK, ChurnControlOK DEF Next

TypeInv ==
  /\ JobsOK /\ Settled
  /\ SocketOK /\ OthersOK /\ FindingOK
  /\ Loops /\ Searches

LEMMA InitTypeInv ==
  ASSUME Init
  PROVE  TypeInv
  <1>1. JobsOK /\ Settled
    BY PortFacts DEF Init, JobsOK, Settled
  <1>2. SocketOK /\ OthersOK
    <2>1. count \in 0..PerSecond /\ faults \in 0..MaxFaults
      BY BoundAssumption DEF Init
    <2>2. so_timeout \in BOOLEAN /\ blocking \in BOOLEAN /\ first \in BOOLEAN
      BY DEF Init
    <2> QED BY <2>1, <2>2 DEF Init, SocketOK, OthersOK
  <1>3. FindingOK /\ Loops /\ Searches
    BY PortFacts DEF Init, FindingOK, Loops, Searches, NotFinding
  <1> QED BY <1>1, <1>2, <1>3 DEF TypeInv

LEMMA NextTypeInv ==
  ASSUME TypeInv, [Next]_vars
  PROVE  TypeInv'
  BY JobsStep, ControlStep DEF TypeInv, ControlOK

LEMMA AlwaysTypeInv == Spec => []TypeInv
  BY InitTypeInv, NextTypeInv, PTL DEF Spec

\* Every variable keeps its type: a port that splayd binds, or gives to a job, is in
\* the range of the settings (find_reserve_rand_ports).
THEOREM TypeCorrect == Spec => []TypeOK
  <1>1. TypeInv => TypeOK
    BY TypeParts DEF TypeInv
  <1> QED BY <1>1, AlwaysTypeInv, PTL

----------------------------------------------------------------------------
(* The ports of the jobs *)

PortInv == DisjointPorts /\ RunningHasPorts /\ KeepsPorts

\* A step that binds or releases ports of D only, when the jobs that still count
\* on theirs have none in D.
LEMMA OnlyPortsOf ==
  ASSUME PortInv, NEW D,
         registered' \subseteq registered,
         \A k \in registered' : port'[k] = port[k],
         tcp' \subseteq tcp \cup D, udp' \subseteq udp \cup D,
         tcp \subseteq tcp' \cup D, udp \subseteq udp' \cup D,
         \A k \in registered' \cap fresh' : k \in fresh /\ Ports(k) \cap D = {},
         \A k \in registered' : status'[k] = "running" =>
            \/ status[k] = "running" /\ Ports(k) \cap D = {}
            \/ Ports(k) \cap (tcp' \cup udp') = {}
  PROVE  PortInv'
  <1>1. \A k \in registered' : Ports(k)' = Ports(k) /\ k \in registered
    BY DEF Ports
  <1>2. DisjointPorts'
    BY <1>1 DEF PortInv, DisjointPorts
  <1>3. RunningHasPorts'
    <2>1. ASSUME NEW k \in registered', status'[k] = "running"
          PROVE  Ports(k) \cap (tcp' \cup udp') = {}
      BY <1>1, <2>1 DEF PortInv, RunningHasPorts
    <2> QED BY <1>1, <2>1 DEF RunningHasPorts
  <1>4. KeepsPorts'
    <2>1. ASSUME NEW k \in registered' \cap fresh' PROVE Ports(k) \subseteq tcp' \cap udp'
      BY <1>1, <2>1 DEF PortInv, KeepsPorts
    <2> QED BY <1>1, <2>1 DEF KeepsPorts
  <1> QED BY <1>2, <1>3, <1>4 DEF PortInv

\* Two ranges of ports without an overlap have no port in common.
LEMMA NoOverlap ==
  ASSUME JobsOK, NEW k \in registered, NEW s \in Nat, NEW n \in Nat, n > 0,
         ~Overlaps(k, s, n)
  PROVE  Ports(k) \cap (s..(s + n - 1)) = {}
  <1>1. port[k] \in Nat /\ NbPorts[k] \in Nat
    BY PortFacts DEF JobsOK
  <1>2. ASSUME NEW q \in Ports(k), q \in s..(s + n - 1) PROVE FALSE
    <2>1. q \in Int /\ port[k] <= q /\ q <= port[k] + NbPorts[k] - 1 /\ s <= q /\ q <= s + n - 1
      BY <1>1, <1>2 DEF Ports
    <2>2. NbPorts[k] > 0
      BY <1>1, <2>1
    <2>3. CASE port[k] <= s
      BY <1>1, <2>1, <2>2, <2>3 DEF Overlaps
    <2>4. CASE ~(port[k] <= s)
      BY <1>1, <2>1, <2>2, <2>4 DEF Overlaps
    <2> QED BY <2>3, <2>4
  <1> QED BY <1>2

\* A job that was never started has its ports: to reserve them again does nothing.
LEMMA ReservedAlready ==
  ASSUME JobsOK, NEW j \in registered, Ports(j) \subseteq tcp \cap udp, ReserveAgain(j)
  PROVE  tcp' = tcp /\ udp' = udp
  <1> DEFINE max == port[j] + NbPorts[j] - 1
  <1>1. port[j] \in Nat /\ NbPorts[j] \in Nat
    BY PortFacts DEF JobsOK
  <1>2. CASE NbPorts[j] = 0
    BY <1>2 DEF ReserveAgain, portVars
  <1>3. CASE NbPorts[j] > 0
    <2>1. port[j] \in port[j]..max /\ port[j] \in tcp /\ max \in Int /\ Ports(j) = port[j]..max
      <3>1. port[j] \in Ports(j)
        BY <1>1, <1>3 DEF Ports
      <3> QED BY <1>1, <1>3, <3>1 DEF Ports
    <2>2. ~Reserve(port[j], max)
      BY <2>1 DEF Reserve
    <2>3. ASSUME NEW p \in Ports(j), StopsAtTcp(port[j], max, p) PROVE tcp' = tcp /\ udp' = udp
      <3>1. p \in Int /\ p >= port[j]
        BY <1>1, <2>1
      <3>2. port[j] \notin port[j]..(p - 1)
        BY <2>1, <2>3 DEF StopsAtTcp
      <3>3. port[j]..(p - 1) = {}
        BY <1>1, <3>1, <3>2
      <3> QED BY <2>3, <3>3 DEF StopsAtTcp
    <2>4. ASSUME NEW p \in Ports(j), StopsAtUdp(port[j], max, p) PROVE FALSE
      BY <2>1, <2>4 DEF StopsAtUdp
    <2> QED BY <1>3, <2>2, <2>3, <2>4 DEF ReserveAgain, ReserveFails
  <1> QED BY <1>1, <1>2, <1>3

LEMMA StopKeepsPorts ==
  ASSUME JobsOK, PortInv, NEW j \in registered, StopJob(j)
  PROVE  PortInv'
  <1>1. /\ UNCHANGED <<registered, port, fresh>> /\ ReserveAgain(j)
        /\ \A k \in registered : status'[k] = "running" => k # j /\ status[k] = "running"
    BY DEF StopJob, JobsOK
  <1>2. \A k \in registered : k # j => Ports(k) \cap Ports(j) = {}
    BY DEF PortInv, DisjointPorts
  <1>3. CASE j \in fresh
    <2>1. tcp' = tcp /\ udp' = udp
      BY <1>1, <1>3, ReservedAlready DEF PortInv, KeepsPorts
    <2>2. tcp' \subseteq tcp \cup {} /\ udp' \subseteq udp \cup {}
      BY <2>1
    <2>3. tcp \subseteq tcp' \cup {} /\ udp \subseteq udp' \cup {}
      BY <2>1
    <2>4. \A k \in registered' : Ports(k) \cap {} = {}
      OBVIOUS
    <2>5. \A k \in registered' \cap fresh' : k \in fresh /\ Ports(k) \cap {} = {}
      BY <1>1
    <2>6. \A k \in registered' : status'[k] = "running" =>
            \/ status[k] = "running" /\ Ports(k) \cap {} = {}
            \/ Ports(k) \cap (tcp' \cup udp') = {}
      BY <1>1, <2>4
    <2>7. registered' \subseteq registered /\ \A k \in registered' : port'[k] = port[k]
      BY <1>1
    <2> HIDE <2>1
    <2> QED BY <2>2, <2>3, <2>5, <2>6, <2>7, OnlyPortsOf
  <1>4. CASE j \notin fresh
    <2>1. /\ tcp \subseteq tcp' /\ tcp' \subseteq tcp \cup Ports(j)
          /\ udp' \subseteq udp \cup Ports(j) /\ udp \subseteq udp' \cup Ports(j)
      BY <1>1, ReservedAgain
    <2> QED BY <1>1, <1>2, <1>4, <2>1, OnlyPortsOf
  <1> QED BY <1>3, <1>4

\* A start and a restart release the ports of a job that runs from then on.
LEMMA ReleaseKeepsPorts ==
  ASSUME JobsOK, PortInv, NEW j \in registered, Release(j),
         UNCHANGED <<registered, port>>, fresh' \subseteq fresh \ {j},
         \A k \in registered : k # j => status'[k] = status[k]
  PROVE  PortInv'
  <1>1. \A k \in registered : k # j => Ports(k) \cap Ports(j) = {}
    BY DEF PortInv, DisjointPorts
  <1>2. tcp' = tcp \ Ports(j) /\ udp' = udp \ Ports(j)
    BY DEF Release
  <1>3. Ports(j) \cap (tcp' \cup udp') = {}
    BY <1>2
  <1> HIDE DEF Release
  <1>4. \A k \in registered' \cap fresh' : k \in fresh /\ Ports(k) \cap Ports(j) = {}
    BY <1>1
  <1>5. \A k \in registered' : status'[k] = "running" =>
          \/ status[k] = "running" /\ Ports(k) \cap Ports(j) = {}
          \/ Ports(k) \cap (tcp' \cup udp') = {}
    BY <1>1, <1>3
  <1> QED BY <1>2, <1>4, <1>5, OnlyPortsOf

LEMMA FreeKeepsPorts ==
  ASSUME JobsOK, PortInv, Frees
  PROVE  PortInv'
  <1> PICK S \in SUBSET registered : FreeJobs(S)
    BY DEF Frees
  <1>1. /\ registered' = registered \ S /\ fresh' = fresh \ S
        /\ tcp' = tcp \ PortsOf(S) /\ udp' = udp \ PortsOf(S)
        /\ \A k \in registered' : port'[k] = port[k] /\ status'[k] = status[k]
    BY DEF FreeJobs, JobsOK
  <1>2. \A k \in registered' : Ports(k) \cap PortsOf(S) = {}
    <2>1. ASSUME NEW k \in registered', NEW q \in Ports(k), q \in PortsOf(S) PROVE FALSE
      <3>1. PICK j \in S : q \in Ports(j)
        BY <2>1 DEF PortsOf
      <3>2. j # k /\ j \in registered /\ k \in registered
        BY <1>1
      <3> QED BY <2>1, <3>1, <3>2 DEF PortInv, DisjointPorts
    <2> QED BY <2>1
  <1> QED BY <1>1, <1>2, OnlyPortsOf

LEMMA RegisteredKeepsPorts ==
  ASSUME JobsOK, Settled, PortInv, NEW j \in Job \ registered, NEW s \in Nat, NEW R,
         NEW libs \in BOOLEAN, Registered(j, s, libs),
         R = s..(s + NbPorts[j] - 1),
         tcp' = tcp \cup R, udp' = udp \cup R,
         \A k \in registered : Ports(k) \cap R = {}
  PROVE  PortInv'
  <1>1. /\ status' = status
        /\ registered' \subseteq registered \cup {j}
        /\ \A k \in registered : port'[k] = port[k]
        /\ j \in registered' => port'[j] = s
        /\ fresh' \subseteq fresh \cup {j}
    BY DEF JobsOK, Registered
  <1>2. \A k \in registered : Ports(k)' = Ports(k)
    BY <1>1 DEF Ports
  <1>3. j \in registered' => Ports(j)' = R
    BY <1>1 DEF Ports
  <1>4. status[j] = "waiting" /\ \A k \in registered : k # j
    BY DEF Settled
  <1>5. DisjointPorts'
    <2>1. ASSUME NEW k \in registered', NEW i \in registered', k # i
          PROVE  Ports(k)' \cap Ports(i)' = {}
      <3>1. CASE k \in registered /\ i \in registered
        BY <1>2, <2>1, <3>1 DEF PortInv, DisjointPorts
      <3>2. CASE k = j
        BY <1>1, <1>2, <1>3, <2>1, <3>2
      <3>3. CASE i = j
        BY <1>1, <1>2, <1>3, <2>1, <3>3
      <3> QED BY <1>1, <3>1, <3>2, <3>3
    <2> QED BY <2>1 DEF DisjointPorts
  <1>6. RunningHasPorts'
    <2>1. ASSUME NEW k \in registered', status'[k] = "running"
          PROVE  Ports(k)' \cap (tcp' \cup udp') = {}
      <3>1. k \in registered /\ status[k] = "running"
        BY <1>1, <1>4, <2>1
      <3>2. Ports(k) \cap (tcp \cup udp) = {} /\ Ports(k) \cap R = {}
        BY <3>1 DEF PortInv, RunningHasPorts
      <3> QED BY <1>2, <3>1, <3>2
    <2> QED BY <2>1 DEF RunningHasPorts
  <1>7. KeepsPorts'
    <2>1. ASSUME NEW k \in registered' \cap fresh' PROVE Ports(k)' \subseteq tcp' \cap udp'
      <3>1. CASE k = j
        BY <1>3, <3>1
      <3>2. CASE k # j
        <4>1. k \in registered \cap fresh
          BY <1>1, <3>2
        <4> QED BY <1>2, <4>1 DEF PortInv, KeepsPorts
      <3> QED BY <3>1, <3>2
    <2> QED BY <2>1 DEF KeepsPorts
  <1> QED BY <1>5, <1>6, <1>7 DEF PortInv

LEMMA RegisterKeepsPorts ==
  ASSUME JobsOK, Settled, Searches, FindingOK, PortInv, Registers
  PROVE  PortInv'
  <1>1. ASSUME NEW libs \in BOOLEAN, TakePorts(libs) PROVE PortInv'
    <2> DEFINE j == finding.ref
               s == finding.at
               R == s..MaxPort
    <2>1. CanTry /\ Registered(j, s, libs) /\ tcp' = tcp \cup R /\ udp' = udp \cup R
      BY <1>1 DEF TakePorts, Reserve
    <2>2. j \in Job \ registered /\ s \in Nat /\ R = s..(s + NbPorts[j] - 1)
      BY <2>1, Found
    <2>3. \A k \in registered : Ports(k) \cap R = {}
      BY <2>1, <2>2, Found, NoOverlap, PortFacts DEF CanTry
    <2> HIDE DEF j, s, R
    <2> QED BY <2>1, <2>2, <2>3, RegisteredKeepsPorts
  <1>2. ASSUME NEW libs \in BOOLEAN, NEW j \in Job, RegisterNoPorts(j, libs)
        PROVE  PortInv'
    <2>1. /\ j \in Job \ registered /\ Registered(j, 0, libs)
          /\ tcp' = tcp \cup {} /\ udp' = udp \cup {} /\ {} = 0..(0 + NbPorts[j] - 1)
      BY <1>2 DEF RegisterNoPorts, Refused, portVars
    <2>2. \A k \in registered : Ports(k) \cap {} = {}
      OBVIOUS
    <2> QED BY <2>1, <2>2, RegisteredKeepsPorts
  <1> QED BY <1>1, <1>2 DEF Registers

LEMMA SkipKeepsPorts ==
  ASSUME JobsOK, Settled, Searches, FindingOK, PortInv, Skips
  PROVE  PortInv'
  <1> PICK p \in StartPort..EndPort : SkipPort(p)
    BY DEF Skips
  <1> DEFINE R == finding.at..MaxPort
  <1>1. /\ CanTry /\ ReserveFails(finding.at, MaxPort, p) /\ p \in R
        /\ UNCHANGED <<registered, status, port, fresh>>
    BY DEF SkipPort, SearchOn, jobVars
  <1>2. finding.at \in Nat /\ MaxPort \in Nat
    BY <1>1, Found
  <1>3. /\ tcp' \subseteq tcp \cup R /\ udp' \subseteq udp \cup R
        /\ tcp \subseteq tcp' \cup R /\ udp \subseteq udp' \cup R
    BY <1>1, <1>2, FailedReservation
  <1>4. \A k \in registered : Ports(k) \cap R = {}
    BY <1>1, <1>2, Found, NoOverlap, PortFacts DEF CanTry
  <1> HIDE DEF R
  <1> QED BY <1>1, <1>3, <1>4, OnlyPortsOf

LEMMA PortStep ==
  ASSUME TypeInv, PortInv, [Next]_vars
  PROVE  PortInv'
  <1>0. JobsOK /\ Settled /\ Searches /\ FindingOK /\ Loops /\ todo \subseteq registered
    BY DEF TypeInv, Loops
  <1>1. CASE UNCHANGED <<registered, status, port, fresh, tcp, udp>>
    BY <1>1 DEF PortInv, DisjointPorts, RunningHasPorts, KeepsPorts, Ports
  <1>2. ASSUME NEW j \in registered, NEW p \in Pid, StartJob(j, p) PROVE PortInv'
    BY <1>0, <1>2, ReleaseKeepsPorts DEF StartJob, JobsOK
  <1>3. ASSUME NEW j \in Job, NEW p \in Pid, Restart(j, p) PROVE PortInv'
    <2>1. /\ j \in registered /\ Release(j) /\ UNCHANGED <<registered, port, status, fresh>>
          /\ j \notin fresh
      BY <1>0, <1>3 DEF Restart, Settled
    <2> QED BY <1>0, <2>1, ReleaseKeepsPorts
  <1>4. ASSUME NEW j \in Job, ChurnJob(j) PROVE PortInv'
    <2>1. j \in registered /\ {j} \in SUBSET registered
      BY <1>0, <1>4 DEF ChurnJob, Reaches
    <2>2. CASE FreeJobs({j})
      BY <1>0, <2>1, <2>2, FreeKeepsPorts DEF Frees
    <2>3. CASE StopJob(j)
      BY <1>0, <2>1, <2>3, StopKeepsPorts
    <2> QED BY <1>1, <1>2, <1>4, <2>1, <2>2, <2>3 DEF ChurnJob, portVars
  <1>5. CASE Quiet \/ Ends \/ StartsChurn
    BY <1>1, <1>5 DEF Quiet, jobsVars, Ends, ProcessEnds, jobVars, StartsChurn, StartChurn,
                      portVars
  <1>6. CASE Stops
    BY <1>0, <1>6, StopKeepsPorts DEF Stops
  <1>7. CASE Restarted
    BY <1>7 DEF Restarted, PortInv, DisjointPorts, RunningHasPorts, KeepsPorts
  <1> QED BY <1>0, <1>2, <1>3, <1>4, <1>5, <1>6, <1>7, Effects, FreeKeepsPorts,
             RegisterKeepsPorts, SkipKeepsPorts DEF Starts, Restarts, Churns

LEMMA AlwaysPortInv == Spec => []PortInv
  <1>1. Init => PortInv
    BY DEF Init, PortInv, DisjointPorts, RunningHasPorts, KeepsPorts
  <1> QED BY <1>1, AlwaysTypeInv, PortStep, PTL DEF Spec

\* find_reserve_rand_ports gives a job ports that no other job has, whatever ports
\* were found taken, leaked by a failed reservation or released before.
THEOREM PortsAreDisjoint == Spec => []DisjointPorts
  BY AlwaysPortInv, PTL DEF PortInv

\* splayd has bound none of the ports of a job that runs: start and restart
\* released them, and no stop, free or reservation of another job takes them.
THEOREM RunningJobsHavePorts == Spec => []RunningHasPorts
  BY AlwaysPortInv, PTL DEF PortInv

\* A job keeps the ports register reserved until start releases them.
THEOREM PortsAreKept == Spec => []KeepsPorts
  BY AlwaysPortInv, PTL DEF PortInv

----------------------------------------------------------------------------
(* The timelines *)

\* An event that is due now has exactly the events before it in the past.
LEMMA EventIsDue ==
  ASSUME JobsOK, NEW j \in Job, elapsed[j] \in Nat, EventOf(j) # 0
  PROVE  /\ EventOf(j) \in DOMAIN Timeline[j] /\ EventOf(j) \in Nat
         /\ Timeline[j][EventOf(j)] = elapsed[j]
         /\ Passed(j) = 1..(EventOf(j) - 1)
         /\ Cardinality(Passed(j)) = EventOf(j) - 1
         /\ {i \in DOMAIN Timeline[j] : Timeline[j][i] < elapsed[j] + 1} = 1..EventOf(j)
         /\ NextSecond(j) = elapsed[j] + 1
  <1> DEFINE e == EventOf(j)
             T == Timeline[j]
  <1>1. e \in DOMAIN T /\ T[e] = elapsed[j]
    BY DEF EventOf
  <1>2. /\ T \in Seq(Nat)
        /\ \A a, b \in DOMAIN T : a < b => T[a] < T[b]
    BY JobAssumption
  <1>3. /\ Len(T) \in Nat /\ DOMAIN T = 1..Len(T)
        /\ \A i \in DOMAIN T : T[i] \in Nat
    BY <1>2
  <1> HIDE DEF T, e
  <1>4. \A i \in DOMAIN T : T[i] < elapsed[j] <=> i < e
    <2>1. ASSUME NEW i \in DOMAIN T PROVE T[i] < elapsed[j] <=> i < e
      <3>1. i \in Int /\ e \in Int /\ T[i] \in Nat /\ T[e] \in Nat
        BY <1>1, <1>3
      <3>2. (i < e => T[i] < T[e]) /\ (e < i => T[e] < T[i])
        BY <1>1, <1>2
      <3>3. i = e => T[i] = T[e]
        OBVIOUS
      <3> QED BY <1>1, <3>1, <3>2, <3>3
    <2> QED BY <2>1
  <1>5. e \in Nat /\ e >= 1 /\ e <= Len(T)
    BY <1>1, <1>3
  <1>6. {i \in DOMAIN T : T[i] < elapsed[j]} = 1..(e - 1)
    BY <1>3, <1>4, <1>5
  <1>7. {i \in DOMAIN T : T[i] < elapsed[j] + 1} = 1..e
    <2>1. \A i \in DOMAIN T : T[i] < elapsed[j] + 1 <=> T[i] < elapsed[j] \/ T[i] = elapsed[j]
      BY <1>3
    <2>2. \A i \in DOMAIN T : T[i] = elapsed[j] <=> i = e
      <3>1. ASSUME NEW i \in DOMAIN T, T[i] = elapsed[j], i # e PROVE FALSE
        <4>1. i < e \/ e < i
          BY <1>3, <1>5, <3>1
        <4>2. T[i] < T[e] \/ T[e] < T[i]
          BY <1>1, <1>2, <4>1
        <4> QED BY <1>1, <1>3, <3>1, <4>2
      <3> QED BY <1>1, <3>1
    <2>3. \A i \in DOMAIN T : T[i] < elapsed[j] + 1 <=> i <= e
      BY <1>3, <1>4, <1>5, <2>1, <2>2
    <2> QED BY <1>3, <1>5, <2>3
  <1>8. Cardinality(1..(e - 1)) = e - 1
    BY <1>5, FS_Interval
  <1>9. NextSecond(j) = elapsed[j] + 1
    <2>1. ~(elapsed[j] > T[Len(T)])
      <3>1. Len(T) \in DOMAIN T
        BY <1>3, <1>5
      <3>2. ~(T[Len(T)] < elapsed[j])
        BY <1>3, <1>4, <1>5, <3>1
      <3> QED BY <1>3, <3>1, <3>2
    <2> QED BY <2>1 DEF NextSecond, T
  <1> QED BY <1>1, <1>5, <1>6, <1>7, <1>8, <1>9 DEF T, e, Passed

\* Between two events a second changes nothing.
LEMMA NoEventIsDue ==
  ASSUME JobsOK, NEW j \in Job, elapsed[j] \in Nat, EventOf(j) = 0
  PROVE  {i \in DOMAIN Timeline[j] : Timeline[j][i] < NextSecond(j)} = Passed(j)
  <1>1. Timeline[j] \in Seq(Nat)
    BY JobAssumption
  <1>2. DOMAIN Timeline[j] = 1..Len(Timeline[j])
        /\ \A i \in DOMAIN Timeline[j] : Timeline[j][i] \in Nat
    BY <1>1
  <1>3. \A i \in DOMAIN Timeline[j] : Timeline[j][i] # elapsed[j]
    <2>1. ASSUME NEW i \in DOMAIN Timeline[j], Timeline[j][i] = elapsed[j] PROVE FALSE
      <3>1. EventOf(j) \in DOMAIN Timeline[j]
        BY <2>1 DEF EventOf
      <3> QED BY <1>2, <3>1
    <2> QED BY <2>1
  <1>4. NextSecond(j) = elapsed[j] \/ NextSecond(j) = elapsed[j] + 1
    BY DEF NextSecond
  <1>5. \A i \in DOMAIN Timeline[j] :
          Timeline[j][i] < NextSecond(j) <=> Timeline[j][i] < elapsed[j]
    BY <1>2, <1>3, <1>4
  <1> QED BY <1>5 DEF Passed

LEMMA ChurnStartsWaiting ==
  ASSUME JobsOK, RunsOnTime, NEW j \in registered, elapsed[j] \in Nat,
         Timeline[j] # <<>>, EventOf(j) % 2 = 1
  PROVE  status[j] = "waiting"
  <1>1. j \in Job /\ EventOf(j) # 0
    BY DEF JobsOK
  <1>2. EventOf(j) \in Nat /\ Cardinality(Passed(j)) = EventOf(j) - 1
    BY <1>1, EventIsDue
  <1>3. (EventOf(j) - 1) % 2 # 1
    BY <1>2
  <1> QED BY <1>2, <1>3 DEF RunsOnTime, JobsOK

\* The churned job of a step that leaves the others alone.
LEMMA OthersRunOnTime ==
  ASSUME JobsOK, Settled, RunsOnTime, NEW j,
         registered' \subseteq registered,
         \A k \in registered' : k # j =>
            elapsed'[k] = elapsed[k] /\ (status'[k] = "running" => status[k] = "running"),
         j \in registered' /\ Timeline[j] # <<>> /\ status'[j] = "running" =>
            Cardinality({i \in DOMAIN Timeline[j] : Timeline[j][i] < elapsed'[j]}) % 2 = 1
  PROVE  RunsOnTime'
  <1>1. ASSUME NEW k \in registered', Timeline[k] # <<>>, status'[k] = "running"
        PROVE  Cardinality(Passed(k)') % 2 = 1
    <2>1. CASE k = j
      BY <1>1, <2>1 DEF Passed
    <2>2. CASE k # j
      <3>1. Passed(k)' = Passed(k) /\ status[k] = "running" /\ k \in registered
        BY <1>1, <2>2 DEF Passed
      <3> QED BY <1>1, <3>1 DEF RunsOnTime
    <2> QED BY <2>1, <2>2
  <1> QED BY <1>1 DEF RunsOnTime

LEMMA ChurnRunsOnTime ==
  ASSUME JobsOK, Settled, Loops, RunsOnTime, Churns
  PROVE  RunsOnTime'
  <1> PICK j \in Job : ChurnJob(j)
    BY DEF Churns
  <1>1. j \in registered /\ elapsed[j] \in Nat
    BY DEF ChurnJob, Reaches, Loops, Churned, JobsOK
  <1>2. ASSUME Ticks(j), EventOf(j) = 0, UNCHANGED <<registered, status>> PROVE RunsOnTime'
    <2>1. elapsed'[j] = NextSecond(j) /\ \A k \in Job \ {j} : elapsed'[k] = elapsed[k]
      BY <1>2 DEF Ticks, JobsOK
    <2>2. {i \in DOMAIN Timeline[j] : Timeline[j][i] < elapsed'[j]} = Passed(j)
      BY <1>1, <1>2, <2>1, NoEventIsDue
    <2>3. status[j] = "running" /\ Timeline[j] # <<>> => Cardinality(Passed(j)) % 2 = 1
      BY <1>1 DEF RunsOnTime
    <2>4. \A k \in registered : k # j => elapsed'[k] = elapsed[k]
      BY <2>1 DEF JobsOK
    <2> QED BY <1>2, <2>2, <2>3, <2>4, OthersRunOnTime
  <1>3. ASSUME Ticks(j), EventOf(j) % 2 = 1, NEW p \in Pid, StartJob(j, p) PROVE RunsOnTime'
    <2>1. EventOf(j) # 0
      BY <1>3
    <2>2. /\ EventOf(j) \in Nat /\ NextSecond(j) = elapsed[j] + 1
          /\ {i \in DOMAIN Timeline[j] : Timeline[j][i] < elapsed[j] + 1} = 1..EventOf(j)
      BY <1>1, <2>1, EventIsDue
    <2>3. Cardinality(1..EventOf(j)) = EventOf(j)
      BY <2>1, <2>2, FS_Interval
    <2>4. elapsed'[j] = elapsed[j] + 1
      BY <1>3, <2>2 DEF Ticks, JobsOK
    <2>5. /\ registered' = registered
          /\ \A k \in registered : k # j => elapsed'[k] = elapsed[k] /\ status'[k] = status[k]
      BY <1>3 DEF Ticks, StartJob, JobsOK
    <2> QED BY <1>3, <2>2, <2>3, <2>4, <2>5, OthersRunOnTime
  <1>4. CASE Ticks(j) /\ StopJob(j)
    <2>1. /\ registered' = registered /\ status'[j] = "waiting"
          /\ \A k \in registered : k # j => elapsed'[k] = elapsed[k] /\ status'[k] = status[k]
      BY <1>4 DEF Ticks, StopJob, JobsOK
    <2> QED BY <2>1, OthersRunOnTime
  <1>5. CASE FreeJobs({j})
    <2>1. /\ registered' = registered \ {j}
          /\ \A k \in registered' : elapsed'[k] = elapsed[k] /\ status'[k] = status[k]
      BY <1>5 DEF FreeJobs, JobsOK
    <2> QED BY <2>1, OthersRunOnTime
  <1> QED BY <1>2, <1>3, <1>4, <1>5 DEF ChurnJob

LEMMA TimeStep ==
  ASSUME TypeInv, RunsOnTime, [Next]_vars
  PROVE  RunsOnTime'
  <1>0. JobsOK /\ Settled /\ Loops /\ todo \subseteq registered
    BY DEF TypeInv, Loops
  <1>1. ASSUME UNCHANGED elapsed,
               \A k \in registered' : status'[k] = "running" =>
                  k \in registered /\ (status[k] = "running" \/ Timeline[k] = <<>>)
        PROVE  RunsOnTime'
    BY <1>0, <1>1 DEF RunsOnTime, Passed
  <1>2. CASE Quiet \/ Ends \/ Restarts \/ Skips
    <2>1. UNCHANGED <<registered, status, elapsed>>
      BY <1>2 DEF Quiet, jobsVars, Ends, ProcessEnds, jobVars, Restarts, Restart, Skips,
                  SkipPort, SearchOn
    <2> QED BY <1>1, <2>1
  <1>3. ASSUME NEW j \in Job, NEW s, NEW libs \in BOOLEAN, Registered(j, s, libs),
               j \notin registered
        PROVE  RunsOnTime'
    <2>1. UNCHANGED <<status, elapsed>> /\ registered' \subseteq registered \cup {j}
          /\ status[j] = "waiting"
      BY <1>0, <1>3 DEF Registered, Settled
    <2> QED BY <1>1, <2>1
  <1>4. CASE Registers
    <2>1. ASSUME NEW libs \in BOOLEAN, TakePorts(libs) PROVE RunsOnTime'
      <3>1. finding.ref \in Job \ registered /\ Registered(finding.ref, finding.at, libs)
        BY <2>1 DEF TakePorts, CanTry, TypeInv, Searches
      <3> QED BY <1>3, <3>1
    <2>2. ASSUME NEW libs \in BOOLEAN, NEW j \in Job, RegisterNoPorts(j, libs)
          PROVE  RunsOnTime'
      BY <1>3, <2>2 DEF RegisterNoPorts, Refused
    <2> QED BY <1>4, <2>1, <2>2 DEF Registers
  <1>5. CASE Frees
    <2> PICK S \in SUBSET registered : FreeJobs(S)
      BY <1>5 DEF Frees
    <2>1. \A k \in registered' :
             k \in registered /\ elapsed'[k] = elapsed[k] /\ status'[k] = status[k]
      BY <1>0 DEF FreeJobs, JobsOK
    <2> QED BY <2>1 DEF RunsOnTime, Passed
  <1>6. CASE Stops \/ Starts
    BY <1>0, <1>1, <1>6 DEF Stops, StopJob, Starts, StartJob, JobsOK
  <1>7. ASSUME NEW j \in Job, StartChurn(j) PROVE RunsOnTime'
    <2>1. /\ UNCHANGED <<registered, status>> /\ status[j] = "waiting"
          /\ \A k \in registered : k # j => elapsed'[k] = elapsed[k]
      BY <1>0, <1>7 DEF StartChurn, JobsOK
    <2>2. status'[j] # "running"
      BY <2>1
    <2> QED BY <1>0, <2>1, <2>2, OthersRunOnTime
  <1>8. CASE Churns
    BY <1>0, <1>8, ChurnRunsOnTime
  <1>9. CASE Restarted
    BY <1>9 DEF Restarted, RunsOnTime
  <1> QED BY <1>0, <1>2, <1>4, <1>5, <1>6, <1>7, <1>8, <1>9, Effects DEF StartsChurn

LEMMA AlwaysRunsOnTime == Spec => []RunsOnTime
  <1>1. Init => RunsOnTime
    BY DEF Init, RunsOnTime
  <1> QED BY <1>1, AlwaysTypeInv, TimeStep, PTL DEF Spec

\* The churn runs a job only between a start and a stop of its timeline, whatever
\* commands the controller sends meanwhile.
THEOREM JobsRunOnTime == Spec => []RunsOnTime
  BY AlwaysRunsOnTime

----------------------------------------------------------------------------
(* The processes *)

LEMMA KilledProcess ==
  ASSUME JobsOK, NoLostProcess, NEW S \in SUBSET registered, Killed(S),
         NEW p \in Pid, proc'[p] # "none"
  PROVE  \E k \in registered \ S : status[k] = "running" /\ pid[k] = p
  <1>1. proc[p] # "none" /\ ~\E j \in S : status[j] = "running" /\ pid[j] = p
    BY DEF Killed
  <1> QED BY <1>1 DEF NoLostProcess

\* A start of a job that does not run.
LEMMA StartLosesNoProcess ==
  ASSUME JobsOK, NoLostProcess, NEW j \in registered, status[j] = "waiting",
         NEW p \in Pid, StartJob(j, p)
  PROVE  NoLostProcess'
  <1>1. /\ registered' = registered
        /\ status'[j] = "running" /\ pid'[j] = p
        /\ \A k \in registered : k # j => status'[k] = status[k] /\ pid'[k] = pid[k]
        /\ \A q \in Pid : q # p => proc'[q] = proc[q]
    BY DEF StartJob, JobsOK
  <1>2. ASSUME NEW q \in Pid, proc'[q] # "none"
        PROVE  \E k \in registered' : status'[k] = "running" /\ pid'[k] = q
    <2>1. CASE q = p
      BY <1>1, <2>1
    <2>2. CASE q # p
      <3>1. PICK k \in registered : status[k] = "running" /\ pid[k] = q
        BY <1>1, <1>2, <2>2 DEF NoLostProcess
      <3> QED BY <1>1, <3>1
    <2> QED BY <2>1, <2>2
  <1> QED BY <1>2 DEF NoLostProcess

LEMMA StopLosesNoProcess ==
  ASSUME JobsOK, NoLostProcess, NEW j \in registered, StopJob(j)
  PROVE  NoLostProcess'
  <1>1. /\ registered' = registered /\ Killed({j}) /\ {j} \in SUBSET registered
        /\ \A k \in registered : k # j => status'[k] = status[k] /\ pid'[k] = pid[k]
    BY DEF StopJob, JobsOK
  <1>2. ASSUME NEW q \in Pid, proc'[q] # "none"
        PROVE  \E k \in registered' : status'[k] = "running" /\ pid'[k] = q
    <2>1. PICK k \in registered \ {j} : status[k] = "running" /\ pid[k] = q
      BY <1>1, <1>2, KilledProcess
    <2> QED BY <1>1, <2>1
  <1> QED BY <1>2 DEF NoLostProcess

LEMMA FreeLosesNoProcess ==
  ASSUME JobsOK, NoLostProcess, NEW S \in SUBSET registered, FreeJobs(S)
  PROVE  NoLostProcess'
  <1>1. /\ registered' = registered \ S /\ Killed(S)
        /\ \A k \in registered' : status'[k] = status[k] /\ pid'[k] = pid[k]
    BY DEF FreeJobs, JobsOK
  <1>2. ASSUME NEW q \in Pid, proc'[q] # "none"
        PROVE  \E k \in registered' : status'[k] = "running" /\ pid'[k] = q
    <2>1. PICK k \in registered \ S : status[k] = "running" /\ pid[k] = q
      BY <1>1, <1>2, KilledProcess
    <2> QED BY <1>1, <2>1
  <1> QED BY <1>2 DEF NoLostProcess

LEMMA ProcessStep ==
  ASSUME TypeInv, RunsOnTime, NoLostProcess, [Next]_vars
  PROVE  NoLostProcess'
  <1>0. JobsOK /\ Settled /\ Loops /\ todo \subseteq registered
    BY DEF TypeInv, Loops
  <1>1. ASSUME registered \subseteq registered', UNCHANGED <<status, pid, proc>>
        PROVE  NoLostProcess'
    BY <1>1 DEF NoLostProcess
  <1>2. CASE Quiet \/ Skips \/ Registers \/ StartsChurn
    <2>1. registered \subseteq registered' /\ UNCHANGED <<status, pid, proc>>
      BY <1>2 DEF Quiet, jobsVars, Skips, SkipPort, SearchOn, jobVars, Registers, TakePorts,
                  RegisterNoPorts, Registered, StartsChurn, StartChurn
    <2> QED BY <1>1, <2>1
  <1>3. CASE Ends
    <2>1. /\ UNCHANGED <<registered, status, pid>>
          /\ \A q \in Pid : proc'[q] # "none" => proc[q] # "none"
      BY <1>0, <1>3 DEF Ends, ProcessEnds, jobVars, JobsOK
    <2> QED BY <2>1 DEF NoLostProcess
  <1>4. ASSUME NEW j \in Job, NEW p \in Pid, Restart(j, p) PROVE NoLostProcess'
    <2>1. /\ registered' = registered /\ status' = status /\ j \in registered
          /\ status[j] = "running" /\ pid'[j] = p
          /\ \A k \in registered : k # j => pid'[k] = pid[k]
          /\ \A q \in Pid : q # p => proc'[q] = IF q = pid[j] THEN "none" ELSE proc[q]
      BY <1>0, <1>4 DEF Restart, JobsOK
    <2>2. ASSUME NEW q \in Pid, proc'[q] # "none"
          PROVE  \E k \in registered' : status'[k] = "running" /\ pid'[k] = q
      <3>1. CASE q = p
        BY <2>1, <3>1
      <3>2. CASE q # p
        <4>1. q # pid[j] /\ proc[q] # "none"
          BY <2>1, <2>2, <3>2
        <4>2. PICK k \in registered : status[k] = "running" /\ pid[k] = q
          BY <4>1 DEF NoLostProcess
        <4> QED BY <2>1, <4>1, <4>2
      <3> QED BY <3>1, <3>2
    <2> QED BY <2>2 DEF NoLostProcess
  <1>5. ASSUME NEW j \in Job, ChurnJob(j) PROVE NoLostProcess'
    <2>1. /\ j \in registered /\ {j} \in SUBSET registered
          /\ elapsed[j] \in Nat /\ Timeline[j] # <<>>
      BY <1>0, <1>5 DEF ChurnJob, Reaches, Loops, Churned, JobsOK, Settled
    <2>2. CASE FreeJobs({j})
      BY <1>0, <2>1, <2>2, FreeLosesNoProcess
    <2>3. CASE StopJob(j)
      BY <1>0, <2>1, <2>3, StopLosesNoProcess
    <2>4. ASSUME EventOf(j) % 2 = 1, NEW p \in Pid, StartJob(j, p) PROVE NoLostProcess'
      BY <1>0, <2>1, <2>4, ChurnStartsWaiting, StartLosesNoProcess
    <2> QED BY <1>1, <1>5, <2>2, <2>3, <2>4 DEF ChurnJob
  <1>6. CASE Frees \/ Stops \/ Starts
    BY <1>0, <1>6, FreeLosesNoProcess, StopLosesNoProcess, StartLosesNoProcess
       DEF Frees, Stops, Starts
  <1>7. CASE Restarted
    BY <1>7 DEF Restarted, NoLostProcess
  <1> QED BY <1>0, <1>2, <1>3, <1>4, <1>5, <1>6, <1>7, Effects DEF Restarts, Churns

\* Every process splayd started and has not waited for is the process of a job that
\* runs: stop, free, restart and the churn leave none behind.
THEOREM NoProcessIsLost == Spec => []NoLostProcess
  <1>1. Init => NoLostProcess
    BY DEF Init, NoLostProcess
  <1> QED BY <1>1, AlwaysTypeInv, AlwaysRunsOnTime, ProcessStep, PTL DEF Spec

=============================================================================
