# Splay: a verification development

Splay deploys and controls distributed applications. A *controller* (Ruby, one
database) accepts jobs from users and sends commands to *daemons* (`splayd`, Lua
and C) that run on the hosts of a testbed; a job is a Lua program that runs in a
sandbox of the daemon, over a runtime library of cooperative threads, RPC and
restricted sockets.

This directory holds TLA+ modules translated from the code, the TLC
configurations that check them, and proofs that TLAPS checks. Paths below are
relative to the repository; `PROJECT.json` maps every definition to the lines it
translates.

## 1. Inventory

### 1.1 Controller (`src/controller`)

All the threads share the database and nothing else of importance. The tables
that decide what runs where are

| table | one row per | written by |
|---|---|---|
| `splayds` | daemon: status, session | protocol threads, `unseend` |
| `actions` | command to send: id (AUTO_INCREMENT), command, data, status TEMP, WAITING, SENDING, FAILURE | schedulers insert, protocol threads consume |
| `splayd_jobs` | (daemon, job): RESERVED, WAITING, RUNNING | scheduler inserts, protocol threads update and delete |
| `splayd_selections` | (daemon, job): selected, replied, reset | scheduler, protocol threads |
| `jobs` | job: status, command | API, schedulers |

No statement runs in a transaction and no table has a key that would refuse a
duplicate.

| part | state | operations | what makes it correct |
|---|---|---|---|
| `lib/splayd.rb` | the tables | `reset`, `available`, `unavailable`, `restore_actions`, `next_action`, `action_failure`, `s_j_*`, `s_sel_reply`, `Splayd.init` | no command is lost or left half sent; rows agree with what the daemon has |
| `lib/splayd_protocol.rb` | one thread per connection: cached row, current action | `auth`, `main`, their rescue and ensure clauses | sessions agree on both ends; a reply is applied to the action it answers |
| `lib/splayd_server.rb` | accepted sockets | `accept` | one thread per daemon (the check is commented out) |
| `lib/jobd.rb`, `lib/jobd_standard.rb` | the job being processed | six phases for ever: local, registering, running, max time, command, queued | no daemon overbooked; exactly the asked number selected; the others freed; every registration decided |
| `lib/jobd_grid.rb`, `jobd_trace.rb`, `jobd_trace_alt.rb` | the same | variants of the same phases | the same, under a common lock |
| `lib/distributed_lock.rb` | `locks` table, a mutex per process | `get`, `release`, the initialisation before the processes start | one holder; a released lock can be taken |
| `lib/unseend.rb` | none | resets daemons not seen for a long time | never against a daemon that is served |
| `lib/statusd.rb`, `blacklistd.rb`, `loadavgd.rb` | none | build commands for all daemons | the datasets they build are never executed |
| `lib/logd.rb` | a file per job | append under `flock`, up to a size | logs whole and bounded |
| `cli-server/controller-api.rb` | `jobs` | `submit_job`, `kill_job`, ... | a job killed is freed everywhere |
| `topology_parser.rb`, `dijkstra.rb`, `heap.rb` | none | shortest paths | distances are minimal |

### 1.2 Daemon (`src/daemon/src/lua/splayd.lua`, `splay.c`)

State: the session, the time of the last contact, `splayd.jobs` (a slot per job:
status, ports, process), the ports splayd has bound to reserve them, the jobs
with a timeline (`churn_mgmt_jobs`) and the two coroutines. `run` connects for
ever; `controller` sends key and session and receives the controller's;
`server_loop` executes one command at a time: REGISTER, FREE, LIST, START, STOP,
RESTART, STATUS, BLACKLIST, LOG, LOCAL_LOG, TRACE_END, HALT, KILL, RESET; after
each it lets the churn coroutine (`churn_mgmt`) start and stop jobs by itself.
Correct: a session is only kept with the jobs it names; two jobs have no port in
common and the one that runs can bind its own; a process always belongs to a job;
a job is started once, after its list, and a job with a timeline runs only when
the timeline says so; a broken connection is left.

### 1.3 Runtime library (`src/daemon/src/lua/modules/splay`)

| part | state | operations | what makes it correct |
|---|---|---|---|
| `events.lua` | queues of events, sockets, new threads; timeouts; events fired; semaphores | `run`, `thread`, `wait`, `fire`, `yield`, `sleep`, `kill`, `lock`, `unlock`, `semaphore` | no thread is forgotten or resumed twice; no wake-up is lost; a semaphore lets in whom it should, and comes back from the dead |
| `urpc.lua` | messages to send, answers kept, the semaphore of the calls | `do_call`, `sender`, `receiver`, `clean_replied` | an answer is kept as long as it is waited for; every call ends; nothing stays for ever |
| `rpcq.lua`, `rpc.lua`, `net.lua` | connections, queues | the same over TCP | the same |
| `restricted_socket.lua`, `restricted_io.lua` | counts of sockets, bytes, files | the operations of the sandbox | the counts follow what is open |

The rest is data structures, encodings and wrappers.

### 1.4 What is hard

* Two threads of the controller may serve one daemon: a connection that broke
  unnoticed is abandoned by the daemon, which connects again. The old thread
  finds out later, in the middle of anything, and cleans up *for the daemon*,
  not for its connection.
* Each SQL statement is a step; the scheduler reads replies while they arrive
  and uses what it read several statements later.
* The controller may stop between any two statements and starts again on the
  tables it left.
* Commands in doubt are sent again, in an order that differs from the order in
  which they were inserted.
* A daemon may not answer, answer an error, or restart without its jobs; the
  registration of a job goes on without it and must not leave it with the job.
* splayd looks for ports while other applications take them, and gives up in the
  middle of a range; jobs are started by commands and by the churn, which do not
  look at the same things.
* A thread of an application may be killed by another at any point of a call of
  `lock`; an event lives for one turn of the loop only.
* A datagram may be lost, come twice or late; a request may come back while the
  function it calls is still running, or after its answer was freed.

`PROJECT.json` lists the hazards one by one, with the line where each bites and
the properties that cover it; those without a property have a note that says
why.

## 2. Modules

```
JobLifecycle   what the controller promises of a job        (abstract)
Mutex          what a lock promises                         (abstract)
RemoteCall     what a remote call promises                  (abstract)

SplayTables              the tables, the SQL statements on them
  +- SplaydDaemon        the daemon and its connections
  |    +- SplaydProtocol the controller's thread of a connection
  +- JobdStandard        the scheduler of standard jobs, submission, kill
       (both)
        +- SplaySystem   everything together, failures, fairness, properties;
             |           implements JobLifecycle
             +- SplaySystemProofs      type correctness; who answers for a
                  |                    command; no daemon is overbooked
                  +- SplayLifeProofs   the life of a job
                       +- SplaySyncProofs  tables and daemons agree
                            +- SplayFirstProofs  a daemon on its first connection

DistributedLock          the lock of the schedulers; implements Mutex
  +- DistributedLockProofs             ... when there is one process

SplaydJobs               the jobs inside one daemon: ports, processes, churn
  +- MCSplaydJobs        its instance for TLC
  +- SplaydJobsProofs    ports, timelines, processes

EventLoop                threads, events, locks; implements Mutex
  +- MCEventLoop         its instance for TLC
  +- EventLoopProofs     semaphores, wake-ups, one place for each thread

Urpc                     remote calls over UDP; implements RemoteCall
  +- UrpcProofs          answers, runs, the limit of calls
```

The four groups are separate specifications, as the code has separate processes:
the controller with the network and the daemons as it sees them; inside a daemon;
inside an application; between two applications. What one takes from another is
its promise: `SplaydDaemon` gives each job a slot and a REGISTER that may be
refused, which is what `SplaydJobs` details; `Urpc` waits for the semaphore of
its calls in one step, as the semaphores of `EventLoop` allow; `JobdStandard`
leaves out the lock that `DistributedLock` is about.

* **SplayTables**: one variable per table and one operator per statement (or run
  of statements that no other thread can tell apart). Rows are records, tables
  sets of rows; `seq` tells apart rows that differ in nothing the code reads
  (there is no unique key). Ids of `actions` are counted per daemon: the code
  only compares ids of rows of one daemon. Sessions are numbers handed out in
  order for the random digests; `SessionText` is what the protocol writes for
  one, where NULL becomes the text "NULL".
* **SplaydDaemon**: `dsession`, `djobs` (`none`, `waiting`, `listed`, `running`;
  `waiting` is a job whose `network.list` is still nil), the number of the
  connection in use, whether the daemon is in `server_loop`; per connection, the
  link, the commands not read yet and the reply not read yet. `Register`,
  `Free`, `List`, `Start` are the handlers, `ReceiveSession` is the end of
  `controller`, `FullReset` the reset of `run` after a long disconnection. A
  reply on a broken link either raises or goes unnoticed (`Answers`); a Lua
  error in a handler ends the connection (`Breaks`).
* **SplaydProtocol**: the program counter `tpc` and the cached row and action of
  each thread. `ReadRow`, `Authenticate`, `AskInfos`, `InfosOK`, `Available`,
  `AuthFails` are `auth`, with `reset` in its two steps; `ReadFailed`,
  `RestoreAction`, `DeleteRegister`, `FreeFirst`, `RegisterAgain` are
  `restore_actions`, statement by statement; `PickAction`, `SendAction` are the
  two halves of `next_action`; `ApplyReply`, `ReplyNotOK`, `FinishAction` the
  rest of the loop of `main`, and `MainFails` its ensure clause. A read raises
  when the link is broken, or when the answer does not come in time
  (`ReadRaises`): the daemon then still executes the command, and answers a
  thread that has gone.
* **JobdStandard**: the phases of `JobdStandard.main`, each job taken in turn,
  one action per SQL statement after the first write of a job. `jset` holds
  what the code keeps over these statements: the daemons chosen from
  `occupation`, and in a loop over the daemons of a SELECT those it has still to
  reach (`Turn`: `SelectSplayd` marks the selected ones, `FreeAll` frees those of
  a registration that timed out).
* **JobLifecycle**: a job is new, waits, registers, runs, is over, and never goes
  back; it gets its hosts when it starts and keeps them. `LifeState` and
  `LifeHosts` of SplaySystem are the refinement mapping.
* **SplaySystem**: each process as an action that leaves the others alone; links
  that fail, answers that come too late (`TimesOut`), daemons that restart or find
  no ports, the controller that stops and starts (`MaxFaults` events in all, `MaxRestarts` of the last kind at
  most), and `unseend`, whose SELECT and whose resets are separate steps.

* **DistributedLock**: `get` is a loop of a SELECT and an UPDATE under a mutex of
  the process (`Select`, `Update`), `release` one UPDATE; a thread may raise at
  each statement, a process may stop anywhere and start again. The lock is set to
  0 before the processes start and by none of them (`Initialize`), as in
  `controller_fork.rb` and `daemons/init.rb`; with the one process of
  `controller.rb` it is the same. Holders are mapped to the owner of `Mutex`.
* **SplaydJobs**: `registered`, `status`, `port`, `pid` are the fields of
  `splayd.jobs`; `tcp` and `udp` the ports splayd has bound; `pc`, `todo` and
  `finding` where it is in a loop over jobs or ports, one turn a step. `Register`
  begins a search, `SkipJob`, `SkipPort`, `TakePorts`, `EndOfRange` are its turns;
  `Free`, `List`, `Start`, `StopOrRestart`, `TraceEnd`, `Reset` the commands, with
  their early returns; `CheckJob` is what STATUS and HALT do to the processes that
  have ended; `Churn` the coroutine, of which `count` is `count_msleep`. Whether
  the socket blocks (`so_timeout`, `blocking`) is kept: it decides whether the
  churn gets its turns; so is whether the command loop has yielded on this
  connection (`first`), since `controller` resumes it once before it begins to
  alternate.
* **EventLoop**: the queues, the timeouts and the batch of `run` as they are in
  the code (`tmp_queue`, `events_tmp`, `tmp`, the scan of a queue for timeouts). A coroutine runs until it waits, so each call of the library is
  one action and the main loop a few (`RunNew`, `StartEvents`, `TakeThreads`,
  `RunThread`, `LookForTimeouts`, ...). `lock` is an action until it blocks and
  another each time it runs again.
* **Urpc**: the caller (`DoCall`, `Locked`, `Answered`, `TimedOut`), its sender
  (`Sender`) and receiver (`ReceiveReply`), the callee (`ReceiveCall`, `Returns`,
  `Raises`, `ReceiveFree`, `CleanReplied`), and datagrams as a count per call and
  kind. `call` and `served` are mapped to `RemoteCall`.

Abstractions of the controller's modules:

* Time is left out. A timeout may have expired whenever it is looked at; only
  `unseend` is kept from a daemon that is being served, which its timeout (one
  hour, against a ping a minute) justifies.
* PING, BLACKLIST and the contents of lists and of job descriptions are left
  out; the failure to read the answer of a PING is `MainFails` in `main`. That
  the REGISTER which replaces a failed one carries the bare code instead of the
  job in JSON *is* kept (`data`).
* Statements are joined in one step where nobody can tell: the status and the
  availability of a daemon; in `reset`, the new session with the deletion of the
  commands (a command inserted in between is deleted as if it had come before)
  and the deletion of the jobs with the flag `reset` of the selections, which
  standard jobs never read; `unavailable` with `action_failure`; the reply to a
  REGISTER in `splayd_jobs` and in `splayd_selections`; what the scheduler reads
  of a job with its first write.
* The lock taken around `status_local` and `status_queued` is left out: it only
  keeps out other schedulers, which are not here.
* Mandatory daemons (the code raises a NameError), designated daemons, and the
  matching of hardware are left out: a job can run on any available daemon.
  `occupation` is any set of the right size, since the sort by load is
  discarded (`jobd.rb`).
* `splayd_availabilities` is written and never read.

Abstractions of the others:

* `SplaydJobs`: time is the turns of the churn coroutine, `PerSecond` to a second.
  Disk, log files and the descriptors a job inherits are left out, and so is a
  process that ignores SIGTERM (splayd would wait for it). TRACE_END comes for
  jobs with a timeline only, and START after LIST, as the controller sends them; a
  START without its list raises, which `SplaydDaemon` models. The times of a timeline are distinct: two events in the
  same second, which `jobd_trace_alt.rb` can write since it rounds them down, are
  outside `JobAssumption`.
* `EventLoop`: the identity of a dead thread is used again for a new one. A thread
  does not ask for a semaphore it is in. `periodic`, `synchronize` and `exit` are
  threads that use the rest.
* `Urpc`: time passes in ticks. A call is its key. An answer that is too long for
  a datagram is an error. `server` and `stop_server`, the kill of a thread that
  calls, and restarts of either application are left out.

## 3. Runs

| run | what it asks | bounds |
|---|---|---|
| `reconnect` | no SENDING or TEMP command without someone to answer for it; rows WAITING or RUNNING mean that the daemon has the job; no REGISTER for a job the daemon has; a LIST in doubt is not lost, nor passed by its START while it waits; a job only goes forward; every waiting command leaves the table | one daemon, two connections, one fault, which may be a restart of the controller |
| `select` | the job runs on as many daemons as it asked for; those not selected are freed; the scheduler implements `JobLifecycle` | two daemons, one connection each, one fault, a scheduled job, a random list |
| `queue` | the slot is never given twice; a queued job and a registration are decided; a job that timed out leaves the daemon | one daemon with one slot, two jobs, one of them strict |
| `jobs` | ports, processes and timelines inside a daemon | three jobs (two ports and a timeline of two sessions; one port; none), two slots, ports 1 to 7, two pids, two turns a second, one fault, searches that begin at port 6 |
| `events` | threads, events and locks of an application | two threads that create and kill each other, a lock of level 2, an event, a socket |
| `urpc` | calls over UDP | a call and a ping, one at a time, a request sent twice, a timeout of 3 ticks, answers kept for 4, one request duplicated |
| `session`, `kill`, `ended`, `broken`, `places`, `locks` | the six findings | one daemon and one job; a call and a ping; two processes with one scheduler each |

Why the bounds are enough to be interesting. In the controller, two connections
are what the protocol needs for two threads on one daemon, and each thread can be
caught at any of its steps by the other; a third adds a third thread of a kind
already there. One fault is a lost link at any moment, an answer that is too late, a
daemon that restarts without its jobs, or a REGISTER that is refused; the daemon then comes back on its
second connection and is reset, and finds the commands that an older thread gave
up meanwhile. A restart stops the controller between any two statements. Two
daemons for a job that asks for one give the selection its three cases: selected,
replied in vain, silent. Two jobs for one slot give the queue.

In `jobs`, the range of ports is the smallest that `check` allows for two slots of
two ports; beginning at port 6 the search meets the end of the range and wraps
around, with other jobs and taken ports in its way; the fault is a port found
taken (for TCP, or for UDP only), a library that is missing, or a link that
breaks. Two turns a second are enough for a command to come within a second of
churn. The larger instance with two jobs, two faults and three pids (3.1 million
states) was checked too, and passes.

In `events`, two threads give each kill its two cases (who runs kills the other,
or itself) and a lock its two sides; one thread more would be a second one that
waits. In `urpc`, a request sent twice and duplicated once is there three times:
before the function has returned, after it, and after the free. Loss is a
datagram that is never received. Copies of answers and of frees follow from
copies of requests. A ping that takes the only place makes the call wait for it,
in vain if nobody answers. The instance with two calls of functions (1.8 million
states) was checked for its invariants too, and passes.

What the bounds leave out is left out on purpose, and listed under the hazards:
after a controller restart in the middle of a submission a job is submitted twice
and `RunningIsSelected` is false (so `select` has `MaxRestarts = 0`, and
`reconnect` states `JobsLiveOn`, which says nothing of the number of hosts), and
with
a thread of an abandoned connection that is still before its `reset` the rows
of a served daemon are wiped, which breaks `UnwantedIsFreed` and `TimedOutLeaves`
(so their runs have `MaxConn = 1`); `ListBeforeStart` names that case.

Properties of `SplaySystem`:

* `SendingHasSender`, `TempHasWriter`: `next_action` skips every row that is not
  WAITING, so a row left in SENDING or TEMP would be skipped for ever.
* `RowMeansJob`: relates the table to the daemon, across a `reset` that races
  with a reply being applied.
* `NeverRegisteredTwice`: a daemon that still has a job, because a thread gave up
  on it or a link broke, is reset before it can be asked to register it again.
  The FREE that `restore_actions` puts before a repeated REGISTER has no part in
  it: that REGISTER carries `jobs.code`, and the daemon raises before it looks
  for the job.
* `NoOverbooking`: counting rows and inserting one are different statements.
* `UnwantedIsFreed`, `TimedOutLeaves`: no daemon keeps a job that the controller
  gave up, or for which another was selected.
* `RunningIsSelected`: replies arrive between the statements of a decision.
* `ListBeforeStart` (action property): `n_start` indexes the list. Two threads of
  one daemon take its commands in turns, so a START can come without its LIST, in
  two ways that the property names: another thread has the LIST or gave it up, or
  the tables were reset under the thread that serves the daemon. TLC finds each of
  them when it is not excepted. That there is no other means that a LIST in doubt
  stays in the table and that START is never sent while LIST waits. The property
  says nothing of the order in which `restore_actions` puts commands back: since
  sessions are never restored (finding 1), no daemon has a job when its commands
  are.
* `JobsLive`, `JobsLiveOn` (refinements of `JobLifecycle`): what the scheduler read
  of a job is still true when it writes, several statements later.
* `RegistrationDecided`, `QueueDecided`, `Delivered` (liveness).

Of `SplaydJobs`:

* `DisjointPorts`, `KeepsPorts`, `RunningHasPorts`: a port is reserved by being
  bound, in two protocols, one port at a time, and released at different places by
  start, free, stop, restart and the churn.
* `NoLostProcess`: start, restart and churn each write `pid`.
* `RunsOnTime`: START, STOP and RESTART of a job with a timeline come from the
  controller at any time, and the churn only counts events.
* `ChurnEnds` (liveness): a timeline is followed to its end, though each turn of
  the churn needs a socket that does not block.

Of `EventLoop`:

* `OnePlace`: threads move between seven containers and kill looks into some.
* `NoLostWakeup`: an event fired twice is there once, and is deleted at the next
  turn whether or not anybody got it.
* `NeverOverfull`, `LockComesBack`, and `LocksAreMutexes` (refinement of `Mutex`):
  `unlock_die` gives back what a thread had, in the name of the one that runs.
* `FiredRuns`, `TimedOutRuns` (liveness): the scan for timeouts moves the last
  thread of a queue to the place of the one it runs. Both are stated under
  `NewThreadsEnd`: the loop runs all new threads first, so threads that create
  threads for ever starve the others.

Of `Urpc`:

* `AnswerKept`: whoever still waits would call the function again by a retry,
  after a cleaning or an early free.
* `RunsBounded`, `CallsLimited`: retries and places, over errors and timeouts.
* `CallsEnd` (refinement of `RemoteCall`, with its liveness): every call ends, and
  successfully only if the callee served it.
* `MessagesLeave`, `AnswersLeave` (liveness): the sender never sleeps past a
  message, also one whose caller has gone; answers that nobody frees are cleaned.

Of `DistributedLock`: `OneHolder`. One process with three schedulers was
checked for it and for `IsMutex`, and passes; the theorems of section 4 say so for
any number of them.

Deadlock is checked in all runs of `SplaySystem`, `SplaydJobs` and
`DistributedLock`: the scheduler always has a next phase and splayd reads for
ever. It is not in the others: `run` of the event loop halts when nothing is left
to run, and in `Urpc` the calls are made once.

### Fairness

In `SplaySystem` `FairSpec` states that every process goes on. Weak fairness of a daemon's next
command and of its reconnection: `run` loops for ever and the coroutine reads
what it receives. Weak fairness of each controller thread: it blocks in a read
at most for the socket timeout, after which a read on a dead link fails. Weak
fairness of the scheduler: its loop blocks on nothing. Strong fairness of the two
timeouts: the scheduler looks at them once per round for as long as the job stays
where it is, and after `RegisterTimeout` (or `MaxQueueTimeout`) seconds it finds
them expired; "expired" is one of two outcomes of a step, so weak fairness of the
scheduler alone would let it never happen. Users, faults (an answer too late is
one: the fairness of a thread is of its other steps), `unseend` and the garbage
collector owe nothing.

In `SplaydJobs`, weak fairness of reading (the controller sends a PING when it has
nothing else to send, and a read that does not block returns), and of the loops of
splayd and its churn coroutine, which do not stop in the middle. The processes of
the jobs owe nothing: they may run for ever.

In `EventLoop`, weak fairness of the main loop and of each thread: threads are
cooperative, and an application whose thread does not give control back stops as
a whole. Strong fairness of `StartEvents` and of the expiry of a timeout, which the
loop sees again and again: a timeout that has expired keeps the loop from
`select`, and is seen when the scan is at it.
Strong fairness is not assumed of `lock`: a thread that waits may be overtaken
for ever, since `unlock` wakes all and whoever comes first enters.

In `Urpc`, weak fairness of time, of the sender, of the cleaning and of the thread
of each call. The network and the functions owe nothing: every datagram may be
lost, and a function need not return.

### Findings

Each is a statement of the repository about itself that the code does not meet;
`PROJECT.json` quotes both.

1. `session`: `auth` sends the session of the row it read before `reset` wrote a
   new one to the database only. The daemon and its row disagree from the first
   connection on, so a daemon that loses its link loses its jobs
   (`splayd_protocol.rb:121`). The first branch of `Authenticate` is therefore
   never taken in any run: it is what the code says, and would be taken if the
   sessions agreed.
2. `kill`: `status_killed_common` looks for `job['id']` in rows whose keys are
   symbols; a killed job is never freed. (`jobd.rb:662`)
3. `ended`: a running job is ENDED as soon as one daemon has it, not when none
   has. (`jobd_standard.rb:184`)
4. `broken`: `server_loop` ignores the error of `receive`; on a closed
   connection it spins and refreshes the time of the last contact, so the daemon
   never connects again. (`splayd.lua:951`)
5. `places`: `do_call` leaves without unlocking when it gets its place at the
   moment its time is over. The place is lost; with `settings.max = 1` every later
   call fails. (`urpc.lua:424`)
6. `locks`: two processes both read that the lock is free before either has taken
   it, and both take it, since the SELECT does not lock the row. Nothing else is
   needed: the lock is set to 0 once, before they start. With a SELECT that locks
   the row (`Select` and `Update` as one step) TLC finds no violation.
   (`distributed_lock.rb:49`)

Observations that need no run, or that no text of the repository contradicts:

* `register` leaks ports: when a port of a range turns out to be taken for UDP, its
  TCP socket stays bound (`splay.lua:134`), and when a library is missing the ports
  just reserved stay bound (`splayd.lua:561`). Both are modelled; they cost ports,
  and `DisjointPorts` holds all the same.
* Handlers that return early leave the socket blocking, so the churn sleeps until
  the next command (`splayd.lua:366` says the timeout is restored). `ChurnEnds`
  does not see it: it assumes that a PING comes in the end, as the controller
  sends one a minute, and time is not measured there.
* `kill` of a thread that the loop is about to run in the same batch kills the
  killer instead (`events.lua:569`, `KillSelf`). In a semaphore with room for more
  than one, `unlock_die` erases the record of the thread that runs, which then does
  not give its own place back when it dies; `LockComesBack` is therefore about
  locks. A semaphore of level 1 stays taken by a thread that was killed.
* `urpc.lua:77-79` says of the kept answers: "That way, we avoid calling again a
  function". A function is called again if a request arrives while it still runs,
  after it raised, or after its answer was freed; what holds is `AnswerKept` and
  `RunsBounded`. An application that only serves never starts `clean_replied`, so
  its answers stay if a free is lost; `AnswersLeave` is about those that call too.
  The time a call waits for its place does not count for the retries, so one may
  go out after the call has returned "timeout".
* Nothing gives the distributed lock back when its holder raises or stops, until the
  next initialisation, and the schedulers of the other processes wait for it.

## 4. Proofs

TLAPS proves 33 theorems, for any values of the constants that the assumptions of
the modules allow (finite sets, natural bounds, settings that `check` and `do_call`
enforce). Unless said otherwise there is no other assumption.

`SplaySystem` (`SplaySystemProofs`, `SplayLifeProofs`, `SplaySyncProofs`,
`SplayFirstProofs`): any finite sets of daemons and jobs, any bounds.

* `TypeCorrect` (`Spec => []TypeOK`). `TypeOK` is inductive as it stands. It
  includes that the tables stay finite, which the cardinalities in the ids and in
  `NbNodes` need, and that a thread past `PickAction` holds an action.
  The lemmas follow the modules: what each statement returns, then one lemma per
  process, then `NextType`.
* `TempCompleted` (`Spec => []TempHasWriter`). Only two statements insert TEMP
  rows, each moves the scheduler to the statement that completes them, and no
  other step touches TEMP rows except to delete them. A controller restart sends
  the scheduler to its beginning but deletes them first.
* `SendingAnswered` (`Spec => []SendingHasSender`). Only `SendAction` makes a
  row SENDING. A thread leaves `wait` or `applied` by removing the row or through
  `action_failure`, which changes *all* the SENDING rows of its daemon, those of
  another thread too; that a dying thread speaks for all of them is why two
  threads on one daemon do no harm here.
* `SlotsRespected` (`Spec => []NoOverbooking`). `NoOverbooking` is not inductive:
  when the scheduler inserts rows, it must still be true that the chosen daemons
  have a free slot. `SlotsKept` says so from the choice to the insertion, and it
  is kept because no other process ever adds a row of `splayd_jobs`, and the
  choice adds at most one row to each daemon.

* `LifeOnAnySize` (`Spec => JobsLiveOn`). `Known` says that the job the scheduler is
  at, and those it has still to look at, have the status that was read: only the
  scheduler writes it, but users submit and kill in between. With it each step of
  the system is a step of `JobLifecycle` or a stutter.
* `SelectedRight` (`RunningIsSelected`) and `LifeOnHosts` (`Spec => JobsLive`), both
  assuming `MaxRestarts = 0`. `Asked` follows the rows of a job through the
  decision: none before, one for each daemon asked, replies that only set a flag,
  exactly `NbSplayds` selected from RUNNING on.

* `RegisteredOnce` (`Spec => []NeverRegisteredTwice`), `RowsTellJobs`
  (`Spec => []RowMeansJob`) and `SessionNeverRestored`: any number of connections,
  threads, faults and restarts. Both properties relate the tables, the two buffers
  of a connection, the thread at one end and the daemon at the other, and neither is
  inductive. The invariant has six parts, each proved on top of those before it:
  * `Wire`: what can be on a connection when its thread is somewhere. A thread that
    waits for no reply has nothing on it, one in `wait` at most its own action; a
    connection that is up is the one its daemon uses, and the daemon is in
    `server_loop` once it has read the session.
  * `Sessions`: a daemon has no session or an older one than its row, so the first
    branch of `auth` is never taken and every connection begins with a reset
    (`SessionNeverRestored`: finding 1, whatever the constants).
  * `Ids`: an id of `actions` is never used again and stands for one command, in the
    table and in what `restore_actions` has read.
  * `FirstAsk`: until the REGISTER of a job are inserted, a daemon that can be chosen
    has nothing about the job in its table, its thread or its slots; any other will
    be reset first. Without it a job could be asked of a daemon that kept it over a
    connection the controller has given up.
  * `RegisterOnce`: the REGISTER rows of a job on a daemon that it can decode have
    one id, and none waits to be sent when it was sent on the connection in use, also
    when its thread gave up on a link that is still there (`Abandoned`). The
    REGISTER that `restore_actions` inserts again is not one of them: it carries the
    bare code (`data`), and the daemon raises. So the theorem rests on the resets at
    the beginning of each connection, and not on the FREE of `restore_actions`.
  * `Rows`: a row WAITING or RUNNING of a daemon that is served means that it has the
    job or is being asked to free it. The two other conjuncts are about replies that
    are not applied yet: what one on the connection in use says is true, and one on
    an abandoned connection is for a job whose row the reset has deleted.

  TLC checked the six parts on the instance of `reconnect` (598,805 states), and with
  two faults (7,319,407 states).

* `FirstFreed` and `FirstListed`: `UnwantedIsFreed` and `ListBeforeStart` for a
  daemon on its first connection, whatever happens to the others, with any number
  of faults and restarts; the second without the two exceptions. Their corollaries
  `UnwantedFreed` (`Spec => []UnwantedIsFreed`) and `ListedFirst` (`Spec =>
  ListBeforeStart`) assume `MaxConn = 1`. With a second connection
  `UnwantedIsFreed` is false (section 3), because the thread of the first may reset
  the rows of a daemon that is served by the other, and `ListBeforeStart` is
  model-checked (`reconnect`). The invariant `FirstConnection` is
  about a connection that is the only one its daemon ever opened (`Alone`), and goes
  along the life of a job on that daemon:
  * `Unused`: before the daemon is made available no row is about it and it has no
    job. `Undisturbed`: no other thread, and not the unseen daemon, resets its rows
    while it is served, and there is nothing to restore.
  * `Numbered`, `InOrder`: a number stands for one command, and of one job REGISTER
    has a lower number than the rest, LIST a lower one than START. `next_action`
    takes the lowest number, so what the thread is at was the first (`InHand`).
  * `Late`, `Answered`: the other commands come when the scheduler has got that far,
    and one that was answered was executed.
  * `AskedOf`, `DoomedFreed`: a daemon that has the job, or will have it, has a row
    in `splayd_selections`, so the statements that insert the FREE rows find it, or
    the loop that inserts them has it still to reach; from there on the FREE stays until
    it was executed.
  * `ListComes`, `StartHasList`: a daemon that still waits for the list has the LIST
    to come, and the START on its connection finds the list there.

  TLC checked `FirstConnection` too: on the instance of `reconnect`, and on that of
  `select` with a restart of the controller (3,516,798 states).

`SplaydJobs` (`SplaydJobsProofs`): any jobs, ports, timelines, processes, faults.
Most of the actions leave the jobs alone; `Effects` shows that every step is one of
ten things done to them, and the invariants are proved over these.

* `TypeCorrect`; `TypeInv` adds what the loops of splayd know (the jobs still to be
  looked at are registered, the range being searched is within the settings).
* `PortsAreDisjoint`, `RunningJobsHavePorts`, `PortsAreKept`, from one invariant
  (`PortInv`): the ports found so far in a search are bound and belong to nobody.
* `JobsRunOnTime`: the events passed by a job decide whether it runs.
* `NoProcessIsLost`: rests on `JobsRunOnTime`, since the churn starts a job without
  a look at its status.

`EventLoop` (`EventLoopProofs`): any threads, semaphores, levels, events.

* `TypeCorrect`, `SemaphoreRight` (`NeverOverfull`): `Inv` adds that a thread that
  waits is not in (`Asking`) and that what is given back for a thread is what it is
  in (`Recorded`).
* `EachInOnePlace` (`OnePlace`): whatever `kill` and the scan for timeouts take from
  the middle of a queue. The invariant has two parts: `Lines`, no queue holds a
  thread twice, and `Tidy`, a thread that lives is in one container, a dead one in
  none and without a timeout, and the one that runs has no timeout (or the scan
  would make it ready a second time). TLC checked it on the run `events` and with
  three threads (857,750 states). `Removed` and `Drop`, which move the last thread
  of a queue into the gap, have lemmas of their own.
* `WakeupKept` (`NoLostWakeup`): `Pending` says that an event being processed is one
  whose queue the loop has still to reach.
* `ComesBack` (`LockComesBack`), `ImplementsMutex` (`LocksAreMutexes`).

`Urpc` (`UrpcProofs`): any calls, settings, copies.

* `TypeCorrect`, `AnswersAreKept`, `RunsAreBounded`, `CallsAreLimited`, from one
  invariant with a conjunct for each place where the key of a call may be. The one
  for `AnswerKept` is arithmetic: the answer of a call that is waited for has at
  least `cleaning_after - timeout` longer to live than the call has to wait.
* `ImplementsRemoteCall`: the safety half of `CallsEnd`.

`DistributedLock` (`DistributedLockProofs`), assuming one process: `OneHolderInOneProcess`,
`ImplementsMutexInOneProcess`. Between its SELECT and its UPDATE a thread has the
mutex, so what it read is true; that is the conjunct that two processes break.

Every invariant and action property of the runs has a theorem; those that are false
outside a setting (`MaxConn = 1`, `MaxRestarts = 0`, one process) are proved in that
setting, and `ListBeforeStart` is proved for one connection and model-checked with
two. Only model-checked: every liveness property (the prover does not handle
fairness or ENABLED): `RegistrationDecided`, `QueueDecided`, `Delivered`,
`TimedOutLeaves`, `ChurnEnds`, `FiredRuns`, `TimedOutRuns`, `MessagesLeave`,
`AnswersLeave` and the ending of calls in `CallsEnd`.

## 5. Not modelled

* RPC over TCP (`rpcq.lua`, `rpc.lua`, `net.lua`), restricted sockets and files: see
  the plan.
* The trace and grid schedulers: variants of the standard one. Those for traces
  build their reservations with `$db["INSERT ..."]`, a dataset that is never run, so
  their jobs register on no daemon and time out. Their use of the lock is in
  `DistributedLock`; of the threads that `controller.rb` starts, the standard and the
  alternate trace scheduler contend for it.
* `statusd`, `blacklistd`, `loadavgd`: they write nothing, for the same reason.
* `logd`, the topology parser and shortest paths: candidates for small modules.
* Topology emulation and name resolution in the sandbox: wrappers of sockets.
* Containers and encodings of the runtime, and the vendored C code.
* The web interface: forms over the same database. Its JavaScript is jQuery,
  Prototype, script.aculo.us, SyntaxHighlighter and a date picker, none of it of
  this project. So no JavaScript is modelled: the system is written in Ruby, Lua
  and C.

## 6. Plan

1. `Rpcq` and `Rpc` as further implementations of `RemoteCall`: peers, their failure,
   the call slots, a queue per connection. *Proof*: the refinement.
2. `RestrictedSocket`, `RestrictedIo`: the quotas over failing opens and closes.
   *Proof*: the counts follow the open descriptors.
3. The alternate trace scheduler, once its reservations reach the tables.
4. The shortest paths of the topology parser against a reference definition.
