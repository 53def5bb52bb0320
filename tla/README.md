# A verification of PulSeed's durable runtime

PulSeed is a resident agent: a daemon that pursues goals in the background, for
days, through crashes and restarts. A language model decides what to do; a
durable runtime decides when it may do it, makes sure that nothing accepted is
lost, and that two executions never work on one goal's state as if they were
alone. That runtime is a set of small protocols over one SQLite database and a
few processes. They are what is modelled here; the language model's work appears
as a run that returns, fails or throws.

The repository is `src/`; its TypeScript is below `src/src/`. Line numbers in the
modules, in `PROJECT.json` and below are of that tree. One document is quoted
often: `ARE` is `docs/runtime-architecture/runtime-governance/runtime-auto-recovery.md`.

## 1. The system's parts

| Part | Source | State | Operations | What makes it correct |
|---|---|---|---|---|
| Durable queue | `runtime/queue/journal-backed-queue.ts` | rows (pending, inflight, completed, deadletter), four priority buckets | accept, claim, renew, ack, nack, requeue, deadletter, sweepExpiredClaims | exclusive claims, retry budget, one active row per dedupe key, FIFO per bucket, nothing lost |
| Claim sweeper | `runtime/queue/queue-claim-sweeper.ts` | a timer | sweep every 5 s | lapsed claims come back |
| Goal leases | `runtime/goal-lease-manager.ts` | one row per goal | acquire, renew, release, reapStale | one live owner per goal |
| Write fence | `base/state/state-manager.ts`, `runtime/store/goal-task-state-store.ts` | promise queue, fence and lock row per goal | runGoalStateMutation | no state of a replaced owner over a newer one's |
| Loop supervisor, goal worker | `runtime/executor/` | active, suspended, stopped goals, crash counts, backoff timers, executions | activate, deactivate, poll, execute, renew, retry, shutdown, restart | one execution per goal, every claim settled |
| Background-run ledger | `runtime/store/background-run-store.ts`, `runtime/run-spec/handoff.ts` | one entry per run | create, started, queued, terminal | the ledger shows what became of the run |
| Leader lock, ownership, runner | `runtime/leader-lock-manager.ts`, `runtime/daemon/runtime-ownership.ts`, `runner*.ts`, `persistence.ts` | lock row, heartbeat, shutdown marker | acquire, renew, release, startup, drain, cleanup | one daemon leads, a crash is told from a clean end |
| Watchdog | `runtime/watchdog.ts` | child process, restart counts | spawn, poll, probe, kill, back off, open the circuit, stop | a dead or hung daemon is replaced, none is left behind |
| Dispatchers, commands, maintenance, recovery | `runtime/command-dispatcher.ts`, `runtime/event/dispatcher.ts`, `runtime/daemon/` | current goals, daemon state, safe pause records | start, stop, pause, resume, checkpoint, maintenance cycle, restore | a stopped or paused goal stays so, a started one is run |
| Runtime control operations | `runtime/control/`, `runtime/store/runtime-operation-store.ts` | one record per operation | request, approve, acknowledge, execute, reconcile | what was promised happens once |
| Approval broker and store | `runtime/approval-broker.ts`, `runtime/store/approval-store.ts` | pending sessions, approval rows | request, resolve, expire, restore, maintain | one final decision, every caller answered |
| Schedule engine | `runtime/schedule/` | one table of entries, a lock row | tick, manual run, retry, break, escalate, add, edit, remove | due work runs, records follow saved state, edits last |
| Outbox, event server, client | `runtime/store/outbox-store.ts`, `runtime/event/`, `runtime/daemon/client.ts` | numbered rows, streams, a cursor | append, prune, broadcast, replay, snapshot, reconnect | a reconnecting client misses nothing |
| Tool executor | `tools/executor.ts`, `concurrency.ts`, `runtime/store/permission-wait-plan-store.ts` | slots, waiters, wait plans | admit, approve, enter, run, retry, time out | only approved calls run, no call waits for ever |
| Pipeline executor, its recovery | `orchestrator/execution/pipeline-executor.ts`, `runtime/daemon/runner-recovery.ts` | one record per task | run, gate, stage, persist, reconcile | a saved stage is not run twice |
| Everything else | `platform/`, `interface/`, adapters, gateway, prompts | documents, prompts | model-driven work and I/O | outside the concurrency core |

How they interact. Commands and events enter through `accept`. The dispatchers
and the supervisor `claim` by kind; a `goal_start` becomes a `goal_activated`
envelope, which the supervisor claims. It takes the goal lease with the claim
token as owner token, installs a write fence that compares the lease row with
that token, and runs the worker. A timer renews claim and lease together.
Success acks, failure keeps the claim until a backoff timer nacks it, too many
failures suspend the goal. A crash leaves rows behind; the sweeper and the next
daemon take them up when they lapse. The daemon itself runs as the leader, below
a watchdog, and tells its clients through the outbox. Whatever a goal's run does
to the outside goes through the tool executor, whose approvals are the broker's.

What is hard. Claims, leases and locks expire while their holders still work.
State is checked before an await and used after it (the fence, the poll's
checks, clock readings, the maintenance cycle's goals). Records are loaded and
saved in separate transactions by several actors. The process can die between
any two of them, and what was in memory only (the stopped goals, a timer) is
gone. Commands are handled at least once. Replies get lost. The hazards, each at
its line, with the properties about it, are in `PROJECT.json`.

## 2. The modules

An arrow leads from a component to the module that instances or extends it; `=>`
is refinement.

```
JournalBackedQueue => ExclusiveDelivery      ApprovalBroker => ApprovalDecision

JournalBackedQueue ---> MCJournalBackedQueue
        |
        v
LoopSupervisor -------> MCLoopSupervisor     ApprovalBroker --+-> MCClients
   ^       |                                 EventOutbox -----+
   |       +---------+-> MCActivations
   |  BackgroundRuns +                       DaemonRunner ----+-> MCDaemonRunner
   |                                         RuntimeWatchdog -+
GoalLease ------+----> MCLeases
   |            |                            GoalCommands ----+-> MCGoalCommands
   v            |                            RuntimeControl --+
StateWriteFence +
                                             ToolExecution ---+-> MCTools
ScheduleEngine -------> MCScheduleEngine     PipelineExecutor +
```

The proofs stand in modules of their own:

| Proofs | extends | and proves about |
|---|---|---|
| `JournalBackedQueueProofs` | `JournalBackedQueue` | the queue, ExclusiveDelivery |
| `LoopSupervisorProofs` | `MCActivations`, and instances `JournalBackedQueueProofs` | LoopSupervisor with its queue and leases, BackgroundRuns |
| `GoalLeaseProofs` | `MCLeases` | GoalLease, StateWriteFence |
| `DaemonRunnerProofs` | `MCDaemonRunner` | DaemonRunner, RuntimeWatchdog |
| `GoalCommandsProofs` | `MCGoalCommands` | GoalCommands, RuntimeControl |
| `ClientsProofs` | `MCClients` | EventOutbox, ApprovalBroker, ApprovalDecision |
| `ScheduleEngineProofs` | `ScheduleEngine` | ScheduleEngine |
| `ToolExecutionProofs` | `MCTools` | ToolExecution, PipelineExecutor |

An action is what one thread does between two awaits that wait for something, or
one transaction of the control database. Each module names, per actor, the await
it stands at. Every definition that stands for code is mapped to its lines in
`PROJECT.json`; a definition commented as a mutant is a wrong version of the one
that follows it, used to show that a property notices.

**ExclusiveDelivery** is what a claim-based queue promises, without rows, buckets
or time: each message has a fate (unknown, waiting, done, dropped) and at most
one owner; only its owner settles it; accepting a message may supersede waiting
ones with the same key.

**JournalBackedQueue**. Each public method is one transaction that reloads the
rows, changes them and writes them back, hence one action. `records[i]` is the
row; `ahead` is the order inside the buckets, as a relation (`queue_order`). Time
is what is left: `lease` ticks of `leaseUntil`, `ttl` ticks of `created_at +
ttl_ms`. A stale token makes a call return and change nothing, which is no step.

**GoalLease**. `acquire` and `renew` read the clock before they await the database
handle; `lag` is the age of that reading when the transaction runs. `promised` is
what the caller was told and still counts on.

**StateWriteFence** follows one goal through several processes. A mutation goes
through waiting, locked, cleared (the fence has passed it) and unlocking, which
are separate awaits or transactions in `runGoalStateMutation`; ticks, other
processes and crashes come between them. `turn`, `era`, `lastEra`, `late` are
history.

**LoopSupervisor** composes queue and leases with the supervisor's memory. The
poll has the stages none, next, claimed, coalesced, leasing; an execution has the
phases admitting, running, checking (between the loop's result and the `while`
condition), judging, completing or dropping (callbacks and ledger updates before
the claim is settled) and releasing. Two awaits are joined: the renew loop's claim
and lease renewal, and the nack and release of a relinquished execution; a crash
in between leaves a row that lapses, as one before them does.

**BackgroundRuns** is one run and its ledger entry: the chat that creates it and
asks the daemon, the executions that mark it, a shutdown that hands it back. Every
mark loads, merges and saves in two transactions. The queue is here its contract
(delivered again until acked).

**DaemonRunner** is a daemon process from `start()` to its end: marker, leader
lock, startup phases, signals, renewals with old clock readings, lost leadership,
drain and cleanup. Cleanup notes whether the state says crashed, then awaits its
save and the release: a renewal that fails meanwhile comes too late for the marker.
A suspended process is one that takes no step while time goes on.

**RuntimeWatchdog** is `start()` of the watchdog with the child it monitors. The
child leads, answers or not, hangs, recovers, drains and exits; the watchdog sees
that through health records, the lock and probes. Lengths of time are the steps
that end them.

**GoalCommands** has the four goal commands with all their awaits, the checkpoint
of a pause in the worker's completion callback, the maintenance cycle, shutdown,
crash and the restore of the next start. Both dispatchers run at once; a command
may be handled again. A save of the daemon state is a snapshot (`BeginsSave`) that
lands later (`SaveLands`), in any order with the snapshots of other callers
(`writes`, one for each handler, completion, cycle and for the shutdown), or fails
without its caller being told (`SaveFails`). Queue and supervisor are reduced to
what commands see.

**RuntimeControl** is a restart that is asked for: the requester with its four
saves and its remote call whose answer may be lost, the command and its handler,
the 25 ms timer, the reconciliation of the next start, crashes of either side.
Every save writes the whole record, so a record is the state last written.

**ApprovalDecision** is what an approval promises: it is decided once and nobody
is told yes unless it was approved. **ApprovalBroker** is one or several brokers
over one store: sessions in memory, saves in flight, delivery of prompts, replies,
expiry timers, finalizations that wait for the save, restore, maintenance, stop
and crash.

**EventOutbox**. `broadcast` and the replay of a new stream are jobs of one
promise chain; what has been written travels on a wire and is lost with the
connection; the client keeps a cursor and reconnects, with a snapshot first.

**ScheduleEngine**. Entries are one table, read and written whole under a lock row
with a lease; a section is Work, Save, Leave; an entry runs outside the lock.
Several engines (processes) share the table, several callers share an engine,
whose re-entrant lock does not know its holder.

**ToolExecution** follows calls from the preflight to their end: wait plan,
approval that may be finalized twice, marks of the plan in two transactions, final
admission, slots and waiters of the concurrency controller, retries, timeouts.

**PipelineExecutor** is the run of one task's pipeline with the saves of its
record, plan gate, escalation, errors that leave `run()` (`Throws`: it has no
catch), crashes at any step, and the reconciliation of interrupted records by a
starting process, possibly another one.

Abstractions that matter to a reader: envelope, approval and event contents are
identities; tokens are fresh (they are UUIDs); the control database does not fail
except where a `...MayFail` constant says so, and a transaction is atomic; language
model, adapters, probes and policies are nondeterministic outcomes; counts are kept
up to the value they are compared with.

## 3. The runs

An MC module extends a component and, where two components or two settings of
one belong to one question, instantiates the others. Its variable `subject` is
chosen at the start and says which of them a behaviour is about, so that one run
is the disjoint union of several instances; the others' variables stand still.
A property is guarded by the subject it is about.

| Run | Properties | Bounds and why |
|---|---|---|
| `queue` | BucketsConsistent, OneActivePerKey, NoOvertaking, DeliveryContract (refinement), AcceptedIsSettled (liveness) | 3 envelopes of which two share key and bucket, 2 tokens: supersession, refusal beside a claim, a stale token after a re-claim, expiry in front of a live row, the whole retry budget |
| `supervisor` | OneExecutionPerGoal, ClaimsAccounted, SuspendedNeverRuns | 2 workers, 2 activations of one goal under different keys, runs that fail or throw, one retry before suspension; after an outage only behaviours with one activation are followed (`AloneAfterOutage`) |
| `leases` | LeaseHonoured, NoStaleOverwrite, OneLateCommitAtMost | 3 owners, lease 4 and lag 2, so that readings of different age cross; fence: 2 processes, 3 executions (a takeover during a mutation, a second one before the late write ends), lock lease 2 |
| `daemon` | LeadershipHonoured, CrashIsDetectedInTurn, DeposedLeaderStops (liveness); of the watchdog NoStrayChild, CircuitMeansStorm, HungChildGoes, DeadChildIsReplaced, StopEnds (liveness) | 2 incarnations that overlap or not, lease 2, lag 1; a watchdog with 5 children, so that 3 unhealthy ends in the window fit beside a healthy one, and 2 failed probes |
| `clients` | DecidedOnce (refinement), ApprovalsEnd (liveness), CaughtUp, InOrderOnce | one broker with 2 approvals and failing saves; two brokers, one approval, 3 outages; streams of one client over an outbox that begins at number 9: with an approval; with 2 rows kept and failing appends and snapshots; with 3 broken connections and 2 restarts |
| `activations` | RecordedOutcome, EveryActivationSettles, AcceptedRunSettles (liveness) | one activation through an outage; a run with 2 crashes and 2 starts; one with a lapsed claim, a shutdown, a crash and a lost reply |
| `goals` | RestartHonoursPause, StartIsHonoured, RestartsAreAccounted, ToldIsVerified (liveness) | one goal, saves that may fail: both dispatchers, all four commands and a crash; one dispatcher with a shutdown and a crash; start and stop with retries, other saves at any time and 2 crashes; 2 restart operations and a crash |
| `schedule` | HistoryIsSaved, ToldIsStored, OneAlarmPerCooldown, OneEntryPerKey, SlotsAreRun (liveness) | the daemon's tick beside a user's process, an entry that escalates to another; two processes making entries of one decision; one entry through 3 slots, a crash and a manual run |
| `tools` | ApprovedAsPlanned, WaiterHasWaker, SavedStageIsKept, EveryCallSettles, NoPipelineStaysRunning (liveness) | 2 calls, one approval finalized twice, the host state moving once; 3 calls for one slot with retry and timeout; a pipeline of 3 stages with 2 crashes and 3 runs; one of 2 stages recovered by another process while it runs |
| `supervisor_coalesce` | CoalescedIsRun (violated) | budget and ttl raised so that they do not end the story |
| `stop_maintenance` | StopPreventsReactivation (violated) | one goal, start and stop, maintenance |
| `goals_forgotten` | StartedIsRestored (violated) | one goal, start, one other save, a crash |

What each property says is stated before its definition. All bounds are constants
(`AttemptBound`, `MaxLag`, `MaxOutages`, `MaxCrashes`, ...), a state constraint
(`AloneAfterOutage`), or the sets. Leases, ttls and cadences of one to three ticks
let every timer expire before, during and after every other step, which is all the
code compares. Symmetry (tokens, workers, owners, processes: model values that are
only compared) is used in `supervisor` and `leases`, which check no liveness.

Deadlock is left unchecked where the system really may stop: a queue whose rows
are settled and that nobody submits to, an
outbox at its bounds with everybody caught up, calls and pipelines that are over,
requesters that are gone. It is checked in `supervisor`, `leases`, `daemon`,
`activations` and `schedule`; in `daemon` a watchdog that has ended stutters.

Each property of a passing run has a mutant in `PROJECT.json`: with it in place of
the definition TLC finds the property violated within the run's own bounds.

Some properties hold only under conditions that are part of their statement:
`NoStaleOverwrite` while the write lock is still the writer's; `RecordedOutcome`
without shutdowns, lapsed claims and lost replies; `CrashIsDetectedInTurn` when no
daemon is started beside another, and for a loss of the leadership that the daemon
knew of when its cleanup began; `StartIsHonoured` for a start that does not overlap a
stop or a pause of its goal nor finds the goal's run under way; `ToldIsStored` while
no lock lease lapses under a live holder; `SavedStageIsKept` while no other process
recovers; `NoPipelineStaysRunning` unless the run threw. What happens outside those
conditions is in section 4.

### Fairness

Weak, except as noted, and only on what the code itself drives: intervals and
timers that keep firing (poll, sweeper, tick, renewal, expiry, backoff), the next
step of a handler, an execution, a startup or a shutdown once it has begun, a
promise chain, a client that reconnects, and a daemon that is started again (the
watchdog restarts after clean and unclean ends alike). A durable loop and a tool
body end; the loop's iterations are bounded, and a tool without a timeout is taken
to return (a timed one need not: `CallEnds` of it is not fair). Commands,
requests, replies of people, edits, crashes, suspensions, lost messages and lapsed
leases are never fair. In `daemon` a poll's reading is strongly fair: a hanging
child may recover between two polls, and a poll that keeps being due is made while
it hangs. In `goals` one fairness condition stands for that of each step of a
restart, of which a behaviour has a bounded number.

## 4. What the models show against documents, comments and tests

The three listed as findings:

1. `supervisor_coalesce`: a claim is coalesced onto an execution by its
   `activeGoals` entry, which outlives the worker's last look at the extend flag
   (`loop-supervisor.ts:362`). An activation claimed in that window is acked and
   never run.
2. `stop_maintenance`: a maintenance cycle that has read the goals activates a
   goal that was stopped meanwhile (`maintenance.ts:539`).
3. `goals_forgotten`: a save of the daemon state that began before a goal was started
   lands after the save of the start (`persistence.ts:14`): after a crash the goal is
   no longer one of the daemon's (ARE:176). A save of the start that fails has the
   same effect (`SavesMayFail` TRUE): its error is logged and the command acked.

More disagreements came up. Those with a configuration can be reproduced by
running TLC on it (`tlc -config X.cfg M`, M being the module X begins with) and
end in a violation of the property it names; they are kept for a reader and are
not among the runs.

| Configuration | Violated | What happens |
|---|---|---|
| `MCJournalBackedQueueTtl` | ReclaimedIsRetried | `claim` measures the ttl from `created_at` on every attempt. Activations carry no `ttl_ms`, so after the default five minutes one that ran and comes back is dead-lettered, whatever its budget. |
| `MCLeasesGap` | CommitsOwnTheLease | The fence is awaited before the write: the lease can lapse and a new owner commit in between (ARE:93 says the write is rejected). |
| `MCClientsReuse` | ToldWhatIsOnRecord | A second request under an id that was denied or expired can be answered yes while the record says denied (`approval-broker.ts:469`; ids of budgets and wait strategies are used again). |
| `DaemonRunnerSignal` | SignalledDaemonStops | A SIGTERM during the restore of goals is undone by `running = true` (`runner-startup.ts:159`); the daemon serves for ever and ignores later signals. |
| `DaemonRunnerOverlap` | CrashIsDetected | `cleanupDaemonRun` releases the lock before it writes the marker: the next daemon's marker is replaced by `clean_shutdown` (`persistence.ts:142`). |
| `DaemonRunnerLate` | LossIsDetected | `cleanupDaemonRun` reads the state's status before it saves it: a daemon that loses its leadership during that save, and knows it, writes `clean_shutdown` (`persistence.ts:133`; `runner.ts:530`). |
| `RuntimeWatchdogEarly` | DeadChildIsReplaced | A child that is gone before `monitorChild` listens (the PID file is written first) is waited for without end (`watchdog.ts:158`; ARE:170). |
| `GoalCommandsPause` | PauseIsReached | A pause that comes after the completion callback has looked, or during a run that ends in an error, stays requested for ever (`runner-commands.ts:487`). |
| `EventOutboxResend` | CaughtUp | Approvals are re-sent with numbers of a counter of their own, which clients take for outbox numbers and skip events (`server-sse.ts:173`; ARE:164). |
| `BackgroundRunsShutdown` | RecordedOutcome | A shutdown that ends its grace while a finished execution releases its lease puts `queued` over the terminal status (`loop-supervisor.ts:661`). |
| `MCScheduleEngineShared` | HistoryIsSaved | Two callers of one engine share its re-entrant lock: the command's re-read throws away the tick's change, whose record is written (ARE:103). |
| `PipelineExecutorFailFast` | FailFastHolds | A run that finds a failed stage on record goes on with the next one (`pipeline-executor.test.ts:166`; ARE:203). |
| `RuntimeControlVerified` | VerifiedAfterRestart | The dispatchers start before the reconciliation (`runner-startup.ts:303`, `:309`): a restart command handled in between is marked verified by the daemon that is about to restart for it. |

Others follow from the properties named when the constants are changed as told:

* Approvals. With brokers {daemon, chat}, one request at the chat and
  `MaxOutages` 1, `AnnouncedAsDecided` fails: another broker's timer broadcasts its
  own outcome for a row that is already decided.
* Commands (`GoalCommands`). A crash forgets stopped goals, and a queued activation
  runs (ARE:227). `checkpointPauseIfRequested` writes `paused` over a stop made
  during its await, and the goal can then be resumed. A goal that was paused and
  started again is dropped by the next start (ARE:176), and so is one whose start
  was handled during a shutdown. A retried command is handled after later ones
  (ARE:97). Properties StopPreventsReactivation, StopIsNotResumed,
  StartedIsRestored, LatestCommandStands.
* Restarts (`RuntimeControl`). A crash between the handler's save and its ack
  restarts the daemon twice for one operation, which `RestartsAreAccounted` counts;
  a requester whose answer got lost writes `failed` over an operation that
  restarted, or `restarting` over `verified`; a requester that dies leaves its
  operation pending for ever; a crash between the save of `verified` and its
  publication loses the announcement. Pause, resume and cancel operations are left
  `running` by the executor (`daemon-runtime-control-executor.ts:70`), and nothing
  ends them.
* Supervisor. A durable loop that rejects leaves its worker `crashed`, and nothing
  resets the status (`crashed` in LoopSupervisor): with each such failure the pool
  shrinks until nothing is claimed. One worker suffices to see
  `EveryActivationSettles` fail.
* Background runs. With `ReplyMayGetLost` a user is told that nothing was started
  after the goal has run (ToldNotStarted); with `MayLapse` an execution that lost
  its claim records the outcome (OwnerRecords; ARE:93).
* Outbox. Once pruning by age has removed every row, numbers start again below a
  client's cursor; after a failed snapshot the next reconnect skips to the number
  of a later one (CaughtUp with `MayAge`, with `SnapshotsMayFail`; ARE:26, :222).
* Schedules. A run undoes a pause made meanwhile (PauseHolds); a manual run and a
  tick overlap (NoOverlap); a lock lease that lapses under its holder loses an edit
  (ToldIsStored with `MaxLapses` 1).
* Tools. With three calls and `MaxConcurrent` 1, LimitHolds fails: a waiter that is
  woken and a call that arrives meanwhile both enter (`concurrency.ts:8`). The final admission passes a call although the host state moved after the
  plan (NotStale); with two finalizations a call is resumed without its plan saying
  so (ResumeIsRecorded). The `AbortController` of a shell call is never used, and a
  timed-out tool goes on outside its slot (`concurrency.ts:9`).
* Pipelines. A rejected approval, or a save or decision record that fails, leaves
  `run()` with the record running while the process lives; a later run of that
  process starts the pipeline from scratch and executes saved stages again
  (`pipeline-executor.ts:116`; ARE:203; NoneStaysRunning without `threw`). A plan that
  is denied after a stage has passed gives the final verdict
  `pass` (FailedIsNoPass). A starting process reconciles every record that says
  running, also one whose pipeline another process runs (`OthersRecover`;
  `runner-recovery.ts:278`).

## 5. What is proved

All theorems hold for every value of the constants that satisfies the module's
named assumption, and TLC evaluates those assumptions in the runs. Where a theorem
has a hypothesis of its own it is part of its statement and said below. Every
inductive invariant was first checked by TLC on the instance of a run.

**Queue** (`JournalBackedQueueProofs`). Row lemmas first: `Released`, `AsPending`,
`AsDeadletter`, `Aged` keep a row well-formed; `TypeCorrect` then goes through
`ApiNext`, arbitrary `requeue` and `deadletter` included, and `DaemonIsApi` carries
it over. `RetryBudget`: the budget is checked where a row is returned, not where it
is claimed, so the invariant also says that a pending row has budget left.
`DedupeHolds`: only `accept` makes a row active; a refused one covers rows in
flight, the deletion covers pending ones; `RowMoves` says once what a step can do
to a row. `QueueMoves` shows that every operation acts on the buckets in one way:
some rows leave, and some that stood in no bucket join behind everything that
stays; `BucketsHold` and `NobodyOvertakes` follow from that move alone, for all of
`ApiNext`. `QueueDelivers`: the queue implements ExclusiveDelivery. `OwnerMoves`
says what a step does to a row's fate and owner, `RowStep` maps it to a step of the
contract; the strengthening is `UniqueClaims` (no two rows in flight name one
claim). A manual `requeue` revives a dead-lettered row, which the contract forbids,
so the theorem is about `Spec` and not `ApiSpec`.

**Supervisor** (`LoopSupervisorProofs`). `SupervisorTypeCorrect` and the theorems
`GoalsRunOnce` and `SuspensionHolds` come from one invariant of its memory
(`Sound`): the poll holds only free workers, a lease is sought only for a goal that
has no execution and is not suspended, and nothing else makes a goal active before
that lease is answered. Then its parts. `SupervisorUsesQueue`: every step, a crash
and a forced shutdown included, is a step of the queue's methods or leaves the queue
alone; so `ActivationsAreDelivered` gets the delivery contract, the dedupe rule, the
budget and the order from the queue's theorems (the proofs module is instantiated
at the supervisor's constants). `ClaimsAccountedFor`: a token that leaves the poll's
or an execution's hands has settled its row in that step or waits for its timer
(`Accounting`), which rests on `UniqueClaims` again. `SupervisorLeases`: the lease
protocol's promises hold in the composition. `NoLeaseOutlives`: a live process keeps
no lease without an execution.

**Background runs** (the same module). `OutcomesAreRecorded` for any number of
executions, crashes and starts: one execution holds the claim until it settles it,
and when it settles, the ledger already has its outcome (`LedgerSound`). Shutdowns
that cut an execution short, lapses and lost replies are outside the instance it is
about, as in the property (section 4 says what they do).

**Leases and fence** (`GoalLeaseProofs`). `LeasesAreHonoured`: an old reading makes
a lease look longer to the caller that checks it and shorter to the one it is
granted to, so it errs on the safe side twice; `HonouredStep` is that argument per
action. `LeaseExclusion` follows: two promises on one goal would make the row name
two owners. `NewerStateStays` and `LateCommitsEnd` are about the fence above it. The
invariant, `FenceSound`: the row names the latest turn or nobody (`RowIsLatest`), no
era exceeds the turn (`ErasBounded`), an execution's token is its own
(`TokensFresh`), who writes has passed the fence set-up (`AuthorsFenced`); a writer
that has passed the fence and still has the lock is at least as new as all that has
been committed and as everybody else who has ever got as far (`ClearedIsNewest`);
who has committed after a takeover has nothing left beyond the fence (`LateIsOver`).

**Leader lock, runner, watchdog** (`DaemonRunnerProofs`). `LeadershipIsHonoured` and
`LeaderExclusion` by the leases' argument for the leader row, whose owner may be
released, deposed, suspended or dead. `CrashAlwaysDetected` and, for the run's
property, `CrashDetectedInTurn`: when incarnations do not overlap, the marker does not
say `clean_shutdown` if the last daemon died, or had noticed the loss of its
leadership when its cleanup began; the invariant follows the marker through startup
and cleanup. A loss noticed later than that is not in the marker (section 4). `NoChildIsLeft`: the watchdog's loop goes on
only when its monitor has seen the exit, and a monitor that has seen it has no child
any more (`ExitSeenIsTrue`). `CircuitNeedsStorm`: until the loop ends, what is in the
window never exceeds the children in a row that ended badly (`StormIsIll`), and the
circuit opens only when the window is full. Both hold with and without
`MayExitEarly`.

**Commands and restarts** (`GoalCommandsProofs`). `PausesSurviveRestarts`: no handler
of an earlier process is left, and none of this one reaches its activation without
having taken the goal out of what the start withheld (`PausesHold`, `JobsSound`,
`NothingLeft`). `StartsAreHonoured`: who would deactivate a goal is handling a stop or a
pause, or completes a run of it (`Honoured`); taking the one and dispatching the other
end what the start is owed, and everything else, crashes, restarts and saves in any
order included, leaves the activation alone or adds it (`Spares`). What a restart finds
in the saved state is another matter (section 4). `RestartsArePaidFor` counts: restarts so far, one that is coming, a
handler whose command went back to the queue and the operations that are still owed
one are together no more than operations, crashes and lapses (`Accounted`); each
action is one that pays, one that does not change the sum, or one that lets go.

**Approvals** (`ClientsProofs`). `VerdictsAreFinal`, for any number of brokers
over one store: a pending row belongs to an approval that is open, because only the
first save of its request makes one (`RowsSound`, `SaveIsFirst`,
`UnaskedUnknown`). `ApprovalsAreDecidedOnce`: the daemon's broker implements
ApprovalDecision. A finalization that meets a row already decided answers with its
own outcome; that this is what the row says needs `LiveUnheard`: behind a live
session only maintenance decides, and it decides `expired` where nobody is about to
approve. `Settle` and `Reconcile` map to DecideOrTell, the ends of a process, `stop`
and a failed save to Abandon, everything else to a stutter. Hypotheses: ids are used
once (`IdsUsedOnce`; those of tools are random, those of budgets and wait strategies
are not, and then the claim fails, section 4), and for the refinement the daemon's
broker is alone (`Alone`; the run's `brokers` behaviours show less).

**Streams** (`ClientsProofs`). For any number of clients, events, broken connections
and restarts. Each action of EventOutbox is first shown to be one of a dozen moves of
the stream (a broadcast is submitted, its row is stored, a replay is written, a client
reads, a connection breaks, ...), with pruning and a failing snapshot apart
(`KeptMoves`, `PrunedMoves`, `LiveMoves`); the rest is about the moves. What a replay
writes is described by the place of a row among the due ones, and `Places` shows that
places are one to one and follow the numbers. `EventsComeInOrder` needs that rows,
queued broadcasts, written messages and given events are in one order, each before
what is still to come (`Ordered`; for a client, `WireOrdered`, `RowsToGive`,
`GivenInOrder`). `ClientsCatchUp` needs that every row is, for each client that has
begun, seen, excused by its snapshot, on its wire, or in a stream that is still to be
written (`Had`, `Coming`), and that a client which has passed a row has had what came
before (`InTurn`). Its hypothesis `FewResends` says that the numbers of re-sent
requests stay at or below the number the outbox began with: with more of them a
client takes such a number for one of the outbox and skips rows, which is what
`EventOutboxResend` shows (section 4). In the run the hypothesis holds.

**Schedules** (`ScheduleEngineProofs`). `OutcomesBeforeRecords`, `EditsAreKept`,
`AlarmsAreSpaced`, `KeysAreUnique` share one invariant: under the lock row there is
one caller (`Locked`); what it is about to save differs from the table only in its
entry and only by what its section does (`ToSave`), and is the table once saved
(`Saved`); per entry, records written and records owed by callers are at most the
saved outcomes (`HistoryOf`), counted by disjoint sets of callers. Hypotheses: each
engine has one caller (`OneCallerEach`; else its re-entrant depth counter lets a
second one in, `MCScheduleEngineShared`) and no lock row lapses under a live holder
(`NoLiveLapse`; `ToldIsStored` fails with `MaxLapses` 1); for keys, that the entries
of the start have different ones.

**Tools and pipelines** (`ToolExecutionProofs`). `WakersStay`: a call that waits has a
holder of a slot to wake it, for any number of calls, any limit, timeouts and
retries (`SlotsInv`: `active` is the number of calls inside, and the queue holds each
waiting call once). `CallsAreApproved`: only an approved, unchanged plan is called;
the invariant ties each finalization in flight, each load that has not been saved
yet and the plan's state together, and lemmas on a step that moves one call
(`Aside`) carry the others. `StagesAreExecutedOnce` and `CompletedPipelineIsWhole`,
for any number of stages, runs and crashes of one process.

**Only model-checked.** Every liveness property (fairness and ENABLED are out of the
provers' reach): AcceptedIsSettled, DeposedLeaderStops, HungChildGoes,
DeadChildIsReplaced, StopEnds, ApprovalsEnd, EveryActivationSettles,
AcceptedRunSettles, ToldIsVerified, SlotsAreRun, EveryCallSettles,
NoPipelineStaysRunning. Every safety invariant and action property of the passing runs
is stated by a theorem.

## 6. Not modelled

* Control database (`store/control-db/`): SQLite transactions are taken as atomic;
  schema and migrations are data definition. The same holds for the stores that are
  one row per document with no protocol (runtime event log, attention state,
  permission grants, traces) and for legacy imports.
* Durable loop and task lifecycle: what a loop observes, decides and delegates is a
  language model's; the supervisor keeps how a run ends, PipelineExecutor the one
  part with durable steps.
* Platform services, interfaces, gateway and channels, adapters, prompts,
  reflection, reporting, base types: heuristics over documents, presentation and
  I/O. They are most of the repository's lines, which is why the map covers only a
  small share of it.
* Of modelled parts: `replaceIdleWorkers` (swaps worker objects while none is used),
  `saveLoopCheckpoint` (not fenced), the supervisor's admission records, ledger links
  and summaries, the server's own approval queue, external event files, schedule
  probes and budgets, session, permission and companion-wide control operations (each
  ends in its request), permission policy and dry runs of tools. The notes of the
  components in `PROJECT.json` say so part by part.

## 7. What is planned

1. Two daemons over one queue and lease table, an old one beside its successor, in
   LoopSupervisor itself; so far that is modelled where it matters for state, in
   StateWriteFence.
2. Several goals under the commands, and the resident loop's proactive steps.
3. Several brokers and ApprovalDecision: which part of the contract they keep
   (callers are answered, verdicts are final) as a second abstract specification.
