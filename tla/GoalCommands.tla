---------------------------- MODULE GoalCommands ----------------------------
(***************************************************************************)
(* What the daemon does with goal_start, goal_stop, goal_pause and         *)
(* goal_resume (src/runtime/daemon/runner-commands.ts), beside the worker  *)
(* that runs the goal, the maintenance cycle that activates it again, and  *)
(* shutdowns, crashes and restarts of the process.                         *)
(*                                                                         *)
(* The process is one JavaScript thread: an action is the code between two *)
(* awaits.  The command dispatcher handles one command at a time and so    *)
(* does the event dispatcher, whose events start goals; each job names the *)
(* await it stands at.  The queue, the leases and the supervisor are       *)
(* reduced to what the commands see of them (modules JournalBackedQueue    *)
(* and LoopSupervisor): all activations of a goal share one dedupe key, so *)
(* that a goal has one unsettled activation at most.                       *)
(*                                                                         *)
(* A save of the daemon state takes a snapshot, awaits a new handle of the *)
(* database and only then writes: the saves of several callers land in any *)
(* order, and one that fails is logged and counts as done for its caller.  *)
(* Reading the state back is taken to succeed.                             *)
(***************************************************************************)
EXTENDS Naturals, FiniteSets

CONSTANTS
  Goal, NoGoal,
  GivenGoals,     (* the goals the daemon is started with, every time      *)
  Commands,       (* the commands the operator uses                        *)
  Dispatcher,     (* {"command"}, or with events {"command", "event"}      *)
  MayMaintain,    (* whether maintenance cycles run                        *)
  RunsMayFail,    (* whether a run may end with status 'error'             *)
  MayRetry,       (* whether a handler may throw or outlast its claim      *)
  ResidentSaves,  (* whether maintenance and resident activity save        *)
  SavesMayFail,   (* whether a save of the daemon state may fail           *)
  MaxCrashes, MaxShutdowns

ASSUME CommandsAssumption ==
  /\ NoGoal \notin Goal /\ GivenGoals \subseteq Goal
  /\ Goal \cap {"command", "event", "cycle", "process"} = {}
  /\ Commands \subseteq {"start", "stop", "pause", "resume"}
  /\ Dispatcher \subseteq {"command", "event"}
  /\ MayMaintain \in BOOLEAN /\ RunsMayFail \in BOOLEAN /\ MayRetry \in BOOLEAN
  /\ ResidentSaves \in BOOLEAN /\ SavesMayFail \in BOOLEAN
  /\ MaxCrashes \in Nat /\ MaxShutdowns \in Nat

VARIABLES
  phase,          (* "up", "draining" (shutdown has begun), "closing" (its *)
                  (* last save has) or "down"                              *)
  current,        (* currentGoalIds, and active_goals of the state         *)
  interrupted,    (* interrupted_goals of the state in memory              *)
  pauseMem,       (* safe_pause_goals of the state in memory               *)
  stoppedGoals,   (* the supervisor's                                      *)
  run,            (* run[g]: the supervisor's execution of goal g          *)
  job,            (* job[d]: what dispatcher d is handling                 *)
  todo,           (* goals the maintenance cycle has still to activate     *)
  writes,         (* writes[w]: the snapshot that w waits to be saved      *)
  pauseDb,        (* the safe pause store                                  *)
  saved,          (* the daemon state as last saved                        *)
  activation,     (* activation[g]: the queued activation of goal g        *)
  taskMarks,      (* goals with a task whose stored status is 'running'    *)
  lapsed,         (* commands whose claim expired or was given back        *)
  crashes, shutdowns,
  latest,         (* history, if commands are retried: each goal's last one*)
  stopDone,       (* history: stopped, and not started or paused since     *)
  owed,           (* history: started, and not run, stopped or paused since*)
  held            (* history: left out as paused by the latest start       *)

memory  == <<phase, current, interrupted, pauseMem, stoppedGoals, run, job, todo, writes>>
durable == <<pauseDb, saved, activation, taskMarks, lapsed>>
history == <<crashes, shutdowns, latest, stopDone, owed, held>>
vars    == <<memory, durable, history>>

Idle == [kind |-> "none", goal |-> NoGoal, at |-> "none"]

PauseState == {"none", "pause_requested", "paused", "resumed", "emergency_stopped"}

Paused(state) == state \in {"pause_requested", "paused"}

(* Who saves: a handler, the completion of a run, the maintenance cycle    *)
(* with the resident's activity, and the shutdown.                         *)
Writer == Dispatcher \cup Goal \cup {"cycle", "process"}

Snapshot == [active : SUBSET Goal, interrupted : SUBSET Goal, stopped : BOOLEAN]

Activated(act, goals) ==
  [g \in Goal |-> IF g \in goals /\ act[g] = "none" THEN "pending" ELSE act[g]]

Init ==
  /\ phase = "up" /\ current = GivenGoals /\ interrupted = {}
  /\ pauseMem = [g \in Goal |-> "none"] /\ pauseDb = pauseMem
  /\ stoppedGoals = {} /\ run = [g \in Goal |-> "none"]
  /\ job = [d \in Dispatcher |-> Idle] /\ todo = {} /\ writes = [w \in Writer |-> {}]
  /\ saved = [active |-> GivenGoals, interrupted |-> {}, stopped |-> FALSE]
  /\ activation = Activated([g \in Goal |-> "none"], GivenGoals)
  /\ taskMarks = {} /\ lapsed = {}
  /\ crashes = 0 /\ shutdowns = 0 /\ latest = [g \in Goal |-> "none"]
  /\ stopDone = {} /\ owed = {} /\ held = {}

(* A worker that has the goal; while the lease is awaited there is none. *)
HasWorker(g) == run[g] \in {"running", "completing", "checkpointing", "ending"}

At(d, kind, stage) == job[d].kind = kind /\ job[d].at = stage
Goes(d, stage)     == job' = [job EXCEPT ![d].at = stage]
Done(d)            == job' = [job EXCEPT ![d] = Idle]

Saving(w) == writes[w] # {}

(* saveDaemonState, up to its await. *)
BeginsSave(w, goals, interr, stopped) ==
  writes' = [writes EXCEPT ![w] = {[active |-> goals, interrupted |-> interr, stopped |-> stopped]}]

(* refreshOperationalState and saveDaemonState with the new goals. *)
Saves(w, goals, interr) ==
  /\ current' = goals /\ interrupted' = interr
  /\ BeginsSave(w, goals, interr, FALSE)

(* Mutant of ActivateGoal: the goal stays stopped. *)
ActivateGoalStopped(g) ==
  /\ activation' = Activated(activation, {g})
  /\ UNCHANGED stoppedGoals

(* The supervisor's activateGoal and deactivateGoal. *)
ActivateGoal(g) ==
  /\ stoppedGoals' = stoppedGoals \ {g}
  /\ activation' = Activated(activation, {g})

DeactivateGoal(g) == stoppedGoals' = stoppedGoals \cup {g} /\ UNCHANGED activation

SetPause(g, state) ==
  /\ pauseDb' = [pauseDb EXCEPT ![g] = state]
  /\ pauseMem' = [pauseMem EXCEPT ![g] = state]

(* A command that overlaps another one for its goal promises nothing. *)
Underway(kinds, g) == \E d \in Dispatcher : job[d].kind \in kinds /\ job[d].goal = g

(* Nor does one that finds a run under way, whose activation it shares.    *)
StartIsDone(g) ==
  owed' = IF Underway({"stop", "pause"}, g) \/ HasWorker(g) THEN owed ELSE owed \cup {g}

JobOnly == UNCHANGED <<phase, run, todo, saved, taskMarks, lapsed, crashes, shutdowns, latest>>

-----------------------------------------------------------------------------
(* The dispatchers *)

Takes(d, kind, g) ==
  /\ phase \in {"up", "draining"} /\ job[d] = Idle
  /\ d = "event" => kind = "start"
  /\ job' = [job EXCEPT ![d] = [kind |-> kind, goal |-> g, at |-> "received"]]
  /\ stopDone' = IF kind \in {"start", "pause"} THEN stopDone \ {g} ELSE stopDone
  /\ owed' = IF kind \in {"stop", "pause"} THEN owed \ {g} ELSE owed
  /\ UNCHANGED <<phase, current, interrupted, pauseMem, stoppedGoals, run, todo, writes,
                 pauseDb, saved, activation, taskMarks, crashes, shutdowns, held>>

Receive(d, kind, g) ==
  /\ kind \in Commands /\ Takes(d, kind, g)
  /\ latest' = IF MayRetry THEN [latest EXCEPT ![g] = kind] ELSE latest
  /\ UNCHANGED lapsed

(* A command whose claim was swept or nacked is taken again, also after    *)
(* commands that were given later.                                         *)
Redeliver(d, c) ==
  /\ c \in lapsed /\ c.d = d
  /\ Takes(d, c.kind, c.goal)
  /\ lapsed' = lapsed \ {c}
  /\ UNCHANGED latest

(* The claim of what dispatcher d handles. *)
ClaimOf(d) == [d |-> d, kind |-> job[d].kind, goal |-> job[d].goal]

(* The dispatchers do not renew their claims: the sweeper returns the      *)
(* command while it is handled, and the ack finds nothing.                 *)
ClaimExpires(d) ==
  /\ MayRetry /\ job[d] # Idle
  /\ lapsed' = lapsed \cup {ClaimOf(d)}
  /\ UNCHANGED <<memory, pauseDb, saved, activation, taskMarks, history>>

(* The handler throws where it awaits anything but a save: the claim is    *)
(* nacked.                                                                 *)
HandlerFails(d) ==
  /\ MayRetry /\ job[d] # Idle /\ ~Saving(d) /\ Done(d)
  /\ lapsed' = lapsed \cup {ClaimOf(d)}
  /\ UNCHANGED <<phase, current, interrupted, pauseMem, stoppedGoals, run, todo, writes,
                 pauseDb, saved, activation, taskMarks, history>>

(* handleGoalStartCommand, after the decision is recorded. *)
StartSaves(d) ==
  LET g == job[d].goal IN
  /\ At(d, "start", "received") /\ Goes(d, "saved")
  /\ Saves(d, current \cup {g}, interrupted)
  /\ held' = held \ {g}
  /\ JobOnly /\ UNCHANGED <<pauseMem, pauseDb, stoppedGoals, activation, stopDone, owed>>

StartActivates(d) ==
  /\ At(d, "start", "saved") /\ ~Saving(d) /\ Done(d)
  /\ ActivateGoal(job[d].goal) /\ StartIsDone(job[d].goal)
  /\ JobOnly /\ UNCHANGED <<current, interrupted, pauseMem, pauseDb, writes, stopDone, held>>

(* handleGoalStopCommand. *)
StopDrops(d) ==
  LET g == job[d].goal IN
  /\ At(d, "stop", "received") /\ Goes(d, "marking")
  /\ current' = current \ {g} /\ interrupted' = interrupted \ {g}
  /\ JobOnly
  /\ UNCHANGED <<pauseMem, pauseDb, writes, stoppedGoals, activation, stopDone, owed, held>>

StopMarks(d) ==
  /\ At(d, "stop", "marking") /\ Goes(d, "saved")
  /\ SetPause(job[d].goal, "emergency_stopped")
  /\ Saves(d, current, interrupted)
  /\ JobOnly /\ UNCHANGED <<stoppedGoals, activation, stopDone, owed, held>>

StopDeactivates(d) ==
  LET g == job[d].goal IN
  /\ At(d, "stop", "saved") /\ ~Saving(d) /\ Done(d)
  /\ DeactivateGoal(g)
  /\ stopDone' = IF Underway({"start"}, g) THEN stopDone ELSE stopDone \cup {g}
  /\ JobOnly /\ UNCHANGED <<current, interrupted, pauseMem, pauseDb, writes, owed, held>>

(* handleGoalPauseCommand. *)
PauseRequests(d) ==
  /\ At(d, "pause", "received") /\ Goes(d, "saved")
  /\ SetPause(job[d].goal, "pause_requested")
  /\ Saves(d, current, interrupted)
  /\ JobOnly /\ UNCHANGED <<stoppedGoals, activation, stopDone, owed, held>>

PauseDeactivates(d) ==
  LET g == job[d].goal IN
  /\ At(d, "pause", "saved") /\ ~Saving(d)
  /\ DeactivateGoal(g)
  /\ IF (g \notin current \/ ~HasWorker(g)) /\ pauseMem[g] = "pause_requested"
     THEN Goes(d, "checkpointing") ELSE Done(d)
  /\ JobOnly
  /\ UNCHANGED <<current, interrupted, pauseMem, pauseDb, writes, stopDone, owed, held>>

(* checkpointPauseIfRequested, once the checkpoint is stored. *)
Checkpoint(w, g) ==
  /\ SetPause(g, "paused")
  /\ Saves(w, current \ {g}, interrupted)
  /\ DeactivateGoal(g)

PauseCheckpoints(d) ==
  /\ At(d, "pause", "checkpointing") /\ Goes(d, "reporting")
  /\ Checkpoint(d, job[d].goal)
  /\ JobOnly /\ UNCHANGED <<stopDone, owed, held>>

(* handleGoalResumeCommand: anything but a pause is only reported. *)
ResumeIgnored(d) ==
  LET g == job[d].goal IN
  /\ At(d, "resume", "received") /\ ~Paused(pauseDb[g]) /\ Goes(d, "reporting")
  /\ IF pauseDb[g] # "none"
     THEN pauseMem' = [pauseMem EXCEPT ![g] = pauseDb[g]] /\ Saves(d, current, interrupted)
     ELSE UNCHANGED <<pauseMem, current, interrupted, writes>>
  /\ JobOnly /\ UNCHANGED <<pauseDb, stoppedGoals, activation, stopDone, owed, held>>

ResumeMarks(d) ==
  LET g == job[d].goal IN
  /\ At(d, "resume", "received") /\ Paused(pauseDb[g]) /\ Goes(d, "marked")
  /\ pauseDb' = [pauseDb EXCEPT ![g] = "resumed"]
  /\ JobOnly
  /\ UNCHANGED <<current, interrupted, pauseMem, writes, stoppedGoals, activation, stopDone,
                 owed, held>>

ResumeSaves(d) ==
  LET g == job[d].goal IN
  /\ At(d, "resume", "marked") /\ Goes(d, "saved")
  /\ pauseMem' = [pauseMem EXCEPT ![g] = "resumed"]
  /\ Saves(d, current \cup {g}, interrupted)
  /\ held' = held \ {g}
  /\ JobOnly /\ UNCHANGED <<pauseDb, stoppedGoals, activation, stopDone, owed>>

ResumeActivates(d) ==
  /\ At(d, "resume", "saved") /\ ~Saving(d) /\ Done(d)
  /\ ActivateGoal(job[d].goal) /\ StartIsDone(job[d].goal)
  /\ JobOnly /\ UNCHANGED <<current, interrupted, pauseMem, pauseDb, writes, stopDone, held>>

(* A handler that ends with a save has only to broadcast after it. *)
Reports(d) ==
  /\ job[d].at = "reporting" /\ ~Saving(d) /\ Done(d)
  /\ JobOnly
  /\ UNCHANGED <<current, interrupted, pauseMem, pauseDb, writes, stoppedGoals, activation,
                 stopDone, owed, held>>

Handle(d) ==
  \/ StartSaves(d) \/ StartActivates(d)
  \/ StopDrops(d) \/ StopMarks(d) \/ StopDeactivates(d)
  \/ PauseRequests(d) \/ PauseDeactivates(d) \/ PauseCheckpoints(d)
  \/ ResumeIgnored(d) \/ ResumeMarks(d) \/ ResumeSaves(d) \/ ResumeActivates(d)
  \/ Reports(d)

-----------------------------------------------------------------------------
(* The maintenance cycle *)

CycleReads(goals) ==
  /\ MayMaintain /\ phase = "up" /\ todo = {}
  /\ goals \subseteq current /\ goals # {}
  /\ todo' = goals
  /\ UNCHANGED <<phase, current, interrupted, pauseMem, stoppedGoals, run, job, writes, durable,
                 history>>

(* The admission of goal g has been recorded. *)
CycleActivates(g) ==
  /\ phase # "down" /\ g \in todo
  /\ todo' = todo \ {g}
  /\ ActivateGoal(g)
  /\ UNCHANGED <<phase, current, interrupted, pauseMem, run, job, writes, pauseDb, saved,
                 taskMarks, lapsed, history>>

(* The cycle's save at its end, and that of persistResidentActivity at any *)
(* time.  A shutdown does not wait for it.                                 *)
CycleSaves ==
  /\ ResidentSaves /\ phase # "down" /\ ~Saving("cycle")
  /\ BeginsSave("cycle", current, interrupted, phase = "closing")
  /\ UNCHANGED <<phase, current, interrupted, pauseMem, stoppedGoals, run, job, todo, durable,
                 history>>

-----------------------------------------------------------------------------
(* The saves, whoever waits for them *)

SaveLands(w) ==
  /\ Saving(w)
  /\ saved' \in writes[w] /\ writes' = [writes EXCEPT ![w] = {}]
  /\ UNCHANGED <<phase, current, interrupted, pauseMem, stoppedGoals, run, job, todo, pauseDb,
                 activation, taskMarks, lapsed, history>>

(* saveDaemonStateFile logs the error and returns. *)
SaveFails(w) ==
  /\ SavesMayFail /\ Saving(w)
  /\ writes' = [writes EXCEPT ![w] = {}]
  /\ UNCHANGED <<phase, current, interrupted, pauseMem, stoppedGoals, run, job, todo, durable,
                 history>>

-----------------------------------------------------------------------------
(* The supervisor's execution of a goal *)

RunOnly ==
  UNCHANGED <<phase, job, todo, saved, lapsed, crashes, shutdowns, latest, stopDone, held>>

RunGoes(g, stage) == run' = [run EXCEPT ![g] = stage]

(* pollAndAssign: a stopped goal's activation is acked, any other goes on  *)
(* to the lease.                                                           *)
PollDrops(g) ==
  /\ phase = "up" /\ activation[g] = "pending" /\ run[g] = "none" /\ g \in stoppedGoals
  /\ activation' = [activation EXCEPT ![g] = "none"]
  /\ RunOnly
  /\ UNCHANGED <<current, interrupted, pauseMem, stoppedGoals, run,
                 writes, pauseDb, taskMarks, owed>>

PollPasses(g) ==
  /\ phase = "up" /\ activation[g] = "pending" /\ run[g] = "none" /\ g \notin stoppedGoals
  /\ activation' = [activation EXCEPT ![g] = "inflight"]
  /\ RunGoes(g, "leasing")
  /\ RunOnly
  /\ UNCHANGED <<current, interrupted, pauseMem, stoppedGoals,
                 writes, pauseDb, taskMarks, owed>>

Dispatch(g) ==
  /\ run[g] = "leasing"
  /\ IF phase = "up"
     THEN /\ RunGoes(g, "running") /\ taskMarks' = taskMarks \cup {g}
          /\ owed' = owed \ {g} /\ UNCHANGED activation
     ELSE /\ RunGoes(g, "none") /\ activation' = [activation EXCEPT ![g] = "pending"]
          /\ UNCHANGED <<taskMarks, owed>>
  /\ RunOnly /\ UNCHANGED <<current, interrupted, pauseMem, stoppedGoals, writes, pauseDb>>

(* The run ends well, or is aborted: onGoalComplete, which saves first. *)
RunEnds(g) ==
  /\ run[g] = "running"
  /\ RunGoes(g, "completing") /\ taskMarks' = taskMarks \ {g}
  /\ BeginsSave(g, current, interrupted, FALSE)
  /\ RunOnly
  /\ UNCHANGED <<current, interrupted, pauseMem, stoppedGoals,
                 pauseDb, activation, owed>>

(* The run ends with an error: retried after a backoff, or suspended, and  *)
(* onGoalComplete is not called.                                           *)
RunFails(g) ==
  /\ RunsMayFail /\ run[g] = "running"
  /\ RunGoes(g, "none") /\ taskMarks' = taskMarks \ {g}
  /\ \E act \in {"pending", "none"} : activation' = [activation EXCEPT ![g] = act]
  /\ RunOnly
  /\ UNCHANGED <<current, interrupted, pauseMem, stoppedGoals,
                 writes, pauseDb, owed>>

CompletionChecks(g) ==
  /\ run[g] = "completing" /\ ~Saving(g)
  /\ RunGoes(g, IF pauseMem[g] = "pause_requested" THEN "checkpointing" ELSE "ending")
  /\ RunOnly
  /\ UNCHANGED <<current, interrupted, pauseMem, stoppedGoals,
                 writes, pauseDb, activation, taskMarks, owed>>

CompletionCheckpoints(g) ==
  /\ run[g] = "checkpointing" /\ RunGoes(g, "ending")
  /\ Checkpoint(g, g)
  /\ RunOnly /\ UNCHANGED <<taskMarks, owed>>

(* The claim is acked, the lease released, the active entry deleted. *)
RunCloses(g) ==
  /\ run[g] = "ending" /\ ~Saving(g) /\ RunGoes(g, "none")
  /\ activation' = [activation EXCEPT ![g] = "none"]
  /\ RunOnly
  /\ UNCHANGED <<current, interrupted, pauseMem, stoppedGoals,
                 writes, pauseDb, taskMarks, owed>>

(* The grace period of the shutdown is over: the claim goes back, and the  *)
(* tasks of the goal are reconciled.                                       *)
Relinquish(g) ==
  /\ phase = "draining" /\ HasWorker(g) /\ RunGoes(g, "none")
  /\ activation' = [activation EXCEPT ![g] = "pending"]
  /\ taskMarks' = taskMarks \ {g}
  /\ RunOnly
  /\ UNCHANGED <<current, interrupted, pauseMem, stoppedGoals,
                 writes, pauseDb, owed>>

(* The claim of a dead process expires. *)
Sweep(g) ==
  /\ phase = "up" /\ activation[g] = "inflight" /\ run[g] = "none"
  /\ activation' = [activation EXCEPT ![g] = "pending"]
  /\ RunOnly
  /\ UNCHANGED <<current, interrupted, pauseMem, stoppedGoals, run,
                 writes, pauseDb, taskMarks, owed>>

RunStep(g) ==
  \/ PollDrops(g) \/ PollPasses(g) \/ Dispatch(g) \/ RunEnds(g) \/ RunFails(g)
  \/ CompletionChecks(g) \/ CompletionCheckpoints(g) \/ RunCloses(g)

-----------------------------------------------------------------------------
(* The process *)

BeginShutdown ==
  /\ phase = "up" /\ shutdowns < MaxShutdowns
  /\ phase' = "draining" /\ shutdowns' = shutdowns + 1
  /\ interrupted' = current
  /\ UNCHANGED <<current, pauseMem, stoppedGoals, run, job, todo, writes, durable, crashes, latest,
                 stopDone, owed, held>>

(* The dispatchers wait for what they handle; cleanupDaemonRun saves the   *)
(* state as that of a daemon that has stopped.                             *)
Cleanup ==
  /\ phase = "draining" /\ phase' = "closing"
  /\ \A g \in Goal : run[g] = "none"
  /\ \A d \in Dispatcher : job[d] = Idle
  /\ BeginsSave("process", current, interrupted, TRUE)
  /\ UNCHANGED <<current, interrupted, pauseMem, stoppedGoals, run, job, todo, durable, history>>

MemoryLost ==
  /\ phase' = "down" /\ current' = {} /\ interrupted' = {}
  /\ pauseMem' = [g \in Goal |-> "none"] /\ stoppedGoals' = {}
  /\ run' = [g \in Goal |-> "none"] /\ job' = [d \in Dispatcher |-> Idle] /\ todo' = {}
  /\ writes' = [w \in Writer |-> {}]
  /\ held' = {}

Exit ==
  /\ phase = "closing" /\ ~Saving("process")
  /\ MemoryLost
  /\ UNCHANGED <<durable, crashes, shutdowns, latest, stopDone, owed>>

Crash ==
  /\ phase # "down" /\ crashes < MaxCrashes
  /\ MemoryLost
  /\ crashes' = crashes + 1
  /\ lapsed' = lapsed \cup {ClaimOf(d) : d \in {e \in Dispatcher : job[e] # Idle}}
  /\ UNCHANGED <<pauseDb, saved, activation, taskMarks, shutdowns, latest, stopDone, owed>>

(* restoreInterruptedGoals *)
Restored ==
  IF saved.interrupted # {} THEN saved.interrupted
  ELSE IF saved.stopped THEN {} ELSE saved.active

(* Mutant of PausedGoals: a pause that was only requested is forgotten. *)
PausedGoalsCheckpointed == {g \in Goal : pauseDb[g] = "paused"}

(* restoreSafePauseStateFromStore *)
PausedGoals == {g \in Goal : Paused(pauseDb[g])}

(* startDaemonRunner: restored and reconciled goals without the paused     *)
(* ones, whose activations are dead-lettered; the rest is enqueued.  The   *)
(* state is saved with the paused goals and again without them.            *)
Restart ==
  LET found == GivenGoals \cup Restored \cup taskMarks
      goals == found \ PausedGoals
      As(gs) == [active |-> gs, interrupted |-> {}, stopped |-> FALSE]
  IN
  /\ phase = "down" /\ phase' = "up"
  /\ current' = goals /\ interrupted' = {} /\ taskMarks' = {}
  /\ pauseMem' = pauseDb
  /\ saved' \in IF SavesMayFail THEN {saved, As(found), As(goals)} ELSE {As(goals)}
  /\ activation' = Activated([g \in Goal |-> IF g \in PausedGoals THEN "none"
                                            ELSE activation[g]], goals)
  /\ held' = {g \in Goal : Paused(pauseDb[g])}
  /\ owed' = owed \ PausedGoals
  /\ UNCHANGED <<stoppedGoals, run, job, todo, writes, pauseDb, lapsed, crashes, shutdowns,
                 latest, stopDone>>

Next ==
  \/ \E d \in Dispatcher : 
       \/ Handle(d) \/ ClaimExpires(d) \/ HandlerFails(d)
       \/ \E c \in lapsed : Redeliver(d, c)
  \/ \E d \in Dispatcher, kind \in Commands, g \in Goal : Receive(d, kind, g)
  \/ \E goals \in SUBSET current : CycleReads(goals)
  \/ CycleSaves
  \/ \E w \in Writer : SaveLands(w) \/ SaveFails(w)
  \/ \E g \in Goal : CycleActivates(g) \/ RunStep(g) \/ Relinquish(g) \/ Sweep(g)
  \/ BeginShutdown \/ Cleanup \/ Exit \/ Crash \/ Restart

Spec == Init /\ [][Next]_vars

(* Promises and timers of a live process make progress and a run ends.     *)
FairSpec ==
  /\ Spec
  /\ \A d \in Dispatcher : WF_vars(Handle(d))
  /\ \A w \in Writer : WF_vars(SaveLands(w) \/ SaveFails(w))
  /\ \A g \in Goal : WF_vars(RunStep(g)) /\ WF_vars(Sweep(g)) /\ WF_vars(CycleActivates(g))

-----------------------------------------------------------------------------
(* Properties *)

RunStages == {"none", "leasing", "running", "completing", "checkpointing", "ending"}

(* Type invariant.  A run holds its goal's activation, and only a run of a *)
(* live process or a process that died left one in flight.                 *)
TypeOK ==
  /\ phase \in {"up", "draining", "closing", "down"}
  /\ current \subseteq Goal /\ interrupted \subseteq Goal /\ todo \subseteq Goal
  /\ pauseMem \in [Goal -> PauseState] /\ pauseDb \in [Goal -> PauseState]
  /\ stoppedGoals \subseteq Goal /\ taskMarks \subseteq Goal
  /\ run \in [Goal -> RunStages]
  /\ activation \in [Goal -> {"none", "pending", "inflight"}]
  /\ job \in [Dispatcher -> [kind : {"none", "start", "stop", "pause", "resume"},
                             goal : Goal \cup {NoGoal},
                             at : {"none", "received", "marking", "marked", "saved",
                                   "checkpointing", "reporting"}]]
  /\ writes \in [Writer -> SUBSET Snapshot] /\ saved \in Snapshot
  /\ lapsed \subseteq [d : Dispatcher, kind : Commands, goal : Goal]
  /\ crashes \in 0..MaxCrashes /\ shutdowns \in 0..MaxShutdowns
  /\ \A g \in Goal : run[g] # "none" => activation[g] = "inflight"

(* A goal that was paused, or about to be, when the daemon started is not  *)
(* run, queued or planned before somebody starts or resumes it, whatever   *)
(* its activations, running tasks and interrupted entries said.            *)
RestartHonoursPause ==
  \A g \in held : /\ g \notin current /\ g \notin todo /\ run[g] = "none"
                  /\ activation[g] = "none"

(* runtime-auto-recovery.md:227 "goal_stop prevents future reactivation    *)
(* for that goal": no activation of a stopped goal passes the poll.        *)
StopPreventsReactivation ==
  [][\A g \in Goal : run[g] = "none" /\ run'[g] = "leasing" => g \notin stopDone]_vars

(* runner-commands-safe-pause.test.ts:385 "keeps emergency stop separate   *)
(* from safe pause": a goal that was stopped is not resumed.               *)
StopIsNotResumed ==
  [][\A d \in Dispatcher : At(d, "resume", "received") /\ job'[d].at = "marked"
       => job[d].goal \notin stopDone]_vars

(* runner-commands-safe-pause.test.ts:121 "records pause-requested during  *)
(* active execution, then persists a paused checkpoint at the safe         *)
(* boundary": a requested pause is reached.                                *)
PauseIsReached ==
  \A g \in Goal : pauseMem[g] = "pause_requested" ~> pauseMem[g] # "pause_requested"

(* runtime-auto-recovery.md:97 "Commands and events may be retried after   *)
(* crash recovery.  Handlers must therefore be idempotent or safely        *)
(* deduplicated": when all is handled, the goal is as the command given    *)
(* last wants it.                                                          *)
LatestCommandStands ==
  phase = "up" /\ lapsed = {} /\ (\A d \in Dispatcher : job[d] = Idle)
    => \A g \in Goal : /\ latest[g] = "start" => g \in current
                       /\ latest[g] = "stop" => g \notin current

(* A goal whose start or resume has been handled is run: until it is, or   *)
(* somebody stops or pauses it, or a start of the daemon withholds it as   *)
(* paused, its activation is in the queue and the supervisor does not drop *)
(* it, whatever polls, shutdowns, crashes, retries and earlier commands    *)
(* for it do.  (A start that finds the goal's run under way shares that    *)
(* run's activation, and one that overlaps a stop or a pause promises      *)
(* nothing.)                                                               *)
StartIsHonoured == \A g \in owed : activation[g] # "none" /\ g \notin stoppedGoals

(* runtime-auto-recovery.md:176 "restores interrupted goals": a goal whose *)
(* start was handled, and that has not run, been stopped or been paused    *)
(* since, is one of the daemon's goals after a restart.                    *)
StartedIsRestored ==
  [][phase = "down" /\ phase' = "up" => owed \subseteq current']_vars
=============================================================================
