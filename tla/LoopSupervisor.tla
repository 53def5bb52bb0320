--------------------------- MODULE LoopSupervisor ---------------------------
(***************************************************************************)
(* The supervisor of goal executions (src/runtime/executor/): it polls the *)
(* journal queue for goal activations, takes the goal lease, runs a worker *)
(* and settles the claim.  The module composes the queue and the leases,   *)
(* which outlive the daemon process, with the supervisor's memory, which   *)
(* does not.                                                               *)
(*                                                                         *)
(* The process is one JavaScript thread: an action is the code between two *)
(* awaits that wait for something, and whatever else the process does can  *)
(* come in between.  The poll's stages and each execution's phases name    *)
(* the await it stands at.  Loop runs, admission records and callbacks are *)
(* abstracted to whether they succeed, fail or throw; the control database *)
(* itself does not fail.                                                   *)
(***************************************************************************)
EXTENDS Integers, FiniteSets

CONSTANTS
  Id, EnvelopeOf, Key, NoKey, Token, NoToken, MaxAttempts, LeaseTicks,
                    (* of JournalBackedQueue                               *)
  Goal, GoalOf,     (* GoalOf[i]: the goal_id of activation i              *)
  Worker, NoWorker, (* the goal workers (config.concurrency of them)       *)
  NoId,
  MaxCrashCount,    (* config.maxCrashCount                                *)
  MaxOutages,       (* bounds how often the daemon dies or shuts down      *)
  LoopMayThrow      (* whether durableLoop.run may reject                  *)

VARIABLES
  records, ahead,   (* of JournalBackedQueue                               *)
  lease, promised,  (* of GoalLease; the owner token is the claim token    *)
  daemon,           (* "up", "stopping" (shutdown has begun) or "down"     *)
  poll,             (* the poll in progress and the claim it is handling   *)
  exec,             (* exec[w]: the execution of worker w                  *)
  crashed,          (* workers whose status is 'crashed'                   *)
  activeGoals,      (* activeGoals[g]: the worker that has goal g          *)
  crashCounts,      (* crashCounts[g], counted up to MaxCrashCount         *)
  savedCounts,      (* crashCounts as last persisted                       *)
  suspendedGoals, stoppedGoals,
  pendingTimers,    (* claims whose retry waits for its backoff timer      *)
  outages,          (* how often the daemon died or was shut down          *)
  answered,         (* history: a run began for it, or a stop withdrew it  *)
  healthy           (* history: no outage and no lost ownership so far     *)

queueVars == <<records, ahead>>
leaseVars == <<lease, promised>>
vars == <<records, ahead, lease, promised, daemon, poll, exec, crashed, activeGoals,
          crashCounts, savedCounts, suspendedGoals, stoppedGoals, pendingTimers,
          outages, answered, healthy>>

Queue == INSTANCE JournalBackedQueue WITH
  Handles <- [w \in Worker |-> Id], AttemptBound <- 0

Leases == INSTANCE GoalLease WITH
  Owner <- Token, NoOwner <- NoToken, MaxLag <- 0

ASSUME SupervisorAssumption ==
  /\ Queue!QueueAssumption /\ Leases!LeaseAssumption
  /\ GoalOf \in [Id -> Goal]
  /\ NoWorker \notin Worker /\ NoId \notin Id
  /\ MaxCrashCount \in Nat \ {0} /\ MaxOutages \in Nat
  /\ LoopMayThrow \in BOOLEAN

-----------------------------------------------------------------------------

NoPoll == [stage |-> "none", worker |-> NoWorker, id |-> NoId, token |-> NoToken,
           rest |-> {}]

NoExec == [phase |-> "none", id |-> NoId, token |-> NoToken, outcome |-> "none",
           extend |-> FALSE, lost |-> FALSE, relinquished |-> FALSE]

Init ==
  /\ Queue!Init /\ Leases!Init
  /\ daemon = "up" /\ poll = NoPoll
  /\ exec = [w \in Worker |-> NoExec]
  /\ crashed = {}
  /\ activeGoals = [g \in Goal |-> NoWorker]
  /\ crashCounts = [g \in Goal |-> 0] /\ savedCounts = [g \in Goal |-> 0]
  /\ suspendedGoals = {} /\ stoppedGoals = {} /\ pendingTimers = {}
  /\ outages = 0 /\ answered = {} /\ healthy = TRUE

In(w, phase)     == exec[w].phase = phase
Enters(w, phase) == exec' = [exec EXCEPT ![w].phase = phase]
Busy(w)          == ~In(w, "none")
GoalAt(w)        == GoalOf[exec[w].id]
PollGoal         == GoalOf[poll.id]

(* Claim tokens the process still works with. *)
InUse == {exec[w].token : w \in Worker} \cup {poll.token} \cup pendingTimers

(* isIdle() is about the worker's own status, which execute() sets. *)
IdleWorkers ==
  {w \in Worker : /\ w \notin crashed /\ exec[w].phase \notin {"running", "checking"}
                  /\ \A g \in Goal : activeGoals[g] # w}

(* ack, nack and release change nothing for a token that owns nothing. *)
TryAck(t) ==
  IF \E i \in Id : Queue!LiveClaim(i, t) THEN Queue!Ack(t) ELSE UNCHANGED queueVars

TryNack(t, requeue) ==
  IF \E i \in Id : Queue!LiveClaim(i, t) THEN Queue!Nack(t, requeue) ELSE UNCHANGED queueVars

TryRelease(t, g) ==
  IF lease[g].owner = t THEN Leases!Release(t, g) ELSE UNCHANGED leaseVars

(* A run that begins, or a stop, answers every activation made so far.  *)
AnswersAll(g) == answered' = answered \cup {i \in Id : GoalOf[i] = g /\ ~Queue!Is(i, "absent")}

-----------------------------------------------------------------------------
(* Activations *)

(* activateGoal lifts a stop and a suspension, whether the queue takes the *)
(* new activation or refuses it as a duplicate.  start() enqueues the      *)
(* initial goals the same way.                                             *)
ActivateGoal(i) ==
  /\ daemon = "up"
  /\ Queue!Is(i, "absent")
  /\ IF Queue!AcceptRefused(i, EnvelopeOf[i].ttl) THEN UNCHANGED queueVars
     ELSE Queue!Accept(i, EnvelopeOf[i].ttl)
  /\ stoppedGoals' = stoppedGoals \ {GoalOf[i]}
  /\ suspendedGoals' = suspendedGoals \ {GoalOf[i]}
  /\ answered' = answered \ {i}
  /\ UNCHANGED <<leaseVars, daemon, poll, exec, crashed, activeGoals, crashCounts,
                 savedCounts, pendingTimers, outages, healthy>>

DeactivateGoal(g) ==
  /\ daemon = "up"
  /\ stoppedGoals' = stoppedGoals \cup {g}
  /\ UNCHANGED <<queueVars, leaseVars, daemon, poll, exec, crashed, activeGoals, crashCounts,
                 savedCounts, suspendedGoals, pendingTimers, outages, answered, healthy>>

-----------------------------------------------------------------------------
(* pollAndAssign *)

PollOnly == UNCHANGED <<daemon, crashed, crashCounts, suspendedGoals, stoppedGoals,
                        pendingTimers, outages, healthy>>

Candidates == IF poll.stage = "next" THEN poll.rest ELSE IdleWorkers

MayClaim == poll.stage = "next" \/ (poll.stage = "none" /\ daemon = "up")

NextWorker == poll' = IF poll.rest = {} THEN NoPoll
                      ELSE [NoPoll EXCEPT !.stage = "next", !.rest = poll.rest]

(* A poll starts, or goes on to its next idle worker, and claims for it. *)
PollClaim(w, t, i) ==
  /\ MayClaim /\ w \in Candidates
  /\ t \notin InUse /\ \A g \in Goal : lease[g].owner # t
  /\ Queue!Claim(Id, t, i)
  /\ poll' = [stage |-> "claimed", worker |-> w, id |-> i, token |-> t,
              rest |-> Candidates \ {w}]
  /\ PollOnly /\ UNCHANGED <<leaseVars, exec, activeGoals, savedCounts, answered>>

(* Nothing to claim ends the poll; the scan may still dead-letter rows. *)
PollEmpty ==
  /\ MayClaim /\ Candidates # {} /\ Queue!Eligible(Id) = {}
  /\ IF Queue!Pending # {} THEN Queue!ClaimNothing(Id)
     ELSE poll.stage = "next" /\ UNCHANGED queueVars
  /\ poll' = NoPoll
  /\ PollOnly /\ UNCHANGED <<leaseVars, exec, activeGoals, savedCounts, answered>>

(* The goal is being worked on: ask its worker for another round, and ack  *)
(* once the coalesced background run has been recorded.                    *)
Coalesce ==
  /\ poll.stage = "claimed" /\ activeGoals[PollGoal] # NoWorker
  /\ exec' = [exec EXCEPT ![activeGoals[PollGoal]].extend = TRUE]
  /\ poll' = [poll EXCEPT !.stage = "coalesced"]
  /\ PollOnly /\ UNCHANGED <<queueVars, leaseVars, activeGoals, savedCounts, answered>>

AckCoalesced ==
  /\ poll.stage = "coalesced"
  /\ TryAck(poll.token) /\ NextWorker
  /\ PollOnly /\ UNCHANGED <<leaseVars, exec, activeGoals, savedCounts, answered>>

DropStoppedUnsettled ==
  /\ poll.stage = "claimed" /\ activeGoals[PollGoal] = NoWorker
  /\ PollGoal \in stoppedGoals
  /\ NextWorker
  /\ PollOnly
  /\ UNCHANGED <<queueVars, leaseVars, exec, activeGoals, savedCounts, answered>>

DropStopped ==
  /\ poll.stage = "claimed" /\ activeGoals[PollGoal] = NoWorker
  /\ PollGoal \in stoppedGoals
  /\ TryAck(poll.token) /\ NextWorker
  /\ AnswersAll(PollGoal)
  /\ PollOnly /\ UNCHANGED <<leaseVars, exec, activeGoals, savedCounts>>

DropSuspended ==
  /\ poll.stage = "claimed" /\ activeGoals[PollGoal] = NoWorker
  /\ PollGoal \notin stoppedGoals /\ PollGoal \in suspendedGoals
  /\ TryNack(poll.token, FALSE) /\ NextWorker
  /\ PollOnly /\ UNCHANGED <<leaseVars, exec, activeGoals, savedCounts, answered>>

SeekLeaseActive ==
  /\ poll.stage = "claimed"
  /\ PollGoal \notin stoppedGoals \cup suspendedGoals
  /\ poll' = [poll EXCEPT !.stage = "leasing"]
  /\ PollOnly /\ UNCHANGED <<queueVars, leaseVars, exec, activeGoals, savedCounts, answered>>

SeekLeaseSuspended ==
  /\ poll.stage = "claimed" /\ activeGoals[PollGoal] = NoWorker
  /\ PollGoal \notin stoppedGoals
  /\ poll' = [poll EXCEPT !.stage = "leasing"]
  /\ PollOnly /\ UNCHANGED <<queueVars, leaseVars, exec, activeGoals, savedCounts, answered>>

SeekLease ==
  /\ poll.stage = "claimed" /\ activeGoals[PollGoal] = NoWorker
  /\ PollGoal \notin stoppedGoals \cup suspendedGoals
  /\ poll' = [poll EXCEPT !.stage = "leasing"]
  /\ PollOnly /\ UNCHANGED <<queueVars, leaseVars, exec, activeGoals, savedCounts, answered>>

LeaseUnavailable ==
  /\ poll.stage = "leasing"
  /\ Leases!Owned(PollGoal) /\ Leases!LiveAt(PollGoal, 0)
  /\ TryNack(poll.token, TRUE) /\ NextWorker
  /\ PollOnly /\ UNCHANGED <<leaseVars, exec, activeGoals, savedCounts, answered>>

(* Shutdown began meanwhile: the claim and the new lease are given back. *)
StoppingAtDispatch ==
  /\ poll.stage = "leasing" /\ daemon = "stopping"
  /\ ~(Leases!Owned(PollGoal) /\ Leases!LiveAt(PollGoal, 0))
  /\ TryNack(poll.token, TRUE)
  /\ lease' = [lease EXCEPT ![PollGoal] = Leases!NoLease]
  /\ poll' = NoPoll
  /\ PollOnly /\ UNCHANGED <<promised, exec, activeGoals, savedCounts, answered>>

(* The lease is taken, the goal marked active, the execution started: write *)
(* fence and renew loop are in place when it first awaits.                  *)
Dispatch ==
  /\ poll.stage = "leasing" /\ daemon = "up"
  /\ Leases!Acquire(poll.token, PollGoal, 0)
  /\ activeGoals' = [activeGoals EXCEPT ![PollGoal] = poll.worker]
  /\ exec' = [exec EXCEPT ![poll.worker] =
                [NoExec EXCEPT !.phase = "admitting", !.id = poll.id, !.token = poll.token]]
  /\ savedCounts' = crashCounts
  /\ NextWorker
  /\ PollOnly /\ UNCHANGED <<queueVars, answered>>

PollStep ==
  \/ \E w \in Worker, t \in Token, i \in Id : PollClaim(w, t, i)
  \/ PollEmpty \/ Coalesce \/ AckCoalesced \/ DropStopped \/ DropSuspended
  \/ SeekLease \/ LeaseUnavailable \/ StoppingAtDispatch \/ Dispatch

-----------------------------------------------------------------------------
(* executeWorker and GoalWorker.execute *)

ExecOnly == UNCHANGED <<daemon, poll, stoppedGoals, outages, healthy>>

(* Admission is recorded; the worker forgets earlier extend requests. *)
BeginRun(w) ==
  /\ In(w, "admitting")
  /\ exec' = [exec EXCEPT ![w].phase = "running", ![w].extend = FALSE]
  /\ AnswersAll(GoalAt(w))
  /\ savedCounts' = crashCounts
  /\ ExecOnly
  /\ UNCHANGED <<queueVars, leaseVars, crashed, activeGoals, crashCounts, suspendedGoals,
                 pendingTimers>>

(* The durable loop returns; the completion hook persists the state. *)
RunReturns(w, outcome) ==
  /\ In(w, "running")
  /\ exec' = [exec EXCEPT ![w].phase = "checking", ![w].outcome = outcome]
  /\ savedCounts' = crashCounts
  /\ ExecOnly
  /\ UNCHANGED <<queueVars, leaseVars, crashed, activeGoals, crashCounts, suspendedGoals,
                 pendingTimers, answered>>

(* The durable loop rejects and nothing aborted it: the status 'crashed'   *)
(* stays with the worker.                                                  *)
RunThrows(w) ==
  /\ LoopMayThrow
  /\ In(w, "running")
  /\ exec' = [exec EXCEPT ![w].phase = "judging", ![w].outcome = "error"]
  /\ crashed' = crashed \cup {w}
  /\ ExecOnly
  /\ UNCHANGED <<queueVars, leaseVars, activeGoals, crashCounts, savedCounts, suspendedGoals,
                 pendingTimers, answered>>

(* The shutdown's abort ends a run whatever it does: status 'stopped'. *)
RunAborted(w) ==
  /\ daemon = "stopping" /\ In(w, "running")
  /\ exec' = [exec EXCEPT ![w].phase = "judging", ![w].outcome = "done"]
  /\ ExecOnly
  /\ UNCHANGED <<queueVars, leaseVars, crashed, activeGoals, crashCounts, savedCounts,
                 suspendedGoals, pendingTimers, answered>>

(* The do-while condition, one setImmediate after the run. *)
CheckExtend(w) ==
  /\ In(w, "checking")
  /\ IF exec[w].extend
     THEN /\ exec' = [exec EXCEPT ![w].phase = "running", ![w].extend = FALSE]
          /\ AnswersAll(GoalAt(w))
     ELSE Enters(w, "judging") /\ UNCHANGED answered
  /\ ExecOnly
  /\ UNCHANGED <<queueVars, leaseVars, crashed, activeGoals, crashCounts, savedCounts,
                 suspendedGoals, pendingTimers>>

JudgeOnly == UNCHANGED <<leaseVars, crashed, activeGoals, savedCounts, answered>>

(* The execution was given up by the shutdown: nothing is settled. *)
JudgeRelinquished(w) ==
  /\ In(w, "judging") /\ exec[w].relinquished
  /\ Enters(w, "releasing")
  /\ ExecOnly /\ JudgeOnly
  /\ UNCHANGED <<queueVars, crashCounts, suspendedGoals, pendingTimers>>

JudgeSuccess(w) ==
  /\ In(w, "judging") /\ ~exec[w].relinquished /\ exec[w].outcome = "done"
  /\ crashCounts' = [crashCounts EXCEPT ![GoalAt(w)] = 0]
  /\ suspendedGoals' = suspendedGoals \ {GoalAt(w)}
  /\ Enters(w, "completing")
  /\ ExecOnly /\ JudgeOnly
  /\ UNCHANGED <<queueVars, pendingTimers>>

LastCrash(w) == crashCounts[GoalAt(w)] + 1 >= MaxCrashCount

CountCrash(w) ==
  crashCounts' = [crashCounts EXCEPT ![GoalAt(w)] = IF @ < MaxCrashCount THEN @ + 1 ELSE @]

JudgeSuspend(w) ==
  /\ In(w, "judging") /\ ~exec[w].relinquished /\ exec[w].outcome = "error"
  /\ LastCrash(w) /\ CountCrash(w)
  /\ suspendedGoals' = suspendedGoals \cup {GoalAt(w)}
  /\ Enters(w, "dropping")
  /\ ExecOnly /\ JudgeOnly
  /\ UNCHANGED <<queueVars, pendingTimers>>

(* deferDurableRetry: the claim is kept, renewed, until the backoff timer. *)
JudgeRetry(w) ==
  LET t == exec[w].token
      deferred == ~exec[w].lost /\ \E i \in Id : Queue!LiveClaim(i, t)
  IN
  /\ In(w, "judging") /\ ~exec[w].relinquished /\ exec[w].outcome = "error"
  /\ ~LastCrash(w) /\ CountCrash(w)
  /\ IF deferred THEN Queue!Renew(t) /\ pendingTimers' = pendingTimers \cup {t}
     ELSE UNCHANGED <<queueVars, pendingTimers>>
  /\ Enters(w, "releasing")
  /\ ExecOnly /\ JudgeOnly
  /\ UNCHANGED suspendedGoals

SettleOnly ==
  UNCHANGED <<leaseVars, crashed, activeGoals, crashCounts, savedCounts, suspendedGoals,
              pendingTimers, answered>>

(* onGoalComplete has returned or failed, the background run is terminal. *)
CompleteClaim(w) ==
  /\ In(w, "completing")
  /\ IF exec[w].lost THEN UNCHANGED queueVars ELSE TryAck(exec[w].token)
  /\ Enters(w, "releasing")
  /\ ExecOnly /\ SettleOnly

DropClaim(w) ==
  /\ In(w, "dropping")
  /\ IF exec[w].lost THEN UNCHANGED queueVars ELSE TryNack(exec[w].token, FALSE)
  /\ Enters(w, "releasing")
  /\ ExecOnly /\ SettleOnly

(* Preparing the execution throws: the catch clause returns the claim. *)
AdmissionFails(w) ==
  /\ In(w, "admitting")
  /\ IF exec[w].lost THEN UNCHANGED queueVars ELSE TryNack(exec[w].token, TRUE)
  /\ Enters(w, "releasing")
  /\ ExecOnly /\ SettleOnly

(* The end of the finally clause.  The active entry goes by goal id. *)
EndExecution(w) ==
  /\ In(w, "releasing")
  /\ TryRelease(exec[w].token, GoalAt(w))
  /\ activeGoals' = [activeGoals EXCEPT ![GoalAt(w)] = NoWorker]
  /\ exec' = [exec EXCEPT ![w] = NoExec]
  /\ savedCounts' = crashCounts
  /\ ExecOnly
  /\ UNCHANGED <<queueVars, crashed, crashCounts, suspendedGoals, pendingTimers, answered>>

ExecStep(w) ==
  \/ BeginRun(w) \/ AdmissionFails(w)
  \/ \E outcome \in {"done", "error"} : RunReturns(w, outcome)
  \/ RunThrows(w) \/ RunAborted(w) \/ CheckExtend(w)
  \/ JudgeRelinquished(w) \/ JudgeSuccess(w) \/ JudgeSuspend(w) \/ JudgeRetry(w)
  \/ CompleteClaim(w) \/ DropClaim(w) \/ EndExecution(w)

(* The renew loop runs until the finally clause.  It renews claim and lease *)
(* and, when either is gone, stops for good and marks the ownership lost.   *)
RenewOwnership(w) ==
  LET t == exec[w].token
      claimed == \E i \in Id : Queue!LiveClaim(i, t)
      leased  == lease[GoalAt(w)].owner = t /\ Leases!LiveAt(GoalAt(w), 0)
  IN
  /\ exec[w].phase \in {"admitting", "running", "checking", "judging", "completing", "dropping"}
  /\ ~exec[w].lost
  /\ IF claimed THEN Queue!Renew(t) ELSE UNCHANGED queueVars
  /\ IF leased THEN Leases!Renew(t, GoalAt(w), 0) ELSE UNCHANGED leaseVars
  /\ exec' = [exec EXCEPT ![w].lost = ~(claimed /\ leased)]
  /\ healthy' = (healthy /\ claimed /\ leased)
  /\ UNCHANGED <<daemon, poll, crashed, activeGoals, crashCounts, savedCounts, suspendedGoals,
                 stoppedGoals, pendingTimers, outages, answered>>

(* The backoff is over: the claim goes back to the queue, except that a    *)
(* timer set after the shutdown began finds the supervisor not running.    *)
FireRetry(t) ==
  /\ t \in pendingTimers
  /\ pendingTimers' = pendingTimers \ {t}
  /\ IF daemon = "up" THEN TryNack(t, TRUE) ELSE UNCHANGED queueVars
  /\ UNCHANGED <<leaseVars, daemon, poll, exec, crashed, activeGoals, crashCounts, savedCounts,
                 suspendedGoals, stoppedGoals, outages, answered, healthy>>

-----------------------------------------------------------------------------
(* The daemon process *)

Shutdown ==
  /\ daemon = "up" /\ outages < MaxOutages
  /\ daemon' = "stopping" /\ outages' = outages + 1 /\ healthy' = FALSE
  /\ pendingTimers' = {}
  /\ UNCHANGED <<queueVars, leaseVars, poll, exec, crashed, activeGoals, crashCounts,
                 savedCounts, suspendedGoals, stoppedGoals, answered>>

(* An execution that outlives the grace period loses claim and lease. *)
Relinquish(w) ==
  /\ daemon = "stopping" /\ Busy(w) /\ ~exec[w].relinquished
  /\ exec' = [exec EXCEPT ![w].relinquished = TRUE]
  /\ activeGoals' = [activeGoals EXCEPT ![GoalAt(w)] = NoWorker]
  /\ TryNack(exec[w].token, TRUE)
  /\ TryRelease(exec[w].token, GoalAt(w))
  /\ savedCounts' = crashCounts
  /\ UNCHANGED <<daemon, poll, crashed, crashCounts, suspendedGoals, stoppedGoals,
                 pendingTimers, outages, answered, healthy>>

(* The memory of the process is gone; rows of queue and leases stay. *)
MemoryLost ==
  /\ daemon' = "down"
  /\ poll' = NoPoll
  /\ exec' = [w \in Worker |-> NoExec]
  /\ crashed' = {} /\ suspendedGoals' = {} /\ stoppedGoals' = {} /\ pendingTimers' = {}
  /\ activeGoals' = [g \in Goal |-> NoWorker]
  /\ crashCounts' = [g \in Goal |-> 0]
  /\ promised' = [t \in Token |-> [g \in Goal |-> 0]]
  /\ UNCHANGED <<queueVars, lease, answered>>

Exit ==
  /\ daemon = "stopping"
  /\ \A w \in Worker : Busy(w) => exec[w].relinquished
  /\ MemoryLost
  /\ savedCounts' = crashCounts
  /\ UNCHANGED <<outages, healthy>>

Crash ==
  /\ daemon # "down" /\ outages < MaxOutages
  /\ MemoryLost
  /\ outages' = outages + 1 /\ healthy' = FALSE
  /\ UNCHANGED savedCounts

(* start() restores the crash counts and nothing else. *)
Restart ==
  /\ daemon = "down"
  /\ daemon' = "up"
  /\ crashCounts' = savedCounts
  /\ UNCHANGED <<queueVars, leaseVars, poll, exec, crashed, activeGoals, savedCounts,
                 suspendedGoals, stoppedGoals, pendingTimers, outages, answered, healthy>>

Memory == <<daemon, poll, exec, crashed, activeGoals, crashCounts, savedCounts,
            suspendedGoals, stoppedGoals, pendingTimers, outages, answered, healthy>>

(* The claim sweeper's interval. *)
Sweep ==
  /\ daemon = "up"
  /\ Queue!SweepExpiredClaims
  /\ UNCHANGED <<leaseVars, Memory>>

Tick ==
  /\ records' = [i \in Id |-> Queue!Aged(records[i])]
  /\ Leases!Tick
  /\ UNCHANGED <<ahead, Memory>>

Next ==
  \/ \E i \in Id : ActivateGoal(i)
  \/ \E g \in Goal : DeactivateGoal(g)
  \/ PollStep
  \/ \E w \in Worker : ExecStep(w) \/ RenewOwnership(w) \/ Relinquish(w)
  \/ \E t \in pendingTimers : FireRetry(t)
  \/ Shutdown \/ Exit \/ Crash \/ Restart \/ Sweep \/ Tick

Spec == Init /\ [][Next]_vars

(* Timers and promises of a live process make progress, a run ends, a      *)
(* daemon that went down is started again (by the watchdog).               *)
Fairness ==
  /\ WF_vars(PollStep) /\ WF_vars(Sweep) /\ WF_vars(Tick)
  /\ WF_vars(Exit) /\ WF_vars(Restart)
  /\ \A w \in Worker : WF_vars(ExecStep(w)) /\ WF_vars(Relinquish(w))
  /\ \A t \in Token : WF_vars(FireRetry(t))

FairSpec == Spec /\ Fairness

-----------------------------------------------------------------------------
(* Properties *)

Phases == {"none", "admitting", "running", "checking", "judging", "completing",
           "dropping", "releasing"}

PollState ==
  [stage : {"none", "next", "claimed", "coalesced", "leasing"},
   worker : Worker \cup {NoWorker}, id : Id \cup {NoId},
   token : Token \cup {NoToken}, rest : SUBSET Worker]

Execution ==
  [phase : Phases, id : Id \cup {NoId}, token : Token \cup {NoToken},
   outcome : {"none", "done", "error"}, extend : BOOLEAN,
   lost : BOOLEAN, relinquished : BOOLEAN]

(* Type invariant of the supervisor's memory; an idle slot keeps nothing. *)
TypeOK ==
  /\ daemon \in {"up", "stopping", "down"}
  /\ poll \in PollState
  /\ exec \in [Worker -> Execution]
  /\ \A w \in Worker : In(w, "none") => exec[w] = NoExec
  /\ crashed \in SUBSET Worker
  /\ activeGoals \in [Goal -> Worker \cup {NoWorker}]
  /\ crashCounts \in [Goal -> 0..MaxCrashCount] /\ savedCounts \in [Goal -> 0..MaxCrashCount]
  /\ suspendedGoals \in SUBSET Goal /\ stoppedGoals \in SUBSET Goal
  /\ pendingTimers \in SUBSET Token
  /\ outages \in 0..MaxOutages /\ answered \in SUBSET Id /\ healthy \in BOOLEAN

(* activeGoals is exact: a goal has one execution at most, the one its     *)
(* entry names, even while a retried activation of the goal is polled.     *)
OneExecutionPerGoal ==
  \A w \in Worker, g \in Goal :
    activeGoals[g] = w <=> Busy(w) /\ GoalAt(w) = g /\ ~exec[w].relinquished

(* No goal lease outlives its execution in a live process: on every path   *)
(* out of a dispatch the supervisor gives the lease back.                  *)
LeaseFollowsExecution ==
  \A t \in Token, g \in Goal :
    promised[t][g] > 0 => \E w \in Worker : exec[w].token = t /\ GoalAt(w) = g

(* A healthy supervisor never leaves a claim to its lease: while it runs   *)
(* without outage or lost ownership, each claim is handled by the poll or  *)
(* an execution, or waits for its backoff timer.                           *)
ClaimsAccounted ==
  healthy => \A i \in Id :
    Queue!Is(i, "inflight") /\ records[i].lease > 0 => records[i].token \in InUse

(* A goal suspended after too many crashes gets no run until somebody      *)
(* activates it again, whatever polls and extensions were under way.       *)
SuspendedNeverRuns ==
  [][\A w \in Worker : ~In(w, "running") /\ In(w, "running")'
       => GoalOf[exec'[w].id] \notin suspendedGoals]_vars

(* loop-supervisor.test.ts:264 "coalesces duplicate goal_activated via     *)
(* requestExtend (re-runs)".  An activation that is acked was answered by  *)
(* a run that began after it, or such a run is still to come: the worker   *)
(* will see the extend request, or another activation is not settled yet.  *)
CoalescedIsRun ==
  \A i \in Id : Queue!Is(i, "completed") /\ i \notin answered
    => \/ \E w \in Worker : /\ Busy(w) /\ GoalAt(w) = GoalOf[i] /\ exec[w].extend
                            /\ exec[w].phase \in {"admitting", "running", "checking"}
       \/ \E j \in Id : GoalOf[j] = GoalOf[i] /\ Queue!Active(j)

(* runtime-auto-recovery.md:157 "On failure, the claim is retried with     *)
(* backoff or dead-lettered after the retry budget is exhausted."          *)
EveryActivationSettles == \A i \in Id : Queue!Active(i) ~> ~Queue!Active(i)
=============================================================================
