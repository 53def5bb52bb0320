------------------------ MODULE LoopSupervisorProofs ------------------------
(***************************************************************************)
(* Theorems about LoopSupervisor, for every set of activations, goals,     *)
(* workers and claim tokens, every retry budget, lease length and number   *)
(* of crashes and shutdowns, and about the ledger of background runs that  *)
(* MCActivations puts beside it.                                           *)
(***************************************************************************)
EXTENDS MCActivations, TLAPS

-----------------------------------------------------------------------------
(* The inductive invariant of the supervisor's memory. *)

Handling == poll.stage \in {"claimed", "coalesced", "leasing"}

(* The poll keeps to workers without an execution, and a lease is sought   *)
(* only for a goal that nobody works on and that is not suspended.         *)
PollSound ==
  /\ Handling => /\ poll.worker \in Worker \ poll.rest /\ ~Busy(poll.worker)
                 /\ poll.id \in Id /\ poll.token \in Token
  /\ ~Handling => poll.token = NoToken
  /\ \A w \in poll.rest : ~Busy(w)
  /\ poll.stage = "leasing" =>
       activeGoals[PollGoal] = NoWorker /\ PollGoal \notin suspendedGoals

ExecSound == \A w \in Worker : Busy(w) => exec[w].id \in Id /\ exec[w].token \in Token

(* Whatever was relinquished still runs until the process ends. *)
OneAtATime ==
  \A v, w \in Worker : Busy(v) /\ Busy(w) /\ GoalAt(v) = GoalAt(w) => v = w

Active(w) == exec[w].phase \in {"admitting", "running", "checking"}

NotSuspended == \A w \in Worker : Active(w) => GoalAt(w) \notin suspendedGoals

ProcessSound ==
  /\ daemon = "up" => \A w \in Worker : ~exec[w].relinquished
  /\ daemon = "down" => poll = NoPoll /\ \A w \in Worker : ~Busy(w)

Sound ==
  /\ PollSound /\ ExecSound /\ OneAtATime /\ NotSuspended /\ ProcessSound
  /\ OneExecutionPerGoal

-----------------------------------------------------------------------------
(* Types *)

LEMMA EmptyRecords == NoPoll \in PollState /\ NoExec \in Execution
BY DEF NoPoll, PollState, NoExec, Execution, Phases

(* Rewriting one execution. *)
LEMMA RewriteExec ==
  ASSUME TypeOK, NEW w \in Worker, NEW q \in Execution, q.phase = "none" => q = NoExec,
         exec' = [exec EXCEPT ![w] = q]
  PROVE  /\ exec' \in [Worker -> Execution]
         /\ \A v \in Worker : In(v, "none")' => exec'[v] = NoExec
         /\ exec'[w] = q
         /\ \A v \in Worker \ {w} : exec'[v] = exec[v]
BY DEF TypeOK, In

LEMMA WithPhase ==
  ASSUME NEW r \in Execution, NEW p \in Phases
  PROVE  LET q == [r EXCEPT !.phase = p] IN
         /\ q \in Execution /\ q.phase = p /\ q.id = r.id /\ q.token = r.token
         /\ q.outcome = r.outcome /\ q.extend = r.extend /\ q.lost = r.lost
         /\ q.relinquished = r.relinquished
BY DEF Execution

(* How a step takes the execution of worker w further. *)
Advance(w) ==
  /\ exec' \in [Worker -> Execution]
  /\ \A v \in Worker : In(v, "none")' => exec'[v] = NoExec
  /\ \A v \in Worker \ {w} : exec'[v] = exec[v]
  /\ Busy(w) /\ Busy(w)'
  /\ exec'[w].id = exec[w].id /\ exec'[w].token = exec[w].token
  /\ exec'[w].relinquished = exec[w].relinquished
  /\ Active(w)' => Active(w)

LEMMA AdvanceTo ==
  ASSUME TypeOK, NEW w \in Worker, NEW q \in Execution, Busy(w), q.phase # "none",
         q.id = exec[w].id, q.token = exec[w].token,
         q.relinquished = exec[w].relinquished,
         q.phase \in {"admitting", "running", "checking"} => Active(w),
         exec' = [exec EXCEPT ![w] = q]
  PROVE  Advance(w) /\ exec'[w] = q
<1>1. /\ exec' \in [Worker -> Execution]
      /\ \A v \in Worker : In(v, "none")' => exec'[v] = NoExec
      /\ exec'[w] = q
      /\ \A v \in Worker \ {w} : exec'[v] = exec[v]
  BY RewriteExec
<1> QED BY <1>1 DEF Advance, Active, Busy, In

LEMMA EntersAdvance ==
  ASSUME TypeOK, NEW w \in Worker, NEW p \in Phases \ {"none"}, Busy(w), Enters(w, p),
         p \in {"admitting", "running", "checking"} => Active(w)
  PROVE  Advance(w) /\ exec'[w].phase = p /\ exec'[w].lost = exec[w].lost
<1> DEFINE q == [exec[w] EXCEPT !.phase = p]
<1>1. exec[w] \in Execution
  BY DEF TypeOK
<1>2. /\ q \in Execution /\ q.phase = p /\ q.id = exec[w].id /\ q.token = exec[w].token
      /\ q.lost = exec[w].lost /\ q.relinquished = exec[w].relinquished
  BY <1>1, WithPhase
<1>3. exec' = [exec EXCEPT ![w] = q]
  BY DEF Enters
<1> HIDE DEF q
<1> QED BY <1>2, <1>3, AdvanceTo

EntersWith(w, p, x) == exec' = [exec EXCEPT ![w].phase = p, ![w].extend = x]
EndsWith(w, p, o)   == exec' = [exec EXCEPT ![w].phase = p, ![w].outcome = o]

LEMMA TwoFields ==
  ASSUME NEW f, NEW W, NEW R, f \in [W -> R], NEW w \in W, NEW p, NEW x
  PROVE  /\ [f EXCEPT ![w].phase = p, ![w].extend = x]
              = [f EXCEPT ![w] = [f[w] EXCEPT !.phase = p, !.extend = x]]
         /\ [f EXCEPT ![w].phase = p, ![w].outcome = x]
              = [f EXCEPT ![w] = [f[w] EXCEPT !.phase = p, !.outcome = x]]
BY Zenon

LEMMA ExtendAdvance ==
  ASSUME TypeOK, NEW w \in Worker, NEW p \in Phases \ {"none"}, NEW x \in BOOLEAN, Busy(w),
         EntersWith(w, p, x),
         p \in {"admitting", "running", "checking"} => Active(w)
  PROVE  Advance(w) /\ exec'[w].phase = p /\ exec'[w].lost = exec[w].lost
<1> DEFINE q == [exec[w] EXCEPT !.phase = p, !.extend = x]
<1>1. exec[w] \in Execution
  BY DEF TypeOK
<1>2. /\ q \in Execution /\ q.phase = p /\ q.id = exec[w].id /\ q.token = exec[w].token
      /\ q.lost = exec[w].lost /\ q.relinquished = exec[w].relinquished
  BY <1>1 DEF Execution
<1>3. exec' = [exec EXCEPT ![w] = q]
  <2>1. exec \in [Worker -> Execution]
    BY DEF TypeOK
  <2> QED BY <2>1, TwoFields, Zenon DEF EntersWith
<1> HIDE DEF q
<1> QED BY <1>2, <1>3, AdvanceTo

LEMMA OutcomeAdvance ==
  ASSUME TypeOK, NEW w \in Worker, NEW p \in Phases \ {"none"}, NEW o \in {"done", "error"},
         Busy(w), EndsWith(w, p, o),
         p \in {"admitting", "running", "checking"} => Active(w)
  PROVE  Advance(w) /\ exec'[w].phase = p /\ exec'[w].lost = exec[w].lost
<1> DEFINE q == [exec[w] EXCEPT !.phase = p, !.outcome = o]
<1>1. exec[w] \in Execution
  BY DEF TypeOK
<1>2. /\ q \in Execution /\ q.phase = p /\ q.id = exec[w].id /\ q.token = exec[w].token
      /\ q.lost = exec[w].lost /\ q.relinquished = exec[w].relinquished
  BY <1>1 DEF Execution
<1>3. exec' = [exec EXCEPT ![w] = q]
  <2>1. exec \in [Worker -> Execution]
    BY DEF TypeOK
  <2> QED BY <2>1, TwoFields, Zenon DEF EndsWith
<1> HIDE DEF q
<1> QED BY <1>2, <1>3, AdvanceTo

LEMMA CoalesceAdvances ==
  ASSUME TypeOK, OneExecutionPerGoal, poll.id \in Id, Coalesce
  PROVE  \E w \in Worker :
           Advance(w) /\ exec'[w].phase = exec[w].phase /\ exec'[w].lost = exec[w].lost
<1>1. PollGoal \in Goal
  BY SupervisorAssumption DEF SupervisorAssumption, PollGoal
<1>2. PICK w \in Worker : w = activeGoals[PollGoal]
  BY <1>1 DEF TypeOK, Coalesce
<1>3. Busy(w)
  BY <1>1, <1>2 DEF OneExecutionPerGoal
<1> DEFINE q == [exec[w] EXCEPT !.extend = TRUE]
<1>4. exec[w] \in Execution
  BY DEF TypeOK
<1>5. /\ q \in Execution /\ q.phase = exec[w].phase /\ q.id = exec[w].id
      /\ q.token = exec[w].token /\ q.relinquished = exec[w].relinquished
      /\ q.lost = exec[w].lost
  BY <1>4 DEF Execution
<1>6. exec' = [exec EXCEPT ![w] = q]
  BY <1>2 DEF Coalesce
<1> HIDE DEF q
<1>7. q.phase # "none"
  BY <1>3, <1>5 DEF Busy, In
<1>8. q.phase \in {"admitting", "running", "checking"} => Active(w)
  BY <1>5 DEF Active
<1> QED BY <1>3, <1>5, <1>6, <1>7, <1>8, AdvanceTo

LEMMA RenewAdvances ==
  ASSUME TypeOK, NEW w \in Worker, RenewOwnership(w)
  PROVE  /\ Advance(w) /\ exec'[w].phase = exec[w].phase
         /\ exec'[w].lost = ~(/\ \E i \in Id : Queue!LiveClaim(i, exec[w].token)
                              /\ lease[GoalAt(w)].owner = exec[w].token
                              /\ Leases!LiveAt(GoalAt(w), 0))
<1> DEFINE x == ~(/\ \E i \in Id : Queue!LiveClaim(i, exec[w].token)
                  /\ lease[GoalAt(w)].owner = exec[w].token
                  /\ Leases!LiveAt(GoalAt(w), 0))
           q == [exec[w] EXCEPT !.lost = x]
<1>1. Busy(w)
  BY DEF RenewOwnership, Busy, In
<1>2. exec[w] \in Execution
  BY DEF TypeOK
<1>3. x \in BOOLEAN
  OBVIOUS
<1>4. exec' = [exec EXCEPT ![w] = q]
  BY DEF RenewOwnership
<1> HIDE DEF x
<1>5. /\ q \in Execution /\ q.phase = exec[w].phase /\ q.id = exec[w].id
      /\ q.token = exec[w].token /\ q.relinquished = exec[w].relinquished /\ q.lost = x
  BY <1>2, <1>3 DEF Execution
<1> HIDE DEF q
<1>6. q.phase # "none" /\ (q.phase \in {"admitting", "running", "checking"} => Active(w))
  BY <1>1, <1>5 DEF Active, Busy, In
<1>7. Advance(w) /\ exec'[w] = q
  BY <1>1, <1>4, <1>5, <1>6, AdvanceTo
<1> QED BY <1>5, <1>7 DEF x

(* Every phase of an execution but the last. *)
Proceeds(w) ==
  \/ BeginRun(w) \/ AdmissionFails(w)
  \/ \E outcome \in {"done", "error"} : RunReturns(w, outcome)
  \/ RunThrows(w) \/ RunAborted(w) \/ CheckExtend(w)
  \/ JudgeRelinquished(w) \/ JudgeSuccess(w) \/ JudgeSuspend(w) \/ JudgeRetry(w)
  \/ CompleteClaim(w) \/ DropClaim(w)

Leaves(w) ==
  \/ AdmissionFails(w) \/ JudgeRelinquished(w) \/ JudgeRetry(w)
  \/ CompleteClaim(w) \/ DropClaim(w)

LEMMA ProceedsAdvances ==
  ASSUME TypeOK, NEW w \in Worker, Proceeds(w)
  PROVE  /\ Advance(w) /\ exec'[w].lost = exec[w].lost
         /\ exec'[w].phase = "releasing" => Leaves(w)
<1> DEFINE Goes(p) == Advance(w) /\ exec'[w].lost = exec[w].lost /\ exec'[w].phase = p
<1>0. /\ Phases \ {"none"} = {"admitting", "running", "checking", "judging", "completing",
                               "dropping", "releasing"}
      /\ \A p \in Phases \ {"none"} : In(w, p) => Busy(w)
  BY DEF Phases, Busy, In
<1>1. CASE BeginRun(w)
  <2>1. EntersWith(w, "running", FALSE) /\ In(w, "admitting")
    BY <1>1 DEF BeginRun, EntersWith
  <2>2. Goes("running")
    BY <1>0, <2>1, ExtendAdvance DEF Active, In
  <2> QED BY <2>2
<1>2. CASE AdmissionFails(w)
  <2>1. Enters(w, "releasing") /\ In(w, "admitting")
    BY <1>2 DEF AdmissionFails
  <2> QED BY <1>0, <1>2, <2>1, EntersAdvance DEF Leaves
<1>3. ASSUME NEW outcome \in {"done", "error"}, RunReturns(w, outcome)
      PROVE  Goes("checking")
  <2>1. EndsWith(w, "checking", outcome) /\ In(w, "running")
    BY <1>3 DEF RunReturns, EndsWith
  <2> QED BY <1>0, <2>1, OutcomeAdvance DEF Active, In
<1>4. CASE RunThrows(w)
  <2>1. EndsWith(w, "judging", "error") /\ In(w, "running")
    BY <1>4 DEF RunThrows, EndsWith
  <2>2. Goes("judging")
    BY <1>0, <2>1, OutcomeAdvance
  <2> QED BY <2>2
<1>5. CASE RunAborted(w)
  <2>1. EndsWith(w, "judging", "done") /\ In(w, "running")
    BY <1>5 DEF RunAborted, EndsWith
  <2>2. Goes("judging")
    BY <1>0, <2>1, OutcomeAdvance
  <2> QED BY <2>2
<1>6. CASE CheckExtend(w)
  <2>1. /\ In(w, "checking")
        /\ EntersWith(w, "running", FALSE) \/ Enters(w, "judging")
    BY <1>6 DEF CheckExtend, EntersWith
  <2>2. Goes("running") \/ Goes("judging")
    BY <1>0, <2>1, ExtendAdvance, EntersAdvance DEF Active, In
  <2> QED BY <2>2
<1>7. CASE JudgeSuccess(w) \/ JudgeSuspend(w)
  <2>1. In(w, "judging") /\ (Enters(w, "completing") \/ Enters(w, "dropping"))
    BY <1>7 DEF JudgeSuccess, JudgeSuspend
  <2>2. Goes("completing") \/ Goes("dropping")
    BY <1>0, <2>1, EntersAdvance
  <2> QED BY <2>2
<1>8. CASE JudgeRelinquished(w) \/ JudgeRetry(w)
  <2>1. In(w, "judging") /\ Enters(w, "releasing")
    BY <1>8 DEF JudgeRelinquished, JudgeRetry
  <2> QED BY <1>0, <1>8, <2>1, EntersAdvance DEF Leaves
<1>9. CASE CompleteClaim(w) \/ DropClaim(w)
  <2>1. (In(w, "completing") \/ In(w, "dropping")) /\ Enters(w, "releasing")
    BY <1>9 DEF CompleteClaim, DropClaim
  <2> QED BY <1>0, <1>9, <2>1, EntersAdvance DEF Leaves
<1> QED BY <1>1, <1>2, <1>3, <1>4, <1>5, <1>6, <1>7, <1>8, <1>9 DEF Proceeds

-----------------------------------------------------------------------------
(* The invariant, move by move *)

LEMMA GoalsOfExecs ==
  ASSUME ExecSound, NEW w \in Worker, Busy(w)
  PROVE  GoalAt(w) \in Goal
BY SupervisorAssumption DEF SupervisorAssumption, ExecSound, GoalAt

(* A goal is suspended only by the execution that is being judged. *)
SuspendsAtMost(w) ==
  \A g \in suspendedGoals' :
    g \in suspendedGoals \/ (g = GoalAt(w) /\ In(w, "judging") /\ ~exec[w].relinquished)

LEMMA AdvanceSound ==
  ASSUME TypeOK, Sound, NEW w \in Worker, Advance(w), UNCHANGED <<daemon, activeGoals>>,
         SuspendsAtMost(w),
         \/ UNCHANGED poll
         \/ poll.stage = "claimed" /\ poll' = [poll EXCEPT !.stage = "coalesced"]
  PROVE  Sound'
<1>1. /\ \A v \in Worker : /\ Busy(v)' <=> Busy(v)
                           /\ Active(v)' => Active(v)
                           /\ exec'[v].id = exec[v].id /\ exec'[v].token = exec[v].token
                           /\ exec'[v].relinquished = exec[v].relinquished
                           /\ GoalAt(v)' = GoalAt(v)
      /\ Busy(w)
  BY DEF Advance, Busy, Active, GoalAt, In
<1>2. ExecSound'
  BY <1>1 DEF Sound, ExecSound
<1>3. OneAtATime'
  BY <1>1 DEF Sound, OneAtATime
<1>4. OneExecutionPerGoal'
  BY <1>1 DEF Sound, OneExecutionPerGoal
<1>5. ProcessSound'
  BY <1>1 DEF Sound, ProcessSound
<1>6. NotSuspended'
  <2> SUFFICES ASSUME NEW v \in Worker, Active(v)' PROVE GoalAt(v) \notin suspendedGoals'
    BY <1>1 DEF NotSuspended
  <2>1. Active(v) /\ GoalAt(v) \notin suspendedGoals
    BY <1>1 DEF Sound, NotSuspended
  <2>2. GoalAt(v) = GoalAt(w) => v = w
    BY <1>1, <2>1 DEF Sound, OneAtATime, Active, Busy, In
  <2>3. In(w, "judging") => ~Active(w)
    BY DEF In, Active
  <2> QED BY <2>1, <2>2, <2>3 DEF SuspendsAtMost
<1>7. PollSound'
  <2>1. PollSound
    BY DEF Sound
  <2>2. poll.stage = "leasing" => activeGoals[PollGoal] = NoWorker /\ PollGoal \notin suspendedGoals
    BY <2>1 DEF PollSound
  <2>3. ~exec[w].relinquished => activeGoals[GoalAt(w)] = w
    BY <1>1, GoalsOfExecs DEF Sound, OneExecutionPerGoal
  <2>4. poll.stage = "leasing" => PollGoal \notin suspendedGoals'
    BY <2>2, <2>3, SupervisorAssumption DEF SupervisorAssumption, SuspendsAtMost
  <2>0. poll.rest \subseteq Worker
    BY DEF TypeOK, PollState
  <2>5. CASE UNCHANGED poll
    BY <1>1, <2>0, <2>1, <2>2, <2>4, <2>5 DEF PollSound, Handling, PollGoal
  <2>6. CASE poll' = [poll EXCEPT !.stage = "coalesced"] /\ poll.stage = "claimed"
    <3>1. /\ poll'.stage = "coalesced" /\ poll'.worker = poll.worker /\ poll'.id = poll.id
          /\ poll'.token = poll.token /\ poll'.rest = poll.rest
      BY <2>6 DEF TypeOK, PollState
    <3> QED BY <1>1, <2>0, <2>1, <2>6, <3>1 DEF PollSound, Handling
  <2> QED BY <2>5, <2>6
<1> QED BY <1>2, <1>3, <1>4, <1>5, <1>6, <1>7 DEF Sound

(* The other executions and the poll, when w's execution begins, ends or   *)
(* is given up.                                                            *)
Only(w) == \A v \in Worker \ {w} : exec'[v] = exec[v]

LEMMA NextWorkerFields ==
  ASSUME TypeOK, NextWorker
  PROVE  /\ poll' \in PollState /\ poll'.token = NoToken
         /\ poll'.stage \in {"none", "next"} /\ poll'.rest \subseteq poll.rest
BY DEF TypeOK, NextWorker, NoPoll, PollState

LEMMA NextWorkerSound ==
  ASSUME TypeOK, Sound, NextWorker, UNCHANGED exec
  PROVE  PollSound'
<1>1. /\ poll'.token = NoToken
      /\ poll'.stage \in {"none", "next"} /\ poll'.rest \subseteq poll.rest
  BY NextWorkerFields
<1> QED BY <1>1 DEF Sound, PollSound, Handling, Busy, In

(* A step of the poll that leaves the executions alone. *)
LEMMA PollOnlySound ==
  ASSUME TypeOK, Sound, PollSound', daemon # "down",
         UNCHANGED <<daemon, exec, activeGoals, suspendedGoals>>
  PROVE  Sound'
BY DEF Sound, ExecSound, OneAtATime, NotSuspended, ProcessSound, OneExecutionPerGoal, Busy, In, Active,
       GoalAt

LEMMA PollIsAlive ==
  ASSUME Sound, Handling \/ poll.stage = "next"
  PROVE  daemon # "down"
BY DEF Sound, ProcessSound, NoPoll, Handling

LEMMA IdleIsFree ==
  ASSUME TypeOK, Sound, daemon = "up", NEW w \in IdleWorkers
  PROVE  w \in Worker /\ ~Busy(w)
<1>1. w \in Worker /\ ~exec[w].relinquished /\ \A g \in Goal : activeGoals[g] # w
  BY DEF IdleWorkers, Sound, ProcessSound
<1> QED BY <1>1, GoalsOfExecs DEF Sound, OneExecutionPerGoal

LEMMA CandidatesAreFree ==
  ASSUME TypeOK, Sound, MayClaim, NEW w \in Candidates
  PROVE  w \in Worker /\ ~Busy(w)
<1>1. CASE poll.stage = "next"
  BY <1>1 DEF Candidates, Sound, PollSound, TypeOK, PollState
<1>2. CASE poll.stage # "next"
  BY <1>2, IdleIsFree DEF Candidates, MayClaim
<1> QED BY <1>1, <1>2

LEMMA ClaimSound ==
  ASSUME TypeOK, Sound, NEW w \in Worker, NEW t \in Token, NEW i \in Id, PollClaim(w, t, i)
  PROVE  Sound' /\ poll' \in PollState
<1>1. /\ poll' = [stage |-> "claimed", worker |-> w, id |-> i, token |-> t,
                  rest |-> Candidates \ {w}]
      /\ w \in Candidates /\ MayClaim
      /\ UNCHANGED <<daemon, exec, activeGoals, suspendedGoals>>
  BY DEF PollClaim, PollOnly
<1>2. \A v \in Candidates : v \in Worker /\ ~Busy(v)
  BY <1>1, CandidatesAreFree
<1>3. PollSound' /\ poll' \in PollState
  BY <1>1, <1>2 DEF PollSound, PollState, Handling, Busy, In
<1>4. daemon # "down"
  BY <1>1, PollIsAlive DEF MayClaim
<1> QED BY <1>1, <1>3, <1>4, PollOnlySound

LEMMA SettlesAndGoesOn ==
  ASSUME TypeOK, Sound, Handling, NextWorker, PollOnly, UNCHANGED <<exec, activeGoals>>
  PROVE  Sound' /\ poll' \in PollState
BY NextWorkerFields, NextWorkerSound, PollOnlySound, PollIsAlive DEF PollOnly

LEMMA PollEnds ==
  ASSUME TypeOK, Sound, poll' = NoPoll, daemon # "down", PollOnly,
         UNCHANGED <<exec, activeGoals>>
  PROVE  Sound' /\ poll' \in PollState
<1>1. PollSound' /\ poll' \in PollState
  BY EmptyRecords DEF PollSound, Handling, NoPoll
<1> QED BY <1>1, PollOnlySound DEF PollOnly

LEMMA SeekLeaseSound ==
  ASSUME TypeOK, Sound, SeekLease
  PROVE  Sound' /\ poll' \in PollState
<1>1. /\ poll.stage = "claimed" /\ activeGoals[PollGoal] = NoWorker
      /\ PollGoal \notin suspendedGoals
      /\ poll' = [poll EXCEPT !.stage = "leasing"]
      /\ UNCHANGED <<daemon, exec, activeGoals, suspendedGoals>>
  BY DEF SeekLease, PollOnly
<1>2. /\ poll'.stage = "leasing" /\ poll'.worker = poll.worker /\ poll'.id = poll.id
      /\ poll'.token = poll.token /\ poll'.rest = poll.rest /\ poll' \in PollState
  BY <1>1 DEF TypeOK, PollState
<1>3. PollSound'
  BY <1>1, <1>2 DEF Sound, PollSound, Handling, PollGoal, Busy, In
<1> QED BY <1>1, <1>2, <1>3, PollOnlySound, PollIsAlive DEF Handling

(* The worker taken was free and, nothing being relinquished while the     *)
(* daemon is up, so was the goal.                                          *)
LEMMA DispatchSound ==
  ASSUME TypeOK, Sound, Dispatch
  PROVE  Sound' /\ poll' \in PollState
<1>0. PICK w \in Worker, k \in Goal : w = poll.worker /\ k = PollGoal
  BY SupervisorAssumption
     DEF SupervisorAssumption, Dispatch, Sound, PollSound, Handling, PollGoal
<1> DEFINE q == [NoExec EXCEPT !.phase = "admitting", !.id = poll.id, !.token = poll.token]
<1>1. /\ w \in Worker /\ ~Busy(w) /\ w \notin poll.rest /\ poll.id \in Id /\ poll.token \in Token
      /\ activeGoals[k] = NoWorker /\ k \notin suspendedGoals /\ daemon = "up"
      /\ GoalOf[poll.id] = k
  BY <1>0 DEF Dispatch, Sound, PollSound, Handling, PollGoal
<1>2. /\ exec' = [exec EXCEPT ![w] = q]
      /\ activeGoals' = [activeGoals EXCEPT ![k] = w]
      /\ NextWorker /\ UNCHANGED <<daemon, suspendedGoals>>
  BY <1>0 DEF Dispatch, PollOnly
<1>3. q \in Execution /\ q.phase = "admitting" /\ q.id = poll.id /\ q.token = poll.token
      /\ q.relinquished = FALSE
  BY <1>1 DEF NoExec, Execution, Phases
<1> HIDE DEF q
<1>4. exec'[w] = q /\ \A v \in Worker \ {w} : exec'[v] = exec[v]
  BY <1>1, <1>2, <1>3, RewriteExec
<1>5. /\ activeGoals'[k] = w
      /\ \A g \in Goal \ {k} : activeGoals'[g] = activeGoals[g]
  BY <1>1, <1>2 DEF TypeOK
<1>6. /\ \A v \in Worker \ {w} : /\ Busy(v)' <=> Busy(v)
                                 /\ Active(v)' <=> Active(v)
                                 /\ GoalAt(v)' = GoalAt(v)
                                 /\ exec'[v] = exec[v]
      /\ Busy(w)' /\ Active(w)' /\ GoalAt(w)' = k
  BY <1>1, <1>3, <1>4 DEF Busy, In, Active, GoalAt
<1>7. \A v \in Worker : Busy(v) => GoalAt(v) # k /\ ~exec[v].relinquished
  BY <1>1, SupervisorAssumption
     DEF SupervisorAssumption, Sound, ProcessSound, OneExecutionPerGoal
<1>8. ExecSound'
  BY <1>1, <1>3, <1>4, <1>6 DEF Sound, ExecSound
<1>9. OneAtATime'
  BY <1>6, <1>7 DEF Sound, OneAtATime
<1>10. NotSuspended'
  BY <1>1, <1>2, <1>6 DEF Sound, NotSuspended
<1>11. OneExecutionPerGoal'
  <2> SUFFICES ASSUME NEW v \in Worker, NEW g \in Goal
               PROVE  activeGoals'[g] = v <=>
                        Busy(v)' /\ GoalAt(v)' = g /\ ~exec'[v].relinquished
    BY DEF OneExecutionPerGoal
  <2>1. CASE g = k
    BY <1>3, <1>4, <1>5, <1>6, <1>7, <2>1
  <2>2. CASE g # k
    <3>1. activeGoals[g] = v <=> Busy(v) /\ GoalAt(v) = g /\ ~exec[v].relinquished
      BY DEF Sound, OneExecutionPerGoal
    <3> QED BY <1>1, <1>5, <1>6, <2>2, <3>1
  <2> QED BY <2>1, <2>2
<1>12. ProcessSound'
  BY <1>1, <1>2, <1>3, <1>4 DEF Sound, ProcessSound
<1>13. /\ poll' \in PollState /\ poll'.token = NoToken
       /\ poll'.stage \in {"none", "next"} /\ poll'.rest \subseteq poll.rest
  BY <1>2, NextWorkerFields
<1>14. PollSound'
  <2>1. \A v \in poll.rest : v \in Worker \ {w} /\ ~Busy(v)
    BY <1>1 DEF Sound, PollSound, TypeOK, PollState
  <2>2. \A v \in poll'.rest : ~Busy(v)'
    BY <1>6, <1>13, <2>1
  <2> QED BY <1>13, <2>2 DEF PollSound, Handling
<1> QED BY <1>8, <1>9, <1>10, <1>11, <1>12, <1>13, <1>14 DEF Sound

(* The execution that leaves was the only one of its goal. *)
LEMMA EndSound ==
  ASSUME TypeOK, Sound, NEW w \in Worker, EndExecution(w)
  PROVE  Sound'
<1> DEFINE g == GoalAt(w)
<1>1. /\ Busy(w) /\ daemon # "down" /\ g \in Goal
      /\ exec' = [exec EXCEPT ![w] = NoExec]
      /\ activeGoals' = [activeGoals EXCEPT ![g] = NoWorker]
      /\ UNCHANGED <<daemon, poll, suspendedGoals>>
  BY GoalsOfExecs DEF EndExecution, ExecOnly, Busy, In, Sound, ProcessSound
<1>2. exec'[w] = NoExec /\ \A v \in Worker \ {w} : exec'[v] = exec[v]
  BY <1>1, EmptyRecords, RewriteExec
<1>3. /\ activeGoals'[g] = NoWorker
      /\ \A k \in Goal \ {g} : activeGoals'[k] = activeGoals[k]
  BY <1>1 DEF TypeOK
<1>4. /\ \A v \in Worker \ {w} : /\ Busy(v)' <=> Busy(v)
                                 /\ Active(v)' <=> Active(v)
                                 /\ GoalAt(v)' = GoalAt(v)
                                 /\ exec'[v] = exec[v]
      /\ ~Busy(w)' /\ ~Active(w)' /\ exec'[w].relinquished = FALSE
  BY <1>2 DEF Busy, In, Active, GoalAt, NoExec
<1>5. \A v \in Worker \ {w} : Busy(v) => GoalAt(v) # g
  BY <1>1 DEF Sound, OneAtATime
<1> HIDE DEF g
<1>6. ExecSound' /\ OneAtATime' /\ NotSuspended' /\ ProcessSound'
  <2>1. ExecSound'
    BY <1>4 DEF Sound, ExecSound
  <2>2. OneAtATime'
    BY <1>4 DEF Sound, OneAtATime
  <2>3. NotSuspended'
    BY <1>1, <1>4 DEF Sound, NotSuspended
  <2>4. ProcessSound'
    BY <1>1, <1>4 DEF Sound, ProcessSound
  <2> QED BY <2>1, <2>2, <2>3, <2>4
<1>7. OneExecutionPerGoal'
  <2> SUFFICES ASSUME NEW v \in Worker, NEW k \in Goal
               PROVE  activeGoals'[k] = v <=>
                        Busy(v)' /\ GoalAt(v)' = k /\ ~exec'[v].relinquished
    BY DEF OneExecutionPerGoal
  <2>1. activeGoals[k] = v <=> Busy(v) /\ GoalAt(v) = k /\ ~exec[v].relinquished
    BY DEF Sound, OneExecutionPerGoal
  <2>2. NoWorker # v
    BY SupervisorAssumption DEF SupervisorAssumption
  <2> QED BY <1>1, <1>3, <1>4, <1>5, <2>1, <2>2 DEF g
<1>8. PollSound'
  <2>1. PollSound /\ poll.rest \subseteq Worker
    BY DEF Sound, TypeOK, PollState
  <2>2. poll.stage = "leasing" => activeGoals'[PollGoal] = NoWorker
    BY <1>3, <2>1, SupervisorAssumption
    DEF SupervisorAssumption, PollSound, Handling, PollGoal
  <2>3. \A v \in Worker : Busy(v)' => Busy(v)
    BY <1>4
  <2> QED BY <1>1, <2>1, <2>2, <2>3 DEF PollSound, Handling, PollGoal
<1> QED BY <1>6, <1>7, <1>8 DEF Sound

LEMMA RelinquishSound ==
  ASSUME TypeOK, Sound, NEW w \in Worker, Relinquish(w)
  PROVE  /\ Sound'
         /\ exec' \in [Worker -> Execution]
         /\ \A v \in Worker : In(v, "none")' => exec'[v] = NoExec
         /\ \A v \in Worker : /\ exec'[v].token = exec[v].token
                              /\ exec'[v].id = exec[v].id
                              /\ exec'[v].phase = exec[v].phase
<1> DEFINE g == GoalAt(w)
           q == [exec[w] EXCEPT !.relinquished = TRUE]
<1>1. /\ Busy(w) /\ daemon = "stopping" /\ g \in Goal /\ ~exec[w].relinquished
      /\ exec' = [exec EXCEPT ![w] = q]
      /\ activeGoals' = [activeGoals EXCEPT ![g] = NoWorker]
      /\ UNCHANGED <<daemon, poll, suspendedGoals>>
  BY GoalsOfExecs DEF Relinquish, Sound
<1>2. /\ q \in Execution /\ q.phase = exec[w].phase /\ q.id = exec[w].id
      /\ q.token = exec[w].token /\ q.relinquished = TRUE
  BY DEF TypeOK, Execution
<1>3. q.phase # "none"
  BY <1>1, <1>2 DEF Busy, In
<1> HIDE DEF q
<1>4. /\ exec' \in [Worker -> Execution]
      /\ \A v \in Worker : In(v, "none")' => exec'[v] = NoExec
      /\ exec'[w] = q /\ \A v \in Worker \ {w} : exec'[v] = exec[v]
  BY <1>1, <1>2, <1>3, RewriteExec
<1>5. /\ activeGoals'[g] = NoWorker
      /\ \A k \in Goal \ {g} : activeGoals'[k] = activeGoals[k]
  BY <1>1 DEF TypeOK
<1>6. \A v \in Worker : /\ Busy(v)' <=> Busy(v)
                        /\ Active(v)' <=> Active(v)
                        /\ GoalAt(v)' = GoalAt(v)
                        /\ exec'[v].token = exec[v].token /\ exec'[v].id = exec[v].id
                        /\ exec'[v].phase = exec[v].phase
  BY <1>2, <1>4 DEF Busy, In, Active, GoalAt
<1>7. \A v \in Worker \ {w} : Busy(v) => GoalAt(v) # g
  BY <1>1 DEF Sound, OneAtATime
<1> HIDE DEF g
<1>8. ExecSound' /\ OneAtATime' /\ NotSuspended' /\ ProcessSound'
  BY <1>1, <1>6 DEF Sound, ExecSound, OneAtATime, NotSuspended, ProcessSound
<1>9. OneExecutionPerGoal'
  <2> SUFFICES ASSUME NEW v \in Worker, NEW k \in Goal
               PROVE  activeGoals'[k] = v <=>
                        Busy(v)' /\ GoalAt(v)' = k /\ ~exec'[v].relinquished
    BY DEF OneExecutionPerGoal
  <2>1. activeGoals[k] = v <=> Busy(v) /\ GoalAt(v) = k /\ ~exec[v].relinquished
    BY DEF Sound, OneExecutionPerGoal
  <2>2. NoWorker # v
    BY SupervisorAssumption DEF SupervisorAssumption
  <2> QED BY <1>1, <1>2, <1>4, <1>5, <1>6, <1>7, <2>1, <2>2 DEF g
<1>10. PollSound'
  <2>1. PollSound /\ poll.rest \subseteq Worker
    BY DEF Sound, TypeOK, PollState
  <2>2. poll.stage = "leasing" => activeGoals'[PollGoal] = NoWorker
    BY <1>5, <2>1, SupervisorAssumption
    DEF SupervisorAssumption, PollSound, Handling, PollGoal
  <2> QED BY <1>1, <1>6, <2>1, <2>2 DEF PollSound, Handling, PollGoal
<1> QED BY <1>4, <1>6, <1>8, <1>9, <1>10 DEF Sound

LEMMA MemoryLostSound ==
  ASSUME MemoryLost
  PROVE  /\ Sound' /\ poll' \in PollState /\ exec' \in [Worker -> Execution]
         /\ \A v \in Worker : exec'[v] = NoExec
<1>1. /\ daemon' = "down" /\ poll' = NoPoll
      /\ \A v \in Worker : exec'[v] = NoExec
      /\ exec' \in [Worker -> Execution]
      /\ \A g \in Goal : activeGoals'[g] = NoWorker
  BY EmptyRecords DEF MemoryLost
<1>2. \A v \in Worker : ~Busy(v)' /\ ~Active(v)' /\ exec'[v].relinquished = FALSE
  BY <1>1 DEF Busy, In, Active, NoExec
<1>3. PollSound' /\ poll' \in PollState
  BY <1>1, EmptyRecords DEF PollSound, Handling, NoPoll
<1>4. OneExecutionPerGoal'
  BY <1>1, <1>2, SupervisorAssumption DEF SupervisorAssumption, OneExecutionPerGoal
<1>5. ExecSound' /\ OneAtATime' /\ NotSuspended' /\ ProcessSound'
  BY <1>1, <1>2 DEF ExecSound, OneAtATime, NotSuspended, ProcessSound
<1> QED BY <1>1, <1>3, <1>4, <1>5 DEF Sound

(* Steps that change neither poll nor executions, and suspend nobody. *)
LEMMA QuietSound ==
  ASSUME TypeOK, Sound, UNCHANGED <<poll, exec, activeGoals>>,
         suspendedGoals' \subseteq suspendedGoals,
         \/ UNCHANGED daemon
         \/ daemon = "up" /\ daemon' = "stopping"
         \/ daemon = "down" /\ daemon' = "up"
  PROVE  Sound'
<1>1. \A v \in Worker : /\ Busy(v)' <=> Busy(v)
                        /\ Active(v)' <=> Active(v)
                        /\ GoalAt(v)' = GoalAt(v)
                        /\ exec'[v] = exec[v]
  BY DEF Busy, In, Active, GoalAt
<1>2. poll.rest \subseteq Worker
  BY DEF TypeOK, PollState
<1>3. PollSound'
  BY <1>1, <1>2 DEF Sound, PollSound, Handling, PollGoal
<1>4. daemon = "down" => \A v \in Worker : ~exec[v].relinquished
  BY DEF Sound, ProcessSound, TypeOK, Busy, NoExec
<1>5. ExecSound' /\ OneAtATime' /\ NotSuspended' /\ OneExecutionPerGoal'
  BY <1>1 DEF Sound, ExecSound, OneAtATime, NotSuspended, OneExecutionPerGoal
<1>6. ProcessSound'
  BY <1>1, <1>4 DEF Sound, ProcessSound
<1> QED BY <1>3, <1>5, <1>6 DEF Sound

-----------------------------------------------------------------------------
(* The step *)

Inv == TypeOK /\ Sound

LEMMA ProceedsSound ==
  ASSUME Inv, NEW w \in Worker, Proceeds(w)
  PROVE  Inv'
<1> USE DEF Inv
<1>1. Advance(w)
  BY ProceedsAdvances
<1>2. UNCHANGED <<daemon, poll, activeGoals>> /\ SuspendsAtMost(w)
  BY DEF Proceeds, BeginRun, AdmissionFails, RunReturns, RunThrows, RunAborted, CheckExtend,
         JudgeRelinquished, JudgeSuccess, JudgeSuspend, JudgeRetry, CompleteClaim, DropClaim,
         ExecOnly, JudgeOnly, SettleOnly, SuspendsAtMost
<1>3. Sound'
  BY <1>1, <1>2, AdvanceSound
<1>4. GoalAt(w) \in Goal /\ exec[w].token \in Token
  BY <1>1, GoalsOfExecs DEF Advance, Sound, ExecSound
<1>5. crashCounts' \in [Goal -> 0..MaxCrashCount]
  <2>1. 0 \in 0..MaxCrashCount
    BY SupervisorAssumption DEF SupervisorAssumption
  <2>2. \A c \in 0..MaxCrashCount : (IF c < MaxCrashCount THEN c + 1 ELSE c) \in 0..MaxCrashCount
    BY SupervisorAssumption DEF SupervisorAssumption
  <2>3. CountCrash(w) => crashCounts' \in [Goal -> 0..MaxCrashCount]
    BY <1>4, <2>2 DEF CountCrash, TypeOK
  <2>4. crashCounts' = [crashCounts EXCEPT ![GoalAt(w)] = 0]
          => crashCounts' \in [Goal -> 0..MaxCrashCount]
    BY <2>1 DEF TypeOK
  <2>5. \/ UNCHANGED crashCounts \/ CountCrash(w)
        \/ crashCounts' = [crashCounts EXCEPT ![GoalAt(w)] = 0]
    BY DEF Proceeds, BeginRun, AdmissionFails, RunReturns, RunThrows, RunAborted, CheckExtend,
         JudgeRelinquished, JudgeSuccess, JudgeSuspend, JudgeRetry, CompleteClaim, DropClaim,
         ExecOnly, JudgeOnly, SettleOnly
  <2> QED BY <2>3, <2>4, <2>5 DEF TypeOK
<1>6. /\ savedCounts' \in {savedCounts, crashCounts}
      /\ crashed' \subseteq crashed \cup {w}
      /\ suspendedGoals' \subseteq suspendedGoals \cup {GoalAt(w)}
      /\ pendingTimers' \subseteq pendingTimers \cup {exec[w].token}
      /\ answered' \subseteq answered \cup Id
      /\ UNCHANGED <<stoppedGoals, outages, healthy>>
  BY DEF Proceeds, BeginRun, AdmissionFails, RunReturns, RunThrows, RunAborted, CheckExtend,
         JudgeRelinquished, JudgeSuccess, JudgeSuspend, JudgeRetry, CompleteClaim, DropClaim,
         ExecOnly, JudgeOnly, SettleOnly, AnswersAll
<1>7. TypeOK'
  BY <1>1, <1>2, <1>4, <1>5, <1>6 DEF TypeOK, Advance
<1> QED BY <1>3, <1>7

LEMMA PollSteps ==
  ASSUME Inv, PollStep
  PROVE  Inv'
<1> USE DEF Inv
<1>1. Sound' /\ poll' \in PollState /\ (Dispatch \/ Coalesce \/ UNCHANGED exec)
  <2>1. ASSUME NEW w \in Worker, NEW t \in Token, NEW i \in Id, PollClaim(w, t, i)
        PROVE  Sound' /\ poll' \in PollState /\ UNCHANGED exec
    BY <2>1, ClaimSound DEF PollClaim
  <2>2. ASSUME PollEmpty
        PROVE  Sound' /\ poll' \in PollState /\ UNCHANGED exec
    BY <2>2, PollEnds, PollIsAlive DEF PollEmpty, MayClaim
  <2>3. ASSUME Coalesce
        PROVE  Sound' /\ poll' \in PollState
    <3>1. poll.id \in Id
      BY <2>3 DEF Coalesce, Sound, PollSound, Handling
    <3>2. PICK w \in Worker : Advance(w)
      BY <2>3, <3>1, CoalesceAdvances DEF Sound
    <3>3. /\ poll.stage = "claimed" /\ poll' = [poll EXCEPT !.stage = "coalesced"]
          /\ UNCHANGED <<daemon, activeGoals, suspendedGoals>>
      BY <2>3 DEF Coalesce, PollOnly
    <3>4. SuspendsAtMost(w)
      BY <3>3 DEF SuspendsAtMost
    <3>6. Sound'
      BY <3>3, <3>2, <3>4, AdvanceSound
    <3> QED BY <3>3, <3>6 DEF TypeOK, PollState
  <2>4. ASSUME AckCoalesced \/ DropStopped \/ DropSuspended \/ LeaseUnavailable
        PROVE  Sound' /\ poll' \in PollState /\ UNCHANGED exec
    BY <2>4, SettlesAndGoesOn
       DEF Handling, AckCoalesced, DropStopped, DropSuspended, LeaseUnavailable
  <2>5. ASSUME SeekLease
        PROVE  Sound' /\ poll' \in PollState /\ UNCHANGED exec
    BY <2>5, SeekLeaseSound DEF SeekLease
  <2>6. ASSUME StoppingAtDispatch
        PROVE  Sound' /\ poll' \in PollState /\ UNCHANGED exec
    BY <2>6, PollEnds DEF StoppingAtDispatch
  <2>7. ASSUME Dispatch
        PROVE  Sound' /\ poll' \in PollState
    BY <2>7, DispatchSound
  <2> QED BY <2>1, <2>2, <2>3, <2>4, <2>5, <2>6, <2>7 DEF PollStep
<1>2. exec' \in [Worker -> Execution] /\ \A v \in Worker : In(v, "none")' => exec'[v] = NoExec
  <2>1. CASE Dispatch
    <3>1. poll.worker \in Worker /\ poll.id \in Id /\ poll.token \in Token
      BY <2>1 DEF Dispatch, Sound, PollSound, Handling
    <3> DEFINE q == [NoExec EXCEPT !.phase = "admitting", !.id = poll.id, !.token = poll.token]
    <3>2. q \in Execution /\ q.phase = "admitting"
      BY <3>1 DEF NoExec, Execution, Phases
    <3>3. exec' = [exec EXCEPT ![poll.worker] = q]
      BY <2>1 DEF Dispatch
    <3> HIDE DEF q
    <3> QED BY <3>1, <3>2, <3>3, RewriteExec
  <2>2. CASE Coalesce
    <3>1. poll.id \in Id
      BY <2>2 DEF Coalesce, Sound, PollSound, Handling
    <3> QED BY <2>2, <3>1, CoalesceAdvances DEF Sound, Advance
  <2>3. CASE UNCHANGED exec
    BY <2>3 DEF TypeOK, In
  <2> QED BY <1>1, <2>1, <2>2, <2>3
<1>3. /\ UNCHANGED <<daemon, crashed, crashCounts, suspendedGoals, stoppedGoals,
                     pendingTimers, outages, healthy>>
      /\ savedCounts' \in {savedCounts, crashCounts}
      /\ answered' \subseteq answered \cup Id
  BY DEF PollStep, PollOnly, PollClaim, PollEmpty, Coalesce, AckCoalesced, DropStopped,
         DropSuspended, SeekLease, LeaseUnavailable, StoppingAtDispatch, Dispatch, AnswersAll
<1>4. activeGoals' \in [Goal -> Worker \cup {NoWorker}]
  <2>1. CASE Dispatch
    <3>1. poll.worker \in Worker
      BY <2>1 DEF Dispatch, Sound, PollSound, Handling
    <3> QED BY <2>1, <3>1 DEF Dispatch, TypeOK
  <2>2. CASE ~Dispatch
    BY <2>2
    DEF PollStep, PollOnly, PollClaim, PollEmpty, Coalesce, AckCoalesced,
        DropStopped,
         DropSuspended, SeekLease, LeaseUnavailable, StoppingAtDispatch, TypeOK
  <2> QED BY <2>1, <2>2
<1>5. TypeOK'
  BY <1>1, <1>2, <1>3, <1>4 DEF TypeOK
<1> QED BY <1>1, <1>5

LEMMA InvStep == Inv /\ [Next]_vars => Inv'
<1> SUFFICES ASSUME Inv, [Next]_vars PROVE Inv'
  OBVIOUS
<1> USE DEF Inv
<1>1. ASSUME NEW i \in Id, ActivateGoal(i)
      PROVE  Inv'
  <2>1. Sound'
    BY <1>1, QuietSound DEF ActivateGoal
  <2> QED BY <1>1, <2>1 DEF ActivateGoal, TypeOK, In
<1>2. ASSUME NEW g \in Goal, DeactivateGoal(g)
      PROVE  Inv'
  <2>1. Sound'
    BY <1>2, QuietSound DEF DeactivateGoal
  <2> QED BY <1>2, <2>1 DEF DeactivateGoal, TypeOK, In
<1>3. CASE PollStep
  BY <1>3, PollSteps
<1>4. ASSUME NEW w \in Worker, Proceeds(w)
      PROVE  Inv'
  BY <1>4, ProceedsSound
<1>5. ASSUME NEW w \in Worker, EndExecution(w)
      PROVE  Inv'
  <2>1. Sound'
    BY <1>5, EndSound
  <2>2. GoalAt(w) \in Goal
    BY <1>5, GoalsOfExecs DEF EndExecution, Busy, In, Sound
  <2>3. exec' \in [Worker -> Execution] /\ \A v \in Worker : In(v, "none")' => exec'[v] = NoExec
    BY <1>5, EmptyRecords, RewriteExec DEF EndExecution
  <2>4. activeGoals' \in [Goal -> Worker \cup {NoWorker}]
    BY <1>5, <2>2 DEF EndExecution, TypeOK
  <2>5. UNCHANGED <<daemon, poll, crashed, crashCounts, suspendedGoals, stoppedGoals,
                    pendingTimers, outages, answered, healthy>> /\ savedCounts' = crashCounts
    BY <1>5 DEF EndExecution, ExecOnly
  <2> QED BY <2>1, <2>3, <2>4, <2>5 DEF TypeOK
<1>6. ASSUME NEW w \in Worker, RenewOwnership(w)
      PROVE  Inv'
  <2>1. Advance(w)
    BY <1>6, RenewAdvances
  <2>2. UNCHANGED <<daemon, poll, crashed, activeGoals, crashCounts, savedCounts,
                    suspendedGoals, stoppedGoals, pendingTimers, outages, answered>>
    BY <1>6 DEF RenewOwnership
  <2>3. SuspendsAtMost(w)
    BY <2>2 DEF SuspendsAtMost
  <2>4. Sound'
    BY <2>1, <2>2, <2>3, AdvanceSound
  <2>5. healthy' \in BOOLEAN
    BY <1>6 DEF RenewOwnership
  <2> QED BY <2>1, <2>2, <2>4, <2>5 DEF TypeOK, Advance
<1>7. ASSUME NEW w \in Worker, Relinquish(w)
      PROVE  Inv'
  <2>1. /\ Sound' /\ exec' \in [Worker -> Execution]
        /\ \A v \in Worker : In(v, "none")' => exec'[v] = NoExec
    BY <1>7, RelinquishSound
  <2>2. UNCHANGED <<daemon, poll, crashed, crashCounts, suspendedGoals, stoppedGoals,
                    pendingTimers, outages, answered, healthy>> /\ savedCounts' = crashCounts
    BY <1>7 DEF Relinquish
  <2>3. activeGoals' \in [Goal -> Worker \cup {NoWorker}]
    BY <1>7 DEF Relinquish, TypeOK
  <2> QED BY <2>1, <2>2, <2>3 DEF TypeOK
<1>8. ASSUME NEW t \in pendingTimers, FireRetry(t)
      PROVE  Inv'
  <2>1. Sound'
    BY <1>8, QuietSound DEF FireRetry
  <2> QED BY <1>8, <2>1 DEF FireRetry, TypeOK, In
<1>9. CASE Shutdown
  <2>1. Sound'
    BY <1>9, QuietSound DEF Shutdown
  <2>2. outages' \in 0..MaxOutages
    BY <1>9, SupervisorAssumption DEF SupervisorAssumption, Shutdown, TypeOK
  <2> QED BY <1>9, <2>1, <2>2 DEF Shutdown, TypeOK, In
<1>10. CASE Exit \/ Crash
  <2>1. MemoryLost
    BY <1>10 DEF Exit, Crash
  <2>2. /\ Sound' /\ poll' \in PollState /\ exec' \in [Worker -> Execution]
        /\ \A v \in Worker : exec'[v] = NoExec
    BY <2>1, MemoryLostSound
  <2>3. outages' \in 0..MaxOutages /\ healthy' \in BOOLEAN
    <3>1. MaxOutages \in Nat /\ outages \in 0..MaxOutages /\ healthy \in BOOLEAN
      BY SupervisorAssumption DEF SupervisorAssumption, TypeOK
    <3>2. \/ UNCHANGED <<outages, healthy>>
          \/ outages < MaxOutages /\ outages' = outages + 1 /\ healthy' = FALSE
      BY <1>10 DEF Exit, Crash
    <3>3. outages' \in 0..MaxOutages
      BY <3>1, <3>2
    <3> QED BY <3>1, <3>2, <3>3
  <2>4. savedCounts' \in {savedCounts, crashCounts}
    BY <1>10 DEF Exit, Crash
  <2>5. /\ daemon' \in {"up", "stopping", "down"} /\ crashed' = {} /\ suspendedGoals' = {}
        /\ stoppedGoals' = {} /\ pendingTimers' = {} /\ UNCHANGED answered
        /\ activeGoals' \in [Goal -> Worker \cup {NoWorker}]
        /\ crashCounts' \in [Goal -> 0..MaxCrashCount]
    <3>1. 0 \in 0..MaxCrashCount
      BY SupervisorAssumption DEF SupervisorAssumption
    <3> QED BY <2>1, <3>1 DEF MemoryLost
  <2> QED BY <2>2, <2>3, <2>4, <2>5 DEF TypeOK
<1>11. CASE Restart
  <2>1. Sound'
    BY <1>11, QuietSound DEF Restart
  <2> QED BY <1>11, <2>1 DEF Restart, TypeOK, In
<1>12. CASE Sweep \/ Tick \/ UNCHANGED vars
  <2>1. UNCHANGED Memory
    BY <1>12 DEF Sweep, Tick, vars, Memory
  <2>2. Sound'
    BY <2>1, QuietSound DEF Memory
  <2> QED BY <2>1, <2>2 DEF Memory, TypeOK, In
<1> QED
  BY <1>1, <1>2, <1>3, <1>4, <1>5, <1>6, <1>7, <1>8, <1>9, <1>10, <1>11, <1>12
     DEF Next, ExecStep, Proceeds

LEMMA InvInit == Init => Inv
<1> SUFFICES ASSUME Init PROVE Inv
  OBVIOUS
<1>1. /\ daemon = "up" /\ poll = NoPoll /\ \A v \in Worker : exec[v] = NoExec
      /\ exec \in [Worker -> Execution] /\ poll \in PollState
      /\ \A g \in Goal : activeGoals[g] = NoWorker
  BY EmptyRecords DEF Init
<1>2. \A v \in Worker : ~Busy(v) /\ ~Active(v) /\ exec[v].relinquished = FALSE
  BY <1>1 DEF Busy, In, Active, NoExec
<1>3. PollSound
  BY <1>1 DEF PollSound, Handling, NoPoll
<1>4. OneExecutionPerGoal
  BY <1>1, <1>2, SupervisorAssumption DEF SupervisorAssumption, OneExecutionPerGoal
<1>5. ExecSound /\ OneAtATime /\ NotSuspended /\ ProcessSound
  BY <1>1, <1>2 DEF ExecSound, OneAtATime, NotSuspended, ProcessSound
<1>6. TypeOK
  <2>1. 0 \in 0..MaxCrashCount /\ 0 \in 0..MaxOutages
    BY SupervisorAssumption DEF SupervisorAssumption
  <2> QED BY <1>1, <2>1 DEF Init, TypeOK
<1> QED BY <1>3, <1>4, <1>5, <1>6 DEF Inv, Sound

LEMMA InvHolds == Spec => []Inv
BY InvInit, InvStep, PTL DEF Spec

(* The supervisor's memory is well formed (TypeOK): among others, a slot   *)
(* without an execution keeps nothing of an earlier one.                   *)
THEOREM SupervisorTypeCorrect == Spec => []TypeOK
<1>1. Inv => TypeOK
  BY DEF Inv
<1> QED BY <1>1, InvHolds, PTL

(* A goal has one execution at most, and activeGoals names it              *)
(* (OneExecutionPerGoal), through coalescing, retries, shutdowns, crashes  *)
(* and restarts: the poll asks for a lease only for a goal nobody has, and *)
(* no other code marks a goal active before that lease is answered.        *)
THEOREM GoalsRunOnce == Spec => []OneExecutionPerGoal
<1>1. Inv => OneExecutionPerGoal
  BY DEF Inv, Sound
<1> QED BY <1>1, InvHolds, PTL

(* No run begins for a suspended goal (SuspendedNeverRuns), neither a      *)
(* first nor an extended one: only the goal's own execution suspends it,   *)
(* and then it is past its last run.                                       *)
THEOREM SuspensionHolds == Spec => SuspendedNeverRuns
<1> DEFINE Step == \A w \in Worker : ~In(w, "running") /\ In(w, "running")'
                     => GoalOf[exec'[w].id] \notin suspendedGoals
<1>1. Inv /\ [Next]_vars => Step
  <2> SUFFICES ASSUME Inv, [Next]_vars, NEW w \in Worker,
                      ~In(w, "running"), In(w, "running")'
               PROVE  GoalOf[exec'[w].id] \notin suspendedGoals
    OBVIOUS
  <2>1. Active(w)' /\ exec'[w].phase = "running"
    BY DEF Active, In
  <2>2. Active(w) /\ exec'[w].id = exec[w].id
    <3>1. ASSUME NEW v \in Worker, Advance(v)
          PROVE  Active(w) /\ exec'[w].id = exec[w].id
      BY <2>1, <3>1 DEF Advance, Active
    <3>2. ASSUME NEW v \in Worker, Proceeds(v) \/ RenewOwnership(v)
          PROVE  Active(w) /\ exec'[w].id = exec[w].id
      BY <3>1, <3>2, ProceedsAdvances, RenewAdvances DEF Inv
    <3>3. ASSUME Coalesce
          PROVE  Active(w) /\ exec'[w].id = exec[w].id
      <4>1. poll.id \in Id
        BY <3>3 DEF Coalesce, Inv, Sound, PollSound, Handling
      <4> QED BY <3>1, <3>3, <4>1, CoalesceAdvances DEF Inv, Sound
    <3>4. ASSUME NEW v \in Worker, EndExecution(v)
          PROVE  FALSE
      <4>1. exec'[v] = NoExec /\ \A u \in Worker \ {v} : exec'[u] = exec[u]
        BY <3>4, EmptyRecords, RewriteExec DEF EndExecution, Inv
      <4> QED BY <2>1, <4>1 DEF NoExec, In
    <3>5. ASSUME NEW v \in Worker, Relinquish(v)
          PROVE  FALSE
      BY <2>1, <3>5, RelinquishSound DEF Inv, In
    <3>6. ASSUME Dispatch
          PROVE  FALSE
      <4>1. poll.worker \in Worker /\ poll.id \in Id /\ poll.token \in Token
        BY <3>6 DEF Dispatch, Inv, Sound, PollSound, Handling
      <4> DEFINE q == [NoExec EXCEPT !.phase = "admitting", !.id = poll.id, !.token = poll.token]
      <4>2. q \in Execution /\ q.phase = "admitting"
        BY <4>1 DEF NoExec, Execution, Phases
      <4>3. exec' = [exec EXCEPT ![poll.worker] = q]
        BY <3>6 DEF Dispatch
      <4> HIDE DEF q
      <4>4. exec'[poll.worker] = q /\ \A u \in Worker \ {poll.worker} : exec'[u] = exec[u]
        BY <4>1, <4>2, <4>3, RewriteExec DEF Inv
      <4> QED BY <2>1, <4>2, <4>4 DEF In
    <3>7. ASSUME Exit \/ Crash
          PROVE  FALSE
      <4>1. exec'[w] = NoExec
        BY <3>7, MemoryLostSound DEF Exit, Crash
      <4> QED BY <2>1, <4>1 DEF NoExec
    <3>8. ASSUME UNCHANGED exec
          PROVE  FALSE
      BY <2>1, <3>8 DEF In
    <3>9. \/ UNCHANGED exec \/ Exit \/ Crash \/ Dispatch \/ Coalesce
          \/ \E v \in Worker : \/ Relinquish(v) \/ EndExecution(v) \/ Proceeds(v)
                               \/ RenewOwnership(v)
      BY DEF Next, ActivateGoal, DeactivateGoal, PollStep, PollClaim, PollEmpty, AckCoalesced,
             DropStopped, DropSuspended, SeekLease, LeaseUnavailable, StoppingAtDispatch,
             ExecStep, Proceeds, FireRetry, Shutdown, Restart, Sweep, Tick, Memory, vars
    <3> QED BY <3>2, <3>3, <3>4, <3>5, <3>6, <3>7, <3>8, <3>9
  <2> QED BY <2>2 DEF Inv, Sound, NotSuspended, GoalAt
<1>2. Inv /\ [Next]_vars => [Step]_vars
  BY <1>1
<1> QED BY <1>2, InvHolds, PTL DEF Spec, SuspendedNeverRuns

-----------------------------------------------------------------------------
(* The queue inside the supervisor *)

(* The theorems about the queue, at the constants the supervisor gives it. *)
QP == INSTANCE JournalBackedQueueProofs WITH
  Handles <- [w \in Worker |-> Id], AttemptBound <- 0

LEMMA QueueConstants == QP!QueueAssumption
BY SupervisorAssumption DEF SupervisorAssumption, Queue!QueueAssumption, QP!QueueAssumption

LEMMA SameRows ==
  /\ Queue!TypeOK <=> QP!TypeOK
  /\ \A i \in Id, t \in Token : Queue!LiveClaim(i, t) <=> QP!LiveClaim(i, t)
BY DEF Queue!TypeOK, QP!TypeOK, Queue!Record, QP!Record, Queue!WellFormed, QP!WellFormed,
       Queue!Status, QP!Status, Queue!Reason, QP!Reason,
       Queue!LiveClaim, QP!LiveClaim, Queue!Is, QP!Is

LEMMA SameSettling ==
  ASSUME NEW t, NEW requeue
  PROVE  /\ Queue!Renew(t) <=> QP!Renew(t)
         /\ Queue!Ack(t) <=> QP!Ack(t)
         /\ Queue!Nack(t, requeue) <=> QP!Nack(t, requeue)
BY DEF Queue!Renew, QP!Renew, Queue!Ack, QP!Ack, Queue!Nack, QP!Nack,
       Queue!LiveClaim, QP!LiveClaim, Queue!Is, QP!Is, Queue!BudgetSpent, QP!BudgetSpent,
       Queue!Released, QP!Released, Queue!AsPending, QP!AsPending,
       Queue!AsDeadletter, QP!AsDeadletter, Queue!PushedTail, QP!PushedTail,
       Queue!Without, QP!Without, Queue!Pending, QP!Pending, Queue!SameBucket, QP!SameBucket

LEMMA SameArrivals ==
  ASSUME NEW i, NEW left, NEW F, NEW t
  PROVE  /\ Queue!Accept(i, left) <=> QP!Accept(i, left)
         /\ Queue!Claim(F, t, i) <=> QP!Claim(F, t, i)
         /\ Queue!ClaimNothing(F) <=> QP!ClaimNothing(F)
BY DEF Queue!Accept, QP!Accept, Queue!AcceptRefused, QP!AcceptRefused, Queue!Absent, QP!Absent,
       Queue!Claim, QP!Claim, Queue!ClaimNothing, QP!ClaimNothing, Queue!Eligible, QP!Eligible,
       Queue!Expired, QP!Expired, Queue!ScannedBefore, QP!ScannedBefore,
       Queue!FreshToken, QP!FreshToken, Queue!SameKey, QP!SameKey, Queue!Is, QP!Is,
       Queue!Released, QP!Released, Queue!AsDeadletter, QP!AsDeadletter,
       Queue!PushedTail, QP!PushedTail, Queue!Without, QP!Without, Queue!Pending, QP!Pending,
       Queue!SameBucket, QP!SameBucket

LEMMA SameTime ==
  /\ Queue!SweepExpiredClaims <=> QP!SweepExpiredClaims
  /\ Queue!Tick <=> QP!Tick
BY DEF Queue!SweepExpiredClaims, QP!SweepExpiredClaims, Queue!LeaseLapsed, QP!LeaseLapsed,
       Queue!Is, QP!Is, Queue!BudgetSpent, QP!BudgetSpent, Queue!Released, QP!Released,
       Queue!AsPending, QP!AsPending, Queue!AsDeadletter, QP!AsDeadletter, Queue!Orders, QP!Orders,
       Queue!Pending, QP!Pending, Queue!SameBucket, QP!SameBucket,
       Queue!Tick, QP!Tick, Queue!Aged, QP!Aged, Queue!Less, QP!Less

LEMMA SameSteps ==
  ASSUME NEW i \in Id, Queue!Active(i) /\ Queue!Deadletter(i)
  PROVE  QP!Active(i) /\ QP!Deadletter(i)
BY DEF Queue!Active, QP!Active, Queue!Deadletter, QP!Deadletter, Queue!Is, QP!Is,
       Queue!AsDeadletter, QP!AsDeadletter, Queue!Released, QP!Released, Queue!Without, QP!Without

LEMMA QueueStepIsStep == [Queue!DaemonNext]_queueVars => [QP!DaemonNext]_(QP!vars)
<1> SUFFICES ASSUME Queue!DaemonNext PROVE QP!DaemonNext
  BY DEF queueVars, QP!vars
<1> QED
  BY SameSettling, SameArrivals, SameTime, SameSteps
     DEF Queue!DaemonNext, QP!DaemonNext, Queue!ClaimBy, QP!ClaimBy

-----------------------------------------------------------------------------
(* The steps of the supervisor are steps of the daemon's queue. *)

LEMMA AgelessRow ==
  ASSUME NEW r \in QP!Record, r.ttl = 0, r.lease = 0
  PROVE  Queue!Aged(r) = r
<1> DEFINE q == [r EXCEPT !.ttl = 0]
<1>1. q = r
  BY DEF QP!Record
<1>2. [q EXCEPT !.lease = 0] = r
  BY <1>1 DEF QP!Record
<1>3. Queue!Less(r.ttl) = 0 /\ Queue!Less(r.lease) = 0
  BY DEF Queue!Less
<1>4. Queue!Aged(r) = [[r EXCEPT !.ttl = Queue!Less(r.ttl)] EXCEPT !.lease = Queue!Less(r.lease)]
  BY Zenon DEF Queue!Aged
<1> QED BY <1>2, <1>3, <1>4

LEMMA TimePasses ==
  ASSUME QP!TypeOK, Tick
  PROVE  Queue!Tick \/ UNCHANGED queueVars
<1>1. records' = [i \in Id |-> Queue!Aged(records[i])] /\ UNCHANGED ahead
  BY DEF Tick
<1>2. CASE \E i \in Id : records[i].ttl > 0 \/ records[i].lease > 0
  BY <1>1, <1>2 DEF Queue!Tick
<1>3. CASE ~\E i \in Id : records[i].ttl > 0 \/ records[i].lease > 0
  <2>1. \A i \in Id : records[i] \in QP!Record /\ records[i].ttl = 0 /\ records[i].lease = 0
    BY <1>3 DEF QP!TypeOK, QP!Record
  <2>2. \A i \in Id : Queue!Aged(records[i]) = records[i]
    BY <2>1, AgelessRow
  <2>3. records' = records
    BY <1>1, <2>2 DEF QP!TypeOK
  <2> QED BY <1>1, <2>3 DEF queueVars
<1> QED BY <1>2, <1>3

(* How the poll and the executions settle the claim they have. *)
Settling(t) ==
  \/ TryAck(t) \/ TryNack(t, TRUE) \/ TryNack(t, FALSE) \/ Queue!Renew(t)
  \/ UNCHANGED queueVars

LEMMA PollSettles ==
  ASSUME Inv, \/ AckCoalesced \/ DropStopped \/ DropSuspended \/ LeaseUnavailable
              \/ StoppingAtDispatch
  PROVE  poll.token \in Token /\ Settling(poll.token)
<1>1. Handling
  BY DEF Handling, AckCoalesced, DropStopped, DropSuspended, LeaseUnavailable,
         StoppingAtDispatch
<1>2. TryAck(poll.token) \/ TryNack(poll.token, TRUE) \/ TryNack(poll.token, FALSE)
  BY DEF AckCoalesced, DropStopped, DropSuspended, LeaseUnavailable, StoppingAtDispatch
<1> QED BY <1>1, <1>2 DEF Inv, Sound, PollSound, Settling

LEMMA ExecSettles ==
  ASSUME Inv, NEW w \in Worker, ExecStep(w) \/ RenewOwnership(w) \/ Relinquish(w)
  PROVE  exec[w].token \in Token /\ Settling(exec[w].token)
<1> DEFINE t == exec[w].token
<1>1. Busy(w)
  BY DEF ExecStep, RenewOwnership, Relinquish, Busy, In, BeginRun, AdmissionFails, RunReturns,
         RunThrows, RunAborted, CheckExtend, JudgeRelinquished, JudgeSuccess, JudgeSuspend,
         JudgeRetry, CompleteClaim, DropClaim, EndExecution
<1>2. t \in Token
  BY <1>1 DEF Inv, Sound, ExecSound
<1>3. \/ TryAck(t) \/ TryNack(t, TRUE) \/ TryNack(t, FALSE) \/ Queue!Renew(t)
      \/ UNCHANGED queueVars
  BY DEF ExecStep, RenewOwnership, Relinquish, BeginRun, AdmissionFails, RunReturns,
         RunThrows, RunAborted, CheckExtend, JudgeRelinquished, JudgeSuccess, JudgeSuspend,
         JudgeRetry, CompleteClaim, DropClaim, EndExecution
<1> QED BY <1>2, <1>3 DEF Settling

LEMMA TimerSettles ==
  ASSUME Inv, NEW t \in pendingTimers, FireRetry(t)
  PROVE  t \in Token /\ Settling(t)
BY DEF Inv, TypeOK, FireRetry, Settling

LEMMA SettlingStep ==
  ASSUME NEW t \in Token, Settling(t)
  PROVE  [Queue!DaemonNext]_queueVars /\ QP!BeginsNoClaim
<1>1. \/ Queue!Ack(t) \/ Queue!Renew(t) \/ UNCHANGED queueVars
      \/ \E requeue \in BOOLEAN : Queue!Nack(t, requeue)
  BY DEF Settling, TryAck, TryNack
<1>2. [Queue!DaemonNext]_queueVars
  BY <1>1 DEF Queue!DaemonNext
<1>3. QP!BeginsNoClaim
  BY <1>1, SameSettling DEF QP!BeginsNoClaim, queueVars, QP!vars
<1> QED BY <1>2, <1>3

(* Every step of the supervisor is one of the queue's, and only the poll   *)
(* begins a claim.                                                         *)
LEMMA QueueStep ==
  ASSUME Inv, QP!TypeOK, [Next]_vars
  PROVE  /\ [Queue!DaemonNext]_queueVars
         /\ \/ QP!BeginsNoClaim
            \/ \E w \in Worker, t \in Token, i \in Id : PollClaim(w, t, i)
<1> DEFINE QueueMove == [Queue!DaemonNext]_queueVars /\ QP!BeginsNoClaim
<1>0. UNCHANGED queueVars => QueueMove
  BY DEF queueVars, QP!BeginsNoClaim, QP!vars
<1>1. ASSUME NEW i \in Id, ActivateGoal(i)
      PROVE  QueueMove
  <2>1. EnvelopeOf[i].ttl \in 0..EnvelopeOf[i].ttl
    BY SupervisorAssumption DEF SupervisorAssumption, Queue!QueueAssumption
  <2>2. UNCHANGED queueVars \/ Queue!Accept(i, EnvelopeOf[i].ttl)
    BY <1>1 DEF ActivateGoal
  <2> QED BY <1>0, <2>1, <2>2, SameArrivals DEF Queue!DaemonNext, QP!BeginsNoClaim
<1>2. ASSUME NEW t \in pendingTimers, FireRetry(t)
      PROVE  QueueMove
  BY <1>2, TimerSettles, SettlingStep
<1>3. CASE Sweep \/ Tick
  <2>1. Queue!SweepExpiredClaims \/ Queue!Tick \/ UNCHANGED queueVars
    BY <1>3, TimePasses DEF Sweep
  <2> QED BY <1>0, <2>1, SameTime DEF Queue!DaemonNext, QP!BeginsNoClaim
<1>4. ASSUME \/ \E g \in Goal : DeactivateGoal(g)
             \/ Shutdown \/ Exit \/ Crash \/ Restart \/ UNCHANGED vars
             \/ Coalesce \/ SeekLease \/ Dispatch
      PROVE  QueueMove
  <2>1. UNCHANGED queueVars
    BY <1>4 DEF DeactivateGoal, Shutdown, Exit, Crash, MemoryLost, Restart, vars, queueVars,
                Coalesce, SeekLease, Dispatch
  <2> QED BY <1>0, <2>1
<1>5. ASSUME NEW w \in Worker, NEW t \in Token, NEW i \in Id, PollClaim(w, t, i)
      PROVE  [Queue!DaemonNext]_queueVars
  BY <1>5 DEF PollClaim, Queue!DaemonNext, Queue!ClaimBy
<1>6. CASE PollEmpty
  <2>1. PICK w \in Candidates : TRUE
    BY <1>6 DEF PollEmpty
  <2>2. w \in Worker
    BY <1>6, <2>1, CandidatesAreFree DEF Inv, PollEmpty
  <2>3. Queue!ClaimNothing(Id) \/ UNCHANGED queueVars
    BY <1>6 DEF PollEmpty
  <2> QED
    BY <1>0, <2>2, <2>3, SameArrivals DEF Queue!DaemonNext, Queue!ClaimBy, QP!BeginsNoClaim
<1>7. CASE AckCoalesced \/ DropStopped \/ DropSuspended \/ LeaseUnavailable \/ StoppingAtDispatch
  BY <1>7, PollSettles, SettlingStep
<1>8. ASSUME NEW w \in Worker, ExecStep(w) \/ RenewOwnership(w) \/ Relinquish(w)
      PROVE  QueueMove
  BY <1>8, ExecSettles, SettlingStep
<1> QED BY <1>1, <1>2, <1>3, <1>4, <1>5, <1>6, <1>7, <1>8 DEF Next, PollStep

LEMMA RowsTyped == Spec => []QP!TypeOK
<1>1. Init => QP!TypeOK
  <2>1. Queue!Init => QP!Init
    BY DEF Queue!Init, QP!Init, Queue!Absent, QP!Absent
  <2>2. QP!Init => QP!TypeOK
    BY QP!AbsentRow, QueueConstants DEF QP!Init, QP!TypeOK
  <2> QED BY <2>1, <2>2 DEF Init
<1>2. Inv /\ QP!TypeOK /\ [Next]_vars => QP!TypeOK'
  <2> SUFFICES ASSUME Inv, QP!TypeOK, [Next]_vars PROVE QP!TypeOK'
    OBVIOUS
  <2>1. [QP!DaemonNext]_(QP!vars)
    BY QueueStep, QueueStepIsStep
  <2>2. [QP!ApiNext]_(QP!vars)
    BY <2>1 DEF QP!ApiNext
  <2> QED BY <2>2, QP!TypeStep, QueueConstants
<1> QED BY <1>1, <1>2, InvHolds, PTL DEF Spec

(* The supervisor uses the queue only as the daemon may: whatever polls,   *)
(* executions, timers, the sweeper and restarts do to the rows is one of   *)
(* the queue's operations, so all that is proved of JournalBackedQueue     *)
(* holds for the supervisor's queue.                                       *)
THEOREM SupervisorUsesQueue == Spec => Queue!Spec
<1>1. Init => Queue!Init
  BY DEF Init
<1>2. Inv /\ QP!TypeOK /\ [Next]_vars => [Queue!DaemonNext]_queueVars
  BY QueueStep
<1>3. queueVars = Queue!vars
  BY DEF queueVars, Queue!vars
<1>4. Inv /\ QP!TypeOK /\ [Next]_vars => [Queue!DaemonNext]_(Queue!vars)
  BY <1>2, <1>3 DEF queueVars, Queue!vars
<1> QED BY <1>1, <1>4, InvHolds, RowsTyped, PTL DEF Spec, Queue!Spec

-----------------------------------------------------------------------------
(* Claims and who works with them *)

Undisturbed == healthy => daemon = "up" /\ \A w \in Worker : ~exec[w].lost

(* What an execution leaves behind is settled or waits for its timer. *)
ReleasedIsSettled ==
  healthy => \A w \in Worker :
    In(w, "releasing") /\ QP!Live(exec[w].token) => exec[w].token \in pendingTimers

LiveIsInUse == healthy => \A t \in Token : QP!Live(t) => t \in InUse

RowsInv == QP!TypeOK /\ QP!UniqueClaims

Accounting == Undisturbed /\ ReleasedIsSettled /\ LiveIsInUse

LEMMA TrySettles ==
  ASSUME RowsInv, NEW t \in Token, NEW requeue \in BOOLEAN, TryAck(t) \/ TryNack(t, requeue)
  PROVE  ~QP!Live(t)'
<1>1. CASE QP!Live(t)
  <2>1. \E i \in Id : Queue!LiveClaim(i, t)
    BY <1>1, SameRows DEF QP!Live
  <2>2. QP!Ack(t) \/ QP!Nack(t, requeue)
    BY <2>1, SameSettling DEF TryAck, TryNack
  <2> QED BY <2>2, QP!SettledIsDead, QueueConstants DEF RowsInv
<1>2. CASE ~QP!Live(t)
  <2>1. QP!BeginsNoClaim
    BY SettlingStep DEF Settling
  <2> QED BY <1>2, <2>1, QP!LiveBefore, QueueConstants DEF RowsInv
<1> QED BY <1>1, <1>2

(* A step after which at least the same tokens are in use. *)
LEMMA KeepsAccount ==
  ASSUME RowsInv, QP!BeginsNoClaim, LiveIsInUse, healthy' => healthy,
         NEW gone, \A t \in Token : t \in InUse => t \in InUse' \/ t = gone,
         healthy' /\ gone \in Token => ~QP!Live(gone)'
  PROVE  LiveIsInUse'
<1> SUFFICES ASSUME healthy', NEW t \in Token, QP!Live(t)'
             PROVE  t \in InUse'
  BY DEF LiveIsInUse
<1>1. QP!Live(t)
  BY QP!LiveBefore, QueueConstants DEF RowsInv
<1> QED BY <1>1 DEF LiveIsInUse

LEMMA KeepsReleases ==
  ASSUME RowsInv, Inv', QP!BeginsNoClaim, ReleasedIsSettled, healthy' => healthy,
         NEW gone, pendingTimers \ {gone} \subseteq pendingTimers',
         healthy' /\ gone \in Token => ~QP!Live(gone)',
         \A w \in Worker : healthy' /\ In(w, "releasing")' =>
           \/ In(w, "releasing") /\ exec'[w].token = exec[w].token
           \/ ~QP!Live(exec[w].token)' /\ exec'[w].token = exec[w].token
           \/ exec'[w].token \in pendingTimers'
  PROVE  ReleasedIsSettled'
<1> SUFFICES ASSUME healthy', NEW w \in Worker, In(w, "releasing")', QP!Live(exec[w].token)'
             PROVE  exec'[w].token \in pendingTimers'
  BY DEF ReleasedIsSettled
<1>1. exec'[w].token \in Token
  BY DEF Inv, Sound, ExecSound, Busy, In
<1>2. PICK t \in Token : t = exec'[w].token
  BY <1>1
<1>3. QP!Live(t)'
  BY <1>2
<1>4. CASE In(w, "releasing") /\ exec[w].token = t
  <2>1. QP!Live(t)
    BY <1>3, QP!LiveBefore, QueueConstants DEF RowsInv
  <2>2. t \in pendingTimers
    BY <1>4, <2>1 DEF ReleasedIsSettled
  <2> QED BY <1>2, <1>3, <2>2
<1>5. CASE ~QP!Live(exec[w].token)'
  BY <1>5
<1>6. CASE exec'[w].token \in pendingTimers'
  BY <1>6
<1> QED BY <1>2, <1>4, <1>5, <1>6

LEMMA HealthOnlyFades ==
  ASSUME Inv, [Next]_vars, healthy'
  PROVE  healthy
BY DEF Inv, TypeOK, Next, ActivateGoal, DeactivateGoal, PollStep, PollClaim, PollEmpty, Coalesce, AckCoalesced, PollOnly,
       DropStopped, DropSuspended, SeekLease, LeaseUnavailable, StoppingAtDispatch, Dispatch, ExecOnly,
       ExecStep, RenewOwnership, Relinquish, BeginRun, AdmissionFails, RunReturns,
       RunThrows, RunAborted, CheckExtend, JudgeRelinquished, JudgeSuccess, JudgeSuspend,
       JudgeRetry, CompleteClaim, DropClaim, EndExecution, FireRetry, Shutdown, Exit, Crash, Restart,
       Sweep, Tick, Memory, vars

LEMMA AccountingStep ==
  ASSUME Inv, Inv', RowsInv, Accounting, [Next]_vars, healthy'
  PROVE  Accounting'
<1> USE DEF Accounting
<1>1. healthy /\ daemon = "up" /\ \A w \in Worker : ~exec[w].lost /\ ~exec[w].relinquished
  BY HealthOnlyFades DEF Undisturbed, Inv, Sound, ProcessSound
<1>2. NoToken \notin Token
  BY SupervisorAssumption DEF SupervisorAssumption, Queue!QueueAssumption
<1>3. \/ QP!BeginsNoClaim
      \/ \E w \in Worker, t \in Token, i \in Id : PollClaim(w, t, i)
  BY QueueStep DEF RowsInv
(* Executions go on with their claims, timers are only added. *)
<1>4. ASSUME QP!BeginsNoClaim, daemon' = "up",
             \A w \in Worker : exec'[w].token = exec[w].token /\ ~exec'[w].lost,
             pendingTimers \subseteq pendingTimers',
             NEW gone, poll.token # poll'.token => gone = poll.token,
             poll.token = poll'.token => gone = NoToken,
             gone \in Token => ~QP!Live(gone)',
             \A w \in Worker : In(w, "releasing")' =>
               \/ In(w, "releasing") \/ ~QP!Live(exec[w].token)'
               \/ exec'[w].token \in pendingTimers'
      PROVE  Accounting'
  <2>1. \A t \in Token : t \in InUse => t \in InUse' \/ t = gone
    BY <1>4 DEF InUse
  <2>2. LiveIsInUse'
    BY <1>1, <1>4, <2>1, KeepsAccount
  <2>3. ReleasedIsSettled'
    BY <1>1, <1>4, KeepsReleases
  <2>4. Undisturbed'
    BY <1>4 DEF Undisturbed
  <2> QED BY <2>2, <2>3, <2>4
<1>5. ASSUME NEW w \in Worker, NEW t \in Token, NEW i \in Id, PollClaim(w, t, i)
      PROVE  Accounting'
  <2>1. /\ UNCHANGED <<daemon, exec, pendingTimers>> /\ poll'.token = t /\ t \notin InUse
        /\ poll.token = NoToken
    BY <1>5 DEF PollClaim, PollOnly, MayClaim, Inv, Sound, PollSound, Handling
  <2>2. QP!Claim(Id, t, i)
    BY <1>5, SameArrivals DEF PollClaim
  <2>3. \A s \in Token \ {t} : QP!Live(s)' => QP!Live(s)
    BY <2>2, QP!LiveBeforeClaim, QueueConstants DEF RowsInv
  <2>4. LiveIsInUse'
    <3> SUFFICES ASSUME NEW s \in Token, QP!Live(s)' PROVE s \in InUse'
      BY DEF LiveIsInUse
    <3>1. CASE s = t
      BY <2>1, <3>1 DEF InUse
    <3>2. CASE s # t
      <4>1. s \in InUse
        BY <1>1, <2>3, <3>2 DEF LiveIsInUse
      <4> QED BY <1>2, <2>1, <4>1 DEF InUse
    <3> QED BY <3>1, <3>2
  <2>5. ReleasedIsSettled'
    <3> SUFFICES ASSUME NEW v \in Worker, In(v, "releasing")', QP!Live(exec[v].token)'
                 PROVE  exec'[v].token \in pendingTimers'
      BY DEF ReleasedIsSettled
    <3>1. In(v, "releasing") /\ exec'[v].token = exec[v].token /\ exec[v].token # t
      BY <2>1 DEF In, InUse
    <3>2. exec[v].token \in Token
      BY <3>1 DEF Inv, Sound, ExecSound, Busy, In
    <3>3. PICK s \in Token \ {t} : s = exec[v].token
      BY <3>1, <3>2
    <3>4. QP!Live(s)'
      BY <3>1, <3>3
    <3>5. QP!Live(s)
      BY <2>3, <3>4
    <3> QED BY <1>1, <2>1, <3>1, <3>3, <3>5 DEF ReleasedIsSettled
  <2>6. Undisturbed'
    BY <1>1, <2>1 DEF Undisturbed
  <2> QED BY <2>4, <2>5, <2>6
<1>6. ASSUME UNCHANGED <<daemon, exec, poll, pendingTimers>>, QP!BeginsNoClaim
      PROVE  Accounting'
  BY <1>1, <1>2, <1>4, <1>6 DEF In
<1>7. CASE PollEmpty
  <2>1. /\ UNCHANGED <<daemon, exec, pendingTimers>> /\ poll'.token = NoToken
        /\ poll.token = NoToken
    BY <1>7 DEF PollEmpty, PollOnly, MayClaim, Inv, Sound, PollSound, Handling, NoPoll
  <2>2. QP!BeginsNoClaim
    BY <1>7, SameArrivals DEF PollEmpty, QP!BeginsNoClaim, queueVars, QP!vars
  <2> QED BY <1>1, <1>2, <1>4, <2>1, <2>2 DEF In
<1>8. CASE AckCoalesced \/ DropStopped \/ DropSuspended \/ LeaseUnavailable
  <2>1. UNCHANGED <<daemon, exec, pendingTimers>> /\ poll'.token = NoToken
    BY <1>8, NextWorkerFields
       DEF AckCoalesced, DropStopped, DropSuspended, LeaseUnavailable, PollOnly, Inv
  <2>2. /\ poll.token \in Token
        /\ TryAck(poll.token) \/ TryNack(poll.token, TRUE) \/ TryNack(poll.token, FALSE)
    BY <1>8, PollSettles DEF AckCoalesced, DropStopped, DropSuspended, LeaseUnavailable
  <2>3. PICK t \in Token : t = poll.token
    BY <2>2
  <2>4. ~QP!Live(t)' /\ QP!BeginsNoClaim
    BY <2>2, <2>3, TrySettles, SettlingStep DEF Settling
  <2> QED BY <1>1, <1>2, <1>4, <2>1, <2>3, <2>4 DEF In
<1>9. CASE Coalesce
  <2>1. /\ UNCHANGED <<daemon, pendingTimers>> /\ poll'.token = poll.token /\ poll.id \in Id
    BY <1>9 DEF Coalesce, PollOnly, Inv, Sound, PollSound, Handling, TypeOK, PollState
  <2>2. PICK w \in Worker :
          Advance(w) /\ exec'[w].phase = exec[w].phase /\ exec'[w].lost = exec[w].lost
    BY <1>9, <2>1, CoalesceAdvances DEF Inv, Sound
  <2>3. \A v \in Worker : /\ exec'[v].token = exec[v].token /\ ~exec'[v].lost
                          /\ exec'[v].phase = exec[v].phase
    BY <1>1, <2>2 DEF Advance
  <2>4. QP!BeginsNoClaim
    BY <1>9 DEF Coalesce, QP!BeginsNoClaim, queueVars, QP!vars
  <2> QED BY <1>1, <1>2, <1>4, <2>1, <2>3, <2>4 DEF In
<1>10. CASE SeekLease
  <2>1. UNCHANGED <<daemon, exec, pendingTimers>> /\ poll'.token = poll.token
    BY <1>10 DEF SeekLease, PollOnly, Inv, TypeOK, PollState
  <2>2. QP!BeginsNoClaim
    BY <1>10 DEF SeekLease, QP!BeginsNoClaim, queueVars, QP!vars
  <2> QED BY <1>1, <1>2, <1>4, <2>1, <2>2 DEF In
<1>11. CASE Dispatch
  <2>1. PICK w \in Worker : w = poll.worker
    BY <1>11 DEF Dispatch, Inv, Sound, PollSound, Handling
  <2>2. ~Busy(w) /\ poll.id \in Id /\ poll.token \in Token
    BY <1>11, <2>1 DEF Dispatch, Inv, Sound, PollSound, Handling
  <2> DEFINE q == [NoExec EXCEPT !.phase = "admitting", !.id = poll.id, !.token = poll.token]
  <2>3. q \in Execution /\ q.phase = "admitting" /\ q.token = poll.token /\ ~q.lost
    BY <2>2 DEF NoExec, Execution, Phases
  <2>4. exec' = [exec EXCEPT ![w] = q]
    BY <1>11, <2>1 DEF Dispatch
  <2> HIDE DEF q
  <2>5. exec'[w] = q /\ \A v \in Worker \ {w} : exec'[v] = exec[v]
    BY <2>3, <2>4, RewriteExec DEF Inv
  <2>6. exec[w].token = NoToken
    BY <2>2 DEF Inv, TypeOK, Busy, NoExec
  <2>7. UNCHANGED <<daemon, pendingTimers>> /\ QP!BeginsNoClaim
    BY <1>11 DEF Dispatch, PollOnly, QP!BeginsNoClaim, queueVars, QP!vars
  <2>8. \A t \in Token : t \in InUse => t \in InUse'
    BY <1>2, <2>3, <2>5, <2>6, <2>7 DEF InUse
  <2>9. LiveIsInUse'
    BY <1>1, <1>2, <2>7, <2>8, KeepsAccount
  <2>10. ReleasedIsSettled'
    BY <1>1, <1>2, <2>3, <2>5, <2>7, KeepsReleases DEF In
  <2>11. Undisturbed'
    BY <1>1, <2>3, <2>5, <2>7 DEF Undisturbed
  <2> QED BY <2>9, <2>10, <2>11
<1>12. ASSUME NEW w \in Worker, Proceeds(w)
       PROVE  Accounting'
  <2>1. Advance(w) /\ exec'[w].lost = exec[w].lost
    BY <1>12, ProceedsAdvances DEF Inv
  <2>2. exec[w].token \in Token /\ QP!BeginsNoClaim
    BY <1>12, ExecSettles, SettlingStep DEF ExecStep, Proceeds
  <2>3. UNCHANGED <<daemon, poll>> /\ pendingTimers \subseteq pendingTimers'
    BY <1>12 DEF Proceeds, BeginRun, AdmissionFails, RunReturns, RunThrows, RunAborted,
         CheckExtend, JudgeRelinquished, JudgeSuccess, JudgeSuspend, JudgeRetry, CompleteClaim,
         DropClaim, ExecOnly, JudgeOnly, SettleOnly
  <2>4. PICK t \in Token : t = exec[w].token
    BY <2>2
  <2>5. ASSUME In(w, "releasing")'
        PROVE  ~QP!Live(t)' \/ t \in pendingTimers'
    <3>1. AdmissionFails(w) \/ JudgeRetry(w) \/ CompleteClaim(w) \/ DropClaim(w)
      BY <1>1, <1>12, <2>5, ProceedsAdvances DEF Leaves, JudgeRelinquished, Inv, In
    <3>2. CASE AdmissionFails(w) \/ CompleteClaim(w) \/ DropClaim(w)
      <4>1. TryAck(t) \/ TryNack(t, TRUE) \/ TryNack(t, FALSE)
        BY <1>1, <2>4, <3>2 DEF AdmissionFails, CompleteClaim, DropClaim
      <4> QED BY <4>1, TrySettles
    <3>3. CASE JudgeRetry(w)
      <4>1. CASE \E i \in Id : Queue!LiveClaim(i, t)
        BY <1>1, <2>4, <3>3, <4>1 DEF JudgeRetry
      <4>2. CASE ~\E i \in Id : Queue!LiveClaim(i, t)
        <5>1. UNCHANGED queueVars
          BY <2>4, <3>3, <4>2 DEF JudgeRetry
        <5>2. TryAck(t)
          BY <4>2, <5>1 DEF TryAck
        <5> QED BY <5>2, TrySettles
      <4> QED BY <4>1, <4>2
    <3> QED BY <3>1, <3>2, <3>3
  <2>6. \A v \in Worker : exec'[v].token = exec[v].token /\ ~exec'[v].lost
    BY <1>1, <2>1 DEF Advance
  <2>7. \A v \in Worker : In(v, "releasing")' =>
          \/ In(v, "releasing") \/ ~QP!Live(exec[v].token)'
          \/ exec'[v].token \in pendingTimers'
    <3> SUFFICES ASSUME NEW v \in Worker, In(v, "releasing")', ~In(v, "releasing")
                 PROVE  ~QP!Live(exec[v].token)' \/ exec'[v].token \in pendingTimers'
      OBVIOUS
    <3>1. v = w
      BY <2>1 DEF Advance, In
    <3>2. exec'[v].token = t
      BY <2>4, <2>6, <3>1
    <3> QED BY <2>5, <3>1, <3>2
  <2> QED BY <1>1, <1>2, <1>4, <2>2, <2>3, <2>6, <2>7
<1>13. ASSUME NEW w \in Worker, EndExecution(w)
       PROVE  Accounting'
  <2>1. exec'[w] = NoExec /\ \A v \in Worker \ {w} : exec'[v] = exec[v]
    BY <1>13, EmptyRecords, RewriteExec DEF EndExecution, Inv
  <2>2. UNCHANGED <<daemon, poll, queueVars, pendingTimers>> /\ In(w, "releasing")
    BY <1>13 DEF EndExecution, ExecOnly
  <2>3. QP!BeginsNoClaim
    BY <2>2 DEF QP!BeginsNoClaim, queueVars, QP!vars
  <2>4. LiveIsInUse'
    <3> SUFFICES ASSUME NEW t \in Token, QP!Live(t)' PROVE t \in InUse'
      BY DEF LiveIsInUse
    <3>1. QP!Live(t)
      BY <2>3, QP!LiveBefore, QueueConstants DEF RowsInv
    <3>2. t \in InUse
      BY <1>1, <3>1 DEF LiveIsInUse
    <3>3. CASE exec[w].token = t
      <4>1. t \in pendingTimers
        BY <1>1, <2>2, <3>1, <3>3 DEF ReleasedIsSettled
      <4> QED BY <2>2, <4>1 DEF InUse
    <3>4. CASE exec[w].token # t
      BY <2>1, <2>2, <3>2, <3>4 DEF InUse
    <3> QED BY <3>3, <3>4
  <2>5. ReleasedIsSettled'
    <3>1. \A v \in Worker : In(v, "releasing")' =>
            In(v, "releasing") /\ exec'[v].token = exec[v].token
      BY <2>1 DEF In, NoExec
    <3> QED BY <1>1, <1>2, <2>2, <2>3, <3>1, KeepsReleases
  <2>6. Undisturbed'
    BY <1>1, <2>1, <2>2 DEF Undisturbed, NoExec
  <2> QED BY <2>4, <2>5, <2>6
<1>14. ASSUME NEW w \in Worker, RenewOwnership(w)
       PROVE  Accounting'
  <2>1. Advance(w) /\ exec'[w].phase = exec[w].phase /\ ~exec'[w].lost
    <3>1. healthy' = (healthy /\ (\E i \in Id : Queue!LiveClaim(i, exec[w].token))
                      /\ (lease[GoalAt(w)].owner = exec[w].token /\ Leases!LiveAt(GoalAt(w), 0)))
      BY <1>14 DEF RenewOwnership
    <3> QED BY <1>14, <3>1, RenewAdvances DEF Inv
  <2>2. UNCHANGED <<daemon, poll, pendingTimers>>
    BY <1>14 DEF RenewOwnership
  <2>3. QP!BeginsNoClaim
    BY <1>14, ExecSettles, SettlingStep
  <2>4. \A v \in Worker : /\ exec'[v].token = exec[v].token /\ ~exec'[v].lost
                          /\ exec'[v].phase = exec[v].phase
    BY <1>1, <2>1 DEF Advance
  <2> QED BY <1>1, <1>2, <1>4, <2>2, <2>3, <2>4 DEF In
<1>15. ASSUME NEW t \in pendingTimers, FireRetry(t)
       PROVE  Accounting'
  <2>1. t \in Token /\ UNCHANGED <<daemon, poll, exec>> /\ pendingTimers' = pendingTimers \ {t}
        /\ TryNack(t, TRUE)
    BY <1>1, <1>15 DEF FireRetry, Inv, TypeOK
  <2>2. ~QP!Live(t)' /\ QP!BeginsNoClaim
    BY <2>1, TrySettles, SettlingStep DEF Settling
  <2>3. \A s \in Token : s \in InUse => s \in InUse' \/ s = t
    BY <2>1 DEF InUse
  <2>4. LiveIsInUse'
    BY <1>1, <2>2, <2>3, KeepsAccount
  <2>5. ReleasedIsSettled'
    BY <1>1, <2>1, <2>2, KeepsReleases DEF In
  <2>6. Undisturbed'
    BY <1>1, <2>1 DEF Undisturbed
  <2> QED BY <2>4, <2>5, <2>6
<1>16. ASSUME \/ \E w \in Worker : Relinquish(w)
              \/ StoppingAtDispatch \/ Shutdown \/ Exit \/ Crash \/ Restart
       PROVE  FALSE
  BY <1>1, <1>16 DEF Relinquish, StoppingAtDispatch, Shutdown, Exit, Crash, Restart
<1>17. ASSUME \/ \E i \in Id : ActivateGoal(i)
              \/ \E g \in Goal : DeactivateGoal(g)
              \/ Sweep \/ Tick \/ UNCHANGED vars
       PROVE  Accounting'
  <2>1. UNCHANGED <<daemon, exec, poll, pendingTimers>>
    BY <1>17 DEF ActivateGoal, DeactivateGoal, Sweep, Tick, Memory, vars
  <2>2. ~\E w \in Worker, t \in Token, i \in Id : PollClaim(w, t, i)
    <3>1. ASSUME NEW w \in Worker, NEW t \in Token, NEW i \in Id, PollClaim(w, t, i)
          PROVE  FALSE
      BY <2>1, <3>1 DEF PollClaim, MayClaim
    <3> QED BY <3>1
  <2> QED BY <1>3, <1>6, <2>1, <2>2
<1> QED
  BY <1>5, <1>7, <1>8, <1>9, <1>10, <1>11, <1>12, <1>13, <1>14, <1>15, <1>16, <1>17
     DEF Next, PollStep, ExecStep, Proceeds

LEMMA ClaimsDistinct == Spec => []QP!UniqueClaims
<1>1. Init => QP!UniqueClaims
  BY DEF Init, Queue!Init, Queue!Absent, QP!UniqueClaims
<1>2. Inv /\ QP!TypeOK /\ QP!UniqueClaims /\ [Next]_vars => QP!UniqueClaims'
  BY QueueStep, QueueStepIsStep, QP!UniqueStep, QueueConstants
<1> QED BY <1>1, <1>2, InvHolds, RowsTyped, PTL DEF Spec

LEMMA AccountingHolds == Spec => []Accounting
<1>1. Init => Accounting
  <2>1. ASSUME Init PROVE \A t \in Token : ~QP!Live(t)
    BY <2>1 DEF Init, Queue!Init, Queue!Absent, QP!Live, QP!LiveClaim, QP!Is
  <2> QED
    BY <2>1 DEF Init, NoExec, In, Accounting, Undisturbed, ReleasedIsSettled, LiveIsInUse
<1>2. Inv /\ Inv' /\ RowsInv /\ Accounting /\ [Next]_vars => Accounting'
  <2>1. ~healthy' => Accounting'
    BY DEF Accounting, Undisturbed, ReleasedIsSettled, LiveIsInUse
  <2> QED BY <2>1, AccountingStep
<1>3. QP!TypeOK /\ QP!UniqueClaims => RowsInv
  BY DEF RowsInv
<1> QED BY <1>1, <1>2, <1>3, InvHolds, RowsTyped, ClaimsDistinct, PTL DEF Spec

(* No claim is forgotten (ClaimsAccounted): while there was no outage and  *)
(* no ownership was lost, every claim whose lease runs is in the hands of  *)
(* the poll or of an execution, or waits for its backoff timer.  Whoever   *)
(* lets go of a token has settled its row in the same step.                *)
THEOREM ClaimsAccountedFor == Spec => []ClaimsAccounted
<1>1. QP!TypeOK /\ Accounting => ClaimsAccounted
  <2> SUFFICES ASSUME QP!TypeOK, Accounting, healthy, NEW i \in Id,
                      Queue!Is(i, "inflight"), records[i].lease > 0
               PROVE  records[i].token \in InUse
    BY DEF ClaimsAccounted
  <2>1. records[i].token \in Token
    BY DEF QP!TypeOK, QP!WellFormed, QP!Record, Queue!Is
  <2>2. QP!Live(records[i].token)
    BY DEF QP!Live, QP!LiveClaim, QP!Is, Queue!Is
  <2> QED BY <2>1, <2>2 DEF Accounting, LiveIsInUse
<1> QED BY <1>1, RowsTyped, AccountingHolds, PTL

(* What the queue guarantees its callers, the supervisor's activations have: *)
(* exclusive delivery, one active activation per dedupe key, a bounded      *)
(* number of attempts and no overtaking, through every crash and shutdown.  *)
THEOREM ActivationsAreDelivered ==
  Spec => /\ QP!DeliveryContract /\ []QP!OneActivePerKey
          /\ []QP!AttemptsWithinBudget /\ QP!NoOvertaking
<1>1. Spec => QP!Spec
  <2>1. Init => QP!Init
    BY DEF Init, Queue!Init, QP!Init, Queue!Absent, QP!Absent
  <2>2. Inv /\ QP!TypeOK /\ [Next]_vars => [QP!DaemonNext]_(QP!vars)
    BY QueueStep, QueueStepIsStep
  <2> QED BY <2>1, <2>2, InvHolds, RowsTyped, PTL DEF Spec, QP!Spec
<1>2. /\ QP!Spec => QP!DeliveryContract
      /\ QP!Spec => []QP!OneActivePerKey
      /\ QP!Spec => []QP!AttemptsWithinBudget
  BY QP!QueueDelivers, QP!DedupeHolds, QP!RetryBudget, QueueConstants
<1>3. (QP!Spec => QP!ApiSpec) /\ (QP!ApiSpec => QP!NoOvertaking)
  BY QP!DaemonIsApi, QP!NobodyOvertakes, QueueConstants
<1> QED BY <1>1, <1>2, <1>3

-----------------------------------------------------------------------------
(* The leases as the supervisor uses them *)

LEMMA LeaseTypeStep ==
  ASSUME Leases!TypeOK, [Leases!Next]_(Leases!vars)
  PROVE  Leases!TypeOK'
<1> USE SupervisorAssumption DEF SupervisorAssumption, Leases!LeaseAssumption, Leases!TypeOK
<1>1. ASSUME NEW t \in Token, NEW g \in Goal, NEW lag \in 0..0, Leases!Granted(t, g, lag)
      PROVE  Leases!TypeOK'
  BY <1>1 DEF Leases!Granted, Leases!Told
<1>2. ASSUME NEW t \in Token, NEW g \in Goal, Leases!Release(t, g)
      PROVE  Leases!TypeOK'
  BY <1>2 DEF Leases!Release, Leases!Told, Leases!NoLease
<1>3. ASSUME NEW lag \in 0..0, Leases!ReapStale(lag)
      PROVE  Leases!TypeOK'
  BY <1>3 DEF Leases!ReapStale, Leases!NoLease
<1>4. ASSUME NEW t \in Token, Leases!Forget(t)
      PROVE  Leases!TypeOK'
  BY <1>4 DEF Leases!Forget
<1>5. CASE Leases!Tick
  <2>1. \A g \in Goal : Leases!LeaseAged(lease[g]) \in
          [owner : Token \cup {NoToken}, left : (-0)..LeaseTicks]
    BY DEF Leases!LeaseAged
  <2> QED BY <1>5, <2>1 DEF Leases!Tick
<1>6. CASE UNCHANGED Leases!vars
  BY <1>6 DEF Leases!vars
<1> QED
  BY <1>1, <1>2, <1>3, <1>4, <1>5, <1>6 DEF Leases!Next, Leases!Acquire, Leases!Renew

LEMMA HonouredStep ==
  ASSUME Leases!TypeOK, Leases!LeaseHonoured, [Leases!Next]_(Leases!vars)
  PROVE  Leases!LeaseHonoured'
<1> USE SupervisorAssumption DEF SupervisorAssumption, Leases!LeaseAssumption
<1> SUFFICES ASSUME NEW o \in Token, NEW g \in Goal, promised'[o][g] > 0
             PROVE  lease'[g].owner = o /\ lease'[g].left >= promised'[o][g]
  BY DEF Leases!LeaseHonoured
<1>1. ASSUME NEW p \in Token, NEW h \in Goal, NEW lag \in 0..0,
             Leases!Granted(p, h, lag),
             \A q \in Token \ {p} : promised[q][h] = 0
      PROVE  lease'[g].owner = o /\ lease'[g].left >= promised'[o][g]
  <2>1. CASE o = p /\ g = h
    BY <1>1, <2>1 DEF Leases!Granted, Leases!Told, Leases!TypeOK
  <2>2. CASE g # h
    BY <1>1, <2>2 DEF Leases!Granted, Leases!Told, Leases!TypeOK, Leases!LeaseHonoured
  <2>3. CASE o # p /\ g = h
    BY <1>1, <2>3 DEF Leases!Granted, Leases!Told, Leases!TypeOK
  <2> QED BY <2>1, <2>2, <2>3
<1>2. ASSUME NEW p \in Token, NEW h \in Goal, NEW lag \in 0..0, Leases!Acquire(p, h, lag)
      PROVE  lease'[g].owner = o /\ lease'[g].left >= promised'[o][g]
  <2>1. \A q \in Token : promised[q][h] = 0
    <3> SUFFICES ASSUME NEW q \in Token, promised[q][h] # 0 PROVE FALSE
      OBVIOUS
    <3>1. promised[q][h] \in 0..LeaseTicks
      BY DEF Leases!TypeOK
    <3>2. promised[q][h] > 0
      BY <3>1
    <3>3. lease[h].owner = q /\ lease[h].left >= promised[q][h]
      BY <3>2 DEF Leases!LeaseHonoured
    <3>4. lease[h].left \in Int /\ lease[h].left > 0 /\ lag = 0
      BY <3>1, <3>2, <3>3 DEF Leases!TypeOK
    <3>5. Leases!Owned(h) /\ Leases!LiveAt(h, lag)
      BY <3>3, <3>4 DEF Leases!Owned, Leases!LiveAt
    <3> QED BY <1>2, <3>5 DEF Leases!Acquire
  <2> QED BY <1>1, <1>2, <2>1 DEF Leases!Acquire
<1>3. ASSUME NEW p \in Token, NEW h \in Goal, NEW lag \in 0..0, Leases!Renew(p, h, lag)
      PROVE  lease'[g].owner = o /\ lease'[g].left >= promised'[o][g]
  <2>1. \A q \in Token \ {p} : promised[q][h] = 0
    BY <1>3 DEF Leases!Renew, Leases!LeaseHonoured, Leases!TypeOK
  <2> QED BY <1>1, <1>3, <2>1 DEF Leases!Renew
<1>4. ASSUME NEW p \in Token, NEW h \in Goal, Leases!Release(p, h)
      PROVE  lease'[g].owner = o /\ lease'[g].left >= promised'[o][g]
  BY <1>4 DEF Leases!Release, Leases!Told, Leases!TypeOK, Leases!LeaseHonoured
<1>5. ASSUME NEW lag \in 0..0, Leases!ReapStale(lag)
      PROVE  lease'[g].owner = o /\ lease'[g].left >= promised'[o][g]
  BY <1>5 DEF Leases!ReapStale, Leases!LiveAt, Leases!TypeOK, Leases!LeaseHonoured
<1>6. ASSUME NEW p \in Token, Leases!Forget(p)
      PROVE  lease'[g].owner = o /\ lease'[g].left >= promised'[o][g]
  BY <1>6 DEF Leases!Forget, Leases!TypeOK, Leases!LeaseHonoured
<1>7. CASE Leases!Tick
  <2>1. promised[o][g] \in Nat /\ promised'[o][g] = promised[o][g] - 1 /\ promised[o][g] > 0
    BY <1>7 DEF Leases!Tick, Leases!TypeOK
  <2>2. lease[g].owner = o /\ lease[g].left >= promised[o][g]
    BY <2>1 DEF Leases!LeaseHonoured
  <2>3. lease'[g] = Leases!LeaseAged(lease[g])
    BY <1>7 DEF Leases!Tick
  <2>4. Leases!LeaseAged(lease[g]).owner = o /\ Leases!LeaseAged(lease[g]).left = lease[g].left - 1
    BY <2>1, <2>2 DEF Leases!LeaseAged, Leases!TypeOK
  <2> QED BY <2>1, <2>2, <2>3, <2>4 DEF Leases!TypeOK
<1>8. CASE UNCHANGED Leases!vars
  BY <1>8 DEF Leases!vars, Leases!LeaseHonoured
<1> QED BY <1>2, <1>3, <1>4, <1>5, <1>6, <1>7, <1>8 DEF Leases!Next

(* What the process makes of its leases: it takes one for the execution it *)
(* dispatches, renews it while that execution lasts and gives it back.     *)
Leased(w)   == Leases!Renew(exec[w].token, GoalAt(w), 0)
Unleased(w) == TryRelease(exec[w].token, GoalAt(w))

LEMMA LeaseMoves ==
  ASSUME Inv, [Next]_vars
  PROVE  \/ UNCHANGED leaseVars
         \/ Dispatch
         \/ \E w \in Worker : RenewOwnership(w) /\ Leased(w)
         \/ \E w \in Worker : (EndExecution(w) \/ Relinquish(w)) /\ Unleased(w)
         \/ Tick \/ StoppingAtDispatch \/ Exit \/ Crash
<1>1. CASE PollStep
  BY <1>1 DEF PollStep, PollClaim, PollEmpty, Coalesce, AckCoalesced, DropStopped,
              DropSuspended, SeekLease, LeaseUnavailable
<1>2. ASSUME NEW w \in Worker, Proceeds(w)
      PROVE  UNCHANGED leaseVars
  BY <1>2
  DEF Proceeds, BeginRun, AdmissionFails, RunReturns, RunThrows, RunAborted,
      CheckExtend,
              JudgeRelinquished, JudgeSuccess, JudgeSuspend, JudgeRetry, CompleteClaim, DropClaim,
              JudgeOnly, SettleOnly
<1>3. ASSUME NEW w \in Worker, RenewOwnership(w)
      PROVE  UNCHANGED leaseVars \/ Leased(w)
  BY <1>3 DEF RenewOwnership, Leased
<1>4. ASSUME NEW w \in Worker, EndExecution(w) \/ Relinquish(w)
      PROVE  Unleased(w)
  BY <1>4 DEF EndExecution, Relinquish, Unleased
<1>5. ASSUME \/ \E i \in Id : ActivateGoal(i)
             \/ \E g \in Goal : DeactivateGoal(g)
             \/ \E t \in pendingTimers : FireRetry(t)
             \/ Shutdown \/ Restart \/ Sweep \/ UNCHANGED vars
      PROVE  UNCHANGED leaseVars
  BY <1>5
  DEF ActivateGoal, DeactivateGoal, FireRetry, Shutdown, Restart, Sweep, vars,
      leaseVars
<1> QED BY <1>1, <1>2, <1>3, <1>4, <1>5 DEF Next, ExecStep, Proceeds

NothingPromised == promised = [t \in Token |-> [g \in Goal |-> 0]]

(* Every move of the leases is one GoalLease allows, but for the two that  *)
(* are the supervisor's own: a fresh lease given back at dispatch, and a   *)
(* process that is gone.                                                   *)
LEMMA LeaseStep ==
  ASSUME Inv, [Next]_vars
  PROVE  [Leases!Next]_(Leases!vars) \/ StoppingAtDispatch \/ (UNCHANGED lease /\ NothingPromised')
<1>0. Leases!vars = leaseVars /\ 0 \in 0..0
  BY DEF Leases!vars, leaseVars
<1>1. CASE UNCHANGED leaseVars
  BY <1>1 DEF Leases!vars, leaseVars
<1>2. CASE Dispatch
  <2>1. poll.token \in Token /\ PollGoal \in Goal
    BY <1>2, SupervisorAssumption
       DEF Dispatch, Inv, Sound, PollSound, Handling, SupervisorAssumption, PollGoal
  <2>2. Leases!Acquire(poll.token, PollGoal, 0)
    BY <1>2 DEF Dispatch
  <2> QED BY <1>0, <2>1, <2>2 DEF Leases!Next
<1>3. ASSUME NEW w \in Worker, Busy(w)
      PROVE  exec[w].token \in Token /\ GoalAt(w) \in Goal
  BY <1>3, GoalsOfExecs DEF Inv, Sound, ExecSound
<1>4. ASSUME NEW w \in Worker, RenewOwnership(w), Leased(w)
      PROVE  [Leases!Next]_(Leases!vars)
  <2>1. Busy(w)
    BY <1>4 DEF RenewOwnership, Busy, In
  <2>2. Leases!Renew(exec[w].token, GoalAt(w), 0)
    BY <1>4 DEF Leased
  <2> QED BY <1>0, <1>3, <2>1, <2>2 DEF Leases!Next
<1>5. ASSUME NEW w \in Worker, EndExecution(w) \/ Relinquish(w), Unleased(w)
      PROVE  [Leases!Next]_(Leases!vars)
  <2>1. Busy(w)
    BY <1>5 DEF EndExecution, Relinquish, Busy, In
  <2>2. Leases!Release(exec[w].token, GoalAt(w)) \/ UNCHANGED (Leases!vars)
    BY <1>5 DEF Unleased, TryRelease, Leases!vars, leaseVars
  <2> QED BY <1>3, <2>1, <2>2 DEF Leases!Next
<1>6. CASE Tick
  BY <1>6 DEF Tick, Leases!Next
<1>7. CASE Exit \/ Crash
  BY <1>7 DEF Exit, Crash, MemoryLost, NothingPromised
<1> QED BY <1>1, <1>2, <1>4, <1>5, <1>6, <1>7, LeaseMoves

LeasesSound == Leases!TypeOK /\ Leases!LeaseHonoured

LEMMA LeasesStep == Inv /\ LeasesSound /\ [Next]_vars => LeasesSound'
<1> SUFFICES ASSUME Inv, LeasesSound, [Next]_vars PROVE LeasesSound'
  OBVIOUS
<1> USE SupervisorAssumption DEF SupervisorAssumption, LeasesSound
<1>1. CASE [Leases!Next]_(Leases!vars)
  BY <1>1, LeaseTypeStep, HonouredStep
<1>2. CASE StoppingAtDispatch
  <2>1. \A g \in Goal : lease'[g] = lease[g] \/ (g = PollGoal /\ lease'[g] = Leases!NoLease)
    BY <1>2 DEF StoppingAtDispatch, Leases!TypeOK, Leases!NoLease
  <2>2. lease' \in [Goal -> [owner : Token \cup {NoToken}, left : (-0)..LeaseTicks]]
    <3> DEFINE R == [owner : Token \cup {NoToken}, left : (-0)..LeaseTicks]
    <3>1. Leases!NoLease \in R
      BY DEF Leases!NoLease, Leases!LeaseAssumption
    <3>2. lease \in [Goal -> R] /\ lease' = [lease EXCEPT ![PollGoal] = Leases!NoLease]
      BY <1>2 DEF StoppingAtDispatch, Leases!TypeOK
    <3> HIDE DEF R
    <3>3. lease' \in [Goal -> R]
      BY <3>1, <3>2
    <3> QED BY <3>3 DEF R
  <2>3. ~(Leases!Owned(PollGoal) /\ Leases!LiveAt(PollGoal, 0)) /\ UNCHANGED promised
    BY <1>2 DEF StoppingAtDispatch
  <2>4. ASSUME NEW t \in Token, NEW g \in Goal, promised[t][g] > 0
        PROVE  lease'[g] = lease[g]
    <3>1. /\ promised[t][g] \in 0..LeaseTicks /\ lease[g].left \in (-0)..LeaseTicks
          /\ lease[g].owner = t /\ lease[g].left >= promised[t][g]
      BY <2>4 DEF Leases!TypeOK, Leases!LeaseHonoured
    <3>2. lease[g].owner # NoToken /\ lease[g].left + 0 > 0
      BY <2>4, <3>1 DEF Leases!LeaseAssumption
    <3>3. g # PollGoal
      BY <2>3, <3>2 DEF Leases!Owned, Leases!LiveAt
    <3> QED BY <2>1, <3>3
  <2>5. Leases!LeaseHonoured'
    BY <2>3, <2>4 DEF Leases!LeaseHonoured
  <2>6. Leases!TypeOK'
    BY <2>2, <2>3 DEF Leases!TypeOK
  <2> QED BY <2>5, <2>6
<1>3. CASE UNCHANGED lease /\ NothingPromised'
  <2>1. promised' \in [Token -> [Goal -> 0..LeaseTicks]]
    BY <1>3 DEF NothingPromised, Leases!LeaseAssumption
  <2>2. \A t \in Token, g \in Goal : ~(promised'[t][g] > 0)
    BY <1>3 DEF NothingPromised
  <2> QED BY <1>3, <2>1, <2>2 DEF Leases!TypeOK, Leases!LeaseHonoured
<1> QED BY <1>1, <1>2, <1>3, LeaseStep

LEMMA LeasesHold == Spec => []LeasesSound
<1>1. Init => LeasesSound
  <2>1. Init => Leases!Init
    BY DEF Init, Leases!Init, Leases!NoLease
  <2>2. Leases!Init => LeasesSound
    BY SupervisorAssumption
       DEF Leases!Init, Leases!NoLease, LeasesSound, Leases!TypeOK, Leases!LeaseHonoured, Leases!LeaseAssumption
  <2> QED BY <2>1, <2>2
<1> QED BY <1>1, LeasesStep, InvHolds, PTL DEF Spec

(* The supervisor never leaves the protocol of the leases: whatever it     *)
(* does with them, an execution that was told that it owns its goal for    *)
(* some time yet is the owner the row names, and no two executions, of one *)
(* process or of two, own one goal at the same time.                       *)
THEOREM SupervisorLeases ==
  Spec => []Leases!LeaseHonoured /\ []Leases!OneHolderPerGoal
<1>1. LeasesSound => Leases!LeaseHonoured /\ Leases!OneHolderPerGoal
  BY SupervisorAssumption
     DEF LeasesSound, Leases!LeaseHonoured, Leases!OneHolderPerGoal, Leases!TypeOK, Leases!LeaseAssumption
<1> QED BY <1>1, LeasesHold, PTL

(* Only its end takes an execution away, or the end of the process. *)
LEMMA ExecsKept ==
  ASSUME Inv, [Next]_vars, ~Exit, ~Crash, \A w \in Worker : ~EndExecution(w),
         NEW v \in Worker, exec[v].token \in Token
  PROVE  exec'[v].token = exec[v].token /\ exec'[v].id = exec[v].id
<1> DEFINE Kept == exec'[v].token = exec[v].token /\ exec'[v].id = exec[v].id
<1>1. ASSUME NEW w \in Worker, Advance(w)
      PROVE  Kept
  BY <1>1 DEF Advance
<1>2. ASSUME NEW w \in Worker, Proceeds(w) \/ RenewOwnership(w)
      PROVE  Kept
  BY <1>1, <1>2, ProceedsAdvances, RenewAdvances DEF Inv
<1>3. CASE Coalesce
  BY <1>1, <1>3, CoalesceAdvances DEF Coalesce, Inv, Sound, PollSound, Handling
<1>4. CASE Dispatch
  <2>1. poll.worker \in Worker /\ ~Busy(poll.worker)
    BY <1>4 DEF Dispatch, Inv, Sound, PollSound, Handling
  <2>2. v # poll.worker
    BY <2>1, SupervisorAssumption
       DEF Inv, TypeOK, Busy, NoExec, SupervisorAssumption, Leases!LeaseAssumption
  <2> QED BY <1>4, <2>1, <2>2 DEF Dispatch, Inv, TypeOK
<1>5. ASSUME NEW w \in Worker, Relinquish(w)
      PROVE  Kept
  <2>1. /\ exec' = [exec EXCEPT ![w].relinquished = TRUE] /\ exec \in [Worker -> Execution]
    BY <1>5 DEF Relinquish, Inv, TypeOK
  <2>2. exec[v] \in Execution
    BY <2>1
  <2> QED BY <2>1, <2>2 DEF Execution
<1>6. CASE PollStep
  BY <1>3, <1>4, <1>6 DEF PollStep, PollClaim, PollEmpty, AckCoalesced, DropStopped,
       DropSuspended, SeekLease, LeaseUnavailable, StoppingAtDispatch
<1>7. ASSUME \/ \E i \in Id : ActivateGoal(i)
             \/ \E g \in Goal : DeactivateGoal(g)
             \/ \E t \in pendingTimers : FireRetry(t)
             \/ Shutdown \/ Restart \/ Sweep \/ Tick \/ UNCHANGED vars
      PROVE  Kept
  BY <1>7
  DEF ActivateGoal, DeactivateGoal, FireRetry, Shutdown, Restart, Sweep, Tick,
      Memory, vars
<1> QED BY <1>2, <1>5, <1>6, <1>7 DEF Next, ExecStep, Proceeds

(* A live process keeps no lease without an execution of that goal         *)
(* (LeaseFollowsExecution), on whatever path the execution ended.          *)
THEOREM NoLeaseOutlives == Spec => []LeaseFollowsExecution
<1>1. Init => LeaseFollowsExecution
  BY SupervisorAssumption
     DEF Init, Leases!Init, LeaseFollowsExecution, SupervisorAssumption, Leases!LeaseAssumption
<1>2. Inv /\ Inv' /\ LeasesSound /\ LeaseFollowsExecution /\ [Next]_vars
        => LeaseFollowsExecution'
  <2> SUFFICES ASSUME Inv, Inv', LeasesSound, LeaseFollowsExecution, [Next]_vars,
                      NEW t \in Token, NEW g \in Goal, promised'[t][g] > 0
               PROVE  \E w \in Worker : exec'[w].token = t /\ GoalAt(w)' = g
    BY DEF LeaseFollowsExecution
  <2> USE SupervisorAssumption DEF SupervisorAssumption, Leases!LeaseAssumption
  <2>0. promised \in [Token -> [Goal -> 0..LeaseTicks]]
    BY DEF LeasesSound, Leases!TypeOK
  <2>2. ASSUME NEW w \in Worker, EndExecution(w)
        PROVE  \E v \in Worker : exec'[v].token = t /\ GoalAt(v)' = g
    <3>1. exec[w].token \in Token /\ GoalAt(w) \in Goal
      BY <2>2, GoalsOfExecs DEF EndExecution, Inv, Sound, ExecSound, Busy, In
    <3>2. promised[t][g] > 0 /\ ~(t = exec[w].token /\ g = GoalAt(w))
      <4>1. CASE lease[GoalAt(w)].owner = exec[w].token
        BY <2>0, <2>2, <3>1, <4>1 DEF EndExecution, TryRelease, Leases!Release, Leases!Told
      <4>2. CASE lease[GoalAt(w)].owner # exec[w].token
        <5>1. UNCHANGED promised
          BY <2>2, <4>2 DEF EndExecution, TryRelease, leaseVars
        <5> QED BY <4>2, <5>1 DEF LeasesSound, Leases!LeaseHonoured
      <4> QED BY <4>1, <4>2
    <3>3. PICK v \in Worker : exec[v].token = t /\ GoalAt(v) = g
      BY <3>2 DEF LeaseFollowsExecution
    <3>4. v # w /\ exec'[v] = exec[v]
      BY <2>2, <3>2, <3>3 DEF EndExecution, Inv, TypeOK
    <3> QED BY <3>3, <3>4 DEF GoalAt
  <2>3. CASE Exit \/ Crash
    BY <2>3 DEF Exit, Crash, MemoryLost
  <2>4. CASE ~Exit /\ ~Crash /\ \A w \in Worker : ~EndExecution(w)
    <3>1. ASSUME promised[t][g] > 0
          PROVE  \E v \in Worker : exec'[v].token = t /\ GoalAt(v)' = g
      BY <2>4, <3>1, ExecsKept DEF LeaseFollowsExecution, GoalAt
    <3>2. ASSUME Dispatch, t = poll.token, g = PollGoal
          PROVE  \E v \in Worker : exec'[v].token = t /\ GoalAt(v)' = g
      <4>1. poll.worker \in Worker
        BY <3>2 DEF Dispatch, Inv, Sound, PollSound, Handling
      <4>2. exec'[poll.worker].token = poll.token /\ exec'[poll.worker].id = poll.id
        BY <3>2, <4>1 DEF Dispatch, Inv, TypeOK, NoExec
      <4> QED BY <3>2, <4>1, <4>2 DEF GoalAt, PollGoal
    <3>3. ASSUME NEW w \in Worker, t = exec[w].token, g = GoalAt(w)
          PROVE  \E v \in Worker : exec'[v].token = t /\ GoalAt(v)' = g
      BY <2>4, <3>3, ExecsKept DEF GoalAt
    <3>4. ASSUME NEW w \in Worker, exec[w].token \in Token, GoalAt(w) \in Goal, Leased(w)
          PROVE  promised[t][g] > 0 \/ (t = exec[w].token /\ g = GoalAt(w))
      BY <2>0, <3>4 DEF Leased, Leases!Renew, Leases!Granted, Leases!Told
    <3>5. ASSUME NEW w \in Worker, exec[w].token \in Token, GoalAt(w) \in Goal, Unleased(w)
          PROVE  promised[t][g] > 0
      BY <2>0, <3>5 DEF Unleased, TryRelease, Leases!Release, Leases!Told, leaseVars
    <3>6. CASE Dispatch
      <4>1. poll.token \in Token /\ PollGoal \in Goal
        BY <3>6 DEF Dispatch, Inv, Sound, PollSound, Handling, PollGoal
      <4>2. promised[t][g] > 0 \/ (t = poll.token /\ g = PollGoal)
        BY <2>0, <3>6, <4>1 DEF Dispatch, Leases!Acquire, Leases!Granted, Leases!Told
      <4> QED BY <3>1, <3>2, <3>6, <4>2
    <3>7. ASSUME NEW w \in Worker, RenewOwnership(w) \/ Relinquish(w)
          PROVE  exec[w].token \in Token /\ GoalAt(w) \in Goal
      <4>1. Busy(w)
        BY <3>7 DEF RenewOwnership, Relinquish, Busy, In
      <4> QED BY <4>1, GoalsOfExecs DEF Inv, Sound, ExecSound
    <3>8. CASE UNCHANGED leaseVars \/ StoppingAtDispatch
      BY <3>1, <3>8 DEF leaseVars, StoppingAtDispatch
    <3>9. CASE Tick
      <4>1. promised[t][g] > 0
        BY <2>0, <3>9 DEF Tick, Leases!Tick
      <4> QED BY <3>1, <4>1
    <3>10. ASSUME NEW w \in Worker, RenewOwnership(w), Leased(w)
           PROVE  \E v \in Worker : exec'[v].token = t /\ GoalAt(v)' = g
      BY <3>1, <3>3, <3>4, <3>7, <3>10
    <3>11. ASSUME NEW w \in Worker, Relinquish(w), Unleased(w)
           PROVE  \E v \in Worker : exec'[v].token = t /\ GoalAt(v)' = g
      BY <3>1, <3>5, <3>7, <3>11
    <3> QED BY <2>4, <3>6, <3>8, <3>9, <3>10, <3>11, LeaseMoves
  <2> QED BY <2>2, <2>3, <2>4
<1> QED BY <1>1, <1>2, InvHolds, LeasesHold, PTL DEF Spec

-----------------------------------------------------------------------------
(* A background run and its ledger entry *)

LedgerRow == [status : {"none", "queued", "running"} \cup Recorded!Terminal, completed : BOOLEAN]

Places == {"idle", "starting", "marking", "running", "retrying", "ending", "recording",
           "settling", "releasing", "gone"}

LedgerTyped ==
  /\ entry \in LedgerRow /\ loaded \in [Recorded!Writer -> LedgerRow]
  /\ at \in [Recorded!Run -> Places]
  /\ result \in [Recorded!Run -> {"none", "error"} \cup Recorded!Terminal]

(* Nothing but a crash disturbs an execution.                              *)
OnlyCrashes ==
  /\ host = "up" /\ givenUp = {} /\ lost = {} /\ shutdowns = 0
  /\ yielding = [r \in Recorded!Run |-> "no"] /\ chat \in {"idle", "posting"}

Lives(r)  == at[r] \notin {"idle", "gone"}
Claims(r) == Lives(r) /\ at[r] # "releasing"

(* One execution at a time, which has the claim until it settles it.       *)
OneClaims ==
  /\ \A r, s \in Recorded!Run : Lives(r) /\ Lives(s) => r = s
  /\ \A r \in Recorded!Run : Claims(r) => holder = r /\ activation = "inflight"

(* The outcome of r is in the ledger.                                      *)
OnRecord(r) ==
  entry.status = result[r] /\ entry.status \in Recorded!Terminal /\ entry.completed

OutcomeKept ==
  /\ \A r \in Recorded!Run :
       /\ at[r] \in {"ending", "recording", "settling"} => result[r] \in Recorded!Terminal
       /\ at[r] = "settling" => OnRecord(r)
  /\ activation \in {"done", "dead"} => settled \in Recorded!Run /\ OnRecord(settled)

LedgerSound == LedgerTyped /\ OnlyCrashes /\ OneClaims /\ OutcomeKept

LEMMA LedgerStep == LedgerSound /\ Recorded!Next => LedgerSound'
<1> SUFFICES ASSUME LedgerSound, Recorded!Next PROVE LedgerSound'
  OBVIOUS
<1> USE DEF LedgerSound, LedgerRow, Recorded!Terminal
<1>w. Recorded!Run \subseteq Recorded!Writer
  BY Instances DEF Recorded!RunsAssumption, Recorded!Run, Recorded!Writer
<1>l. \A r \in Recorded!Run : loaded[r] \in LedgerRow
  BY <1>w DEF LedgerTyped
<1>1. CASE Recorded!CreateEntry
  BY <1>1 DEF Recorded!CreateEntry, Recorded!NoEntry, Recorded!execVars, Recorded!outages,
              LedgerTyped, OnlyCrashes, OneClaims, OutcomeKept, OnRecord, Lives, Claims
<1>2. CASE Recorded!PostStart
  BY <1>2 DEF Recorded!PostStart, Recorded!Accept, Recorded!outages,
              LedgerTyped, OnlyCrashes, OneClaims, OutcomeKept, OnRecord, Lives, Claims
<1>3. CASE Recorded!PostFails \/ Recorded!FailLoads \/ Recorded!FailSaves \/ Recorded!ShutDown
  BY <1>3, Instances DEF Recorded!PostFails, Recorded!FailLoads, Recorded!FailSaves,
              Recorded!ShutDown, OnlyCrashes
<1>4. CASE Recorded!ProcessEnds
  BY <1>4 DEF Recorded!ProcessEnds, Recorded!NoEntry, Recorded!chatVars,
              LedgerTyped, OnlyCrashes, OneClaims, OutcomeKept, OnRecord, Lives, Claims, Places
<1>5. ASSUME NEW r \in Recorded!Run, Recorded!ExecutionStep(r) PROVE LedgerSound'
  <2> USE DEF Recorded!Goes, Recorded!outages, Recorded!chatVars
  <2>a. CASE Recorded!Claim(r)
    BY <2>a DEF Recorded!Claim, Places,
                LedgerTyped, OnlyCrashes, OneClaims, OutcomeKept, OnRecord, Lives, Claims
  <2>b. CASE Recorded!StartLoads(r)
    BY <2>b, <1>w DEF Recorded!StartLoads, Recorded!Load, Places,
                LedgerTyped, OnlyCrashes, OneClaims, OutcomeKept, OnRecord, Lives, Claims
  <2>c. CASE Recorded!StartSaves(r)
    BY <2>c, <1>w, <1>l DEF Recorded!StartSaves, Recorded!Save, Recorded!Started, Places, Recorded!NoEntry,
                LedgerTyped, OnlyCrashes, OneClaims, OutcomeKept, OnRecord, Lives, Claims
  <2>d. CASE Recorded!RunEnds(r)
    BY <2>d DEF Recorded!RunEnds, Places,
                LedgerTyped, OnlyCrashes, OneClaims, OutcomeKept, OnRecord, Lives, Claims
  <2>e. CASE Recorded!Retry(r)
    BY <2>e DEF Recorded!Retry, Places,
                LedgerTyped, OnlyCrashes, OneClaims, OutcomeKept, OnRecord, Lives, Claims
  <2>f. CASE Recorded!EndLoads(r)
    BY <2>f, <1>w DEF Recorded!EndLoads, Recorded!Load, Places,
                LedgerTyped, OnlyCrashes, OneClaims, OutcomeKept, OnRecord, Lives, Claims
  <2>g. CASE Recorded!EndSaves(r)
    BY <2>g, <1>w, <1>l DEF Recorded!EndSaves, Recorded!Save, Recorded!Ended, Places, Recorded!NoEntry,
                LedgerTyped, OnlyCrashes, OneClaims, OutcomeKept, OnRecord, Lives, Claims
  <2>h. CASE Recorded!Settle(r)
    BY <2>h DEF Recorded!Settle, Places,
                LedgerTyped, OnlyCrashes, OneClaims, OutcomeKept, OnRecord, Lives, Claims
  <2>i. CASE Recorded!Release(r)
    BY <2>i DEF Recorded!Release, Places,
                LedgerTyped, OnlyCrashes, OneClaims, OutcomeKept, OnRecord, Lives, Claims
  <2> QED BY <1>5, <2>a, <2>b, <2>c, <2>d, <2>e, <2>f, <2>g, <2>h, <2>i DEF Recorded!ExecutionStep
<1>6. ASSUME NEW r \in Recorded!Run,
             \/ Recorded!Lapse(r) \/ Recorded!Relinquish(r)
             \/ Recorded!QueuedLoads(r) \/ Recorded!QueuedSaves(r)
      PROVE  LedgerSound'
  BY <1>6 DEF Recorded!Lapse, Recorded!Relinquish, Recorded!QueuedLoads, Recorded!QueuedSaves,
              OnlyCrashes
<1> QED BY <1>1, <1>2, <1>3, <1>4, <1>5, <1>6 DEF Recorded!Next, Recorded!ChatStep

(* Whatever crashed and was run again, the ledger of a background run      *)
(* whose activation is settled shows the outcome of the execution that     *)
(* settled it (RecordedOutcome): the claim is kept until the outcome is    *)
(* saved, and nobody else runs while it is kept.  For any number of        *)
(* crashes, executions and starts of the instance Recorded, in which no    *)
(* shutdown gives an execution up, no claim lapses under a live execution  *)
(* and no reply to a start is lost; with one shutdown it does not hold.    *)
THEOREM OutcomesAreRecorded == ActivationsSpec => []RecordedOutcome
<1> DEFINE IInv == subject = "recorded" => LedgerSound
<1>1. ActivationsInit => IInv
  <2> SUFFICES ASSUME Recorded!Init PROVE LedgerSound
    BY DEF ActivationsInit
  <2> QED BY Instances
          DEF Recorded!Init, Recorded!NoEntry, Recorded!RunsAssumption, LedgerSound, LedgerTyped,
              LedgerRow, OnlyCrashes, OneClaims, OutcomeKept, Lives, Claims, Places
<1>2. IInv /\ [ActivationsNext]_<<subject, vars, runVars>> => IInv'
  <2> SUFFICES ASSUME IInv, [ActivationsNext]_<<subject, vars, runVars>>, subject' = "recorded"
               PROVE  LedgerSound'
    OBVIOUS
  <2>1. subject = "recorded" /\ LedgerSound
    BY DEF ActivationsNext
  <2>2. CASE Recorded!Next
    BY <2>1, <2>2, LedgerStep
  <2>3. CASE UNCHANGED runVars
    BY <2>1, <2>3 DEF runVars, LedgerSound, LedgerTyped, OnlyCrashes, OneClaims, OutcomeKept,
                      OnRecord, Lives, Claims
  <2> QED BY <2>1, <2>2, <2>3 DEF ActivationsNext
<1>3. IInv => RecordedOutcome
  BY DEF LedgerSound, OutcomeKept, OnRecord, RecordedOutcome, Recorded!RecordedOutcome
<1> QED BY <1>1, <1>2, <1>3, PTL DEF ActivationsSpec
=============================================================================
