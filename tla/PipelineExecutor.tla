--------------------------- MODULE PipelineExecutor ---------------------------
(***************************************************************************)
(* The run of one task's pipeline (src/orchestrator/execution/pipeline-    *)
(* executor.ts) and the recovery that a starting process makes of the      *)
(* pipeline records it finds (src/runtime/daemon/runner-recovery.ts).      *)
(*                                                                         *)
(* A record is its status, current_stage_index (stages count from 1) and   *)
(* completed_stages, each with its index and its verdict.  The adapter's   *)
(* circuit breaker and a tool that is refused are attempts that fail.  The *)
(* loop's skip of recorded stages is left out: index and completed_stages  *)
(* are saved together (TypeOK), so it never applies.                       *)
(***************************************************************************)
EXTENDS Naturals, Sequences

CONSTANTS
  Stages,          (* how many stages the pipeline has                     *)
  Implementors,    (* the stages whose role is implementor                 *)
  PlanRequired, FailFast,
  MaxRetries,      (* maxRetries; 1 without an escalation                  *)
  MayAsk,          (* whether there is an approvalFn                       *)
  MaxRuns, MaxCrashes,
  OthersRecover    (* whether other processes recover beside a live one    *)

(* What a module that instantiates this one assumes of its constants.      *)
PipelineAssumption ==
  /\ Stages \in Nat \ {0} /\ Implementors \subseteq 1 .. Stages
  /\ MaxRetries \in Nat \ {0} /\ MaxRuns \in Nat \ {0} /\ MaxCrashes \in Nat
  /\ {PlanRequired, FailFast, MayAsk, OthersRecover} \subseteq BOOLEAN

VARIABLES
  saved,     (* the pipeline's record                                      *)
  state,     (* the executor's copy of it                                  *)
  pc,        (* where the run is                                           *)
  attempt,   (* the attempt of the stage, from 0                           *)
  verdict,   (* the result of the stage that is to be saved                *)
  other,     (* the record another process has read to mark it             *)
  runs, crashes,
  kept,      (* history: stages whose result has been saved for this task  *)
  redone,    (* history: stages executed again after they were saved       *)
  failed,    (* history: a stage of this pipeline has failed               *)
  threw      (* history: run() rejected, and no run or process began since *)

vars == <<saved, state, pc, attempt, verdict, other, runs, crashes, kept, redone, failed, threw>>
ghosts == <<kept, redone, failed>>

NoRecord == [status |-> "none", index |-> 0, done |-> <<>>]
Fresh    == [status |-> "running", index |-> 1, done |-> <<>>]

Init ==
  /\ saved = NoRecord /\ state = NoRecord /\ other = NoRecord
  /\ pc = "idle" /\ attempt = 0 /\ verdict = "none"
  /\ runs = 0 /\ crashes = 0
  /\ kept = {} /\ redone = {} /\ failed = FALSE /\ threw = FALSE

-----------------------------------------------------------------------------

(* restoreState: only an interrupted run is taken up.                      *)
Restore ==
  /\ pc = "idle" /\ runs < MaxRuns /\ runs' = runs + 1
  /\ IF saved.status = "interrupted"
     THEN state' = [saved EXCEPT !.status = "running"] /\ pc' = "resuming"
     ELSE state' = Fresh /\ pc' = "starting"
  /\ UNCHANGED <<saved, attempt, verdict, other, crashes, ghosts, threw>>

(* A run from scratch is another run of the task: its history is empty.    *)
PersistStart ==
  /\ pc \in {"starting", "resuming"} /\ saved' = state /\ pc' = "stage"
  /\ IF pc = "resuming" THEN UNCHANGED ghosts
                        ELSE kept' = {} /\ redone' = {} /\ failed' = FALSE
  /\ threw' = FALSE
  /\ UNCHANGED <<state, attempt, verdict, other, runs, crashes>>

Stage == state.index
InStages == pc = "stage" /\ Stage <= Stages
Gated == PlanRequired /\ Stage \in Implementors

(* A person is asked before the final attempt.                             *)
Attempted(n) == IF n + 1 = MaxRetries /\ MayAsk THEN "asking" ELSE "attempt"

(* The plan is generated, and approved by trust or by a person; when that  *)
(* rejects, or its record, the run throws (Throws).                        *)
PlanGate ==
  /\ InStages /\ Gated
  /\ \/ pc' = Attempted(0) /\ UNCHANGED state
     \/ pc' = "denied" /\ state' = [state EXCEPT !.status = "failed"]
  /\ attempt' = 0
  /\ UNCHANGED <<saved, verdict, other, runs, crashes, ghosts, threw>>

BeginStage ==
  /\ InStages /\ ~Gated
  /\ pc' = Attempted(0) /\ attempt' = 0
  /\ UNCHANGED <<saved, state, verdict, other, runs, crashes, ghosts, threw>>

(* The adapter executes the stage.  A failure is tried again; a result that
   is neither a success nor a failure is not, but is recorded as one.      *)
Attempt ==
  /\ pc = "attempt"
  /\ redone' = IF Stage \in kept THEN redone \cup {Stage} ELSE redone
  /\ \E v \in {"pass", "partial", "fail"} :
       IF v = "fail" /\ attempt + 1 < MaxRetries
       THEN /\ attempt' = attempt + 1 /\ pc' = Attempted(attempt + 1)
            /\ UNCHANGED verdict
       ELSE /\ verdict' = IF v = "pass" THEN "pass" ELSE "fail"
            /\ pc' = "recording" /\ UNCHANGED attempt
  /\ UNCHANGED <<saved, state, other, runs, crashes, kept, failed, threw>>

(* A person admits the final retry or lets the stage fail, or the run      *)
(* throws (Throws).                                                        *)
AskFinalRetry ==
  /\ pc = "asking"
  /\ \/ pc' = "attempt" /\ UNCHANGED verdict
     \/ pc' = "recording" /\ verdict' = "fail"
  /\ UNCHANGED <<saved, state, attempt, other, runs, crashes, ghosts, threw>>

(* The stage and its verdict are saved before anything is made of them.    *)
PersistStage ==
  /\ pc = "recording"
  /\ state' = [state EXCEPT !.index = @ + 1,
                            !.done = Append(@, [stage |-> Stage, verdict |-> verdict])]
  /\ saved' = state' /\ kept' = kept \cup {Stage}
  /\ failed' = (failed \/ verdict = "fail")
  /\ pc' = IF FailFast /\ verdict = "fail" THEN "failing" ELSE "stage"
  /\ UNCHANGED <<attempt, verdict, other, runs, crashes, redone, threw>>

FailNow ==
  /\ pc = "failing" /\ pc' = "denied"
  /\ state' = [state EXCEPT !.status = "failed"]
  /\ UNCHANGED <<saved, attempt, verdict, other, runs, crashes, ghosts, threw>>

PersistFailed ==
  /\ pc = "denied" /\ saved' = state /\ pc' = "over"
  /\ UNCHANGED <<state, attempt, verdict, other, runs, crashes, ghosts, threw>>

PersistCompleted ==
  /\ pc = "stage" /\ Stage > Stages /\ pc' = "over"
  /\ state' = [state EXCEPT !.status = "completed"] /\ saved' = state'
  /\ UNCHANGED <<attempt, verdict, other, runs, crashes, ghosts, threw>>

(* The caller takes the last stage's verdict for that of the pipeline.     *)
FinalVerdict == IF state.done = <<>> THEN "fail" ELSE state.done[Len(state.done)].verdict

Return ==
  /\ pc = "over" /\ pc' = "idle"
  /\ UNCHANGED <<saved, state, attempt, verdict, other, runs, crashes, ghosts, threw>>

(* run() has no catch: a save, the record of an approval decision, the     *)
(* approval itself or the choice of an adapter rejects, and the record     *)
(* stays as it was last saved.  Plan generation and the adapter's work are *)
(* caught and count as failures.                                           *)
Throws ==
  /\ pc \in {"starting", "resuming", "stage", "asking", "recording", "denied"}
  /\ pc' = "idle" /\ state' = NoRecord /\ threw' = TRUE
  /\ UNCHANGED <<saved, attempt, verdict, other, runs, crashes, ghosts>>

-----------------------------------------------------------------------------

Crash ==
  /\ crashes < MaxCrashes /\ crashes' = crashes + 1 /\ pc # "down"
  /\ pc' = "down" /\ state' = NoRecord
  /\ UNCHANGED <<saved, attempt, verdict, other, runs, ghosts, threw>>

(* Mutant of Interrupted: the record starts anew.                          *)
InterruptedAnew(s) == [Fresh EXCEPT !.status = "interrupted"]

Interrupted(s) == [s EXCEPT !.status = "interrupted"]

(* Mutant of Restart: interrupted pipelines are not reconciled.            *)
RestartUnreconciled ==
  /\ pc = "down" /\ pc' = "idle" /\ threw' = FALSE
  /\ UNCHANGED <<saved, state, attempt, verdict, other, runs, crashes, ghosts>>

(* reconcileInterruptedPipelines of a process that starts anew.            *)
Restart ==
  /\ pc = "down" /\ pc' = "idle"
  /\ saved' = IF saved.status = "running" THEN Interrupted(saved) ELSE saved
  /\ threw' = FALSE
  /\ UNCHANGED <<state, attempt, verdict, other, runs, crashes, ghosts>>

(* Another process, `pulseed run` or a second daemon, does the same: it
   lists the running pipelines and saves each of them as interrupted.      *)
OtherReads ==
  /\ OthersRecover /\ saved.status = "running" /\ other = NoRecord
  /\ other' = saved
  /\ UNCHANGED <<saved, state, pc, attempt, verdict, runs, crashes, ghosts, threw>>

OtherSaves ==
  /\ other # NoRecord /\ saved' = Interrupted(other) /\ other' = NoRecord
  /\ UNCHANGED <<state, pc, attempt, verdict, runs, crashes, ghosts, threw>>

RunStep ==
  \/ PersistStart \/ PlanGate \/ BeginStage \/ Attempt \/ AskFinalRetry
  \/ PersistStage \/ FailNow \/ PersistFailed \/ PersistCompleted \/ Return

Next == Restore \/ RunStep \/ Throws \/ Crash \/ Restart \/ OtherReads \/ OtherSaves

Spec == Init /\ [][Next]_vars

(* Adapters have timeouts, persons answer, and the daemon starts again;    *)
(* nothing obliges a run to throw.                                         *)
FairSpec == Spec /\ WF_vars(RunStep) /\ WF_vars(Restart)

-----------------------------------------------------------------------------
(* Properties *)

Verdicts == {"pass", "fail"}

(* Every variable has its type, and a record names the stages before its
   index, each once and in order.                                          *)
TypeOK ==
  /\ pc \in {"idle", "starting", "resuming", "stage", "attempt", "asking", "recording", "failing",
             "denied", "over", "down"}
  /\ \A r \in {saved, state, other} :
       /\ r.status \in {"none", "running", "completed", "failed", "interrupted"}
       /\ r.index \in 0 .. Stages + 1
       /\ r # NoRecord => Len(r.done) = r.index - 1
       /\ \A k \in DOMAIN r.done : r.done[k].stage = k /\ r.done[k].verdict \in Verdicts
  /\ attempt \in 0 .. MaxRetries - 1 /\ verdict \in Verdicts \cup {"none"}
  /\ runs \in 0 .. MaxRuns /\ crashes \in 0 .. MaxCrashes
  /\ kept \cup redone \subseteq 1 .. Stages /\ {failed, threw} \subseteq BOOLEAN

(* runtime-auto-recovery.md:203 "continues from the persisted
   current_stage_index instead of starting from scratch": a stage whose
   result was saved is not executed again, wherever the process crashed.   *)
SavedStageIsKept == redone = {}

(* A record that says completed has every stage, and the run that left it
   so is the one that executed or kept them.                               *)
CompletedIsWhole ==
  saved.status = "completed" => kept = 1 .. Stages /\ Len(saved.done) = Stages

(* pipeline-executor.test.ts:166 "stops pipeline after first failure when
   fail_fast=true".                                                        *)
FailFastHolds == FailFast /\ failed => pc \notin {"attempt", "asking"}

(* The verdict that a run returns is no pass when the run has failed.      *)
FailedIsNoPass == pc = "over" /\ state.status = "failed" => FinalVerdict # "pass"

(* No record says running for ever: a run ends and saves how, or the next
   process marks it.  Only a run that threw leaves its record so, while
   the process lives and runs no pipeline of the task again.               *)
NoneStaysRunning == saved.status = "running" ~> saved.status # "running" \/ threw
=============================================================================
