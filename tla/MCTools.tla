------------------------------ MODULE MCTools ------------------------------
(***************************************************************************)
(* Tool calls and the pipeline of a task, for TLC.  A behaviour, `subject`,*)
(* is one of two calls, one of which needs an approval that is finalized   *)
(* twice while the host state moves on ("approval"); of three calls that   *)
(* wait for one slot, with retries and a timeout ("slots"); of a pipeline  *)
(* and two crashes ("pipeline"); or of a pipeline that another process     *)
(* recovers while it runs ("others").                                      *)
(***************************************************************************)
EXTENDS ToolExecution

CONSTANTS
  c1, c2, c3,
  Stages, Implementors, PlanRequired, FailFast, MaxRetries, MayAsk,   (* of  *)
  MaxRuns, MaxCrashes                                    (* PipelineExecutor *)

VARIABLES subject, saved, state, pc, attempt, outcome, other, runs, crashes, kept, redone, failed,
          threw

pipelineVars ==
  <<saved, state, pc, attempt, outcome, other, runs, crashes, kept, redone, failed, threw>>

Slots == INSTANCE ToolExecution WITH
  Call <- {c1, c2, c3}, Shells <- {c2, c3}, Retried <- {c2}, Timed <- {c3},
  MayRace <- FALSE, MaxEpoch <- 0

Alone == INSTANCE PipelineExecutor WITH
  verdict <- outcome, OthersRecover <- FALSE

Beside == INSTANCE PipelineExecutor WITH
  verdict <- outcome, Stages <- 2, Implementors <- {}, PlanRequired <- FALSE, FailFast <- FALSE,
  MaxRetries <- 1, MayAsk <- FALSE, MaxRuns <- 3, MaxCrashes <- 1, OthersRecover <- TRUE

ASSUME Instances ==
  Slots!ToolAssumption /\ Alone!PipelineAssumption /\ Beside!PipelineAssumption

ToolsInit ==
  /\ \/ subject \in {"approval", "pipeline", "others"} /\ Init
     \/ subject = "slots" /\ Slots!Init
  /\ Alone!Init

ToolsNext ==
  /\ UNCHANGED subject
  /\ \/ subject = "approval" /\ Next /\ UNCHANGED pipelineVars
     \/ subject = "slots" /\ Slots!Next /\ UNCHANGED pipelineVars
     \/ subject = "pipeline" /\ Alone!Next /\ UNCHANGED vars
     \/ subject = "others" /\ Beside!Next /\ UNCHANGED vars

(* The fairness of ToolExecution!FairSpec and of PipelineExecutor!FairSpec. *)
ToolsFairness ==
  /\ \A c \in {c1, c2} :
       /\ WF_vars(subject = "approval" /\ ExecutorStep(c))
       /\ WF_vars(subject = "approval" /\ c \in Guarded /\ BeginFinalize(c, "expired"))
       /\ WF_vars(subject = "approval" /\ \E f \in finals : f.call = c /\ FinalStep(f))
       /\ WF_vars(subject = "approval" /\ CallEnds(c))
  /\ \A c \in {c1, c2, c3} :
       /\ WF_vars(subject = "slots" /\ Slots!ExecutorStep(c))
       /\ WF_vars(subject = "slots" /\ c \in Guarded /\ Slots!BeginFinalize(c, "expired"))
       /\ WF_vars(subject = "slots" /\ \E f \in finals : f.call = c /\ Slots!FinalStep(f))
       /\ WF_vars(subject = "slots" /\ (Slots!TimesOut(c) \/ Slots!BackoffEnds(c)))
       /\ WF_vars(subject = "slots" /\ c # c3 /\ Slots!CallEnds(c))
  /\ WF_pipelineVars(subject = "pipeline" /\ (Alone!RunStep \/ Alone!Restart))
  /\ WF_pipelineVars(subject = "others" /\ (Beside!RunStep \/ Beside!Restart))

ToolsSpec == ToolsInit /\ [][ToolsNext]_<<subject, vars, pipelineVars>> /\ ToolsFairness

(* Every call is settled in the end: it is made or refused, through queue,
   approval, retries and timeouts.                                         *)
EveryCallSettles ==
  \A c \in {c1, c2, c3} :
    LET begun == subject \in {"approval", "slots"} /\ c \in DOMAIN at /\ at[c] # "new"
    IN  begun ~> begun /\ at[c] \in {"done", "blocked"}

(* A stage whose result was saved is not executed again, wherever the
   process crashed: the run goes on from the record.                       *)
SavedStageIsKept == subject = "pipeline" => Alone!SavedStageIsKept

(* No record of a pipeline says running for ever, whoever recovers it,     *)
(* unless its run threw in a process that lives on.                        *)
NoPipelineStaysRunning ==
  subject \in {"pipeline", "others"} => Alone!NoneStaysRunning
=============================================================================
