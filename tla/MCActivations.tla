---------------------------- MODULE MCActivations ----------------------------
(***************************************************************************)
(* What becomes of an activation, for TLC.  A behaviour is one of the      *)
(* supervisor through an outage, or one of a background run and its ledger *)
(* entry: with crashes and several starts ("recorded"), or with a lapsed   *)
(* claim, a shutdown and a lost reply ("disturbed"); `subject` says which. *)
(***************************************************************************)
EXTENDS LoopSupervisor, TLC

CONSTANTS
  TheGoal, PlainKey,          (* of the supervisor's activation            *)
  RecordedRuns, RecordedCrashes, RecordedStarts   (* bounds of "recorded"  *)

MCGoalOf == [i \in Id |-> TheGoal]

MCEnvelopeOf == [i \in Id |-> [priority |-> 2, dedupe_key |-> PlainKey, ttl |-> 2]]

VARIABLES subject, entry, loaded, activation, holder, at, result, givenUp, yielding, lost,
          host, chat, crashes, shutdowns, starts, told, settled, ran

runVars == <<entry, loaded, activation, holder, at, result, givenUp, yielding, lost, host,
             chat, crashes, shutdowns, starts, told, settled, ran>>

Recorded == INSTANCE BackgroundRuns WITH
  daemon <- host,
  MaxRuns <- RecordedRuns, MaxCrashes <- RecordedCrashes, MaxStarts <- RecordedStarts,
  MayLapse <- FALSE, MaxShutdowns <- 0, ReplyMayGetLost <- FALSE

Disturbed == INSTANCE BackgroundRuns WITH
  daemon <- host, MaxRuns <- 2, MaxCrashes <- 1, MaxStarts <- 1,
  MayLapse <- TRUE, MaxShutdowns <- 1, ReplyMayGetLost <- TRUE

ASSUME Instances == Recorded!RunsAssumption /\ Disturbed!RunsAssumption

ActivationsInit ==
  /\ Init
  /\ \/ subject \in {"supervisor", "recorded"} /\ Recorded!Init
     \/ subject = "disturbed" /\ Disturbed!Init

(* A background run that is over stays as it is.                           *)
ActivationsNext ==
  /\ UNCHANGED subject
  /\ \/ subject = "supervisor" /\ Next /\ UNCHANGED runVars
     \/ subject = "recorded" /\ Recorded!Next /\ UNCHANGED vars
     \/ subject = "disturbed" /\ Disturbed!Next /\ UNCHANGED vars
     \/ subject # "supervisor" /\ UNCHANGED <<vars, runVars>>

ActivationsSpec ==
  /\ ActivationsInit /\ [][ActivationsNext]_<<subject, vars, runVars>>
  /\ Fairness
  /\ \A r \in Disturbed!Run :
       /\ WF_runVars(subject = "disturbed" /\ Disturbed!ExecutionStep(r))
       /\ WF_runVars(subject = "disturbed" /\ Disturbed!Relinquish(r))
       /\ WF_runVars(subject = "disturbed" /\ (Disturbed!QueuedLoads(r) \/ Disturbed!QueuedSaves(r)))
  /\ WF_runVars(subject = "disturbed" /\ host = "stopping" /\ Disturbed!ProcessEnds)

(* Whatever crashed and was run again meanwhile, once the activation is
   settled the ledger shows the outcome of the execution that settled it,
   as long as no shutdown, lapsed claim or lost reply comes between.       *)
RecordedOutcome == subject = "recorded" => Recorded!RecordedOutcome

(* A start that the daemon has accepted is settled in the end, through
   retries, lapsed claims, shutdowns and crashes.                          *)
AcceptedRunSettles == subject = "disturbed" => Disturbed!AcceptedIsSettled
=============================================================================
