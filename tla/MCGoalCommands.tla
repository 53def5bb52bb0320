--------------------------- MODULE MCGoalCommands ---------------------------
(***************************************************************************)
(* The daemon's commands, for TLC.  A behaviour, `subject`, is about a     *)
(* daemon that is always started with its goal, has both dispatchers and   *)
(* crashes ("given"), about one with one dispatcher that is also shut down *)
(* ("shutdown"), about one whose goal is known from its commands alone,    *)
(* which may be retried, that saves at any time and crashes twice          *)
(* ("commands"), or about two restarts of the daemon that are asked for at *)
(* once, a crash at any step ("control").                                  *)
(***************************************************************************)
EXTENDS GoalCommands

CONSTANTS Operation, NoOperation, MaxDeaths, MaxLapses   (* of RuntimeControl *)

VARIABLES subject, record, request, command, daemon, stopping, timer, handling, handler,
          reconcile, listed, lapses, deaths, restarts, here, verified

ShutDown == INSTANCE GoalCommands WITH
  Dispatcher <- {"command"}, MaxShutdowns <- 1

FromCommands == INSTANCE GoalCommands WITH
  Dispatcher <- {"command"}, GivenGoals <- {}, Commands <- {"start", "stop"},
  MayRetry <- TRUE, ResidentSaves <- TRUE, MaxCrashes <- 2

Control == INSTANCE RuntimeControl WITH
  MaxCrashes <- MaxDeaths, crashes <- deaths

ASSUME ControlInstance == Control!ControlAssumption

controlVars == <<record, request, command, daemon, stopping, timer, handling, handler,
                 reconcile, listed, lapses, deaths, restarts, here, verified>>

CommandsInit ==
  /\ Control!Init
  /\ \/ subject \in {"given", "control"} /\ Init
     \/ subject = "shutdown" /\ ShutDown!Init
     \/ subject = "commands" /\ FromCommands!Init

CommandsNext ==
  /\ UNCHANGED subject
  /\ \/ subject = "given"    /\ Next              /\ UNCHANGED controlVars
     \/ subject = "shutdown" /\ ShutDown!Next     /\ UNCHANGED controlVars
     \/ subject = "commands" /\ FromCommands!Next /\ UNCHANGED controlVars
     \/ subject = "control"  /\ Control!Next      /\ UNCHANGED vars

(* Implied by the fairness of Control!FairSpec: each of its actions is
   enabled until it is taken, and only so many of them can be.             *)
ControlFairness ==
  WF_controlVars(/\ subject = "control"
                 /\ \/ Control!DaemonStep
                    \/ \E o \in Operation : handling # o /\ Control!Sweep(o))

CommandsSpec ==
  CommandsInit /\ [][CommandsNext]_<<subject, vars, controlVars>> /\ ControlFairness

(* An operation whose requester was told that the daemon restarts has been
   verified in the end, whatever crashed meanwhile.                        *)
ToldIsVerified ==
  \A o \in Operation :
    subject = "control" /\ request[o] = "toldYes" ~> subject = "control" /\ o \in verified

(* No restart loop: beyond one restart per operation, each restart is owed
   to a crash between the handler's save and its ack or to a lapsed claim. *)
RestartsAreAccounted == Control!RestartsAreAccounted
=============================================================================
