--------------------------- MODULE MCDaemonRunner ---------------------------
(***************************************************************************)
(* The daemon process and the watchdog that replaces it, for TLC.  A       *)
(* behaviour, `subject`, is about daemons that contend for the leadership  *)
(* ("overlapping"), about daemons that are only started one after the      *)
(* other ("serial"), or about one watchdog and its children ("watchdog").  *)
(***************************************************************************)
EXTENDS DaemonRunner

CONSTANTS MaxChildren, MaxUnhealthy, MaxProbeFailures, MayExitEarly

VARIABLES subject, at, stopping, child, doing, fresh, termSent, monitor, reading, storm, ill

watchdogVars == <<at, stopping, child, doing, fresh, termSent, monitor, reading, storm, ill>>

Serial == INSTANCE DaemonRunner WITH MayOverlap <- FALSE

Watchdog == INSTANCE RuntimeWatchdog

ASSUME Watched == Watchdog!WatchdogAssumption

RunnerInit ==
  Init /\ Watchdog!Init /\ subject \in {"overlapping", "serial", "watchdog"}

(* A watchdog that has ended stays so.                                     *)
RunnerNext ==
  /\ UNCHANGED subject
  /\ \/ subject = "overlapping" /\ Next /\ UNCHANGED watchdogVars
     \/ subject = "serial" /\ Serial!Next /\ UNCHANGED watchdogVars
     \/ subject = "watchdog" /\ Watchdog!Next /\ UNCHANGED vars
     \/ subject = "watchdog" /\ UNCHANGED <<vars, watchdogVars>>

(* The fairness of Watchdog!LiveSpec.                                      *)
WatchdogFairness ==
  /\ WF_watchdogVars(subject = "watchdog" /\ Watchdog!StartChild)
  /\ WF_watchdogVars(subject = "watchdog" /\ Watchdog!BeginMonitor)
  /\ WF_watchdogVars(subject = "watchdog" /\ Watchdog!ChildEnded)
  /\ WF_watchdogVars(subject = "watchdog" /\ Watchdog!Awaken)
  /\ WF_watchdogVars(subject = "watchdog" /\ Watchdog!Poll)
  /\ SF_watchdogVars(subject = "watchdog" /\ (Watchdog!ProbeAnswered \/ Watchdog!ProbeFails))
  /\ SF_watchdogVars(subject = "watchdog" /\ Watchdog!PollFindsStale)
  /\ WF_watchdogVars(subject = "watchdog" /\ Watchdog!StartupGraceEnds)
  /\ WF_watchdogVars(subject = "watchdog" /\ Watchdog!StaleGraceEnds)
  /\ WF_watchdogVars(subject = "watchdog" /\ Watchdog!ForceKill)
  /\ WF_watchdogVars(subject = "watchdog" /\ Watchdog!RecordsAge)
  /\ WF_watchdogVars(subject = "watchdog" /\ doing = "leaving" /\ Watchdog!ChildExits)
  /\ WF_watchdogVars(subject = "watchdog" /\ Watchdog!StopRuntimeForces)

RunnerSpec ==
  RunnerInit /\ [][RunnerNext]_<<subject, vars, watchdogVars>> /\ Fairness /\ WatchdogFairness

(* The marker tells a daemon that died, or knew when its cleanup began     *)
(* that it leads no more, from a clean shutdown, as long as no daemon is   *)
(* started beside another one.                                             *)
CrashIsDetectedInTurn == subject = "serial" => CrashIsDetected

(* No child outlives its monitor: when the watchdog waits, restarts, gives *)
(* up or ends, no daemon of its own is left running beside the next one.   *)
NoStrayChild == Watchdog!NoStrayChild

(* The circuit opens only after MaxUnhealthy children in a row that ended  *)
(* badly, however the window moves in between.                             *)
CircuitMeansStorm == Watchdog!CircuitMeansStorm

(* A child that stays hung is noticed, killed and got rid of.              *)
HungChildGoes == subject = "watchdog" => Watchdog!HungChildGoes

(* A dead daemon is replaced, unless the watchdog is stopped or its        *)
(* circuit opens.                                                          *)
DeadChildIsReplaced == subject = "watchdog" => Watchdog!DeadChildIsReplaced

(* A stop that was asked for ends watchdog and child, also a hung one.     *)
StopEnds == subject = "watchdog" => Watchdog!StopEnds
=============================================================================
