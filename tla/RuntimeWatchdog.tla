--------------------------- MODULE RuntimeWatchdog ---------------------------
(***************************************************************************)
(* The watchdog process (src/runtime/watchdog.ts) and the daemon child it  *)
(* starts, monitors, kills and replaces.  `doing` is what the current      *)
(* child does:                                                             *)
(*   "starting"  it does not lead yet                                      *)
(*   "beating"   it leads, renews and answers probes                       *)
(*   "deaf"      it leads and renews; its command surface does not answer  *)
(*   "hung"      its thread does nothing: no timer fires, no SIGTERM taken *)
(*   "leaving"   it has taken SIGTERM and drains                           *)
(*   "exited"    it is gone                                                *)
(* Of the durable health and lock records a poll uses only whether both    *)
(* are the current child's and recent: `fresh`.  Lengths of time (startup, *)
(* stale and shutdown grace, storm window) are the steps that end them.    *)
(***************************************************************************)
EXTENDS Integers

CONSTANTS
  MaxChildren,      (* bounds how many children are started                *)
  MaxUnhealthy,     (* maxUnhealthyRestartsInWindow                        *)
  MaxProbeFailures, (* healthProbeFailureThreshold                         *)
  MayExitEarly      (* may a child be gone before its monitor listens?     *)

(* What the constants are. *)
WatchdogAssumption ==
  /\ MaxChildren \in Nat
  /\ MaxUnhealthy \in Nat \ {0} /\ MaxProbeFailures \in Nat \ {0}
  /\ MayExitEarly \in BOOLEAN

VARIABLES
  at,         (* where the watchdog's start() is                           *)
  stopping,
  child,      (* the number of the current child, 0 before the first       *)
  doing,      (* what that child does                                      *)
  fresh,      (* health and lock records are its own and recent            *)
  termSent,   (* a SIGTERM that the child has not taken yet                *)
  monitor,    (* the local variables of monitorChild                       *)
  reading,    (* what the poll in flight has read                          *)
  storm,      (* unhealthy restarts in the window                          *)
  ill         (* history: children in a row that ended unhealthy           *)

vars  == <<at, stopping, child, doing, fresh, termSent, monitor, reading, storm, ill>>
loop  == <<at, stopping, child, storm, ill>>
world == <<doing, fresh, termSent>>

-----------------------------------------------------------------------------

NewMonitor ==
  [healthy |-> FALSE, killed |-> FALSE, force |-> FALSE, exitSeen |-> FALSE,
   grace |-> TRUE, stale |-> "no", failures |-> 0]

Init ==
  /\ at = "preflight" /\ stopping = FALSE
  /\ child = 0 /\ doing = "exited" /\ fresh = FALSE /\ termSent = FALSE
  /\ monitor = NewMonitor /\ reading = "none"
  /\ storm = 0 /\ ill = 0

Lives   == doing # "exited"
Watches == at = "monitoring" /\ ~monitor.exitSeen

-----------------------------------------------------------------------------
(* The loop of start() *)

(* preStartCheck passes and the child is spawned; its pid is being written *)
StartChild ==
  /\ at = "preflight" /\ ~stopping /\ child < MaxChildren
  /\ at' = "spawned" /\ child' = child + 1
  /\ doing' = "starting" /\ fresh' = FALSE /\ termSent' = FALSE
  /\ monitor' = NewMonitor /\ reading' = "none"
  /\ UNCHANGED <<stopping, storm, ill>>

(* The control database's schema is not the one this version knows. *)
PreflightFails ==
  /\ at = "preflight" /\ ~stopping
  /\ at' = "refused" /\ stopping' = TRUE
  /\ UNCHANGED <<child, storm, ill, monitor, reading>> /\ UNCHANGED world

(* The pid file is written: monitorChild listens for the exit from now on. *)
BeginMonitor ==
  /\ at = "spawned"
  /\ at' = "monitoring"
  /\ UNCHANGED <<stopping, child, storm, ill, monitor, reading>> /\ UNCHANGED world

(* Mutant of AfterChild: a healthy end counts towards the storm too. *)
AfterChildAllCount(healthy) ==
  /\ storm' = storm + 1
  /\ IF storm' >= MaxUnhealthy
     THEN at' = "circuit_open" /\ stopping' = TRUE
     ELSE at' = "sleeping" /\ UNCHANGED stopping

(* Mutant of AfterChild: only an unhealthy end is followed by a restart. *)
AfterChildUnhealthyOnly(healthy) ==
  /\ storm' = IF healthy THEN 0 ELSE storm + 1
  /\ IF healthy THEN at' = "ended" /\ UNCHANGED stopping
     ELSE IF storm' >= MaxUnhealthy THEN at' = "circuit_open" /\ stopping' = TRUE
     ELSE at' = "sleeping" /\ UNCHANGED stopping

(* A healthy end clears the storm; the MaxUnhealthy-th unhealthy one in    *)
(* the window opens the circuit; otherwise the watchdog sleeps first.      *)
AfterChild(healthy) ==
  IF healthy
  THEN at' = "sleeping" /\ storm' = 0 /\ UNCHANGED stopping
  ELSE /\ storm' = storm + 1
       /\ IF storm' >= MaxUnhealthy
          THEN at' = "circuit_open" /\ stopping' = TRUE
          ELSE at' = "sleeping" /\ UNCHANGED stopping

(* monitorChild has resolved. *)
ChildEnded ==
  /\ at = "monitoring" /\ monitor.exitSeen
  /\ ill' = IF monitor.healthy THEN 0 ELSE ill + 1
  /\ IF stopping THEN at' = "ended" /\ UNCHANGED <<stopping, storm>>
                 ELSE AfterChild(monitor.healthy)
  /\ UNCHANGED <<child, monitor, reading>> /\ UNCHANGED world

(* The restart delay, doubled up to its maximum after unhealthy ends, is over *)
Awaken ==
  /\ at = "sleeping" \/ (at = "preflight" /\ stopping)
  /\ at' = IF stopping THEN "ended" ELSE "preflight"
  /\ UNCHANGED <<stopping, child, storm, ill, monitor, reading>> /\ UNCHANGED world

(* An unhealthy restart falls out of the window. *)
StormAges ==
  /\ storm > 0 /\ ~stopping
  /\ storm' = storm - 1
  /\ UNCHANGED <<at, stopping, child, ill, monitor, reading>> /\ UNCHANGED world

(* stop(), on SIGTERM: the child is told; no SIGKILL follows. *)
Stop ==
  /\ ~stopping
  /\ stopping' = TRUE
  /\ termSent' = (termSent \/ (at \in {"spawned", "monitoring"} /\ Lives))
  /\ UNCHANGED <<at, child, storm, ill, doing, fresh, monitor, reading>>

(* Mutant of StopRuntimeForces: only the owner, the watchdog, is killed. *)
StopRuntimeForcesOwner ==
  /\ stopping /\ at \in {"monitoring", "sleeping"}
  /\ at' = "ended"
  /\ UNCHANGED <<stopping, child, storm, ill, monitor, reading>> /\ UNCHANGED world

(* `daemon stop` waits 35 s after its SIGTERMs, then sends SIGKILL to the  *)
(* processes of the pid file that are still there.                         *)
StopRuntimeForces ==
  /\ stopping /\ at \in {"monitoring", "sleeping"}
  /\ at' = "ended"
  /\ doing' = "exited" /\ termSent' = FALSE
  /\ UNCHANGED <<stopping, child, storm, ill, fresh, monitor, reading>>

-----------------------------------------------------------------------------
(* monitorChild *)

(* The poll timer: health and leader lock are loaded ... *)
Poll ==
  /\ Watches /\ ~stopping /\ ~monitor.killed /\ reading = "none"
  /\ reading' = IF fresh THEN "fresh" ELSE "stale"
  /\ UNCHANGED monitor /\ UNCHANGED loop /\ UNCHANGED world

(* triggerRestart: SIGTERM now, SIGKILL after the shutdown grace. *)
TriggerRestart ==
  IF stopping THEN UNCHANGED <<monitor, termSent>>
  ELSE /\ monitor' = [monitor EXCEPT !.killed = TRUE, !.healthy = FALSE, !.force = TRUE]
       /\ termSent' = Lives

(* ... both are fresh and the probe is answered ... *)
ProbeAnswered ==
  /\ Watches /\ reading = "fresh" /\ doing \in {"starting", "beating", "leaving"}
  /\ reading' = "none"
  /\ monitor' = [monitor EXCEPT !.healthy = TRUE, !.failures = 0, !.stale = "no"]
  /\ UNCHANGED loop /\ UNCHANGED world

(* ... or not, which after the startup grace restarts the child once it    *)
(* has happened often enough in a row ...                                  *)
ProbeFails ==
  LET failures == IF monitor.failures < MaxProbeFailures THEN monitor.failures + 1
                  ELSE MaxProbeFailures
  IN
  /\ Watches /\ reading = "fresh"
  /\ reading' = "none"
  /\ IF monitor.grace \/ failures < MaxProbeFailures
     THEN /\ monitor' = [monitor EXCEPT !.failures = failures, !.stale = "no"]
          /\ UNCHANGED termSent
     ELSE TriggerRestart
  /\ UNCHANGED <<doing, fresh>> /\ UNCHANGED loop

(* Mutant of PollFindsStale: the time of the first stale reading is noted  *)
(* anew by every poll, so that the stale grace never ends.                 *)
PollFindsStaleAnew ==
  /\ Watches /\ reading = "stale"
  /\ reading' = "none"
  /\ monitor' = IF monitor.grace THEN monitor ELSE [monitor EXCEPT !.stale = "observed"]
  /\ UNCHANGED <<termSent, doing, fresh>> /\ UNCHANGED loop

(* ... or one of them is stale: noted the first time after the startup     *)
(* grace, acted on when no poll has seen both fresh for the stale grace.   *)
PollFindsStale ==
  /\ Watches /\ reading = "stale"
  /\ reading' = "none"
  /\ CASE monitor.grace \/ monitor.stale = "observed" -> UNCHANGED <<monitor, termSent>>
       [] ~monitor.grace /\ monitor.stale = "no" ->
            monitor' = [monitor EXCEPT !.stale = "observed"] /\ UNCHANGED termSent
       [] ~monitor.grace /\ monitor.stale = "overdue" -> TriggerRestart
  /\ UNCHANGED <<doing, fresh>> /\ UNCHANGED loop

(* The records cannot be read: the poll is given up. *)
PollThrows ==
  /\ Watches /\ reading # "none"
  /\ reading' = "none"
  /\ UNCHANGED monitor /\ UNCHANGED loop /\ UNCHANGED world

StartupGraceEnds ==
  /\ Watches /\ monitor.grace
  /\ monitor' = [monitor EXCEPT !.grace = FALSE]
  /\ UNCHANGED reading /\ UNCHANGED loop /\ UNCHANGED world

StaleGraceEnds ==
  /\ Watches /\ monitor.stale = "observed"
  /\ monitor' = [monitor EXCEPT !.stale = "overdue"]
  /\ UNCHANGED reading /\ UNCHANGED loop /\ UNCHANGED world

(* The exit event reaches the monitor, if it listens already. *)
Exits ==
  /\ doing' = "exited" /\ termSent' = FALSE
  /\ monitor' = [monitor EXCEPT !.exitSeen = Watches, !.force = @ /\ ~Watches]
  /\ reading' = IF Watches THEN "none" ELSE reading
  /\ UNCHANGED fresh /\ UNCHANGED loop

(* Mutant of ForceKill: the monitor resolves without having killed. *)
ForceKillAssumed ==
  /\ Watches /\ monitor.force /\ Lives
  /\ monitor' = [monitor EXCEPT !.exitSeen = TRUE, !.force = FALSE]
  /\ UNCHANGED reading /\ UNCHANGED loop /\ UNCHANGED world

(* The shutdown grace is over: SIGKILL.  On a child that is gone it does   *)
(* nothing, and brings no exit event.                                      *)
ForceKill ==
  /\ Watches /\ monitor.force /\ Lives
  /\ Exits

-----------------------------------------------------------------------------
(* The child *)

ChildLeads ==
  /\ doing = "starting"
  /\ doing' = "beating" /\ fresh' = TRUE
  /\ UNCHANGED <<termSent, monitor, reading>> /\ UNCHANGED loop

ChildFalters ==
  /\ \/ doing \in {"starting", "beating", "deaf"} /\ doing' = "hung"
     \/ doing = "beating" /\ doing' = "deaf"
  /\ UNCHANGED <<fresh, termSent, monitor, reading>> /\ UNCHANGED loop

(* It renews, before its lease has run out, and answers again. *)
ChildRecovers ==
  /\ doing \in {"deaf", "hung"} /\ fresh
  /\ doing' = "beating"
  /\ UNCHANGED <<fresh, termSent, monitor, reading>> /\ UNCHANGED loop

ChildTakesTerm ==
  /\ termSent /\ doing \in {"starting", "beating", "deaf"}
  /\ doing' = "leaving" /\ termSent' = FALSE
  /\ UNCHANGED <<fresh, monitor, reading>> /\ UNCHANGED loop

ChildExits ==
  /\ Lives
  /\ at = "spawned" => MayExitEarly
  /\ Exits

(* Nobody renews the records any more. *)
RecordsAge ==
  /\ fresh /\ doing \in {"hung", "leaving", "exited"}
  /\ fresh' = FALSE
  /\ UNCHANGED <<doing, termSent, monitor, reading>> /\ UNCHANGED loop

-----------------------------------------------------------------------------

PollEnds == ProbeAnswered \/ ProbeFails \/ PollFindsStale

Next ==
  \/ StartChild \/ PreflightFails \/ BeginMonitor \/ ChildEnded \/ Awaken
  \/ StormAges \/ Stop \/ StopRuntimeForces
  \/ Poll \/ PollEnds \/ PollThrows \/ StartupGraceEnds \/ StaleGraceEnds \/ ForceKill
  \/ ChildLeads \/ ChildFalters \/ ChildRecovers \/ ChildTakesTerm \/ ChildExits
  \/ RecordsAge

Spec == Init /\ [][Next]_vars

(* The watchdog's own steps and timers; a child that drains ends.  Polls   *)
(* may fail now and then, not for ever; nothing obliges a child to lead,   *)
(* to falter, to recover or to die, or anybody to ask for a stop.          *)
Fairness ==
  /\ WF_vars(StartChild) /\ WF_vars(BeginMonitor) /\ WF_vars(ChildEnded) /\ WF_vars(Awaken)
  /\ WF_vars(Poll) /\ SF_vars(ProbeAnswered \/ ProbeFails) /\ SF_vars(PollFindsStale)
  /\ WF_vars(StartupGraceEnds) /\ WF_vars(StaleGraceEnds) /\ WF_vars(ForceKill)
  /\ WF_vars(RecordsAge) /\ WF_vars(doing = "leaving" /\ ChildExits)
  /\ WF_vars(StopRuntimeForces)

LiveSpec == Spec /\ Fairness

-----------------------------------------------------------------------------
(* Properties *)

Monitor ==
  [healthy : BOOLEAN, killed : BOOLEAN, force : BOOLEAN, exitSeen : BOOLEAN,
   grace : BOOLEAN, stale : {"no", "observed", "overdue"}, failures : 0..MaxProbeFailures]

(* Type invariant. *)
TypeOK ==
  /\ at \in {"preflight", "spawned", "monitoring", "sleeping", "refused", "circuit_open", "ended"}
  /\ stopping \in BOOLEAN /\ child \in 0..MaxChildren
  /\ doing \in {"starting", "beating", "deaf", "hung", "leaving", "exited"}
  /\ fresh \in BOOLEAN /\ termSent \in BOOLEAN
  /\ monitor \in Monitor
  /\ reading \in {"none", "fresh", "stale"}
  /\ storm \in 0..MaxUnhealthy /\ ill \in Nat

(* No child outlives its monitor: when the watchdog waits, starts the next *)
(* child, opens the circuit or ends, no daemon of its own is left running  *)
(* that would hold the leadership or execute goals beside the next one.    *)
NoStrayChild ==
  at \in {"preflight", "sleeping", "refused", "circuit_open", "ended"} => ~Lives

(* The circuit opens only after MaxUnhealthy children in a row of which    *)
(* none ended well, however the window moves in between.                   *)
CircuitMeansStorm ==
  at = "circuit_open" => ill >= MaxUnhealthy

(* A child that stays hung is noticed, killed and got rid of: the next one *)
(* does not begin hung.                                                    *)
HungChildGoes ==
  doing = "hung" ~> doing # "hung"

(* "If the daemon dies or stops renewing health, the watchdog starts a     *)
(* replacement child": unless it is stopped or its circuit opens.          *)
DeadChildIsReplaced ==
  doing = "exited" /\ child \in 1..(MaxChildren - 1) /\ ~stopping ~> Lives \/ stopping

(* A stop that was asked for ends watchdog and child, also a hung one. *)
StopEnds ==
  stopping ~> at \in {"refused", "circuit_open", "ended"} /\ ~Lives
=============================================================================
