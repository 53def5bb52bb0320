-------------------------- MODULE MCScheduleEngine --------------------------
(***************************************************************************)
(* Instances of ScheduleEngine for TLC: two entries, of which e1 escalates *)
(* to e2, that are run, paused and removed ("runs"); three entries, of     *)
(* which two processes make two of one decision ("keys"); one entry and    *)
(* its cadence through a crash and a manual run ("cadence").               *)
(***************************************************************************)
EXTENDS ScheduleEngine

CONSTANTS e1, e2, e3, tick, tool, tool2

Escalating == [e \in {e1, e2, e3} |-> IF e = e1 THEN e2 ELSE None]
Keys == [e \in {e1, e2, e3} |-> IF e = e1 THEN 1 ELSE 2]

\* Each caller in a process of its own, or both in the daemon.
Apart == [c \in {tick, tool, tool2} |-> c]
Shared == [c \in {tick, tool, tool2} |-> "daemon"]

VARIABLE subject

KeysOf == INSTANCE ScheduleEngine WITH
  Added <- {}, Caller <- {tick, tool, tool2}, Ops <- {"add", "remove", "pause", "resume"}, MaxOps <- 2

Cadence == INSTANCE ScheduleEngine WITH
  Added <- {e1}, Target <- [e \in Entry |-> None], Ops <- {"manual"}, MaxTime <- 3, MaxAttempts <- 1

ASSUME Instances == KeysOf!ScheduleAssumption /\ Cadence!ScheduleAssumption

EngineInit ==
  \/ subject = "runs"    /\ Init
  \/ subject = "keys"    /\ KeysOf!Init
  \/ subject = "cadence" /\ Cadence!Init

EngineNext ==
  /\ UNCHANGED subject
  /\ \/ subject = "runs"    /\ Next
     \/ subject = "keys"    /\ KeysOf!Next
     \/ subject = "cadence" /\ Cadence!Next

\* The fairness of Cadence!FairSpec.
EngineFairness ==
  /\ \A c \in {tick, tool} : WF_vars(subject = "cadence" /\ Cadence!Step(c))
  /\ WF_vars(subject = "cadence" /\ Cadence!BeginTick(tick))
  /\ WF_vars(subject = "cadence" /\ Cadence!Lapse /\ lock = Orphan)
  /\ WF_vars(subject = "cadence" /\ Cadence!Time)

EngineSpec == EngineInit /\ [][EngineNext]_<<subject, vars>> /\ EngineFairness

RunsAlone == EngineSpec /\ subject = "runs"

\* A slot of the cadence that has come is run or given up with the entry: none is
\* stuck behind the lock of a dead process or behind a retry.
SlotsAreRun ==
  \A n \in 1..3 :
    LET waits == /\ subject = "cadence" /\ rows[e1] # Gone /\ rows[e1].enabled
                 /\ rows[e1].next = n /\ n <= now
    IN  waits ~> ~waits
=============================================================================
