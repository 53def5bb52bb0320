------------------------- MODULE GoalCommandsProofs -------------------------
(***************************************************************************)
(* Theorems about the daemon's commands (GoalCommands), for every set of   *)
(* goals, commands and dispatchers and every number of crashes and         *)
(* shutdowns, and about the restarts asked for (RuntimeControl).           *)
(***************************************************************************)
EXTENDS MCGoalCommands, FiniteSetTheorems, TLAPS

-----------------------------------------------------------------------------
(* The inductive invariant of the commands *)

Place == {"none", "received", "marking", "marked", "saved", "checkpointing", "reporting"}

JobRecord ==
  [kind : {"none", "start", "stop", "pause", "resume"}, goal : Goal \cup {NoGoal}, at : Place]

JobsSound ==
  \A d \in Dispatcher : job[d] # Idle => job[d].kind \in Commands /\ job[d].goal \in Goal

(* What the daemon withholds has no step under way that would activate it. *)
Withheld(g) ==
  /\ g \notin current /\ g \notin todo /\ run[g] = "none" /\ activation[g] = "none"
  /\ \A d \in Dispatcher :
       job[d].goal = g /\ job[d].kind \in {"start", "resume"} => job[d].at # "saved"

PausesHold == held \subseteq Goal /\ \A g \in held : Withheld(g)

(* Of a process that is down nothing is left. *)
NothingLeft ==
  phase = "down" => /\ todo = {} /\ held = {}
                    /\ \A g \in Goal : run[g] = "none"
                    /\ \A d \in Dispatcher : job[d] = Idle

Inv == TypeOK /\ JobsSound /\ PausesHold /\ NothingLeft

LEMMA JobTypes == TypeOK => job \in [Dispatcher -> JobRecord]
BY DEF TypeOK, JobRecord, Place

LEMMA JobGoes ==
  ASSUME TypeOK, JobsSound, NEW d \in Dispatcher, NEW s \in Place, job[d] # Idle, Goes(d, s)
  PROVE  /\ job' \in [Dispatcher -> JobRecord] /\ JobsSound'
         /\ \A e \in Dispatcher \ {d} : job'[e] = job[e]
         /\ job'[d].kind = job[d].kind /\ job'[d].goal = job[d].goal /\ job'[d].at = s
<1> DEFINE q == [job[d] EXCEPT !.at = s]
<1>1. job \in [Dispatcher -> JobRecord] /\ job[d] \in JobRecord
  BY JobTypes
<1>2. q \in JobRecord /\ q.kind = job[d].kind /\ q.goal = job[d].goal /\ q.at = s
  BY <1>1 DEF JobRecord
<1>3. job' = [job EXCEPT ![d] = q]
  BY DEF Goes
<1> HIDE DEF q
<1> QED BY <1>1, <1>2, <1>3 DEF JobsSound

LEMMA JobDone ==
  ASSUME TypeOK, JobsSound, NEW d \in Dispatcher, Done(d)
  PROVE  /\ job' \in [Dispatcher -> JobRecord] /\ JobsSound'
         /\ \A e \in Dispatcher \ {d} : job'[e] = job[e]
         /\ job'[d] = Idle
<1>1. Idle \in JobRecord
  BY DEF Idle, JobRecord, Place
<1> QED BY <1>1, JobTypes DEF Done, JobsSound

LEMMA JobTaken ==
  ASSUME TypeOK, JobsSound, NEW d \in Dispatcher, NEW kind \in Commands, NEW g \in Goal,
         Takes(d, kind, g)
  PROVE  /\ job' \in [Dispatcher -> JobRecord] /\ JobsSound'
         /\ \A e \in Dispatcher \ {d} : job'[e] = job[e]
         /\ job'[d].kind = kind /\ job'[d].goal = g /\ job'[d].at = "received"
<1> DEFINE q == [kind |-> kind, goal |-> g, at |-> "received"]
<1>1. q \in JobRecord /\ q.kind = kind /\ q.goal = g /\ q.at = "received"
  BY CommandsAssumption DEF CommandsAssumption, JobRecord, Place
<1>2. job' = [job EXCEPT ![d] = q]
  BY DEF Takes
<1> HIDE DEF q
<1>3. job \in [Dispatcher -> JobRecord]
  BY JobTypes
<1>4. job' \in [Dispatcher -> JobRecord] /\ job'[d] = q
      /\ \A e \in Dispatcher \ {d} : job'[e] = job[e]
  BY <1>1, <1>2, <1>3
<1>5. ASSUME NEW e \in Dispatcher, job'[e] # Idle
      PROVE  job'[e].kind \in Commands /\ job'[e].goal \in Goal
  BY <1>1, <1>4, <1>5 DEF JobsSound
<1>6. JobsSound'
  BY <1>5 DEF JobsSound, Idle
<1> QED BY <1>1, <1>4, <1>6

(* What a handler does to its own job. *)
JobMove(d) ==
  /\ job' \in [Dispatcher -> JobRecord] /\ JobsSound'
  /\ \A e \in Dispatcher \ {d} : job'[e] = job[e]

LEMMA HandledGoal ==
  ASSUME Inv, NEW d \in Dispatcher, NEW kind \in {"start", "stop", "pause", "resume"}, NEW s,
         At(d, kind, s)
  PROVE  /\ job[d] # Idle /\ phase # "down"
         /\ job[d].goal \in Goal /\ kind \in Commands
BY DEF Inv, At, Idle, NothingLeft, JobsSound

LEMMA HandleJob ==
  ASSUME Inv, NEW d \in Dispatcher, Handle(d)
  PROVE  JobMove(d) /\ phase # "down" /\ job[d].goal \in Goal
<1> USE HandledGoal DEF Inv, Place
<1>1. CASE StartSaves(d) \/ StartActivates(d)
  BY <1>1, JobGoes, JobDone DEF StartSaves, StartActivates, JobMove
<1>2. CASE StopDrops(d) \/ StopMarks(d) \/ StopDeactivates(d)
  BY <1>2, JobGoes, JobDone DEF StopDrops, StopMarks, StopDeactivates, JobMove
<1>3. CASE PauseRequests(d) \/ PauseDeactivates(d) \/ PauseCheckpoints(d)
  BY <1>3, JobGoes, JobDone DEF PauseRequests, PauseDeactivates, PauseCheckpoints, JobMove
<1>4. CASE ResumeIgnored(d) \/ ResumeMarks(d) \/ ResumeSaves(d) \/ ResumeActivates(d)
  BY <1>4, JobGoes, JobDone DEF ResumeIgnored, ResumeMarks, ResumeSaves, ResumeActivates, JobMove
<1>5. CASE Reports(d)
  <2>1. job[d] # Idle
    BY <1>5 DEF Reports, Idle
  <2>2. job[d].goal \in Goal /\ phase # "down"
    BY <2>1 DEF JobsSound, NothingLeft
  <2> QED BY <1>5, <2>1, <2>2, JobDone DEF Reports, JobMove
<1> QED BY <1>1, <1>2, <1>3, <1>4, <1>5 DEF Handle

(* The helpers keep the types of what they write. *)
LEMMA ActivatedTypes ==
  ASSUME NEW act \in [Goal -> {"none", "pending", "inflight"}], NEW goals
  PROVE  /\ Activated(act, goals) \in [Goal -> {"none", "pending", "inflight"}]
         /\ \A g \in Goal : /\ act[g] = "inflight" => Activated(act, goals)[g] = "inflight"
                            /\ g \notin goals => Activated(act, goals)[g] = act[g]
BY DEF Activated

LEMMA SaveTypes ==
  ASSUME TypeOK, NEW w, NEW goals \in SUBSET Goal, NEW interr \in SUBSET Goal,
         NEW stopped \in BOOLEAN, BeginsSave(w, goals, interr, stopped)
  PROVE  writes' \in [Writer -> SUBSET Snapshot]
<1>1. {[active |-> goals, interrupted |-> interr, stopped |-> stopped]} \in SUBSET Snapshot
  BY DEF Snapshot
<1> QED BY <1>1 DEF BeginsSave, TypeOK

LEMMA SavesTypes ==
  ASSUME TypeOK, NEW w, NEW goals \in SUBSET Goal, NEW interr \in SUBSET Goal,
         Saves(w, goals, interr)
  PROVE  /\ current' = goals /\ interrupted' = interr
         /\ writes' \in [Writer -> SUBSET Snapshot]
BY SaveTypes DEF Saves

LEMMA PauseTypes ==
  ASSUME TypeOK, NEW g \in Goal, NEW state \in PauseState, SetPause(g, state)
  PROVE  pauseDb' \in [Goal -> PauseState] /\ pauseMem' \in [Goal -> PauseState]
BY DEF TypeOK, SetPause

LEMMA ActivateTypes ==
  ASSUME TypeOK, NEW g \in Goal, ActivateGoal(g) \/ DeactivateGoal(g)
  PROVE  /\ stoppedGoals' \subseteq Goal
         /\ activation' \in [Goal -> {"none", "pending", "inflight"}]
         /\ \A h \in Goal : activation[h] = "inflight" => activation'[h] = "inflight"
BY ActivatedTypes DEF TypeOK, ActivateGoal, DeactivateGoal

LEMMA SavesMemory ==
  ASSUME NEW w, NEW goals, NEW interr, Saves(w, goals, interr)
  PROVE  current' = goals /\ interrupted' = interr
BY DEF Saves

(* What a handler may change of the rest of the state. *)
Effect(d) ==
  /\ current' \subseteq Goal /\ interrupted' \subseteq Goal
  /\ pauseMem' \in [Goal -> PauseState] /\ pauseDb' \in [Goal -> PauseState]
  /\ writes' \in [Writer -> SUBSET Snapshot]
  /\ stoppedGoals' \subseteq Goal
  /\ activation' \in [Goal -> {"none", "pending", "inflight"}]
  /\ \A h \in Goal : activation[h] = "inflight" => activation'[h] = "inflight"

LEMMA HandleEffect ==
  ASSUME Inv, NEW d \in Dispatcher, Handle(d)
  PROVE  Effect(d) /\ JobOnly
<1>1. /\ TypeOK /\ d \in Writer /\ job[d].goal \in Goal
      /\ {"emergency_stopped", "pause_requested", "paused", "resumed"} \subseteq PauseState
  BY HandleJob DEF Inv, PauseState, Writer
<1>2. /\ current \in SUBSET Goal /\ interrupted \in SUBSET Goal /\ stoppedGoals \subseteq Goal
      /\ pauseMem \in [Goal -> PauseState] /\ pauseDb \in [Goal -> PauseState]
      /\ writes \in [Writer -> SUBSET Snapshot]
      /\ activation \in [Goal -> {"none", "pending", "inflight"}]
  BY <1>1 DEF TypeOK
<1>3. ASSUME NEW goals \in SUBSET Goal, Saves(d, goals, interrupted)
      PROVE  /\ current' \subseteq Goal /\ interrupted' \subseteq Goal
             /\ writes' \in [Writer -> SUBSET Snapshot]
  BY <1>1, <1>2, <1>3, SavesTypes
<1>4. ASSUME NEW state \in PauseState, SetPause(job[d].goal, state)
      PROVE  pauseMem' \in [Goal -> PauseState] /\ pauseDb' \in [Goal -> PauseState]
  BY <1>1, <1>4, PauseTypes
<1>5. ASSUME ActivateGoal(job[d].goal) \/ DeactivateGoal(job[d].goal)
      PROVE  /\ stoppedGoals' \subseteq Goal
             /\ activation' \in [Goal -> {"none", "pending", "inflight"}]
             /\ \A h \in Goal : activation[h] = "inflight" => activation'[h] = "inflight"
  BY <1>1, <1>5, ActivateTypes
<1>6. /\ current \cup {job[d].goal} \in SUBSET Goal /\ current \ {job[d].goal} \in SUBSET Goal
      /\ interrupted \ {job[d].goal} \subseteq Goal
      /\ {"emergency_stopped", "pause_requested", "paused", "resumed"} \subseteq PauseState
      /\ [pauseMem EXCEPT ![job[d].goal] = "resumed"] \in [Goal -> PauseState]
      /\ [pauseMem EXCEPT ![job[d].goal] = pauseDb[job[d].goal]] \in [Goal -> PauseState]
      /\ [pauseDb EXCEPT ![job[d].goal] = "resumed"] \in [Goal -> PauseState]
  BY <1>1, <1>2
<1> USE <1>2, <1>3, <1>4, <1>5, <1>6 DEF Effect
<1>7. CASE StartSaves(d)
  BY <1>7 DEF StartSaves
<1>8. CASE ResumeSaves(d)
  BY <1>8 DEF ResumeSaves
<1>9. CASE StartActivates(d) \/ ResumeActivates(d)
  BY <1>9 DEF StartActivates, ResumeActivates
<1>10. CASE StopDrops(d)
  BY <1>10 DEF StopDrops
<1>11. CASE StopMarks(d)
  BY <1>11 DEF StopMarks
<1>12. CASE PauseRequests(d)
  BY <1>12 DEF PauseRequests
<1>13. CASE StopDeactivates(d) \/ PauseDeactivates(d)
  BY <1>13 DEF StopDeactivates, PauseDeactivates
<1>14. CASE PauseCheckpoints(d)
  BY <1>14 DEF PauseCheckpoints, Checkpoint
<1>15. CASE ResumeIgnored(d)
  BY <1>15 DEF ResumeIgnored
<1>16. CASE ResumeMarks(d) \/ Reports(d)
  BY <1>16 DEF ResumeMarks, Reports
<1> QED BY <1>7, <1>8, <1>9, <1>10, <1>11, <1>12, <1>13, <1>14, <1>15, <1>16 DEF Handle

(* Only what was started or resumed first is activated. *)
LEMMA HandleHolds ==
  ASSUME Inv, NEW d \in Dispatcher, Handle(d)
  PROVE  PausesHold'
<1>0. JobMove(d) /\ JobOnly /\ job[d].goal \in Goal /\ TypeOK /\ PausesHold
  BY HandleJob, HandleEffect DEF Inv
<1> SUFFICES ASSUME NEW g \in held' PROVE g \in Goal /\ Withheld(g)'
  BY DEF PausesHold
<1> DEFINE Kept == /\ g \in held /\ current' \subseteq current
                   /\ activation' = activation \/ activation'[g] = activation[g]
                   /\ job'[d].goal = g /\ job'[d].kind \in {"start", "resume"}
                        => job'[d].at # "saved"
<1>1. ASSUME Kept
      PROVE  g \in Goal /\ Withheld(g)'
  BY <1>0, <1>1 DEF PausesHold, Withheld, JobMove, JobOnly
<1>2. CASE StartSaves(d) \/ ResumeSaves(d)
  <2>1. /\ g \in held /\ g # job[d].goal /\ current' = current \cup {job[d].goal}
        /\ UNCHANGED activation /\ Goes(d, "saved") /\ job[d] # Idle
    BY <1>2, SavesMemory DEF StartSaves, ResumeSaves, At, Idle
  <2>2. job'[d].goal = job[d].goal
    BY <1>0, <2>1, JobGoes DEF Inv, Place
  <2> QED BY <1>0, <2>1, <2>2 DEF PausesHold, Withheld, JobMove, JobOnly
<1>3. CASE StartActivates(d) \/ ResumeActivates(d)
  <2>1. /\ g \in held /\ UNCHANGED current /\ Done(d) /\ ActivateGoal(job[d].goal)
        /\ job[d].at = "saved" /\ job[d].kind \in {"start", "resume"}
    BY <1>3 DEF StartActivates, ResumeActivates, At
  <2>2. g # job[d].goal /\ g \in Goal
    BY <1>0, <2>1 DEF PausesHold, Withheld
  <2>3. activation'[g] = activation[g]
    BY <1>0, <2>1, <2>2, ActivatedTypes DEF ActivateGoal, TypeOK
  <2>4. job'[d] = Idle
    BY <2>1, JobDone DEF Inv
  <2> QED BY <1>1, <2>1, <2>3, <2>4 DEF Idle
<1>4. CASE StopDrops(d) \/ StopMarks(d) \/ StopDeactivates(d)
  <2>1. /\ g \in held /\ current' \subseteq current /\ UNCHANGED activation
        /\ job[d].kind = "stop" /\ job[d] # Idle
        /\ Goes(d, "marking") \/ Goes(d, "saved") \/ Done(d)
    BY <1>4, SavesMemory DEF StopDrops, StopMarks, StopDeactivates, DeactivateGoal, At, Idle
  <2>2. job'[d].kind \in {"stop", "none"}
    BY <2>1, JobGoes, JobDone DEF Inv, Place, Idle
  <2> QED BY <1>1, <2>1, <2>2
<1>5. CASE PauseRequests(d) \/ PauseDeactivates(d) \/ PauseCheckpoints(d)
  <2>1. /\ g \in held /\ current' \subseteq current /\ UNCHANGED activation
        /\ job[d].kind = "pause" /\ job[d] # Idle
        /\ Goes(d, "saved") \/ Goes(d, "checkpointing") \/ Goes(d, "reporting") \/ Done(d)
    BY <1>5, SavesMemory DEF PauseRequests, PauseDeactivates, PauseCheckpoints, Checkpoint,
                             DeactivateGoal, At, Idle
  <2>2. job'[d].kind \in {"pause", "none"}
    BY <2>1, JobGoes, JobDone DEF Inv, Place, Idle
  <2> QED BY <1>1, <2>1, <2>2
<1>6. CASE ResumeIgnored(d) \/ ResumeMarks(d) \/ Reports(d)
  <2>1. /\ g \in held /\ current' = current /\ UNCHANGED activation /\ job[d] # Idle
        /\ Goes(d, "reporting") \/ Goes(d, "marked") \/ Done(d)
    BY <1>6, SavesMemory DEF ResumeIgnored, ResumeMarks, Reports, At, Idle
  <2>2. CASE Goes(d, "reporting") \/ Goes(d, "marked")
    BY <1>1, <2>1, <2>2, JobGoes DEF Inv, Place
  <2>3. CASE Done(d)
    <3>1. job'[d] = Idle
      BY <2>3, JobDone DEF Inv
    <3>2. job'[d].at = "none"
      BY <3>1 DEF Idle
    <3> QED BY <1>1, <2>1, <3>2
  <2> QED BY <2>1, <2>2, <2>3
<1> QED BY <1>2, <1>3, <1>4, <1>5, <1>6 DEF Handle

LEMMA HandleStep ==
  ASSUME Inv, NEW d \in Dispatcher, Handle(d)
  PROVE  Inv'
<1>1. /\ JobMove(d) /\ Effect(d) /\ JobOnly /\ PausesHold' /\ phase # "down" /\ TypeOK
      /\ JobRecord = [kind : {"none", "start", "stop", "pause", "resume"},
                      goal : Goal \cup {NoGoal}, at : Place]
  BY HandleJob, HandleEffect, HandleHolds DEF Inv, JobRecord
<1>2. TypeOK'
  BY <1>1 DEF JobMove, Effect, JobOnly, TypeOK, Place
<1>3. NothingLeft'
  BY <1>1 DEF JobOnly, NothingLeft
<1> QED BY <1>1, <1>2, <1>3 DEF Inv, JobMove

LEMMA TakesStep ==
  ASSUME Inv, NEW d \in Dispatcher, NEW kind \in Commands, NEW g \in Goal, Takes(d, kind, g),
         lapsed' \subseteq lapsed
  PROVE  Inv'
<1>1. /\ JobMove(d) /\ job'[d].at = "received" /\ TypeOK /\ phase # "down"
      /\ UNCHANGED <<phase, current, interrupted, pauseMem, stoppedGoals, run, todo, pauseDb,
                     writes, saved, activation, taskMarks, crashes, shutdowns, held>>
  BY JobTaken DEF Inv, JobMove, Takes
<1>2. TypeOK'
  BY <1>1 DEF JobMove, JobRecord, TypeOK, Place
<1>3. PausesHold' /\ NothingLeft'
  BY <1>1 DEF Inv, JobMove, PausesHold, Withheld, NothingLeft
<1> QED BY <1>1, <1>2, <1>3 DEF Inv, JobMove

LEMMA ClaimTypes ==
  ASSUME Inv, NEW d \in Dispatcher, job[d] # Idle
  PROVE  ClaimOf(d) \in [d : Dispatcher, kind : Commands, goal : Goal]
BY DEF Inv, JobsSound, ClaimOf

LEMMA ClaimSteps ==
  ASSUME Inv, NEW d \in Dispatcher, ClaimExpires(d) \/ HandlerFails(d)
  PROVE  Inv'
<1>1. lapsed' \subseteq [d : Dispatcher, kind : Commands, goal : Goal] /\ TypeOK
  BY ClaimTypes DEF ClaimExpires, HandlerFails, Inv, TypeOK
<1>2. CASE ClaimExpires(d)
  BY <1>1, <1>2 DEF ClaimExpires, memory, history, Inv, TypeOK, JobsSound, PausesHold, Withheld,
                    NothingLeft, Idle
<1>3. CASE HandlerFails(d)
  <2>1. /\ JobMove(d) /\ job'[d] = Idle /\ job[d] # Idle
        /\ UNCHANGED <<phase, current, interrupted, pauseMem, stoppedGoals, run, todo, pauseDb,
                       writes, saved, activation, taskMarks, history>>
    BY <1>3, JobDone DEF HandlerFails, Inv, JobMove
  <2>2. TypeOK'
    BY <1>1, <2>1 DEF JobMove, JobRecord, TypeOK, Place, history
  <2>3. PausesHold'
    BY <1>1, <2>1 DEF Inv, JobMove, PausesHold, Withheld, history, Idle
  <2>4. NothingLeft'
    BY <1>1, <2>1 DEF Inv, JobMove, NothingLeft, history
  <2> QED BY <2>1, <2>2, <2>3, <2>4 DEF Inv, JobMove
<1> QED BY <1>2, <1>3

(* What the saves and their beginning change. *)
OnlySaves ==
  /\ writes' \in [Writer -> SUBSET Snapshot] /\ saved' \in Snapshot
  /\ UNCHANGED <<phase, current, interrupted, pauseMem, stoppedGoals, run, job, todo, pauseDb,
                 activation, taskMarks, lapsed, history>>

LEMMA WriteSteps ==
  ASSUME Inv, CycleSaves \/ \E w \in Writer : SaveLands(w) \/ SaveFails(w)
  PROVE  Inv'
<1>1. OnlySaves
  <2> USE DEF OnlySaves
  <2>1. CASE CycleSaves
    <3>1. /\ BeginsSave("cycle", current, interrupted, phase = "closing") /\ TypeOK
          /\ current \in SUBSET Goal /\ interrupted \in SUBSET Goal /\ saved \in Snapshot
      BY <2>1 DEF CycleSaves, Inv, TypeOK
    <3>2. writes' \in [Writer -> SUBSET Snapshot]
      BY <3>1, SaveTypes
    <3> QED BY <2>1, <3>1, <3>2 DEF CycleSaves, durable
  <2>2. ASSUME NEW w \in Writer, SaveLands(w)
        PROVE  OnlySaves
    <3>1. writes \in [Writer -> SUBSET Snapshot] /\ saved' \in writes[w]
      BY <2>2 DEF SaveLands, Inv, TypeOK
    <3> QED BY <2>2, <3>1 DEF SaveLands
  <2>3. ASSUME NEW w \in Writer, SaveFails(w)
        PROVE  OnlySaves
    BY <2>3 DEF SaveFails, durable, Inv, TypeOK
  <2> QED BY <2>1, <2>2, <2>3
<1>2. TypeOK'
  BY <1>1 DEF OnlySaves, Inv, TypeOK, history
<1>3. JobsSound' /\ PausesHold' /\ NothingLeft'
  BY <1>1 DEF OnlySaves, Inv, JobsSound, PausesHold, Withheld, NothingLeft, Idle, history
<1> QED BY <1>2, <1>3 DEF Inv

LEMMA CycleSteps ==
  ASSUME Inv, \/ \E goals \in SUBSET current : CycleReads(goals)
              \/ \E g \in Goal : CycleActivates(g)
  PROVE  Inv'
<1>1. ASSUME NEW goals \in SUBSET current, CycleReads(goals)
      PROVE  Inv'
  BY <1>1 DEF CycleReads, durable, history, Inv, TypeOK, JobsSound, PausesHold, Withheld,
              NothingLeft, Idle
<1>2. ASSUME NEW g \in Goal, CycleActivates(g)
      PROVE  Inv'
  <2>1. TypeOK /\ g \notin held /\ ActivateGoal(g)
    BY <1>2 DEF CycleActivates, Inv, PausesHold, Withheld
  <2>2. /\ activation' \in [Goal -> {"none", "pending", "inflight"}]
        /\ stoppedGoals' \subseteq Goal
        /\ \A h \in Goal : activation[h] = "inflight" => activation'[h] = "inflight"
    BY <2>1, ActivateTypes
  <2>3. \A h \in Goal \ {g} : activation'[h] = activation[h]
    BY <2>1, ActivatedTypes DEF ActivateGoal, TypeOK
  <2>4. TypeOK'
    BY <1>2, <2>1, <2>2 DEF CycleActivates, history, TypeOK
  <2>5. JobsSound' /\ PausesHold' /\ NothingLeft'
    BY <1>2, <2>1, <2>3
       DEF CycleActivates, history, Inv, JobsSound, PausesHold, Withheld, NothingLeft, Idle
  <2> QED BY <2>4, <2>5 DEF Inv
<1> QED BY <1>1, <1>2

(* The executions leave alone a goal that has neither run nor activation. *)
RunChanges(g) ==
  /\ run' \in [Goal -> RunStages] /\ \A h \in Goal \ {g} : run'[h] = run[h]
  /\ activation' \in [Goal -> {"none", "pending", "inflight"}]
  /\ \A h \in Goal \ {g} : activation'[h] = activation[h]
  /\ run'[g] # "none" => activation'[g] = "inflight"
  /\ g \notin held /\ phase # "down"
  /\ taskMarks' \subseteq Goal /\ stoppedGoals' \subseteq Goal
  /\ UNCHANGED <<phase, job, todo, lapsed, crashes, shutdowns, latest, held, saved>>

LEMMA RunGoesTo ==
  ASSUME TypeOK, NEW g \in Goal, NEW s \in RunStages, RunGoes(g, s)
  PROVE  run' \in [Goal -> RunStages] /\ run'[g] = s /\ \A h \in Goal \ {g} : run'[h] = run[h]
BY DEF TypeOK, RunGoes

LEMMA RunSteps ==
  ASSUME Inv, NEW g \in Goal, RunStep(g) \/ Relinquish(g) \/ Sweep(g)
  PROVE  RunChanges(g)
<1>1. g \notin held /\ phase # "down"
  BY DEF RunStep, PollDrops, PollPasses, Dispatch, RunEnds, RunFails, CompletionChecks,
         CompletionCheckpoints, RunCloses, Relinquish, Sweep, HasWorker, Inv, PausesHold, Withheld,
         NothingLeft
<1>2. TypeOK /\ (run[g] # "none" => activation[g] = "inflight")
  BY DEF Inv, TypeOK
<1> USE <1>1, <1>2, RunGoesTo DEF RunChanges, RunOnly, history
<1>3. CASE PollDrops(g) \/ Sweep(g)
  BY <1>3 DEF PollDrops, Sweep, TypeOK
<1>4. CASE PollPasses(g)
  BY <1>4 DEF PollPasses, TypeOK, RunStages
<1>5. CASE Dispatch(g)
  BY <1>5 DEF Dispatch, TypeOK, RunStages
<1>6. CASE RunEnds(g) \/ CompletionChecks(g)
  BY <1>6 DEF RunEnds, CompletionChecks, TypeOK, RunStages
<1>7. CASE RunFails(g)
  BY <1>7 DEF RunFails, TypeOK, RunStages
<1>8. CASE CompletionCheckpoints(g)
  BY <1>8 DEF CompletionCheckpoints, Checkpoint, Saves, DeactivateGoal, TypeOK, RunStages
<1>9. CASE RunCloses(g) \/ Relinquish(g)
  BY <1>9 DEF RunCloses, Relinquish, TypeOK, RunStages
<1> QED BY <1>3, <1>4, <1>5, <1>6, <1>7, <1>8, <1>9 DEF RunStep

LEMMA RunStepsKeep ==
  ASSUME Inv, NEW g \in Goal, RunStep(g) \/ Relinquish(g) \/ Sweep(g)
  PROVE  Inv'
<1>1. RunChanges(g) /\ TypeOK
  BY RunSteps DEF Inv
<1>2. CASE CompletionCheckpoints(g)
  <2>1. /\ SetPause(g, "paused") /\ Saves(g, current \ {g}, interrupted)
        /\ "paused" \in PauseState
    BY <1>2 DEF CompletionCheckpoints, Checkpoint, PauseState
  <2>2. /\ pauseDb' \in [Goal -> PauseState] /\ pauseMem' \in [Goal -> PauseState]
        /\ writes' \in [Writer -> SUBSET Snapshot]
        /\ current' = current \ {g} /\ interrupted' = interrupted
    BY <1>1, <2>1, SavesTypes, PauseTypes DEF TypeOK
  <2>3. TypeOK'
    BY <1>1, <2>2 DEF RunChanges, TypeOK
  <2>4. JobsSound' /\ PausesHold' /\ NothingLeft'
    BY <1>1, <2>2 DEF RunChanges, Inv, JobsSound, PausesHold, Withheld, NothingLeft, Idle
  <2> QED BY <2>3, <2>4 DEF Inv
<1>3. CASE ~CompletionCheckpoints(g)
  <2>1. /\ UNCHANGED <<current, interrupted, pauseMem, pauseDb>>
        /\ UNCHANGED writes \/ BeginsSave(g, current, interrupted, FALSE)
    BY <1>3 DEF RunStep, PollDrops, PollPasses, Dispatch, RunEnds, RunFails, CompletionChecks,
                RunCloses, Relinquish, Sweep
  <2>0. writes' \in [Writer -> SUBSET Snapshot]
    BY <1>1, <2>1, SaveTypes DEF TypeOK
  <2>2. TypeOK'
    BY <1>1, <2>0, <2>1 DEF RunChanges, TypeOK
  <2>3. JobsSound' /\ PausesHold' /\ NothingLeft'
    BY <1>1, <2>1 DEF RunChanges, Inv, JobsSound, PausesHold, Withheld, NothingLeft, Idle
  <2> QED BY <2>2, <2>3 DEF Inv
<1> QED BY <1>2, <1>3

LEMMA LostStep ==
  ASSUME Inv, MemoryLost, saved' \in Snapshot,
         lapsed' \subseteq [d : Dispatcher, kind : Commands, goal : Goal],
         crashes' \in 0..MaxCrashes,
         UNCHANGED <<pauseDb, activation, taskMarks, shutdowns>>
  PROVE  Inv'
<1>1. Idle \in JobRecord /\ "none" \in PauseState /\ "none" \in RunStages
  BY DEF Idle, JobRecord, Place, PauseState, RunStages
<1>2. /\ job' \in [Dispatcher -> JobRecord] /\ \A d \in Dispatcher : job'[d] = Idle
      /\ pauseMem' \in [Goal -> PauseState]
      /\ run' \in [Goal -> RunStages] /\ \A g \in Goal : run'[g] = "none"
  BY <1>1 DEF MemoryLost
<1>3. TypeOK'
  BY <1>2 DEF MemoryLost, Inv, TypeOK, JobRecord, Place
<1>4. JobsSound'
  BY <1>2 DEF JobsSound, Idle
<1>5. PausesHold' /\ NothingLeft'
  BY <1>2 DEF MemoryLost, PausesHold, NothingLeft, Idle
<1> QED BY <1>3, <1>4, <1>5 DEF Inv

LEMMA ProcessSteps ==
  ASSUME Inv, BeginShutdown \/ Cleanup \/ Exit \/ Crash
  PROVE  Inv'
<1>0. /\ TypeOK /\ MaxCrashes \in Nat /\ MaxShutdowns \in Nat
      /\ crashes \in 0..MaxCrashes /\ shutdowns \in 0..MaxShutdowns
  BY CommandsAssumption DEF CommandsAssumption, Inv, TypeOK
<1>1. CASE BeginShutdown
  <2>1. shutdowns' \in 0..MaxShutdowns
    BY <1>0, <1>1 DEF BeginShutdown
  <2>2. TypeOK'
    BY <1>0, <1>1, <2>1 DEF BeginShutdown, durable, TypeOK
  <2>3. JobsSound' /\ PausesHold' /\ NothingLeft'
    BY <1>1 DEF BeginShutdown, durable, Inv, JobsSound, PausesHold, Withheld, NothingLeft, Idle
  <2> QED BY <2>2, <2>3 DEF Inv
<1>2. CASE Exit
  BY <1>0, <1>2, LostStep DEF Exit, durable, TypeOK
<1>3. CASE Crash
  <2>1. crashes' \in 0..MaxCrashes
    BY <1>0, <1>3 DEF Crash
  <2>2. lapsed' \subseteq [d : Dispatcher, kind : Commands, goal : Goal]
    BY <1>0, <1>3, ClaimTypes DEF Crash, TypeOK
  <2>3. MemoryLost /\ UNCHANGED <<pauseDb, saved, activation, taskMarks, shutdowns>>
    BY <1>3 DEF Crash
  <2> QED BY <1>0, <2>1, <2>2, <2>3, LostStep DEF TypeOK
<1>4. CASE Cleanup
  <2>1. writes' \in [Writer -> SUBSET Snapshot]
    BY <1>0, <1>4, SaveTypes DEF Cleanup, TypeOK
  <2>2. TypeOK'
    BY <1>0, <1>4, <2>1 DEF Cleanup, durable, history, TypeOK
  <2>3. JobsSound' /\ PausesHold' /\ NothingLeft'
    BY <1>4 DEF Cleanup, durable, history, Inv, JobsSound, PausesHold, Withheld, NothingLeft, Idle
  <2> QED BY <2>2, <2>3 DEF Inv
<1> QED BY <1>1, <1>2, <1>3, <1>4

LEMMA RestartStep ==
  ASSUME Inv, Restart
  PROVE  Inv'
<1> DEFINE found == GivenGoals \cup Restored \cup taskMarks
           goals == found \ PausedGoals
           As(gs) == [active |-> gs, interrupted |-> {}, stopped |-> FALSE]
           act == [g \in Goal |-> IF g \in PausedGoals THEN "none" ELSE activation[g]]
<1>1. TypeOK /\ NothingLeft /\ found \in SUBSET Goal /\ goals \in SUBSET Goal
  BY CommandsAssumption DEF CommandsAssumption, Inv, TypeOK, Snapshot, Restored
<1>2. act \in [Goal -> {"none", "pending", "inflight"}]
  BY <1>1 DEF TypeOK
<1>3. /\ phase = "down" /\ phase' = "up" /\ current' = goals /\ interrupted' = {}
      /\ taskMarks' = {} /\ pauseMem' = pauseDb
      /\ saved' \in {saved, As(found), As(goals)}
      /\ activation' = Activated(act, goals)
      /\ held' = {g \in Goal : Paused(pauseDb[g])}
      /\ UNCHANGED <<stoppedGoals, run, job, todo, writes, pauseDb, lapsed, crashes, shutdowns,
                     latest>>
  BY DEF Restart
<1>4. held' = PausedGoals /\ \A g \in PausedGoals : g \in Goal /\ act[g] = "none"
  BY <1>3 DEF PausedGoals
<1>5. PausedGoals \cap goals = {}
  OBVIOUS
<1> HIDE DEF found, goals, act
<1>0. saved' \in Snapshot
  <2>1. As(found) \in Snapshot /\ As(goals) \in Snapshot
    BY <1>1 DEF Snapshot
  <2>2. saved \in Snapshot
    BY <1>1 DEF TypeOK
  <2> HIDE DEF As
  <2> QED BY <1>3, <2>1, <2>2
<1> HIDE DEF As
<1>6. /\ activation' \in [Goal -> {"none", "pending", "inflight"}]
      /\ \A g \in PausedGoals : activation'[g] = "none"
  BY <1>2, <1>3, <1>4, <1>5, ActivatedTypes
<1>7. todo = {} /\ (\A g \in Goal : run[g] = "none") /\ \A d \in Dispatcher : job[d] = Idle
  BY <1>1, <1>3 DEF NothingLeft
<1>8. TypeOK'
  BY <1>0, <1>1, <1>3, <1>6, <1>7 DEF TypeOK
<1>9. PausesHold'
  BY <1>3, <1>4, <1>5, <1>6, <1>7 DEF PausesHold, Withheld, Idle
<1>10. JobsSound' /\ NothingLeft'
  BY <1>3, <1>7 DEF JobsSound, NothingLeft, Idle
<1> QED BY <1>8, <1>9, <1>10 DEF Inv

LEMMA CommandsInvInit == Init => Inv
<1> SUFFICES ASSUME Init PROVE Inv
  OBVIOUS
<1>1. Idle \in JobRecord /\ "none" \in PauseState /\ "none" \in RunStages
  BY DEF Idle, JobRecord, Place, PauseState, RunStages
<1>2. /\ activation \in [Goal -> {"none", "pending", "inflight"}]
      /\ GivenGoals \subseteq Goal /\ 0 \in 0..MaxCrashes /\ 0 \in 0..MaxShutdowns
  BY ActivatedTypes, CommandsAssumption DEF Init, CommandsAssumption
<1>0. writes \in [Writer -> SUBSET Snapshot] /\ saved \in Snapshot
  BY <1>2 DEF Init, Snapshot
<1>3. TypeOK
  BY <1>0, <1>1, <1>2 DEF Init, TypeOK, JobRecord, Place
<1>4. JobsSound /\ PausesHold /\ NothingLeft
  BY DEF Init, JobsSound, PausesHold, NothingLeft
<1> QED BY <1>3, <1>4 DEF Inv

LEMMA CommandsInvStep == Inv /\ [Next]_vars => Inv'
<1> SUFFICES ASSUME Inv, [Next]_vars PROVE Inv'
  OBVIOUS
<1>1. ASSUME NEW d \in Dispatcher, Handle(d) \/ ClaimExpires(d) \/ HandlerFails(d)
      PROVE  Inv'
  BY <1>1, HandleStep, ClaimSteps
<1>2. ASSUME NEW d \in Dispatcher, NEW c \in lapsed, Redeliver(d, c)
      PROVE  Inv'
  <2>1. c.kind \in Commands /\ c.goal \in Goal
    BY DEF Inv, TypeOK
  <2>2. Takes(d, c.kind, c.goal) /\ lapsed' \subseteq lapsed
    BY <1>2 DEF Redeliver
  <2> QED BY <2>1, <2>2, TakesStep
<1>3. ASSUME NEW d \in Dispatcher, NEW kind \in Commands, NEW g \in Goal, Receive(d, kind, g)
      PROVE  Inv'
  BY <1>3, TakesStep DEF Receive
<1>4. ASSUME \/ \E goals \in SUBSET current : CycleReads(goals)
             \/ \E g \in Goal : CycleActivates(g)
      PROVE  Inv'
  BY <1>4, CycleSteps
<1>5. ASSUME NEW g \in Goal, RunStep(g) \/ Relinquish(g) \/ Sweep(g)
      PROVE  Inv'
  BY <1>5, RunStepsKeep
<1>6. CASE BeginShutdown \/ Cleanup \/ Exit \/ Crash
  BY <1>6, ProcessSteps
<1>7. CASE Restart
  BY <1>7, RestartStep
<1>9. CASE CycleSaves \/ \E w \in Writer : SaveLands(w) \/ SaveFails(w)
  BY <1>9, WriteSteps
<1>8. CASE UNCHANGED vars
  BY <1>8 DEF vars, memory, durable, history, Inv, TypeOK, JobsSound, PausesHold, Withheld,
              NothingLeft, Idle
<1> QED BY <1>1, <1>2, <1>3, <1>4, <1>5, <1>6, <1>7, <1>8, <1>9 DEF Next

LEMMA CommandsInvHolds == Spec => []Inv
BY CommandsInvInit, CommandsInvStep, PTL DEF Spec

(* Type correctness (TypeOK), and with it that a run always has its goal's *)
(* activation in flight.                                                   *)
THEOREM CommandsTypeCorrect == Spec => []TypeOK
<1>1. Inv => TypeOK
  BY DEF Inv
<1> QED BY <1>1, CommandsInvHolds, PTL

(* A goal that was paused when the daemon started stays without run,       *)
(* activation and plan until it is started or resumed                      *)
(* (RestartHonoursPause): no handler of an earlier process is left to      *)
(* activate it, and none of this one reaches its activation without        *)
(* having taken the goal out of what the pause withholds.                  *)
THEOREM PausesSurviveRestarts == Spec => []RestartHonoursPause
<1>1. Inv => RestartHonoursPause
  BY DEF Inv, PausesHold, Withheld, RestartHonoursPause
<1> QED BY <1>1, CommandsInvHolds, PTL

-----------------------------------------------------------------------------
(* What a handled start is owed *)

Leaving == {"stop", "pause"}

(* Nobody who would deactivate the goal has it in hand. *)
Honoured(g) ==
  /\ activation[g] # "none" /\ g \notin stoppedGoals
  /\ ~HasWorker(g) /\ ~Underway(Leaving, g)

OwedHold == owed \subseteq Goal /\ \A g \in owed : Honoured(g)

(* A step that leaves alone what is owed. *)
Spares(g) ==
  /\ activation'[g] # "none"
  /\ g \in stoppedGoals' => g \in stoppedGoals
  /\ HasWorker(g)' => HasWorker(g)
  /\ Underway(Leaving, g)' => Underway(Leaving, g)

LEMMA OwedSpared ==
  ASSUME OwedHold, owed' \subseteq owed, \A g \in owed' : Spares(g)
  PROVE  OwedHold'
BY DEF OwedHold, Honoured, Spares

(* A handler's job goes on or ends. *)
LEMMA HandlersGoOn ==
  ASSUME Inv, NEW d \in Dispatcher, Handle(d)
  PROVE  /\ job[d] # Idle
         /\ job'[d] = Idle \/ (job'[d].kind = job[d].kind /\ job'[d].goal = job[d].goal)
<1>1. /\ job[d] # Idle
      /\ Done(d) \/ \E s \in Place : Goes(d, s)
  <2> USE DEF At, Idle, Place
  <2>1. CASE StartSaves(d) \/ StartActivates(d)
    BY <2>1 DEF StartSaves, StartActivates
  <2>2. CASE StopDrops(d) \/ StopMarks(d) \/ StopDeactivates(d)
    BY <2>2 DEF StopDrops, StopMarks, StopDeactivates
  <2>3. CASE PauseRequests(d) \/ PauseDeactivates(d) \/ PauseCheckpoints(d)
    BY <2>3 DEF PauseRequests, PauseDeactivates, PauseCheckpoints
  <2>4. CASE ResumeIgnored(d) \/ ResumeMarks(d) \/ ResumeSaves(d) \/ ResumeActivates(d)
    BY <2>4 DEF ResumeIgnored, ResumeMarks, ResumeSaves, ResumeActivates
  <2>5. CASE Reports(d)
    BY <2>5 DEF Reports
  <2> QED BY <2>1, <2>2, <2>3, <2>4, <2>5 DEF Handle
<1> QED BY <1>1, JobGoes, JobDone DEF Inv

LEMMA JobsLeave ==
  ASSUME Inv, NEW d \in Dispatcher, JobMove(d), NEW g,
         job'[d] = Idle \/ (job'[d].kind = job[d].kind /\ job'[d].goal = job[d].goal)
  PROVE  Underway(Leaving, g)' => Underway(Leaving, g)
<1> SUFFICES ASSUME NEW e \in Dispatcher, job'[e].kind \in Leaving, job'[e].goal = g
             PROVE  job[e].kind \in Leaving /\ job[e].goal = g
  BY DEF Underway
<1>1. CASE e = d
  <2>1. job'[d] # Idle
    BY <1>1 DEF Idle, Leaving
  <2> QED BY <1>1, <2>1
<1>2. CASE e # d
  BY <1>2 DEF JobMove
<1> QED BY <1>1, <1>2

LEMMA HandlersHonour ==
  ASSUME Inv, OwedHold, NEW d \in Dispatcher, Handle(d)
  PROVE  OwedHold'
<1>0. JobMove(d) /\ JobOnly /\ job[d].goal \in Goal /\ Effect(d) /\ TypeOK
  BY HandleJob, HandleEffect DEF Inv
<1> SUFFICES ASSUME NEW g \in Goal, g = job[d].goal PROVE OwedHold'
  BY <1>0
<1>1. JobMove(d) /\ JobOnly /\ g \in Goal /\ Effect(d) /\ TypeOK
  BY <1>0
<1>2. \A h : Underway(Leaving, h)' => Underway(Leaving, h)
  BY <1>1, HandlersGoOn, JobsLeave
<1>3. \A h \in Goal : HasWorker(h)' = HasWorker(h)
  BY <1>1 DEF JobOnly, HasWorker
<1>4. CASE StartActivates(d) \/ ResumeActivates(d)
  <2>1. ActivateGoal(g) /\ StartIsDone(g)
    BY <1>4 DEF StartActivates, ResumeActivates
  <2>2. /\ activation'[g] # "none" /\ g \notin stoppedGoals' /\ stoppedGoals' \subseteq stoppedGoals
        /\ \A h \in Goal : activation[h] # "none" => activation'[h] # "none"
    BY <1>1, <2>1 DEF ActivateGoal, Activated, TypeOK
  <2>3. \A h \in owed : h \in Goal /\ Honoured(h)'
    BY <1>2, <1>3, <2>2 DEF OwedHold, Honoured
  <2>4. CASE owed' = owed
    BY <2>3, <2>4 DEF OwedHold
  <2>5. CASE owed' = owed \cup {g} /\ ~Underway(Leaving, g) /\ ~HasWorker(g)
    <3>1. Honoured(g)'
      BY <1>1, <1>2, <1>3, <2>2, <2>5 DEF Honoured
    <3> QED BY <1>1, <2>3, <2>5, <3>1 DEF OwedHold
  <2> QED BY <2>1, <2>4, <2>5 DEF StartIsDone, Leaving
<1>5. CASE \/ StartSaves(d) \/ ResumeIgnored(d) \/ ResumeMarks(d) \/ ResumeSaves(d) \/ Reports(d)
           \/ StopDrops(d) \/ StopMarks(d) \/ PauseRequests(d)
  <2>1. UNCHANGED <<activation, stoppedGoals, owed>>
    BY <1>5 DEF StartSaves, ResumeIgnored, ResumeMarks, ResumeSaves, Reports, StopDrops, StopMarks,
                PauseRequests
  <2>2. \A h \in owed' : Spares(h)
    BY <1>2, <1>3, <2>1 DEF Spares, OwedHold, Honoured
  <2> QED BY <2>1, <2>2, OwedSpared
<1>6. CASE StopDeactivates(d) \/ PauseDeactivates(d) \/ PauseCheckpoints(d)
  <2>1. DeactivateGoal(g) /\ owed' = owed /\ job[d].kind \in Leaving
    BY <1>6 DEF StopDeactivates, PauseDeactivates, PauseCheckpoints, Checkpoint, At, Leaving
  <2>2. Underway(Leaving, g)
    BY <2>1 DEF Underway
  <2>3. g \notin owed
    BY <2>2 DEF OwedHold, Honoured
  <2>4. \A h \in owed' : Spares(h)
    BY <1>2, <1>3, <2>1, <2>3 DEF Spares, OwedHold, Honoured, DeactivateGoal
  <2> QED BY <2>1, <2>4, OwedSpared
<1> QED BY <1>4, <1>5, <1>6 DEF Handle

LEMMA TakingHonours ==
  ASSUME Inv, OwedHold, NEW d \in Dispatcher, NEW kind \in Commands, NEW g \in Goal,
         Takes(d, kind, g)
  PROVE  OwedHold'
<1>1. /\ \A e \in Dispatcher \ {d} : job'[e] = job[e]
      /\ job'[d].kind = kind /\ job'[d].goal = g
  BY JobTaken DEF Inv
<1>2. /\ UNCHANGED <<stoppedGoals, activation, run>>
      /\ owed' = IF kind \in Leaving THEN owed \ {g} ELSE owed
  BY DEF Takes, Leaving
<1>3. ASSUME NEW h \in owed', Underway(Leaving, h)'
      PROVE  Underway(Leaving, h)
  <2>1. PICK e \in Dispatcher : job'[e].kind \in Leaving /\ job'[e].goal = h
    BY <1>3 DEF Underway
  <2>2. e # d
    BY <1>1, <1>2, <2>1
  <2> QED BY <1>1, <2>1, <2>2 DEF Underway
<1>4. \A h \in owed' : Spares(h)
  BY <1>2, <1>3 DEF Spares, OwedHold, Honoured, HasWorker
<1> QED BY <1>2, <1>4, OwedSpared

LEMMA ClaimsHonour ==
  ASSUME Inv, OwedHold, NEW d \in Dispatcher, ClaimExpires(d) \/ HandlerFails(d)
  PROVE  OwedHold'
<1>1. UNCHANGED <<activation, stoppedGoals, run, owed>>
  BY DEF ClaimExpires, HandlerFails, memory, history
<1>2. \A h : Underway(Leaving, h)' => Underway(Leaving, h)
  <2>1. CASE ClaimExpires(d)
    BY <2>1 DEF ClaimExpires, memory, Underway
  <2>2. CASE HandlerFails(d)
    BY <2>2, JobDone, JobsLeave DEF HandlerFails, Inv, JobMove
  <2> QED BY <2>1, <2>2
<1>3. \A h \in owed' : Spares(h)
  BY <1>1, <1>2 DEF Spares, OwedHold, Honoured, HasWorker
<1> QED BY <1>1, <1>3, OwedSpared

LEMMA RunsHonour ==
  ASSUME Inv, OwedHold, NEW g \in Goal, RunStep(g) \/ Relinquish(g) \/ Sweep(g)
  PROVE  OwedHold'
<1>1. /\ RunChanges(g) /\ TypeOK
      /\ \A h \in Goal \ {g} : HasWorker(h)' = HasWorker(h)
      /\ \A h : Underway(Leaving, h)' = Underway(Leaving, h)
  BY RunSteps DEF Inv, RunChanges, HasWorker, Underway
<1>2. /\ owed' \subseteq owed /\ stoppedGoals' \subseteq stoppedGoals \cup {g}
      /\ owed \subseteq Goal
  BY DEF RunStep, PollDrops, PollPasses, Dispatch, RunEnds, RunFails, CompletionChecks,
         CompletionCheckpoints, RunCloses, Relinquish, Sweep, Checkpoint, DeactivateGoal, OwedHold
<1>3. \A h \in owed' : h # g => Spares(h)
  BY <1>1, <1>2 DEF RunChanges, Spares, OwedHold, Honoured
<1>4. ASSUME g \in owed'
      PROVE  Spares(g)
  <2>1. /\ activation[g] # "none" /\ g \notin stoppedGoals /\ ~HasWorker(g) /\ g \in owed
    BY <1>2, <1>4 DEF OwedHold, Honoured
  <2>2. PollPasses(g) \/ Dispatch(g) \/ Sweep(g)
    BY <2>1 DEF RunStep, PollDrops, RunEnds, RunFails, CompletionChecks, CompletionCheckpoints,
                RunCloses, Relinquish, HasWorker
  <2>3. activation'[g] # "none" /\ UNCHANGED stoppedGoals /\ run'[g] \in {"none", "leasing"}
    <3>1. CASE PollPasses(g)
      BY <1>1, <3>1 DEF PollPasses, RunGoes, TypeOK
    <3>2. CASE Sweep(g)
      BY <1>1, <3>2 DEF Sweep, TypeOK
    <3>3. CASE Dispatch(g)
      <4>1. phase # "up"
        BY <1>4, <3>3 DEF Dispatch
      <4> QED BY <1>1, <3>3, <4>1 DEF Dispatch, RunGoes, TypeOK
    <3> QED BY <2>2, <3>1, <3>2, <3>3
  <2> QED BY <1>1, <2>3 DEF Spares, HasWorker
<1>5. \A h \in owed' : Spares(h)
  BY <1>3, <1>4
<1> QED BY <1>2, <1>5, OwedSpared

LEMMA ProcessHonours ==
  ASSUME Inv, OwedHold, BeginShutdown \/ Cleanup \/ Exit \/ Crash \/ Restart
  PROVE  OwedHold'
<1>1. CASE BeginShutdown \/ Cleanup
  <2>1. UNCHANGED <<activation, stoppedGoals, run, job, owed>>
    BY <1>1 DEF BeginShutdown, Cleanup, durable, history
  <2> QED BY <2>1, OwedSpared DEF Spares, OwedHold, Honoured, HasWorker, Underway
<1>2. CASE Exit \/ Crash
  <2>1. /\ UNCHANGED <<activation, owed>> /\ stoppedGoals' = {}
        /\ \A g \in Goal : run'[g] = "none"
        /\ \A d \in Dispatcher : job'[d] = Idle
    BY <1>2 DEF Exit, Crash, MemoryLost, durable
  <2>2. \A g \in Goal : ~HasWorker(g)'
    BY <2>1 DEF HasWorker
  <2>3. \A g : ~Underway(Leaving, g)'
    BY <2>1 DEF Underway, Idle, Leaving
  <2> QED BY <2>1, <2>2, <2>3 DEF OwedHold, Honoured
<1>3. CASE Restart
  <2>1. /\ owed' = owed \ PausedGoals /\ UNCHANGED <<stoppedGoals, run, job>>
        /\ \A g \in Goal \ PausedGoals : activation[g] # "none" => activation'[g] # "none"
    BY <1>3 DEF Restart, Activated
  <2>2. \A h \in owed' : Spares(h)
    BY <2>1 DEF OwedHold, Honoured, Spares, HasWorker, Underway
  <2> QED BY <2>1, <2>2, OwedSpared
<1> QED BY <1>1, <1>2, <1>3

(* A step of none of the jobs and runs, which activates goals at most. *)
Activates ==
  /\ UNCHANGED <<run, job, owed>> /\ stoppedGoals' \subseteq stoppedGoals
  /\ \A h \in Goal : activation[h] # "none" => activation'[h] # "none"

LEMMA OthersHonour ==
  ASSUME Inv, OwedHold,
         \/ CycleSaves \/ \E w \in Writer : SaveLands(w) \/ SaveFails(w)
         \/ \E goals \in SUBSET current : CycleReads(goals)
         \/ \E g \in Goal : CycleActivates(g)
         \/ UNCHANGED vars
  PROVE  OwedHold'
<1>1. Activates
  <2> USE DEF Activates
  <2>1. ASSUME NEW g \in Goal, CycleActivates(g)
        PROVE  Activates
    BY <2>1 DEF CycleActivates, ActivateGoal, Activated, history
  <2>2. CASE \E goals \in SUBSET current : CycleReads(goals)
    BY <2>2 DEF CycleReads, durable, history
  <2>3. CASE CycleSaves \/ UNCHANGED vars
    BY <2>3 DEF CycleSaves, vars, memory, durable, history
  <2>4. ASSUME NEW w \in Writer, SaveLands(w) \/ SaveFails(w)
        PROVE  Activates
    BY <2>4 DEF SaveLands, SaveFails, durable, history
  <2> QED BY <2>1, <2>2, <2>3, <2>4
<1>2. \A h \in owed' : Spares(h)
  BY <1>1 DEF Activates, OwedHold, Honoured, Spares, HasWorker, Underway
<1> QED BY <1>1, <1>2, OwedSpared DEF Activates

LEMMA OwedStep == Inv /\ OwedHold /\ [Next]_vars => OwedHold'
<1> SUFFICES ASSUME Inv, OwedHold, [Next]_vars PROVE OwedHold'
  OBVIOUS
<1>1. ASSUME NEW d \in Dispatcher, NEW c \in lapsed, Redeliver(d, c)
      PROVE  OwedHold'
  <2>1. c.kind \in Commands /\ c.goal \in Goal
    BY DEF Inv, TypeOK
  <2> QED BY <1>1, <2>1, TakingHonours DEF Redeliver
<1>2. ASSUME NEW d \in Dispatcher, NEW kind \in Commands, NEW g \in Goal, Receive(d, kind, g)
      PROVE  OwedHold'
  BY <1>2, TakingHonours DEF Receive
<1> QED BY <1>1, <1>2, HandlersHonour, ClaimsHonour, RunsHonour, ProcessHonours, OthersHonour DEF Next

(* A goal whose start or resume has been handled keeps its activation, and *)
(* nothing makes the supervisor drop it, until it runs, is stopped or      *)
(* paused, or is withheld as paused by a start of the daemon               *)
(* (StartIsHonoured): whoever would deactivate it is handling a stop or a  *)
(* pause taken later, or completes a run of the goal (Honoured).           *)
THEOREM StartsAreHonoured == Spec => []StartIsHonoured
<1>1. Init => OwedHold
  BY DEF Init, OwedHold
<1>2. OwedHold => StartIsHonoured
  BY DEF OwedHold, Honoured, StartIsHonoured
<1> QED BY <1>1, <1>2, OwedStep, CommandsInvHolds, PTL DEF Spec

-----------------------------------------------------------------------------
(* Restarts that are asked for *)

(* The operation may still have its command queued. *)
Unsent(o) == request[o] \in {"asking", "approved", "calling"}

(* It may still shut down a daemon: its command comes, or is to be handled *)
(* (again).                                                                *)
Owes(o) ==
  \/ Unsent(o)
  \/ command[o] = "queued"
  \/ command[o] = "claimed" /\ ~(handling = o /\ handler = "saved")

(* A shutdown is about to begin, and the command being handled was swept   *)
(* back into the queue before its handler has saved anything.              *)
Coming == timer /\ ~stopping
Swept  == handler = "loaded" /\ command[handling] = "queued"

One(b) == IF b THEN 1 ELSE 0

Owing    == {o \in Operation : Owes(o)}
Recorded == {o \in Operation : record[o] # "absent"}

(* Each operation, crash and lapse pays for one restart, begun or owed.    *)
Accounted ==
  restarts + One(Coming) + One(Swept) + Cardinality(Owing)
    <= Cardinality(Recorded) + deaths + lapses

Tidy ==
  /\ \A o \in Operation : request[o] = "idle" => record[o] = "absent"
  /\ \A o \in Operation : command[o] # "none" => request[o] # "idle" /\ ~Unsent(o)
  /\ \A o \in listed : request[o] # "idle"
  /\ handler # "none" => /\ handling \in Operation /\ request[handling] # "idle"
                         /\ handler = "loaded" => command[handling] # "none"
  /\ deaths \in Nat /\ lapses \in Nat

ControlInv == Control!TypeOK /\ Tidy

USE DEF Control!Saves, Control!Goes, Control!Keeps, Control!recordVars, Control!processVars,
        Control!history

LEMMA RequesterTypes ==
  ASSUME ControlInv, NEW o \in Operation, Control!RequesterStep(o) \/ Control!Leave(o)
  PROVE  ControlInv'
<1> USE DEF ControlInv, Control!TypeOK, Tidy, Unsent
<1>1. CASE Control!Ask(o)
  BY <1>1 DEF Control!Ask
<1>2. CASE Control!Approve(o)
  BY <1>2 DEF Control!Approve
<1>3. CASE Control!Acknowledge(o)
  BY <1>3 DEF Control!Acknowledge
<1>4. CASE Control!Call(o)
  BY <1>4 DEF Control!Call
<1>5. CASE Control!CallFails(o)
  BY <1>5 DEF Control!CallFails
<1>6. CASE Control!RecordAnswer(o)
  BY <1>6 DEF Control!RecordAnswer
<1>7. CASE Control!Leave(o)
  BY <1>7 DEF Control!Leave
<1> QED BY <1>1, <1>2, <1>3, <1>4, <1>5, <1>6, <1>7 DEF Control!RequesterStep

LEMMA DaemonTypes ==
  ASSUME ControlInv,
         \/ \E o \in Operation : Control!Claim(o) \/ Control!Verify(o) \/ Control!Sweep(o)
         \/ Control!HandlerSaves \/ Control!Ack \/ Control!TimerFires
         \/ Control!Start \/ Control!List \/ Control!Started \/ Control!Ends \/ Control!Crash
  PROVE  ControlInv'
<1> USE DEF ControlInv, Control!TypeOK, Tidy, Unsent
<1>1. ASSUME NEW o \in Operation, Control!Claim(o)
      PROVE  ControlInv'
  BY <1>1, ControlInstance DEF Control!Claim, Control!ControlAssumption
<1>2. ASSUME NEW o \in Operation, Control!Verify(o)
      PROVE  ControlInv'
  BY <1>2 DEF Control!Verify
<1>3. ASSUME NEW o \in Operation, Control!Sweep(o)
      PROVE  ControlInv'
  BY <1>3 DEF Control!Sweep
<1>4. CASE Control!HandlerSaves
  BY <1>4 DEF Control!HandlerSaves
<1>5. CASE Control!Ack
  BY <1>5 DEF Control!Ack
<1>6. CASE Control!TimerFires
  <2>1. timer /\ ~timer' /\ stopping' /\ timer' \in BOOLEAN /\ stopping' \in BOOLEAN
    BY <1>6 DEF Control!TimerFires
  <2>2. daemon # "down"
    BY <2>1
  <2>3. restarts' \in Nat
    BY <1>6 DEF Control!TimerFires
  <2>4. UNCHANGED <<record, request, command, daemon, handling, handler, reconcile, listed,
                    lapses, deaths, here, verified>>
    BY <1>6 DEF Control!TimerFires
  <2> QED BY <2>1, <2>2, <2>3, <2>4
<1>7. CASE Control!Start \/ Control!Started
  BY <1>7 DEF Control!Start, Control!Started
<1>8. CASE Control!List
  BY <1>8 DEF Control!List, Control!Unsettled
<1>9. CASE Control!Ends \/ Control!Crash
  <2>1. /\ daemon' = "down" /\ ~stopping' /\ ~timer' /\ handling' = NoOperation
        /\ stopping' \in BOOLEAN /\ timer' \in BOOLEAN
        /\ handler' = "none" /\ reconcile' = "over" /\ listed' = {} /\ here' = {}
        /\ UNCHANGED <<record, request, command, lapses, restarts, verified>>
    BY <1>9 DEF Control!Ends, Control!Crash, Control!Gone
  <2>2. deaths' \in Nat
    BY <1>9 DEF Control!Ends, Control!Crash, Control!Gone
  <2> QED BY <2>1, <2>2
<1> QED BY <1>1, <1>2, <1>3, <1>4, <1>5, <1>6, <1>7, <1>8, <1>9

(* The instance's own copies of two operators of FiniteSets. *)
LEMMA SameFiniteSets == \A S : Control!IsFiniteSet(S) <=> IsFiniteSet(S)
BY DEF Control!IsFiniteSet, IsFiniteSet

LEMMA SameCardinality == \A S : Control!Cardinality(S) = Cardinality(S)
BY DEF Control!Cardinality, Cardinality

LEMMA Counting ==
  ASSUME NEW S \in SUBSET Operation, NEW T \in SUBSET Operation
  PROVE  /\ Cardinality(S) \in Nat /\ Cardinality(T) \in Nat
         /\ T \subseteq S => Cardinality(T) <= Cardinality(S)
         /\ \A x : T \subseteq S \cup {x} => Cardinality(T) <= Cardinality(S) + 1
         /\ \A x \in S : T \subseteq S \ {x} => Cardinality(T) + 1 <= Cardinality(S)
<1>0. IsFiniteSet(Operation)
  <2>1. Control!IsFiniteSet(Operation)
    BY ControlInstance DEF Control!ControlAssumption
  <2> QED BY <2>1, SameFiniteSets
<1>00. IsFiniteSet(S) /\ IsFiniteSet(T)
  BY <1>0, FS_Subset
<1>1. IsFiniteSet(S) /\ IsFiniteSet(T) /\ Cardinality(S) \in Nat /\ Cardinality(T) \in Nat
  BY <1>00, FS_CardinalityType
<1>2. ASSUME NEW x, T \subseteq S \cup {x}
      PROVE  Cardinality(T) <= Cardinality(S) + 1
  <2>0. /\ IsFiniteSet(S \cup {x})
        /\ Cardinality(S \cup {x}) = IF x \in S THEN Cardinality(S) ELSE Cardinality(S) + 1
    BY <1>1, FS_AddElement, Zenon
  <2>1. /\ IsFiniteSet(S \cup {x}) /\ Cardinality(S \cup {x}) \in Nat
        /\ Cardinality(S \cup {x}) <= Cardinality(S) + 1
    BY <1>1, <2>0
  <2>2. Cardinality(T) <= Cardinality(S \cup {x})
    BY <1>2, <2>1, FS_Subset
  <2> QED BY <1>1, <2>1, <2>2
<1>3. ASSUME NEW x \in S, T \subseteq S \ {x}
      PROVE  Cardinality(T) + 1 <= Cardinality(S)
  <2>1. /\ IsFiniteSet(S \ {x}) /\ Cardinality(S \ {x}) = Cardinality(S) - 1
        /\ Cardinality(S \ {x}) \in Nat
    BY <1>1, FS_RemoveElement, FS_CardinalityType
  <2>2. Cardinality(T) <= Cardinality(S \ {x})
    BY <1>3, <2>1, FS_Subset
  <2> QED BY <1>1, <2>1, <2>2
<1> QED BY <1>1, <1>2, <1>3, FS_Subset

(* What a step costs and what pays for it. *)
Pays(debt, credit) ==
  /\ debt \in Int /\ credit \in Int /\ debt <= credit
  /\ restarts' + One(Coming)' + One(Swept)' + Cardinality(Owing)'
       <= restarts + One(Coming) + One(Swept) + Cardinality(Owing) + debt
  /\ Cardinality(Recorded) + deaths + lapses + credit
       <= Cardinality(Recorded)' + deaths' + lapses'

LEMMA Counts ==
  ASSUME ControlInv, ControlInv'
  PROVE  /\ Cardinality(Owing) \in Nat /\ Cardinality(Owing)' \in Nat
         /\ Cardinality(Recorded) \in Nat /\ Cardinality(Recorded)' \in Nat
         /\ restarts \in Nat /\ restarts' \in Nat /\ deaths \in Nat /\ deaths' \in Nat
         /\ lapses \in Nat /\ lapses' \in Nat
         /\ One(Coming) \in {0, 1} /\ One(Coming)' \in {0, 1}
         /\ One(Swept) \in {0, 1} /\ One(Swept)' \in {0, 1}
<1>1. /\ Cardinality(Owing) \in Nat /\ Cardinality(Owing)' \in Nat
      /\ Cardinality(Recorded) \in Nat /\ Cardinality(Recorded)' \in Nat
  BY Counting DEF Owing, Recorded
<1>2. /\ restarts \in Nat /\ restarts' \in Nat /\ deaths \in Nat /\ deaths' \in Nat
      /\ lapses \in Nat /\ lapses' \in Nat
  BY DEF ControlInv, Control!TypeOK, Tidy
<1>3. /\ One(Coming) \in {0, 1} /\ One(Coming)' \in {0, 1}
      /\ One(Swept) \in {0, 1} /\ One(Swept)' \in {0, 1}
  BY DEF One
<1> QED BY <1>1, <1>2, <1>3

LEMMA Paid ==
  ASSUME ControlInv, ControlInv', Accounted, NEW debt, NEW credit, Pays(debt, credit)
  PROVE  Accounted'
BY Counts DEF Pays, Accounted

(* A step that begins no shutdown and brings no restart nearer is free. *)
Quiet ==
  /\ Owing' \subseteq Owing /\ Recorded \subseteq Recorded'
  /\ Coming' => Coming
  /\ Swept' => Swept
  /\ UNCHANGED <<restarts, deaths, lapses>>

LEMMA Recording ==
  ASSUME ControlInv, ControlInv', Recorded \subseteq Recorded'
  PROVE  Cardinality(Recorded) <= Cardinality(Recorded)'
BY Counting DEF Recorded

LEMMA QuietPays ==
  ASSUME ControlInv, ControlInv', Quiet
  PROVE  Pays(0, 0)
<1>1. Cardinality(Owing)' <= Cardinality(Owing)
  BY Counting DEF Quiet, Owing
<1>2. Cardinality(Recorded) <= Cardinality(Recorded)'
  BY Recording DEF Quiet
<1>3. One(Coming)' <= One(Coming)
  BY DEF Quiet, One
<1>4. One(Swept)' <= One(Swept)
  BY DEF Quiet, One
<1> QED BY <1>1, <1>2, <1>3, <1>4, Counts DEF Quiet, Pays

LEMMA RequestsArePaid ==
  ASSUME ControlInv, ControlInv', NEW o \in Operation,
         Control!RequesterStep(o) \/ Control!Leave(o)
  PROVE  Pays(0, 0) \/ Pays(1, 1)
<1>1. CASE Control!Ask(o)
  <2>1. /\ request \in [Operation -> {"idle", "asking", "approved", "calling", "accepted",
                                     "unanswered", "toldYes", "toldNo", "gone"}]
        /\ record \in [Operation -> {"absent", "pending", "approved", "acknowledged", "restarting",
                                    "verified", "failed", "cancelled", "blocked"}]
    BY DEF ControlInv, Control!TypeOK
  <2>2. /\ Recorded \subseteq Recorded' /\ Recorded \subseteq Recorded' \ {o} /\ o \in Recorded'
    BY <1>1, <2>1 DEF Control!Ask, ControlInv, Tidy, Recorded
  <2>3. Owing' \subseteq Owing \cup {o}
    BY <1>1, <2>1 DEF Control!Ask, Owing, Owes, Unsent
  <2>4. /\ Coming' => Coming
        /\ Swept' => Swept
        /\ UNCHANGED <<restarts, deaths, lapses>>
    BY <1>1 DEF Control!Ask, Coming, Swept
  <2>5. Cardinality(Owing)' <= Cardinality(Owing) + 1
    BY <2>3, Counting DEF Owing
  <2>6. Cardinality(Recorded) + 1 <= Cardinality(Recorded)'
    BY <2>2, Counting DEF Recorded
  <2>7. One(Coming)' <= One(Coming)
    BY <2>4 DEF One
  <2>8. One(Swept)' <= One(Swept)
    BY <2>4 DEF One
  <2> QED BY <2>4, <2>5, <2>6, <2>7, <2>8, Counts DEF Pays
<1>2. CASE \/ Control!Approve(o) \/ Control!Acknowledge(o) \/ Control!Call(o)
           \/ Control!CallFails(o) \/ Control!RecordAnswer(o) \/ Control!Leave(o)
  <2> USE DEF ControlInv, Control!TypeOK, Tidy, Unsent
  <2>1. /\ Coming' => Coming
        /\ UNCHANGED <<restarts, deaths, lapses, handling, handler>>
    BY <1>2 DEF Control!Approve, Control!Acknowledge, Control!Call, Control!CallFails,
                Control!RecordAnswer, Control!Leave, Coming
  <2>2. Recorded \subseteq Recorded'
    BY <1>2 DEF Control!Approve, Control!Acknowledge, Control!Call, Control!CallFails,
                Control!RecordAnswer, Control!Leave, Recorded
  <2>3. /\ Owing' \subseteq Owing
        /\ Swept' => Swept
    <3>1. CASE Control!Call(o)
      BY <3>1 DEF Control!Call, Owing, Owes, Swept
    <3>2. CASE \/ Control!Approve(o) \/ Control!Acknowledge(o) \/ Control!CallFails(o)
               \/ Control!RecordAnswer(o) \/ Control!Leave(o)
      <4>1. command' = command /\ handling' = handling /\ handler' = handler
        BY <3>2 DEF Control!Approve, Control!Acknowledge, Control!CallFails,
                    Control!RecordAnswer, Control!Leave
      <4>2. \A x \in Operation : Unsent(x)' => Unsent(x)
        BY <3>2 DEF Control!Approve, Control!Acknowledge, Control!CallFails,
                    Control!RecordAnswer, Control!Leave
      <4> QED BY <4>1, <4>2 DEF Owing, Owes, Swept
    <3> QED BY <1>2, <3>1, <3>2
  <2> QED BY <2>1, <2>2, <2>3, QuietPays DEF Quiet
<1> QED BY <1>1, <1>2 DEF Control!RequesterStep

LEMMA HandlingIsPaid ==
  ASSUME ControlInv, ControlInv',
         Control!HandlerSaves \/ Control!Ack \/ \E o \in Operation : Control!Claim(o)
  PROVE  Pays(0, 0)
<1> USE DEF ControlInv, Control!TypeOK, Tidy
<1>1. CASE Control!HandlerSaves
  <2>1. handling \in Operation /\ handler = "loaded" /\ handler' = "saved" /\ timer'
        /\ UNCHANGED <<request, command, handling, restarts, deaths, lapses>>
    BY <1>1 DEF Control!HandlerSaves
  <2>2. Recorded \subseteq Recorded'
    BY <1>1, <2>1 DEF Control!HandlerSaves, Recorded
  <2>3. Owing' \subseteq Owing
    BY <2>1 DEF Owing, Owes, Unsent
  <2>4. ~Swept'
    BY <2>1 DEF Swept
  <2>5. One(Swept)' = 0
    BY <2>4 DEF One
  <2>6. Cardinality(Recorded) <= Cardinality(Recorded)'
    BY <2>2, Recording
  <2>7. CASE Swept
    <3>1. One(Swept) = 1
      BY <2>7 DEF One
    <3>2. Cardinality(Owing)' <= Cardinality(Owing)
      BY <2>3, Counting DEF Owing
    <3> QED BY <2>1, <2>5, <2>6, <3>1, <3>2, Counts DEF Pays
  <2>8. CASE ~Swept
    <3>0. command[handling] = "claimed" /\ ~Unsent(handling)
      BY <2>1, <2>8 DEF Swept
    <3>1. handling \in Owing /\ Owing' \subseteq Owing \ {handling}
      BY <2>1, <2>3, <3>0 DEF Owing, Owes, Unsent
    <3>2. Cardinality(Owing)' + 1 <= Cardinality(Owing)
      BY <3>1, Counting DEF Owing
    <3> QED BY <2>1, <2>5, <2>6, <3>2, Counts DEF Pays
  <2> QED BY <2>7, <2>8
<1>2. CASE Control!Ack
  <2>0. /\ handler = "saved" /\ handler' = "none"
        /\ command' = [command EXCEPT ![handling] = IF command[handling] = "claimed" THEN "none"
                                                                             ELSE command[handling]]
        /\ UNCHANGED <<record, request, timer, stopping, restarts, deaths, lapses>>
    BY <1>2 DEF Control!Ack
  <2>00. command \in [Operation -> {"none", "queued", "claimed"}] /\ handling \in Operation
    BY <2>0
  <2>000. /\ \A x \in Operation : x # handling => command'[x] = command[x]
          /\ command'[handling] = IF command[handling] = "claimed" THEN "none" ELSE command[handling]
    BY <2>0, <2>00
  <2>1. /\ handling \in Operation /\ handler = "saved" /\ handler' = "none"
        /\ \A x \in Operation : \/ command'[x] = command[x]
                                \/ x = handling /\ command'[x] = "none" /\ command[x] = "claimed"
        /\ command[handling] = "claimed" => command'[handling] = "none"
        /\ UNCHANGED <<record, request, timer, stopping, restarts, deaths, lapses>>
    BY <2>0, <2>00, <2>000
  <2>2. Owing' \subseteq Owing
    BY <2>1 DEF Owing, Owes, Unsent
  <2>3. /\ Recorded \subseteq Recorded'
        /\ Coming' => Coming
        /\ Swept' => Swept
    BY <2>1 DEF Recorded, Coming, Swept
  <2> QED BY <2>1, <2>2, <2>3, QuietPays DEF Quiet
<1>3. ASSUME NEW o \in Operation, Control!Claim(o)
      PROVE  Pays(0, 0)
  <2>1. /\ command[o] = "queued" /\ command'[o] = "claimed" /\ handling' = o
        /\ handler = "none" /\ handler' = "loaded"
        /\ \A x \in Operation : x # o => command'[x] = command[x]
        /\ UNCHANGED <<record, request, timer, stopping, restarts, deaths, lapses>>
    BY <1>3 DEF Control!Claim
  <2>2. Owing' \subseteq Owing
    BY <2>1 DEF Owing, Owes, Unsent
  <2>3. /\ Recorded \subseteq Recorded'
        /\ Coming' => Coming
        /\ Swept' => Swept
    BY <2>1 DEF Recorded, Coming, Swept
  <2> QED BY <2>1, <2>2, <2>3, QuietPays DEF Quiet
<1> QED BY <1>1, <1>2, <1>3

LEMMA SweepIsPaid ==
  ASSUME ControlInv, ControlInv', NEW o \in Operation, Control!Sweep(o)
  PROVE  Pays(0, 0) \/ Pays(1, 1)
<1> USE DEF ControlInv, Control!TypeOK, Tidy
<1>0. /\ command[o] = "claimed" /\ command'[o] = "queued"
      /\ \A x \in Operation : x # o => command'[x] = command[x]
      /\ UNCHANGED <<record, request, timer, stopping, handling, handler, restarts, deaths>>
  BY DEF Control!Sweep
<1>1. /\ Recorded \subseteq Recorded'
      /\ Coming' => Coming
  BY <1>0 DEF Recorded, Coming
<1>2. CASE handling # o
  <2>1. lapses' = lapses
    BY <1>2 DEF Control!Sweep
  <2>2. Owing' \subseteq Owing
    BY <1>0, <1>2 DEF Owing, Owes, Unsent
  <2>3. Swept' => Swept
    BY <1>0, <1>2 DEF Swept
  <2> QED BY <1>0, <1>1, <2>1, <2>2, <2>3, QuietPays DEF Quiet
<1>3. CASE handling = o
  <2>1. lapses' = lapses + 1
    BY <1>3 DEF Control!Sweep
  <2>2. Cardinality(Recorded) <= Cardinality(Recorded)'
    BY <1>1, Recording
  <2>3. One(Coming)' <= One(Coming)
    BY <1>1 DEF One
  <2>4. CASE handler = "saved"
    <3>1. Owing' \subseteq Owing \cup {o}
      BY <1>0, <1>3 DEF Owing, Owes, Unsent
    <3>2. Cardinality(Owing)' <= Cardinality(Owing) + 1
      BY <3>1, Counting DEF Owing
    <3>3. ~Swept'
      BY <1>0, <2>4 DEF Swept
    <3>4. One(Swept)' <= One(Swept)
      BY <3>3 DEF One
    <3> QED BY <1>0, <2>1, <2>2, <2>3, <3>2, <3>4, Counts DEF Pays
  <2>5. CASE handler # "saved"
    <3>1. o \in Owing
      BY <1>0, <2>5 DEF Owing, Owes
    <3>2. Owing' \subseteq Owing
      BY <1>0, <3>1 DEF Owing, Owes, Unsent
    <3>3. Cardinality(Owing)' <= Cardinality(Owing)
      BY <3>2, Counting DEF Owing
    <3>4. ~Swept
      BY <1>0, <1>3 DEF Swept
    <3>5. One(Swept)' <= One(Swept) + 1
      BY Counts
    <3> QED BY <1>0, <2>1, <2>2, <2>3, <3>3, <3>5, Counts DEF Pays
  <2> QED BY <2>4, <2>5
<1> QED BY <1>2, <1>3

LEMMA ProcessIsPaid ==
  ASSUME ControlInv, ControlInv',
         \/ \E o \in Operation : Control!Verify(o)
         \/ Control!TimerFires \/ Control!Start \/ Control!List \/ Control!Started
         \/ Control!Ends \/ Control!Crash
  PROVE  Pays(0, 0) \/ Pays(1, 1)
<1> USE DEF ControlInv, Control!TypeOK, Tidy
<1>1. ASSUME NEW o \in Operation, Control!Verify(o)
      PROVE  Pays(0, 0)
  <2>1. /\ UNCHANGED <<request, command, timer, stopping, handling, handler, restarts, deaths, lapses>>
        /\ Recorded \subseteq Recorded'
    BY <1>1 DEF Control!Verify, Recorded
  <2>2. /\ Owing' \subseteq Owing
        /\ Coming' => Coming
        /\ Swept' => Swept
    BY <2>1 DEF Owing, Owes, Unsent, Coming, Swept
  <2> QED BY <2>1, <2>2, QuietPays DEF Quiet
<1>2. CASE Control!TimerFires
  <2>1. /\ timer /\ ~timer' /\ restarts' = IF stopping THEN restarts ELSE restarts + 1
        /\ UNCHANGED <<record, request, command, handling, handler, deaths, lapses>>
    BY <1>2 DEF Control!TimerFires
  <2>2. Owing' = Owing /\ Recorded' = Recorded
    BY <2>1 DEF Owing, Owes, Unsent, Recorded
  <2>3. One(Swept)' = One(Swept)
    BY <2>1 DEF Swept
  <2>4. ~Coming'
    BY <2>1 DEF Coming
  <2>5. One(Coming)' = 0
    BY <2>4 DEF One
  <2>6. restarts' <= restarts + One(Coming)
    <3>1. CASE stopping
      BY <2>1, <3>1, Counts
    <3>2. CASE ~stopping
      <4>1. Coming
        BY <2>1, <3>2 DEF Coming
      <4>2. One(Coming) = 1
        BY <4>1 DEF One
      <4> QED BY <2>1, <3>2, <4>2, Counts
    <3> QED BY <3>1, <3>2
  <2>7. Cardinality(Owing)' = Cardinality(Owing) /\ Cardinality(Recorded)' = Cardinality(Recorded)
    BY <2>2
  <2> QED BY <2>1, <2>3, <2>5, <2>6, <2>7, Counts DEF Pays
<1>3. CASE Control!Start \/ Control!List \/ Control!Started
  <2>1. UNCHANGED <<record, request, command, timer, stopping, handling, handler, restarts, deaths,
                    lapses>>
    BY <1>3 DEF Control!Start, Control!List, Control!Started
  <2>2. /\ Owing' \subseteq Owing /\ Recorded \subseteq Recorded'
        /\ Coming' => Coming
        /\ Swept' => Swept
    BY <2>1 DEF Owing, Owes, Unsent, Recorded, Coming, Swept
  <2> QED BY <2>1, <2>2, QuietPays DEF Quiet
<1>4. CASE Control!Ends \/ Control!Crash
  <2>1. /\ handler' = "none" /\ ~timer'
        /\ UNCHANGED <<record, request, command, restarts, lapses>>
    BY <1>4 DEF Control!Ends, Control!Crash, Control!Gone
  <2>2. /\ ~Swept' /\ ~Coming' /\ Recorded \subseteq Recorded'
    BY <2>1 DEF Swept, Coming, Recorded
  <2>3. One(Swept)' <= One(Swept) /\ One(Coming)' <= One(Coming)
    BY <2>2 DEF One
  <2>4. Cardinality(Recorded) <= Cardinality(Recorded)'
    BY <2>2, Recording
  <2>5. Owing' \subseteq Owing \cup {handling}
    BY <2>1 DEF Owing, Owes, Unsent
  <2>6. CASE Control!Ends
    <3>1. handler = "none" /\ deaths' = deaths
      BY <2>6 DEF Control!Ends
    <3>2. Owing' \subseteq Owing
      BY <2>1, <3>1 DEF Owing, Owes, Unsent
    <3> QED BY <2>1, <2>2, <3>1, <3>2, QuietPays DEF Quiet
  <2>7. CASE Control!Crash
    <3>1. deaths' = deaths + 1
      BY <2>7 DEF Control!Crash
    <3>2. Cardinality(Owing)' <= Cardinality(Owing) + 1
      BY <2>5, Counting DEF Owing
    <3> QED BY <2>1, <2>3, <2>4, <3>1, <3>2, Counts DEF Pays
  <2> QED BY <1>4, <2>6, <2>7
<1> QED BY <1>1, <1>2, <1>3, <1>4

LEMMA ControlStep ==
  ASSUME ControlInv, Accounted, Control!Next
  PROVE  ControlInv' /\ Accounted'
<1>1. ControlInv'
  BY RequesterTypes, DaemonTypes DEF Control!Next, Control!DaemonStep
<1>2. Pays(0, 0) \/ Pays(1, 1)
  BY <1>1, RequestsArePaid, HandlingIsPaid, SweepIsPaid, ProcessIsPaid
     DEF Control!Next, Control!DaemonStep
<1> QED BY <1>1, <1>2, Paid

LEMMA ControlStart == Control!Init => ControlInv /\ Accounted
<1> SUFFICES ASSUME Control!Init PROVE ControlInv /\ Accounted
  OBVIOUS
<1>1. ControlInv
  BY DEF Control!Init, ControlInv, Control!TypeOK, Tidy, Unsent
<1>2. Owing = {} /\ Recorded = {} /\ ~Coming /\ ~Swept /\ restarts = 0 /\ deaths = 0 /\ lapses = 0
  BY DEF Control!Init, Owing, Owes, Unsent, Recorded, Coming, Swept
<1>3. Cardinality(Owing) = 0 /\ Cardinality(Recorded) = 0
  BY <1>2, FS_EmptySet
<1>4. One(Coming) = 0 /\ One(Swept) = 0
  BY <1>2 DEF One
<1> QED BY <1>1, <1>2, <1>3, <1>4 DEF Accounted

LEMMA ControlKept ==
  ControlInv /\ Accounted /\ UNCHANGED controlVars => ControlInv' /\ Accounted'
<1> SUFFICES ASSUME ControlInv, Accounted, UNCHANGED controlVars PROVE ControlInv' /\ Accounted'
  OBVIOUS
<1>1. ControlInv'
  BY DEF controlVars, ControlInv, Control!TypeOK, Tidy, Unsent
<1>2. Owing' = Owing /\ Recorded' = Recorded /\ Coming' = Coming /\ Swept' = Swept
  BY DEF controlVars, Owing, Owes, Unsent, Recorded, Coming, Swept
<1> QED BY <1>1, <1>2 DEF controlVars, Accounted

(* However many operators ask at once, and wherever the daemon crashes, it
   is shut down by command at most once per operation, crash in the middle
   of a command and lapsed claim: the commands it finds in its queue make
   no restart loop (handleRuntimeControlCommand,
   reconcileInterruptedRuntimeControlOperations).                          *)
THEOREM RestartsArePaidFor == CommandsSpec => []RestartsAreAccounted
<1>1. ControlInv /\ Accounted => RestartsAreAccounted
  <2> SUFFICES ASSUME ControlInv, Accounted PROVE RestartsAreAccounted
    OBVIOUS
  <2>1. /\ Cardinality(Owing) \in Nat /\ Cardinality(Recorded) \in Nat
        /\ One(Coming) \in Nat /\ One(Swept) \in Nat
        /\ restarts \in Nat /\ deaths \in Nat /\ lapses \in Nat
    BY Counting DEF Owing, Recorded, One, ControlInv, Control!TypeOK, Tidy
  <2>2. restarts <= Cardinality(Recorded) + deaths + lapses
    BY <2>1 DEF Accounted
  <2> QED BY <2>2, SameCardinality DEF Recorded, RestartsAreAccounted, Control!RestartsAreAccounted
<1>2. CommandsInit => ControlInv /\ Accounted
  BY ControlStart DEF CommandsInit
<1>3. ControlInv /\ Accounted /\ [CommandsNext]_<<subject, vars, controlVars>>
        => ControlInv' /\ Accounted'
  BY ControlStep, ControlKept DEF CommandsNext
<1> QED BY <1>1, <1>2, <1>3, PTL DEF CommandsSpec
=============================================================================
