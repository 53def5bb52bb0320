------------------------ MODULE ToolExecutionProofs ------------------------
(***************************************************************************)
(* For every set of calls, every limit and every number of changes of the  *)
(* host: types and slots (a waiting call has somebody who wakes it), and   *)
(* approvals (only an approved, unchanged plan is called).  For every      *)
(* pipeline and every number of crashes: its stages are executed once.     *)
(***************************************************************************)
EXTENDS MCTools, FiniteSetTheorems, TLAPS

USE ToolAssumption DEF ToolAssumption

-----------------------------------------------------------------------------
(* Slots *)

Inside == {c \in Call : at[c] = "in"}

(* The slots in use are the calls inside, and the queue holds every call   *)
(* that waits in it once.                                                  *)
SlotsInv ==
  /\ IsFiniteSet(Inside) /\ active = Cardinality(Inside)
  /\ \A i \in 1 .. Len(queue) : at[queue[i]] = "queued"
  /\ \A i, j \in 1 .. Len(queue) : queue[i] = queue[j] => i = j
  /\ WaiterHasWaker

(* A call that is inside has a slot. *)
LEMMA SlotTaken ==
  ASSUME TypeOK, SlotsInv, NEW c \in Call, at[c] = "in"
  PROVE  /\ active \in Nat \ {0}
         /\ IsFiniteSet(Inside \ {c}) /\ Cardinality(Inside \ {c}) = active - 1
<1>1. c \in Inside /\ IsFiniteSet(Inside) /\ active = Cardinality(Inside)
  BY DEF Inside, SlotsInv
<1>2. IsFiniteSet(Inside \ {c}) /\ Cardinality(Inside \ {c}) = Cardinality(Inside) - 1
  BY <1>1, FS_RemoveElement
<1>3. Cardinality(Inside \ {c}) \in Nat /\ Cardinality(Inside) \in Nat
  BY <1>1, <1>2, FS_CardinalityType
<1> QED BY <1>1, <1>2, <1>3

(* The calls that take part in nothing the controller knows of. *)
LEMMA ElsewhereKeepsSlots ==
  ASSUME TypeOK, SlotsInv, NEW c \in Call, NEW to \in Place, Goes(c, to),
         at[c] \notin {"in", "queued", "woken"}, to \notin {"in", "queued"},
         UNCHANGED <<active, queue>>
  PROVE  SlotsInv'
<1>1. Inside' = Inside
  BY DEF Inside, Goes, TypeOK
<1>2. \A i \in 1 .. Len(queue) : queue[i] \in Call
  BY DEF TypeOK
<1>3. \A i \in 1 .. Len(queue') : at'[queue'[i]] = "queued"
  BY <1>2 DEF SlotsInv, Goes, TypeOK
<1>4. WaiterHasWaker'
  BY DEF SlotsInv, WaiterHasWaker, Goes, TypeOK
<1> QED BY <1>1, <1>3, <1>4 DEF SlotsInv

LEMMA EnterKeepsSlots ==
  ASSUME TypeOK, SlotsInv, NEW c \in Call, at[c] \in {"recording", "woken"}, Enter(c),
         UNCHANGED queue
  PROVE  SlotsInv'
<1>1. Inside' = Inside \cup {c} /\ c \notin Inside
  BY DEF Inside, Enter, Goes, TypeOK
<1>2. IsFiniteSet(Inside') /\ active' = Cardinality(Inside')
  <2>1. IsFiniteSet(Inside \cup {c}) /\ Cardinality(Inside \cup {c}) = Cardinality(Inside) + 1
    BY <1>1, FS_AddElement DEF SlotsInv
  <2> QED BY <1>1, <2>1 DEF Enter, SlotsInv
<1>3. \A i \in 1 .. Len(queue) : queue[i] \in Call
  BY DEF TypeOK
<1>4. \A i \in 1 .. Len(queue') : at'[queue'[i]] = "queued"
  BY <1>3 DEF SlotsInv, Enter, Goes, TypeOK
<1>5. WaiterHasWaker'
  <2>1. c \in DOMAIN at' /\ at'[c] = "in"
    BY DEF Enter, Goes, TypeOK
  <2> QED BY <2>1 DEF WaiterHasWaker
<1> QED BY <1>2, <1>4, <1>5 DEF SlotsInv

(* The queue, as far as the lemmas below speak of it. *)
LEMMA QueueFacts ==
  ASSUME TypeOK, SlotsInv
  PROVE  /\ queue \in Seq(Call) /\ at \in [Call -> Place]
         /\ \A i \in 1 .. Len(queue) : queue[i] \in Call /\ at[queue[i]] = "queued"
         /\ \A i, j \in 1 .. Len(queue) : queue[i] = queue[j] => i = j
<1>1. queue \in Seq(Call) /\ at \in [Call -> Place]
  BY DEF TypeOK
<1>2. \A i \in 1 .. Len(queue) : queue[i] \in Call
  BY <1>1
<1> QED BY <1>1, <1>2 DEF SlotsInv

(* Every slot is taken by somebody who wakes the call that queues. *)
LEMMA QueueKeepsSlots ==
  ASSUME TypeOK, SlotsInv, NEW c \in Call, at[c] = "recording", active >= MaxConcurrent,
         Goes(c, "queued"), queue' = Append(queue, c), UNCHANGED active
  PROVE  SlotsInv'
<1>1. Inside' = Inside
  BY DEF Inside, Goes, TypeOK
<1>2. \A i \in 1 .. Len(queue) : queue[i] \in Call /\ queue[i] # c /\ at[queue[i]] = "queued"
  BY QueueFacts
<1>3. /\ Len(queue') = Len(queue) + 1 /\ queue'[Len(queue) + 1] = c /\ Len(queue) \in Nat
      /\ \A i \in 1 .. Len(queue) : queue'[i] = queue[i]
  BY QueueFacts
<1>4. \A i \in 1 .. Len(queue') : at'[queue'[i]] = "queued"
  <2> SUFFICES ASSUME NEW i \in 1 .. Len(queue') PROVE at'[queue'[i]] = "queued"
    OBVIOUS
  <2>1. CASE i = Len(queue) + 1
    BY <1>3, <2>1, QueueFacts DEF Goes
  <2>2. CASE i \in 1 .. Len(queue)
    BY <1>2, <1>3, <2>2, QueueFacts DEF Goes
  <2> QED BY <1>3, <2>1, <2>2
<1>5. \A i, j \in 1 .. Len(queue') : queue'[i] = queue'[j] => i = j
  <2> SUFFICES ASSUME NEW i \in 1 .. Len(queue'), NEW j \in 1 .. Len(queue'), queue'[i] = queue'[j]
               PROVE  i = j
    OBVIOUS
  <2>1. CASE i \in 1 .. Len(queue) /\ j \in 1 .. Len(queue)
    BY <1>3, <2>1, QueueFacts
  <2>2. CASE i = Len(queue) + 1 \/ j = Len(queue) + 1
    BY <1>2, <1>3, <2>2
  <2> QED BY <1>3, <2>1, <2>2
<1>6. PICK d \in Inside : TRUE
  <2>1. Inside # {}
    <3>1. active \in Nat /\ active > 0 /\ active = Cardinality(Inside)
      BY DEF TypeOK, SlotsInv
    <3>2. ASSUME Inside = {} PROVE Cardinality(Inside) = 0
      BY <3>2, FS_EmptySet
    <3> QED BY <3>1, <3>2
  <2> QED BY <2>1
<1>7. WaiterHasWaker'
  <2>1. d \in DOMAIN at' /\ at'[d] = "in"
    BY <1>1, <1>6 DEF Inside, Goes, TypeOK
  <2> QED BY <2>1 DEF WaiterHasWaker
<1> QED BY <1>1, <1>4, <1>5, <1>7 DEF SlotsInv

LEMMA LeaveKeepsSlots ==
  ASSUME TypeOK, SlotsInv, NEW c \in Call, at[c] = "in", Leave(c)
  PROVE  SlotsInv' /\ at' \in [Call -> Place] /\ active' \in Nat /\ queue' \in Seq(Call)
<1>1. /\ active \in Nat \ {0} /\ active' = active - 1
      /\ IsFiniteSet(Inside \ {c}) /\ Cardinality(Inside \ {c}) = active - 1
  BY SlotTaken DEF Leave
<1>2. \A i \in 1 .. Len(queue) : queue[i] \in Call /\ queue[i] # c /\ at[queue[i]] = "queued"
  BY QueueFacts
<1>3. CASE queue = <<>>
  <2>1. at' = [at EXCEPT ![c] = "done"] /\ queue' = <<>>
    BY <1>3 DEF Leave, Goes
  <2>2. Inside' = Inside \ {c}
    BY <2>1 DEF Inside, TypeOK
  <2>3. at' \in [Call -> Place] /\ WaiterHasWaker' /\ Len(queue') = 0
    BY <2>1 DEF TypeOK, Place, WaiterHasWaker
  <2> QED BY <1>1, <2>1, <2>2, <2>3 DEF SlotsInv
<1>4. CASE queue # <<>>
  <2> DEFINE h == Head(queue)
  <2>1. at' = [at EXCEPT ![c] = "done", ![h] = "woken"] /\ queue' = Tail(queue)
    BY <1>4 DEF Leave
  <2>2. h = queue[1] /\ h \in Call /\ h # c /\ at[h] = "queued" /\ 1 \in 1 .. Len(queue)
    BY <1>2, <1>4, QueueFacts
  <2>3. /\ queue' \in Seq(Call) /\ Len(queue') = Len(queue) - 1
        /\ \A i \in 1 .. Len(queue') : queue'[i] = queue[i + 1] /\ i + 1 \in 1 .. Len(queue) \ {1}
    BY <1>4, <2>1, QueueFacts
  <2> HIDE DEF h
  <2>4. at' \in [Call -> Place]
    BY <2>1, <2>2 DEF TypeOK, Place
  <2>5. Inside' = Inside \ {c}
    BY <2>1, <2>2 DEF Inside, TypeOK
  <2>6. \A i \in 1 .. Len(queue') : queue'[i] # h
    BY <2>2, <2>3, QueueFacts
  <2>7. \A i \in 1 .. Len(queue') : at'[queue'[i]] = "queued"
    <3> SUFFICES ASSUME NEW i \in 1 .. Len(queue') PROVE at'[queue'[i]] = "queued"
      OBVIOUS
    <3>1. queue'[i] \in Call /\ queue'[i] # c /\ queue'[i] # h /\ at[queue'[i]] = "queued"
      BY <1>2, <2>3, <2>6
    <3> QED BY <2>1, <3>1, QueueFacts
  <2>8. \A i, j \in 1 .. Len(queue') : queue'[i] = queue'[j] => i = j
    <3> SUFFICES ASSUME NEW i \in 1 .. Len(queue'), NEW j \in 1 .. Len(queue'), queue'[i] = queue'[j]
                 PROVE  i = j
      OBVIOUS
    <3>1. i + 1 \in 1 .. Len(queue) /\ j + 1 \in 1 .. Len(queue) /\ queue[i + 1] = queue[j + 1]
      BY <2>3
    <3>2. i + 1 = j + 1
      BY <3>1, QueueFacts
    <3> QED BY <3>2
  <2>9. WaiterHasWaker'
    <3>1. h \in DOMAIN at' /\ at'[h] = "woken"
      BY <2>1, <2>2 DEF TypeOK
    <3> QED BY <3>1 DEF WaiterHasWaker
  <2> QED BY <1>1, <2>3, <2>4, <2>5, <2>7, <2>8, <2>9 DEF SlotsInv
<1> QED BY <1>3, <1>4

-----------------------------------------------------------------------------
(* Types and slots, one step per action *)

Counted == TypeOK /\ SlotsInv

LEMMA CountedInit == Init => Counted
<1> SUFFICES ASSUME Init PROVE Counted
  OBVIOUS
<1>1. TypeOK
  BY DEF Init, TypeOK, Place, PlanState
<1>2. Inside = {}
  BY DEF Init, Inside
<1>3. SlotsInv
  BY <1>2, FS_EmptySet DEF Init, SlotsInv, WaiterHasWaker
<1> QED BY <1>1, <1>3 DEF Counted

LEMMA CountedStep == Counted /\ [Next]_vars => Counted'
<1> SUFFICES ASSUME TypeOK, SlotsInv, [Next]_vars PROVE TypeOK' /\ SlotsInv'
  BY DEF Counted
<1> USE DEF planVars, slotVars
<1>0. ASSUME UNCHANGED <<at, active, queue>> PROVE SlotsInv'
  BY <1>0 DEF SlotsInv, Inside, WaiterHasWaker
<1>1. ASSUME NEW c \in Call, Execute(c) PROVE TypeOK' /\ SlotsInv'
  <2>1. at' \in [Call -> Place] /\ admitted' \in [Call -> 0 .. MaxEpoch]
    <3>1. at' = [at EXCEPT ![c] = "waiting"] \/ at' = [at EXCEPT ![c] = "admitting"]
      BY <1>1 DEF Execute, Goes
    <3>2. admitted' = [admitted EXCEPT ![c] = epoch] /\ epoch \in 0 .. MaxEpoch
      BY <1>1 DEF Execute, TypeOK
    <3> QED BY <3>1, <3>2 DEF TypeOK, Place
  <2>2. planned' \in [Call -> 0 .. MaxEpoch] /\ plan' \in [Call -> PlanState]
    <3>1. CASE c \in Guarded
      <4>1. /\ planned' = [planned EXCEPT ![c] = epoch] /\ epoch \in 0 .. MaxEpoch
            /\ plan' = [plan EXCEPT ![c] = "waiting_for_permission"]
        BY <1>1, <3>1 DEF Execute, TypeOK
      <4> QED BY <4>1 DEF TypeOK, PlanState
    <3>2. CASE c \notin Guarded
      BY <1>1, <3>2 DEF Execute, TypeOK
    <3> QED BY <3>1, <3>2
  <2>3. SlotsInv'
    BY <1>1, ElsewhereKeepsSlots DEF Execute, Place
  <2>4. UNCHANGED <<body, tries, epoch, rebuilt, read, finals, verdict, answer, slotVars>>
    BY <1>1 DEF Execute
  <2> QED BY <2>1, <2>2, <2>3, <2>4 DEF TypeOK
<1>2. ASSUME NEW c \in Call, Answered(c) PROVE TypeOK' /\ SlotsInv'
  <2>1. TypeOK'
    BY <1>2 DEF Answered, Goes, TypeOK, Place
  <2>2. SlotsInv'
    BY <1>2, ElsewhereKeepsSlots DEF Answered, Place
  <2> QED BY <2>1, <2>2
<1>3. ASSUME NEW c \in Call, MarkLoads(c) PROVE TypeOK' /\ SlotsInv'
  <2>1. TypeOK'
    BY <1>3 DEF MarkLoads, Goes, TypeOK, Place
  <2>2. SlotsInv'
    BY <1>3, ElsewhereKeepsSlots DEF MarkLoads, Place
  <2> QED BY <2>1, <2>2
<1>4. ASSUME NEW c \in Call, MarkSaves(c) PROVE TypeOK' /\ SlotsInv'
  <2>1. TypeOK'
    BY <1>4 DEF MarkSaves, Goes, TypeOK, Place, PlanState, Terminal
  <2>2. SlotsInv'
    BY <1>4, ElsewhereKeepsSlots DEF MarkSaves, Place
  <2> QED BY <2>1, <2>2
<1>5. ASSUME NEW c \in Call, ResumeLoads(c) PROVE TypeOK' /\ SlotsInv'
  <2>1. TypeOK'
    BY <1>5 DEF ResumeLoads, Goes, TypeOK, Place
  <2>2. SlotsInv'
    BY <1>5, ElsewhereKeepsSlots DEF ResumeLoads, Place
  <2> QED BY <2>1, <2>2
<1>6. ASSUME NEW c \in Call, ResumeSaves(c) PROVE TypeOK' /\ SlotsInv'
  <2>1. TypeOK'
    BY <1>6 DEF ResumeSaves, Goes, TypeOK, Place, PlanState, Terminal
  <2>2. SlotsInv'
    BY <1>6, ElsewhereKeepsSlots DEF ResumeSaves, Place
  <2> QED BY <2>1, <2>2
<1>7. ASSUME NEW c \in Call, Admit(c) PROVE TypeOK' /\ SlotsInv'
  <2>1. TypeOK'
    BY <1>7 DEF Admit, Goes, TypeOK, Place
  <2>2. SlotsInv'
    BY <1>7, ElsewhereKeepsSlots DEF Admit, Place
  <2> QED BY <2>1, <2>2
<1>8. ASSUME NEW c \in Call, Run(c) PROVE TypeOK' /\ SlotsInv'
  <2>1. CASE Enter(c) /\ UNCHANGED queue
    <3>1. TypeOK'
      BY <1>8, <2>1 DEF Run, Enter, Goes, TypeOK, Place
    <3>2. SlotsInv'
      BY <1>8, <2>1, EnterKeepsSlots DEF Run
    <3> QED BY <3>1, <3>2
  <2>2. CASE active >= MaxConcurrent /\ Goes(c, "queued") /\ queue' = Append(queue, c)
                /\ UNCHANGED <<body, active, shell>>
    <3>1. queue' \in Seq(Call) /\ at' \in [Call -> Place]
      BY <2>2, QueueFacts DEF Goes, Place
    <3>2. TypeOK'
      BY <1>8, <2>2, <3>1 DEF Run, TypeOK
    <3> QED BY <1>8, <2>2, <3>2, QueueKeepsSlots DEF Run
  <2> QED BY <1>8, <2>1, <2>2 DEF Run
<1>9. ASSUME NEW c \in Call, Continue(c) PROVE TypeOK' /\ SlotsInv'
  <2>1. TypeOK'
    BY <1>9 DEF Continue, Enter, Goes, TypeOK, Place
  <2>2. SlotsInv'
    BY <1>9, EnterKeepsSlots DEF Continue
  <2> QED BY <2>1, <2>2
<1>10. ASSUME NEW c \in Call, at[c] = "in", Leave(c) PROVE TypeOK' /\ SlotsInv'
  <2>1. SlotsInv' /\ at' \in [Call -> Place] /\ active' \in Nat /\ queue' \in Seq(Call)
    BY <1>10, LeaveKeepsSlots
  <2>2. TypeOK'
    BY <1>10, <2>1 DEF Leave, TypeOK
  <2> QED BY <2>1, <2>2
<1>11. ASSUME NEW c \in Call, CallEnds(c) \/ CallFails(c) \/ BackoffEnds(c) PROVE TypeOK' /\ SlotsInv'
  <2>0. /\ body \in [Call -> {"none", "calling", "backoff", "over"}]
        /\ tries \in [Call -> 0 .. 2]
    BY DEF TypeOK
  <2>1. body' \in [Call -> {"none", "calling", "backoff", "over"}] /\ tries' \in [Call -> 0 .. 2]
    BY <1>11, <2>0 DEF CallEnds, CallFails, BackoffEnds, BodyGoes
  <2>2. UNCHANGED <<at, epoch, admitted, planVars, finals, verdict, answer, slotVars>>
    BY <1>11 DEF CallEnds, CallFails, BackoffEnds, BodyGoes
  <2> QED BY <1>0, <2>1, <2>2 DEF TypeOK
<1>12. ASSUME NEW c \in Guarded, NEW to \in Outcome, BeginFinalize(c, to) PROVE TypeOK' /\ SlotsInv'
  <2>1. [call |-> c, to |-> to, stage |-> "begun", read |-> "none", first |-> FALSE] \in Final
    BY <1>12 DEF Final, PlanState
  <2>2. TypeOK'
    BY <1>12, <2>1 DEF BeginFinalize, TypeOK
  <2> QED BY <1>0, <1>12, <2>2 DEF BeginFinalize
<1>13. ASSUME NEW f \in finals, FinalStep(f) PROVE TypeOK' /\ SlotsInv'
  <2>1. f \in Final /\ f.call \in Call /\ f.to \in Outcome
    BY <1>13 DEF TypeOK, Final
  <2>2. CASE Decide(f)
    <3>1. (verdict[f.call] = "open") \in BOOLEAN
      OBVIOUS
    <3>2. [f EXCEPT !.stage = "decided", !.first = (verdict[f.call] = "open")] \in Final
      BY <2>1, <3>1 DEF Final
    <3>3. TypeOK'
      BY <2>1, <2>2, <3>2 DEF Decide, Steps, TypeOK
    <3> QED BY <1>0, <2>2, <3>3 DEF Decide
  <2>3. CASE FinalLoads(f)
    <3>1. [f EXCEPT !.stage = "loaded", !.read = plan[f.call]] \in Final
      BY <2>1 DEF Final, TypeOK
    <3>2. TypeOK'
      BY <2>3, <3>1 DEF FinalLoads, Steps, TypeOK
    <3> QED BY <1>0, <2>3, <3>2 DEF FinalLoads
  <2>4. CASE FinalSaves(f)
    <3>1. TypeOK'
      BY <2>1, <2>4 DEF FinalSaves, TypeOK, PlanState, Outcome, Terminal
    <3> QED BY <1>0, <2>4, <3>1 DEF FinalSaves
  <2> QED BY <1>13, <2>2, <2>3, <2>4 DEF FinalStep
<1>14. CASE HostMoves
  <2>1. TypeOK'
    BY <1>14 DEF HostMoves, TypeOK
  <2> QED BY <1>0, <1>14, <2>1 DEF HostMoves
<1>15. CASE UNCHANGED vars
  <2>1. TypeOK'
    BY <1>15 DEF vars, TypeOK
  <2> QED BY <1>0, <1>15, <2>1 DEF vars
<1> QED
  BY <1>1, <1>2, <1>3, <1>4, <1>5, <1>6, <1>7, <1>8, <1>9, <1>10, <1>11, <1>12, <1>13, <1>14, <1>15
     DEF Next, ExecutorStep, Returns, TimesOut

(* Type correctness (TypeOK). *)
THEOREM ToolTypeCorrect == Spec => []TypeOK
<1>1. Counted => TypeOK
  BY DEF Counted
<1> QED BY <1>1, CountedInit, CountedStep, PTL DEF Spec

(* WaiterHasWaker: as long as a call queues there is one that leaves or has *)
(* been woken, so the run of continuations never loses the last wakeup.    *)
THEOREM WakersStay == Spec => []WaiterHasWaker
<1>1. Counted => WaiterHasWaker
  BY DEF Counted, SlotsInv
<1> QED BY <1>1, CountedInit, CountedStep, PTL DEF Spec

-----------------------------------------------------------------------------
(* Approvals *)

Beyond == {"admitting", "recording", "queued", "woken", "in", "done"}

(* The finalization that has the session speaks for the record; a call is  *)
(* told yes only of an approved record, and it comes past the comparison   *)
(* of its plan only after that.                                            *)
FirstDecides == \A f \in finals : f.first /\ f.stage # "begun" => verdict[f.call] = f.to
YesIsApproved == \A c \in Call : answer[c] = "yes" => verdict[c] = "approved"
ApprovedOnTheWay ==
  \A c \in Guarded : at[c] \in {"marking", "approving", "resuming", "matching"} => answer[c] = "yes"
MatchedBeyond == \A c \in Guarded : at[c] \in Beyond => answer[c] = "yes" /\ planned[c] = rebuilt[c]
CallsBeyond == \A c \in Call : body[c] # "none" => at[c] \in {"in", "done"}

ApprovalInv ==
  FirstDecides /\ YesIsApproved /\ ApprovedOnTheWay /\ MatchedBeyond /\ CallsBeyond

LEMMA ApprovalInit == Init => ApprovalInv
<1> SUFFICES ASSUME Init PROVE ApprovalInv
  OBVIOUS
<1> QED
  BY DEF Init, ApprovalInv, FirstDecides, YesIsApproved, ApprovedOnTheWay, MatchedBeyond,
         CallsBeyond, Beyond

(* What a step of call c has to keep: the other calls stay where they are, *)
(* or are woken.                                                           *)
Sound(c) ==
  /\ c \in Guarded =>
       /\ at'[c] \in {"marking", "approving", "resuming", "matching"} => answer[c] = "yes"
       /\ at'[c] \in Beyond => answer[c] = "yes" /\ planned'[c] = rebuilt'[c]
  /\ body'[c] # "none" => at'[c] \in {"in", "done"}
Aside(c) ==
  \A d \in Call \ {c} :
    /\ at'[d] = at[d] \/ (at[d] = "queued" /\ at'[d] = "woken")
    /\ body'[d] = body[d] /\ planned'[d] = planned[d] /\ rebuilt'[d] = rebuilt[d]

LEMMA OneCallMoves ==
  ASSUME TypeOK, ApprovalInv, NEW c \in Call, UNCHANGED <<finals, verdict, answer>>,
         Sound(c), Aside(c)
  PROVE  ApprovalInv'
<1>1. FirstDecides' /\ YesIsApproved'
  BY DEF ApprovalInv, FirstDecides, YesIsApproved
<1>2. Guarded \subseteq Call
  OBVIOUS
<1>3. ApprovedOnTheWay'
  BY <1>2 DEF ApprovalInv, ApprovedOnTheWay, Sound, Aside
<1>4. MatchedBeyond'
  BY <1>2 DEF ApprovalInv, MatchedBeyond, Sound, Aside, Beyond
<1>5. CallsBeyond'
  BY DEF ApprovalInv, CallsBeyond, Sound, Aside
<1> QED BY <1>1, <1>3, <1>4, <1>5 DEF ApprovalInv

(* The executor's steps: no finalization and no record changes.            *)
LEMMA ExecutorKeepsApprovals ==
  ASSUME TypeOK, SlotsInv, ApprovalInv, NEW c \in Call,
         Execute(c) \/ ExecutorStep(c) \/ TimesOut(c) \/ CallEnds(c) \/ CallFails(c) \/ BackoffEnds(c)
  PROVE  ApprovalInv'
<1> USE DEF planVars, slotVars
<1>1. UNCHANGED <<finals, verdict, answer>>
  BY DEF Execute, ExecutorStep, Answered, MarkLoads, MarkSaves, ResumeLoads, ResumeSaves, Admit,
         Run, Continue, Returns, TimesOut, Enter, Leave, CallEnds, CallFails, BackoffEnds, BodyGoes
<1>2. /\ at \in [Call -> Place] /\ body \in [Call -> {"none", "calling", "backoff", "over"}]
      /\ planned \in [Call -> 0 .. MaxEpoch] /\ rebuilt \in [Call -> 0 .. MaxEpoch]
  BY DEF TypeOK
<1>3. /\ c \in Guarded =>
           /\ at[c] \in {"marking", "approving", "resuming", "matching"} => answer[c] = "yes"
           /\ at[c] \in Beyond => answer[c] = "yes" /\ planned[c] = rebuilt[c]
      /\ body[c] # "none" => at[c] \in {"in", "done"}
  BY DEF ApprovalInv, ApprovedOnTheWay, MatchedBeyond, CallsBeyond
<1> USE DEF Sound, Aside, Beyond, Goes
<1>4. CASE Execute(c)
  <2>1. Sound(c) /\ Aside(c)
    BY <1>2, <1>3, <1>4 DEF Execute
  <2> QED BY <1>1, <2>1, OneCallMoves
<1>5. CASE Answered(c)
  <2>1. Sound(c) /\ Aside(c)
    BY <1>2, <1>3, <1>5 DEF Answered
  <2> QED BY <1>1, <2>1, OneCallMoves
<1>6. CASE MarkLoads(c)
  <2>1. Sound(c) /\ Aside(c)
    BY <1>2, <1>3, <1>6 DEF MarkLoads
  <2> QED BY <1>1, <2>1, OneCallMoves
<1>7. CASE MarkSaves(c)
  <2>1. Sound(c) /\ Aside(c)
    BY <1>2, <1>3, <1>7 DEF MarkSaves
  <2> QED BY <1>1, <2>1, OneCallMoves
<1>8. CASE ResumeLoads(c)
  <2>1. Sound(c) /\ Aside(c)
    BY <1>2, <1>3, <1>8 DEF ResumeLoads
  <2> QED BY <1>1, <2>1, OneCallMoves
<1>9. CASE ResumeSaves(c)
  <2>1. Sound(c) /\ Aside(c)
    BY <1>2, <1>3, <1>9 DEF ResumeSaves
  <2> QED BY <1>1, <2>1, OneCallMoves
<1>10. CASE Admit(c)
  <2>1. Sound(c) /\ Aside(c)
    BY <1>2, <1>3, <1>10 DEF Admit
  <2> QED BY <1>1, <2>1, OneCallMoves
<1>11. CASE Run(c) \/ Continue(c)
  <2>1. \/ at' = [at EXCEPT ![c] = "in"] /\ body' = [body EXCEPT ![c] = "calling"]
        \/ at' = [at EXCEPT ![c] = "queued"] /\ body' = body
    BY <1>11 DEF Run, Continue, Enter
  <2>2. at[c] \in {"recording", "woken"} /\ UNCHANGED <<planned, rebuilt>>
    BY <1>11 DEF Run, Continue
  <2>3. Sound(c) /\ Aside(c)
    BY <1>2, <1>3, <2>1, <2>2
  <2> QED BY <1>1, <2>3, OneCallMoves
<1>12. CASE Returns(c) \/ TimesOut(c)
  <2>1. at[c] = "in" /\ Leave(c) /\ UNCHANGED <<planned, rebuilt, body>>
    BY <1>12 DEF Returns, TimesOut, Leave
  <2>2. CASE queue = <<>>
    <3>1. at' = [at EXCEPT ![c] = "done"]
      BY <2>1, <2>2 DEF Leave
    <3>2. Sound(c) /\ Aside(c)
      BY <1>2, <1>3, <2>1, <3>1
    <3> QED BY <1>1, <3>2, OneCallMoves
  <2>3. CASE queue # <<>>
    <3>1. at' = [at EXCEPT ![c] = "done", ![Head(queue)] = "woken"]
      BY <2>1, <2>3 DEF Leave
    <3>2. Head(queue) \in Call /\ at[Head(queue)] = "queued"
      <4>1. Head(queue) = queue[1] /\ 1 \in 1 .. Len(queue)
        BY <2>3, QueueFacts
      <4> QED BY <4>1, QueueFacts
    <3>3. Sound(c) /\ Aside(c)
      BY <1>2, <1>3, <2>1, <3>1, <3>2
    <3> QED BY <1>1, <3>3, OneCallMoves
  <2> QED BY <2>2, <2>3
<1>13. CASE CallEnds(c) \/ CallFails(c) \/ BackoffEnds(c)
  <2>1. /\ body[c] # "none" /\ UNCHANGED <<at, planned, rebuilt>>
        /\ \E to \in {"over", "backoff", "calling"} : body' = [body EXCEPT ![c] = to]
    BY <1>13 DEF CallEnds, CallFails, BackoffEnds, BodyGoes
  <2>2. Sound(c) /\ Aside(c)
    BY <1>2, <1>3, <2>1
  <2> QED BY <1>1, <2>2, OneCallMoves
<1> QED
  BY <1>4, <1>5, <1>6, <1>7, <1>8, <1>9, <1>10, <1>11, <1>12, <1>13 DEF ExecutorStep

(* The finalizations: a reply, the timer, and each of their steps.         *)
LEMMA FinalsKeepApprovals ==
  ASSUME TypeOK, ApprovalInv, NEW f \in finals, FinalStep(f)
  PROVE  ApprovalInv'
<1> USE DEF planVars, slotVars
<1>1. f \in Final /\ f.call \in Call /\ f.to \in Outcome /\ Guarded \subseteq Call /\ finals \subseteq Final
  BY DEF TypeOK, Final
<1>2. \A h \in finals : h.call \in Call /\ h.to \in Outcome /\ h.first \in BOOLEAN
  BY <1>1 DEF Final
<1>3. /\ UNCHANGED <<at, body, planned, rebuilt>>
      /\ verdict \in [Call -> Outcome \cup {"open"}] /\ answer \in [Call -> {"none", "yes", "no"}]
  BY DEF FinalStep, Decide, FinalLoads, FinalSaves, TypeOK
<1>4. CASE Decide(f)
  <2> DEFINE g == [f EXCEPT !.stage = "decided", !.first = (verdict[f.call] = "open")]
  <2>1. /\ finals' = (finals \ {f}) \cup {g} /\ UNCHANGED answer
        /\ verdict' = [verdict EXCEPT ![f.call] = IF @ = "open" THEN f.to ELSE @]
    BY <1>4 DEF Decide, Steps
  <2>2. g.call = f.call /\ g.to = f.to /\ (g.first <=> verdict[f.call] = "open")
    BY <1>1 DEF Final
  <2> HIDE DEF g
  <2>3. "open" \notin Outcome
    BY DEF Outcome
  <2>4. \A c \in Call : verdict[c] # "open" => verdict'[c] = verdict[c]
    BY <1>1, <1>3, <2>1
  <2>5. g.first => verdict'[g.call] = g.to
    BY <1>1, <1>3, <2>1, <2>2
  <2>6. FirstDecides'
    <3> SUFFICES ASSUME NEW h \in finals', h.first, h.stage # "begun" PROVE verdict'[h.call] = h.to
      BY DEF FirstDecides
    <3>1. CASE h = g
      BY <2>5, <3>1
    <3>2. CASE h \in finals
      BY <1>2, <2>3, <2>4, <3>2 DEF ApprovalInv, FirstDecides
    <3> QED BY <2>1, <3>1, <3>2
  <2>7. YesIsApproved'
    BY <1>3, <2>1, <2>4 DEF ApprovalInv, YesIsApproved
  <2>8. ApprovedOnTheWay' /\ MatchedBeyond' /\ CallsBeyond'
    BY <1>3, <2>1 DEF ApprovalInv, ApprovedOnTheWay, MatchedBeyond, CallsBeyond
  <2> QED BY <2>6, <2>7, <2>8 DEF ApprovalInv
<1>5. CASE FinalLoads(f)
  <2> DEFINE g == [f EXCEPT !.stage = "loaded", !.read = plan[f.call]]
  <2>1. finals' = (finals \ {f}) \cup {g} /\ UNCHANGED <<answer, verdict>> /\ f.stage = "decided"
    BY <1>5 DEF FinalLoads, Steps
  <2>2. g.call = f.call /\ g.to = f.to /\ g.first = f.first
    BY <1>1 DEF Final
  <2> HIDE DEF g
  <2>3. f.first => verdict[f.call] = f.to
    BY <2>1 DEF ApprovalInv, FirstDecides
  <2>4. FirstDecides'
    BY <2>1, <2>2, <2>3 DEF ApprovalInv, FirstDecides
  <2> QED
    BY <1>3, <2>1, <2>4
       DEF ApprovalInv, YesIsApproved, ApprovedOnTheWay, MatchedBeyond, CallsBeyond
<1>6. CASE FinalSaves(f)
  <2>1. finals' = finals \ {f} /\ UNCHANGED verdict /\ f.stage = "loaded"
    BY <1>6 DEF FinalSaves
  <2>2. f.first => verdict[f.call] = f.to
    BY <2>1 DEF ApprovalInv, FirstDecides
  <2>3. \A c \in Call : answer'[c] = "yes" => verdict[c] = "approved"
    <3>1. CASE f.first
      BY <1>1, <1>3, <1>6, <2>2, <3>1 DEF FinalSaves, ApprovalInv, YesIsApproved
    <3>2. CASE ~f.first
      BY <1>6, <3>2 DEF FinalSaves, ApprovalInv, YesIsApproved
    <3> QED BY <3>1, <3>2
  <2>4. \A c \in Call : answer[c] = "yes" => answer'[c] = "yes"
    <3>1. CASE f.first
      <4>1. answer' = [answer EXCEPT ![f.call] = IF f.to = "approved" THEN "yes" ELSE "no"]
        BY <1>6, <3>1 DEF FinalSaves
      <4>2. answer[f.call] = "yes" => f.to = "approved"
        BY <1>1, <2>2, <3>1 DEF ApprovalInv, YesIsApproved
      <4> QED BY <1>1, <1>3, <4>1, <4>2
    <3>2. CASE ~f.first
      BY <1>6, <3>2 DEF FinalSaves
    <3> QED BY <3>1, <3>2
  <2>5. FirstDecides' /\ YesIsApproved'
    BY <2>1, <2>3 DEF ApprovalInv, FirstDecides, YesIsApproved
  <2>6. ApprovedOnTheWay' /\ MatchedBeyond' /\ CallsBeyond'
    BY <1>1, <1>3, <2>4 DEF ApprovalInv, ApprovedOnTheWay, MatchedBeyond, CallsBeyond
  <2> QED BY <2>5, <2>6 DEF ApprovalInv
<1> QED BY <1>4, <1>5, <1>6 DEF FinalStep

LEMMA ApprovalStep == Counted /\ ApprovalInv /\ [Next]_vars => ApprovalInv'
<1> SUFFICES ASSUME TypeOK, SlotsInv, ApprovalInv, [Next]_vars PROVE ApprovalInv'
  BY DEF Counted
<1> USE DEF planVars, slotVars
<1>1. ASSUME NEW c \in Guarded, NEW to \in Outcome, BeginFinalize(c, to) PROVE ApprovalInv'
  <2> DEFINE g == [call |-> c, to |-> to, stage |-> "begun", read |-> "none", first |-> FALSE]
  <2>1. /\ finals' = finals \cup {g} /\ g.stage = "begun"
        /\ UNCHANGED <<at, body, planned, rebuilt, verdict, answer>>
    BY <1>1 DEF BeginFinalize
  <2> HIDE DEF g
  <2> QED
    BY <2>1 DEF ApprovalInv, FirstDecides, YesIsApproved, ApprovedOnTheWay, MatchedBeyond, CallsBeyond
<1>2. CASE HostMoves \/ UNCHANGED vars
  <2>1. UNCHANGED <<at, body, planned, rebuilt, verdict, answer, finals>>
    BY <1>2 DEF HostMoves, vars
  <2> QED
    BY <2>1 DEF ApprovalInv, FirstDecides, YesIsApproved, ApprovedOnTheWay, MatchedBeyond, CallsBeyond
<1> QED
  BY <1>1, <1>2, ExecutorKeepsApprovals, FinalsKeepApprovals DEF Next

(* ApprovedAsPlanned: whoever decides an approval first, whichever marks   *)
(* of the plan are overwritten and however often the host state moves on,  *)
(* a call that needs an approval is made only as it was approved.          *)
THEOREM CallsAreApproved == Spec => []ApprovedAsPlanned
<1>1. TypeOK /\ ApprovalInv => ApprovedAsPlanned
  <2> SUFFICES ASSUME TypeOK, ApprovalInv, NEW c \in Guarded, body[c] # "none"
               PROVE  verdict[c] = "approved" /\ planned[c] = rebuilt[c]
    BY DEF ApprovedAsPlanned
  <2>1. c \in Call
    OBVIOUS
  <2>2. at[c] \in Beyond
    BY <2>1 DEF ApprovalInv, CallsBeyond, Beyond
  <2> QED BY <2>1, <2>2 DEF ApprovalInv, MatchedBeyond, YesIsApproved
<1>2. Counted => TypeOK
  BY DEF Counted
<1> QED BY <1>1, <1>2, CountedInit, CountedStep, ApprovalInit, ApprovalStep, PTL DEF Spec

-----------------------------------------------------------------------------
(* The pipeline that its own process recovers (MCTools, Alone) *)

Status  == {"none", "running", "completed", "failed", "interrupted"}
Verdict == {"pass", "fail"}
Record  == [status : Status, index : 0 .. Stages + 1,
            done : Seq([stage : 0 .. Stages + 1, verdict : Verdict])]

(* A record has an entry for each stage before its index. *)
Whole(r) == r \in Record /\ (r.status # "none" => r.index >= 1 /\ Len(r.done) = r.index - 1)

(* The run may go on from the record on disk. *)
Resumable == saved.status \in {"running", "interrupted"}

(* From restoreState to the last save the executor's copy agrees with the  *)
(* record on disk about the stages that are behind.                        *)
Working == pc \in {"resuming", "stage", "attempt", "asking", "recording", "failing", "denied"}

CopyAgrees ==
  /\ Working => Resumable /\ state.index = saved.index /\ state.done = saved.done
  /\ Working => state.status = IF pc = "denied" THEN "failed" ELSE "running"
  /\ pc = "starting" => state = Alone!Fresh
  /\ pc \in {"attempt", "asking", "recording"} => state.index <= Stages
  /\ pc = "recording" => outcome \in Verdict

(* What the history says was saved is what the record is to be resumed at. *)
HistoryAgrees == Resumable => kept = 1 .. (saved.index - 1)

PipelineInv ==
  /\ Whole(saved) /\ Whole(state) /\ other = Alone!NoRecord
  /\ CopyAgrees /\ HistoryAgrees /\ redone = {} /\ Alone!CompletedIsWhole

LEMMA FreshRecord ==
  /\ Whole(Alone!Fresh) /\ Alone!Fresh.status = "running"
  /\ Alone!Fresh.index = 1 /\ Alone!Fresh.done = <<>>
  /\ Whole(Alone!NoRecord) /\ Alone!NoRecord.status = "none"
<1>1. Stages \in Nat \ {0}
  BY Instances DEF Alone!PipelineAssumption
<1>2. <<>> \in Seq([stage : 0 .. Stages + 1, verdict : Verdict]) /\ Len(<<>>) = 0
  OBVIOUS
<1> QED BY <1>1, <1>2 DEF Whole, Record, Status, Alone!Fresh, Alone!NoRecord

(* A record keeps its stages when its status changes. *)
LEMMA StatusChanges ==
  ASSUME NEW r, Whole(r), r.status # "none", NEW status \in Status \ {"none"}
  PROVE  LET q == [r EXCEPT !.status = status]
         IN  Whole(q) /\ q.status = status /\ q.index = r.index /\ q.done = r.done
BY DEF Whole, Record

(* PersistStage: the copy with one more stage. *)
LEMMA StageAdded ==
  ASSUME NEW r, Whole(r), r.status # "none", r.index <= Stages, NEW v \in Verdict
  PROVE  LET q == [r EXCEPT !.index = r.index + 1,
                            !.done = Append(r.done, [stage |-> r.index, verdict |-> v])]
         IN  Whole(q) /\ q.status = r.status /\ q.index = r.index + 1
<1> DEFINE entry == [stage |-> r.index, verdict |-> v]
           done == Append(r.done, entry)
           q == [r EXCEPT !.index = r.index + 1, !.done = done]
<1>1. Stages \in Nat /\ r \in Record /\ r.index \in 1 .. Stages /\ Len(r.done) = r.index - 1
  BY Instances DEF Alone!PipelineAssumption, Whole, Record
<1>2. entry \in [stage : 0 .. Stages + 1, verdict : Verdict]
  BY <1>1
<1>3. /\ done \in Seq([stage : 0 .. Stages + 1, verdict : Verdict])
      /\ Len(done) = Len(r.done) + 1
  BY <1>1, <1>2 DEF Record
<1> HIDE DEF done, entry
<1>4. q \in Record /\ q.status = r.status /\ q.index = r.index + 1 /\ q.done = done
  <2> DEFINE Entries == Seq([stage : 0 .. Stages + 1, verdict : Verdict])
             i == r.index + 1
  <2>1. r \in [status : Status, index : 0 .. Stages + 1, done : Entries] /\ done \in Entries
    BY <1>1, <1>3 DEF Record
  <2>2. i \in 0 .. Stages + 1
    BY <1>1
  <2> HIDE DEF Entries, i
  <2> DEFINE q1 == [r EXCEPT !.index = i]
  <2>3. /\ q1 \in [status : Status, index : 0 .. Stages + 1, done : Entries]
        /\ q1.status = r.status /\ q1.index = i
    BY <2>1, <2>2
  <2>4. q = [q1 EXCEPT !.done = done]
    BY DEF i
  <2> HIDE DEF q, q1
  <2>5. /\ q \in [status : Status, index : 0 .. Stages + 1, done : Entries]
        /\ q.status = q1.status /\ q.index = q1.index /\ q.done = done
    BY <2>1, <2>3, <2>4
  <2> QED BY <2>3, <2>5 DEF Record, Entries, i
<1> HIDE DEF q
<1>5. Len(q.done) = q.index - 1 /\ q.index >= 1
  BY <1>1, <1>3, <1>4
<1>6. Whole(q)
  BY <1>4, <1>5 DEF Whole
<1> QED BY <1>4, <1>6 DEF q, done, entry

LEMMA PipelineStarts == Alone!Init => PipelineInv
BY FreshRecord
   DEF Alone!Init, PipelineInv, CopyAgrees, HistoryAgrees, Working, Resumable, Alone!CompletedIsWhole

LEMMA RestoreKeeps ==
  ASSUME PipelineInv, Alone!Restore
  PROVE  PipelineInv'
<1> USE DEF PipelineInv, CopyAgrees, HistoryAgrees, Working, Resumable, Alone!CompletedIsWhole,
            Alone!ghosts
<1>1. pc = "idle" /\ UNCHANGED <<saved, outcome, other, kept, redone>>
  BY DEF Alone!Restore
<1>2. CASE saved.status = "interrupted"
  <2>1. state' = [saved EXCEPT !.status = "running"] /\ pc' = "resuming"
    BY <1>2 DEF Alone!Restore
  <2>2. Whole(state') /\ state'.status = "running" /\ state'.index = saved.index
        /\ state'.done = saved.done
    BY <1>2, <2>1, StatusChanges DEF Status
  <2> QED BY <1>1, <1>2, <2>1, <2>2 DEF Whole
<1>3. CASE saved.status # "interrupted"
  <2>1. state' = Alone!Fresh /\ pc' = "starting"
    BY <1>3 DEF Alone!Restore
  <2> QED BY <1>1, <2>1, FreshRecord DEF Whole, Alone!Fresh
<1> QED BY <1>2, <1>3

LEMMA PersistStartKeeps ==
  ASSUME PipelineInv, Alone!PersistStart
  PROVE  PipelineInv'
<1> USE DEF PipelineInv, CopyAgrees, HistoryAgrees, Working, Resumable, Alone!CompletedIsWhole,
            Alone!ghosts
<1>1. saved' = state /\ pc' = "stage" /\ UNCHANGED <<state, outcome, other>>
  BY DEF Alone!PersistStart
<1>2. CASE pc = "resuming"
  <2>1. UNCHANGED <<kept, redone>>
    BY <1>2 DEF Alone!PersistStart
  <2> QED BY <1>1, <1>2, <2>1 DEF Whole
<1>3. CASE pc = "starting"
  <2>1. kept' = {} /\ redone' = {} /\ state = Alone!Fresh
    BY <1>3 DEF Alone!PersistStart
  <2>2. 1 .. (1 - 1) = {}
    OBVIOUS
  <2> QED BY <1>1, <1>3, <2>1, <2>2, FreshRecord DEF Whole
<1> QED BY <1>2, <1>3 DEF Alone!PersistStart

LEMMA StageBeginsKeeps ==
  ASSUME PipelineInv, Alone!PlanGate \/ Alone!BeginStage \/ Alone!AskFinalRetry
  PROVE  PipelineInv'
<1> USE DEF PipelineInv, CopyAgrees, HistoryAgrees, Working, Resumable, Alone!CompletedIsWhole,
            Alone!ghosts
<1>1. UNCHANGED <<saved, other, kept, redone>>
  BY DEF Alone!PlanGate, Alone!BeginStage, Alone!AskFinalRetry
<1>2. CASE pc' \in {"attempt", "asking"} /\ UNCHANGED <<state, outcome>>
  <2>1. Working /\ pc # "denied" /\ state.index <= Stages
    BY <1>2 DEF Alone!PlanGate, Alone!BeginStage, Alone!AskFinalRetry, Alone!InStages, Alone!Stage
  <2> QED BY <1>1, <1>2, <2>1
<1>3. CASE Alone!PlanGate /\ pc' = "denied"
  <2>1. pc = "stage" /\ state' = [state EXCEPT !.status = "failed"]
    BY <1>3 DEF Alone!PlanGate, Alone!InStages, Alone!Attempted
  <2>2. Whole(state') /\ state'.status = "failed" /\ state'.index = state.index
        /\ state'.done = state.done
    BY <2>1, StatusChanges DEF Status
  <2> QED BY <1>1, <1>3, <2>1, <2>2
<1>4. CASE Alone!AskFinalRetry /\ pc' = "recording"
  <2>1. pc = "asking" /\ state' = state /\ outcome' = "fail"
    BY <1>4 DEF Alone!AskFinalRetry
  <2> QED BY <1>1, <1>4, <2>1 DEF Verdict
<1> QED
  BY <1>2, <1>3, <1>4 DEF Alone!PlanGate, Alone!BeginStage, Alone!AskFinalRetry, Alone!Attempted

(* The stage that is executed is one behind which nothing was saved. *)
LEMMA AttemptKeeps ==
  ASSUME PipelineInv, Alone!Attempt
  PROVE  PipelineInv'
<1> USE DEF PipelineInv, CopyAgrees, HistoryAgrees, Working, Resumable, Alone!CompletedIsWhole
<1>1. pc = "attempt" /\ UNCHANGED <<saved, state, other, kept>>
  BY DEF Alone!Attempt
<1>2. state.index \notin kept
  <2>1. saved.index \in Int /\ saved.index \notin 1 .. (saved.index - 1)
    BY Instances DEF Alone!PipelineAssumption, Whole, Record
  <2> QED BY <1>1, <2>1
<1>3. redone' = redone
  BY <1>2 DEF Alone!Attempt, Alone!Stage
<1>4. \/ pc' \in {"attempt", "asking"} /\ outcome' = outcome
      \/ pc' = "recording" /\ outcome' \in Verdict
  BY DEF Alone!Attempt, Alone!Attempted, Verdict
<1> QED BY <1>1, <1>3, <1>4

LEMMA PersistStageKeeps ==
  ASSUME PipelineInv, Alone!PersistStage
  PROVE  PipelineInv'
<1> USE DEF PipelineInv, CopyAgrees, HistoryAgrees, Working, Resumable, Alone!CompletedIsWhole
<1> DEFINE q == [state EXCEPT !.index = state.index + 1,
                              !.done = Append(state.done, [stage |-> state.index, verdict |-> outcome])]
<1>1. /\ pc = "recording" /\ pc' \in {"failing", "stage"} /\ state' = q /\ saved' = q
      /\ kept' = kept \cup {state.index} /\ UNCHANGED <<outcome, other, redone>>
  BY DEF Alone!PersistStage, Alone!Stage
<1>2. Whole(q) /\ q.status = "running" /\ q.index = state.index + 1
  BY <1>1, StageAdded
<1> HIDE DEF q
<1>3. kept' = 1 .. (q.index - 1)
  <2>1. state.index \in Nat \ {0} /\ kept = 1 .. (state.index - 1)
    BY <1>1, Instances DEF Whole, Record, Alone!PipelineAssumption
  <2> QED BY <1>1, <1>2, <2>1
<1> QED BY <1>1, <1>2, <1>3

LEMMA RunEndsKeeps ==
  ASSUME PipelineInv,
         Alone!FailNow \/ Alone!PersistFailed \/ Alone!PersistCompleted \/ Alone!Return
  PROVE  PipelineInv'
<1> USE DEF PipelineInv, CopyAgrees, HistoryAgrees, Working, Resumable, Alone!CompletedIsWhole,
            Alone!ghosts
<1>1. CASE Alone!FailNow
  <2>1. /\ pc = "failing" /\ pc' = "denied" /\ state' = [state EXCEPT !.status = "failed"]
        /\ UNCHANGED <<saved, outcome, other, kept, redone>>
    BY <1>1 DEF Alone!FailNow
  <2>2. Whole(state') /\ state'.status = "failed" /\ state'.index = state.index
        /\ state'.done = state.done
    BY <2>1, StatusChanges DEF Status
  <2> QED BY <2>1, <2>2
<1>2. CASE Alone!PersistFailed
  BY <1>2 DEF Alone!PersistFailed
<1>3. CASE Alone!PersistCompleted
  <2>1. /\ pc = "stage" /\ state.index > Stages /\ pc' = "over"
        /\ state' = [state EXCEPT !.status = "completed"] /\ saved' = state'
        /\ UNCHANGED <<outcome, other, kept, redone>>
    BY <1>3 DEF Alone!PersistCompleted, Alone!Stage
  <2>2. Whole(state') /\ state'.status = "completed" /\ state'.index = state.index
    BY <2>1, StatusChanges DEF Status
  <2>3. Stages \in Nat /\ state.index \in 0 .. Stages + 1 /\ kept = 1 .. (state.index - 1)
    BY <2>1, Instances DEF Whole, Record, Alone!PipelineAssumption
  <2>4. state.index = Stages + 1 /\ kept' = 1 .. Stages
    BY <2>1, <2>3
  <2>5. Len(state'.done) = Stages
    BY <2>2, <2>3, <2>4 DEF Whole
  <2> QED BY <2>1, <2>2, <2>4, <2>5
<1>4. CASE Alone!Return
  BY <1>4 DEF Alone!Return
<1> QED BY <1>1, <1>2, <1>3, <1>4

LEMMA RecoveryKeeps ==
  ASSUME PipelineInv,
         Alone!Throws \/ Alone!Crash \/ Alone!Restart \/ Alone!OtherReads \/ Alone!OtherSaves
  PROVE  PipelineInv'
<1> USE DEF PipelineInv, CopyAgrees, HistoryAgrees, Working, Resumable, Alone!CompletedIsWhole,
            Alone!ghosts
<1>1. CASE Alone!Crash \/ Alone!Throws
  BY <1>1, FreshRecord DEF Alone!Crash, Alone!Throws
<1>2. CASE Alone!Restart
  <2>1. pc' = "idle" /\ UNCHANGED <<state, outcome, other, kept, redone>>
    BY <1>2 DEF Alone!Restart
  <2>2. CASE saved.status = "running"
    <3>1. saved' = [saved EXCEPT !.status = "interrupted"]
      BY <1>2, <2>2 DEF Alone!Restart, Alone!Interrupted
    <3>2. Whole(saved') /\ saved'.status = "interrupted" /\ saved'.index = saved.index
      BY <2>2, <3>1, StatusChanges DEF Status
    <3> QED BY <2>1, <2>2, <3>2
  <2>3. CASE saved.status # "running"
    <3>1. saved' = saved
      BY <1>2, <2>3 DEF Alone!Restart
    <3> QED BY <2>1, <3>1
  <2> QED BY <2>2, <2>3
<1>3. CASE Alone!OtherReads \/ Alone!OtherSaves
  BY <1>3 DEF Alone!OtherReads, Alone!OtherSaves
<1> QED BY <1>1, <1>2, <1>3

LEMMA PipelineStep ==
  ASSUME PipelineInv, Alone!Next \/ UNCHANGED pipelineVars
  PROVE  PipelineInv'
<1>1. CASE UNCHANGED pipelineVars
  BY <1>1 DEF pipelineVars, PipelineInv, CopyAgrees, HistoryAgrees, Working, Resumable,
              Alone!CompletedIsWhole, Whole
<1>2. CASE Alone!Next
  BY <1>2, RestoreKeeps, PersistStartKeeps, StageBeginsKeeps, AttemptKeeps, PersistStageKeeps,
     RunEndsKeeps, RecoveryKeeps DEF Alone!Next, Alone!RunStep
<1> QED BY <1>1, <1>2

LEMMA PipelineInvHolds == ToolsSpec => [](subject = "pipeline" => PipelineInv)
<1>1. ToolsInit => (subject = "pipeline" => PipelineInv)
  BY PipelineStarts DEF ToolsInit
<1>2. /\ subject = "pipeline" => PipelineInv
      /\ [ToolsNext]_<<subject, vars, pipelineVars>>
      => (subject = "pipeline" => PipelineInv)'
  BY PipelineStep DEF ToolsNext
<1> QED BY <1>1, <1>2, PTL DEF ToolsSpec

(* However many stages the pipeline has, whichever need a plan or are      *)
(* tried again, and wherever a run throws or the process crashes: a stage  *)
(* whose result was saved is not executed again by a run that goes on from *)
(* the record.                                                             *)
THEOREM StagesAreExecutedOnce == ToolsSpec => []SavedStageIsKept
<1>1. (subject = "pipeline" => PipelineInv) => SavedStageIsKept
  BY DEF SavedStageIsKept, Alone!SavedStageIsKept, PipelineInv
<1> QED BY <1>1, PipelineInvHolds, PTL

(* ... and a record that says completed has a result of every stage, saved *)
(* by the runs that were interrupted or by the one that went on.           *)
THEOREM CompletedPipelineIsWhole == ToolsSpec => [](subject = "pipeline" => Alone!CompletedIsWhole)
<1>1. (subject = "pipeline" => PipelineInv) => (subject = "pipeline" => Alone!CompletedIsWhole)
  BY DEF PipelineInv
<1> QED BY <1>1, PipelineInvHolds, PTL
=============================================================================
