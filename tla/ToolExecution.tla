---------------------------- MODULE ToolExecution ----------------------------
(***************************************************************************)
(* Tool calls on their way through ToolExecutor.execute (src/tools/        *)
(* executor.ts): admission, the permission wait plan and its approval, the *)
(* concurrency controller, retries and the timeout.  The approval broker   *)
(* is here the finalizations it runs for the approval of a call (two of    *)
(* them when a reply races the expiry timer, see ApprovalBroker), each of  *)
(* which marks the wait plan on its way.                                   *)
(*                                                                         *)
(* What is compared about a call is its epoch: the host state it was       *)
(* planned under.  A transition of a plan loads the record and saves it    *)
(* later.  Denials by policy before any approval, a second approval asked  *)
(* by the final admission, and dry runs are left out.                      *)
(***************************************************************************)
EXTENDS Naturals, Sequences, FiniteSets

CONSTANTS
  Call, NoCall,
  Guarded,        (* calls that need an approval                           *)
  Shells,         (* calls of the shell tool, in one working directory     *)
  Retried,        (* concurrency-safe calls: transient errors are retried  *)
  Timed,          (* calls whose context has a timeoutMs                   *)
  MaxConcurrent,
  MayRace,        (* whether two finalizations of one approval may begin   *)
  MaxEpoch        (* bounds how often the host state moves on              *)

ASSUME ToolAssumption ==
  /\ NoCall \notin Call
  /\ Guarded \cup Shells \cup Retried \cup Timed \subseteq Call
  /\ MaxConcurrent \in Nat \ {0} /\ MayRace \in BOOLEAN /\ MaxEpoch \in Nat

VARIABLES
  at,        (* at[c]: where the execution of call c is                    *)
  body,      (* body[c]: the tool call itself, that a timeout leaves alone *)
  tries,     (* tries[c]: its attempts that have failed                    *)
  epoch,     (* the state epoch of the host                                *)
  admitted,  (* admitted[c]: the epoch in the preflight's fingerprint      *)
  planned,   (* planned[c]: the epoch of the stored canonical plan         *)
  rebuilt,   (* rebuilt[c]: the epoch of the plan built again to resume    *)
  plan,      (* plan[c]: the state of the wait plan's record               *)
  read,      (* read[c]: the state that the executor has loaded            *)
  finals,    (* the finalizations under way                                *)
  verdict,   (* verdict[c]: the approval record                            *)
  answer,    (* answer[c]: what approvalFn has resolved to                 *)
  active, queue,
  shell      (* activeShells: the call whose controller is registered      *)

planVars == <<planned, rebuilt, plan, read>>
slotVars == <<active, queue, shell>>
vars == <<at, body, tries, epoch, admitted, planVars, finals, verdict, answer, slotVars>>

Terminal == {"denied", "expired", "cancelled", "resumed", "mismatch_rejected"}
Outcome  == {"approved", "denied", "expired"}

Init ==
  /\ at = [c \in Call |-> "new"] /\ body = [c \in Call |-> "none"]
  /\ tries = [c \in Call |-> 0] /\ epoch = 0
  /\ admitted = [c \in Call |-> 0]
  /\ planned = [c \in Call |-> 0] /\ rebuilt = [c \in Call |-> 0]
  /\ plan = [c \in Call |-> "none"] /\ read = [c \in Call |-> "none"]
  /\ finals = {} /\ verdict = [c \in Call |-> "open"] /\ answer = [c \in Call |-> "none"]
  /\ active = 0 /\ queue = <<>> /\ shell = NoCall

Goes(c, to) == at' = [at EXCEPT ![c] = to]

(* transition(): a terminal state stays, and so does the state asked for.  *)
Marked(state, to) == IF state \in Terminal THEN state ELSE to

-----------------------------------------------------------------------------
(* Admission and approval *)

(* The preflight fingerprints the call; one that needs an approval stores
   its plan and asks.                                                      *)
Execute(c) ==
  /\ at[c] = "new"
  /\ admitted' = [admitted EXCEPT ![c] = epoch]
  /\ IF c \in Guarded
     THEN /\ planned' = [planned EXCEPT ![c] = epoch]
          /\ plan' = [plan EXCEPT ![c] = "waiting_for_permission"]
          /\ Goes(c, "waiting")
     ELSE Goes(c, "admitting") /\ UNCHANGED <<planned, plan>>
  /\ UNCHANGED <<body, tries, epoch, rebuilt, read, finals, verdict, answer, slotVars>>

(* finalizeApproval begins: a reply, or the timer.                         *)
BeginFinalize(c, to) ==
  /\ at[c] = "waiting" /\ verdict[c] = "open"
  /\ \A f \in finals : f.call = c => MayRace /\ f.to # to
  /\ Cardinality({f \in finals : f.call = c}) < 2
  /\ finals' = finals \cup {[call |-> c, to |-> to, stage |-> "begun", read |-> "none", first |-> FALSE]}
  /\ UNCHANGED <<at, body, tries, epoch, admitted, planVars, verdict, answer, slotVars>>

Steps(f, g) == finals' = (finals \ {f}) \cup {g}

(* The first one takes the session and decides the record; the second one
   goes on with the record as it finds it.                                 *)
Decide(f) ==
  /\ f \in finals /\ f.stage = "begun"
  /\ Steps(f, [f EXCEPT !.stage = "decided", !.first = (verdict[f.call] = "open")])
  /\ verdict' = [verdict EXCEPT ![f.call] = IF @ = "open" THEN f.to ELSE @]
  /\ UNCHANGED <<at, body, tries, epoch, admitted, planVars, answer, slotVars>>

(* transitionPermissionWaitPlan, with the finalization's own outcome ...   *)
FinalLoads(f) ==
  /\ f \in finals /\ f.stage = "decided"
  /\ Steps(f, [f EXCEPT !.stage = "loaded", !.read = plan[f.call]])
  /\ UNCHANGED <<at, body, tries, epoch, admitted, planVars, verdict, answer, slotVars>>

(* Mutant of FinalSaves: the caller is told by every finalization.         *)
FinalSavesUntracked(f) ==
  /\ f \in finals /\ f.stage = "loaded" /\ finals' = finals \ {f}
  /\ plan' = IF f.read \in Terminal \cup {f.to} THEN plan
                                                ELSE [plan EXCEPT ![f.call] = f.to]
  /\ answer' = [answer EXCEPT ![f.call] = IF f.to = "approved" THEN "yes" ELSE "no"]
  /\ UNCHANGED <<at, body, tries, epoch, admitted, planned, rebuilt, read, verdict, slotVars>>

(* ... and the caller is told by the one that has the session.             *)
FinalSaves(f) ==
  /\ f \in finals /\ f.stage = "loaded" /\ finals' = finals \ {f}
  /\ plan' = IF f.read \in Terminal \cup {f.to} THEN plan
                                                ELSE [plan EXCEPT ![f.call] = f.to]
  /\ answer' = IF f.first THEN [answer EXCEPT ![f.call] = IF f.to = "approved" THEN "yes" ELSE "no"]
                          ELSE answer
  /\ UNCHANGED <<at, body, tries, epoch, admitted, planned, rebuilt, read, verdict, slotVars>>

(* The executor builds the plan again as the host now is, or gives up.     *)
Answered(c) ==
  /\ at[c] = "waiting" /\ answer[c] # "none"
  /\ Goes(c, IF answer[c] = "yes" THEN "marking" ELSE "denying")
  /\ rebuilt' = [rebuilt EXCEPT ![c] = epoch]
  /\ UNCHANGED <<body, tries, epoch, admitted, planned, plan, read, finals, verdict, answer, slotVars>>

(* markApproved or markDenied.                                             *)
MarkLoads(c) ==
  /\ at[c] \in {"marking", "denying"}
  /\ read' = [read EXCEPT ![c] = plan[c]]
  /\ Goes(c, IF at[c] = "marking" THEN "approving" ELSE "refusing")
  /\ UNCHANGED <<body, tries, epoch, admitted, planned, rebuilt, plan, finals, verdict, answer, slotVars>>

MarkSaves(c) ==
  LET to == IF at[c] = "approving" THEN "approved" ELSE "denied"
  IN  /\ at[c] \in {"approving", "refusing"}
      /\ plan' = IF Marked(read[c], to) = read[c] THEN plan ELSE [plan EXCEPT ![c] = to]
      /\ Goes(c, IF at[c] = "approving" THEN "resuming" ELSE "blocked")
      /\ UNCHANGED <<body, tries, epoch, admitted, planned, rebuilt, read, finals, verdict, answer, slotVars>>

(* resumeApproved: only an approved plan ...                               *)
ResumeLoads(c) ==
  /\ at[c] = "resuming"
  /\ Goes(c, IF plan[c] = "approved" THEN "matching" ELSE "blocked")
  /\ UNCHANGED <<body, tries, epoch, admitted, planVars, finals, verdict, answer, slotVars>>

(* ... and only as it was stored.                                          *)
ResumeSaves(c) ==
  /\ at[c] = "matching"
  /\ IF planned[c] = rebuilt[c]
     THEN plan' = [plan EXCEPT ![c] = "resumed"] /\ Goes(c, "admitting")
     ELSE plan' = [plan EXCEPT ![c] = "mismatch_rejected"] /\ Goes(c, "blocked")
  /\ UNCHANGED <<body, tries, epoch, admitted, planned, rebuilt, read, finals, verdict, answer, slotVars>>

(* The final admission compares the fingerprint of the preflight.          *)
Admit(c) ==
  /\ at[c] = "admitting"
  /\ Goes(c, IF admitted[c] = epoch THEN "recording" ELSE "blocked")
  /\ UNCHANGED <<body, tries, epoch, admitted, planVars, finals, verdict, answer, slotVars>>

-----------------------------------------------------------------------------
(* The concurrency controller *)

(* A call takes a slot.  A prior shell call loses its registration; its
   controller is aborted, which nothing listens to.                        *)
Enter(c) ==
  /\ active' = active + 1
  /\ shell' = IF c \in Shells THEN c ELSE shell
  /\ Goes(c, "in") /\ body' = [body EXCEPT ![c] = "calling"]

(* run(): the limit is looked at once, by a call that has not waited.      *)
Run(c) ==
  /\ at[c] = "recording"
  /\ \/ active < MaxConcurrent /\ Enter(c) /\ UNCHANGED queue
     \/ /\ active >= MaxConcurrent /\ Goes(c, "queued") /\ queue' = Append(queue, c)
        /\ UNCHANGED <<body, active, shell>>
  /\ UNCHANGED <<tries, epoch, admitted, planVars, finals, verdict, answer>>

(* The continuation of a resolved waiter, some microtasks later.           *)
Continue(c) ==
  /\ at[c] = "woken" /\ Enter(c)
  /\ UNCHANGED <<tries, epoch, admitted, planVars, finals, verdict, answer, queue>>

(* The finally block of run(): the next waiter's promise is resolved.      *)
Leave(c) ==
  /\ active' = active - 1
  /\ shell' = IF shell = c THEN NoCall ELSE shell
  /\ IF queue = <<>> THEN Goes(c, "done") /\ UNCHANGED queue
     ELSE /\ at' = [at EXCEPT ![c] = "done", ![Head(queue)] = "woken"]
          /\ queue' = Tail(queue)
  /\ UNCHANGED <<body, tries, epoch, admitted, planVars, finals, verdict, answer>>

Returns(c)  == at[c] = "in" /\ body[c] = "over" /\ Leave(c)

(* Mutant of TimesOut: the next waiter is not woken.                       *)
TimesOutSilent(c) ==
  /\ c \in Timed /\ at[c] = "in" /\ body[c] # "over" /\ Goes(c, "done")
  /\ active' = active - 1
  /\ UNCHANGED <<body, tries, epoch, admitted, planVars, finals, verdict, answer, queue, shell>>

(* withTimeout: the race is lost, and the tool goes on.                    *)
TimesOut(c) == c \in Timed /\ at[c] = "in" /\ body[c] # "over" /\ Leave(c)

-----------------------------------------------------------------------------
(* callWithRetry and the tool *)

BodyGoes(c, to) ==
  /\ body' = [body EXCEPT ![c] = to]
  /\ UNCHANGED <<at, epoch, admitted, planVars, finals, verdict, answer, slotVars>>

(* The tool ends: with its result, or with an error that is no reason to
   try again.                                                              *)
CallEnds(c) == body[c] = "calling" /\ BodyGoes(c, "over") /\ UNCHANGED tries

(* Mutant of CallFails: the attempts are not counted.                      *)
CallFailsAlways(c) ==
  /\ body[c] = "calling" /\ c \in Retried
  /\ BodyGoes(c, "backoff") /\ UNCHANGED tries

CallFails(c) ==
  /\ body[c] = "calling" /\ c \in Retried /\ tries[c] < 2
  /\ BodyGoes(c, "backoff") /\ tries' = [tries EXCEPT ![c] = @ + 1]

BackoffEnds(c) == body[c] = "backoff" /\ BodyGoes(c, "calling") /\ UNCHANGED tries

(* The host state moves on.                                                *)
HostMoves ==
  /\ epoch < MaxEpoch /\ epoch' = epoch + 1
  /\ UNCHANGED <<at, body, tries, admitted, planVars, finals, verdict, answer, slotVars>>

-----------------------------------------------------------------------------

ExecutorStep(c) ==
  \/ Answered(c) \/ MarkLoads(c) \/ MarkSaves(c) \/ ResumeLoads(c) \/ ResumeSaves(c)
  \/ Admit(c) \/ Run(c) \/ Continue(c) \/ Returns(c)

FinalStep(f) == Decide(f) \/ FinalLoads(f) \/ FinalSaves(f)

Next ==
  \/ \E c \in Call : \/ Execute(c) \/ ExecutorStep(c) \/ TimesOut(c)
                     \/ CallEnds(c) \/ CallFails(c) \/ BackoffEnds(c)
                     \/ \E to \in Outcome : c \in Guarded /\ BeginFinalize(c, to)
  \/ \E f \in finals : FinalStep(f)
  \/ HostMoves

Spec == Init /\ [][Next]_vars

(* Promises go on, the expiry timer fires, and every tool returns or has a
   timeout.                                                                *)
FairSpec ==
  /\ Spec
  /\ \A c \in Call : /\ WF_vars(ExecutorStep(c)) /\ WF_vars(BeginFinalize(c, "expired"))
                     /\ WF_vars(\E f \in finals : f.call = c /\ FinalStep(f))
                     /\ WF_vars(TimesOut(c)) /\ WF_vars(BackoffEnds(c))
                     /\ (c \notin Timed => WF_vars(CallEnds(c)))

-----------------------------------------------------------------------------
(* Properties *)

Place == {"new", "waiting", "marking", "denying", "approving", "refusing", "resuming", "matching",
          "admitting", "recording", "queued", "woken", "in", "done", "blocked"}
PlanState == Terminal \cup {"none", "waiting_for_permission", "approved"}
Final == [call : Guarded, to : Outcome, stage : {"begun", "decided", "loaded"}, read : PlanState,
          first : BOOLEAN]

(* Every variable has its type.                                            *)
TypeOK ==
  /\ at \in [Call -> Place] /\ body \in [Call -> {"none", "calling", "backoff", "over"}]
  /\ tries \in [Call -> 0 .. 2] /\ epoch \in 0 .. MaxEpoch
  /\ admitted \in [Call -> 0 .. MaxEpoch]
  /\ planned \in [Call -> 0 .. MaxEpoch] /\ rebuilt \in [Call -> 0 .. MaxEpoch]
  /\ plan \in [Call -> PlanState] /\ read \in [Call -> PlanState]
  /\ finals \subseteq Final
  /\ verdict \in [Call -> Outcome \cup {"open"}] /\ answer \in [Call -> {"none", "yes", "no"}]
  /\ active \in Nat /\ queue \in Seq(Call) /\ shell \in Shells \cup {NoCall}

(* A call that needs an approval is made only if its record says approved
   and its plan was not changed under the approval, however the reply, the
   timer and the host state race.                                          *)
ApprovedAsPlanned ==
  \A c \in Guarded : body[c] # "none" =>
    verdict[c] = "approved" /\ planned[c] = rebuilt[c]

(* The record of the plan of a call that is made says that it was resumed. *)
ResumeIsRecorded == \A c \in Guarded : body[c] # "none" => plan[c] = "resumed"

(* A call that waits for a slot waits for somebody: wakeups are not lost,
   whatever calls came in between.                                         *)
WaiterHasWaker ==
  queue # <<>> => \E c \in DOMAIN at : at[c] \in {"in", "woken"}

(* Every call is settled in the end: it is made or refused, through queue,
   approval, retries and timeouts.                                         *)
CallsSettle == \A c \in Call : at[c] # "new" ~> at[c] \in {"done", "blocked"}

(* concurrency.ts:8 "Maximum 10 concurrent tool calls".                    *)
LimitHolds == active <= MaxConcurrent

(* capability-plane.ts:329 "refusing to execute stale or changed inputs".  *)
NotStale == [][\A c \in Call : body[c] = "none" /\ body'[c] = "calling" => admitted[c] = epoch]_vars
=============================================================================
