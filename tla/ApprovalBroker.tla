---------------------------- MODULE ApprovalBroker ----------------------------
(***************************************************************************)
(* Approvals (src/runtime/approval-broker.ts, store/approval-store.ts): a  *)
(* broker keeps one session per pending approval in memory, with the       *)
(* promise of the caller that asked and an expiry timer; the store keeps   *)
(* one durable row per approval, shared by every broker.  The daemon's     *)
(* broker takes plain requests and broadcasts; the brokers of the chat     *)
(* managers take requests that are bound to a conversation.                *)
(*                                                                         *)
(* An action is the code between two awaits that wait for something.  A    *)
(* finalization waits for the save of its session; its session take, store *)
(* transaction, answer and broadcast then follow without anything else of  *)
(* the process in between.  Time is the set of requests whose expires_at   *)
(* has passed.  Prompts, bindings and origins are reduced to the request   *)
(* they were issued for.                                                   *)
(***************************************************************************)
EXTENDS Naturals, FiniteSets

CONSTANTS
  Approval,        (* approval ids                                         *)
  Request,         (* calls of request(Conversational)Approval             *)
  NoRequest,
  IdOf,            (* IdOf[r]: the approval id of request r                *)
  Broker, DaemonBroker,
  HomeOf,          (* HomeOf[r]: the broker that request r is made to      *)
  MaxOutages,      (* bounds how often brokers stop or die                 *)
  SavesMayFail     (* whether savePending may reject                       *)

ASSUME BrokerAssumption ==
  /\ IdOf \in [Request -> Approval] /\ NoRequest \notin Request
  /\ DaemonBroker \in Broker /\ HomeOf \in [Request -> Broker]
  /\ MaxOutages \in Nat /\ SavesMayFail \in BOOLEAN

VARIABLES
  row,        (* row[a]: the durable record and the request it was made for *)
  sessions,   (* sessions[b][a]: the entry of broker b's pending map        *)
  started,    (* brokers that have run start()                              *)
  restoring,  (* restoring[b]: records start() has listed, not yet tracked  *)
  saves,      (* <<b, r>>: savePending of request r is in flight            *)
  deliveries, (* <<b, r>>: the prompt of r is being delivered               *)
  finals,     (* finalizeApproval calls that have not reached the store     *)
  lapsed,     (* requests whose expiry time has passed                      *)
  told,       (* told[r]: what the promise of request r has settled to      *)
  outages,
  verdict,    (* history: the last decision of each approval                *)
  announced   (* history: announced[a], the answers broadcast for a         *)

vars == <<row, sessions, started, restoring, saves, deliveries, finals, lapsed, told,
          outages, verdict, announced>>

Decided == {"approved", "denied", "expired"}
NoRow   == [state |-> "none", by |-> NoRequest]
NoSession == [by |-> NoRequest, live |-> FALSE, finalizing |-> FALSE, ready |-> FALSE]

Tracked(b, a) == sessions[b][a].by # NoRequest

(* The requests that carry an origin.                                      *)
Conversational == {r \in Request : HomeOf[r] # DaemonBroker}

Init ==
  /\ row = [a \in Approval |-> NoRow]
  /\ sessions = [b \in Broker |-> [a \in Approval |-> NoSession]]
  /\ started = {} /\ restoring = [b \in Broker |-> {}]
  /\ saves = {} /\ deliveries = {} /\ finals = {} /\ lapsed = {}
  /\ told = [r \in Request |-> "unasked"]
  /\ outages = 0
  /\ verdict = [a \in Approval |-> "open"]
  /\ announced = [a \in Approval |-> {}]

-----------------------------------------------------------------------------

(* The thread of broker b's process is free: a finalization that has begun
   runs to its end before anything else, except while it awaits a save.    *)
Idle(b) == \A f \in finals : f.broker = b => <<b, f.awaits>> \in saves

(* Nothing that an earlier process of broker b began is still under way.   *)
Quiet(b) ==
  /\ restoring[b] = {}
  /\ \A r \in Request : <<b, r>> \notin saves \cup deliveries
  /\ \A f \in finals : f.broker # b

(* start(): list the pending records ...                                   *)
Start(b) ==
  /\ b \notin started /\ Quiet(b)
  /\ started' = started \cup {b}
  /\ restoring' = [restoring EXCEPT
       ![b] = {row[a].by : a \in {x \in Approval : row[x].state = "pending"}}]
  /\ UNCHANGED <<row, sessions, saves, deliveries, finals, lapsed, told, outages, verdict, announced>>

(* The finalization of approval a with outcome o begins: it marks a session
   that has a save promise and awaits it.                                  *)
Finalization(b, a, o) ==
  [broker |-> b, id |-> a, outcome |-> o,
   awaits |-> IF sessions[b][a].ready THEN sessions[b][a].by ELSE NoRequest]

BeginFinalize(b, a, o) ==
  /\ finals' = finals \cup {Finalization(b, a, o)}
  /\ sessions' = [sessions EXCEPT ![b][a].finalizing = @ \/ sessions[b][a].ready]

(* ... and expire or track each of them.                                   *)
Restore(b, r) ==
  /\ r \in restoring[b] /\ Idle(b)
  /\ restoring' = [restoring EXCEPT ![b] = @ \ {r}]
  /\ IF r \in lapsed
     THEN BeginFinalize(b, IdOf[r], "expired")
     ELSE /\ sessions' = [sessions EXCEPT ![b][IdOf[r]] = [NoSession EXCEPT !.by = r]]
          /\ UNCHANGED finals
  /\ UNCHANGED <<row, started, saves, deliveries, lapsed, told, outages, verdict, announced>>

(* requestApproval, requestConversationalApproval: the session is tracked
   at once, replacing one of the same id, and the save is in flight.  A
   caller repeats an id (a budget's, a wait strategy's) only later on.     *)
RequestApproval(b, r) ==
  /\ \A s \in saves : IdOf[s[2]] # IdOf[r]
  /\ b \in started /\ Idle(b) /\ b = HomeOf[r] /\ told[r] = "unasked"
  /\ told' = [told EXCEPT ![r] = "waiting"]
  /\ sessions' = [sessions EXCEPT ![b][IdOf[r]] =
       [by |-> r, live |-> TRUE, finalizing |-> FALSE, ready |-> TRUE]]
  /\ saves' = saves \cup {<<b, r>>}
  /\ UNCHANGED <<row, started, restoring, deliveries, finals, lapsed, outages, verdict, announced>>

(* savePending succeeds: a row that is already decided stays as it is.
   Then the prompt goes out, unless a finalization has begun.              *)
SavePending(r) ==
  LET a == IdOf[r] IN
  row' = IF row[a].state \in Decided THEN row
         ELSE [row EXCEPT ![a] = [state |-> "pending", by |-> r]]

SaveDone(b, r) ==
  /\ <<b, r>> \in saves /\ Idle(b)
  /\ saves' = saves \ {<<b, r>>}
  /\ SavePending(r)
  /\ deliveries' = IF /\ r \in Conversational /\ Tracked(b, IdOf[r])
                      /\ ~sessions[b][IdOf[r]].finalizing
                   THEN deliveries \cup {<<b, r>>} ELSE deliveries
  /\ UNCHANGED <<sessions, started, restoring, finals, lapsed, told, outages, verdict, announced>>

(* Mutant of SaveFails: the caller is not told.                            *)
SaveFailsSilent(b, r) ==
  /\ SavesMayFail /\ <<b, r>> \in saves /\ Idle(b)
  /\ saves' = saves \ {<<b, r>>}
  /\ sessions' = [sessions EXCEPT ![b][IdOf[r]] = NoSession]
  /\ finals' = {f \in finals : f.broker # b \/ f.awaits # r}
  /\ UNCHANGED <<row, started, restoring, deliveries, lapsed, told, outages, verdict, announced>>

(* savePending rejects: the session goes, the caller gets the error, and
   finalizations that awaited the save give up.                            *)
SaveFails(b, r) ==
  /\ SavesMayFail /\ <<b, r>> \in saves /\ Idle(b)
  /\ saves' = saves \ {<<b, r>>}
  /\ sessions' = [sessions EXCEPT ![b][IdOf[r]] = NoSession]
  /\ told' = [told EXCEPT ![r] = "rejected"]
  /\ finals' = {f \in finals : f.broker # b \/ f.awaits # r}
  /\ UNCHANGED <<row, started, restoring, deliveries, lapsed, outages, verdict, announced>>

(* deliverIfConversational: the channel shows the prompt, or cannot be
   reached, which denies the approval.                                     *)
Deliver(b, r) ==
  /\ <<b, r>> \in deliveries /\ Idle(b)
  /\ deliveries' = deliveries \ {<<b, r>>}
  /\ \/ UNCHANGED <<sessions, finals>>
     \/ BeginFinalize(b, IdOf[r], "denied")
  /\ UNCHANGED <<row, started, restoring, saves, lapsed, told, outages, verdict, announced>>

(* resolveApproval: the reply's binding must be the one issued for the
   record, taken from memory before the store, and not expired.            *)
RecordFor(b, a) ==
  IF Tracked(b, a) THEN sessions[b][a].by
  ELSE IF row[a].state = "pending" THEN row[a].by ELSE NoRequest

ResolveApproval(r, o) ==
  LET a == IdOf[r] IN
  /\ DaemonBroker \in started /\ Idle(DaemonBroker)
  /\ r = RecordFor(DaemonBroker, a) /\ r \notin Conversational /\ r \notin lapsed
  /\ BeginFinalize(DaemonBroker, a, o)
  /\ UNCHANGED <<row, started, restoring, saves, deliveries, lapsed, told, outages, verdict, announced>>

(* resolveConversationalApproval: the record comes from the store.         *)
ResolveConversationalApproval(b, r, o) ==
  LET a == IdOf[r] IN
  /\ b \in started /\ Idle(b) /\ b # DaemonBroker /\ r \in Conversational
  /\ row[a] = [state |-> "pending", by |-> r] /\ r \notin lapsed
  /\ BeginFinalize(b, a, o)
  /\ UNCHANGED <<row, started, restoring, saves, deliveries, lapsed, told, outages, verdict, announced>>

(* The expiry timer of a session fires, once.                              *)
Expire(b, a) ==
  /\ Tracked(b, a) /\ sessions[b][a].by \in lapsed /\ Idle(b)
  /\ Finalization(b, a, "expired") \notin finals
  /\ BeginFinalize(b, a, "expired")
  /\ UNCHANGED <<row, started, restoring, saves, deliveries, lapsed, told, outages, verdict, announced>>

(* Mutant of ResolvePending: the outcome is written over a decided row.    *)
ResolvePendingBlind(a, o) ==
  /\ row' = IF row[a].state = "none" THEN row ELSE [row EXCEPT ![a].state = o]
  /\ verdict' = IF row[a].state = "none" THEN verdict ELSE [verdict EXCEPT ![a] = o]

(* resolvePending: only a pending row takes the outcome; a decided one is
   returned unchanged.                                                     *)
ResolvePending(a, o) ==
  /\ row' = IF row[a].state = "pending" THEN [row EXCEPT ![a].state = o] ELSE row
  /\ verdict' = IF row[a].state = "pending" THEN [verdict EXCEPT ![a] = o] ELSE verdict

(* The rest of finalizeApproval.  Unless the row is gone, the caller whose
   session it took and the clients are told its own outcome.               *)
Settle(f) ==
  LET session == sessions[f.broker][f.id]
      answer  == IF f.outcome = "approved" THEN "approved" ELSE "refused"
      found   == row[f.id].state # "none"
  IN
  /\ f \in finals /\ <<f.broker, f.awaits>> \notin saves
  /\ finals' = finals \ {f}
  /\ sessions' = [sessions EXCEPT ![f.broker][f.id] = NoSession]
  /\ ResolvePending(f.id, f.outcome)
  /\ told' = IF found /\ session.live THEN [told EXCEPT ![session.by] = answer] ELSE told
  /\ announced' = IF found /\ f.broker = DaemonBroker
                  THEN [announced EXCEPT ![f.id] = @ \cup {answer}] ELSE announced
  /\ UNCHANGED <<started, restoring, saves, deliveries, lapsed, outages>>

(* The daemon's maintenance expires overdue rows behind the broker's back.  *)
Reconcile(a) ==
  /\ row[a].state = "pending" /\ row[a].by \in lapsed
  /\ Idle(DaemonBroker)
  /\ ResolvePending(a, "expired")
  /\ UNCHANGED <<sessions, started, restoring, saves, deliveries, finals, lapsed, told, outages, announced>>

(* Maintenance also drops rows that were decided 30 days ago, longer than
   any session lasts.                                                      *)
PruneResolved(a) ==
  /\ row[a].state \in Decided
  /\ \A b \in Broker : ~Tracked(b, a) /\ row[a].by \notin restoring[b]
  /\ \A f \in finals : f.id # a
  /\ \A s \in saves : IdOf[s[2]] # a
  /\ row' = [row EXCEPT ![a] = NoRow]
  /\ UNCHANGED <<sessions, started, restoring, saves, deliveries, finals, lapsed, told, outages, verdict, announced>>

(* Time passes the expires_at of request r.                                *)
Lapse(r) ==
  /\ told[r] # "unasked" /\ r \notin lapsed
  /\ lapsed' = lapsed \cup {r}
  /\ UNCHANGED <<row, sessions, started, restoring, saves, deliveries, finals, told, outages, verdict, announced>>

(* stop(), at shutdown, drops the sessions and their timers; the callers
   wait in vain until the process has ended.                               *)
Stop(b) ==
  /\ b \in started /\ Idle(b) /\ outages < MaxOutages
  /\ outages' = outages + 1
  /\ started' = started \ {b}
  /\ sessions' = [sessions EXCEPT ![b] = [a \in Approval |-> NoSession]]
  /\ told' = [r \in Request |->
       IF sessions[b][IdOf[r]].by = r /\ sessions[b][IdOf[r]].live THEN "gone" ELSE told[r]]
  /\ UNCHANGED <<row, restoring, saves, deliveries, finals, lapsed, verdict, announced>>

(* The process of broker b ends, by a crash or after stop().               *)
ProcessEnds(b) ==
  /\ b \in started => outages < MaxOutages
  /\ outages' = IF b \in started THEN outages + 1 ELSE outages
  /\ started' = started \ {b}
  /\ sessions' = [sessions EXCEPT ![b] = [a \in Approval |-> NoSession]]
  /\ restoring' = [restoring EXCEPT ![b] = {}]
  /\ saves' = {s \in saves : s[1] # b}
  /\ deliveries' = {d \in deliveries : d[1] # b}
  /\ finals' = {f \in finals : f.broker # b}
  /\ told' = [r \in Request |->
       IF told[r] = "waiting" /\ b = HomeOf[r] THEN "gone" ELSE told[r]]
  /\ UNCHANGED <<row, lapsed, verdict, announced>>

-----------------------------------------------------------------------------

Reply == {"approved", "denied"}

BrokerStep(b) ==
  \/ Start(b) \/ Stop(b) \/ ProcessEnds(b)
  \/ \E r \in Request :
       \/ Restore(b, r) \/ RequestApproval(b, r) \/ SaveDone(b, r) \/ SaveFails(b, r)
       \/ Deliver(b, r) \/ \E o \in Reply : ResolveConversationalApproval(b, r, o)
  \/ \E a \in Approval : Expire(b, a)

Next ==
  \/ \E b \in Broker : BrokerStep(b)
  \/ \E f \in finals : Settle(f)
  \/ \E r \in Request : Lapse(r) \/ \E o \in Reply : ResolveApproval(r, o)
  \/ \E a \in Approval : Reconcile(a) \/ PruneResolved(a)

Spec == Init /\ [][Next]_vars

(* Processes that begin something go on with it, timers fire, time passes
   and brokers are started again.  Nobody has to reply, channels may take
   for ever, and maintenance need not run.                                 *)
Fairness ==
  /\ \A b \in Broker :
       /\ WF_vars(Start(b)) /\ WF_vars(ProcessEnds(b) /\ b \notin started)
       /\ \A r \in Request : WF_vars(Restore(b, r)) /\ WF_vars(SaveDone(b, r) \/ SaveFails(b, r))
       /\ \A a \in Approval :
            /\ WF_vars(Expire(b, a))
            /\ WF_vars(\E f \in finals : f.broker = b /\ f.id = a /\ Settle(f))
  /\ \A r \in Request : WF_vars(Lapse(r))

LiveSpec == Spec /\ Fairness

-----------------------------------------------------------------------------

Toldness == {"unasked", "waiting", "approved", "refused", "rejected", "gone"}

(* Type invariant. *)
TypeOK ==
  /\ row \in [Approval -> {NoRow} \cup [state : Decided \cup {"pending"}, by : Request]]
  /\ sessions \in [Broker -> [Approval ->
       [by : Request \cup {NoRequest}, live : BOOLEAN, finalizing : BOOLEAN, ready : BOOLEAN]]]
  /\ started \subseteq Broker /\ restoring \in [Broker -> SUBSET Request]
  /\ saves \subseteq Broker \X Request /\ deliveries \subseteq Broker \X Request
  /\ finals \subseteq [broker : Broker, id : Approval, outcome : Decided,
                        awaits : Request \cup {NoRequest}]
  /\ lapsed \subseteq Request /\ told \in [Request -> Toldness]
  /\ outages \in 0..MaxOutages
  /\ verdict \in [Approval -> Decided \cup {"open"}]
  /\ announced \in [Approval -> SUBSET {"approved", "refused"}]

(* With one broker and no id used twice, the brokers, their store, timers,
   maintenance and restarts add up to ApprovalDecision: an approval is
   decided once, and its caller is told yes only if it was approved, however
   replies, expiry, undeliverable prompts and restarts race.               *)
Decisions == INSTANCE ApprovalDecision WITH
  told <- [r \in Request |-> CASE told[r] \in {"unasked", "waiting"} -> "waiting"
                               [] told[r] \in {"rejected", "gone"} -> "gone"
                               [] OTHER -> told[r]]

DecisionsSpec == Decisions!Spec

(* A started broker has a session with its timer for every pending row, or
   is about to: no approval stays pending for want of a timer, whatever was
   in flight when its broker restarted (one broker, ids used once).        *)
PendingIsTimed ==
  \A a \in Approval : row[a].state = "pending" /\ DaemonBroker \in started =>
    \/ Tracked(DaemonBroker, a) \/ row[a].by \in restoring[DaemonBroker]
    \/ \E f \in finals : f.id = a

(* Whatever several brokers over one store do with an approval, and whether
   its rows are restored, expired or pruned, a verdict is never revised.   *)
DecisionIsFinal ==
  [][\A a \in Approval : verdict[a] # "open" => verdict'[a] = verdict[a]]_vars

(* A caller is told in the end, also when no reply comes, the prompt cannot
   be delivered or another broker has settled the row: its own timer ends
   its session.                                                            *)
CallerIsAnswered ==
  \A r \in Request : told[r] = "waiting" ~> told[r] # "waiting"

(* A pending row is decided in the end, also when its broker died with it. *)
PendingIsDecided ==
  \A a \in Approval : row[a].state = "pending" ~> row[a].state # "pending"

(* A caller is told yes only for an approval whose record says approved.   *)
ToldWhatIsOnRecord ==
  \A r \in Request : told[r] = "approved" => verdict[IdOf[r]] = "approved"

(* What the daemon broadcasts about an approval is what its record says.   *)
AnnouncedAsDecided ==
  \A a \in Approval : announced[a] \subseteq {Decisions!Meaning(verdict[a])}
=============================================================================
