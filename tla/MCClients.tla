------------------------------ MODULE MCClients ------------------------------
(***************************************************************************)
(* The daemon's clients, for TLC: approvals and the event stream.  A       *)
(* behaviour, `subject`, is about two approvals at the daemon's broker     *)
(* ("broker"), one approval under the brokers of the daemon and of a chat  *)
(* ("brokers"), or one client's stream: of an approval and an event        *)
(* ("kept"), of an outbox that is pruned and failing ("pruned"), or of     *)
(* events through failures and restarts ("live").                          *)
(***************************************************************************)
EXTENDS ApprovalBroker, TLC

CONSTANTS
  a1, a2, r1, r2, daemon, chat,
  Listener, NoClient, Asking,    (* the clients; the approvals of "kept"     *)
  Reached, Retained,             (* FirstSeq, MaxRecords                     *)
  KeptEvents, KeptDrops, PrunedEvents, PrunedDrops, PrunedRestarts,
  LiveEvents, LiveDrops, LiveRestarts

OwnIds   == r1 :> a1 @@ r2 :> a2
AtDaemon == r1 :> daemon @@ r2 :> daemon

(* Two requests under one id.                                              *)
OneId    == r1 :> a1 @@ r2 :> a1

VARIABLES subject, outbox, pruning, chain, idCounter, streams, approval, conn, booted,
          cursor, wire, plain, drops, restarts, excused, seen, shown, got

outboxVars == <<outbox, pruning, chain, idCounter, streams, approval, conn, booted,
                cursor, wire, plain, drops, restarts, excused, seen, shown, got>>

Both == INSTANCE ApprovalBroker WITH
  Request <- {r1}, IdOf <- (r1 :> a1), Broker <- {daemon, chat}, HomeOf <- (r1 :> chat),
  MaxOutages <- 3

Kept == INSTANCE EventOutbox WITH
  Client <- Listener, Approval <- Asking, FirstSeq <- Reached, MaxPlain <- KeptEvents,
  MaxDrops <- KeptDrops, MaxRestarts <- 0, MaxRecords <- Retained, AppendsMayFail <- FALSE,
  SnapshotsMayFail <- FALSE, MayPrune <- FALSE, MayAge <- FALSE

Pruned == INSTANCE EventOutbox WITH
  Client <- Listener, Approval <- {}, FirstSeq <- Reached, MaxPlain <- PrunedEvents,
  MaxDrops <- PrunedDrops, MaxRestarts <- PrunedRestarts, MaxRecords <- Retained,
  AppendsMayFail <- TRUE, SnapshotsMayFail <- TRUE, MayPrune <- TRUE, MayAge <- TRUE

Live == INSTANCE EventOutbox WITH
  Client <- Listener, Approval <- {}, FirstSeq <- Reached, MaxPlain <- LiveEvents,
  MaxDrops <- LiveDrops, MaxRestarts <- LiveRestarts, MaxRecords <- Retained,
  AppendsMayFail <- TRUE, SnapshotsMayFail <- FALSE, MayPrune <- FALSE, MayAge <- FALSE

ASSUME Instances ==
  Both!BrokerAssumption /\ Kept!OutboxAssumption /\ Pruned!OutboxAssumption /\ Live!OutboxAssumption

ClientsInit ==
  \/ subject = "broker"  /\ Init      /\ Live!Init
  \/ subject = "brokers" /\ Both!Init /\ Live!Init
  \/ subject = "kept"    /\ Init      /\ Kept!Init
  \/ subject = "pruned"  /\ Init      /\ Pruned!Init
  \/ subject = "live"    /\ Init      /\ Live!Init

ClientsNext ==
  /\ UNCHANGED subject
  /\ \/ subject = "broker"  /\ Next        /\ UNCHANGED outboxVars
     \/ subject = "brokers" /\ Both!Next   /\ UNCHANGED outboxVars
     \/ subject = "kept"    /\ Kept!Next   /\ UNCHANGED vars
     \/ subject = "pruned"  /\ Pruned!Next /\ UNCHANGED vars
     \/ subject = "live"    /\ Live!Next   /\ UNCHANGED vars

(* The fairness of Both!LiveSpec and of Live!FairSpec.                     *)
ClientsFairness ==
  /\ \A b \in {daemon, chat} :
       /\ WF_vars(subject = "brokers" /\ Both!Start(b))
       /\ WF_vars(subject = "brokers" /\ Both!ProcessEnds(b) /\ b \notin started)
       /\ WF_vars(subject = "brokers" /\ Both!Restore(b, r1))
       /\ WF_vars(subject = "brokers" /\ (Both!SaveDone(b, r1) \/ Both!SaveFails(b, r1)))
       /\ WF_vars(subject = "brokers" /\ Both!Expire(b, a1))
       /\ WF_vars(subject = "brokers" /\ \E f \in finals : f.broker = b /\ Both!Settle(f))
  /\ WF_vars(subject = "brokers" /\ Both!Lapse(r1))
  /\ WF_outboxVars(subject = "live" /\ Live!ServerStep)
  /\ \A c \in Listener : WF_outboxVars(subject = "live" /\ Live!ClientStep(c))

ClientsSpec ==
  ClientsInit /\ [][ClientsNext]_<<subject, vars, outboxVars>> /\ ClientsFairness

BrokerAlone == ClientsSpec /\ subject = "broker"

(* The brokers, their store, timers, maintenance and restarts add up to
   ApprovalDecision: an approval is decided once, however replies, expiry,
   undeliverable prompts and restarts race; and where the daemon's broker is
   alone its caller is told yes only if it was approved.                   *)
ClientDecisions == INSTANCE ApprovalDecision WITH
  told <- [r \in Request |-> CASE subject = "brokers" -> "waiting"
                               [] subject # "brokers" /\ told[r] \in {"unasked", "waiting"} -> "waiting"
                               [] subject # "brokers" /\ told[r] \in {"rejected", "gone"} -> "gone"
                               [] OTHER -> told[r]]

DecidedOnce == ClientDecisions!Spec

(* A caller is told and a pending row is decided in the end: also when no
   reply comes, when the prompt cannot be delivered, when the saves fail,
   when another broker has settled the row and when its own died with it.  *)
ApprovalsEnd ==
  subject = "brokers" =>
    /\ told[r1] = "waiting" ~> told[r1] # "waiting"
    /\ row[a1].state = "pending" ~> row[a1].state # "pending"

(* Whatever broke its connection, a client whose stream is settled has been
   given every event the outbox keeps, the ones its snapshot stands for
   aside.                                                                  *)
CaughtUp == (subject = "kept" => Kept!CaughtUp) /\ (subject = "live" => Live!CaughtUp)

(* A client is given the events in their order and none of them twice,
   across replays, live writes, pruning and restarts.                      *)
InOrderOnce == subject \in {"pruned", "live"} => Live!InOrderOnce

=============================================================================
