------------------------------ MODULE EventOutbox ------------------------------
(***************************************************************************)
(* Events for clients: the durable outbox (src/runtime/store/outbox-       *)
(* store.ts), the event server's SSE manager (event/server-sse.ts) and the *)
(* daemon client (daemon/client.ts) that reconnects with a cursor.         *)
(*                                                                         *)
(* broadcast() and the replay of a new stream are jobs of one promise      *)
(* chain.  A broadcast appends its row, awaits, then writes to every live  *)
(* stream; a stream collects the pending approvals, awaits, then replays   *)
(* the rows after the cursor, writes the approvals that are still pending  *)
(* and joins the live streams.  What has been written travels on the wire  *)
(* and is lost with the connection.  Payloads are reduced to the event     *)
(* they carry; an event with a correlation id is one of an approval.       *)
(***************************************************************************)
EXTENDS Naturals, Sequences, FiniteSetsExt, SequencesExt

CONSTANTS
  Client, NoClient,
  Approval,        (* approval request ids                                 *)
  FirstSeq,        (* the sequence number the outbox has reached at start   *)
  MaxPlain,        (* bounds the uncorrelated events                        *)
  MaxDrops,        (* bounds the lost connections                           *)
  MaxRestarts,     (* bounds the restarts of the daemon                     *)
  MaxRecords,      (* outboxMaxRecords of the maintenance cycle             *)
  AppendsMayFail,  (* whether append() may throw                           *)
  SnapshotsMayFail, (* whether GET /snapshot may fail                      *)
  MayPrune,        (* whether the maintenance cycle prunes                  *)
  MayAge           (* whether rows get older than outboxRetentionMs         *)

(* What a module that instantiates this one assumes of its constants.       *)
OutboxAssumption ==
  /\ NoClient \notin Client /\ IsFiniteSet(Approval)
  /\ FirstSeq \in Nat \ {0} /\ MaxPlain \in Nat /\ MaxDrops \in Nat
  /\ MaxRestarts \in Nat /\ MaxRecords \in Nat \ {0}
  /\ {AppendsMayFail, SnapshotsMayFail, MayPrune, MayAge} \subseteq BOOLEAN

VARIABLES
  outbox,     (* the rows: [seq, ev]                                        *)
  pruning,    (* the sequence numbers prune() has still to remove           *)
  chain,      (* the jobs of broadcastChain, the running one first          *)
  idCounter,  (* eventIdCounter                                             *)
  streams,    (* sseClients                                                 *)
  approval,   (* approval[a]: "new", "asked", "announced" or "resolved"     *)
  conn,       (* conn[c]: "down", "boot", "ready" or "open"                 *)
  booted,     (* clients with snapshotBootstrapped                          *)
  cursor,     (* cursor[c]: lastOutboxSeq                                   *)
  wire,       (* wire[c]: what was written to c and not yet read            *)
  plain, drops, restarts,
  excused,    (* history: the events before the snapshot client c began on  *)
  seen,       (* history: the events client c was given                     *)
  shown,      (* history: the approvals client c shows as open              *)
  got         (* history: the uncorrelated events given to c, in order      *)

clientVars == <<conn, booted, cursor, wire, excused, seen, shown, got>>
vars == <<outbox, pruning, chain, idCounter, streams, approval, plain, drops, restarts, clientVars>>

Plain(n)    == <<"plain", n>>
Required(a) == <<"approval_required", a>>
Resolved(a) == <<"approval_resolved", a>>
Event == {Plain(n) : n \in 0 .. MaxPlain} \cup {Required(a) : a \in Approval}
           \cup {Resolved(a) : a \in Approval}

(* getPendingApprovalEvents: the approvals the broker holds a session for. *)
Pending == {a \in Approval : approval[a] \in {"asked", "announced"}}

MaxSeq == IF outbox = {} THEN 0 ELSE Max({r.seq : r \in outbox})

Init ==
  /\ outbox = {[seq |-> FirstSeq, ev |-> Plain(0)]}
  /\ pruning = {} /\ chain = <<>> /\ idCounter = 0 /\ streams = {}
  /\ approval = [a \in Approval |-> "new"]
  /\ conn = [c \in Client |-> "down"] /\ booted = {}
  /\ cursor = [c \in Client |-> 0] /\ wire = [c \in Client |-> <<>>]
  /\ plain = 0 /\ drops = 0 /\ restarts = 0
  /\ excused = [c \in Client |-> {}] /\ seen = [c \in Client |-> {}]
  /\ shown = [c \in Client |-> {}] /\ got = [c \in Client |-> <<>>]

-----------------------------------------------------------------------------

BroadcastJob(ev) == [job |-> "broadcast", ev |-> ev, seq |-> 0]

StreamJob(c)     == [job |-> "stream", to |-> c, after |-> cursor[c], pending |-> {},
                     collected |-> FALSE]

(* broadcast() of an event without a correlation id.                       *)
Broadcast ==
  /\ plain < MaxPlain
  /\ plain' = plain + 1
  /\ chain' = Append(chain, BroadcastJob(Plain(plain + 1)))
  /\ UNCHANGED <<outbox, pruning, idCounter, streams, approval, drops, restarts, clientVars>>

(* The broker tracks a request, saves it and then announces it; a decision
   drops the session and broadcasts in one go.                             *)
Ask(a) ==
  /\ approval[a] = "new"
  /\ approval' = [approval EXCEPT ![a] = "asked"]
  /\ UNCHANGED <<outbox, pruning, chain, idCounter, streams, plain, drops, restarts, clientVars>>

Announce(a) ==
  /\ approval[a] = "asked"
  /\ approval' = [approval EXCEPT ![a] = "announced"]
  /\ chain' = Append(chain, BroadcastJob(Required(a)))
  /\ UNCHANGED <<outbox, pruning, idCounter, streams, plain, drops, restarts, clientVars>>

Resolve(a) ==
  /\ approval[a] = "announced"
  /\ approval' = [approval EXCEPT ![a] = "resolved"]
  /\ chain' = Append(chain, BroadcastJob(Resolved(a)))
  /\ UNCHANGED <<outbox, pruning, idCounter, streams, plain, drops, restarts, clientVars>>

-----------------------------------------------------------------------------

Running(kind) == chain # <<>> /\ Head(chain).job = kind

(* The row appendInternal returns: the one that has the event's dedupe key,
   or a new one after the highest sequence number in the table.            *)
RowFor(ev) ==
  LET same == {r \in outbox : r.ev = ev}
  IN  IF same # {} THEN CHOOSE r \in same : TRUE ELSE [seq |-> MaxSeq + 1, ev |-> ev]

AppendRow ==
  /\ Running("broadcast") /\ Head(chain).seq = 0
  /\ LET row == RowFor(Head(chain).ev)
     IN  /\ outbox' = outbox \cup {row}
         /\ chain' = [chain EXCEPT ![1].seq = row.seq]
  /\ UNCHANGED <<pruning, idCounter, streams, approval, plain, drops, restarts, clientVars>>

(* The admission or the transaction throws: the error is logged.           *)
AppendFails ==
  /\ AppendsMayFail
  /\ Running("broadcast") /\ Head(chain).seq = 0
  /\ chain' = Tail(chain)
  /\ UNCHANGED <<outbox, pruning, idCounter, streams, approval, plain, drops, restarts, clientVars>>

WriteToStreams ==
  /\ Running("broadcast") /\ Head(chain).seq # 0
  /\ wire' = [c \in Client |->
       IF c \in streams THEN Append(wire[c], [id |-> Head(chain).seq, ev |-> Head(chain).ev])
                        ELSE wire[c]]
  /\ chain' = Tail(chain)
  /\ UNCHANGED <<outbox, pruning, idCounter, streams, approval, conn, booted, cursor,
                 plain, drops, restarts, excused, seen, shown, got>>

(* handleStream inside the chain: the approvals that are pending ...       *)
CollectApprovals ==
  /\ Running("stream") /\ ~Head(chain).collected
  /\ chain' = [chain EXCEPT ![1].pending = Pending, ![1].collected = TRUE]
  /\ UNCHANGED <<outbox, pruning, idCounter, streams, approval, plain, drops, restarts, clientVars>>

(* ... the rows after the cursor in their order, without the requests of
   those approvals ...                                                     *)
Replay(after, pending) ==
  LET due      == {r \in outbox : r.seq > after /\ r.ev \notin {Required(a) : a \in pending}}
      place(r) == Cardinality({s \in due : s.seq <= r.seq})
      nth(i)   == CHOOSE r \in due : place(r) = i
  IN  [i \in 1 .. Cardinality(due) |-> [id |-> nth(i).seq, ev |-> nth(i).ev]]

(* ... then those requests, numbered by eventIdCounter.                    *)
Resend(pending) ==
  LET due == SetToSeq(pending)
  IN  [i \in DOMAIN due |-> [id |-> idCounter + i, ev |-> Required(due[i])]]

(* Mutant of ReplayAndJoin: the stream joins without the rows that were
   appended while its job waited.                                          *)
ReplayUpToRequest ==
  /\ Running("stream") /\ Head(chain).collected
  /\ LET j == Head(chain)
     IN  /\ streams' = IF j.to = NoClient THEN streams ELSE streams \cup {j.to}
         /\ idCounter' = idCounter
         /\ wire' = wire
  /\ chain' = Tail(chain)
  /\ UNCHANGED <<outbox, pruning, approval, conn, booted, cursor, plain, drops, restarts,
                 excused, seen, shown, got>>

ReplayAndJoin ==
  /\ Running("stream") /\ Head(chain).collected
  /\ LET j == Head(chain)
         sent == Replay(j.after, j.pending) \o Resend(j.pending)
     IN  /\ wire' = [c \in Client |-> IF c = j.to THEN wire[c] \o sent ELSE wire[c]]
         /\ idCounter' = idCounter + Cardinality(j.pending)
         /\ streams' = IF j.to = NoClient THEN streams ELSE streams \cup {j.to}
  /\ chain' = Tail(chain)
  /\ UNCHANGED <<outbox, pruning, approval, conn, booted, cursor, plain, drops, restarts,
                 excused, seen, shown, got>>

-----------------------------------------------------------------------------

(* prune(): lists the rows, then removes one after the other, oldest first,
   those older than the retention and all but the newest MaxRecords.       *)
Prune ==
  /\ MayPrune /\ pruning = {}
  /\ \E oldest \in 0 .. (IF MayAge THEN MaxSeq ELSE 0) :
       LET overAge   == {r \in outbox : r.seq <= oldest}
           overCount == {r \in outbox :
                           Cardinality({s \in outbox : s.seq >= r.seq}) > MaxRecords}
       IN  pruning' = {r.seq : r \in overAge \cup overCount}
  /\ pruning' # {}
  /\ UNCHANGED <<outbox, chain, idCounter, streams, approval, plain, drops, restarts, clientVars>>

RemoveOldest ==
  /\ pruning # {}
  /\ outbox' = {r \in outbox : r.seq # Min(pruning)}
  /\ pruning' = pruning \ {Min(pruning)}
  /\ UNCHANGED <<chain, idCounter, streams, approval, plain, drops, restarts, clientVars>>

-----------------------------------------------------------------------------

(* connectSSE(): the snapshot first, unless one was had before.            *)
Connect(c) ==
  /\ conn[c] = "down"
  /\ conn' = [conn EXCEPT ![c] = IF c \in booted THEN "ready" ELSE "boot"]
  /\ UNCHANGED <<outbox, pruning, chain, idCounter, streams, approval, plain, drops, restarts,
                 booted, cursor, wire, excused, seen, shown, got>>

(* bootstrapSnapshot(): the pending approvals and the newest sequence
   number; a client that begins with it is not owed the events up to there. *)
Bootstrap(c) ==
  /\ conn[c] = "boot"
  /\ conn' = [conn EXCEPT ![c] = "ready"] /\ booted' = booted \cup {c}
  /\ cursor' = [cursor EXCEPT ![c] = Max({@, MaxSeq})]
  /\ excused' = [excused EXCEPT ![c] = IF cursor[c] = 0 THEN {r.ev : r \in outbox} ELSE @]
  /\ shown' = [shown EXCEPT ![c] = @ \cup Pending]
  /\ UNCHANGED <<outbox, pruning, chain, idCounter, streams, approval, plain, drops, restarts,
                 wire, seen, got>>

(* The snapshot is optional: without it the stream begins at the cursor.   *)
BootstrapFails(c) ==
  /\ SnapshotsMayFail /\ conn[c] = "boot"
  /\ conn' = [conn EXCEPT ![c] = "ready"]
  /\ UNCHANGED <<outbox, pruning, chain, idCounter, streams, approval, plain, drops, restarts,
                 booted, cursor, wire, excused, seen, shown, got>>

(* Mutant of RequestStream: a reconnect asks for the rows from the start.  *)
RequestStreamFromStart(c) ==
  /\ conn[c] = "ready"
  /\ conn' = [conn EXCEPT ![c] = "open"]
  /\ chain' = Append(chain, [StreamJob(c) EXCEPT !.after = 0])
  /\ UNCHANGED <<outbox, pruning, idCounter, streams, approval, plain, drops, restarts,
                 booted, cursor, wire, excused, seen, shown, got>>

(* GET /stream?after=lastOutboxSeq; handleStream queues the replay.        *)
RequestStream(c) ==
  /\ conn[c] = "ready"
  /\ conn' = [conn EXCEPT ![c] = "open"]
  /\ chain' = Append(chain, StreamJob(c))
  /\ UNCHANGED <<outbox, pruning, idCounter, streams, approval, plain, drops, restarts,
                 booted, cursor, wire, excused, seen, shown, got>>

(* parseSSEMessage(): every id that is a number moves the cursor.          *)
Receive(c) ==
  /\ wire[c] # <<>>
  /\ LET msg == Head(wire[c])
     IN  /\ cursor' = [cursor EXCEPT ![c] = Max({@, msg.id})]
         /\ seen' = [seen EXCEPT ![c] = @ \cup {msg.ev}]
         /\ got' = [got EXCEPT ![c] = IF msg.ev[1] = "plain" THEN Append(@, msg.ev[2]) ELSE @]
         /\ shown' = [shown EXCEPT ![c] =
              CASE msg.ev[1] = "approval_required" -> @ \cup {msg.ev[2]}
                [] msg.ev[1] = "approval_resolved" -> @ \ {msg.ev[2]}
                [] OTHER -> @]
  /\ wire' = [wire EXCEPT ![c] = Tail(@)]
  /\ UNCHANGED <<outbox, pruning, chain, idCounter, streams, approval, plain, drops, restarts,
                 conn, booted, excused>>

(* The connection is lost with what is on the wire.  A replay that is still
   queued runs for a response nobody reads.                                *)
Drop(c) ==
  /\ conn[c] = "open" /\ drops < MaxDrops
  /\ drops' = drops + 1
  /\ conn' = [conn EXCEPT ![c] = "down"]
  /\ wire' = [wire EXCEPT ![c] = <<>>]
  /\ streams' = streams \ {c}
  /\ chain' = [i \in DOMAIN chain |->
       IF chain[i].job = "stream" /\ chain[i].to = c THEN [chain[i] EXCEPT !.to = NoClient]
                                                     ELSE chain[i]]
  /\ UNCHANGED <<outbox, pruning, idCounter, approval, plain, restarts, booted, cursor,
                 excused, seen, shown, got>>

(* The daemon ends and starts again: the chain, the streams and the counter
   are in memory; the rows and the pending approvals are not.              *)
Restart ==
  /\ restarts < MaxRestarts
  /\ restarts' = restarts + 1
  /\ chain' = <<>> /\ streams' = {} /\ pruning' = {} /\ idCounter' = 0
  /\ conn' = [c \in Client |-> "down"]
  /\ wire' = [c \in Client |-> <<>>]
  /\ approval' = [a \in Approval |-> IF approval[a] = "asked" THEN "announced" ELSE approval[a]]
  /\ UNCHANGED <<outbox, plain, drops, booted, cursor, excused, seen, shown, got>>

ClientStep(c) == Connect(c) \/ Bootstrap(c) \/ RequestStream(c) \/ Receive(c)

ServerStep == AppendRow \/ WriteToStreams \/ CollectApprovals \/ ReplayAndJoin

Next ==
  \/ Broadcast \/ ServerStep \/ AppendFails \/ Prune \/ RemoveOldest \/ Restart
  \/ \E a \in Approval : Ask(a) \/ Announce(a) \/ Resolve(a)
  \/ \E c \in Client : ClientStep(c) \/ BootstrapFails(c) \/ Drop(c)

Spec == Init /\ [][Next]_vars

(* Promise continuations run, and a client that has lost its stream tries
   again: the losses a run allows are fewer than maxReconnectAttempts.      *)
FairSpec == Spec /\ WF_vars(ServerStep) /\ \A c \in Client : WF_vars(ClientStep(c))

-----------------------------------------------------------------------------

(* Every variable has its type.                                            *)
TypeOK ==
  /\ \A r \in outbox : r.seq \in Nat \ {0} /\ r.ev \in Event
  /\ pruning \subseteq Nat /\ idCounter \in Nat
  /\ \A i \in DOMAIN chain :
       \/ chain[i].job = "broadcast" /\ chain[i].ev \in Event /\ chain[i].seq \in Nat
       \/ chain[i].job = "stream" /\ chain[i].to \in Client \cup {NoClient}
            /\ chain[i].after \in Nat /\ chain[i].pending \subseteq Approval
  /\ streams \subseteq Client
  /\ approval \in [Approval -> {"new", "asked", "announced", "resolved"}]
  /\ conn \in [Client -> {"down", "boot", "ready", "open"}] /\ booted \subseteq Client
  /\ cursor \in [Client -> Nat]
  /\ \A c \in Client : \A i \in DOMAIN wire[c] : wire[c][i].id \in Nat /\ wire[c][i].ev \in Event
  /\ plain \in 0 .. MaxPlain /\ drops \in 0 .. MaxDrops /\ restarts \in 0 .. MaxRestarts
  /\ \A c \in Client : excused[c] \cup seen[c] \subseteq Event /\ shown[c] \subseteq Approval

(* A live stream with nothing under way for it.                            *)
Settled(c) == c \in streams /\ wire[c] = <<>> /\ chain = <<>>

(* However often its connection broke and wherever a broadcast, a replay or
   a restart then stood, a client whose stream is settled has been given
   every event the outbox keeps, the ones its snapshot stands for aside.   *)
CaughtUp ==
  \A c \in Client : Settled(c) =>
    \A r \in outbox : r.ev[1] # "approval_required" => r.ev \in seen[c] \cup excused[c]

(* A client whose stream is settled shows only approvals that are pending,
   and all that were announced: a replayed request does not outlive its
   resolution, and a request the client missed is sent again.              *)
ShownIsPending ==
  \A c \in Client : Settled(c) =>
    /\ shown[c] \subseteq Pending
    /\ {a \in Approval : approval[a] = "announced"} \subseteq shown[c]

(* A client is given the uncorrelated events in the order they were
   broadcast and none of them twice, across replays and live writes.       *)
InOrderOnce ==
  \A c \in Client : \A i, j \in DOMAIN got[c] : i < j => got[c][i] < got[c][j]

(* An event in the outbox reaches every client in the end.                 *)
EventReachesClient ==
  \A c \in Client : \A n \in 1 .. MaxPlain :
    (\E r \in outbox : r.ev = Plain(n)) ~> Plain(n) \in seen[c] \cup excused[c]

=============================================================================
