----------------------------- MODULE ClientsProofs -----------------------------
(***************************************************************************)
(* What is proved of what a client sees, where MCClients puts it together. *)
(*                                                                         *)
(* The event streams: events come in order, and a client that is connected *)
(* and has read everything has seen what it was owed.                      *)
(*                                                                         *)
(* The approval brokers: types, that a decision stands, and that the       *)
(* daemon's broker implements ApprovalDecision.  Two things are told apart *)
(* there.  A row is pending only while its approval is open (Sound), which *)
(* is enough for decisions to stand, for any number of brokers.  That a    *)
(* caller hears what was decided needs more: behind a live session only    *)
(* maintenance may decide, and only that the request has expired           *)
(* (LiveUnheard).                                                          *)
(***************************************************************************)
EXTENDS MCClients, FiniteSetTheorems, SequenceTheorems, TLAPS

-----------------------------------------------------------------------------
(* The client's stream.  Rows and messages, and the order of events.       *)

Events == ({"plain"} \X Nat) \cup ({"approval_required"} \X Asking)
            \cup ({"approval_resolved"} \X Asking)

IsPlain(e)   == e[1] = "plain"
Owed(e)      == e[1] # "approval_required"

(* Of two uncorrelated events the first was broadcast before the second.   *)
Before(e, f) == IsPlain(e) /\ IsPlain(f) => e[2] < f[2]

OutboxRow  == [seq : Nat \ {0}, ev : Events]
WireRow    == [id : Nat, ev : Events]
Message(r) == [id |-> r.seq, ev |-> r.ev]

LEMMA PlainEvents == \A e \in Events : IsPlain(e) => e[2] \in Nat
BY DEF Events, IsPlain

(* A sequence number names one row.                                        *)
Distinct(D) == \A r, s \in D : r.seq = s.seq => r = s

UpTo(D, r)  == {s \in D : s.seq <= r.seq}
Place(D, r) == Cardinality(UpTo(D, r))

(* The rows of a finite set have the places 1, 2, ... in the order of      *)
(* their numbers.                                                          *)
LEMMA Places ==
  ASSUME NEW D \in SUBSET OutboxRow, IsFiniteSet(D), Distinct(D)
  PROVE  /\ Cardinality(D) \in Nat
         /\ \A r \in D : Place(D, r) \in 1 .. Cardinality(D)
         /\ \A r, s \in D : r.seq < s.seq => Place(D, r) < Place(D, s)
         /\ \A i \in 1 .. Cardinality(D) : \E r \in D : Place(D, r) = i
<1> DEFINE n == Cardinality(D)
           f == [r \in D |-> Place(D, r)]
<1>1. n \in Nat
  BY FS_CardinalityType
<1>2. ASSUME NEW r \in D PROVE IsFiniteSet(UpTo(D, r)) /\ Place(D, r) \in 1 .. n
  <2>1. UpTo(D, r) \in SUBSET D /\ r \in UpTo(D, r)
    BY DEF UpTo, OutboxRow
  <2>2. IsFiniteSet(UpTo(D, r)) /\ Cardinality(UpTo(D, r)) <= n
    BY <2>1, FS_Subset
  <2>3. Cardinality(UpTo(D, r)) \in Nat /\ Cardinality(UpTo(D, r)) # 0
    BY <2>1, <2>2, FS_CardinalityType, FS_EmptySet
  <2> QED BY <1>1, <2>2, <2>3 DEF Place
<1>3. ASSUME NEW r \in D, NEW s \in D, r.seq < s.seq PROVE Place(D, r) < Place(D, s)
  <2>1. UpTo(D, r) \in SUBSET UpTo(D, s) /\ s \in UpTo(D, s) /\ s \notin UpTo(D, r)
    BY <1>3 DEF UpTo, OutboxRow
  <2>2. Cardinality(UpTo(D, r)) <= Cardinality(UpTo(D, s))
        /\ Cardinality(UpTo(D, r)) # Cardinality(UpTo(D, s))
    BY <1>2, <2>1, FS_Subset
  <2>3. Place(D, r) \in Nat /\ Place(D, s) \in Nat
    BY <1>1, <1>2
  <2> QED BY <2>2, <2>3 DEF Place
<1>4. \A i \in 1 .. n : \E r \in D : Place(D, r) = i
  <2>1. f \in [D -> 1 .. n]
    BY <1>2
  <2>2. \A r, s \in D : f[r] = f[s] => r = s
    <3> SUFFICES ASSUME NEW r \in D, NEW s \in D, r # s PROVE f[r] # f[s]
      OBVIOUS
    <3>1. r.seq < s.seq \/ s.seq < r.seq
      BY DEF Distinct, OutboxRow
    <3>2. Place(D, r) \in Nat /\ Place(D, s) \in Nat
      BY <1>1, <1>2
    <3> QED BY <1>3, <3>1, <3>2
  <2>3. f \in Injection(D, 1 .. n)
    BY <2>1, <2>2 DEF Injection, IsInjective
  <2>4. IsFiniteSet(1 .. n) /\ Cardinality(1 .. n) = n
    BY <1>1, FS_Interval
  <2>5. f \in Surjection(D, 1 .. n)
    BY <2>3, <2>4, FS_Injection
  <2> QED BY <2>5 DEF Surjection
<1> QED BY <1>1, <1>2, <1>3, <1>4

(* The row with the highest number.                                        *)
LEMMA HighestRow ==
  ASSUME NEW D \in SUBSET OutboxRow, IsFiniteSet(D), Distinct(D), D # {}
  PROVE  \E r \in D : \A s \in D : s.seq <= r.seq
<1> DEFINE n == Cardinality(D)
<1>1. n \in 1 .. n
  BY FS_CardinalityType, FS_EmptySet
<1>2. PICK r \in D : Place(D, r) = n
  BY <1>1, Places
<1>3. UpTo(D, r) \in SUBSET D
  BY DEF UpTo
<1>4. UpTo(D, r) = D
  BY <1>2, <1>3, FS_Subset DEF Place
<1> QED BY <1>4 DEF UpTo


(* What the streams assume of their constants.                             *)
LEMMA SetConstants ==
  /\ IsFiniteSet(Asking) /\ NoClient \notin Listener
  /\ Reached \in Nat \ {0}
BY Instances DEF Kept!OutboxAssumption, Kept!IsFiniteSet, IsFiniteSet

-----------------------------------------------------------------------------
(* Sequences, element by element.                                          *)

LEMMA Appended ==
  ASSUME NEW S, NEW s \in Seq(S), NEW e \in S
  PROVE  /\ Append(s, e) \in Seq(S) /\ Len(s) \in Nat
         /\ Len(Append(s, e)) = Len(s) + 1
         /\ Append(s, e)[Len(s) + 1] = e
         /\ \A i \in 1 .. Len(s) : Append(s, e)[i] = s[i] /\ i \in 1 .. Len(Append(s, e))
         /\ \A i \in 1 .. Len(Append(s, e)) : i \in 1 .. Len(s) \/ i = Len(s) + 1
<1>1. Len(s) \in Nat
  BY LenProperties
<1>2. /\ Append(s, e) \in Seq(S) /\ Len(Append(s, e)) = Len(s) + 1
      /\ Append(s, e)[Len(s) + 1] = e /\ \A i \in 1 .. Len(s) : Append(s, e)[i] = s[i]
  BY AppendProperties
<1> QED BY <1>1, <1>2

LEMMA Popped ==
  ASSUME NEW S, NEW s \in Seq(S), s # <<>>
  PROVE  /\ Head(s) = s[1] /\ Head(s) \in S /\ Len(s) \in Nat \ {0} /\ 1 \in 1 .. Len(s)
         /\ Tail(s) \in Seq(S) /\ Len(Tail(s)) = Len(s) - 1
         /\ \A i \in 1 .. Len(Tail(s)) : Tail(s)[i] = s[i + 1] /\ i + 1 \in 2 .. Len(s)
                                         /\ i + 1 \in 1 .. Len(s)
         /\ \A i \in 2 .. Len(s) : i - 1 \in 1 .. Len(Tail(s)) /\ Tail(s)[i - 1] = s[i]
<1>1. Len(s) \in Nat \ {0}
  BY EmptySeq
<1>2. /\ Head(s) \in S /\ Tail(s) \in Seq(S) /\ Len(Tail(s)) = Len(s) - 1
      /\ \A i \in 1 .. Len(Tail(s)) : Tail(s)[i] = s[i + 1]
  BY HeadTailProperties
<1>3. Head(s) = s[1]
  BY SMT
<1> QED BY <1>1, <1>2, <1>3

-----------------------------------------------------------------------------
(* What a step does to the streams, whatever bounds and failures it is     *)
(* given: the three kinds of streams differ in nothing else.               *)

BroadcastRow == [job : {"broadcast"}, ev : Events, seq : Nat]
StreamRow    == [job : {"stream"}, to : Listener \cup {NoClient}, after : Nat,
                 pending : SUBSET Asking, collected : BOOLEAN]
JobRow       == BroadcastRow \cup StreamRow

StreamTyped ==
  /\ outbox \in SUBSET OutboxRow /\ IsFiniteSet(outbox) /\ Distinct(outbox)
  /\ chain \in Seq(JobRow)
  /\ wire \in [Listener -> Seq(WireRow)] /\ got \in [Listener -> Seq(Nat)]
  /\ cursor \in [Listener -> Nat] /\ conn \in [Listener -> {"down", "boot", "ready", "open"}]
  /\ streams \in SUBSET Listener /\ plain \in Nat /\ idCounter \in Nat
  /\ booted \in SUBSET Listener
  /\ excused \in [Listener -> SUBSET Events] /\ seen \in [Listener -> SUBSET Events]

HeadIs(kind) == chain # <<>> /\ Head(chain).job = kind

NewJob(e) == [job |-> "broadcast", ev |-> e, seq |-> 0]
NewStream(c) == [job |-> "stream", to |-> c, after |-> cursor[c], pending |-> {},
                 collected |-> FALSE]

Submits(e) ==
  /\ chain' = Append(chain, NewJob(e))
  /\ IF IsPlain(e) THEN e[2] = plain + 1 /\ plain' = plain + 1 ELSE plain' = plain
  /\ UNCHANGED <<outbox, streams, idCounter, conn, booted, cursor, wire, excused, seen, got>>

Stores(r) ==
  /\ HeadIs("broadcast") /\ Head(chain).seq = 0
  /\ r.ev = Head(chain).ev
  /\ r \in outbox \/ \A s \in outbox : s.seq < r.seq
  /\ outbox' = outbox \cup {r}
  /\ chain' = [chain EXCEPT ![1].seq = r.seq]
  /\ UNCHANGED <<plain, streams, idCounter, conn, booted, cursor, wire, excused, seen, got>>

Forgets ==
  /\ HeadIs("broadcast") /\ Head(chain).seq = 0 /\ chain' = Tail(chain)
  /\ UNCHANGED <<outbox, plain, streams, idCounter, conn, booted, cursor, wire, excused, seen, got>>

HeadMessage == [id |-> Head(chain).seq, ev |-> Head(chain).ev]

Writes ==
  /\ HeadIs("broadcast") /\ Head(chain).seq # 0 /\ chain' = Tail(chain)
  /\ wire' = [c \in Listener |-> IF c \in streams THEN Append(wire[c], HeadMessage) ELSE wire[c]]
  /\ UNCHANGED <<outbox, plain, streams, idCounter, conn, booted, cursor, excused, seen, got>>

Collects(P) ==
  /\ HeadIs("stream")
  /\ chain' = [chain EXCEPT ![1].pending = P, ![1].collected = TRUE]
  /\ UNCHANGED <<outbox, plain, streams, idCounter, conn, booted, cursor, wire, excused, seen, got>>

(* The first n messages are rows after the cursor in their order, with all *)
(* that are owed; the others are requests under numbers of their own.      *)
Sends(sent, n, after) ==
  /\ \A k \in 1 .. n : \E r \in outbox : r.seq > after /\ sent[k] = Message(r)
  /\ \A k, l \in 1 .. n : k < l => sent[k].id < sent[l].id
  /\ \A r \in outbox : r.seq > after /\ Owed(r.ev) => \E k \in 1 .. n : sent[k] = Message(r)
  /\ \A k \in 1 .. Len(sent) : k > n => ~Owed(sent[k].ev) /\ sent[k].id <= idCounter'

Replays(sent, n) ==
  /\ HeadIs("stream") /\ chain' = Tail(chain)
  /\ Sends(sent, n, Head(chain).after)
  /\ wire' = [c \in Listener |-> IF c = Head(chain).to THEN wire[c] \o sent ELSE wire[c]]
  /\ streams' = IF Head(chain).to = NoClient THEN streams ELSE streams \cup {Head(chain).to}
  /\ idCounter' \in Nat /\ idCounter <= idCounter'
  /\ UNCHANGED <<outbox, plain, conn, booted, cursor, excused, seen, got>>

Shrinks ==
  /\ outbox' \subseteq outbox
  /\ UNCHANGED <<chain, plain, streams, idCounter, conn, booted, cursor, wire, excused, seen, got>>

Connects(c) ==
  /\ conn[c] = "down"
  /\ conn' = [conn EXCEPT ![c] = IF c \in booted THEN "ready" ELSE "boot"]
  /\ UNCHANGED <<outbox, chain, plain, streams, idCounter, booted, cursor, wire, excused, seen, got>>

Boots(c, n) ==
  /\ conn[c] = "boot" /\ conn' = [conn EXCEPT ![c] = "ready"] /\ booted' = booted \cup {c}
  /\ cursor[c] <= n /\ \A r \in outbox : r.seq <= n
  /\ n # cursor[c] => \E r \in outbox : r.seq = n
  /\ cursor' = [cursor EXCEPT ![c] = n]
  /\ excused' = [excused EXCEPT ![c] = IF cursor[c] = 0 THEN {r.ev : r \in outbox} ELSE @]
  /\ UNCHANGED <<outbox, chain, plain, streams, idCounter, wire, seen, got>>

BootFails(c) ==
  /\ conn[c] = "boot" /\ conn' = [conn EXCEPT ![c] = "ready"]
  /\ UNCHANGED <<outbox, chain, plain, streams, idCounter, booted, cursor, wire, excused, seen, got>>

Requests(c) ==
  /\ conn[c] = "ready" /\ conn' = [conn EXCEPT ![c] = "open"]
  /\ chain' = Append(chain, NewStream(c))
  /\ UNCHANGED <<outbox, plain, streams, idCounter, booted, cursor, wire, excused, seen, got>>

Receives(c, n) ==
  /\ wire[c] # <<>> /\ wire' = [wire EXCEPT ![c] = Tail(@)]
  /\ cursor[c] <= n /\ Head(wire[c]).id <= n /\ n \in {cursor[c], Head(wire[c]).id}
  /\ cursor' = [cursor EXCEPT ![c] = n]
  /\ seen' = [seen EXCEPT ![c] = @ \cup {Head(wire[c]).ev}]
  /\ got' = [got EXCEPT ![c] =
       IF IsPlain(Head(wire[c]).ev) THEN Append(@, Head(wire[c]).ev[2]) ELSE @]
  /\ UNCHANGED <<outbox, chain, plain, streams, idCounter, conn, booted, excused>>

Orphaned(j, c) == IF j.job = "stream" /\ j.to = c THEN [j EXCEPT !.to = NoClient] ELSE j

Drops(c) ==
  /\ conn[c] = "open" /\ conn' = [conn EXCEPT ![c] = "down"]
  /\ wire' = [wire EXCEPT ![c] = <<>>] /\ streams' = streams \ {c}
  /\ chain' = [i \in DOMAIN chain |-> Orphaned(chain[i], c)]
  /\ UNCHANGED <<outbox, plain, idCounter, booted, cursor, excused, seen, got>>

Restarts ==
  /\ chain' = <<>> /\ streams' = {} /\ idCounter' = 0
  /\ conn' = [c \in Listener |-> "down"] /\ wire' = [c \in Listener |-> <<>>]
  /\ UNCHANGED <<outbox, plain, booted, cursor, excused, seen, got>>

Stands == UNCHANGED <<outbox, chain, plain, streams, idCounter, conn, booted, cursor, wire,
                      excused, seen, got>>

(* The moves that lose nothing, and those of pruning and of a snapshot     *)
(* that fails.                                                             *)
KeepingMoves ==
  \/ \E e \in Events : Submits(e)
  \/ \E r \in OutboxRow : Stores(r)
  \/ Forgets \/ Writes \/ Restarts \/ Stands
  \/ \E P \in SUBSET Asking : Collects(P)
  \/ \E sent \in Seq(WireRow) : \E n \in 0 .. Len(sent) : Replays(sent, n)
  \/ \E c \in Listener : Connects(c) \/ Requests(c) \/ Drops(c)
                         \/ \E n \in Nat : Boots(c, n) \/ Receives(c, n)

LosingMoves == Shrinks \/ \E c \in Listener : BootFails(c)

(* The jobs of the chain are of two kinds.                                 *)
LEMMA JobTypes ==
  \A j \in JobRow :
    /\ j.job \in {"broadcast", "stream"}
    /\ j.job = "broadcast" => j \in BroadcastRow /\ j.ev \in Events /\ j.seq \in Nat
    /\ j.job = "stream" => j \in StreamRow /\ j.to \in Listener \cup {NoClient} /\ j.after \in Nat
BY DEF JobRow, BroadcastRow, StreamRow

(* The head of the chain.                                                  *)
LEMMA HeadJob ==
  ASSUME StreamTyped, NEW kind, HeadIs(kind)
  PROVE  /\ chain # <<>> /\ Head(chain) = chain[1] /\ chain[1].job = kind
         /\ 1 \in 1 .. Len(chain) /\ Len(chain) \in Nat \ {0} /\ chain[1] \in JobRow
         /\ Tail(chain) \in Seq(JobRow) /\ Len(Tail(chain)) = Len(chain) - 1
         /\ \A i \in 1 .. Len(Tail(chain)) : Tail(chain)[i] = chain[i + 1]
              /\ i + 1 \in 2 .. Len(chain) /\ i + 1 \in 1 .. Len(chain)
         /\ \A i \in 2 .. Len(chain) :
              i - 1 \in 1 .. Len(Tail(chain)) /\ Tail(chain)[i - 1] = chain[i]
<1>1. chain \in Seq(JobRow) /\ chain # <<>> /\ Head(chain).job = kind
  BY DEF StreamTyped, HeadIs
<1> QED BY <1>1, Popped

LEMMA TypedMoves ==
  ASSUME StreamTyped, KeepingMoves \/ LosingMoves
  PROVE  StreamTyped'
<1>1. ASSUME NEW e \in Events, Submits(e) PROVE StreamTyped'
  <2>1. NewJob(e) \in JobRow
    BY DEF NewJob, JobRow, BroadcastRow
  <2>2. chain' \in Seq(JobRow)
    BY <1>1, <2>1 DEF Submits, StreamTyped
  <2>3. plain' \in Nat
    BY <1>1 DEF Submits, StreamTyped
  <2> QED BY <1>1, <2>2, <2>3 DEF Submits, StreamTyped
<1>2. ASSUME NEW r \in OutboxRow, Stores(r) PROVE StreamTyped'
  <2>1. HeadIs("broadcast")
    BY <1>2 DEF Stores
  <2>2. chain[1] \in BroadcastRow /\ chain[1].job = "broadcast" /\ 1 \in 1 .. Len(chain)
    BY <2>1, HeadJob, JobTypes
  <2> DEFINE stored == [chain[1] EXCEPT !.seq = r.seq]
  <2>3. stored \in JobRow
    BY <2>2 DEF JobRow, BroadcastRow, OutboxRow
  <2>4. chain' = [chain EXCEPT ![1] = stored]
    BY <1>2 DEF Stores
  <2>5. chain' \in Seq(JobRow)
    <3> HIDE DEF stored
    <3> QED BY <2>2, <2>3, <2>4, ExceptSeq DEF StreamTyped
  <2>6. IsFiniteSet(outbox')
    BY <1>2, FS_AddElement DEF Stores, StreamTyped
  <2>7. Distinct(outbox)'
    BY <1>2 DEF Stores, StreamTyped, Distinct, OutboxRow
  <2> QED BY <1>2, <2>5, <2>6, <2>7 DEF Stores, StreamTyped
<1>3. ASSUME Forgets PROVE StreamTyped'
  BY <1>3, HeadJob DEF Forgets, StreamTyped
<1>4. ASSUME Writes PROVE StreamTyped'
  <2>1. HeadIs("broadcast")
    BY <1>4 DEF Writes
  <2>2. chain[1] \in BroadcastRow /\ Head(chain) = chain[1] /\ Tail(chain) \in Seq(JobRow)
    BY <2>1, HeadJob, JobTypes
  <2>3. HeadMessage \in WireRow
    BY <2>2 DEF HeadMessage, BroadcastRow, WireRow
  <2>4. \A c \in Listener : Append(wire[c], HeadMessage) \in Seq(WireRow)
    BY <2>3, AppendProperties DEF StreamTyped
  <2>5. wire' \in [Listener -> Seq(WireRow)]
    BY <1>4, <2>4 DEF Writes, StreamTyped
  <2> QED BY <1>4, <2>2, <2>5 DEF Writes, StreamTyped
<1>5. ASSUME NEW P \in SUBSET Asking, Collects(P) PROVE StreamTyped'
  <2>1. HeadIs("stream")
    BY <1>5 DEF Collects
  <2>2. chain[1] \in StreamRow /\ 1 \in 1 .. Len(chain)
    BY <2>1, HeadJob, JobTypes
  <2> DEFINE collected == [chain[1] EXCEPT !.pending = P, !.collected = TRUE]
  <2>3. collected \in JobRow
    BY <2>2 DEF JobRow, StreamRow
  <2>4. chain' = [chain EXCEPT ![1] = collected]
    BY <1>5 DEF Collects, StreamTyped
  <2>5. chain' \in Seq(JobRow)
    <3> HIDE DEF collected
    <3> QED BY <2>2, <2>3, <2>4, ExceptSeq DEF StreamTyped
  <2> QED BY <1>5, <2>5 DEF Collects, StreamTyped
<1>6. ASSUME NEW sent \in Seq(WireRow), NEW n \in 0 .. Len(sent), Replays(sent, n)
      PROVE  StreamTyped'
  <2>1. HeadIs("stream")
    BY <1>6 DEF Replays
  <2>2. chain[1] \in StreamRow /\ chain[1].to \in Listener \cup {NoClient}
        /\ Head(chain) = chain[1] /\ Tail(chain) \in Seq(JobRow)
    BY <2>1, HeadJob, JobTypes
  <2>3. \A c \in Listener : wire[c] \o sent \in Seq(WireRow)
    BY ConcatProperties DEF StreamTyped
  <2>4. wire' \in [Listener -> Seq(WireRow)]
    BY <1>6, <2>3 DEF Replays, StreamTyped
  <2>5. streams' \in SUBSET Listener
    BY <1>6, <2>2 DEF Replays, StreamTyped
  <2> QED BY <1>6, <2>2, <2>4, <2>5 DEF Replays, StreamTyped
<1>7. ASSUME NEW c \in Listener, Connects(c) \/ BootFails(c) PROVE StreamTyped'
  BY <1>7 DEF Connects, BootFails, StreamTyped
<1>8. ASSUME NEW c \in Listener, Requests(c) PROVE StreamTyped'
  <2>1. NewStream(c) \in JobRow
    BY DEF NewStream, JobRow, StreamRow, StreamTyped
  <2>2. chain' \in Seq(JobRow)
    BY <1>8, <2>1 DEF Requests, StreamTyped
  <2> QED BY <1>8, <2>2 DEF Requests, StreamTyped
<1>9. ASSUME NEW c \in Listener, Drops(c) PROVE StreamTyped'
  <2>1. \A j \in JobRow : Orphaned(j, c) \in JobRow
    BY DEF Orphaned, JobRow, BroadcastRow, StreamRow
  <2>2. Len(chain) \in Nat /\ DOMAIN chain = 1 .. Len(chain)
        /\ \A i \in 1 .. Len(chain) : chain[i] \in JobRow
    BY DEF StreamTyped
  <2>3. \A i \in 1 .. Len(chain) : Orphaned(chain[i], c) \in JobRow
    BY <2>1, <2>2
  <2>4. chain' = [i \in 1 .. Len(chain) |-> Orphaned(chain[i], c)]
    BY <1>9, <2>2 DEF Drops
  <2>5. chain' \in Seq(JobRow)
    <3> HIDE DEF Orphaned
    <3> QED BY <2>2, <2>3, <2>4
  <2>6. wire' \in [Listener -> Seq(WireRow)]
    BY <1>9 DEF Drops, StreamTyped
  <2> QED BY <1>9, <2>5, <2>6 DEF Drops, StreamTyped
<1>10. ASSUME NEW c \in Listener, NEW n \in Nat, Boots(c, n) PROVE StreamTyped'
  <2>1. {r.ev : r \in outbox} \in SUBSET Events
    BY DEF StreamTyped, OutboxRow
  <2>2. excused' \in [Listener -> SUBSET Events]
    <3> DEFINE given == IF cursor[c] = 0 THEN {r.ev : r \in outbox} ELSE excused[c]
    <3>1. given \in SUBSET Events
      BY <2>1 DEF StreamTyped
    <3>2. excused' = [excused EXCEPT ![c] = given]
      BY <1>10 DEF Boots
    <3> HIDE DEF given
    <3> QED BY <3>1, <3>2 DEF StreamTyped
  <2> QED BY <1>10, <2>2 DEF Boots, StreamTyped
<1>11. ASSUME NEW c \in Listener, NEW n \in Nat, Receives(c, n) PROVE StreamTyped'
  <2> DEFINE m == Head(wire[c])
  <2>1. wire[c] \in Seq(WireRow) /\ wire[c] # <<>> /\ got[c] \in Seq(Nat)
    BY <1>11 DEF Receives, StreamTyped
  <2>2. m \in WireRow /\ Tail(wire[c]) \in Seq(WireRow)
    BY <2>1, Popped
  <2>3. m.ev \in Events
    BY <2>2 DEF WireRow
  <2>4. wire' \in [Listener -> Seq(WireRow)]
    BY <1>11, <2>2 DEF Receives, StreamTyped
  <2>5. got' \in [Listener -> Seq(Nat)]
    <3> DEFINE given == IF IsPlain(m.ev) THEN Append(got[c], m.ev[2]) ELSE got[c]
    <3>1. given \in Seq(Nat)
      BY <2>1, <2>3, PlainEvents
    <3>2. got' = [got EXCEPT ![c] = given]
      BY <1>11 DEF Receives
    <3> HIDE DEF given
    <3> QED BY <3>1, <3>2 DEF StreamTyped
  <2>6. seen' \in [Listener -> SUBSET Events]
    <3>1. seen[c] \cup {m.ev} \in SUBSET Events
      BY <2>3 DEF StreamTyped
    <3>2. seen' = [seen EXCEPT ![c] = seen[c] \cup {m.ev}]
      BY <1>11 DEF Receives
    <3> QED BY <3>1, <3>2 DEF StreamTyped
  <2> QED BY <1>11, <2>4, <2>5, <2>6 DEF Receives, StreamTyped
<1>12. ASSUME Shrinks PROVE StreamTyped'
  <2>1. IsFiniteSet(outbox')
    BY <1>12, FS_Subset DEF Shrinks, StreamTyped
  <2> QED BY <1>12, <2>1 DEF Shrinks, StreamTyped, Distinct
<1>13. ASSUME Restarts PROVE StreamTyped'
  BY <1>13 DEF Restarts, StreamTyped
<1>14. ASSUME Stands PROVE StreamTyped'
  BY <1>14 DEF Stands, StreamTyped
<1> QED
  BY <1>1, <1>2, <1>3, <1>4, <1>5, <1>6, <1>7, <1>8, <1>9, <1>10, <1>11, <1>12, <1>13, <1>14
     DEF KeepingMoves, LosingMoves

-----------------------------------------------------------------------------
(* The order of events, wherever they are: in the outbox, in the chain, on *)
(* the wire or given.                                                      *)

Broadcasts(i) == i \in 1 .. Len(chain) /\ chain[i].job = "broadcast"
Joins(i, c)   == i \in 1 .. Len(chain) /\ chain[i].job = "stream" /\ chain[i].to = c

GivenBefore(c, e) == \A k \in 1 .. Len(got[c]) : IsPlain(e) => got[c][k] < e[2]
SentBefore(c, e)  == \A k \in 1 .. Len(wire[c]) : Before(wire[c][k].ev, e)

RowsOrdered == \A r, s \in outbox : r.seq < s.seq => Before(r.ev, s.ev)

ChainOrdered ==
  \A i, j \in Nat : Broadcasts(i) /\ Broadcasts(j) /\ i < j =>
    Before(chain[i].ev, chain[j].ev) /\ chain[j].seq = 0

(* What waits in the chain comes after what is anywhere else, the row that *)
(* has been stored already aside.                                          *)
RowsComeBefore(i) ==
  IF chain[i].seq = 0 THEN \A r \in outbox : Before(r.ev, chain[i].ev)
                      ELSE \A r \in outbox : r.seq > chain[i].seq => Before(chain[i].ev, r.ev)

ChainIsNew ==
  \A i \in Nat : Broadcasts(i) =>
    /\ RowsComeBefore(i)
    /\ \A c \in Listener : GivenBefore(c, chain[i].ev) /\ SentBefore(c, chain[i].ev)

HeadOnly == \A i \in Nat : Broadcasts(i) /\ chain[i].seq # 0 => i = 1

WireOrdered(c) ==
  \A k \in 1 .. Len(wire[c]) :
    /\ GivenBefore(c, wire[c][k].ev)
    /\ \A l \in 1 .. Len(wire[c]) : k < l => Before(wire[c][k].ev, wire[c][l].ev)
    /\ \A r \in outbox : r.seq > wire[c][k].id => Before(wire[c][k].ev, r.ev)

RowsToGive(c)   == \A r \in outbox : r.seq > cursor[c] => GivenBefore(c, r.ev)
GivenInOrder(c) == \A i, j \in 1 .. Len(got[c]) : i < j => got[c][i] < got[c][j]

(* A stream that waits in the chain has nothing on the wire and goes on    *)
(* from the client's cursor.                                               *)
StreamsSound ==
  /\ \A c \in Listener : conn[c] # "open" => wire[c] = <<>> /\ c \notin streams
  /\ \A c \in Listener, i \in Nat : Joins(i, c) =>
       /\ chain[i].after = cursor[c] /\ wire[c] = <<>> /\ c \notin streams /\ conn[c] = "open"
       /\ \A j \in Nat : Joins(j, c) => i = j

(* The uncorrelated events are numbered as they are broadcast.             *)
UpToPlain(e) == IsPlain(e) => e[2] <= plain

Numbered ==
  /\ \A r \in outbox : UpToPlain(r.ev)
  /\ \A i \in Nat : Broadcasts(i) => UpToPlain(chain[i].ev)
  /\ \A c \in Listener : /\ \A k \in 1 .. Len(wire[c]) : UpToPlain(wire[c][k].ev)
                         /\ \A k \in 1 .. Len(got[c]) : got[c][k] <= plain

ClientOrdered(c) == WireOrdered(c) /\ RowsToGive(c) /\ GivenInOrder(c)

Ordered ==
  /\ RowsOrdered /\ ChainOrdered /\ ChainIsNew /\ HeadOnly /\ StreamsSound /\ Numbered
  /\ \A c \in Listener : ClientOrdered(c)

(* The types that the order is about.                                      *)
LEMMA OrderTypes ==
  ASSUME StreamTyped
  PROVE  /\ Len(chain) \in Nat
         /\ \A i \in Nat : Broadcasts(i) => chain[i].ev \in Events /\ chain[i].seq \in Nat
         /\ \A r \in outbox : r.seq \in Nat /\ r.seq # 0 /\ r.ev \in Events
         /\ \A c \in Listener :
              /\ cursor[c] \in Nat /\ Len(wire[c]) \in Nat /\ Len(got[c]) \in Nat
              /\ \A k \in 1 .. Len(wire[c]) : wire[c][k].id \in Nat /\ wire[c][k].ev \in Events
              /\ \A k \in 1 .. Len(got[c]) : got[c][k] \in Nat
         /\ plain \in Nat
<1>1. Len(chain) \in Nat /\ \A i \in 1 .. Len(chain) : chain[i] \in JobRow
  BY LenProperties, ElementOfSeq DEF StreamTyped
<1>2. \A i \in Nat : Broadcasts(i) => chain[i].ev \in Events /\ chain[i].seq \in Nat
  BY <1>1, JobTypes DEF Broadcasts
<1>3. \A r \in outbox : r.seq \in Nat /\ r.seq # 0 /\ r.ev \in Events
  BY DEF StreamTyped, OutboxRow
<1>4. ASSUME NEW c \in Listener
      PROVE  /\ cursor[c] \in Nat /\ Len(wire[c]) \in Nat /\ Len(got[c]) \in Nat
             /\ \A k \in 1 .. Len(wire[c]) : wire[c][k].id \in Nat /\ wire[c][k].ev \in Events
             /\ \A k \in 1 .. Len(got[c]) : got[c][k] \in Nat
  <2>1. wire[c] \in Seq(WireRow) /\ got[c] \in Seq(Nat) /\ cursor[c] \in Nat
    BY DEF StreamTyped
  <2>2. \A k \in 1 .. Len(wire[c]) : wire[c][k] \in WireRow
    BY <2>1
  <2>3. \A k \in 1 .. Len(wire[c]) : wire[c][k].id \in Nat /\ wire[c][k].ev \in Events
    BY <2>2 DEF WireRow
  <2> QED BY <2>1, <2>3
<1> QED BY <1>1, <1>2, <1>3, <1>4 DEF StreamTyped

LEMMA SubmitsOrdered ==
  ASSUME StreamTyped, Ordered, NEW e \in Events, Submits(e)
  PROVE  Ordered'
<1> DEFINE n == Len(chain) + 1
<1> USE DEF Ordered
<1>1. UNCHANGED <<outbox, streams, conn, cursor, wire, got>>
  BY DEF Submits
<1>2. NewJob(e) \in JobRow /\ NewJob(e).job = "broadcast" /\ NewJob(e).ev = e /\ NewJob(e).seq = 0
  BY DEF NewJob, JobRow, BroadcastRow
<1>3. /\ n \in Nat /\ Len(chain') = n /\ chain'[n] = NewJob(e)
      /\ \A i \in 1 .. Len(chain) : chain'[i] = chain[i]
  BY <1>2, Appended DEF Submits, StreamTyped
<1>4. \A i \in Nat : Broadcasts(i)' <=> Broadcasts(i) \/ i = n
  BY <1>2, <1>3, OrderTypes DEF Broadcasts
<1>5. \A i \in Nat, c \in Listener : Joins(i, c)' <=> Joins(i, c)
  BY <1>2, <1>3, OrderTypes DEF Joins
<1>6. \A i \in Nat : Broadcasts(i) => chain'[i] = chain[i] /\ i < n
  BY <1>3, OrderTypes DEF Broadcasts
<1>7. \A i \in Nat, c \in Listener : Joins(i, c) => chain'[i] = chain[i]
  BY <1>3 DEF Joins
<1>8. chain'[n].ev = e /\ chain'[n].seq = 0
  BY <1>2, <1>3
<1>9. plain' \in Nat /\ plain <= plain' /\ (IsPlain(e) => e[2] = plain + 1 /\ e[2] <= plain')
  BY OrderTypes DEF Submits
<1>10. \A f \in Events : UpToPlain(f) => Before(f, e) /\ UpToPlain(f)'
  BY <1>9, PlainEvents, OrderTypes DEF UpToPlain, Before
<1> HIDE DEF n
<1>11. RowsOrdered'
  BY <1>1 DEF RowsOrdered
<1>12. ChainOrdered'
  BY <1>4, <1>6, <1>8, <1>10, OrderTypes DEF ChainOrdered, Numbered
<1>13. ChainIsNew'
  <2> SUFFICES ASSUME NEW i \in Nat, Broadcasts(i)'
               PROVE  /\ RowsComeBefore(i)'
                      /\ \A c \in Listener : (GivenBefore(c, chain[i].ev) /\ SentBefore(c, chain[i].ev))'
    BY DEF ChainIsNew
  <2>1. CASE Broadcasts(i)
    BY <1>1, <1>6, <2>1 DEF ChainIsNew, RowsComeBefore, GivenBefore, SentBefore
  <2>2. CASE i = n
    <3>1. RowsComeBefore(i)'
      BY <1>1, <1>8, <1>10, <2>2, OrderTypes DEF RowsComeBefore, Numbered
    <3>2. \A c \in Listener : GivenBefore(c, e)'
      BY <1>1, <1>9, OrderTypes DEF GivenBefore, Numbered
    <3>3. \A c \in Listener : SentBefore(c, e)'
      BY <1>1, <1>10, OrderTypes DEF SentBefore, Numbered
    <3> QED BY <1>8, <2>2, <3>1, <3>2, <3>3
  <2> QED BY <1>4, <2>1, <2>2
<1>14. HeadOnly'
  BY <1>4, <1>6, <1>8 DEF HeadOnly
<1>15. StreamsSound'
  BY <1>1, <1>5, <1>7 DEF StreamsSound
<1>16. Numbered'
  <2>1. UpToPlain(e)'
    BY <1>9 DEF UpToPlain
  <2>2. \A i \in Nat : Broadcasts(i)' => UpToPlain(chain[i].ev)'
    BY <1>4, <1>6, <1>8, <1>10, <2>1, OrderTypes DEF Numbered
  <2>3. \A r \in outbox : UpToPlain(r.ev)'
    BY <1>10, OrderTypes DEF Numbered
  <2>4. ASSUME NEW c \in Listener, NEW k \in 1 .. Len(wire[c])
        PROVE  wire[c][k].ev \in Events /\ UpToPlain(wire[c][k].ev)
    BY <2>4, OrderTypes DEF Numbered
  <2>5. ASSUME NEW c \in Listener, NEW k \in 1 .. Len(got[c]) PROVE got[c][k] <= plain'
    BY <1>9, <2>5, OrderTypes DEF Numbered
  <2>6. (\A r \in outbox : UpToPlain(r.ev))'
    BY <1>1, <2>3
  <2>7. ASSUME NEW c \in Listener, NEW k \in 1 .. Len(wire[c]) PROVE UpToPlain(wire[c][k].ev)'
    BY <1>1, <1>9, <2>4, <2>7, PlainEvents, OrderTypes DEF UpToPlain
  <2>8. (\A c \in Listener : /\ \A k \in 1 .. Len(wire[c]) : UpToPlain(wire[c][k].ev)
                            /\ \A k \in 1 .. Len(got[c]) : got[c][k] <= plain)'
    BY <1>1, <2>5, <2>7
  <2> QED BY <2>2, <2>6, <2>8 DEF Numbered
<1>17. \A c \in Listener : ClientOrdered(c)'
  BY <1>1 DEF ClientOrdered, WireOrdered, RowsToGive, GivenInOrder, GivenBefore
<1> QED BY <1>11, <1>12, <1>13, <1>14, <1>15, <1>16, <1>17

-----------------------------------------------------------------------------
(* What a step computes, for all three kinds of streams.                   *)

Highest(S) == CHOOSE x \in S : \A y \in S : x >= y

LastSeq == IF outbox = {} THEN 0 ELSE Highest({r.seq : r \in outbox})

RowOf(e) ==
  LET same == {r \in outbox : r.ev = e}
  IN  IF same # {} THEN CHOOSE r \in same : TRUE ELSE [seq |-> LastSeq + 1, ev |-> e]

Due(n, P) == {r \in outbox : r.seq > n /\ r.ev \notin {<<"approval_required", a>> : a \in P}}
Nth(D, i) == CHOOSE r \in D : Place(D, r) = i

ReplayOf(n, P) ==
  [i \in 1 .. Cardinality(Due(n, P)) |->
     [id |-> Nth(Due(n, P), i).seq, ev |-> Nth(Due(n, P), i).ev]]

ListOf(P) == CHOOSE f \in [1 .. Cardinality(P) -> P] : IsInjective(f)

ResendOf(P) ==
  [i \in DOMAIN ListOf(P) |-> [id |-> idCounter + i, ev |-> <<"approval_required", ListOf(P)[i]>>]]

LEMMA SameSets ==
  \A S : /\ Kept!Cardinality(S) = Cardinality(S) /\ Pruned!Cardinality(S) = Cardinality(S)
         /\ Live!Cardinality(S) = Cardinality(S)
BY DEF Kept!Cardinality, Pruned!Cardinality, Live!Cardinality, Cardinality

LEMMA SameHighest ==
  \A S : Kept!Max(S) = Highest(S) /\ Pruned!Max(S) = Highest(S) /\ Live!Max(S) = Highest(S)
BY Zenon DEF Kept!Max, Pruned!Max, Live!Max, Highest

LEMMA SameLast == Kept!MaxSeq = LastSeq /\ Pruned!MaxSeq = LastSeq /\ Live!MaxSeq = LastSeq
BY SameHighest, Zenon DEF Kept!MaxSeq, Pruned!MaxSeq, Live!MaxSeq, LastSeq

LEMMA SameRow ==
  \A e : Kept!RowFor(e) = RowOf(e) /\ Pruned!RowFor(e) = RowOf(e) /\ Live!RowFor(e) = RowOf(e)
<1> TAKE e
<1>1. Kept!RowFor(e) = RowOf(e)
  BY SameLast, SMT DEF Kept!RowFor, RowOf
<1>2. Pruned!RowFor(e) = RowOf(e)
  BY SameLast, SMT DEF Pruned!RowFor, RowOf
<1>3. Live!RowFor(e) = RowOf(e)
  BY SameLast, SMT DEF Live!RowFor, RowOf
<1> QED BY <1>1, <1>2, <1>3

LEMMA SameReplay ==
  \A n, P : /\ Kept!Replay(n, P) = ReplayOf(n, P) /\ Pruned!Replay(n, P) = ReplayOf(n, P)
            /\ Live!Replay(n, P) = ReplayOf(n, P)
<1> TAKE n, P
<1>1. Kept!Replay(n, P) = ReplayOf(n, P)
  BY SameSets, Zenon DEF Kept!Replay, Kept!Required, ReplayOf, Nth, Place, UpTo, Due
<1>2. Pruned!Replay(n, P) = ReplayOf(n, P)
  BY SameSets, Zenon DEF Pruned!Replay, Pruned!Required, ReplayOf, Nth, Place, UpTo, Due
<1>3. Live!Replay(n, P) = ReplayOf(n, P)
  BY SameSets, Zenon DEF Live!Replay, Live!Required, ReplayOf, Nth, Place, UpTo, Due
<1> QED BY <1>1, <1>2, <1>3

LEMMA SameResend ==
  \A P : /\ Kept!Resend(P) = ResendOf(P) /\ Pruned!Resend(P) = ResendOf(P)
         /\ Live!Resend(P) = ResendOf(P)
<1> TAKE P
<1>1. Kept!SetToSeq(P) = ListOf(P)
  BY SameSets, Zenon DEF Kept!SetToSeq, ListOf, Kept!IsInjective, IsInjective
<1>2. Pruned!SetToSeq(P) = ListOf(P)
  BY SameSets, Zenon DEF Pruned!SetToSeq, ListOf, Pruned!IsInjective, IsInjective
<1>3. Live!SetToSeq(P) = ListOf(P)
  BY SameSets, Zenon DEF Live!SetToSeq, ListOf, Live!IsInjective, IsInjective
<1>4. Kept!Resend(P) = ResendOf(P)
  BY <1>1, Zenon DEF Kept!Resend, Kept!Required, ResendOf
<1>5. Pruned!Resend(P) = ResendOf(P)
  BY <1>2, Zenon DEF Pruned!Resend, Pruned!Required, ResendOf
<1>6. Live!Resend(P) = ResendOf(P)
  BY <1>3, Zenon DEF Live!Resend, Live!Required, ResendOf
<1> QED BY <1>4, <1>5, <1>6

(* The higher of two numbers.                                              *)
LEMMA Higher ==
  ASSUME NEW m \in Nat, NEW n \in Nat
  PROVE  Highest({m, n}) \in {m, n} /\ m <= Highest({m, n}) /\ n <= Highest({m, n})
<1>1. \E x \in {m, n} : \A y \in {m, n} : x >= y
  BY SMT
<1>2. Highest({m, n}) \in {m, n} /\ \A y \in {m, n} : Highest({m, n}) >= y
  BY <1>1, Zenon DEF Highest
<1> QED BY <1>2

(* The highest number in the outbox.                                       *)
LEMMA LastRow ==
  ASSUME StreamTyped
  PROVE  /\ LastSeq \in Nat /\ \A r \in outbox : r.seq <= LastSeq
         /\ LastSeq # 0 => \E r \in outbox : r.seq = LastSeq
<1>1. CASE outbox = {}
  BY <1>1 DEF LastSeq
<1>2. CASE outbox # {}
  <2> DEFINE S == {r.seq : r \in outbox}
  <2>1. PICK r \in outbox : \A s \in outbox : s.seq <= r.seq
    BY <1>2, HighestRow DEF StreamTyped
  <2>2. r.seq \in S /\ \A s \in outbox : s.seq \in Nat
    BY OrderTypes
  <2>3. \A y \in S : r.seq >= y
    BY <2>1, <2>2
  <2>4. \E x \in S : \A y \in S : x >= y
    BY <2>2, <2>3
  <2>5. Highest(S) \in S /\ \A y \in S : Highest(S) >= y
    BY <2>4, Zenon DEF Highest
  <2>6. LastSeq = Highest(S)
    BY <1>2 DEF LastSeq
  <2>7. \A s \in outbox : s.seq \in S
    OBVIOUS
  <2>8. \A y \in S : y \in Nat /\ \E q \in outbox : q.seq = y
    BY <2>2
  <2> HIDE DEF S
  <2> QED BY <2>2, <2>5, <2>6, <2>7, <2>8
<1> QED BY <1>1, <1>2

LEMMA AppendedRow ==
  ASSUME StreamTyped, NEW e \in Events
  PROVE  RowOf(e) \in OutboxRow /\ RowOf(e).ev = e
         /\ (RowOf(e) \in outbox \/ \A s \in outbox : s.seq < RowOf(e).seq)
<1> DEFINE same == {r \in outbox : r.ev = e}
<1>1. CASE same = {}
  <2>1. RowOf(e) = [seq |-> LastSeq + 1, ev |-> e]
    BY <1>1, Zenon DEF RowOf
  <2> QED BY <2>1, LastRow, OrderTypes DEF OutboxRow
<1>2. CASE same # {}
  <2>1. RowOf(e) = CHOOSE r \in same : TRUE
    BY <1>2, Zenon DEF RowOf
  <2>2. RowOf(e) \in same
    BY <1>2, <2>1
  <2> QED BY <2>2 DEF StreamTyped
<1> QED BY <1>1, <1>2

(* A replay is the rows that are due, in the order of their numbers.       *)
LEMMA ReplayInOrder ==
  ASSUME StreamTyped, NEW n \in Nat, NEW P \in SUBSET Asking
  PROVE  /\ ReplayOf(n, P) \in Seq(WireRow)
         /\ \A k \in 1 .. Len(ReplayOf(n, P)) :
              \E r \in outbox : r.seq > n /\ ReplayOf(n, P)[k] = Message(r)
         /\ \A k, l \in 1 .. Len(ReplayOf(n, P)) : k < l => ReplayOf(n, P)[k].id < ReplayOf(n, P)[l].id
         /\ \A r \in outbox : r.seq > n /\ Owed(r.ev) =>
              \E k \in 1 .. Len(ReplayOf(n, P)) : ReplayOf(n, P)[k] = Message(r)
<1> DEFINE D == Due(n, P)
           R == ReplayOf(n, P)
<1>1. D \in SUBSET outbox /\ D \in SUBSET OutboxRow
  BY DEF Due, StreamTyped
<1>2. IsFiniteSet(D) /\ Distinct(D)
  BY <1>1, FS_Subset DEF StreamTyped, Distinct
<1>3. /\ Cardinality(D) \in Nat
      /\ \A r \in D : Place(D, r) \in 1 .. Cardinality(D)
      /\ \A r, s \in D : r.seq < s.seq => Place(D, r) < Place(D, s)
      /\ \A i \in 1 .. Cardinality(D) : \E r \in D : Place(D, r) = i
  BY <1>1, <1>2, Places
<1>4. \A i \in 1 .. Cardinality(D) : Nth(D, i) \in D /\ Place(D, Nth(D, i)) = i
  <2> TAKE i \in 1 .. Cardinality(D)
  <2>1. \E r \in D : Place(D, r) = i
    BY <1>3
  <2> QED BY <2>1, Zenon DEF Nth
<1>5. \A r \in D : Message(r) \in WireRow /\ r.seq > n /\ r.seq \in Nat
  BY <1>1 DEF Message, WireRow, OutboxRow, Due
<1>6. R = [i \in 1 .. Cardinality(D) |-> Message(Nth(D, i))]
  BY Zenon DEF ReplayOf, Message
<1> HIDE DEF D, R
<1>7. R \in Seq(WireRow) /\ Len(R) = Cardinality(D)
      /\ \A i \in 1 .. Cardinality(D) : R[i] = Message(Nth(D, i))
  <2>1. \A i \in 1 .. Cardinality(D) : Message(Nth(D, i)) \in WireRow
    BY <1>4, <1>5
  <2> QED BY <1>3, <1>6, <2>1
<1>8. \A i, j \in 1 .. Cardinality(D) : i < j => Nth(D, i).seq < Nth(D, j).seq
  <2> SUFFICES ASSUME NEW i \in 1 .. Cardinality(D), NEW j \in 1 .. Cardinality(D), i < j,
                      ~(Nth(D, i).seq < Nth(D, j).seq)
               PROVE  FALSE
    OBVIOUS
  <2>1. /\ Nth(D, i) \in D /\ Place(D, Nth(D, i)) = i /\ Nth(D, j) \in D /\ Place(D, Nth(D, j)) = j
        /\ Nth(D, i).seq \in Nat /\ Nth(D, j).seq \in Nat
    BY <1>4, <1>5
  <2>2. CASE Nth(D, j).seq < Nth(D, i).seq
    <3>1. j < i
      BY <1>3, <2>1, <2>2
    <3> QED BY <1>3, <3>1
  <2>3. CASE Nth(D, j).seq = Nth(D, i).seq
    <3>1. Nth(D, j) = Nth(D, i)
      BY <1>2, <2>1, <2>3 DEF Distinct
    <3>2. i = j
      BY <2>1, <3>1
    <3> QED BY <1>3, <3>2
  <2> QED BY <2>1, <2>2, <2>3
<1>9. \A r \in D : Message(r).id = r.seq
  BY DEF Message
<1>10. \A r \in D : R[Place(D, r)] = Message(r) /\ Place(D, r) \in 1 .. Len(R)
  <2> TAKE r \in D
  <2> DEFINE i == Place(D, r)
  <2>1. i \in 1 .. Cardinality(D) /\ Nth(D, i) \in D /\ Place(D, Nth(D, i)) = i
    BY <1>3, <1>4
  <2>2. Nth(D, i).seq = r.seq
    <3>1. ~(Nth(D, i).seq < r.seq) /\ ~(r.seq < Nth(D, i).seq)
      BY <1>3, <2>1
    <3> QED BY <1>5, <2>1, <3>1
  <2>3. Nth(D, i) = r
    BY <1>2, <2>1, <2>2 DEF Distinct
  <2> QED BY <1>7, <2>1, <2>3
<1>11. \A r \in outbox : r.seq > n /\ Owed(r.ev) => r \in D
  BY DEF D, Due, Owed
<1>12. \A k, l \in 1 .. Len(R) : k < l => R[k].id < R[l].id
  BY <1>4, <1>7, <1>8, <1>9
<1>13. \A k \in 1 .. Len(R) : \E r \in outbox : r.seq > n /\ R[k] = Message(r)
  BY <1>1, <1>4, <1>5, <1>7
<1>14. \A r \in outbox : r.seq > n /\ Owed(r.ev) => \E k \in 1 .. Len(R) : R[k] = Message(r)
  BY <1>10, <1>11
<1> QED BY <1>7, <1>12, <1>13, <1>14 DEF R

(* Requests that are sent again are numbered on from eventIdCounter.       *)
LEMMA ResendNumbers ==
  ASSUME StreamTyped, NEW P \in SUBSET Asking
  PROVE  /\ ResendOf(P) \in Seq(WireRow) /\ Cardinality(P) \in Nat
         /\ \A k \in 1 .. Len(ResendOf(P)) :
              ~Owed(ResendOf(P)[k].ev) /\ ResendOf(P)[k].id <= idCounter + Cardinality(P)
<1> DEFINE n == Cardinality(P)
<1>1. IsFiniteSet(P) /\ idCounter \in Nat
  BY SetConstants, FS_Subset DEF StreamTyped
<1>2. n \in Nat /\ ExistsBijection(1 .. n, P)
  BY <1>1, FS_CardinalityType
<1>3. \E f \in [1 .. n -> P] : IsInjective(f)
  BY <1>2 DEF ExistsBijection, Bijection, Injection
<1>4. ListOf(P) \in [1 .. n -> P]
  BY <1>3, Zenon DEF ListOf
<1> DEFINE L == ListOf(P)
           M(i) == [id |-> idCounter + i, ev |-> <<"approval_required", L[i]>>]
<1>5. \A i \in 1 .. n : L[i] \in Asking
  BY <1>4
<1>6. ResendOf(P) = [i \in 1 .. n |-> M(i)]
  BY <1>4 DEF ResendOf
<1> HIDE DEF L
<1>7. \A i \in 1 .. n : M(i) \in WireRow /\ ~Owed(M(i).ev) /\ M(i).id <= idCounter + n
  BY <1>1, <1>2, <1>5 DEF WireRow, Events, Owed
<1> HIDE DEF M, n
<1>8. ResendOf(P) \in Seq(WireRow) /\ Len(ResendOf(P)) = n
      /\ \A i \in 1 .. n : ResendOf(P)[i] = M(i)
  BY <1>2, <1>6, <1>7
<1> QED BY <1>2, <1>7, <1>8 DEF n

LEMMA StoresOrdered ==
  ASSUME StreamTyped, Ordered, NEW r \in OutboxRow, Stores(r)
  PROVE  Ordered'
<1> USE DEF Ordered
<1>1. UNCHANGED <<plain, streams, conn, cursor, wire, got>> /\ outbox' = outbox \cup {r}
      /\ (r \in outbox \/ \A s \in outbox : s.seq < r.seq) /\ r.ev = chain[1].ev
      /\ chain[1].seq = 0
  BY HeadJob DEF Stores
<1>2. Broadcasts(1) /\ chain \in Seq(JobRow)
  BY HeadJob DEF Stores, Broadcasts, StreamTyped
<1>3. chain[1] \in BroadcastRow
  BY HeadJob, JobTypes DEF Stores
<1> DEFINE stored == [chain[1] EXCEPT !.seq = r.seq]
<1>4. stored \in JobRow /\ stored.job = "broadcast" /\ stored.ev = r.ev /\ stored.seq = r.seq
  BY <1>1, <1>3 DEF BroadcastRow, JobRow, OutboxRow
<1>5. chain' = [chain EXCEPT ![1] = stored]
  BY DEF Stores
<1> HIDE DEF stored
<1>6. Len(chain') = Len(chain) /\ chain'[1] = stored
      /\ \A i \in 1 .. Len(chain) : i # 1 => chain'[i] = chain[i]
  BY <1>2, <1>4, <1>5, ExceptSeq DEF Broadcasts
<1>7. \A i \in Nat : Broadcasts(i)' <=> Broadcasts(i)
  BY <1>2, <1>4, <1>6 DEF Broadcasts
<1>8. \A i \in Nat, c \in Listener : /\ Joins(i, c)' <=> Joins(i, c)
                                     /\ Joins(i, c) => chain'[i] = chain[i]
  BY <1>2, <1>4, <1>6 DEF Broadcasts, Joins
<1>9. \A i \in Nat : Broadcasts(i) =>
        /\ chain'[i].ev = chain[i].ev
        /\ i = 1 => chain'[i].seq = r.seq
        /\ i # 1 => i > 1 /\ chain[i].seq = 0 /\ chain'[i] = chain[i]
  BY <1>1, <1>4, <1>6 DEF HeadOnly, Broadcasts
<1>10. r.seq \in Nat \ {0} /\ r.ev \in Events /\ \A s \in outbox : Before(s.ev, r.ev)
  BY <1>1, <1>2 DEF ChainIsNew, RowsComeBefore, OutboxRow
<1>11. \A c \in Listener : GivenBefore(c, r.ev) /\ SentBefore(c, r.ev)
  BY <1>1, <1>2 DEF ChainIsNew
<1>12. RowsOrdered'
  BY <1>1, <1>10, OrderTypes DEF RowsOrdered
<1>13. ChainOrdered'
  BY <1>7, <1>9 DEF ChainOrdered
<1>14. ChainIsNew'
  <2> SUFFICES ASSUME NEW i \in Nat, Broadcasts(i)
               PROVE  /\ RowsComeBefore(i)'
                      /\ \A c \in Listener : (GivenBefore(c, chain[i].ev) /\ SentBefore(c, chain[i].ev))'
    BY <1>7 DEF ChainIsNew
  <2>1. \A c \in Listener : (GivenBefore(c, chain[i].ev) /\ SentBefore(c, chain[i].ev))'
    BY <1>1, <1>9 DEF ChainIsNew, GivenBefore, SentBefore
  <2>2. CASE i = 1
    <3>1. chain'[i].seq = r.seq /\ chain'[i].ev = r.ev
      BY <1>1, <1>9, <2>2
    <3>2. \A s \in outbox' : s.seq > r.seq => Before(r.ev, s.ev)
      BY <1>1, <1>10, OrderTypes DEF RowsOrdered
    <3> QED BY <1>10, <2>1, <3>1, <3>2 DEF RowsComeBefore
  <2>3. CASE i # 1
    <3>1. chain'[i] = chain[i] /\ chain[i].seq = 0
      BY <1>9, <2>3
    <3>2. Before(r.ev, chain[i].ev)
      BY <1>1, <1>2, <1>9, <2>3 DEF ChainOrdered
    <3> QED BY <1>1, <2>1, <3>1, <3>2 DEF ChainIsNew, RowsComeBefore
  <2> QED BY <2>2, <2>3
<1>15. HeadOnly'
  BY <1>7, <1>9 DEF HeadOnly
<1>16. StreamsSound'
  BY <1>1, <1>8 DEF StreamsSound
<1>17. Numbered'
  BY <1>1, <1>2, <1>7, <1>9 DEF Numbered, UpToPlain
<1>18. ASSUME NEW c \in Listener PROVE ClientOrdered(c)'
  <2>1. \A k \in 1 .. Len(wire[c]) : Before(wire[c][k].ev, r.ev)
    BY <1>11 DEF SentBefore
  <2>2. WireOrdered(c)'
    BY <1>1, <2>1 DEF WireOrdered, GivenBefore, ClientOrdered
  <2>3. RowsToGive(c)'
    BY <1>1, <1>11 DEF RowsToGive, GivenBefore, ClientOrdered
  <2>4. GivenInOrder(c)'
    BY <1>1 DEF GivenInOrder, ClientOrdered
  <2> QED BY <2>2, <2>3, <2>4 DEF ClientOrdered
<1> QED BY <1>12, <1>13, <1>14, <1>15, <1>16, <1>17, <1>18

(* What the end of a job leaves of the others.                             *)
Up(i) == i + 1

JobsMoveUp ==
  /\ \A i \in Nat : Broadcasts(i)' => Broadcasts(Up(i)) 
                              /\ chain'[i] = chain[Up(i)] /\ Up(i) # 1 /\ 1 < Up(i)
  /\ \A i \in Nat, c \in Listener : Joins(i, c)' => Joins(Up(i), c) /\ chain'[i] = chain[Up(i)]
  /\ \A i \in Nat : Up(i) \in Nat
  /\ \A i, j \in Nat : (i < j => Up(i) < Up(j)) /\ (Up(i) = Up(j) => i = j)

LEMMA JobDone ==
  ASSUME StreamTyped, NEW kind, HeadIs(kind), chain' = Tail(chain)
  PROVE  JobsMoveUp
<1>1. /\ Len(chain) \in Nat \ {0} /\ Len(chain') = Len(chain) - 1
      /\ \A i \in 1 .. Len(chain') : chain'[i] = chain[i + 1] /\ i + 1 \in 1 .. Len(chain)
  BY HeadJob
<1> QED BY <1>1 DEF JobsMoveUp, Broadcasts, Joins, Up

LEMMA DoneOrdered ==
  ASSUME StreamTyped, Ordered, NEW kind, HeadIs(kind), chain' = Tail(chain), outbox' = outbox
  PROVE  /\ RowsOrdered' /\ ChainOrdered' /\ HeadOnly'
         /\ \A i \in Nat : Broadcasts(i)' => RowsComeBefore(i)' /\ chain'[i].seq = 0
<1> USE DEF Ordered
<1>0. JobsMoveUp
  BY JobDone
<1>1. RowsOrdered'
  BY DEF RowsOrdered
<1>2. ChainOrdered'
  <2> SUFFICES ASSUME NEW i \in Nat, NEW j \in Nat, Broadcasts(i)', Broadcasts(j)', i < j
               PROVE  (Before(chain[i].ev, chain[j].ev) /\ chain[j].seq = 0)'
    BY DEF ChainOrdered
  <2>1. Broadcasts(Up(i)) /\ chain'[i] = chain[Up(i)] /\ Up(i) \in Nat
    BY <1>0 DEF JobsMoveUp
  <2>2. Broadcasts(Up(j)) /\ chain'[j] = chain[Up(j)] /\ Up(j) \in Nat
    BY <1>0 DEF JobsMoveUp
  <2>3. Up(i) < Up(j)
    BY <1>0 DEF JobsMoveUp
  <2>4. Before(chain[Up(i)].ev, chain[Up(j)].ev) /\ chain[Up(j)].seq = 0
    BY <2>1, <2>2, <2>3 DEF ChainOrdered
  <2> QED BY <2>1, <2>2, <2>4
<1>3. \A i \in Nat : Broadcasts(i)' => chain'[i].seq = 0
  BY <1>0 DEF HeadOnly, JobsMoveUp
<1>4. HeadOnly'
  BY <1>3 DEF HeadOnly
<1>5. \A i \in Nat : Broadcasts(i)' => RowsComeBefore(i)'
  BY <1>3, <1>0 DEF ChainIsNew, RowsComeBefore, JobsMoveUp
<1> QED BY <1>1, <1>2, <1>3, <1>4, <1>5

LEMMA ForgetsOrdered ==
  ASSUME StreamTyped, Ordered, Forgets
  PROVE  Ordered'
<1> USE DEF Ordered
<1>1. UNCHANGED <<outbox, plain, streams, conn, cursor, wire, got>> /\ HeadIs("broadcast")
      /\ chain' = Tail(chain)
  BY DEF Forgets
<1>0. JobsMoveUp
  BY <1>1, JobDone
<1>d. /\ RowsOrdered' /\ ChainOrdered' /\ HeadOnly'
      /\ \A i \in Nat : Broadcasts(i)' => RowsComeBefore(i)' /\ chain'[i].seq = 0
  BY <1>1, DoneOrdered
<1>2. ChainIsNew'
  BY <1>1, <1>0, <1>d DEF ChainIsNew, GivenBefore, SentBefore, JobsMoveUp
<1>3. StreamsSound'
  <2>1. \A c \in Listener, i, j \in Nat : Joins(i, c)' /\ Joins(j, c)' => i = j
    BY <1>1, <1>0 DEF StreamsSound, JobsMoveUp
  <2>2. \A c \in Listener, i \in Nat : Joins(i, c)' =>
          (chain[i].after = cursor[c] /\ wire[c] = <<>> /\ c \notin streams /\ conn[c] = "open")'
    <3> SUFFICES ASSUME NEW c \in Listener, NEW i \in Nat, Joins(i, c)'
                 PROVE  (chain[i].after = cursor[c] /\ wire[c] = <<>> /\ c \notin streams /\ conn[c] = "open")'
      OBVIOUS
    <3>1. Joins(Up(i), c) /\ chain'[i] = chain[Up(i)] /\ Up(i) \in Nat
      BY <1>0 DEF JobsMoveUp
    <3> QED BY <1>1, <3>1 DEF StreamsSound
  <2> QED BY <1>1, <2>1, <2>2 DEF StreamsSound
<1>4. Numbered'
  BY <1>1, <1>0 DEF Numbered, UpToPlain, JobsMoveUp
<1>5. \A c \in Listener : ClientOrdered(c)'
  BY <1>1 DEF ClientOrdered, WireOrdered, RowsToGive, GivenInOrder, GivenBefore
<1> QED BY <1>1, <1>2, <1>3, <1>4, <1>5, <1>d

LEMMA WritesOrdered ==
  ASSUME StreamTyped, Ordered, Writes
  PROVE  Ordered'
<1> USE DEF Ordered
<1>1. UNCHANGED <<outbox, plain, streams, conn, cursor, got>> /\ HeadIs("broadcast")
      /\ chain' = Tail(chain)
  BY DEF Writes
<1>0. JobsMoveUp
  BY <1>1, JobDone
<1>d. /\ RowsOrdered' /\ ChainOrdered' /\ HeadOnly'
      /\ \A i \in Nat : Broadcasts(i)' => RowsComeBefore(i)' /\ chain'[i].seq = 0
  BY <1>1, DoneOrdered
<1> DEFINE m == HeadMessage
<1>2. Broadcasts(1) /\ m = [id |-> chain[1].seq, ev |-> chain[1].ev] /\ chain[1].seq # 0
  BY <1>1, HeadJob DEF HeadMessage, Broadcasts, Writes
<1>3. m \in WireRow /\ m.ev = chain[1].ev /\ m.id = chain[1].seq
  BY <1>2, OrderTypes DEF WireRow
<1> HIDE DEF m
<1>4. ASSUME NEW c \in Listener, c \in streams
      PROVE  /\ Len(wire'[c]) = Len(wire[c]) + 1 /\ wire'[c][Len(wire[c]) + 1] = m
             /\ \A k \in 1 .. Len(wire[c]) : wire'[c][k] = wire[c][k]
             /\ \A k \in 1 .. Len(wire'[c]) : k \in 1 .. Len(wire[c]) \/ k = Len(wire[c]) + 1
  <2>1. wire[c] \in Seq(WireRow) /\ wire'[c] = Append(wire[c], m)
    BY <1>4 DEF StreamTyped, Writes, m
  <2> QED BY <1>3, <2>1, Appended
<1>5. \A c \in Listener : c \notin streams => wire'[c] = wire[c]
  BY DEF Writes
<1>6. ChainIsNew'
  <2>1. ASSUME NEW i \in Nat, Broadcasts(i)', NEW c \in Listener
        PROVE  (GivenBefore(c, chain[i].ev) /\ SentBefore(c, chain[i].ev))'
    <3>1. Up(i) \in Nat /\ Broadcasts(Up(i)) /\ chain'[i] = chain[Up(i)] /\ 1 < Up(i)
      BY <1>1, <2>1, <1>0 DEF JobsMoveUp
    <3>2. GivenBefore(c, chain[Up(i)].ev) /\ SentBefore(c, chain[Up(i)].ev)
      BY <3>1 DEF ChainIsNew
    <3>3. Before(m.ev, chain[Up(i)].ev)
      BY <1>2, <1>3, <3>1 DEF ChainOrdered
    <3>4. GivenBefore(c, chain[i].ev)'
      BY <1>1, <3>1, <3>2 DEF GivenBefore
    <3>5. SentBefore(c, chain[i].ev)'
      BY <1>4, <1>5, <3>1, <3>2, <3>3 DEF SentBefore
    <3> QED BY <3>4, <3>5
  <2> QED BY <1>1, <2>1, <1>d DEF ChainIsNew
<1>7. StreamsSound'
  <2>1. \A c \in Listener, i, j \in Nat : Joins(i, c)' /\ Joins(j, c)' => i = j
    BY <1>1, <1>0 DEF StreamsSound, JobsMoveUp
  <2>2. \A c \in Listener : conn[c] # "open" => wire'[c] = <<>>
    BY <1>5 DEF StreamsSound
  <2>3. \A c \in Listener, i \in Nat : Joins(i, c)' => wire'[c] = <<>>
    BY <1>1, <1>5, <1>0 DEF StreamsSound, JobsMoveUp
  <2>4. \A c \in Listener, i \in Nat : Joins(i, c)' =>
          (chain[i].after = cursor[c] /\ c \notin streams /\ conn[c] = "open")'
    <3> SUFFICES ASSUME NEW c \in Listener, NEW i \in Nat, Joins(i, c)'
                 PROVE  (chain[i].after = cursor[c] /\ c \notin streams /\ conn[c] = "open")'
      OBVIOUS
    <3>1. Joins(Up(i), c) /\ chain'[i] = chain[Up(i)] /\ Up(i) \in Nat
      BY <1>0 DEF JobsMoveUp
    <3> QED BY <1>1, <3>1 DEF StreamsSound
  <2> QED BY <1>1, <2>1, <2>2, <2>3, <2>4 DEF StreamsSound
<1>8. Numbered'
  <2>1. UpToPlain(m.ev)
    BY <1>2, <1>3 DEF Numbered
  <2>2. \A c \in Listener : \A k \in 1 .. Len(wire'[c]) : UpToPlain(wire'[c][k].ev)
    BY <1>4, <1>5, <2>1 DEF Numbered
  <2> QED BY <1>1, <2>2, <1>0 DEF Numbered, UpToPlain, JobsMoveUp
<1>9. ASSUME NEW c \in Listener PROVE ClientOrdered(c)'
  <2>1. RowsToGive(c)' /\ GivenInOrder(c)'
    BY <1>1 DEF ClientOrdered, RowsToGive, GivenInOrder, GivenBefore
  <2>2. CASE c \notin streams
    <3>1. WireOrdered(c)'
      BY <1>1, <1>5, <2>2 DEF ClientOrdered, WireOrdered, GivenBefore
    <3> QED BY <2>1, <3>1 DEF ClientOrdered
  <2>3. CASE c \in streams
    <3>1. GivenBefore(c, m.ev) /\ SentBefore(c, m.ev)
      BY <1>2, <1>3 DEF ChainIsNew
    <3>2. \A r \in outbox : r.seq > m.id => Before(m.ev, r.ev)
      BY <1>2, <1>3 DEF ChainIsNew, RowsComeBefore
    <3>3. \A k \in 1 .. Len(wire[c]) : Before(wire[c][k].ev, m.ev)
      BY <3>1 DEF SentBefore
    <3>4. ASSUME NEW k \in 1 .. Len(wire'[c])
          PROVE  /\ GivenBefore(c, wire'[c][k].ev)
                 /\ \A l \in 1 .. Len(wire'[c]) : k < l => Before(wire'[c][k].ev, wire'[c][l].ev)
                 /\ \A r \in outbox : r.seq > wire'[c][k].id => Before(wire'[c][k].ev, r.ev)
      <4>1. CASE k \in 1 .. Len(wire[c])
        BY <1>4, <2>3, <3>3, <4>1 DEF ClientOrdered, WireOrdered
      <4>2. CASE k = Len(wire[c]) + 1
        <5>1. \A l \in 1 .. Len(wire'[c]) : ~(k < l)
          BY <1>4, <2>3, <4>2, OrderTypes
        <5>2. wire'[c][k] = m
          BY <1>4, <2>3, <4>2
        <5> QED BY <3>1, <3>2, <5>1, <5>2
      <4> QED BY <1>4, <2>3, <4>1, <4>2
    <3>5. WireOrdered(c)'
      BY <1>1, <3>4 DEF WireOrdered, GivenBefore
    <3> QED BY <2>1, <3>5 DEF ClientOrdered
  <2> QED BY <2>2, <2>3
<1> QED BY <1>1, <1>6, <1>7, <1>8, <1>9, <1>d

LEMMA CollectsOrdered ==
  ASSUME StreamTyped, Ordered, NEW P \in SUBSET Asking, Collects(P)
  PROVE  Ordered'
<1> USE DEF Ordered
<1>1. UNCHANGED <<outbox, plain, streams, conn, cursor, wire, got>> /\ HeadIs("stream")
  BY DEF Collects
<1>2. chain[1] \in StreamRow /\ 1 \in 1 .. Len(chain) /\ chain \in Seq(JobRow)
  BY <1>1, HeadJob, JobTypes DEF StreamTyped
<1> DEFINE collected == [chain[1] EXCEPT !.pending = P, !.collected = TRUE]
<1>3. /\ collected \in JobRow /\ collected.job = chain[1].job /\ collected.to = chain[1].to
      /\ collected.after = chain[1].after /\ chain[1].job # "broadcast"
  BY <1>2 DEF JobRow, StreamRow
<1>4. chain' = [chain EXCEPT ![1] = collected]
  BY DEF Collects, StreamTyped
<1> HIDE DEF collected
<1>5. Len(chain') = Len(chain) /\ chain'[1] = collected
      /\ \A i \in 1 .. Len(chain) : i # 1 => chain'[i] = chain[i]
  BY <1>2, <1>3, <1>4, ExceptSeq
<1>6. \A i \in Nat : (Broadcasts(i)' <=> Broadcasts(i)) /\ (Broadcasts(i) => chain'[i] = chain[i])
  BY <1>2, <1>3, <1>5 DEF Broadcasts
<1>7. \A i \in Nat, c \in Listener : /\ Joins(i, c)' <=> Joins(i, c)
                                     /\ Joins(i, c) => chain'[i].after = chain[i].after
  BY <1>2, <1>3, <1>5 DEF Joins
<1>8. RowsOrdered' /\ ChainOrdered' /\ HeadOnly'
  BY <1>1, <1>6 DEF RowsOrdered, ChainOrdered, HeadOnly
<1>9. ChainIsNew'
  BY <1>1, <1>6 DEF ChainIsNew, RowsComeBefore, GivenBefore, SentBefore
<1>10. StreamsSound'
  BY <1>1, <1>7 DEF StreamsSound
<1>11. Numbered'
  BY <1>1, <1>6 DEF Numbered, UpToPlain
<1>12. \A c \in Listener : ClientOrdered(c)'
  BY <1>1 DEF ClientOrdered, WireOrdered, RowsToGive, GivenInOrder, GivenBefore
<1> QED BY <1>8, <1>9, <1>10, <1>11, <1>12

(* What is replayed is all that is on the wire of its stream.              *)
LEMMA ReplaysOnWire ==
  ASSUME StreamTyped, StreamsSound, NEW sent \in Seq(WireRow), NEW n \in 0 .. Len(sent),
         Replays(sent, n), NEW c \in Listener
  PROVE  IF c = chain[1].to
         THEN /\ wire'[c] = sent /\ chain[1].after = cursor[c] /\ Joins(1, c)
              /\ conn[c] = "open" /\ c \notin streams
         ELSE wire'[c] = wire[c] /\ (c \in streams' <=> c \in streams)
<1>1. HeadIs("stream")
  BY DEF Replays
<1>2. Head(chain) = chain[1] /\ chain[1].job = "stream" /\ 1 \in 1 .. Len(chain)
  BY <1>1, HeadJob
<1>3. wire' = [d \in Listener |-> IF d = chain[1].to THEN wire[d] \o sent ELSE wire[d]]
      /\ streams' = IF chain[1].to = NoClient THEN streams ELSE streams \cup {chain[1].to}
  BY <1>2 DEF Replays
<1>4. CASE c = chain[1].to
  <2>1. Joins(1, c)
    BY <1>2, <1>4 DEF Joins
  <2>2. chain[1].after = cursor[c] /\ wire[c] = <<>> /\ conn[c] = "open" /\ c \notin streams
    BY <2>1 DEF StreamsSound
  <2>3. wire'[c] = sent
    BY <1>3, <1>4, <2>2, ConcatEmptySeq
  <2> QED BY <1>4, <2>1, <2>2, <2>3
<1>5. CASE c # chain[1].to
  BY <1>3, <1>5
<1> QED BY <1>4, <1>5

LEMMA ReplaysOrdered ==
  ASSUME StreamTyped, Ordered, NEW sent \in Seq(WireRow), NEW n \in 0 .. Len(sent),
         Replays(sent, n)
  PROVE  Ordered'
<1> USE DEF Ordered
<1> DEFINE t == chain[1].to
<1>1. UNCHANGED <<outbox, plain, conn, cursor, got>> /\ HeadIs("stream") /\ chain' = Tail(chain)
  BY DEF Replays
<1>0. JobsMoveUp
  BY <1>1, JobDone
<1>d. /\ RowsOrdered' /\ ChainOrdered' /\ HeadOnly'
      /\ \A i \in Nat : Broadcasts(i)' => RowsComeBefore(i)' /\ chain'[i].seq = 0
  BY <1>1, DoneOrdered
<1>2. \A c \in Listener :
        IF c = t
        THEN /\ wire'[c] = sent /\ chain[1].after = cursor[c] /\ Joins(1, c)
             /\ conn[c] = "open" /\ c \notin streams
        ELSE wire'[c] = wire[c] /\ (c \in streams' <=> c \in streams)
  BY ReplaysOnWire
<1>3. Sends(sent, n, chain[1].after) /\ n \in Nat /\ Len(sent) \in Nat
  BY <1>1, HeadJob DEF Replays
<1> HIDE DEF t
<1>4. \A k \in 1 .. Len(sent) :
        \/ k \in 1 .. n /\ \E r \in outbox : r.seq > chain[1].after /\ sent[k] = Message(r)
        \/ k > n /\ ~IsPlain(sent[k].ev)
  BY <1>3 DEF Sends, Owed, IsPlain
<1>5. \A r \in outbox : Message(r).ev = r.ev /\ Message(r).id = r.seq
  BY DEF Message
<1>6. ChainIsNew'
  <2>1. ASSUME NEW i \in Nat, Broadcasts(i)', NEW c \in Listener
        PROVE  (GivenBefore(c, chain[i].ev) /\ SentBefore(c, chain[i].ev))'
    <3>1. /\ Up(i) \in Nat /\ Broadcasts(Up(i)) /\ chain'[i] = chain[Up(i)]
          /\ chain'[i].seq = 0
      BY <1>d, <1>0, <2>1 DEF JobsMoveUp
    <3>2. GivenBefore(c, chain[Up(i)].ev) /\ SentBefore(c, chain[Up(i)].ev)
      BY <3>1 DEF ChainIsNew
    <3>3. \A r \in outbox : Before(r.ev, chain[Up(i)].ev)
      BY <3>1 DEF ChainIsNew, RowsComeBefore
    <3>4. GivenBefore(c, chain[i].ev)'
      BY <1>1, <3>1, <3>2 DEF GivenBefore
    <3>5. \A k \in 1 .. Len(sent) : Before(sent[k].ev, chain[Up(i)].ev)
      BY <1>4, <1>5, <3>3 DEF Before
    <3>6. SentBefore(c, chain[i].ev)'
      BY <1>2, <3>1, <3>2, <3>5 DEF SentBefore
    <3> QED BY <3>4, <3>6
  <2> QED BY <1>d, <2>1 DEF ChainIsNew
<1>7. StreamsSound'
  <2>1. \A c \in Listener, i, j \in Nat : Joins(i, c)' /\ Joins(j, c)' => i = j
    BY <1>0 DEF StreamsSound, JobsMoveUp
  <2>2. ASSUME NEW c \in Listener, NEW i \in Nat, Joins(i, c)'
        PROVE  (chain[i].after = cursor[c] /\ wire[c] = <<>> /\ c \notin streams /\ conn[c] = "open")'
    <3>1. Joins(Up(i), c) /\ chain'[i] = chain[Up(i)] /\ Up(i) \in Nat
      BY <1>0, <2>2 DEF JobsMoveUp
    <3>2. Up(i) # 1
      BY <2>2 DEF Joins, Up
    <3>3. c # t
      BY <1>2, <3>1, <3>2 DEF StreamsSound
    <3> QED BY <1>1, <1>2, <3>1, <3>3 DEF StreamsSound
  <2>3. \A c \in Listener : conn'[c] # "open" => wire'[c] = <<>> /\ c \notin streams'
    BY <1>1, <1>2 DEF StreamsSound
  <2> QED BY <2>1, <2>2, <2>3 DEF StreamsSound
<1>8. Numbered'
  <2>1. \A k \in 1 .. Len(sent) : UpToPlain(sent[k].ev)
    BY <1>4, <1>5 DEF Numbered, UpToPlain
  <2>2. \A c \in Listener : \A k \in 1 .. Len(wire'[c]) : UpToPlain(wire'[c][k].ev)
    BY <1>2, <2>1 DEF Numbered
  <2> QED BY <1>1, <2>2, <1>0 DEF Numbered, UpToPlain, JobsMoveUp
<1>9. ASSUME NEW c \in Listener PROVE ClientOrdered(c)'
  <2>1. RowsToGive(c)' /\ GivenInOrder(c)'
    BY <1>1 DEF ClientOrdered, RowsToGive, GivenInOrder, GivenBefore
  <2>2. CASE c # t
    <3>1. WireOrdered(c)'
      BY <1>1, <1>2, <2>2 DEF ClientOrdered, WireOrdered, GivenBefore
    <3> QED BY <2>1, <3>1 DEF ClientOrdered
  <2>3. CASE c = t
    <3>1. wire'[c] = sent /\ chain[1].after = cursor[c]
      BY <1>2, <2>3
    <3>2. ASSUME NEW k \in 1 .. Len(sent)
          PROVE  /\ GivenBefore(c, sent[k].ev)
                 /\ \A l \in 1 .. Len(sent) : k < l => Before(sent[k].ev, sent[l].ev)
                 /\ \A r \in outbox : r.seq > sent[k].id => Before(sent[k].ev, r.ev)
      <4>1. CASE ~IsPlain(sent[k].ev)
        BY <4>1 DEF GivenBefore, Before
      <4>2. CASE IsPlain(sent[k].ev)
        <5>1. PICK r \in outbox : r.seq > cursor[c] /\ sent[k] = Message(r)
          BY <1>4, <3>1, <4>2
        <5>2. k \in 1 .. n
          BY <1>4, <4>2
        <5>3. GivenBefore(c, sent[k].ev)
          BY <1>5, <5>1 DEF ClientOrdered, RowsToGive
        <5>4. \A s \in outbox : s.seq > sent[k].id => Before(sent[k].ev, s.ev)
          BY <1>5, <5>1 DEF RowsOrdered
        <5>5. ASSUME NEW l \in 1 .. Len(sent), k < l PROVE Before(sent[k].ev, sent[l].ev)
          <6>1. CASE ~IsPlain(sent[l].ev)
            BY <6>1 DEF Before
          <6>2. CASE IsPlain(sent[l].ev)
            <7>1. l \in 1 .. n
              BY <1>4, <6>2
            <7>2. PICK s \in outbox : sent[l] = Message(s)
              BY <1>4, <6>2
            <7>3. sent[k].id < sent[l].id
              BY <1>3, <5>2, <5>5, <7>1 DEF Sends
            <7> QED BY <1>5, <5>4, <7>2, <7>3, OrderTypes
          <6> QED BY <6>1, <6>2
        <5> QED BY <5>3, <5>4, <5>5
      <4> QED BY <4>1, <4>2
    <3>3. WireOrdered(c)'
      BY <1>1, <3>1, <3>2 DEF WireOrdered, GivenBefore
    <3> QED BY <2>1, <3>3 DEF ClientOrdered
  <2> QED BY <2>2, <2>3
<1> QED BY <1>d, <1>6, <1>7, <1>8, <1>9

LEMMA ShrinksOrdered ==
  ASSUME StreamTyped, Ordered, Shrinks
  PROVE  Ordered'
<1> USE DEF Ordered
<1>1. UNCHANGED <<chain, plain, streams, conn, cursor, wire, got>> /\ outbox' \subseteq outbox
  BY DEF Shrinks
<1>2. \A i \in Nat : Broadcasts(i)' <=> Broadcasts(i)
  BY <1>1 DEF Broadcasts
<1>3. RowsOrdered' /\ ChainOrdered' /\ HeadOnly'
  BY <1>1, <1>2 DEF RowsOrdered, ChainOrdered, HeadOnly
<1>4. ChainIsNew'
  BY <1>1, <1>2 DEF ChainIsNew, RowsComeBefore, GivenBefore, SentBefore
<1>5. StreamsSound'
  BY <1>1 DEF StreamsSound, Joins
<1>6. Numbered'
  BY <1>1, <1>2 DEF Numbered, UpToPlain
<1>7. \A c \in Listener : ClientOrdered(c)'
  BY <1>1 DEF ClientOrdered, WireOrdered, RowsToGive, GivenInOrder, GivenBefore
<1> QED BY <1>3, <1>4, <1>5, <1>6, <1>7

(* What a client that is not connected does.                               *)
LEMMA OfflineOrdered ==
  ASSUME StreamTyped, Ordered, NEW c \in Listener, conn[c] # "open",
         UNCHANGED <<outbox, chain, plain, streams, wire, got>>,
         \A d \in Listener : d # c => conn'[d] = conn[d] /\ cursor'[d] = cursor[d],
         cursor'[c] \in Nat, cursor[c] <= cursor'[c]
  PROVE  Ordered'
<1> USE DEF Ordered
<1>1. \A i \in Nat : Broadcasts(i)' <=> Broadcasts(i)
  BY DEF Broadcasts
<1>2. \A i \in Nat, d \in Listener : (Joins(i, d)' <=> Joins(i, d)) /\ (Joins(i, d) => d # c)
  BY DEF Joins, StreamsSound
<1>3. RowsOrdered' /\ ChainOrdered' /\ HeadOnly'
  BY <1>1 DEF RowsOrdered, ChainOrdered, HeadOnly
<1>4. ChainIsNew'
  BY <1>1 DEF ChainIsNew, RowsComeBefore, GivenBefore, SentBefore
<1>5. StreamsSound'
  BY <1>2 DEF StreamsSound
<1>6. Numbered'
  BY <1>1 DEF Numbered, UpToPlain
<1>7. ASSUME NEW d \in Listener PROVE ClientOrdered(d)'
  <2>1. WireOrdered(d)' /\ GivenInOrder(d)'
    BY DEF ClientOrdered, WireOrdered, GivenInOrder, GivenBefore
  <2>2. cursor[d] \in Nat /\ cursor'[d] \in Nat /\ cursor[d] <= cursor'[d]
    BY OrderTypes
  <2>3. RowsToGive(d)'
    BY <2>2, OrderTypes DEF ClientOrdered, RowsToGive, GivenBefore
  <2> QED BY <2>1, <2>3 DEF ClientOrdered
<1> QED BY <1>3, <1>4, <1>5, <1>6, <1>7

LEMMA RequestsOrdered ==
  ASSUME StreamTyped, Ordered, NEW c \in Listener, Requests(c)
  PROVE  Ordered'
<1> DEFINE n == Len(chain) + 1
<1> USE DEF Ordered
<1>1. UNCHANGED <<outbox, plain, streams, cursor, wire, got>> /\ conn[c] = "ready"
      /\ conn'[c] = "open" /\ \A d \in Listener : d # c => conn'[d] = conn[d]
  BY DEF Requests, StreamTyped
<1>2. NewStream(c) \in JobRow /\ NewStream(c).job = "stream" /\ NewStream(c).to = c
      /\ NewStream(c).after = cursor[c]
  BY DEF NewStream, JobRow, StreamRow, StreamTyped
<1>3. /\ n \in Nat /\ Len(chain') = n /\ chain'[n] = NewStream(c)
      /\ \A i \in 1 .. Len(chain) : chain'[i] = chain[i]
  BY <1>2, Appended DEF Requests, StreamTyped
<1>4. \A i \in Nat : (Broadcasts(i)' <=> Broadcasts(i)) /\ (Broadcasts(i) => chain'[i] = chain[i])
  BY <1>2, <1>3, OrderTypes DEF Broadcasts
<1>5. \A i \in Nat, d \in Listener :
        /\ Joins(i, d)' <=> Joins(i, d) \/ (i = n /\ d = c)
        /\ Joins(i, d) => chain'[i] = chain[i]
  BY <1>2, <1>3, OrderTypes DEF Joins
<1>6. \A i \in Nat : ~Joins(i, c)
  BY <1>1 DEF StreamsSound
<1>7. wire[c] = <<>> /\ c \notin streams
  BY <1>1 DEF StreamsSound
<1> HIDE DEF n
<1>8. RowsOrdered' /\ ChainOrdered' /\ HeadOnly'
  BY <1>1, <1>4 DEF RowsOrdered, ChainOrdered, HeadOnly
<1>9. ChainIsNew'
  BY <1>1, <1>4 DEF ChainIsNew, RowsComeBefore, GivenBefore, SentBefore
<1>10. StreamsSound'
  <2>1. \A d \in Listener : conn'[d] # "open" => wire'[d] = <<>> /\ d \notin streams'
    BY <1>1 DEF StreamsSound
  <2>2. ASSUME NEW d \in Listener, NEW i \in Nat, Joins(i, d)'
        PROVE  /\ chain'[i].after = cursor'[d] /\ wire'[d] = <<>> /\ d \notin streams'
               /\ conn'[d] = "open"
               /\ \A j \in Nat : Joins(j, d)' => i = j
    <3>1. CASE d = c
      BY <1>1, <1>2, <1>3, <1>5, <1>6, <1>7, <2>2, <3>1
    <3>2. CASE d # c
      BY <1>1, <1>5, <2>2, <3>2 DEF StreamsSound
    <3> QED BY <3>1, <3>2
  <2> QED BY <2>1, <2>2 DEF StreamsSound
<1>11. Numbered'
  BY <1>1, <1>4 DEF Numbered, UpToPlain
<1>12. \A d \in Listener : ClientOrdered(d)'
  BY <1>1 DEF ClientOrdered, WireOrdered, RowsToGive, GivenInOrder, GivenBefore
<1> QED BY <1>8, <1>9, <1>10, <1>11, <1>12

(* The message a client reads.                                             *)
LEMMA Read ==
  ASSUME StreamTyped, NEW c \in Listener, NEW n \in Nat, Receives(c, n)
  PROVE  /\ Head(wire[c]) = wire[c][1] /\ 1 \in 1 .. Len(wire[c]) /\ Len(wire[c]) \in Nat \ {0}
         /\ Len(wire'[c]) = Len(wire[c]) - 1
         /\ \A k \in 1 .. Len(wire'[c]) :
              /\ wire'[c][k] = wire[c][k + 1]
              /\ k + 1 \in 1 .. Len(wire[c]) /\ k + 1 \in 2 .. Len(wire[c])
         /\ \A k \in 2 .. Len(wire[c]) :
              k - 1 \in 1 .. Len(wire'[c]) /\ wire'[c][k - 1] = wire[c][k]
         /\ cursor'[c] = n /\ wire[c][1].id <= n /\ cursor[c] <= n
         /\ \A d \in Listener : d # c =>
              wire'[d] = wire[d] /\ cursor'[d] = cursor[d] /\ got'[d] = got[d] /\ seen'[d] = seen[d]
<1>1. wire[c] \in Seq(WireRow) /\ wire[c] # <<>> /\ wire'[c] = Tail(wire[c])
  BY DEF Receives, StreamTyped
<1>2. Head(wire[c]) = wire[c][1]
  BY <1>1, Popped
<1>3. cursor'[c] = n /\ Head(wire[c]).id <= n /\ cursor[c] <= n
  BY DEF Receives, StreamTyped
<1>4. \A d \in Listener : d # c =>
        wire'[d] = wire[d] /\ cursor'[d] = cursor[d] /\ got'[d] = got[d] /\ seen'[d] = seen[d]
  BY DEF Receives, StreamTyped
<1> QED BY <1>1, <1>2, <1>3, <1>4, Popped

LEMMA ReceivesOrdered ==
  ASSUME StreamTyped, Ordered, NEW c \in Listener, NEW n \in Nat, Receives(c, n)
  PROVE  Ordered'
<1> USE DEF Ordered
<1> DEFINE m == wire[c][1]
<1>1. UNCHANGED <<outbox, chain, plain, streams, conn>> /\ wire[c] # <<>>
  BY DEF Receives
<1>2. /\ 1 \in 1 .. Len(wire[c]) /\ cursor'[c] = n /\ m.id <= n /\ cursor[c] <= n
      /\ \A d \in Listener : d # c =>
           wire'[d] = wire[d] /\ cursor'[d] = cursor[d] /\ got'[d] = got[d]
  BY Read
<1>3. \A k \in 1 .. Len(wire'[c]) : /\ Up(k) \in 1 .. Len(wire[c]) /\ Up(k) > 1
                                     /\ wire'[c][k] = wire[c][Up(k)]
  BY Read DEF Up
<1>4. m.ev \in Events /\ m.id \in Nat
  BY <1>2, OrderTypes
<1>5. /\ Len(got[c]) \in Nat
      /\ \A k \in 1 .. Len(got'[c]) :
           \/ k \in 1 .. Len(got[c]) /\ got'[c][k] = got[c][k]
           \/ k = Len(got[c]) + 1 /\ IsPlain(m.ev) /\ got'[c][k] = m.ev[2]
  <2>1. got[c] \in Seq(Nat) /\ got'[c] = IF IsPlain(m.ev) THEN Append(got[c], m.ev[2]) ELSE got[c]
    BY Read DEF Receives, StreamTyped
  <2>2. CASE IsPlain(m.ev)
    <3>1. m.ev[2] \in Nat
      BY <1>4, <2>2, PlainEvents
    <3>2. got'[c] = Append(got[c], m.ev[2])
      BY <2>1, <2>2
    <3> QED BY <2>1, <2>2, <3>1, <3>2, Appended
  <2>3. CASE ~IsPlain(m.ev)
    BY <2>1, <2>3
  <2> QED BY <2>2, <2>3
<1>6. ClientOrdered(c) /\ GivenBefore(c, m.ev)
  BY <1>2 DEF ClientOrdered, WireOrdered
<1>7. \A e \in Events : GivenBefore(c, e) /\ Before(m.ev, e) => GivenBefore(c, e)'
  BY <1>5 DEF GivenBefore, Before
<1> HIDE DEF m
<1>8. \A i \in Nat : Broadcasts(i)' <=> Broadcasts(i)
  BY <1>1 DEF Broadcasts
<1>9. \A i \in Nat, d \in Listener : (Joins(i, d)' <=> Joins(i, d)) /\ (Joins(i, d) => d # c)
  BY <1>1 DEF Joins, StreamsSound
<1>10. RowsOrdered' /\ ChainOrdered' /\ HeadOnly'
  BY <1>1, <1>8 DEF RowsOrdered, ChainOrdered, HeadOnly
<1>11. ChainIsNew'
  <2>1. ASSUME NEW i \in Nat, Broadcasts(i), NEW d \in Listener
        PROVE  (GivenBefore(d, chain[i].ev) /\ SentBefore(d, chain[i].ev))'
    <3>1. GivenBefore(d, chain[i].ev) /\ SentBefore(d, chain[i].ev) /\ chain[i].ev \in Events
      BY <2>1, OrderTypes DEF ChainIsNew
    <3>2. CASE d # c
      BY <1>1, <1>2, <3>1, <3>2 DEF GivenBefore, SentBefore
    <3>3. CASE d = c
      <4>1. Before(m.ev, chain[i].ev)
        BY <1>2, <3>1, <3>3 DEF SentBefore, m
      <4>2. GivenBefore(c, chain[i].ev)'
        <5>1. \A k \in 1 .. Len(got[c]) : IsPlain(chain[i].ev) => got[c][k] < chain[i].ev[2]
          BY <3>1, <3>3 DEF GivenBefore
        <5> QED BY <1>1, <1>5, <4>1, <5>1 DEF GivenBefore, Before
      <4>3. SentBefore(c, chain[i].ev)'
        BY <1>1, <1>3, <3>1, <3>3 DEF SentBefore
      <4> QED BY <3>3, <4>2, <4>3
    <3> QED BY <3>2, <3>3
  <2> QED BY <1>1, <1>8, <2>1 DEF ChainIsNew, RowsComeBefore
<1>12. StreamsSound'
  <2>1. \A d \in Listener : conn[d] # "open" => d # c
    BY <1>1 DEF StreamsSound
  <2> QED BY <1>1, <1>2, <1>9, <2>1 DEF StreamsSound
<1>13. Numbered'
  <2>1. UpToPlain(m.ev)
    BY <1>2 DEF Numbered, m
  <2>2. ASSUME NEW d \in Listener
        PROVE  /\ \A k \in 1 .. Len(wire'[d]) : UpToPlain(wire'[d][k].ev)
               /\ \A k \in 1 .. Len(got'[d]) : got'[d][k] <= plain
    <3>1. CASE d # c
      BY <1>2, <3>1 DEF Numbered
    <3>2. CASE d = c
      BY <1>3, <1>5, <2>1, <3>2 DEF Numbered, UpToPlain
    <3> QED BY <3>1, <3>2
  <2> QED BY <1>1, <1>8, <2>2 DEF Numbered, UpToPlain
<1>14. ASSUME NEW d \in Listener PROVE ClientOrdered(d)'
  <2>1. CASE d # c
    BY <1>1, <1>2, <2>1 DEF ClientOrdered, WireOrdered, RowsToGive, GivenInOrder, GivenBefore
  <2>2. CASE d = c
    <3>1. GivenInOrder(c)'
      <4>1. \A k \in 1 .. Len(got[c]) : IsPlain(m.ev) => got[c][k] < m.ev[2]
        BY <1>6 DEF GivenBefore
      <4>2. \A i, j \in 1 .. Len(got[c]) : i < j => got[c][i] < got[c][j]
        BY <1>6 DEF ClientOrdered, GivenInOrder
      <4> QED BY <1>5, <4>1, <4>2 DEF GivenInOrder
    <3>2. RowsToGive(c)'
      <4>1. ASSUME NEW r \in outbox, r.seq > n PROVE GivenBefore(c, r.ev)'
        <5>1. r.seq \in Nat /\ r.ev \in Events /\ cursor[c] \in Nat
          BY OrderTypes
        <5>2. r.seq > cursor[c] /\ r.seq > m.id
          BY <1>2, <1>4, <4>1, <5>1
        <5>3. Before(m.ev, r.ev)
          BY <1>2, <1>6, <5>2 DEF ClientOrdered, WireOrdered, m
        <5>4. GivenBefore(c, r.ev)
          BY <1>6, <5>2 DEF ClientOrdered, RowsToGive
        <5> QED BY <1>7, <5>1, <5>3, <5>4
      <4> QED BY <1>1, <1>2, <4>1 DEF RowsToGive
    <3>3. WireOrdered(c)'
      <4>1. ASSUME NEW k \in 1 .. Len(wire'[c])
            PROVE  /\ GivenBefore(c, wire[c][k].ev)'
                   /\ \A l \in 1 .. Len(wire'[c]) : k < l => Before(wire'[c][k].ev, wire'[c][l].ev)
                   /\ \A r \in outbox : r.seq > wire'[c][k].id => Before(wire'[c][k].ev, r.ev)
        <5>1. Up(k) \in 1 .. Len(wire[c]) /\ Up(k) > 1 /\ wire'[c][k] = wire[c][Up(k)]
          BY <1>3
        <5>2. /\ GivenBefore(c, wire[c][Up(k)].ev)
              /\ \A r \in outbox : r.seq > wire[c][Up(k)].id => Before(wire[c][Up(k)].ev, r.ev)
              /\ Before(m.ev, wire[c][Up(k)].ev)
              /\ wire[c][Up(k)].ev \in Events
          BY <1>2, <1>6, <5>1, OrderTypes DEF ClientOrdered, WireOrdered, m
        <5>3. GivenBefore(c, wire[c][k].ev)'
          BY <1>7, <5>1, <5>2 DEF GivenBefore
        <5>4. ASSUME NEW l \in 1 .. Len(wire'[c]), k < l
              PROVE  Before(wire'[c][k].ev, wire'[c][l].ev)
          <6>1. Up(l) \in 1 .. Len(wire[c]) /\ wire'[c][l] = wire[c][Up(l)] /\ Up(k) < Up(l)
            BY <1>3, <5>4 DEF Up
          <6>2. Before(wire[c][Up(k)].ev, wire[c][Up(l)].ev)
            BY <1>6, <5>1, <6>1 DEF ClientOrdered, WireOrdered
          <6> QED BY <5>1, <6>1, <6>2
        <5> QED BY <5>1, <5>2, <5>3, <5>4
      <4> QED BY <1>1, <4>1 DEF WireOrdered
    <3> QED BY <2>2, <3>1, <3>2, <3>3 DEF ClientOrdered
  <2> QED BY <2>1, <2>2
<1> QED BY <1>10, <1>11, <1>12, <1>13, <1>14

LEMMA DropsOrdered ==
  ASSUME StreamTyped, Ordered, NEW c \in Listener, Drops(c)
  PROVE  Ordered'
<1> USE DEF Ordered
<1>1. /\ UNCHANGED <<outbox, plain, cursor, got>> /\ wire'[c] = <<>> /\ streams' = streams \ {c}
      /\ \A d \in Listener : d # c => wire'[d] = wire[d] /\ conn'[d] = conn[d]
  BY DEF Drops, StreamTyped
<1>2. Len(chain) \in Nat /\ DOMAIN chain = 1 .. Len(chain)
      /\ \A i \in 1 .. Len(chain) : chain[i] \in JobRow
  BY DEF StreamTyped
<1>3. chain' = [i \in 1 .. Len(chain) |-> Orphaned(chain[i], c)]
  BY <1>2 DEF Drops
<1>4. Len(chain') = Len(chain) /\ \A i \in 1 .. Len(chain) : chain'[i] = Orphaned(chain[i], c)
  <2> HIDE DEF Orphaned
  <2> QED BY <1>2, <1>3
<1>5. \A j \in JobRow : /\ Orphaned(j, c).job = j.job
                        /\ j.job = "broadcast" => Orphaned(j, c) = j
                        /\ j.job = "stream" => /\ Orphaned(j, c).after = j.after
                                               /\ Orphaned(j, c).to = IF j.to = c THEN NoClient ELSE j.to
  BY DEF Orphaned, JobRow, BroadcastRow, StreamRow
<1>6. \A i \in Nat : (Broadcasts(i)' <=> Broadcasts(i)) /\ (Broadcasts(i) => chain'[i] = chain[i])
  BY <1>2, <1>4, <1>5 DEF Broadcasts
<1>7. \A i \in Nat, d \in Listener : Joins(i, d)' => /\ Joins(i, d) /\ d # c
                                                     /\ chain'[i].after = chain[i].after
  BY <1>2, <1>4, <1>5, SetConstants DEF Joins
<1>8. RowsOrdered' /\ ChainOrdered' /\ HeadOnly'
  BY <1>1, <1>6 DEF RowsOrdered, ChainOrdered, HeadOnly
<1>9. \A d \in Listener : wire'[d] = wire[d] \/ wire'[d] = <<>>
  BY <1>1
<1>10. ChainIsNew'
  BY <1>1, <1>6, <1>9 DEF ChainIsNew, RowsComeBefore, GivenBefore, SentBefore
<1>11. StreamsSound'
  <2>1. \A d \in Listener : conn'[d] # "open" => wire'[d] = <<>> /\ d \notin streams'
    BY <1>1 DEF StreamsSound
  <2> QED BY <1>1, <1>7, <2>1 DEF StreamsSound
<1>12. Numbered'
  <2>1. (\A r \in outbox : UpToPlain(r.ev))'
    BY <1>1 DEF Numbered, UpToPlain
  <2>2. (\A i \in Nat : Broadcasts(i) => UpToPlain(chain[i].ev))'
    BY <1>1, <1>6 DEF Numbered, UpToPlain
  <2>3. ASSUME NEW d \in Listener
        PROVE  (/\ \A k \in 1 .. Len(wire[d]) : UpToPlain(wire[d][k].ev)
                /\ \A k \in 1 .. Len(got[d]) : got[d][k] <= plain)'
    BY <1>1, <1>9, <2>3 DEF Numbered, UpToPlain
  <2> QED BY <2>1, <2>2, <2>3 DEF Numbered
<1>13. ASSUME NEW d \in Listener PROVE ClientOrdered(d)'
  <2>1. RowsToGive(d)' /\ GivenInOrder(d)'
    BY <1>1 DEF ClientOrdered, RowsToGive, GivenInOrder, GivenBefore
  <2>2. ASSUME wire'[d] = wire[d] PROVE WireOrdered(d)'
    BY <1>1, <2>2 DEF ClientOrdered, WireOrdered, GivenBefore
  <2>3. ASSUME wire'[d] = <<>> PROVE WireOrdered(d)'
    BY <2>3 DEF WireOrdered
  <2>4. WireOrdered(d)'
    BY <1>9, <2>2, <2>3
  <2> QED BY <2>1, <2>4 DEF ClientOrdered
<1> QED BY <1>8, <1>10, <1>11, <1>12, <1>13

LEMMA RestartsOrdered ==
  ASSUME StreamTyped, Ordered, Restarts
  PROVE  Ordered'
<1> USE DEF Ordered
<1>1. UNCHANGED <<outbox, plain, cursor, got>> /\ chain' = <<>> /\ streams' = {}
      /\ \A c \in Listener : wire'[c] = <<>>
  BY DEF Restarts
<1>2. \A i \in Nat : ~Broadcasts(i)' /\ \A c \in Listener : ~Joins(i, c)'
  BY <1>1 DEF Broadcasts, Joins
<1>3. RowsOrdered' /\ ChainOrdered' /\ HeadOnly' /\ ChainIsNew' /\ StreamsSound'
  BY <1>1, <1>2 DEF RowsOrdered, ChainOrdered, HeadOnly, ChainIsNew, StreamsSound
<1>4. Numbered'
  BY <1>1, <1>2 DEF Numbered, UpToPlain
<1>5. \A c \in Listener : ClientOrdered(c)'
  BY <1>1 DEF ClientOrdered, WireOrdered, RowsToGive, GivenInOrder, GivenBefore
<1> QED BY <1>3, <1>4, <1>5

LEMMA StandsOrdered ==
  ASSUME Ordered, Stands
  PROVE  Ordered'
<1> USE DEF Ordered
<1>1. UNCHANGED <<outbox, chain, plain, streams, conn, cursor, wire, got>>
  BY DEF Stands
<1>2. \A i \in Nat : /\ Broadcasts(i)' <=> Broadcasts(i)
                    /\ \A c \in Listener : Joins(i, c)' <=> Joins(i, c)
  BY <1>1 DEF Broadcasts, Joins
<1>3. RowsOrdered' /\ ChainOrdered' /\ HeadOnly' /\ ChainIsNew' /\ StreamsSound'
  BY <1>1, <1>2 DEF RowsOrdered, ChainOrdered, HeadOnly, ChainIsNew, StreamsSound, RowsComeBefore,
                    GivenBefore, SentBefore
<1>4. Numbered'
  BY <1>1, <1>2 DEF Numbered, UpToPlain
<1>5. \A c \in Listener : ClientOrdered(c)'
  BY <1>1 DEF ClientOrdered, WireOrdered, RowsToGive, GivenInOrder, GivenBefore
<1> QED BY <1>3, <1>4, <1>5

LEMMA OrderedMoves ==
  ASSUME StreamTyped, Ordered, KeepingMoves \/ LosingMoves
  PROVE  Ordered'
<1>1. ASSUME NEW c \in Listener, Connects(c) \/ BootFails(c) PROVE Ordered'
  <2>1. /\ conn[c] # "open" /\ UNCHANGED <<outbox, chain, plain, streams, wire, got, cursor>>
        /\ \A d \in Listener : d # c => conn'[d] = conn[d]
    BY <1>1 DEF Connects, BootFails, StreamTyped
  <2>2. cursor'[c] \in Nat /\ cursor[c] <= cursor'[c]
    BY <2>1, OrderTypes
  <2> QED BY <2>1, <2>2, OfflineOrdered
<1>2. ASSUME NEW c \in Listener, NEW n \in Nat, Boots(c, n) PROVE Ordered'
  <2>1. /\ conn[c] # "open" /\ UNCHANGED <<outbox, chain, plain, streams, wire, got>>
        /\ \A d \in Listener : d # c => conn'[d] = conn[d] /\ cursor'[d] = cursor[d]
        /\ cursor'[c] = n /\ cursor[c] <= n
    BY <1>2 DEF Boots, StreamTyped
  <2> QED BY <2>1, OfflineOrdered
<1> QED
  BY <1>1, <1>2, SubmitsOrdered, StoresOrdered, ForgetsOrdered, WritesOrdered, CollectsOrdered,
     ReplaysOrdered, ShrinksOrdered, RequestsOrdered, ReceivesOrdered, DropsOrdered,
     RestartsOrdered, StandsOrdered DEF KeepingMoves, LosingMoves

-----------------------------------------------------------------------------
(* The steps of the three kinds of streams are moves.                      *)

Rest == <<plain, streams, idCounter, conn, booted, cursor, wire, excused, seen, got>>

Appends ==
  /\ HeadIs("broadcast") /\ Head(chain).seq = 0
  /\ outbox' = outbox \cup {RowOf(Head(chain).ev)}
  /\ chain' = [chain EXCEPT ![1].seq = RowOf(Head(chain).ev).seq]
  /\ UNCHANGED Rest

LEMMA AppendsMove ==
  ASSUME StreamTyped, Appends
  PROVE  KeepingMoves
<1> DEFINE added == RowOf(Head(chain).ev)
<1>1. Head(chain).ev \in Events
  BY HeadJob, JobTypes DEF Appends
<1>2. added \in OutboxRow /\ added.ev = Head(chain).ev
      /\ (added \in outbox \/ \A s \in outbox : s.seq < added.seq)
  BY <1>1, AppendedRow
<1>3. Stores(added)
  BY <1>2 DEF Appends, Stores, Rest
<1> QED BY <1>2, <1>3 DEF KeepingMoves

Rejoins ==
  /\ HeadIs("stream") /\ chain' = Tail(chain)
  /\ LET j    == Head(chain)
         sent == ReplayOf(j.after, j.pending) \o ResendOf(j.pending)
     IN  /\ wire' = [c \in Listener |-> IF c = j.to THEN wire[c] \o sent ELSE wire[c]]
         /\ idCounter' = idCounter + Cardinality(j.pending)
         /\ streams' = IF j.to = NoClient THEN streams ELSE streams \cup {j.to}
  /\ UNCHANGED <<outbox, plain, conn, booted, cursor, excused, seen, got>>

LEMMA RejoinsMove ==
  ASSUME StreamTyped, Rejoins
  PROVE  KeepingMoves
<1> DEFINE j == Head(chain)
           A == ReplayOf(j.after, j.pending)
           B == ResendOf(j.pending)
           n == Len(A)
<1>1. HeadIs("stream")
  BY DEF Rejoins
<1>2. j.after \in Nat /\ j.pending \in SUBSET Asking
  BY <1>1, HeadJob, JobTypes DEF StreamRow
<1>3. /\ A \in Seq(WireRow)
      /\ \A k \in 1 .. n : \E r \in outbox : r.seq > j.after /\ A[k] = Message(r)
      /\ \A k, l \in 1 .. n : k < l => A[k].id < A[l].id
      /\ \A r \in outbox : r.seq > j.after /\ Owed(r.ev) => \E k \in 1 .. n : A[k] = Message(r)
  BY <1>2, ReplayInOrder
<1>4. /\ B \in Seq(WireRow) /\ Cardinality(j.pending) \in Nat
      /\ \A k \in 1 .. Len(B) : ~Owed(B[k].ev) /\ B[k].id <= idCounter + Cardinality(j.pending)
  BY <1>2, ResendNumbers
<1>5. /\ wire' = [c \in Listener |-> IF c = j.to THEN wire[c] \o (A \o B) ELSE wire[c]]
      /\ idCounter' = idCounter + Cardinality(j.pending)
      /\ streams' = IF j.to = NoClient THEN streams ELSE streams \cup {j.to}
      /\ chain' = Tail(chain)
      /\ UNCHANGED <<outbox, plain, conn, booted, cursor, excused, seen, got>>
  BY DEF Rejoins
<1>6. idCounter \in Nat
  BY DEF StreamTyped
<1> HIDE DEF A, B
<1> DEFINE sent == A \o B
<1>7. /\ sent \in Seq(WireRow) /\ n \in Nat /\ Len(B) \in Nat /\ Len(sent) = n + Len(B)
      /\ \A k \in 1 .. n + Len(B) : sent[k] = IF k <= n THEN A[k] ELSE B[k - n]
  BY <1>3, <1>4, ConcatProperties, LenProperties
<1> HIDE DEF sent
<1>8. \A k \in 1 .. n : sent[k] = A[k]
  BY <1>7
<1>9. \A k \in 1 .. Len(sent) : k > n => ~Owed(sent[k].ev) /\ sent[k].id <= idCounter'
  <2> SUFFICES ASSUME NEW k \in 1 .. Len(sent), k > n
               PROVE  ~Owed(sent[k].ev) /\ sent[k].id <= idCounter'
    OBVIOUS
  <2>1. k - n \in 1 .. Len(B) /\ sent[k] = B[k - n]
    BY <1>7
  <2> QED BY <1>4, <1>5, <2>1
<1>10. Sends(sent, n, j.after)
  BY <1>3, <1>8, <1>9 DEF Sends
<1>11. n \in 0 .. Len(sent)
  BY <1>7
<1>12. idCounter' \in Nat /\ idCounter <= idCounter'
  BY <1>4, <1>5, <1>6
<1>13. Replays(sent, n)
  BY <1>1, <1>5, <1>10, <1>12 DEF Replays, sent
<1> QED BY <1>7, <1>11, <1>13 DEF KeepingMoves

Bootstraps(c) ==
  /\ conn[c] = "boot" /\ conn' = [conn EXCEPT ![c] = "ready"] /\ booted' = booted \cup {c}
  /\ cursor' = [cursor EXCEPT ![c] = Highest({cursor[c], LastSeq})]
  /\ excused' = [excused EXCEPT ![c] = IF cursor[c] = 0 THEN {r.ev : r \in outbox} ELSE @]
  /\ UNCHANGED <<outbox, chain, plain, streams, idCounter, wire, seen, got>>

LEMMA BootstrapsMove ==
  ASSUME StreamTyped, NEW c \in Listener, Bootstraps(c)
  PROVE  KeepingMoves
<1> DEFINE n == Highest({cursor[c], LastSeq})
<1>1. n \in Nat /\ n \in {cursor[c], LastSeq} /\ cursor[c] <= n /\ LastSeq <= n
  BY Higher, LastRow, OrderTypes
<1>2. cursor' = [cursor EXCEPT ![c] = n]
  BY DEF Bootstraps
<1> HIDE DEF n
<1>3. \A r \in outbox : r.seq <= n
  BY <1>1, LastRow, OrderTypes
<1>4. n # cursor[c] => \E r \in outbox : r.seq = n
  BY <1>1, LastRow, OrderTypes
<1>5. Boots(c, n)
  BY <1>1, <1>2, <1>3, <1>4 DEF Bootstraps, Boots
<1> QED BY <1>1, <1>5 DEF KeepingMoves

Reads(c) ==
  /\ wire[c] # <<>> /\ wire' = [wire EXCEPT ![c] = Tail(@)]
  /\ cursor' = [cursor EXCEPT ![c] = Highest({cursor[c], Head(wire[c]).id})]
  /\ seen' = [seen EXCEPT ![c] = @ \cup {Head(wire[c]).ev}]
  /\ got' = [got EXCEPT ![c] =
       IF IsPlain(Head(wire[c]).ev) THEN Append(@, Head(wire[c]).ev[2]) ELSE @]
  /\ UNCHANGED <<outbox, chain, plain, streams, idCounter, conn, booted, excused>>

LEMMA ReadsMove ==
  ASSUME StreamTyped, NEW c \in Listener, Reads(c)
  PROVE  KeepingMoves
<1> DEFINE m == Head(wire[c])
           n == Highest({cursor[c], m.id})
<1>1. m.id \in Nat
  <2>1. wire[c] \in Seq(WireRow) /\ wire[c] # <<>>
    BY DEF Reads, StreamTyped
  <2>2. m \in WireRow
    BY <2>1, Popped
  <2> QED BY <2>2 DEF WireRow
<1>2. n \in Nat /\ n \in {cursor[c], m.id} /\ cursor[c] <= n /\ m.id <= n
  BY <1>1, Higher, OrderTypes
<1>3. cursor' = [cursor EXCEPT ![c] = n]
  BY DEF Reads
<1> HIDE DEF n
<1>4. Receives(c, n)
  BY <1>2, <1>3 DEF Reads, Receives
<1> QED BY <1>2, <1>4 DEF KeepingMoves

LEMMA KeptMoves ==
  ASSUME StreamTyped, Kept!Next, pruning = {}
  PROVE  KeepingMoves /\ pruning' = {}
<1> USE DEF Kept!clientVars
<1>1. CASE Kept!Broadcast
  <2>1. Kept!Plain(plain + 1) \in Events /\ IsPlain(Kept!Plain(plain + 1))
        /\ Kept!Plain(plain + 1)[2] = plain + 1
    BY DEF Kept!Plain, Events, IsPlain, StreamTyped
  <2>2. Submits(Kept!Plain(plain + 1)) /\ pruning' = {}
    BY <1>1, <2>1 DEF Kept!Broadcast, Kept!BroadcastJob, NewJob, Submits
  <2> QED BY <2>1, <2>2 DEF KeepingMoves
<1>2. CASE Kept!AppendRow
  <2>1. Appends /\ pruning' = {}
    BY <1>2, SameRow DEF Kept!AppendRow, Kept!Running, Appends, HeadIs, Rest
  <2> QED BY <2>1, AppendsMove
<1>3. CASE Kept!WriteToStreams
  <2>1. Writes /\ pruning' = {}
    BY <1>3 DEF Kept!WriteToStreams, Kept!Running, Writes, HeadIs, HeadMessage
  <2> QED BY <2>1 DEF KeepingMoves
<1>4. CASE Kept!CollectApprovals
  <2>1. Kept!Pending \in SUBSET Asking
    BY DEF Kept!Pending
  <2>2. Collects(Kept!Pending) /\ pruning' = {}
    BY <1>4 DEF Kept!CollectApprovals, Kept!Running, Collects, HeadIs
  <2> QED BY <2>1, <2>2 DEF KeepingMoves
<1>5. CASE Kept!ReplayAndJoin
  <2>1. Rejoins /\ pruning' = {}
    BY <1>5, SameReplay, SameResend, SameSets
       DEF Kept!ReplayAndJoin, Kept!Running, Rejoins, HeadIs
  <2> QED BY <2>1, RejoinsMove
<1>6. CASE Kept!AppendFails
  <2>1. Forgets /\ pruning' = {}
    BY <1>6 DEF Kept!AppendFails, Kept!Running, Forgets, HeadIs
  <2> QED BY <2>1 DEF KeepingMoves
<1>7. CASE Kept!Prune
  BY <1>7 DEF Kept!Prune
<1>8. CASE Kept!RemoveOldest
  BY <1>8 DEF Kept!RemoveOldest
<1>9. CASE Kept!Restart
  <2>1. Restarts /\ pruning' = {}
    BY <1>9 DEF Kept!Restart, Restarts
  <2> QED BY <2>1 DEF KeepingMoves
<1>10. ASSUME NEW a \in Asking, Kept!Ask(a) PROVE KeepingMoves /\ pruning' = {}
  <2>1. Stands /\ pruning' = {}
    BY <1>10 DEF Kept!Ask, Stands
  <2> QED BY <2>1 DEF KeepingMoves
<1>11. ASSUME NEW a \in Asking, Kept!Announce(a) \/ Kept!Resolve(a) PROVE KeepingMoves /\ pruning' = {}
  <2>1. {Kept!Required(a), Kept!Resolved(a)} \subseteq Events
        /\ ~IsPlain(Kept!Required(a)) /\ ~IsPlain(Kept!Resolved(a))
    BY DEF Kept!Required, Kept!Resolved, Events, IsPlain
  <2>2. (Submits(Kept!Required(a)) \/ Submits(Kept!Resolved(a))) /\ pruning' = {}
    BY <1>11, <2>1 DEF Kept!Announce, Kept!Resolve, Kept!BroadcastJob, NewJob, Submits
  <2> QED BY <2>1, <2>2 DEF KeepingMoves
<1>12. ASSUME NEW c \in Listener, Kept!Connect(c) PROVE KeepingMoves /\ pruning' = {}
  <2>1. Connects(c) /\ pruning' = {}
    BY <1>12 DEF Kept!Connect, Connects
  <2> QED BY <2>1 DEF KeepingMoves
<1>13. ASSUME NEW c \in Listener, Kept!Bootstrap(c) PROVE KeepingMoves /\ pruning' = {}
  <2>1. Bootstraps(c) /\ pruning' = {}
    BY <1>13, SameHighest, SameLast DEF Kept!Bootstrap, Bootstraps
  <2> QED BY <2>1, BootstrapsMove
<1>14. ASSUME NEW c \in Listener, Kept!RequestStream(c) PROVE KeepingMoves /\ pruning' = {}
  <2>1. Requests(c) /\ pruning' = {}
    BY <1>14 DEF Kept!RequestStream, Kept!StreamJob, Requests, NewStream
  <2> QED BY <2>1 DEF KeepingMoves
<1>15. ASSUME NEW c \in Listener, Kept!Receive(c) PROVE KeepingMoves /\ pruning' = {}
  <2>1. Reads(c) /\ pruning' = {}
    BY <1>15, SameHighest DEF Kept!Receive, Reads, IsPlain
  <2> QED BY <2>1, ReadsMove
<1>16. ASSUME NEW c \in Listener, Kept!Drop(c) PROVE KeepingMoves /\ pruning' = {}
  <2>1. Drops(c) /\ pruning' = {}
    BY <1>16 DEF Kept!Drop, Drops, Orphaned
  <2> QED BY <2>1 DEF KeepingMoves
<1>17. ASSUME NEW c \in Listener, Kept!BootstrapFails(c) PROVE KeepingMoves /\ pruning' = {}
  BY <1>17 DEF Kept!BootstrapFails
<1> QED
  BY <1>1, <1>2, <1>3, <1>4, <1>5, <1>6, <1>7, <1>8, <1>9, <1>10, <1>11, <1>12, <1>13, <1>14, <1>15, <1>16, <1>17
     DEF Kept!Next, Kept!ServerStep, Kept!ClientStep

LEMMA PrunedMoves ==
  ASSUME StreamTyped, Pruned!Next
  PROVE  KeepingMoves \/ LosingMoves
<1> USE DEF Pruned!clientVars
<1>1. CASE Pruned!Broadcast
  <2>1. Pruned!Plain(plain + 1) \in Events /\ IsPlain(Pruned!Plain(plain + 1))
        /\ Pruned!Plain(plain + 1)[2] = plain + 1
    BY DEF Pruned!Plain, Events, IsPlain, StreamTyped
  <2>2. Submits(Pruned!Plain(plain + 1))
    BY <1>1, <2>1 DEF Pruned!Broadcast, Pruned!BroadcastJob, NewJob, Submits
  <2> QED BY <2>1, <2>2 DEF KeepingMoves
<1>2. CASE Pruned!AppendRow
  <2>1. Appends
    BY <1>2, SameRow DEF Pruned!AppendRow, Pruned!Running, Appends, HeadIs, Rest
  <2> QED BY <2>1, AppendsMove
<1>3. CASE Pruned!WriteToStreams
  <2>1. Writes
    BY <1>3 DEF Pruned!WriteToStreams, Pruned!Running, Writes, HeadIs, HeadMessage
  <2> QED BY <2>1 DEF KeepingMoves
<1>4. CASE Pruned!CollectApprovals
  <2>1. Pruned!Pending \in SUBSET Asking
    BY DEF Pruned!Pending
  <2>2. Collects(Pruned!Pending)
    BY <1>4 DEF Pruned!CollectApprovals, Pruned!Running, Collects, HeadIs
  <2> QED BY <2>1, <2>2 DEF KeepingMoves
<1>5. CASE Pruned!ReplayAndJoin
  <2>1. Rejoins
    BY <1>5, SameReplay, SameResend, SameSets
       DEF Pruned!ReplayAndJoin, Pruned!Running, Rejoins, HeadIs
  <2> QED BY <2>1, RejoinsMove
<1>6. CASE Pruned!AppendFails
  <2>1. Forgets
    BY <1>6 DEF Pruned!AppendFails, Pruned!Running, Forgets, HeadIs
  <2> QED BY <2>1 DEF KeepingMoves
<1>7. CASE Pruned!Prune
  <2>1. Stands
    BY <1>7 DEF Pruned!Prune, Stands
  <2> QED BY <2>1 DEF KeepingMoves
<1>8. CASE Pruned!RemoveOldest
  <2>1. Shrinks
    BY <1>8 DEF Pruned!RemoveOldest, Shrinks
  <2> QED BY <2>1 DEF LosingMoves
<1>9. CASE Pruned!Restart
  <2>1. Restarts
    BY <1>9 DEF Pruned!Restart, Restarts
  <2> QED BY <2>1 DEF KeepingMoves
<1>10. ASSUME NEW c \in Listener, Pruned!Connect(c) PROVE KeepingMoves
  <2>1. Connects(c)
    BY <1>10 DEF Pruned!Connect, Connects
  <2> QED BY <2>1 DEF KeepingMoves
<1>11. ASSUME NEW c \in Listener, Pruned!Bootstrap(c) PROVE KeepingMoves
  <2>1. Bootstraps(c)
    BY <1>11, SameHighest, SameLast DEF Pruned!Bootstrap, Bootstraps
  <2> QED BY <2>1, BootstrapsMove
<1>12. ASSUME NEW c \in Listener, Pruned!RequestStream(c) PROVE KeepingMoves
  <2>1. Requests(c)
    BY <1>12 DEF Pruned!RequestStream, Pruned!StreamJob, Requests, NewStream
  <2> QED BY <2>1 DEF KeepingMoves
<1>13. ASSUME NEW c \in Listener, Pruned!Receive(c) PROVE KeepingMoves
  <2>1. Reads(c)
    BY <1>13, SameHighest DEF Pruned!Receive, Reads, IsPlain
  <2> QED BY <2>1, ReadsMove
<1>14. ASSUME NEW c \in Listener, Pruned!Drop(c) PROVE KeepingMoves
  <2>1. Drops(c)
    BY <1>14 DEF Pruned!Drop, Drops, Orphaned
  <2> QED BY <2>1 DEF KeepingMoves
<1>15. ASSUME NEW c \in Listener, Pruned!BootstrapFails(c) PROVE KeepingMoves \/ LosingMoves
  <2>1. BootFails(c)
    BY <1>15 DEF Pruned!BootstrapFails, BootFails
  <2> QED BY <2>1 DEF LosingMoves
<1> QED
  BY <1>1, <1>2, <1>3, <1>4, <1>5, <1>6, <1>7, <1>8, <1>9, <1>10, <1>11, <1>12, <1>13, <1>14, <1>15
     DEF Pruned!Next, Pruned!ServerStep, Pruned!ClientStep

LEMMA LiveMoves ==
  ASSUME StreamTyped, Live!Next, pruning = {}
  PROVE  KeepingMoves /\ pruning' = {}
<1> USE DEF Live!clientVars
<1>1. CASE Live!Broadcast
  <2>1. Live!Plain(plain + 1) \in Events /\ IsPlain(Live!Plain(plain + 1))
        /\ Live!Plain(plain + 1)[2] = plain + 1
    BY DEF Live!Plain, Events, IsPlain, StreamTyped
  <2>2. Submits(Live!Plain(plain + 1)) /\ pruning' = {}
    BY <1>1, <2>1 DEF Live!Broadcast, Live!BroadcastJob, NewJob, Submits
  <2> QED BY <2>1, <2>2 DEF KeepingMoves
<1>2. CASE Live!AppendRow
  <2>1. Appends /\ pruning' = {}
    BY <1>2, SameRow DEF Live!AppendRow, Live!Running, Appends, HeadIs, Rest
  <2> QED BY <2>1, AppendsMove
<1>3. CASE Live!WriteToStreams
  <2>1. Writes /\ pruning' = {}
    BY <1>3 DEF Live!WriteToStreams, Live!Running, Writes, HeadIs, HeadMessage
  <2> QED BY <2>1 DEF KeepingMoves
<1>4. CASE Live!CollectApprovals
  <2>1. Live!Pending \in SUBSET Asking
    BY DEF Live!Pending
  <2>2. Collects(Live!Pending) /\ pruning' = {}
    BY <1>4 DEF Live!CollectApprovals, Live!Running, Collects, HeadIs
  <2> QED BY <2>1, <2>2 DEF KeepingMoves
<1>5. CASE Live!ReplayAndJoin
  <2>1. Rejoins /\ pruning' = {}
    BY <1>5, SameReplay, SameResend, SameSets
       DEF Live!ReplayAndJoin, Live!Running, Rejoins, HeadIs
  <2> QED BY <2>1, RejoinsMove
<1>6. CASE Live!AppendFails
  <2>1. Forgets /\ pruning' = {}
    BY <1>6 DEF Live!AppendFails, Live!Running, Forgets, HeadIs
  <2> QED BY <2>1 DEF KeepingMoves
<1>7. CASE Live!Prune
  BY <1>7 DEF Live!Prune
<1>8. CASE Live!RemoveOldest
  BY <1>8 DEF Live!RemoveOldest
<1>9. CASE Live!Restart
  <2>1. Restarts /\ pruning' = {}
    BY <1>9 DEF Live!Restart, Restarts
  <2> QED BY <2>1 DEF KeepingMoves
<1>10. ASSUME NEW c \in Listener, Live!Connect(c) PROVE KeepingMoves /\ pruning' = {}
  <2>1. Connects(c) /\ pruning' = {}
    BY <1>10 DEF Live!Connect, Connects
  <2> QED BY <2>1 DEF KeepingMoves
<1>11. ASSUME NEW c \in Listener, Live!Bootstrap(c) PROVE KeepingMoves /\ pruning' = {}
  <2>1. Bootstraps(c) /\ pruning' = {}
    BY <1>11, SameHighest, SameLast DEF Live!Bootstrap, Bootstraps
  <2> QED BY <2>1, BootstrapsMove
<1>12. ASSUME NEW c \in Listener, Live!RequestStream(c) PROVE KeepingMoves /\ pruning' = {}
  <2>1. Requests(c) /\ pruning' = {}
    BY <1>12 DEF Live!RequestStream, Live!StreamJob, Requests, NewStream
  <2> QED BY <2>1 DEF KeepingMoves
<1>13. ASSUME NEW c \in Listener, Live!Receive(c) PROVE KeepingMoves /\ pruning' = {}
  <2>1. Reads(c) /\ pruning' = {}
    BY <1>13, SameHighest DEF Live!Receive, Reads, IsPlain
  <2> QED BY <2>1, ReadsMove
<1>14. ASSUME NEW c \in Listener, Live!Drop(c) PROVE KeepingMoves /\ pruning' = {}
  <2>1. Drops(c) /\ pruning' = {}
    BY <1>14 DEF Live!Drop, Drops, Orphaned
  <2> QED BY <2>1 DEF KeepingMoves
<1>15. ASSUME NEW c \in Listener, Live!BootstrapFails(c) PROVE KeepingMoves /\ pruning' = {}
  BY <1>15 DEF Live!BootstrapFails
<1> QED
  BY <1>1, <1>2, <1>3, <1>4, <1>5, <1>6, <1>7, <1>8, <1>9, <1>10, <1>11, <1>12, <1>13, <1>14, <1>15
     DEF Live!Next, Live!ServerStep, Live!ClientStep

-----------------------------------------------------------------------------
(* What a client has been told, as long as the requests that are sent      *)
(* again are numbered below the outbox: their ids then never move a cursor.*)

AtHead(r)  == Broadcasts(1) /\ chain[1].seq = r.seq
Reaches(n) == \E r \in outbox : n <= r.seq

HeadIsStored ==
  \A i \in Nat : Broadcasts(i) /\ chain[i].seq # 0 =>
    \E r \in outbox : r.seq = chain[i].seq /\ r.ev = chain[i].ev

(* A client that has had its snapshot is past the outbox's beginning.      *)
Begun(c) ==
  IF c \in booted THEN cursor[c] >= Reached /\ conn[c] # "boot"
                  ELSE cursor[c] = 0 /\ conn[c] \in {"down", "boot"}

Had(c) == \A r \in outbox : r.seq <= cursor[c] /\ Owed(r.ev) => r.ev \in seen[c] \cup excused[c]

OnWire(c, r, k) ==
  \E l \in 1 .. Len(wire[c]) : l <= k /\ wire[c][l].id = r.seq /\ wire[c][l].ev = r.ev

Coming(c) ==
  c \in streams => \A r \in outbox : r.seq > cursor[c] /\ Owed(r.ev) =>
                     AtHead(r) \/ OnWire(c, r, Len(wire[c]))

(* Nothing overtakes a row that is owed.                                   *)
InTurn(c) ==
  \A k \in 1 .. Len(wire[c]) : \A r \in outbox :
    r.seq > cursor[c] /\ Owed(r.ev) /\ r.seq <= wire[c][k].id => OnWire(c, r, k)

InReach(c) == Reaches(cursor[c]) /\ \A k \in 1 .. Len(wire[c]) : Reaches(wire[c][k].id)

ClientTold(c) == Begun(c) /\ Had(c) /\ Coming(c) /\ InTurn(c) /\ InReach(c)

Told == HeadIsStored /\ Reaches(Reached) /\ \A c \in Listener : ClientTold(c)

LEMMA SubmitsTold ==
  ASSUME StreamTyped, Told, NEW e \in Events, Submits(e)
  PROVE  Told'
<1> DEFINE n == Len(chain) + 1
<1>1. UNCHANGED <<outbox, streams, conn, booted, cursor, wire, excused, seen>>
  BY DEF Submits
<1>2. NewJob(e) \in JobRow /\ NewJob(e).seq = 0
  BY DEF NewJob, JobRow, BroadcastRow
<1>3. /\ n \in Nat /\ Len(chain') = n /\ chain'[n] = NewJob(e)
      /\ \A i \in 1 .. Len(chain) : chain'[i] = chain[i]
  BY <1>2, Appended DEF Submits, StreamTyped
<1>4. \A i \in Nat : Broadcasts(i)' /\ chain'[i].seq # 0 => Broadcasts(i) /\ chain'[i] = chain[i]
  BY <1>2, <1>3, OrderTypes DEF Broadcasts
<1>5. \A i \in Nat : Broadcasts(i) => Broadcasts(i)' /\ chain'[i] = chain[i]
  BY <1>3, OrderTypes DEF Broadcasts
<1>6. HeadIsStored'
  BY <1>1, <1>4 DEF HeadIsStored, Told
<1>7. \A r \in outbox : AtHead(r) => AtHead(r)'
  BY <1>5 DEF AtHead
<1>8. ASSUME NEW c \in Listener PROVE ClientTold(c)'
  BY <1>1, <1>7 DEF Told, ClientTold, Begun, Had, Coming, OnWire, InTurn, InReach, Reaches
<1> QED BY <1>1, <1>6, <1>8 DEF Told, Reaches

LEMMA StoresTold ==
  ASSUME StreamTyped, Ordered, Told, NEW r \in OutboxRow, Stores(r)
  PROVE  Told'
<1>1. UNCHANGED <<streams, conn, booted, cursor, wire, excused, seen>> /\ outbox' = outbox \cup {r}
      /\ (r \in outbox \/ \A s \in outbox : s.seq < r.seq) /\ r.ev = chain[1].ev
      /\ chain[1].seq = 0
  BY HeadJob DEF Stores
<1>2. Broadcasts(1) /\ chain \in Seq(JobRow) /\ r.seq \in Nat
  BY HeadJob DEF Stores, Broadcasts, StreamTyped, OutboxRow
<1>3. chain[1] \in BroadcastRow
  BY HeadJob, JobTypes DEF Stores
<1> DEFINE stored == [chain[1] EXCEPT !.seq = r.seq]
<1>4. stored \in JobRow /\ stored.job = "broadcast" /\ stored.ev = r.ev /\ stored.seq = r.seq
  BY <1>1, <1>3 DEF BroadcastRow, JobRow, OutboxRow
<1>5. chain' = [chain EXCEPT ![1] = stored]
  BY DEF Stores
<1> HIDE DEF stored
<1>6. Len(chain') = Len(chain) /\ chain'[1] = stored
      /\ \A i \in 1 .. Len(chain) : i # 1 => chain'[i] = chain[i]
  BY <1>2, <1>4, <1>5, ExceptSeq DEF Broadcasts
<1>7. \A i \in Nat : Broadcasts(i)' => Broadcasts(i)
  BY <1>2, <1>4, <1>6 DEF Broadcasts
<1>8. HeadIsStored'
  <2> SUFFICES ASSUME NEW i \in Nat, Broadcasts(i), chain'[i].seq # 0
               PROVE  \E s \in outbox' : s.seq = chain'[i].seq /\ s.ev = chain'[i].ev
    BY <1>7 DEF HeadIsStored
  <2>1. CASE i = 1
    BY <1>1, <1>4, <1>6, <2>1
  <2>2. CASE i # 1
    BY <1>6, <2>2 DEF Broadcasts, Ordered, HeadOnly
  <2> QED BY <2>1, <2>2
<1>9. AtHead(r)' /\ \A s \in outbox : ~AtHead(s)
  BY <1>1, <1>2, <1>4, <1>6, OrderTypes DEF AtHead, Broadcasts
<1>10. r \in outbox \/ \A n \in Nat : Reaches(n) => n < r.seq
  BY <1>1, <1>2, OrderTypes DEF Reaches
<1>11. ASSUME NEW c \in Listener PROVE ClientTold(c)'
  <2>1. Reaches(cursor[c]) /\ cursor[c] \in Nat
        /\ \A k \in 1 .. Len(wire[c]) : Reaches(wire[c][k].id) /\ wire[c][k].id \in Nat
    BY OrderTypes DEF Told, ClientTold, InReach
  <2>2. InReach(c)' /\ Begun(c)'
    BY <1>1 DEF Told, ClientTold, InReach, Begun, Reaches
  <2>3. Had(c)'
    BY <1>1, <1>2, <1>10, <2>1 DEF Told, ClientTold, Had
  <2>4. Coming(c)'
    BY <1>1, <1>9 DEF Told, ClientTold, Coming, OnWire
  <2>5. InTurn(c)'
    BY <1>1, <1>2, <1>10, <2>1 DEF Told, ClientTold, InTurn, OnWire
  <2> QED BY <2>2, <2>3, <2>4, <2>5 DEF ClientTold
<1>12. Reaches(Reached)'
  BY <1>1 DEF Told, Reaches
<1> QED BY <1>8, <1>11, <1>12 DEF Told

LEMMA ForgetsTold ==
  ASSUME StreamTyped, Ordered, Told, Forgets
  PROVE  Told'
<1>1. UNCHANGED <<outbox, streams, conn, booted, cursor, wire, excused, seen>>
      /\ HeadIs("broadcast") /\ chain' = Tail(chain) /\ Head(chain).seq = 0
  BY DEF Forgets
<1>2. \A i \in Nat : Broadcasts(i)' => RowsComeBefore(i)' /\ chain'[i].seq = 0
  BY <1>1, DoneOrdered
<1>3. HeadIsStored'
  BY <1>2 DEF HeadIsStored
<1>4. \A r \in outbox : ~AtHead(r)
  BY <1>1, HeadJob, OrderTypes DEF AtHead
<1>5. ASSUME NEW c \in Listener PROVE ClientTold(c)'
  BY <1>1, <1>4 DEF Told, ClientTold, Begun, Had, Coming, OnWire, InTurn, InReach, Reaches
<1> QED BY <1>1, <1>3, <1>5 DEF Told, Reaches

LEMMA WritesTold ==
  ASSUME StreamTyped, Ordered, Told, Writes
  PROVE  Told'
<1>1. UNCHANGED <<outbox, streams, conn, booted, cursor, excused, seen>>
      /\ HeadIs("broadcast") /\ chain' = Tail(chain)
  BY DEF Writes
<1> DEFINE m == HeadMessage
<1>2. Broadcasts(1) /\ m = [id |-> chain[1].seq, ev |-> chain[1].ev] /\ chain[1].seq # 0
  BY <1>1, HeadJob DEF HeadMessage, Broadcasts, Writes
<1>3. m \in WireRow /\ m.ev = chain[1].ev /\ m.id = chain[1].seq /\ m.id \in Nat
  BY <1>2, OrderTypes DEF WireRow
<1>4. PICK stored \in outbox : stored.seq = m.id /\ stored.ev = m.ev
  BY <1>2, <1>3 DEF Told, HeadIsStored
<1> HIDE DEF m
<1>5. ASSUME NEW c \in Listener, c \in streams
      PROVE  /\ Len(wire[c]) \in Nat
             /\ Len(wire'[c]) = Len(wire[c]) + 1 /\ wire'[c][Len(wire[c]) + 1] = m
             /\ \A k \in 1 .. Len(wire[c]) : wire'[c][k] = wire[c][k]
             /\ \A k \in 1 .. Len(wire'[c]) : k \in 1 .. Len(wire[c]) \/ k = Len(wire[c]) + 1
  <2>1. wire[c] \in Seq(WireRow) /\ wire'[c] = Append(wire[c], m)
    BY <1>5 DEF StreamTyped, Writes, m
  <2> QED BY <1>3, <2>1, Appended
<1>6. \A c \in Listener : c \notin streams => wire'[c] = wire[c]
  BY DEF Writes
<1>7. \A i \in Nat : Broadcasts(i)' => RowsComeBefore(i)' /\ chain'[i].seq = 0
  BY <1>1, DoneOrdered
<1>8. HeadIsStored'
  BY <1>7 DEF HeadIsStored
<1>9. \A r \in outbox : AtHead(r) => r.seq = m.id /\ r.ev = m.ev
  BY <1>3, <1>4 DEF AtHead, StreamTyped, Distinct
<1>10. ASSUME NEW c \in Listener PROVE ClientTold(c)'
  <2>1. Begun(c)' /\ Had(c)'
    BY <1>1 DEF Told, ClientTold, Begun, Had
  <2>2. CASE c \notin streams
    <3>1. Coming(c)'
      BY <1>1, <2>2 DEF Coming
    <3>2. InTurn(c)'
      BY <1>1, <1>6, <2>2 DEF Told, ClientTold, OnWire, InTurn
    <3>3. InReach(c)'
      BY <1>1, <1>6, <2>2 DEF Told, ClientTold, InReach, Reaches
    <3> QED BY <2>1, <3>1, <3>2, <3>3 DEF ClientTold
  <2>3. CASE c \in streams
    <3> DEFINE n == Len(wire[c]) + 1
    <3>1. /\ n \in Nat /\ Len(wire'[c]) = n /\ wire'[c][n] = m /\ n \in 1 .. n
          /\ \A k \in 1 .. Len(wire[c]) : wire'[c][k] = wire[c][k] /\ k \in 1 .. n /\ k <= n
          /\ \A k \in 1 .. n : k \in 1 .. Len(wire[c]) \/ k = n
      BY <1>5, <2>3
    <3> HIDE DEF n
    <3>2. \A r \in outbox : \A k \in 1 .. Len(wire[c]) : OnWire(c, r, k) => OnWire(c, r, k)'
      BY <3>1 DEF OnWire
    <3>3. \A r \in outbox : OnWire(c, r, Len(wire[c])) => OnWire(c, r, Len(wire[c]))'
      BY <3>1 DEF OnWire
    <3>4. \A r \in outbox : AtHead(r) => OnWire(c, r, Len(wire[c]))'
      BY <1>9, <3>1 DEF OnWire
    <3>5. \A r \in outbox : r.seq > cursor[c] /\ Owed(r.ev) => OnWire(c, r, Len(wire[c]))'
      BY <2>3, <3>3, <3>4 DEF Told, ClientTold, Coming
    <3>6. Coming(c)'
      BY <1>1, <3>1, <3>5 DEF Coming
    <3>7. InTurn(c)'
      BY <1>1, <3>1, <3>2, <3>5 DEF Told, ClientTold, InTurn
    <3>8. InReach(c)'
      BY <1>1, <1>3, <1>4, <3>1 DEF Told, ClientTold, InReach, Reaches
    <3> QED BY <2>1, <3>6, <3>7, <3>8 DEF ClientTold
  <2> QED BY <2>2, <2>3
<1> QED BY <1>1, <1>8, <1>10 DEF Told, Reaches

LEMMA CollectsTold ==
  ASSUME StreamTyped, Told, NEW P \in SUBSET Asking, Collects(P)
  PROVE  Told'
<1>1. UNCHANGED <<outbox, streams, conn, booted, cursor, wire, excused, seen>> /\ HeadIs("stream")
  BY DEF Collects
<1>2. chain[1] \in StreamRow /\ 1 \in 1 .. Len(chain) /\ chain \in Seq(JobRow)
  BY <1>1, HeadJob, JobTypes DEF StreamTyped
<1> DEFINE collected == [chain[1] EXCEPT !.pending = P, !.collected = TRUE]
<1>3. collected \in JobRow /\ collected.job = "stream" /\ chain[1].job = "stream"
  BY <1>2 DEF JobRow, StreamRow
<1>4. chain' = [chain EXCEPT ![1] = collected]
  BY DEF Collects, StreamTyped
<1> HIDE DEF collected
<1>5. Len(chain') = Len(chain) /\ chain'[1] = collected
      /\ \A i \in 1 .. Len(chain) : i # 1 => chain'[i] = chain[i]
  BY <1>2, <1>3, <1>4, ExceptSeq
<1>6. \A i \in Nat : Broadcasts(i)' => Broadcasts(i) /\ chain'[i] = chain[i]
  BY <1>2, <1>3, <1>5 DEF Broadcasts
<1>7. \A r \in outbox : ~AtHead(r)
  BY <1>3 DEF AtHead, Broadcasts
<1>8. HeadIsStored'
  BY <1>1, <1>6 DEF HeadIsStored, Told
<1>9. \A c \in Listener : ClientTold(c)'
  BY <1>1, <1>7 DEF Told, ClientTold, Begun, Had, Coming, OnWire, InTurn, InReach, Reaches
<1> QED BY <1>1, <1>8, <1>9 DEF Told, Reaches

LEMMA ReplaysTold ==
  ASSUME StreamTyped, Ordered, Told, NEW sent \in Seq(WireRow), NEW n \in 0 .. Len(sent),
         Replays(sent, n), idCounter' <= Reached
  PROVE  Told'
<1> DEFINE t == chain[1].to
<1>1. UNCHANGED <<outbox, conn, booted, cursor, excused, seen>> /\ HeadIs("stream")
      /\ chain' = Tail(chain) /\ idCounter' \in Nat
  BY DEF Replays
<1>2. \A c \in Listener :
        IF c = t
        THEN /\ wire'[c] = sent /\ chain[1].after = cursor[c] /\ Joins(1, c)
             /\ conn[c] = "open" /\ c \notin streams
        ELSE wire'[c] = wire[c] /\ (c \in streams' <=> c \in streams)
  BY ReplaysOnWire DEF Ordered
<1>3. Sends(sent, n, chain[1].after) /\ chain[1].job = "stream"
  BY <1>1, HeadJob DEF Replays
<1>4. \A i \in Nat : Broadcasts(i)' => RowsComeBefore(i)' /\ chain'[i].seq = 0
  BY <1>1, DoneOrdered
<1>5. HeadIsStored'
  BY <1>4 DEF HeadIsStored
<1>6. \A r \in outbox : ~AtHead(r)
  BY <1>3 DEF AtHead, Broadcasts
<1>7. n \in Nat /\ Len(sent) \in Nat /\ (\A k \in 1 .. n : k \in 1 .. Len(sent))
      /\ \A k \in 1 .. Len(sent) : sent[k] \in WireRow /\ sent[k].id \in Nat
  <2>1. \A k \in 1 .. Len(sent) : sent[k] \in WireRow
    OBVIOUS
  <2>2. \A k \in 1 .. Len(sent) : sent[k].id \in Nat
    BY <2>1 DEF WireRow
  <2> QED BY <2>1, <2>2
<1> HIDE DEF t
<1>8. \A r \in outbox : Message(r).id = r.seq /\ Message(r).ev = r.ev
  BY DEF Message
<1>9. ASSUME NEW c \in Listener PROVE ClientTold(c)'
  <2>1. Begun(c)' /\ Had(c)'
    BY <1>1 DEF Told, ClientTold, Begun, Had
  <2>2. CASE c # t
    <3>1. wire'[c] = wire[c] /\ (c \in streams' <=> c \in streams)
      BY <1>2, <2>2
    <3>2. Coming(c)'
      BY <1>1, <1>6, <3>1 DEF Told, ClientTold, Coming, OnWire
    <3>3. InTurn(c)'
      BY <1>1, <3>1 DEF Told, ClientTold, OnWire, InTurn
    <3>4. InReach(c)'
      BY <1>1, <3>1 DEF Told, ClientTold, InReach, Reaches
    <3> QED BY <2>1, <3>2, <3>3, <3>4 DEF ClientTold
  <2>3. CASE c = t
    <3>1. wire'[c] = sent /\ chain[1].after = cursor[c] /\ conn[c] = "open"
      BY <1>2, <2>3
    <3>2. cursor[c] >= Reached /\ cursor[c] \in Nat
      BY <3>1, OrderTypes DEF Told, ClientTold, Begun
    <3>3. \A k \in 1 .. Len(sent) : k > n => sent[k].id <= Reached /\ sent[k].id <= cursor[c]
      BY <1>1, <1>3, <1>7, <3>2, SetConstants DEF Sends
    <3>4. ASSUME NEW r \in outbox, r.seq > cursor[c], Owed(r.ev)
          PROVE  \E l \in 1 .. n : sent[l].id = r.seq /\ sent[l].ev = r.ev
      BY <1>3, <1>8, <3>1, <3>4 DEF Sends
    <3>5. Coming(c)'
      BY <1>1, <1>7, <3>1, <3>4 DEF Coming, OnWire
    <3>6. InTurn(c)'
      <4>1. ASSUME NEW k \in 1 .. Len(sent), NEW r \in outbox, r.seq > cursor[c], Owed(r.ev),
                   r.seq <= sent[k].id
            PROVE  \E l \in 1 .. Len(sent) : l <= k /\ sent[l].id = r.seq /\ sent[l].ev = r.ev
        <5>1. PICK l \in 1 .. n : sent[l].id = r.seq /\ sent[l].ev = r.ev
          BY <3>4, <4>1
        <5>2. r.seq \in Nat /\ sent[k].id \in Nat /\ l \in 1 .. Len(sent) /\ l \in Nat /\ k \in Nat
          BY <1>7, OrderTypes
        <5>3. ~(k > n)
          BY <3>2, <3>3, <4>1, <5>2
        <5>4. k \in 1 .. n
          BY <1>7, <5>3
        <5>5. ~(k < l)
          BY <1>3, <4>1, <5>1, <5>2, <5>4 DEF Sends
        <5> QED BY <5>1, <5>2, <5>5
      <4> QED BY <1>1, <3>1, <4>1 DEF InTurn, OnWire
    <3>7. InReach(c)'
      <4>1. Reaches(cursor[c]) /\ Reaches(Reached)
        BY DEF Told, ClientTold, InReach
      <4>2. ASSUME NEW k \in 1 .. Len(sent) PROVE Reaches(sent[k].id)
        <5>1. CASE k > n
          BY <1>7, <3>3, <4>1, <5>1, OrderTypes, SetConstants DEF Reaches
        <5>2. CASE ~(k > n)
          <6>1. \E r \in outbox : sent[k] = Message(r)
            BY <1>3, <1>7, <5>2 DEF Sends
          <6> QED BY <1>8, <6>1, OrderTypes DEF Reaches
        <5> QED BY <5>1, <5>2
      <4> QED BY <1>1, <3>1, <4>1, <4>2 DEF InReach, Reaches
    <3> QED BY <2>1, <3>5, <3>6, <3>7 DEF ClientTold
  <2> QED BY <2>2, <2>3
<1> QED BY <1>1, <1>5, <1>9 DEF Told, Reaches

LEMMA ConnectsTold ==
  ASSUME StreamTyped, Told, NEW c \in Listener, Connects(c)
  PROVE  Told'
<1>1. UNCHANGED <<outbox, chain, streams, booted, cursor, wire, excused, seen>>
  BY DEF Connects
<1>2. conn[c] = "down" /\ conn'[c] = (IF c \in booted THEN "ready" ELSE "boot")
      /\ \A d \in Listener : d # c => conn'[d] = conn[d]
  BY DEF Connects, StreamTyped
<1>3. HeadIsStored' /\ Reaches(Reached)'
  BY <1>1 DEF HeadIsStored, Told, Broadcasts, Reaches
<1>4. ASSUME NEW d \in Listener PROVE ClientTold(d)'
  <2>1. Begun(d)'
    BY <1>1, <1>2 DEF Told, ClientTold, Begun
  <2>2. Had(d)' /\ Coming(d)' /\ InTurn(d)' /\ InReach(d)'
    BY <1>1 DEF Told, ClientTold, Had, Coming, OnWire, AtHead, Broadcasts, InTurn, InReach, Reaches
  <2> QED BY <2>1, <2>2 DEF ClientTold
<1> QED BY <1>3, <1>4 DEF Told

LEMMA BootsTold ==
  ASSUME StreamTyped, Ordered, Told, NEW c \in Listener, NEW n \in Nat, Boots(c, n)
  PROVE  Told'
<1>1. UNCHANGED <<outbox, chain, streams, wire, seen>> /\ conn[c] = "boot"
      /\ cursor[c] <= n /\ (\A r \in outbox : r.seq <= n)
      /\ (n # cursor[c] => \E r \in outbox : r.seq = n)
      /\ booted' = booted \cup {c}
  BY DEF Boots
<1>2. /\ conn'[c] = "ready" /\ cursor'[c] = n
      /\ excused'[c] = IF cursor[c] = 0 THEN {r.ev : r \in outbox} ELSE excused[c]
      /\ \A d \in Listener : d # c =>
           conn'[d] = conn[d] /\ cursor'[d] = cursor[d] /\ excused'[d] = excused[d]
  BY DEF Boots, StreamTyped
<1>3. HeadIsStored' /\ Reaches(Reached)'
  BY <1>1 DEF HeadIsStored, Told, Broadcasts, Reaches
<1>4. ASSUME NEW d \in Listener, d # c PROVE ClientTold(d)'
  <2>1. Begun(d)'
    BY <1>1, <1>2, <1>4 DEF Told, ClientTold, Begun
  <2>2. Had(d)' /\ Coming(d)' /\ InTurn(d)' /\ InReach(d)'
    BY <1>1, <1>2, <1>4
       DEF Told, ClientTold, Had, Coming, OnWire, AtHead, Broadcasts, InTurn, InReach, Reaches
  <2> QED BY <2>1, <2>2 DEF ClientTold
<1>5. ClientTold(c)'
  <2>1. cursor[c] = 0 /\ wire[c] = <<>> /\ c \notin streams
    BY <1>1 DEF Told, ClientTold, Begun, Ordered, StreamsSound
  <2>2. \A r \in outbox : r.ev \in excused'[c]
    BY <1>2, <2>1
  <2>3. PICK r \in outbox : Reached <= r.seq
    BY DEF Told, Reaches
  <2>4. n >= Reached
    BY <1>1, <2>3, OrderTypes, SetConstants
  <2>5. Begun(c)'
    BY <1>1, <1>2, <2>4 DEF Begun
  <2>6. Had(c)'
    BY <1>1, <2>2 DEF Had
  <2>7. Coming(c)' /\ InTurn(c)'
    BY <1>1, <2>1 DEF Coming, InTurn
  <2>8. Reaches(n)
    BY <1>1, <2>1, <2>3, OrderTypes DEF Reaches
  <2>9. InReach(c)'
    BY <1>1, <1>2, <2>1, <2>8 DEF InReach, Reaches
  <2> QED BY <2>5, <2>6, <2>7, <2>9 DEF ClientTold
<1> QED BY <1>3, <1>4, <1>5 DEF Told

LEMMA RequestsTold ==
  ASSUME StreamTyped, Told, NEW c \in Listener, Requests(c)
  PROVE  Told'
<1> DEFINE n == Len(chain) + 1
<1>1. UNCHANGED <<outbox, streams, booted, cursor, wire, excused, seen>> /\ conn[c] = "ready"
      /\ conn'[c] = "open" /\ \A d \in Listener : d # c => conn'[d] = conn[d]
  BY DEF Requests, StreamTyped
<1>2. NewStream(c) \in JobRow /\ NewStream(c).job = "stream"
  BY DEF NewStream, JobRow, StreamRow, StreamTyped
<1>3. /\ n \in Nat /\ Len(chain') = n /\ chain'[n] = NewStream(c)
      /\ \A i \in 1 .. Len(chain) : chain'[i] = chain[i]
  BY <1>2, Appended DEF Requests, StreamTyped
<1>4. \A i \in Nat : (Broadcasts(i)' <=> Broadcasts(i)) /\ (Broadcasts(i) => chain'[i] = chain[i])
  BY <1>2, <1>3, OrderTypes DEF Broadcasts
<1>5. HeadIsStored' /\ Reaches(Reached)'
  BY <1>1, <1>4 DEF HeadIsStored, Told, Reaches
<1>6. \A r \in outbox : AtHead(r)' <=> AtHead(r)
  BY <1>4 DEF AtHead
<1>7. ASSUME NEW d \in Listener PROVE ClientTold(d)'
  <2>1. Begun(d)'
    BY <1>1 DEF Told, ClientTold, Begun
  <2>2. Had(d)' /\ InTurn(d)' /\ InReach(d)'
    BY <1>1 DEF Told, ClientTold, Had, OnWire, InTurn, InReach, Reaches
  <2>3. Coming(d)'
    BY <1>1, <1>6 DEF Told, ClientTold, Coming, OnWire
  <2> QED BY <2>1, <2>2, <2>3 DEF ClientTold
<1> QED BY <1>5, <1>7 DEF Told

LEMMA ReceivesTold ==
  ASSUME StreamTyped, Ordered, Told, NEW c \in Listener, NEW n \in Nat, Receives(c, n)
  PROVE  Told'
<1> DEFINE m == wire[c][1]
<1>1. UNCHANGED <<outbox, chain, streams, conn, booted, excused>> /\ n \in {cursor[c], m.id}
      /\ seen'[c] = seen[c] \cup {m.ev}
  BY Read DEF Receives, StreamTyped
<1>2. /\ 1 \in 1 .. Len(wire[c]) /\ cursor'[c] = n /\ m.id <= n /\ cursor[c] <= n
      /\ \A d \in Listener : d # c =>
           wire'[d] = wire[d] /\ cursor'[d] = cursor[d] /\ seen'[d] = seen[d]
  BY Read
<1>3. m.id \in Nat /\ cursor[c] \in Nat /\ Len(wire[c]) \in Nat
      /\ \A r \in outbox : r.seq \in Nat
  BY <1>2, OrderTypes
<1>4. /\ Len(wire'[c]) = Len(wire[c]) - 1
      /\ \A k \in 1 .. Len(wire'[c]) :
           wire'[c][k] = wire[c][k + 1] /\ k + 1 \in 1 .. Len(wire[c])
      /\ \A k \in 2 .. Len(wire[c]) :
           k - 1 \in 1 .. Len(wire'[c]) /\ wire'[c][k - 1] = wire[c][k]
  BY Read
<1>5. HeadIsStored' /\ Reaches(Reached)'
  BY <1>1 DEF HeadIsStored, Told, Broadcasts, Reaches
<1>6. ASSUME NEW d \in Listener, d # c PROVE ClientTold(d)'
  <2>1. Begun(d)'
    BY <1>1, <1>2, <1>6 DEF Told, ClientTold, Begun
  <2>2. Had(d)' /\ InReach(d)'
    BY <1>1, <1>2, <1>6 DEF Told, ClientTold, Had, InReach, Reaches
  <2>3. Coming(d)'
    BY <1>1, <1>2, <1>6 DEF Told, ClientTold, Coming, OnWire, AtHead, Broadcasts
  <2>4. InTurn(d)'
    <3>1. wire'[d] = wire[d] /\ cursor'[d] = cursor[d] /\ outbox' = outbox /\ InTurn(d)
      BY <1>1, <1>2, <1>6 DEF Told, ClientTold
    <3> QED BY <3>1 DEF OnWire, InTurn
  <2> QED BY <2>1, <2>2, <2>3, <2>4 DEF ClientTold
<1> HIDE DEF m
<1>7. ClientTold(c)
  BY DEF Told
<1>8. Begun(c)'
  <2>1. wire[c] # <<>>
    BY DEF Receives
  <2>2. conn[c] = "open"
    BY <2>1 DEF Ordered, StreamsSound
  <2>3. c \in booted /\ cursor[c] >= Reached
    BY <1>7, <2>2 DEF ClientTold, Begun
  <2> QED BY <1>1, <1>2, <1>3, <2>2, <2>3, SetConstants DEF Begun
<1>9. ASSUME NEW r \in outbox, r.seq > n, NEW k \in 1 .. Len(wire[c]), OnWire(c, r, k)
      PROVE  \E l \in 1 .. Len(wire'[c]) : l <= k - 1 /\ wire'[c][l].id = r.seq /\ wire'[c][l].ev = r.ev
  <2>1. PICK l \in 1 .. Len(wire[c]) : l <= k /\ wire[c][l].id = r.seq /\ wire[c][l].ev = r.ev
    BY <1>9 DEF OnWire
  <2>2. l # 1
    BY <1>2, <1>3, <1>9, <2>1 DEF m
  <2>3. l \in 2 .. Len(wire[c]) /\ l - 1 <= k - 1
    BY <2>1, <2>2
  <2> QED BY <1>4, <2>1, <2>3
<1>10. Had(c)'
  <2>1. ASSUME NEW r \in outbox, r.seq <= n, Owed(r.ev) PROVE r.ev \in seen'[c] \cup excused'[c]
    <3>1. CASE r.seq <= cursor[c]
      BY <1>1, <1>7, <2>1, <3>1 DEF ClientTold, Had
    <3>2. CASE r.seq > cursor[c]
      <4>1. r.seq <= m.id
        BY <1>1, <1>3, <2>1, <3>2
      <4>2. OnWire(c, r, 1)
        BY <1>2, <1>7, <2>1, <3>2, <4>1 DEF ClientTold, InTurn, m
      <4>3. r.ev = m.ev
        BY <4>2 DEF OnWire, m
      <4> QED BY <1>1, <4>3
    <3> QED BY <1>3, <3>1, <3>2
  <2> QED BY <1>1, <1>2, <2>1 DEF Had
<1>11. Coming(c)'
  <2>1. ASSUME c \in streams, NEW r \in outbox, r.seq > n, Owed(r.ev)
        PROVE  (AtHead(r) \/ OnWire(c, r, Len(wire[c])))'
    <3>1. r.seq > cursor[c]
      BY <1>2, <1>3, <2>1
    <3>2. AtHead(r) \/ OnWire(c, r, Len(wire[c]))
      BY <1>7, <2>1, <3>1 DEF ClientTold, Coming
    <3>3. CASE AtHead(r)
      BY <1>1, <3>3 DEF AtHead, Broadcasts
    <3>4. CASE OnWire(c, r, Len(wire[c]))
      <4>1. Len(wire[c]) \in 1 .. Len(wire[c])
        BY <1>2, <1>3
      <4>2. PICK l \in 1 .. Len(wire'[c]) : /\ l <= Len(wire[c]) - 1
                                            /\ wire'[c][l].id = r.seq /\ wire'[c][l].ev = r.ev
        BY <1>9, <2>1, <3>4, <4>1
      <4> QED BY <1>4, <4>2 DEF OnWire
    <3> QED BY <3>2, <3>3, <3>4
  <2> QED BY <1>1, <1>2, <2>1 DEF Coming
<1>12. InTurn(c)'
  <2>1. ASSUME NEW k \in 1 .. Len(wire'[c]), NEW r \in outbox, r.seq > n, Owed(r.ev),
               r.seq <= wire'[c][k].id
        PROVE  OnWire(c, r, k)'
    <3>1. k + 1 \in 1 .. Len(wire[c]) /\ wire'[c][k] = wire[c][k + 1]
      BY <1>4
    <3>2. r.seq > cursor[c]
      BY <1>2, <1>3, <2>1
    <3>3. OnWire(c, r, k + 1)
      BY <1>7, <2>1, <3>1, <3>2 DEF ClientTold, InTurn
    <3>4. PICK l \in 1 .. Len(wire'[c]) : /\ l <= (k + 1) - 1
                                          /\ wire'[c][l].id = r.seq /\ wire'[c][l].ev = r.ev
      BY <1>9, <2>1, <3>1, <3>3
    <3> QED BY <3>4 DEF OnWire
  <2> QED BY <1>1, <1>2, <2>1 DEF InTurn
<1>13. InReach(c)'
  <2>1. Reaches(n)
    BY <1>1, <1>2, <1>7 DEF ClientTold, InReach, m
  <2> QED BY <1>1, <1>2, <1>4, <1>7, <2>1 DEF ClientTold, InReach, Reaches
<1>14. ClientTold(c)'
  BY <1>8, <1>10, <1>11, <1>12, <1>13 DEF ClientTold
<1> QED BY <1>5, <1>6, <1>14 DEF Told

LEMMA DropsTold ==
  ASSUME StreamTyped, Told, NEW c \in Listener, Drops(c)
  PROVE  Told'
<1>1. /\ UNCHANGED <<outbox, booted, cursor, excused, seen>> /\ wire'[c] = <<>>
      /\ streams' = streams \ {c} /\ conn[c] = "open" /\ conn'[c] = "down"
      /\ \A d \in Listener : d # c => wire'[d] = wire[d] /\ conn'[d] = conn[d]
  BY DEF Drops, StreamTyped
<1>2. Len(chain) \in Nat /\ DOMAIN chain = 1 .. Len(chain)
      /\ \A i \in 1 .. Len(chain) : chain[i] \in JobRow
  BY DEF StreamTyped
<1>3. chain' = [i \in 1 .. Len(chain) |-> Orphaned(chain[i], c)]
  BY <1>2 DEF Drops
<1>4. Len(chain') = Len(chain) /\ \A i \in 1 .. Len(chain) : chain'[i] = Orphaned(chain[i], c)
  <2> HIDE DEF Orphaned
  <2> QED BY <1>2, <1>3
<1>5. \A j \in JobRow : /\ Orphaned(j, c).job = j.job
                        /\ j.job = "broadcast" => Orphaned(j, c) = j
  BY DEF Orphaned, JobRow, BroadcastRow, StreamRow
<1>6. \A i \in Nat : (Broadcasts(i)' <=> Broadcasts(i)) /\ (Broadcasts(i) => chain'[i] = chain[i])
  BY <1>2, <1>4, <1>5 DEF Broadcasts
<1>7. HeadIsStored' /\ Reaches(Reached)'
  BY <1>1, <1>6 DEF HeadIsStored, Told, Reaches
<1>8. \A r \in outbox : AtHead(r)' <=> AtHead(r)
  BY <1>6 DEF AtHead
<1>9. ASSUME NEW d \in Listener, d # c PROVE ClientTold(d)'
  <2>1. Begun(d)' /\ Had(d)'
    BY <1>1, <1>9 DEF Told, ClientTold, Begun, Had
  <2>2. InTurn(d)'
    BY <1>1, <1>9 DEF Told, ClientTold, OnWire, InTurn
  <2>3. InReach(d)'
    BY <1>1, <1>9 DEF Told, ClientTold, InReach, Reaches
  <2>4. Coming(d)'
    BY <1>1, <1>8, <1>9 DEF Told, ClientTold, Coming, OnWire
  <2> QED BY <2>1, <2>2, <2>3, <2>4 DEF ClientTold
<1>10. ClientTold(c)'
  <2>1. Begun(c)' /\ Had(c)'
    BY <1>1 DEF Told, ClientTold, Begun, Had
  <2>2. Coming(c)' /\ InTurn(c)' /\ InReach(c)'
    BY <1>1 DEF Told, ClientTold, Coming, InTurn, InReach, Reaches
  <2> QED BY <2>1, <2>2 DEF ClientTold
<1> QED BY <1>7, <1>9, <1>10 DEF Told

LEMMA RestartsTold ==
  ASSUME StreamTyped, Told, Restarts
  PROVE  Told'
<1>1. UNCHANGED <<outbox, booted, cursor, excused, seen>> /\ chain' = <<>> /\ streams' = {}
      /\ \A c \in Listener : wire'[c] = <<>> /\ conn'[c] = "down"
  BY DEF Restarts
<1>2. HeadIsStored' /\ Reaches(Reached)'
  BY <1>1 DEF HeadIsStored, Broadcasts, Told, Reaches
<1>3. ASSUME NEW c \in Listener PROVE ClientTold(c)'
  <2>1. Begun(c)' /\ Had(c)'
    BY <1>1 DEF Told, ClientTold, Begun, Had
  <2>2. Coming(c)' /\ InTurn(c)' /\ InReach(c)'
    BY <1>1 DEF Told, ClientTold, Coming, InTurn, InReach, Reaches
  <2> QED BY <2>1, <2>2 DEF ClientTold
<1> QED BY <1>2, <1>3 DEF Told

LEMMA StandsTold ==
  ASSUME Told, Stands
  PROVE  Told'
<1>1. UNCHANGED <<outbox, chain, streams, conn, booted, cursor, wire, excused, seen>>
  BY DEF Stands
<1>2. HeadIsStored' /\ Reaches(Reached)'
  BY <1>1 DEF HeadIsStored, Broadcasts, Told, Reaches
<1>3. \A c \in Listener : ClientTold(c)'
  BY <1>1 DEF Told, ClientTold, Begun, Had, Coming, OnWire, AtHead, Broadcasts, InTurn, InReach, Reaches
<1> QED BY <1>2, <1>3 DEF Told

LEMMA ToldMoves ==
  ASSUME StreamTyped, Ordered, Told, KeepingMoves, idCounter' <= Reached
  PROVE  Told'
BY SubmitsTold, StoresTold, ForgetsTold, WritesTold, RestartsTold, StandsTold, CollectsTold,
   ReplaysTold, ConnectsTold, RequestsTold, DropsTold, BootsTold, ReceivesTold DEF KeepingMoves

-----------------------------------------------------------------------------
(* The streams of the system: a behaviour about the brokers has none.      *)

OnStream == subject \in {"kept", "pruned", "live"}
NotPruned == subject \in {"kept", "live"}

StreamInv ==
  /\ subject \in {"broker", "brokers", "kept", "pruned", "live"}
  /\ OnStream => StreamTyped /\ Ordered
  /\ NotPruned => pruning = {}

(* The numbers of requests that are sent again: there are none without     *)
(* approvals.                                                              *)
NoResends ==
  idCounter = 0 /\ \A i \in 1 .. Len(chain) : chain[i].job = "stream" => chain[i].pending = {}

LEMMA StreamInit ==
  ASSUME outbox = {[seq |-> Reached, ev |-> <<"plain", 0>>]}, chain = <<>>, idCounter = 0,
         streams = {}, conn = [c \in Listener |-> "down"], booted = {},
         cursor = [c \in Listener |-> 0], wire = [c \in Listener |-> <<>>], plain = 0,
         excused = [c \in Listener |-> {}], seen = [c \in Listener |-> {}],
         got = [c \in Listener |-> <<>>]
  PROVE  StreamTyped /\ Ordered /\ Told /\ NoResends
<1> DEFINE first == [seq |-> Reached, ev |-> <<"plain", 0>>]
<1>1. first \in OutboxRow /\ first.seq = Reached /\ first.ev = <<"plain", 0>>
  BY SetConstants DEF OutboxRow, Events
<1>2. outbox = {first}
  OBVIOUS
<1> HIDE DEF first
<1>3. StreamTyped
  <2>1. outbox \in SUBSET OutboxRow /\ IsFiniteSet(outbox) /\ Distinct(outbox)
    BY <1>1, <1>2, FS_Singleton DEF Distinct
  <2>2. chain \in Seq(JobRow) /\ plain \in Nat /\ idCounter \in Nat
    OBVIOUS
  <2>3. wire \in [Listener -> Seq(WireRow)] /\ got \in [Listener -> Seq(Nat)]
    OBVIOUS
  <2>4. cursor \in [Listener -> Nat] /\ conn \in [Listener -> {"down", "boot", "ready", "open"}]
    OBVIOUS
  <2>5. /\ streams \in SUBSET Listener /\ booted \in SUBSET Listener
        /\ excused \in [Listener -> SUBSET Events] /\ seen \in [Listener -> SUBSET Events]
    OBVIOUS
  <2> QED BY <2>1, <2>2, <2>3, <2>4, <2>5 DEF StreamTyped
<1>4. \A i \in Nat : ~Broadcasts(i) /\ \A c \in Listener : ~Joins(i, c)
  BY DEF Broadcasts, Joins
<1>5. Ordered
  <2>1. RowsOrdered /\ ChainOrdered /\ ChainIsNew /\ HeadOnly /\ StreamsSound
    BY <1>1, <1>2, <1>4, SetConstants DEF RowsOrdered, ChainOrdered, ChainIsNew, HeadOnly, StreamsSound
  <2>2. Numbered
    BY <1>1, <1>2, <1>4 DEF Numbered, UpToPlain, IsPlain
  <2>3. \A c \in Listener : ClientOrdered(c)
    BY <1>1, <1>2 DEF ClientOrdered, WireOrdered, RowsToGive, GivenInOrder, GivenBefore
  <2> QED BY <2>1, <2>2, <2>3 DEF Ordered
<1>6. Told
  <2>1. HeadIsStored /\ Reaches(Reached) /\ Reaches(0)
    BY <1>1, <1>2, <1>4, SetConstants DEF HeadIsStored, Reaches
  <2>2. ASSUME NEW c \in Listener PROVE ClientTold(c)
    <3>1. cursor[c] = 0 /\ wire[c] = <<>> /\ conn[c] = "down" /\ c \notin streams /\ c \notin booted
      OBVIOUS
    <3> QED BY <1>1, <1>2, <2>1, <3>1, SetConstants
            DEF ClientTold, Begun, Had, Coming, InTurn, InReach
  <2> QED BY <2>1, <2>2 DEF Told
<1>7. NoResends
  BY DEF NoResends
<1> QED BY <1>3, <1>5, <1>6, <1>7

LEMMA StreamInvInit ==
  ASSUME ClientsInit
  PROVE  /\ StreamInv /\ (NotPruned => Told) /\ (subject = "live" => NoResends)
<1>1. CASE subject \in {"broker", "brokers"}
  BY <1>1 DEF StreamInv, OnStream, NotPruned
<1>2. CASE subject \in {"kept", "pruned", "live"}
  <2>1. Kept!Init \/ Pruned!Init \/ Live!Init
    BY <1>2 DEF ClientsInit
  <2>2. StreamTyped /\ Ordered /\ Told /\ NoResends /\ pruning = {}
    <3>1. CASE Kept!Init
      BY <3>1, StreamInit DEF Kept!Init, Kept!Plain
    <3>2. CASE Pruned!Init
      BY <3>2, StreamInit DEF Pruned!Init, Pruned!Plain
    <3>3. CASE Live!Init
      BY <3>3, StreamInit DEF Live!Init, Live!Plain
    <3> QED BY <2>1, <3>1, <3>2, <3>3
  <2> QED BY <1>2, <2>2 DEF StreamInv, OnStream, NotPruned
<1> QED BY <1>1, <1>2 DEF ClientsInit

LEMMA StreamStep ==
  ASSUME StreamInv, [ClientsNext]_<<subject, vars, outboxVars>>
  PROVE  /\ StreamInv' /\ subject' = subject
         /\ NotPruned => KeepingMoves
<1>1. CASE UNCHANGED <<subject, vars, outboxVars>>
  <2>1. UNCHANGED <<subject, outboxVars>> /\ Stands
    BY <1>1 DEF outboxVars, Stands
  <2>2. KeepingMoves
    BY <2>1 DEF KeepingMoves
  <2> QED BY <2>1, <2>2, TypedMoves, OrderedMoves DEF StreamInv, OnStream, NotPruned, outboxVars
<1>2. CASE ClientsNext
  <2>1. subject' = subject
    BY <1>2 DEF ClientsNext
  <2>2. CASE subject \in {"broker", "brokers"}
    BY <2>1, <2>2 DEF StreamInv, OnStream, NotPruned
  <2>3. CASE subject = "kept"
    <3>1. Kept!Next /\ StreamTyped /\ Ordered /\ pruning = {}
      BY <1>2, <2>3 DEF ClientsNext, StreamInv, OnStream, NotPruned
    <3> QED BY <2>1, <2>3, <3>1, KeptMoves, TypedMoves, OrderedMoves DEF StreamInv, OnStream, NotPruned
  <2>4. CASE subject = "pruned"
    <3>1. Pruned!Next /\ StreamTyped /\ Ordered
      BY <1>2, <2>4 DEF ClientsNext, StreamInv, OnStream
    <3> QED BY <2>1, <2>4, <3>1, PrunedMoves, TypedMoves, OrderedMoves DEF StreamInv, OnStream, NotPruned
  <2>5. CASE subject = "live"
    <3>1. Live!Next /\ StreamTyped /\ Ordered /\ pruning = {}
      BY <1>2, <2>5 DEF ClientsNext, StreamInv, OnStream, NotPruned
    <3> QED BY <2>1, <2>5, <3>1, LiveMoves, TypedMoves, OrderedMoves DEF StreamInv, OnStream, NotPruned
  <2> QED BY <2>2, <2>3, <2>4, <2>5 DEF StreamInv
<1> QED BY <1>1, <1>2

LEMMA NoResendsStep ==
  ASSUME StreamTyped, NoResends, Live!Next \/ UNCHANGED outboxVars
  PROVE  NoResends'
<1> DEFINE Clear(j) == j.job = "stream" => j.pending = {}
<1>0. /\ idCounter = 0 /\ Len(chain) \in Nat /\ DOMAIN chain = 1 .. Len(chain)
      /\ \A i \in 1 .. Len(chain) : Clear(chain[i]) /\ chain[i] \in JobRow
  BY DEF NoResends, StreamTyped
<1> SUFFICES /\ idCounter' = 0
             /\ \A i \in 1 .. Len(chain') : Clear(chain'[i])
  BY DEF NoResends
<1>1. ASSUME NEW j \in JobRow, Clear(j), chain' = Append(chain, j)
      PROVE  \A i \in 1 .. Len(chain') : Clear(chain'[i])
  <2> HIDE DEF Clear
  <2> QED BY <1>0, <1>1, Appended DEF StreamTyped
<1>2. ASSUME chain # <<>>, chain' = Tail(chain)
      PROVE  \A i \in 1 .. Len(chain') : Clear(chain'[i])
  <2> HIDE DEF Clear
  <2> QED BY <1>0, <1>2, Popped DEF StreamTyped
<1>3. ASSUME NEW j \in JobRow, Clear(j), chain # <<>>, chain' = [chain EXCEPT ![1] = j]
      PROVE  \A i \in 1 .. Len(chain') : Clear(chain'[i])
  <2>1. 1 \in 1 .. Len(chain)
    BY <1>3, Popped DEF StreamTyped
  <2> HIDE DEF Clear
  <2> QED BY <1>0, <1>3, <2>1, ExceptSeq DEF StreamTyped
<1>4. CASE Live!Broadcast
  <2> DEFINE j == NewJob(Live!Plain(plain + 1))
  <2>1. j \in JobRow /\ Clear(j)
    BY DEF NewJob, JobRow, BroadcastRow, Live!Plain, Events, StreamTyped
  <2>2. chain' = Append(chain, j) /\ idCounter' = idCounter
    BY <1>4 DEF Live!Broadcast, Live!BroadcastJob, NewJob
  <2> HIDE DEF j, Clear
  <2> QED BY <1>0, <1>1, <2>1, <2>2
<1>5. CASE Live!AppendRow
  <2> DEFINE e == Head(chain).ev
             j == [chain[1] EXCEPT !.seq = RowOf(e).seq]
  <2>1. HeadIs("broadcast") /\ idCounter' = idCounter
    BY <1>5 DEF Live!AppendRow, Live!Running, HeadIs
  <2>2. chain[1] \in BroadcastRow /\ e \in Events /\ chain # <<>>
    BY <2>1, HeadJob, JobTypes
  <2>3. RowOf(e) \in OutboxRow
    BY <2>2, AppendedRow
  <2>4. chain' = [chain EXCEPT ![1] = j]
    BY <1>5, SameRow DEF Live!AppendRow
  <2> HIDE DEF e
  <2>5. j \in JobRow /\ j.job = "broadcast"
    BY <2>2, <2>3 DEF JobRow, BroadcastRow, OutboxRow
  <2> HIDE DEF j
  <2> QED BY <1>0, <1>3, <2>1, <2>2, <2>4, <2>5
<1>6. CASE Live!WriteToStreams \/ Live!AppendFails
  BY <1>0, <1>2, <1>6 DEF Live!WriteToStreams, Live!AppendFails, Live!Running
<1>7. CASE Live!CollectApprovals
  <2> DEFINE j == [chain[1] EXCEPT !.pending = {}, !.collected = TRUE]
  <2>1. HeadIs("stream") /\ idCounter' = idCounter
    BY <1>7 DEF Live!CollectApprovals, Live!Running, HeadIs
  <2>2. chain[1] \in StreamRow /\ chain # <<>>
    BY <2>1, HeadJob, JobTypes
  <2>3. Live!Pending = {}
    BY DEF Live!Pending
  <2>4. chain' = [chain EXCEPT ![1].pending = {}, ![1].collected = TRUE]
    BY <1>7, <2>3 DEF Live!CollectApprovals
  <2>5. chain' = [chain EXCEPT ![1] = j]
    BY <2>4 DEF StreamTyped
  <2>6. j \in JobRow /\ Clear(j)
    BY <2>2 DEF JobRow, StreamRow
  <2> HIDE DEF j, Clear
  <2> QED BY <1>0, <1>3, <2>1, <2>2, <2>5, <2>6
<1>8. CASE Live!ReplayAndJoin
  <2>1. HeadIs("stream")
    BY <1>8 DEF Live!ReplayAndJoin, Live!Running, HeadIs
  <2>2. Head(chain).pending = {} /\ chain # <<>>
    BY <1>0, <2>1, HeadJob
  <2>3. idCounter' = idCounter + Cardinality({}) /\ chain' = Tail(chain)
    BY <1>8, <2>2, SameSets DEF Live!ReplayAndJoin
  <2> QED BY <1>0, <1>2, <2>2, <2>3, FS_EmptySet
<1>9. CASE Live!Prune \/ Live!RemoveOldest
  BY <1>0, <1>9 DEF Live!Prune, Live!RemoveOldest
<1>10. CASE Live!Restart
  BY <1>10 DEF Live!Restart
<1>11. ASSUME NEW c \in Listener, Live!Connect(c) \/ Live!Bootstrap(c) \/ Live!Receive(c)
                                  \/ Live!BootstrapFails(c)
       PROVE  idCounter' = idCounter /\ chain' = chain
  BY <1>11 DEF Live!Connect, Live!Bootstrap, Live!Receive, Live!BootstrapFails
<1>12. ASSUME NEW c \in Listener, Live!RequestStream(c)
       PROVE  idCounter' = 0 /\ \A i \in 1 .. Len(chain') : Clear(chain'[i])
  <2>1. NewStream(c) \in JobRow /\ Clear(NewStream(c))
    BY DEF NewStream, JobRow, StreamRow, StreamTyped
  <2>2. chain' = Append(chain, NewStream(c)) /\ idCounter' = idCounter
    BY <1>12 DEF Live!RequestStream, Live!StreamJob, NewStream
  <2> HIDE DEF Clear
  <2> QED BY <1>0, <1>1, <2>1, <2>2
<1>13. ASSUME NEW c \in Listener, Live!Drop(c)
       PROVE  idCounter' = 0 /\ \A i \in 1 .. Len(chain') : Clear(chain'[i])
  <2>1. chain' = [i \in 1 .. Len(chain) |-> Orphaned(chain[i], c)] /\ idCounter' = idCounter
    BY <1>0, <1>13 DEF Live!Drop, Orphaned
  <2>2. \A j \in JobRow : Clear(j) => Clear(Orphaned(j, c))
    BY DEF Orphaned, JobRow, BroadcastRow, StreamRow
  <2> HIDE DEF Clear, Orphaned
  <2>3. Len(chain') = Len(chain) /\ \A i \in 1 .. Len(chain) : chain'[i] = Orphaned(chain[i], c)
    BY <1>0, <2>1
  <2> QED BY <1>0, <2>1, <2>2, <2>3
<1>14. CASE UNCHANGED outboxVars
  BY <1>0, <1>14 DEF outboxVars
<1> HIDE DEF Clear
<1> QED
  BY <1>0, <1>4, <1>5, <1>6, <1>7, <1>8, <1>9, <1>10, <1>11, <1>12, <1>13, <1>14
     DEF Live!Next, Live!ServerStep, Live!ClientStep

(* A client is given the uncorrelated events in the order they were        *)
(* broadcast and none of them twice, whatever is replayed, pruned, lost or *)
(* restarted (InOrderOnce).                                                *)
THEOREM EventsComeInOrder == ClientsSpec => []InOrderOnce
<1>1. StreamInv => InOrderOnce
  <2> SUFFICES ASSUME StreamInv, subject \in {"pruned", "live"}, NEW c \in Listener,
                      NEW i \in DOMAIN got[c], NEW j \in DOMAIN got[c], i < j
               PROVE  got[c][i] < got[c][j]
    BY DEF InOrderOnce, Live!InOrderOnce
  <2>1. got[c] \in Seq(Nat) /\ GivenInOrder(c)
    BY DEF StreamInv, OnStream, StreamTyped, Ordered, ClientOrdered
  <2>2. DOMAIN got[c] = 1 .. Len(got[c])
    BY <2>1, LenProperties
  <2> QED BY <2>1, <2>2 DEF GivenInOrder
<1>2. ClientsInit => StreamInv
  BY StreamInvInit
<1>3. StreamInv /\ [ClientsNext]_<<subject, vars, outboxVars>> => StreamInv'
  BY StreamStep
<1> QED BY <1>1, <1>2, <1>3, PTL DEF ClientsSpec

(* The requests of approvals that are sent again bear ids of a counter of  *)
(* the server: below the outbox's own numbers they move no cursor.         *)
FewResends == subject = "kept" => idCounter <= Reached

(* However its connection breaks, a client whose stream is settled has     *)
(* been given every event that the outbox keeps, or began after it, as     *)
(* long as the requests sent again are fewer than the number the outbox    *)
(* began with (CaughtUp; FewResends is what server-sse.ts leaves to luck). *)
THEOREM ClientsCatchUp == ClientsSpec /\ []FewResends => []CaughtUp
<1> DEFINE Inv == /\ StreamInv /\ (NotPruned => Told) /\ (subject = "live" => NoResends)
<1>1. Inv => CaughtUp
  <2> SUFFICES ASSUME Inv, subject \in {"kept", "live"}, NEW c \in Listener,
                      c \in streams, wire[c] = <<>>, chain = <<>>,
                      NEW r \in outbox, Owed(r.ev)
               PROVE  r.ev \in seen[c] \cup excused[c]
    BY DEF CaughtUp, Kept!CaughtUp, Kept!Settled, Live!CaughtUp, Live!Settled, Owed
  <2>1. StreamTyped /\ ClientTold(c)
    BY DEF StreamInv, OnStream, NotPruned, Told
  <2>2. ~AtHead(r) /\ ~OnWire(c, r, Len(wire[c]))
    BY DEF AtHead, Broadcasts, OnWire
  <2>3. ~(r.seq > cursor[c])
    BY <2>1, <2>2 DEF ClientTold, Coming
  <2>4. r.seq <= cursor[c]
    BY <2>1, <2>3, OrderTypes
  <2> QED BY <2>1, <2>4 DEF ClientTold, Had
<1>2. ClientsInit => Inv
  BY StreamInvInit
<1>3. Inv /\ FewResends' /\ [ClientsNext]_<<subject, vars, outboxVars>> => Inv'
  <2> SUFFICES ASSUME Inv, FewResends', [ClientsNext]_<<subject, vars, outboxVars>>
               PROVE  Inv'
    OBVIOUS
  <2>1. StreamInv' /\ subject' = subject /\ (NotPruned => KeepingMoves)
    BY StreamStep
  <2>2. (subject = "live" => NoResends)'
    <3> SUFFICES ASSUME subject = "live" PROVE NoResends'
      BY <2>1
    <3>1. StreamTyped /\ NoResends
      BY DEF StreamInv, OnStream
    <3>2. Live!Next \/ UNCHANGED outboxVars
      BY DEF ClientsNext, outboxVars
    <3> QED BY <3>1, <3>2, NoResendsStep
  <2>3. (NotPruned => Told)'
    <3> SUFFICES ASSUME NotPruned PROVE Told'
      BY <2>1 DEF NotPruned
    <3>1. StreamTyped /\ Ordered /\ Told /\ KeepingMoves
      BY <2>1 DEF StreamInv, OnStream, NotPruned
    <3>2. idCounter' <= Reached
      BY <2>1, <2>2, SetConstants DEF NotPruned, FewResends, NoResends
    <3> QED BY <3>1, <3>2, ToldMoves
  <2> QED BY <2>1, <2>2, <2>3
<1> HIDE DEF Inv
<1> QED BY <1>1, <1>2, <1>3, PTL DEF ClientsSpec

-----------------------------------------------------------------------------
(* The approval brokers: the inductive invariant. *)

(* The hypotheses.  Ids of tool approvals are random; budgets and wait      *)
(* strategies use theirs again, and then decisions are revised             *)
(* (MCClientsReuse).  With a chat's broker over the same store a caller    *)
(* may hear the outcome that its own broker tried to save.                 *)
IdsUsedOnce == \A r, s \in Request : IdOf[r] = IdOf[s] => r = s
Alone       == Broker = {DaemonBroker}

(* A row is the record of the request with its id, and says what was       *)
(* decided until it is pruned.                                             *)
RowsSound ==
  \A a \in Approval :
    /\ row[a].state # "none" => IdOf[row[a].by] = a
    /\ row[a].state = "pending" => verdict[a] = "open"
    /\ row[a].state \in Decided => verdict[a] = row[a].state

(* Nothing is known of a request that has not been made. *)
Unknown(r) ==
  LET a == IdOf[r] IN
  /\ row[a] = NoRow /\ verdict[a] = "open"
  /\ \A b \in Broker : /\ <<b, r>> \notin saves \cup deliveries /\ r \notin restoring[b]
                       /\ ~Tracked(b, a)
  /\ \A f \in finals : f.id # a

UnaskedUnknown == \A r \in Request : told[r] = "unasked" => Unknown(r)

(* While the save of a request is in flight it has no row. *)
SaveIsFirst ==
  \A b \in Broker, r \in Request :
    <<b, r>> \in saves =>
      /\ b = HomeOf[r] /\ told[r] \in {"waiting", "gone"}
      /\ row[IdOf[r]] = NoRow /\ verdict[IdOf[r]] = "open"

(* A live session is that of a caller who waits at its own broker, and     *)
(* every finalization of it awaits its save.                               *)
LiveSound ==
  \A b \in Broker, a \in Approval :
    sessions[b][a].live =>
      LET r == sessions[b][a].by IN
      /\ r \in Request /\ IdOf[r] = a /\ b = HomeOf[r] /\ told[r] = "waiting"
      /\ sessions[b][a].ready /\ b \in started /\ r \notin restoring[b]
      /\ \A f \in finals : f.broker = b /\ f.id = a => f.awaits = r

Sound == RowsSound /\ UnaskedUnknown /\ SaveIsFirst /\ LiveSound

(* Behind the back of the daemon's broker a row is decided only by         *)
(* maintenance, of a request that has expired and that nobody is about to  *)
(* approve.                                                                *)
Unheard(a) ==
  LET r == sessions[DaemonBroker][a].by IN
  \/ <<DaemonBroker, r>> \in saves
  \/ row[a].state = "pending"
  \/ /\ row[a].state = "expired" /\ r \in lapsed
     /\ \A f \in finals : f.id = a => f.outcome # "approved"

LiveUnheard ==
  \A a \in Approval : sessions[DaemonBroker][a].live => Unheard(a)

-----------------------------------------------------------------------------
(* Types *)

USE BrokerAssumption DEF BrokerAssumption

Session == [by : Request \cup {NoRequest}, live : BOOLEAN, finalizing : BOOLEAN, ready : BOOLEAN]
Final   == [broker : Broker, id : Approval, outcome : Decided, awaits : Request \cup {NoRequest}]

(* What a beginning finalization does to the sessions: it only marks one.  *)
LEMMA BeginFacts ==
  ASSUME TypeOK, NEW b \in Broker, NEW a \in Approval, NEW o \in Decided,
         BeginFinalize(b, a, o)
  PROVE  /\ sessions' \in [Broker -> [Approval -> Session]]
         /\ Finalization(b, a, o) \in Final
         /\ finals' = finals \cup {Finalization(b, a, o)}
         /\ \A c \in Broker, x \in Approval :
              /\ sessions'[c][x].by = sessions[c][x].by
              /\ sessions'[c][x].live = sessions[c][x].live
              /\ sessions'[c][x].ready = sessions[c][x].ready
<1>1. sessions[b][a] \in Session
  BY DEF TypeOK, Session
<1>2. Finalization(b, a, o) \in Final
  BY <1>1 DEF Finalization, Final, Session
<1>3. (sessions[b][a].finalizing \/ sessions[b][a].ready) \in BOOLEAN
  OBVIOUS
<1> DEFINE marked == [sessions[b][a] EXCEPT !.finalizing = sessions[b][a].finalizing \/ sessions[b][a].ready]
<1>4. marked \in Session /\ marked.by = sessions[b][a].by
      /\ marked.live = sessions[b][a].live /\ marked.ready = sessions[b][a].ready
  BY <1>1, <1>3 DEF Session
<1>5. sessions' = [sessions EXCEPT ![b] = [sessions[b] EXCEPT ![a] = marked]]
  BY DEF BeginFinalize, TypeOK
<1> HIDE DEF marked
<1>6. sessions \in [Broker -> [Approval -> Session]]
  BY DEF TypeOK, Session
<1>7. \A c \in Broker, x \in Approval :
        sessions'[c][x] = IF c = b /\ x = a THEN marked ELSE sessions[c][x]
  BY <1>5, <1>6
<1>8. sessions' \in [Broker -> [Approval -> Session]]
  BY <1>4, <1>5, <1>6
<1>9. finals' = finals \cup {Finalization(b, a, o)}
  BY DEF BeginFinalize
<1> QED BY <1>2, <1>4, <1>7, <1>8, <1>9

LEMMA TypeStep ==
  ASSUME TypeOK, [Next]_vars
  PROVE  TypeOK'
<1> USE DEF Session, Final, Decided, NoSession
<1>1. sessions \in [Broker -> [Approval -> Session]] /\ finals \subseteq Final
  BY DEF TypeOK
<1>2. ASSUME NEW b \in Broker, Start(b) PROVE TypeOK'
  <2>1. {row[a].by : a \in {x \in Approval : row[x].state = "pending"}} \subseteq Request
    BY DEF TypeOK, NoRow
  <2> QED BY <1>2, <2>1 DEF Start, TypeOK
<1>3. ASSUME NEW b \in Broker, NEW a \in Approval, NEW o \in Decided, BeginFinalize(b, a, o),
             restoring' \in [Broker -> SUBSET Request], deliveries' \subseteq Broker \X Request,
             UNCHANGED <<row, started, saves, lapsed, told, outages, verdict, announced>>
      PROVE  TypeOK'
  <2>1. sessions' \in [Broker -> [Approval -> Session]] /\ finals' \subseteq Final
    BY <1>1, <1>3, BeginFacts
  <2> QED BY <1>3, <2>1 DEF TypeOK
<1>4. ASSUME NEW b \in Broker, NEW r \in Request, Restore(b, r) PROVE TypeOK'
  <2>1. restoring' \in [Broker -> SUBSET Request]
    BY <1>4 DEF Restore, TypeOK
  <2>2. CASE r \in lapsed
    BY <1>3, <1>4, <2>1, <2>2 DEF Restore, TypeOK
  <2>3. CASE r \notin lapsed
    <3>1. sessions' \in [Broker -> [Approval -> Session]]
      <4> DEFINE restored == [NoSession EXCEPT !.by = r]
      <4>1. restored \in Session
        OBVIOUS
      <4>2. sessions' = [sessions EXCEPT ![b] = [sessions[b] EXCEPT ![IdOf[r]] = restored]]
        BY <1>4, <2>3 DEF Restore
      <4> HIDE DEF restored, Session
      <4> QED BY <1>1, <4>1, <4>2
    <3> QED BY <1>4, <2>1, <2>3, <3>1 DEF Restore, TypeOK
  <2> QED BY <2>2, <2>3
<1>5. ASSUME NEW b \in Broker, NEW r \in Request, RequestApproval(b, r) PROVE TypeOK'
  <2>1. sessions' \in [Broker -> [Approval -> Session]]
    BY <1>1, <1>5 DEF RequestApproval
  <2> QED BY <1>5, <2>1 DEF RequestApproval, TypeOK, Toldness
<1>6. ASSUME NEW b \in Broker, NEW r \in Request, SaveDone(b, r) PROVE TypeOK'
  <2>1. row' \in [Approval -> {NoRow} \cup [state : Decided \cup {"pending"}, by : Request]]
    BY <1>6 DEF SaveDone, SavePending, TypeOK
  <2> QED BY <1>6, <2>1 DEF SaveDone, TypeOK
<1>7. ASSUME NEW b \in Broker, NEW r \in Request, SaveFails(b, r) PROVE TypeOK'
  <2>1. sessions' \in [Broker -> [Approval -> Session]]
    BY <1>1, <1>7 DEF SaveFails
  <2> QED BY <1>7, <2>1 DEF SaveFails, TypeOK, Toldness
<1>8. ASSUME NEW b \in Broker, NEW r \in Request, Deliver(b, r) PROVE TypeOK'
  <2>1. CASE UNCHANGED <<sessions, finals>>
    BY <1>8, <2>1 DEF Deliver, TypeOK
  <2>2. CASE BeginFinalize(b, IdOf[r], "denied")
    BY <1>3, <1>8, <2>2 DEF Deliver, TypeOK
  <2> QED BY <1>8, <2>1, <2>2 DEF Deliver
<1>9. ASSUME NEW r \in Request, NEW o \in Reply,
             ResolveApproval(r, o) \/ \E b \in Broker : ResolveConversationalApproval(b, r, o)
      PROVE  TypeOK'
  BY <1>3, <1>9 DEF ResolveApproval, ResolveConversationalApproval, Reply, TypeOK
<1>10. ASSUME NEW b \in Broker, NEW a \in Approval, Expire(b, a) PROVE TypeOK'
  BY <1>3, <1>10 DEF Expire, TypeOK
<1>11. ASSUME NEW a \in Approval, NEW o \in Decided, ResolvePending(a, o)
       PROVE  /\ row' \in [Approval -> {NoRow} \cup [state : Decided \cup {"pending"}, by : Request]]
              /\ verdict' \in [Approval -> Decided \cup {"open"}]
  <2>1. verdict' \in [Approval -> Decided \cup {"open"}]
    BY <1>11 DEF ResolvePending, TypeOK
  <2>2. CASE row[a].state = "pending"
    <3>1. row[a] \in [state : Decided \cup {"pending"}, by : Request]
      BY <2>2 DEF TypeOK, NoRow
    <3>2. [row[a] EXCEPT !.state = o] \in [state : Decided \cup {"pending"}, by : Request]
      BY <3>1
    <3> QED BY <1>11, <2>1, <2>2, <3>2 DEF ResolvePending, TypeOK
  <2> QED BY <1>11, <2>1, <2>2 DEF ResolvePending, TypeOK
<1>12. ASSUME NEW f \in finals, Settle(f) PROVE TypeOK'
  <2>1. f \in Final /\ ResolvePending(f.id, f.outcome)
    BY <1>1, <1>12 DEF Settle
  <2>2. sessions' \in [Broker -> [Approval -> Session]]
    BY <1>1, <1>12, <2>1 DEF Settle
  <2>3. told' \in [Request -> Toldness] /\ announced' \in [Approval -> SUBSET {"approved", "refused"}]
    BY <1>12, <2>1 DEF Settle, TypeOK, Toldness
  <2>4. /\ row' \in [Approval -> {NoRow} \cup [state : Decided \cup {"pending"}, by : Request]]
        /\ verdict' \in [Approval -> Decided \cup {"open"}]
    BY <1>11, <2>1
  <2> QED BY <1>12, <2>2, <2>3, <2>4 DEF Settle, TypeOK
<1>13. ASSUME NEW a \in Approval, Reconcile(a) PROVE TypeOK'
  BY <1>11, <1>13 DEF Reconcile, TypeOK
<1>14. ASSUME NEW a \in Approval, PruneResolved(a) PROVE TypeOK'
  BY <1>14 DEF PruneResolved, TypeOK
<1>15. ASSUME NEW r \in Request, Lapse(r) PROVE TypeOK'
  BY <1>15 DEF Lapse, TypeOK
<1>16. ASSUME NEW b \in Broker, Stop(b) PROVE TypeOK'
  <2>1. sessions' \in [Broker -> [Approval -> Session]]
    BY <1>1, <1>16 DEF Stop
  <2> QED BY <1>16, <2>1 DEF Stop, TypeOK, Toldness
<1>17. ASSUME NEW b \in Broker, ProcessEnds(b) PROVE TypeOK'
  <2>1. sessions' \in [Broker -> [Approval -> Session]]
    BY <1>1, <1>17 DEF ProcessEnds
  <2> QED BY <1>17, <2>1 DEF ProcessEnds, TypeOK, Toldness
<1>18. CASE UNCHANGED vars
  BY <1>18 DEF vars, TypeOK
<1> HIDE DEF Session, Final, Decided, NoSession
<1> QED
  BY <1>2, <1>4, <1>5, <1>6, <1>7, <1>8, <1>9, <1>10, <1>12, <1>13, <1>14, <1>15, <1>16, <1>17, <1>18
  DEF Next, BrokerStep

(* Type correctness of ApprovalBroker, for any brokers, requests and ids.  *)
THEOREM BrokerTypeCorrect == Spec => []TypeOK
<1>1. Init => TypeOK
  BY DEF Init, TypeOK, NoRow, NoSession, Toldness
<1> QED BY <1>1, TypeStep, PTL DEF Spec

-----------------------------------------------------------------------------
(* Requests, rows and sessions *)

(* A finalization begins for an id whose requests have all been made. *)
Begins(b, a, o) ==
  /\ BeginFinalize(b, a, o)
  /\ \A r \in Request : IdOf[r] = a => told[r] # "unasked"
  /\ \A c \in Broker : restoring'[c] \subseteq restoring[c]
  /\ deliveries' \subseteq deliveries
  /\ UNCHANGED <<row, started, saves, lapsed, told, outages, verdict, announced>>

(* Whatever makes it begin, a finalization is of what somebody asked for. *)
LEMMA BeginsStep ==
  ASSUME TypeOK, Sound, IdsUsedOnce, NEW b \in Broker
  PROVE  /\ \A r \in Request : Restore(b, r) /\ r \in lapsed => Begins(b, IdOf[r], "expired")
         /\ \A r \in Request : Deliver(b, r) =>
              UNCHANGED <<sessions, finals>> \/ Begins(b, IdOf[r], "denied")
         /\ \A r \in Request, o \in Reply :
              /\ ResolveApproval(r, o) => Begins(DaemonBroker, IdOf[r], o)
              /\ ResolveConversationalApproval(b, r, o) => Begins(b, IdOf[r], o)
         /\ \A a \in Approval : Expire(b, a) => Begins(b, a, "expired")
<1>a. ASSUME NEW c \in Broker, NEW a \in Approval, Tracked(c, a) \/ row[a].state = "pending",
             NEW r \in Request, IdOf[r] = a
      PROVE  told[r] # "unasked"
  <2>1. CASE Tracked(c, a)
    BY <1>a, <2>1 DEF Sound, UnaskedUnknown, Unknown
  <2>2. CASE row[a].state = "pending"
    BY <1>a, <2>2 DEF Sound, UnaskedUnknown, Unknown, NoRow
  <2> QED BY <1>a, <2>1, <2>2
<1> USE DEF Sound, UnaskedUnknown, Unknown, IdsUsedOnce
<1>1. ASSUME NEW r \in Request, Restore(b, r), r \in lapsed
      PROVE  Begins(b, IdOf[r], "expired")
  BY <1>1 DEF Restore, Begins, TypeOK
<1>2. ASSUME NEW r \in Request, Deliver(b, r), ~UNCHANGED <<sessions, finals>>
      PROVE  Begins(b, IdOf[r], "denied")
  BY <1>2 DEF Deliver, Begins
<1>3. ASSUME NEW r \in Request, NEW o \in Reply, ResolveApproval(r, o)
      PROVE  Begins(DaemonBroker, IdOf[r], o)
  <2>1. Tracked(DaemonBroker, IdOf[r]) \/ row[IdOf[r]].state = "pending"
    BY <1>3 DEF ResolveApproval, RecordFor
  <2>2. \A s \in Request : IdOf[s] = IdOf[r] => told[s] # "unasked"
    BY <1>a, <2>1
  <2> QED BY <1>3, <2>2 DEF ResolveApproval, Begins
<1>4. ASSUME NEW r \in Request, NEW o \in Reply, ResolveConversationalApproval(b, r, o)
      PROVE  Begins(b, IdOf[r], o)
  BY <1>4 DEF ResolveConversationalApproval, Begins, NoRow
<1>5. ASSUME NEW a \in Approval, Expire(b, a)
      PROVE  Begins(b, a, "expired")
  <2>1. Tracked(b, a)
    BY <1>5 DEF Expire
  <2>2. \A r \in Request : IdOf[r] = a => told[r] # "unasked"
    BY <1>a, <2>1
  <2> QED BY <1>5, <2>2 DEF Expire, Begins
<1> QED BY <1>1, <1>2, <1>3, <1>4, <1>5

(* A beginning finalization changes nothing that the invariant tells of    *)
(* but the finalizations themselves, and of a live one it awaits the save. *)
LEMMA BeginsKeepsSound ==
  ASSUME TypeOK, Sound, NEW b \in Broker, NEW a \in Approval, NEW o \in Decided, Begins(b, a, o)
  PROVE  Sound'
<1>1. /\ Finalization(b, a, o) \in Final
      /\ finals' = finals \cup {Finalization(b, a, o)}
      /\ \A c \in Broker, x \in Approval :
           /\ sessions'[c][x].by = sessions[c][x].by
           /\ sessions'[c][x].live = sessions[c][x].live
           /\ sessions'[c][x].ready = sessions[c][x].ready
  BY BeginFacts DEF Begins
<1>2. RowsSound' /\ SaveIsFirst'
  BY DEF Begins, Sound, RowsSound, SaveIsFirst
<1>3. UnaskedUnknown'
  BY <1>1 DEF Begins, Sound, UnaskedUnknown, Unknown, Tracked, Finalization
<1>4. LiveSound'
  BY <1>1 DEF Begins, Sound, LiveSound, Finalization
<1> QED BY <1>2, <1>3, <1>4 DEF Sound

LEMMA SoundStep ==
  ASSUME TypeOK, Sound, IdsUsedOnce, [Next]_vars
  PROVE  Sound'
<1> USE DEF IdsUsedOnce
<1>0. sessions \in [Broker -> [Approval -> Session]] /\ finals \subseteq Final
  BY DEF TypeOK, Session, Final
<1>1. ASSUME NEW b \in Broker, Start(b) PROVE Sound'
  <2>1. RowsSound' /\ SaveIsFirst'
    BY <1>1 DEF Start, Sound, RowsSound, SaveIsFirst
  <2>2. UnaskedUnknown'
    <3> SUFFICES ASSUME NEW r \in Request, told[r] = "unasked", NEW c \in Broker
                 PROVE  r \notin restoring'[c]
      BY <1>1 DEF Start, Sound, UnaskedUnknown, Unknown, Tracked
    <3>1. Unknown(r)
      BY DEF Sound, UnaskedUnknown
    <3>2. \A a \in Approval : row[a].state = "pending" => row[a].by # r
      BY <3>1 DEF Sound, RowsSound, Unknown, NoRow
    <3>3. restoring'[c] = IF c = b THEN {row[a].by : a \in {x \in Approval : row[x].state = "pending"}}
                          ELSE restoring[c]
      BY <1>1 DEF Start, TypeOK
    <3>4. CASE c = b
      <4> SUFFICES ASSUME r \in {row[a].by : a \in {x \in Approval : row[x].state = "pending"}}
                   PROVE  FALSE
        BY <3>3, <3>4
      <4> QED BY <3>2
    <3>5. CASE c # b
      BY <3>1, <3>3, <3>5 DEF Unknown
    <3> QED BY <3>4, <3>5
  <2>3. LiveSound'
    BY <1>1 DEF Start, Sound, LiveSound, TypeOK
  <2> QED BY <2>1, <2>2, <2>3 DEF Sound
<1>2. ASSUME NEW b \in Broker, NEW r \in Request, Restore(b, r) PROVE Sound'
  <2>1. CASE r \in lapsed
    BY <1>2, <2>1, BeginsStep, BeginsKeepsSound DEF Decided
  <2>2. CASE r \notin lapsed
    <3> DEFINE restored == [NoSession EXCEPT !.by = r]
    <3>1. sessions' = [sessions EXCEPT ![b] = [sessions[b] EXCEPT ![IdOf[r]] = restored]]
      BY <1>2, <2>2 DEF Restore
    <3>2. ~restored.live /\ restored.by = r
      BY DEF NoSession
    <3> HIDE DEF restored
    <3>3. \A c \in Broker, x \in Approval :
            sessions'[c][x] = IF c = b /\ x = IdOf[r] THEN restored ELSE sessions[c][x]
      BY <1>0, <3>1
    <3>4. RowsSound' /\ SaveIsFirst'
      BY <1>2, <2>2 DEF Restore, Sound, RowsSound, SaveIsFirst
    <3>5. told[r] # "unasked"
      BY <1>2 DEF Restore, Sound, UnaskedUnknown, Unknown
    <3>6. UnaskedUnknown'
      BY <1>2, <2>2, <3>3, <3>5 DEF Restore, Sound, UnaskedUnknown, Unknown, Tracked, TypeOK
    <3>7. LiveSound'
      <4> SUFFICES ASSUME NEW c \in Broker, NEW x \in Approval, sessions'[c][x].live
                   PROVE  LET s == sessions'[c][x].by IN
                          /\ s \in Request /\ IdOf[s] = x /\ c = HomeOf[s] /\ told'[s] = "waiting"
                          /\ sessions'[c][x].ready /\ c \in started' /\ s \notin restoring'[c]
                          /\ \A g \in finals' : g.broker = c /\ g.id = x => g.awaits = s
        BY DEF LiveSound
      <4>1. sessions'[c][x] = sessions[c][x]
        BY <3>2, <3>3
      <4>2. restoring'[c] \subseteq restoring[c] /\ UNCHANGED <<told, started, finals>>
        BY <1>2, <2>2 DEF Restore, TypeOK
      <4> QED BY <4>1, <4>2 DEF Sound, LiveSound
    <3> QED BY <3>4, <3>6, <3>7 DEF Sound
  <2> QED BY <2>1, <2>2
<1>3. ASSUME NEW b \in Broker, NEW r \in Request, RequestApproval(b, r) PROVE Sound'
  <2> DEFINE asked == [by |-> r, live |-> TRUE, finalizing |-> FALSE, ready |-> TRUE]
  <2>1. sessions' = [sessions EXCEPT ![b] = [sessions[b] EXCEPT ![IdOf[r]] = asked]]
    BY <1>3 DEF RequestApproval
  <2>2. asked.by = r /\ asked.ready
    OBVIOUS
  <2> HIDE DEF asked
  <2>3. \A c \in Broker, x \in Approval :
          sessions'[c][x] = IF c = b /\ x = IdOf[r] THEN asked ELSE sessions[c][x]
    BY <1>0, <2>1
  <2>4. Unknown(r) /\ told[r] = "unasked"
    BY <1>3 DEF RequestApproval, Sound, UnaskedUnknown
  <2>5. RowsSound'
    BY <1>3 DEF RequestApproval, Sound, RowsSound
  <2>6. UnaskedUnknown'
    BY <1>3, <2>3 DEF RequestApproval, Sound, UnaskedUnknown, Unknown, Tracked, TypeOK
  <2>7. SaveIsFirst'
    BY <1>3, <2>4 DEF RequestApproval, Sound, SaveIsFirst, Unknown, TypeOK
  <2>8. LiveSound'
    <3> SUFFICES ASSUME NEW c \in Broker, NEW x \in Approval, sessions'[c][x].live
                 PROVE  LET s == sessions'[c][x].by IN
                        /\ s \in Request /\ IdOf[s] = x /\ c = HomeOf[s] /\ told'[s] = "waiting"
                        /\ sessions'[c][x].ready /\ c \in started' /\ s \notin restoring'[c]
                        /\ \A g \in finals' : g.broker = c /\ g.id = x => g.awaits = s
      BY DEF LiveSound
    <3>1. UNCHANGED <<started, restoring, finals>> /\ told' = [told EXCEPT ![r] = "waiting"]
      BY <1>3 DEF RequestApproval
    <3>2. CASE c = b /\ x = IdOf[r]
      BY <1>3, <2>2, <2>3, <2>4, <3>1, <3>2 DEF RequestApproval, Unknown, TypeOK
    <3>3. CASE ~(c = b /\ x = IdOf[r])
      BY <2>3, <3>1, <3>3 DEF Sound, LiveSound, TypeOK
    <3> QED BY <3>2, <3>3
  <2> QED BY <2>5, <2>6, <2>7, <2>8 DEF Sound
<1>4. ASSUME NEW b \in Broker, NEW r \in Request, SaveDone(b, r) PROVE Sound'
  <2>1. row[IdOf[r]] = NoRow /\ verdict[IdOf[r]] = "open" /\ b = HomeOf[r] /\ told[r] # "unasked"
    BY <1>4 DEF SaveDone, Sound, SaveIsFirst
  <2>2. row' = [row EXCEPT ![IdOf[r]] = [state |-> "pending", by |-> r]]
    BY <1>4, <2>1 DEF SaveDone, SavePending, NoRow, Decided
  <2>3. \A a \in Approval : row'[a] = IF a = IdOf[r] THEN [state |-> "pending", by |-> r] ELSE row[a]
    BY <2>2 DEF TypeOK
  <2>4. RowsSound'
    BY <1>4, <2>1, <2>3 DEF SaveDone, Sound, RowsSound, Decided
  <2>5. UnaskedUnknown'
    BY <1>4, <2>1, <2>3 DEF SaveDone, Sound, UnaskedUnknown, Unknown, Tracked
  <2>6. SaveIsFirst'
    BY <1>4, <2>1, <2>3 DEF SaveDone, Sound, SaveIsFirst
  <2>7. LiveSound'
    BY <1>4 DEF SaveDone, Sound, LiveSound
  <2> QED BY <2>4, <2>5, <2>6, <2>7 DEF Sound
<1>5. ASSUME NEW b \in Broker, NEW r \in Request, SaveFails(b, r) PROVE Sound'
  <2>1. told[r] # "unasked" /\ b = HomeOf[r]
    BY <1>5 DEF SaveFails, Sound, SaveIsFirst
  <2>2. sessions' = [sessions EXCEPT ![b] = [sessions[b] EXCEPT ![IdOf[r]] = NoSession]]
    BY <1>5 DEF SaveFails
  <2>3. \A c \in Broker, x \in Approval :
          sessions'[c][x] = IF c = b /\ x = IdOf[r] THEN NoSession ELSE sessions[c][x]
    BY <1>0, <2>2
  <2>4. RowsSound'
    BY <1>5 DEF SaveFails, Sound, RowsSound
  <2>5. UnaskedUnknown'
    BY <1>5, <2>1, <2>3 DEF SaveFails, Sound, UnaskedUnknown, Unknown, Tracked, NoSession, TypeOK
  <2>6. SaveIsFirst'
    BY <1>5, <2>1 DEF SaveFails, Sound, SaveIsFirst, TypeOK
  <2>7. LiveSound'
    BY <1>5, <2>1, <2>3 DEF SaveFails, Sound, LiveSound, NoSession, TypeOK
  <2> QED BY <2>4, <2>5, <2>6, <2>7 DEF Sound
<1>6. ASSUME NEW b \in Broker, NEW r \in Request, Deliver(b, r) PROVE Sound'
  <2>1. CASE UNCHANGED <<sessions, finals>>
    BY <1>6, <2>1
    DEF Deliver, Sound, RowsSound, UnaskedUnknown, Unknown, SaveIsFirst, LiveSound, Tracked
  <2>2. CASE Begins(b, IdOf[r], "denied")
    BY <2>2, BeginsKeepsSound DEF Decided
  <2> QED BY <1>6, <2>1, <2>2, BeginsStep
<1>7. ASSUME NEW r \in Request, NEW o \in Reply,
             ResolveApproval(r, o) \/ \E b \in Broker : ResolveConversationalApproval(b, r, o)
      PROVE  Sound'
  BY <1>7, BeginsStep, BeginsKeepsSound DEF Decided, Reply
<1>8. ASSUME NEW b \in Broker, NEW a \in Approval, Expire(b, a) PROVE Sound'
  BY <1>8, BeginsStep, BeginsKeepsSound DEF Decided
<1>9. ASSUME NEW f \in finals, Settle(f) PROVE Sound'
  <2> DEFINE a == f.id
             b == f.broker
  <2>1. f \in Final /\ a \in Approval /\ b \in Broker
    BY <1>0, <1>9 DEF Final
  <2>2. sessions' = [sessions EXCEPT ![b] = [sessions[b] EXCEPT ![a] = NoSession]]
    BY <1>9 DEF Settle
  <2>3. \A c \in Broker, x \in Approval :
          sessions'[c][x] = IF c = b /\ x = a THEN NoSession ELSE sessions[c][x]
    BY <1>0, <2>1, <2>2
  <2>4. \A x \in Approval :
          \/ row'[x] = row[x] /\ verdict'[x] = verdict[x]
          \/ /\ x = a /\ row[x].state = "pending" /\ row'[x].by = row[x].by
             /\ row'[x].state = f.outcome /\ verdict'[x] = f.outcome
    BY <1>9, <2>1 DEF Settle, ResolvePending, TypeOK, NoRow
  <2>5. f.outcome \in Decided
    BY <2>1 DEF Final
  <2>6. \A r \in Request : \/ told'[r] = told[r]
                           \/ /\ sessions[b][a].live /\ r = sessions[b][a].by
                              /\ told'[r] \in {"approved", "refused"}
    BY <1>9, <2>1 DEF Settle, TypeOK
  <2>7. UNCHANGED <<started, restoring, saves, deliveries>> /\ finals' = finals \ {f}
    BY <1>9 DEF Settle
  <2>8. RowsSound'
    BY <2>4, <2>5 DEF Sound, RowsSound, Decided
  <2>9. UnaskedUnknown'
    BY <2>3, <2>4, <2>6, <2>7 DEF Sound, UnaskedUnknown, Unknown, Tracked, NoSession, NoRow
  <2>10. SaveIsFirst'
    <3> SUFFICES ASSUME NEW c \in Broker, NEW r \in Request, <<c, r>> \in saves'
                 PROVE  /\ c = HomeOf[r] /\ told'[r] \in {"waiting", "gone"}
                        /\ row'[IdOf[r]] = NoRow /\ verdict'[IdOf[r]] = "open"
      BY DEF SaveIsFirst
    <3>1. /\ c = HomeOf[r] /\ told[r] \in {"waiting", "gone"} /\ <<c, r>> \in saves
          /\ row[IdOf[r]] = NoRow /\ verdict[IdOf[r]] = "open"
      BY <2>7 DEF Sound, SaveIsFirst
    <3>2. told'[r] = told[r]
      <4> SUFFICES ASSUME sessions[b][a].live, r = sessions[b][a].by PROVE FALSE
        BY <2>6
      <4>1. b = HomeOf[r] /\ f.awaits = r
        BY <1>9, <2>1 DEF Sound, LiveSound
      <4> QED BY <1>9, <3>1, <4>1 DEF Settle
    <3> QED BY <2>4, <3>1, <3>2 DEF NoRow
  <2>11. LiveSound'
    <3> SUFFICES ASSUME NEW c \in Broker, NEW x \in Approval, sessions'[c][x].live
                 PROVE  LET r == sessions'[c][x].by IN
                        /\ r \in Request /\ IdOf[r] = x /\ c = HomeOf[r] /\ told'[r] = "waiting"
                        /\ sessions'[c][x].ready /\ c \in started' /\ r \notin restoring'[c]
                        /\ \A g \in finals' : g.broker = c /\ g.id = x => g.awaits = r
      BY DEF LiveSound
    <3>1. ~(c = b /\ x = a) /\ sessions'[c][x] = sessions[c][x]
      BY <2>3 DEF NoSession
    <3>2. sessions[b][a].live /\ sessions[b][a].by = sessions[c][x].by => FALSE
      BY <2>1, <3>1 DEF Sound, LiveSound
    <3> QED BY <2>6, <2>7, <3>1, <3>2 DEF Sound, LiveSound
  <2> QED BY <2>8, <2>9, <2>10, <2>11 DEF Sound
<1>10. ASSUME NEW a \in Approval, Reconcile(a) PROVE Sound'
  <2>1. row[a].state = "pending"
    BY <1>10 DEF Reconcile
  <2>2. \A x \in Approval :
          \/ x # a /\ row'[x] = row[x] /\ verdict'[x] = verdict[x]
          \/ /\ x = a /\ row'[x].by = row[x].by
             /\ row'[x].state = "expired" /\ verdict'[x] = "expired"
    BY <1>10, <2>1 DEF Reconcile, ResolvePending, TypeOK
  <2>3. RowsSound'
    BY <2>1, <2>2 DEF Sound, RowsSound, Decided
  <2>4. UnaskedUnknown'
    BY <1>10, <2>1, <2>2 DEF Reconcile, Sound, UnaskedUnknown, Unknown, Tracked, NoRow
  <2>5. SaveIsFirst'
    BY <1>10, <2>1, <2>2 DEF Reconcile, Sound, SaveIsFirst, NoRow
  <2>6. LiveSound'
    BY <1>10 DEF Reconcile, Sound, LiveSound
  <2> QED BY <2>3, <2>4, <2>5, <2>6 DEF Sound
<1>11. ASSUME NEW a \in Approval, PruneResolved(a) PROVE Sound'
  <2>1. row[a].state \in Decided /\ \A x \in Approval : row'[x] = IF x = a THEN NoRow ELSE row[x]
    BY <1>11 DEF PruneResolved, TypeOK
  <2>2. RowsSound'
    BY <1>11, <2>1 DEF PruneResolved, Sound, RowsSound, NoRow, Decided
  <2>3. UnaskedUnknown'
    BY <1>11, <2>1 DEF PruneResolved, Sound, UnaskedUnknown, Unknown, Tracked, NoRow
  <2>4. SaveIsFirst'
    BY <1>11, <2>1 DEF PruneResolved, Sound, SaveIsFirst
  <2>5. LiveSound'
    BY <1>11 DEF PruneResolved, Sound, LiveSound
  <2> QED BY <2>2, <2>3, <2>4, <2>5 DEF Sound
<1>12. ASSUME NEW r \in Request, Lapse(r) PROVE Sound'
  BY <1>12
  DEF Lapse, Sound, RowsSound, UnaskedUnknown, Unknown, SaveIsFirst, LiveSound, Tracked
<1>13. ASSUME NEW b \in Broker, Stop(b) PROVE Sound'
  <2>1. \A c \in Broker, x \in Approval :
          sessions'[c][x] = IF c = b THEN NoSession ELSE sessions[c][x]
    BY <1>0, <1>13 DEF Stop
  <2>2. \A r \in Request : \/ told'[r] = told[r]
                           \/ /\ sessions[b][IdOf[r]].by = r /\ sessions[b][IdOf[r]].live
                              /\ told'[r] = "gone"
    BY <1>13 DEF Stop, TypeOK
  <2>3. UNCHANGED <<row, restoring, saves, deliveries, finals, verdict>> /\ started' = started \ {b}
    BY <1>13 DEF Stop
  <2>4. RowsSound'
    BY <2>3 DEF Sound, RowsSound
  <2>5. UnaskedUnknown'
    BY <2>1, <2>2, <2>3 DEF Sound, UnaskedUnknown, Unknown, Tracked, NoSession
  <2>6. SaveIsFirst'
    BY <2>2, <2>3 DEF Sound, SaveIsFirst
  <2>7. LiveSound'
    BY <2>1, <2>2, <2>3 DEF Sound, LiveSound, NoSession
  <2> QED BY <2>4, <2>5, <2>6, <2>7 DEF Sound
<1>14. ASSUME NEW b \in Broker, ProcessEnds(b) PROVE Sound'
  <2>1. \A c \in Broker, x \in Approval :
          sessions'[c][x] = IF c = b THEN NoSession ELSE sessions[c][x]
    BY <1>0, <1>14 DEF ProcessEnds
  <2>2. \A r \in Request : told'[r] = IF told[r] = "waiting" /\ b = HomeOf[r] THEN "gone" ELSE told[r]
    BY <1>14 DEF ProcessEnds
  <2>3. /\ UNCHANGED <<row, verdict>> /\ started' = started \ {b}
        /\ saves' \subseteq saves /\ deliveries' \subseteq deliveries /\ finals' \subseteq finals
        /\ \A c \in Broker : restoring'[c] \subseteq restoring[c]
    BY <1>14 DEF ProcessEnds, TypeOK
  <2>4. RowsSound'
    BY <2>3 DEF Sound, RowsSound
  <2>5. UnaskedUnknown'
    BY <2>1, <2>2, <2>3 DEF Sound, UnaskedUnknown, Unknown, Tracked, NoSession
  <2>6. SaveIsFirst'
    BY <2>2, <2>3 DEF Sound, SaveIsFirst
  <2>7. LiveSound'
    BY <2>1, <2>2, <2>3 DEF Sound, LiveSound, NoSession
  <2> QED BY <2>4, <2>5, <2>6, <2>7 DEF Sound
<1>15. CASE UNCHANGED vars
  BY <1>15
  DEF vars, Sound, RowsSound, UnaskedUnknown, Unknown, SaveIsFirst, LiveSound, Tracked
<1> QED
  BY <1>1, <1>2, <1>3, <1>4, <1>5, <1>6, <1>7, <1>8, <1>9, <1>10, <1>11, <1>12, <1>13, <1>14, <1>15
  DEF Next, BrokerStep

LEMMA SoundHolds == IdsUsedOnce => (Spec => []Sound)
<1> SUFFICES ASSUME IdsUsedOnce PROVE Spec => []Sound
  OBVIOUS
<1>1. Init => Sound
  BY DEF Init, Sound, RowsSound, UnaskedUnknown, Unknown, SaveIsFirst, LiveSound, Tracked,
         NoSession, NoRow, Decided
<1>2. TypeOK /\ Sound /\ [Next]_vars => Sound'
  BY SoundStep
<1> QED BY <1>1, <1>2, BrokerTypeCorrect, PTL DEF Spec

(* A verdict is never revised (DecisionIsFinal), whatever several brokers  *)
(* over one store do and whether rows are restored, expired or pruned: a   *)
(* row that is pending belongs to an approval that is open, because only   *)
(* the first save of its request makes it.                                 *)
THEOREM VerdictsAreFinal == IdsUsedOnce => (Spec => DecisionIsFinal)
<1> SUFFICES ASSUME IdsUsedOnce PROVE Spec => DecisionIsFinal
  OBVIOUS
<1> DEFINE Stays == \A a \in Approval : verdict[a] # "open" => verdict'[a] = verdict[a]
<1>1. ASSUME TypeOK, Sound, [Next]_vars PROVE Stays
  <2>1. ASSUME NEW x \in Approval, NEW o \in Decided, ResolvePending(x, o) PROVE Stays
    BY <1>1, <2>1 DEF ResolvePending, Sound, RowsSound, TypeOK
  <2>2. ASSUME NEW f \in finals, Settle(f) PROVE Stays
    BY <1>1, <2>1, <2>2 DEF Settle, TypeOK
  <2>3. ASSUME NEW x \in Approval, Reconcile(x) PROVE Stays
    BY <2>1, <2>3 DEF Reconcile, Decided
  <2>4. ASSUME UNCHANGED verdict PROVE Stays
    BY <2>4
  <2>5. ASSUME NEW b \in Broker, BrokerStep(b) PROVE Stays
    BY <2>4, <2>5
    DEF BrokerStep, Start, Stop, ProcessEnds, Restore, RequestApproval, SaveDone, SaveFails,
        Deliver, ResolveConversationalApproval, Expire
  <2>6. ASSUME NEW r \in Request, Lapse(r) \/ \E o \in Reply : ResolveApproval(r, o) PROVE Stays
    BY <2>4, <2>6 DEF Lapse, ResolveApproval
  <2>7. ASSUME NEW x \in Approval, PruneResolved(x) PROVE Stays
    BY <2>4, <2>7 DEF PruneResolved
  <2>8. CASE UNCHANGED vars
    BY <2>4, <2>8 DEF vars
  <2> HIDE DEF Stays
  <2> QED BY <1>1, <2>2, <2>3, <2>5, <2>6, <2>7, <2>8 DEF Next
<1>2. TypeOK /\ Sound /\ [Next]_vars => [Stays]_vars
  BY <1>1
<1> QED BY <1>2, BrokerTypeCorrect, SoundHolds, PTL DEF Spec, DecisionIsFinal

-----------------------------------------------------------------------------
(* One broker *)

LEMMA BeginsUnheard ==
  ASSUME TypeOK, Sound, Alone, LiveUnheard, NEW x \in Approval, NEW o \in Decided,
         Begins(DaemonBroker, x, o),
         o = "approved" => sessions[DaemonBroker][x].by \notin lapsed
  PROVE  LiveUnheard'
<1>1. /\ finals' = finals \cup {Finalization(DaemonBroker, x, o)}
      /\ \A c \in Broker, a \in Approval :
           /\ sessions'[c][a].by = sessions[c][a].by
           /\ sessions'[c][a].live = sessions[c][a].live
  BY BeginFacts DEF Begins
<1>2. Finalization(DaemonBroker, x, o).id = x /\ Finalization(DaemonBroker, x, o).outcome = o
  BY DEF Finalization
<1>3. UNCHANGED <<saves, row, lapsed>>
  BY DEF Begins
<1> SUFFICES ASSUME NEW a \in Approval, sessions[DaemonBroker][a].live PROVE Unheard(a)'
  BY <1>1 DEF LiveUnheard
<1>4. Unheard(a)
  BY DEF LiveUnheard
<1> QED BY <1>1, <1>2, <1>3, <1>4 DEF Unheard

LEMMA UnheardStep ==
  ASSUME TypeOK, Sound, IdsUsedOnce, Alone, LiveUnheard, [Next]_vars
  PROVE  LiveUnheard'
<1> USE DEF Alone
<1>0. /\ sessions \in [Broker -> [Approval -> Session]] /\ finals \subseteq Final
      /\ \A f \in finals : f.broker = DaemonBroker
  BY DEF TypeOK, Session, Final
<1>1. ASSUME \A a \in Approval : sessions'[DaemonBroker][a].live =>
               Unheard(a)' \/ /\ sessions'[DaemonBroker][a] = sessions[DaemonBroker][a]
                              /\ Unheard(a) => Unheard(a)'
      PROVE  LiveUnheard'
  BY <1>1 DEF LiveUnheard
<1>2. ASSUME UNCHANGED <<sessions, saves, row, finals>>, lapsed \subseteq lapsed'
      PROVE  LiveUnheard'
  BY <1>1, <1>2 DEF Unheard
<1>3. ASSUME NEW b \in Broker, Start(b) PROVE LiveUnheard'
  BY <1>2, <1>3 DEF Start
<1>4. ASSUME NEW b \in Broker, NEW r \in Request, Restore(b, r) PROVE LiveUnheard'
  <2>1. CASE r \in lapsed
    BY <1>4, <2>1, BeginsStep, BeginsUnheard DEF Decided
  <2>2. CASE r \notin lapsed
    <3> DEFINE restored == [NoSession EXCEPT !.by = r]
    <3>1. sessions' = [sessions EXCEPT ![b] = [sessions[b] EXCEPT ![IdOf[r]] = restored]]
      BY <1>4, <2>2 DEF Restore
    <3>2. ~restored.live
      BY DEF NoSession
    <3> HIDE DEF restored
    <3>3. \A a \in Approval : sessions'[DaemonBroker][a].live =>
            sessions'[DaemonBroker][a] = sessions[DaemonBroker][a]
      BY <1>0, <3>1, <3>2
    <3>4. UNCHANGED <<saves, row, finals, lapsed>>
      BY <1>4, <2>2 DEF Restore
    <3> QED BY <1>1, <3>3, <3>4 DEF Unheard
  <2> QED BY <2>1, <2>2
<1>5. ASSUME NEW b \in Broker, NEW r \in Request, RequestApproval(b, r) PROVE LiveUnheard'
  <2> DEFINE asked == [by |-> r, live |-> TRUE, finalizing |-> FALSE, ready |-> TRUE]
  <2>1. sessions' = [sessions EXCEPT ![b] = [sessions[b] EXCEPT ![IdOf[r]] = asked]]
    BY <1>5 DEF RequestApproval
  <2>2. asked.by = r
    OBVIOUS
  <2> HIDE DEF asked
  <2>3. UNCHANGED <<row, finals, lapsed>> /\ saves' = saves \cup {<<b, r>>} /\ b = DaemonBroker
    BY <1>5 DEF RequestApproval
  <2>4. \A a \in Approval : sessions'[DaemonBroker][a] =
          IF a = IdOf[r] THEN asked ELSE sessions[DaemonBroker][a]
    BY <1>0, <2>1, <2>3
  <2>5. Unheard(IdOf[r])'
    BY <2>2, <2>3, <2>4 DEF Unheard
  <2>6. \A a \in Approval \ {IdOf[r]} : Unheard(a) => Unheard(a)'
    BY <2>3, <2>4 DEF Unheard
  <2> QED BY <1>1, <2>4, <2>5, <2>6
<1>6. ASSUME NEW b \in Broker, NEW r \in Request, SaveDone(b, r) PROVE LiveUnheard'
  <2>1. UNCHANGED <<sessions, finals, lapsed>> /\ saves' = saves \ {<<b, r>>}
    BY <1>6 DEF SaveDone
  <2>2. row[IdOf[r]] = NoRow
    BY <1>6 DEF SaveDone, Sound, SaveIsFirst
  <2>3. \A a \in Approval : row'[a] = IF a = IdOf[r] THEN [state |-> "pending", by |-> r] ELSE row[a]
    BY <1>6, <2>2 DEF SaveDone, SavePending, NoRow, Decided, TypeOK
  <2>4. Unheard(IdOf[r])'
    BY <2>3 DEF Unheard
  <2>5. ASSUME NEW a \in Approval, a # IdOf[r], sessions[DaemonBroker][a].live, Unheard(a)
        PROVE  Unheard(a)'
    <3>1. sessions[DaemonBroker][a].by # r
      BY <2>5 DEF Sound, LiveSound
    <3> QED BY <2>1, <2>3, <2>5, <3>1 DEF Unheard
  <2> QED BY <1>1, <2>1, <2>4, <2>5
<1>7. ASSUME NEW b \in Broker, NEW r \in Request, SaveFails(b, r) PROVE LiveUnheard'
  <2>1. /\ UNCHANGED <<row, lapsed>> /\ saves' = saves \ {<<b, r>>} /\ finals' \subseteq finals
        /\ sessions' = [sessions EXCEPT ![b] = [sessions[b] EXCEPT ![IdOf[r]] = NoSession]]
    BY <1>7 DEF SaveFails
  <2>2. \A a \in Approval : sessions'[DaemonBroker][a].live =>
          a # IdOf[r] /\ sessions'[DaemonBroker][a] = sessions[DaemonBroker][a]
    BY <1>0, <2>1 DEF NoSession
  <2>3. ASSUME NEW a \in Approval, a # IdOf[r], sessions[DaemonBroker][a].live,
               sessions'[DaemonBroker][a] = sessions[DaemonBroker][a], Unheard(a)
        PROVE  Unheard(a)'
    <3>1. sessions[DaemonBroker][a].by # r
      BY <2>3 DEF Sound, LiveSound
    <3> QED BY <2>1, <2>3, <3>1 DEF Unheard
  <2> QED BY <1>1, <2>2, <2>3
<1>8. ASSUME NEW b \in Broker, NEW r \in Request, Deliver(b, r) PROVE LiveUnheard'
  <2>1. CASE UNCHANGED <<sessions, finals>>
    BY <1>2, <1>8, <2>1 DEF Deliver
  <2>2. CASE Begins(b, IdOf[r], "denied")
    BY <2>2, BeginsUnheard DEF Decided
  <2> QED BY <1>8, <2>1, <2>2, BeginsStep
<1>9. ASSUME NEW r \in Request, NEW o \in Reply, ResolveApproval(r, o) PROVE LiveUnheard'
  <2>1. r = RecordFor(DaemonBroker, IdOf[r]) /\ r \notin lapsed
    BY <1>9 DEF ResolveApproval
  <2>2. Begins(DaemonBroker, IdOf[r], o)
    BY <1>9, BeginsStep
  <2>3. CASE Tracked(DaemonBroker, IdOf[r])
    <3>1. sessions[DaemonBroker][IdOf[r]].by \notin lapsed
      BY <2>1, <2>3 DEF RecordFor
    <3> QED BY <2>2, <3>1, BeginsUnheard DEF Decided, Reply
  <2>4. CASE ~Tracked(DaemonBroker, IdOf[r])
    <3>1. sessions[DaemonBroker][IdOf[r]].by \notin lapsed
      BY <2>4 DEF Tracked, TypeOK
    <3> QED BY <2>2, <3>1, BeginsUnheard DEF Decided, Reply
  <2> QED BY <2>3, <2>4
<1>10. ASSUME NEW b \in Broker, NEW a \in Approval, Expire(b, a) PROVE LiveUnheard'
  BY <1>10, BeginsStep, BeginsUnheard DEF Decided
<1>11. ASSUME NEW f \in finals, Settle(f) PROVE LiveUnheard'
  <2>1. f.id \in Approval /\ f.broker = DaemonBroker
    BY <1>0 DEF Final
  <2>2. /\ UNCHANGED <<saves, lapsed>> /\ finals' = finals \ {f} /\ ResolvePending(f.id, f.outcome)
        /\ sessions' = [sessions EXCEPT ![f.broker] = [sessions[f.broker] EXCEPT ![f.id] = NoSession]]
    BY <1>11 DEF Settle
  <2>3. \A a \in Approval : sessions'[DaemonBroker][a].live =>
          a # f.id /\ sessions'[DaemonBroker][a] = sessions[DaemonBroker][a]
    BY <1>0, <2>1, <2>2 DEF NoSession
  <2>4. \A a \in Approval : a # f.id => row'[a] = row[a]
    BY <2>1, <2>2 DEF ResolvePending, TypeOK
  <2> QED BY <1>1, <2>2, <2>3, <2>4 DEF Unheard
<1>12. ASSUME NEW x \in Approval, Reconcile(x) PROVE LiveUnheard'
  <2>1. row[x].state = "pending" /\ row[x].by \in lapsed /\ Idle(DaemonBroker)
        /\ UNCHANGED <<sessions, saves, finals, lapsed>>
    BY <1>12 DEF Reconcile
  <2>2. \A a \in Approval : IF a = x THEN row'[a].state = "expired" ELSE row'[a] = row[a]
    BY <1>12, <2>1 DEF Reconcile, ResolvePending, TypeOK
  <2>3. ASSUME sessions[DaemonBroker][x].live PROVE Unheard(x)'
    <3> DEFINE r == sessions[DaemonBroker][x].by
    <3>1. r \in Request /\ IdOf[r] = x /\ \A f \in finals : f.id = x => f.awaits = r
      BY <1>0, <2>3 DEF Sound, LiveSound
    <3>2. row[x].by \in Request /\ IdOf[row[x].by] = x
      BY <2>1 DEF Sound, RowsSound, TypeOK, NoRow
    <3>3. r = row[x].by
      BY <3>1, <3>2 DEF IdsUsedOnce
    <3>4. \A f \in finals : f.id # x
      <4> SUFFICES ASSUME NEW f \in finals, f.id = x PROVE FALSE
        OBVIOUS
      <4>1. <<DaemonBroker, r>> \in saves
        BY <1>0, <2>1, <3>1 DEF Idle
      <4>2. row[x] = NoRow
        BY <3>1, <4>1 DEF Sound, SaveIsFirst
      <4> QED BY <2>1, <4>2 DEF NoRow
    <3> QED BY <2>1, <2>2, <3>3, <3>4 DEF Unheard
  <2>4. \A a \in Approval \ {x} : Unheard(a) => Unheard(a)'
    BY <2>1, <2>2 DEF Unheard
  <2> QED BY <1>1, <2>1, <2>3, <2>4
<1>13. ASSUME NEW x \in Approval, PruneResolved(x) PROVE LiveUnheard'
  <2>1. ~sessions[DaemonBroker][x].live
    BY <1>13 DEF PruneResolved, Tracked, Sound, LiveSound
  <2>2. UNCHANGED <<sessions, saves, finals, lapsed>> /\ \A a \in Approval \ {x} : row'[a] = row[a]
    BY <1>13 DEF PruneResolved, TypeOK
  <2> QED BY <1>1, <2>1, <2>2 DEF Unheard
<1>14. ASSUME NEW r \in Request, Lapse(r) PROVE LiveUnheard'
  BY <1>2, <1>14 DEF Lapse
<1>15. ASSUME NEW b \in Broker, Stop(b) \/ ProcessEnds(b) PROVE LiveUnheard'
  <2>1. \A a \in Approval : sessions'[DaemonBroker][a] = NoSession
    BY <1>0, <1>15 DEF Stop, ProcessEnds
  <2> QED BY <2>1 DEF LiveUnheard, NoSession
<1>16. CASE UNCHANGED vars
  BY <1>2, <1>16 DEF vars
<1>17. ASSUME NEW b \in Broker, NEW r \in Request, NEW o \in Reply PROVE ~ResolveConversationalApproval(b, r, o)
  BY DEF ResolveConversationalApproval
<1> HIDE DEF Alone
<1> QED
  BY <1>3, <1>4, <1>5, <1>6, <1>7, <1>8, <1>9, <1>10, <1>11, <1>12, <1>13, <1>14, <1>15, <1>16, <1>17
  DEF Next, BrokerStep

LEMMA UnheardHolds == IdsUsedOnce /\ Alone => (Spec => []LiveUnheard)
<1> SUFFICES ASSUME IdsUsedOnce, Alone PROVE Spec => []LiveUnheard
  OBVIOUS
<1>1. Init => LiveUnheard
  BY DEF Init, LiveUnheard, NoSession
<1>2. TypeOK /\ Sound /\ LiveUnheard /\ [Next]_vars => LiveUnheard'
  BY UnheardStep
<1> QED BY <1>1, <1>2, BrokerTypeCorrect, SoundHolds, PTL DEF Spec

-----------------------------------------------------------------------------
(* The broker implements ApprovalDecision *)

(* What callers have been told, in the words of ApprovalDecision. *)
Heard(r) == CASE told[r] \in {"unasked", "waiting"} -> "waiting"
              [] told[r] \in {"rejected", "gone"} -> "gone"
              [] OTHER -> told[r]

(* Steps of ApprovalDecision, told in these words. *)
LEMMA Abandons ==
  ASSUME subject = "broker", subject' = "broker", verdict' = verdict,
         NEW R \in SUBSET Request, \A r \in R : Heard(r) = "waiting",
         \A r \in Request : Heard(r)' = IF r \in R THEN "gone" ELSE Heard(r)
  PROVE  ClientDecisions!Next
<1> QED BY DEF ClientDecisions!Next, ClientDecisions!Abandon, Heard

LEMMA Tells ==
  ASSUME subject = "broker", subject' = "broker", NEW a \in Approval,
         \/ verdict[a] = "open" /\ \E v \in Decided : verdict' = [verdict EXCEPT ![a] = v]
         \/ verdict[a] # "open" /\ verdict' = verdict,
         NEW R \in SUBSET Request, \A r \in R : IdOf[r] = a /\ Heard(r) = "waiting",
         \A r \in Request :
           Heard(r)' = IF r \in R THEN ClientDecisions!Meaning(verdict'[a]) ELSE Heard(r)
  PROVE  ClientDecisions!Next
<1> QED
  BY DEF ClientDecisions!Next, ClientDecisions!DecideOrTell, ClientDecisions!Verdict, Decided, Heard

LEMMA SettleTells ==
  ASSUME TypeOK, Sound, Alone, LiveUnheard, subject = "broker", subject' = "broker",
         NEW f \in finals, Settle(f)
  PROVE  ClientDecisions!Next
<1> DEFINE a == f.id
           s == sessions[f.broker][f.id]
           answer == IF f.outcome = "approved" THEN "approved" ELSE "refused"
           found == row[a].state # "none"
           R == IF found /\ s.live THEN {s.by} ELSE {}
<1>1. f.broker = DaemonBroker /\ a \in Approval /\ f.outcome \in Decided
  BY DEF Alone, TypeOK
<1>2. s.live => /\ s.by \in Request /\ IdOf[s.by] = a /\ told[s.by] = "waiting"
                /\ f.awaits = s.by /\ Unheard(a)
  BY <1>1 DEF Sound, LiveSound, LiveUnheard
<1>3. R \in SUBSET Request /\ \A r \in R : IdOf[r] = a /\ Heard(r) = "waiting"
  BY <1>2 DEF Heard
<1>4. \A r \in Request : told'[r] = IF r \in R THEN answer ELSE told[r]
  BY <1>1, <1>2 DEF Settle, TypeOK
<1>5. \A r \in Request : Heard(r)' = IF r \in R THEN answer ELSE Heard(r)
  BY <1>4 DEF Heard
<1>6. CASE row[a].state = "pending"
  <2>1. verdict[a] = "open" /\ verdict' = [verdict EXCEPT ![a] = f.outcome]
    BY <1>1, <1>6 DEF Settle, ResolvePending, Sound, RowsSound
  <2>2. verdict'[a] = f.outcome
    BY <1>1, <2>1 DEF TypeOK
  <2>3. answer = ClientDecisions!Meaning(verdict'[a])
    BY <2>2 DEF ClientDecisions!Meaning
  <2> HIDE DEF answer, R, a
  <2> QED BY <1>1, <1>3, <1>5, <2>1, <2>3, Tells
<1>7. CASE row[a].state \in Decided
  <2>1. verdict' = verdict /\ verdict[a] = row[a].state /\ verdict[a] # "open"
    BY <1>1, <1>7 DEF Settle, ResolvePending, Sound, RowsSound, Decided
  <2>2. ASSUME s.live PROVE answer = ClientDecisions!Meaning(verdict'[a])
    <3>1. <<DaemonBroker, s.by>> \notin saves
      BY <1>1, <1>2, <2>2 DEF Settle
    <3>2. row[a].state = "expired" /\ f.outcome # "approved"
      BY <1>1, <1>2, <1>7, <2>2, <3>1 DEF Unheard, Decided
    <3> QED BY <2>1, <3>2 DEF ClientDecisions!Meaning
  <2>3. \A r \in Request :
          Heard(r)' = IF r \in R THEN ClientDecisions!Meaning(verdict'[a]) ELSE Heard(r)
    BY <1>5, <2>2
  <2> HIDE DEF answer, R, a
  <2> QED BY <1>1, <1>3, <2>1, <2>3, Tells
<1>8. CASE row[a].state = "none"
  <2>1. verdict' = verdict /\ R = {}
    BY <1>1, <1>8 DEF Settle, ResolvePending
  <2> HIDE DEF answer, R, a
  <2> QED BY <1>3, <1>5, <2>1, Abandons
<1> QED BY <1>1, <1>6, <1>7, <1>8 DEF TypeOK, NoRow

LEMMA DecisionStep ==
  ASSUME TypeOK, Sound, Alone, LiveUnheard, subject = "broker", subject' = "broker", [Next]_vars
  PROVE  ClientDecisions!Next
<1>1. ASSUME verdict' = verdict, \A r \in Request : Heard(r)' = Heard(r)
      PROVE  ClientDecisions!Next
  <2>1. {} \in SUBSET Request
    OBVIOUS
  <2> QED BY <1>1, <2>1, Abandons
<1>2. ASSUME UNCHANGED <<told, verdict>> PROVE ClientDecisions!Next
  BY <1>1, <1>2 DEF Heard
<1>3. ASSUME NEW b \in Broker, NEW r \in Request, RequestApproval(b, r)
      PROVE  ClientDecisions!Next
  <2>1. told[r] = "unasked" /\ told' = [told EXCEPT ![r] = "waiting"] /\ verdict' = verdict
    BY <1>3 DEF RequestApproval
  <2>2. \A x \in Request : Heard(x)' = Heard(x)
    BY <2>1 DEF Heard, TypeOK
  <2> QED BY <1>1, <2>1, <2>2
<1>4. ASSUME NEW b \in Broker, NEW r \in Request, SaveFails(b, r)
      PROVE  ClientDecisions!Next
  <2>1. told[r] \in {"waiting", "gone"} /\ verdict' = verdict
        /\ told' = [told EXCEPT ![r] = "rejected"]
    BY <1>4 DEF SaveFails, Sound, SaveIsFirst
  <2> DEFINE R == IF told[r] = "waiting" THEN {r} ELSE {}
  <2>2. R \in SUBSET Request /\ \A x \in R : Heard(x) = "waiting"
    BY DEF Heard
  <2>3. \A x \in Request : Heard(x)' = IF x \in R THEN "gone" ELSE Heard(x)
    BY <2>1 DEF Heard, TypeOK
  <2> HIDE DEF R
  <2> QED BY <2>1, <2>2, <2>3, Abandons
<1>5. ASSUME NEW b \in Broker, Stop(b) PROVE ClientDecisions!Next
  <2> DEFINE R == {r \in Request : sessions[b][IdOf[r]].by = r /\ sessions[b][IdOf[r]].live}
  <2>1. verdict' = verdict /\ \A r \in Request : told'[r] = IF r \in R THEN "gone" ELSE told[r]
    BY <1>5 DEF Stop
  <2>2. R \in SUBSET Request /\ \A r \in R : told[r] = "waiting"
    BY DEF Sound, LiveSound
  <2>3. \A r \in R : Heard(r) = "waiting"
    BY <2>2 DEF Heard
  <2> HIDE DEF R
  <2>4. \A r \in Request : Heard(r)' = IF r \in R THEN "gone" ELSE Heard(r)
    BY <2>1 DEF Heard
  <2> QED BY <2>1, <2>2, <2>3, <2>4, Abandons
<1>6. ASSUME NEW b \in Broker, ProcessEnds(b) PROVE ClientDecisions!Next
  <2> DEFINE R == {r \in Request : told[r] = "waiting" /\ b = HomeOf[r]}
  <2>1. verdict' = verdict /\ \A r \in Request : told'[r] = IF r \in R THEN "gone" ELSE told[r]
    BY <1>6 DEF ProcessEnds
  <2>2. R \in SUBSET Request /\ \A r \in R : Heard(r) = "waiting"
    BY DEF Heard
  <2> HIDE DEF R
  <2>3. \A r \in Request : Heard(r)' = IF r \in R THEN "gone" ELSE Heard(r)
    BY <2>1 DEF Heard
  <2> QED BY <2>1, <2>2, <2>3, Abandons
<1>7. ASSUME NEW x \in Approval, Reconcile(x) PROVE ClientDecisions!Next
  <2>1. told' = told /\ verdict[x] = "open" /\ verdict' = [verdict EXCEPT ![x] = "expired"]
    BY <1>7 DEF Reconcile, ResolvePending, Sound, RowsSound
  <2>2. \E v \in Decided : verdict' = [verdict EXCEPT ![x] = v]
    BY <2>1 DEF Decided
  <2> DEFINE R == {}
  <2>3. R \in SUBSET Request /\ \A r \in R : IdOf[r] = x /\ Heard(r) = "waiting"
    OBVIOUS
  <2>4. \A r \in Request :
          Heard(r)' = IF r \in R THEN ClientDecisions!Meaning(verdict'[x]) ELSE Heard(r)
    BY <2>1 DEF Heard
  <2> HIDE DEF R
  <2> QED BY <1>1, <2>1, <2>2, <2>3, <2>4, Tells
<1>8. ASSUME NEW f \in finals, Settle(f) PROVE ClientDecisions!Next
  BY <1>8, SettleTells
<1>9. ASSUME NEW b \in Broker, NEW r \in Request,
             \/ Start(b) \/ Restore(b, r) \/ SaveDone(b, r) \/ Deliver(b, r) \/ Lapse(r)
             \/ \E o \in Reply : ResolveApproval(r, o) \/ ResolveConversationalApproval(b, r, o)
      PROVE  ClientDecisions!Next
  BY <1>2, <1>9
  DEF Start, Restore, SaveDone, Deliver, Lapse, ResolveApproval, ResolveConversationalApproval
<1>10. ASSUME NEW b \in Broker, NEW x \in Approval, Expire(b, x) \/ PruneResolved(x)
       PROVE  ClientDecisions!Next
  BY <1>2, <1>10 DEF Expire, PruneResolved
<1>11. CASE UNCHANGED vars
  BY <1>2, <1>11 DEF vars
<1>12. DaemonBroker \in Broker
  OBVIOUS
<1>13. ASSUME NEW b \in Broker, Start(b) PROVE ClientDecisions!Next
  BY <1>2, <1>13 DEF Start
<1> QED
  BY <1>3, <1>4, <1>5, <1>6, <1>7, <1>8, <1>9, <1>10, <1>11, <1>12, <1>13 DEF Next, BrokerStep

(* Where the daemon's broker is alone and no id is used twice, its         *)
(* sessions, store, timers, maintenance and restarts add up to             *)
(* ApprovalDecision (DecidedOnce): an approval is decided once, and its    *)
(* caller is told yes only if it was approved, however replies, expiry,    *)
(* undeliverable prompts, failing saves, crashes and maintenance race.     *)
THEOREM ApprovalsAreDecidedOnce == IdsUsedOnce /\ Alone => (BrokerAlone => DecidedOnce)
<1> SUFFICES ASSUME IdsUsedOnce, Alone PROVE BrokerAlone => DecidedOnce
  OBVIOUS
<1> DEFINE OnBroker == subject = "broker"
<1>1. ClientsInit /\ OnBroker => Init
  BY DEF ClientsInit
<1>2. [ClientsNext]_<<subject, vars, outboxVars>> /\ OnBroker => [Next]_vars /\ OnBroker'
  BY DEF ClientsNext
<1>3. Init /\ OnBroker => ClientDecisions!Init
  BY DEF Init, ClientDecisions!Init
<1>4. TypeOK /\ Sound /\ LiveUnheard /\ OnBroker /\ OnBroker' /\ [Next]_vars
        => ClientDecisions!Next
  BY DecisionStep
<1> QED
  <2> HIDE DEF OnBroker
  <2>1. BrokerAlone => Spec /\ OnBroker /\ []OnBroker
    <3>1. BrokerAlone => ClientsInit /\ [][ClientsNext]_<<subject, vars, outboxVars>> /\ OnBroker
      BY DEF BrokerAlone, ClientsSpec, OnBroker
    <3> QED BY <1>1, <1>2, <3>1, PTL DEF Spec
  <2>2. Spec => [](TypeOK /\ Sound /\ LiveUnheard)
    BY BrokerTypeCorrect, SoundHolds, UnheardHolds, PTL
  <2> QED BY <1>1, <1>3, <1>4, <2>1, <2>2, PTL DEF Spec, DecidedOnce, ClientDecisions!Spec
=============================================================================
