------------------------- MODULE JournalBackedQueue -------------------------
(***************************************************************************)
(* The durable runtime queue (src/runtime/queue/journal-backed-queue.ts).  *)
(*                                                                         *)
(* Every public operation is one SQLite transaction: it reloads the rows,  *)
(* changes them and writes them back, so every operation is one action.    *)
(* The in-memory inflight map is rebuilt from the rows by each transaction *)
(* and is therefore derived here, not a variable.                          *)
(*                                                                         *)
(* Abstractions.  The order inside the pending buckets is the relation     *)
(* "ahead".  Clock readings appear as what is left of them: `lease` ticks  *)
(* until leaseUntil, `ttl` ticks until created_at + ttl_ms; Tick lets time *)
(* pass.  A claim token is a UUID: a claim takes one that no row names, a  *)
(* composition also one that no caller remembers.  A call with a token     *)
(* that is not honoured any more changes no row and is no step.            *)
(***************************************************************************)
EXTENDS Integers, FiniteSets

CONSTANTS
  Id,               (* envelope ids                                        *)
  EnvelopeOf,       (* the envelope of each id: priority, dedupe_key, ttl  *)
  Key, NoKey,       (* dedupe keys, and what stands for an absent one      *)
  Token, NoToken,   (* claim tokens                                        *)
  Worker,           (* who calls claim                                     *)
  Handles,          (* Handles[w]: the ids that pass the claim filter of w *)
  MaxAttempts,      (* options.maxAttempts                                 *)
  LeaseTicks,       (* the lease a claim or a renewal asks for             *)
  AttemptBound      (* bounds the attempts that manual requeues can add    *)

ASSUME QueueAssumption ==
  /\ NoToken \notin Token
  /\ NoKey \notin Key
  /\ EnvelopeOf \in [Id -> [priority : Nat, dedupe_key : Key \cup {NoKey}, ttl : Nat]]
  /\ Handles \in [Worker -> SUBSET Id]
  /\ MaxAttempts \in Nat \ {0}
  /\ LeaseTicks \in Nat \ {0}
  /\ AttemptBound \in Nat

VARIABLES
  records,          (* the rows of runtime_queue_records                   *)
  ahead             (* <<i, j>>: i stands before j in their pending bucket *)

vars == <<records, ahead>>

-----------------------------------------------------------------------------

Absent ==
  [status |-> "absent", attempt |-> 0, ttl |-> 0,
   token |-> NoToken, lease |-> 0, reason |-> "none"]

Status == {"absent", "pending", "inflight", "completed", "deadletter"}

Reason == {"none", "expired before claim", "lease expired", "nack", "operator"}

(* A row names a claim exactly while it is in flight, and a reason exactly *)
(* once it is dead-lettered.                                               *)
WellFormed(r) ==
  /\ r.status = "inflight" <=> r.token # NoToken
  /\ r.lease > 0 => r.status = "inflight"
  /\ r.status = "deadletter" <=> r.reason # "none"

Record ==
  [status : Status, attempt : Nat, ttl : Nat,
   token : Token \cup {NoToken}, lease : Nat, reason : Reason]

Is(i, s)       == records[i].status = s
Pending        == {i \in Id : Is(i, "pending")}
Active(i)      == Is(i, "pending") \/ Is(i, "inflight")
Expired(i)     == records[i].ttl = 0
BudgetSpent(i) == records[i].attempt >= MaxAttempts
SameKey(i, j)  == /\ EnvelopeOf[i].dedupe_key = EnvelopeOf[j].dedupe_key
                  /\ EnvelopeOf[i].dedupe_key # NoKey
SameBucket(i, j) == EnvelopeOf[i].priority = EnvelopeOf[j].priority

(* PRIORITY_ORDER, then position in the bucket; priority 0 is critical. *)
ScannedBefore(i, j) ==
  \/ EnvelopeOf[i].priority < EnvelopeOf[j].priority
  \/ <<i, j>> \in ahead

LiveClaimUnchecked(i, t) == Is(i, "inflight") /\ records[i].token = t

(* The claim of token t on i that renew, ack and nack still honour. *)
LiveClaim(i, t) == Is(i, "inflight") /\ records[i].token = t /\ records[i].lease > 0

Without(S) == {p \in ahead : p[1] \notin S /\ p[2] \notin S}

PushedHead(gone, i) ==
  Without(gone) \cup {<<i, j>> : j \in {k \in Pending \ gone : SameBucket(k, i)}}

(* The buckets once `gone` has left them and i stands at its bucket's tail. *)
PushedTail(gone, i) ==
  Without(gone) \cup {<<j, i>> : j \in {k \in Pending \ gone : SameBucket(k, i)}}

Released(r) == [r EXCEPT !.token = NoToken, !.lease = 0]

AsPending(r) == [Released(r) EXCEPT !.status = "pending", !.reason = "none"]

AsDeadletter(r, why) == [Released(r) EXCEPT !.status = "deadletter", !.reason = why]

FreshToken(t) == \A i \in Id : records[i].token # t

-----------------------------------------------------------------------------

Init ==
  /\ records = [i \in Id |-> Absent]
  /\ ahead = {}

AcceptRefusedPendingOnly(i, left) == ~Is(i, "absent") \/ left = 0

(* A known id, an expired envelope and an envelope whose dedupe key is in  *)
(* flight are refused; pending rows with the same key are deleted.  `left` *)
(* is what remains of the ttl when the envelope reaches the queue.         *)
AcceptRefused(i, left) ==
  \/ ~Is(i, "absent")
  \/ left = 0
  \/ \E j \in Id : SameKey(i, j) /\ Is(j, "inflight")

Accept(i, left) ==
  LET superseded == {j \in Pending : SameKey(i, j)} IN
  /\ ~AcceptRefused(i, left)
  /\ records' = [j \in Id |->
       IF j = i THEN [Absent EXCEPT !.status = "pending", !.ttl = left]
       ELSE IF j \in superseded THEN Absent ELSE records[j]]
  /\ ahead' = PushedTail(superseded, i)

Eligible(F) == {i \in Pending : i \in F /\ ~Expired(i)}

(* The scan dead-letters every expired row it passes, claims the first row *)
(* that is alive and wanted, and leaves the rows behind that one alone.    *)
Claim(F, t, i) ==
  LET passed == {j \in Pending : Expired(j) /\ ScannedBefore(j, i)} IN
  /\ i \in Eligible(F)
  /\ \A j \in Eligible(F) \ {i} : ScannedBefore(i, j)
  /\ FreshToken(t)
  /\ records' = [j \in Id |->
       IF j = i THEN [records[i] EXCEPT !.status = "inflight", !.attempt = @ + 1,
                                        !.token = t, !.lease = LeaseTicks]
       ELSE IF j \in passed THEN AsDeadletter(records[j], "expired before claim")
       ELSE records[j]]
  /\ ahead' = Without(passed \cup {i})

(* Nothing to hand out, yet the scan has dead-lettered what had expired. *)
ClaimNothing(F) ==
  LET passed == {j \in Pending : Expired(j)} IN
  /\ Eligible(F) = {}
  /\ passed # {}
  /\ records' = [j \in Id |->
       IF j \in passed THEN AsDeadletter(records[j], "expired before claim")
       ELSE records[j]]
  /\ ahead' = Without(passed)

Renew(t) ==
  \E i \in Id :
    /\ LiveClaim(i, t)
    /\ records' = [records EXCEPT ![i].lease = LeaseTicks]
    /\ UNCHANGED ahead

Ack(t) ==
  \E i \in Id :
    /\ LiveClaim(i, t)
    /\ records' = [records EXCEPT ![i] = [Released(@) EXCEPT !.status = "completed"]]
    /\ UNCHANGED ahead

Nack(t, requeue) ==
  \E i \in Id :
    /\ LiveClaim(i, t)
    /\ IF ~requeue \/ BudgetSpent(i)
       THEN /\ records' = [records EXCEPT ![i] = AsDeadletter(@, "nack")]
            /\ UNCHANGED ahead
       ELSE /\ records' = [records EXCEPT ![i] = AsPending(@)]
            /\ ahead' = PushedTail({}, i)
  
(* Reachable through the public API only: the daemon never calls it. *)
Requeue(i) ==
  /\ Is(i, "inflight") \/ Is(i, "deadletter")
  /\ records[i].attempt < AttemptBound
  /\ records' = [records EXCEPT ![i] = AsPending(@)]
  /\ ahead' = PushedTail({}, i)

DeadletterLeftInBucket(i) ==
  /\ ~Is(i, "absent")
  /\ records' = [records EXCEPT ![i] = AsDeadletter(@, "operator")]
  /\ UNCHANGED ahead

Deadletter(i) ==
  /\ ~Is(i, "absent")
  /\ records' = [records EXCEPT ![i] = AsDeadletter(@, "operator")]
  /\ ahead' = Without({i})

(* Every claim whose lease has run out, in one transaction.  The rows come *)
(* back in acceptance order, which the model leaves open: `batch` is any   *)
(* strict order of the rows that return to a bucket.                       *)
Orders(S) ==
  {R \in SUBSET {p \in S \X S : SameBucket(p[1], p[2])} :
     /\ \A i \in S : <<i, i>> \notin R
     /\ \A i, j \in S : i # j /\ SameBucket(i, j) => (<<i, j>> \in R <=> <<j, i>> \notin R)
     /\ \A i, j, k \in S : <<i, j>> \in R /\ <<j, k>> \in R => <<i, k>> \in R}

LeaseLapsedWithBudget(i) == Is(i, "inflight") /\ records[i].lease = 0 /\ ~BudgetSpent(i)

LeaseLapsed(i) == Is(i, "inflight") /\ records[i].lease = 0

SweepExpiredClaims ==
  LET lapsed   == {i \in Id : LeaseLapsed(i)}
      returned == {i \in lapsed : ~BudgetSpent(i)}
  IN
  /\ lapsed # {}
  /\ records' = [i \in Id |->
       IF i \in returned THEN AsPending(records[i])
       ELSE IF i \in lapsed THEN AsDeadletter(records[i], "lease expired")
       ELSE records[i]]
  /\ \E batch \in Orders(returned) :
       ahead' = ahead \cup {p \in Pending \X returned : SameBucket(p[1], p[2])} \cup batch

Less(n) == IF n > 0 THEN n - 1 ELSE 0

Aged(r) == [r EXCEPT !.ttl = Less(@), !.lease = Less(@)]

Tick ==
  /\ \E i \in Id : records[i].ttl > 0 \/ records[i].lease > 0
  /\ records' = [i \in Id |-> Aged(records[i])]
  /\ UNCHANGED ahead

-----------------------------------------------------------------------------

ClaimBy(w) ==
  \/ \E t \in Token, i \in Id : Claim(Handles[w], t, i)
  \/ ClaimNothing(Handles[w])

(* The calls the daemon makes; its only deadletter call selects active rows *)
(* (deadletterPausedGoalActivations in runner-commands.ts).                 *)
DaemonNext ==
  \/ \E i \in Id : \E left \in 0..EnvelopeOf[i].ttl : Accept(i, left)
  \/ \E w \in Worker : ClaimBy(w)
  \/ \E t \in Token : Renew(t) \/ Ack(t)
  \/ \E t \in Token, requeue \in BOOLEAN : Nack(t, requeue)
  \/ \E i \in Id : Active(i) /\ Deadletter(i)
  \/ SweepExpiredClaims
  \/ Tick

(* Everything the class offers, the unused requeue and deadletter included. *)
ApiNext ==
  \/ DaemonNext
  \/ \E i \in Id : Requeue(i) \/ Deadletter(i)

Spec    == Init /\ [][DaemonNext]_vars
ApiSpec == Init /\ [][ApiNext]_vars

Settle(i) ==
  \E t \in Token : LiveClaim(i, t) /\ (Ack(t) \/ \E requeue \in BOOLEAN : Nack(t, requeue))

(* Time passes, the sweeper's interval and the dispatchers' polls keep     *)
(* firing, and who keeps renewing a claim settles it in the end.  A claim  *)
(* may also be left to lapse, and nobody is obliged to submit.             *)
Fairness ==
  /\ WF_vars(Tick)
  /\ WF_vars(SweepExpiredClaims)
  /\ \A w \in Worker : WF_vars(ClaimBy(w))
  /\ \A i \in Id : WF_vars(Settle(i))

FairSpec == Spec /\ Fairness

-----------------------------------------------------------------------------
(* Properties *)

(* Type invariant: the rows hold what JournalBackedQueueRecordSchema allows. *)
TypeOK ==
  /\ records \in [Id -> Record]
  /\ \A i \in Id : WellFormed(records[i])
  /\ ahead \in SUBSET (Id \X Id)

(* A pending row stands in the bucket of its own priority exactly once and *)
(* no other row stands there: each bucket is one queue of its pending rows, *)
(* whatever mixture of accepts, claims, sweeps and removals produced it.    *)
BucketsConsistent ==
  /\ \A p \in ahead : {p[1], p[2]} \subseteq Pending /\ SameBucket(p[1], p[2])
  /\ \A i \in Id : <<i, i>> \notin ahead
  /\ \A i, j \in Pending :
       i # j /\ SameBucket(i, j) => (<<i, j>> \in ahead <=> <<j, i>> \notin ahead)
  /\ \A i, j, k \in Id : <<i, j>> \in ahead /\ <<j, k>> \in ahead => <<i, k>> \in ahead

(* accept never leaves two active rows for one dedupe key, however it is   *)
(* interleaved with claims, returns, sweeps and the pause dead-lettering.  *)
OneActivePerKey ==
  \A i, j \in Id : i # j /\ SameKey(i, j) => ~(Active(i) /\ Active(j))

(* The retry budget: no row is claimed more than maxAttempts times, and a  *)
(* row that used its last attempt never waits in a bucket again.           *)
AttemptsWithinBudget ==
  \A i \in Id :
    /\ records[i].attempt <= MaxAttempts
    /\ Is(i, "pending") => records[i].attempt < MaxAttempts

(* nack, sweep and requeue put a row behind everything that already waits  *)
(* in its bucket, and rows that go on waiting keep their order.            *)
NoOvertaking ==
  [][\A i, j \in Id :
       /\ Is(i, "pending") /\ Is(i, "pending")' /\ Is(j, "pending")'
       /\ SameBucket(i, j) /\ i # j
       => (<<i, j>> \in ahead' <=> (Is(j, "pending") => <<i, j>> \in ahead))]_vars

(* The contract of ExclusiveDelivery: a row is owned by the token whose    *)
(* lease still runs, and an absent row is unknown.                         *)
fateOf(i) ==
  CASE Is(i, "absent")     -> "unknown"
    [] Is(i, "completed")  -> "done"
    [] Is(i, "deadletter") -> "dropped"
    [] OTHER               -> "waiting"

ownerOf(i) ==
  IF Is(i, "inflight") /\ records[i].lease > 0 THEN records[i].token ELSE NoToken

Delivery == INSTANCE ExclusiveDelivery WITH
  Message <- Id, Holder <- Token, NoHolder <- NoToken, SameKey <- SameKey,
  fate <- [i \in Id |-> fateOf(i)], owner <- [i \in Id |-> ownerOf(i)]

(* The queue implements the contract: only the owner of an unexpired lease *)
(* finishes or returns a message, two callers never own one message, and   *)
(* an accepted message ends done, dropped or superseded, never lost.       *)
DeliveryContract == Delivery!Spec

(* Whatever was accepted is eventually settled or superseded: crashes of   *)
(* the holders, expiries and retries never strand a row.                   *)
AcceptedIsSettled == \A i \in Id : Active(i) ~> ~Active(i)

(* runtime-auto-recovery.md:188 "If a worker dies mid-execution, its queue *)
(* claim and goal lease expire. A later daemon instance, or a later sweep  *)
(* inside the same daemon, reclaims the activation and retries it."  claim *)
(* measures the ttl from created_at also on rows that already ran, so work *)
(* that outlived its ttl is dead-lettered instead of retried.              *)
ReclaimedIsRetried ==
  \A i \in Id : records[i].reason = "expired before claim" => records[i].attempt = 0
=============================================================================
