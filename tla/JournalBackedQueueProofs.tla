---------------------- MODULE JournalBackedQueueProofs ----------------------
(***************************************************************************)
(* Theorems about JournalBackedQueue, for every set of envelopes, keys,    *)
(* tokens and workers, every retry budget and every lease: the rows and    *)
(* their moves first, then the order of the buckets, then the refinement   *)
(* of ExclusiveDelivery.                                                   *)
(***************************************************************************)
EXTENDS JournalBackedQueue, TLAPS

(* What each operation writes to a row, field by field. *)
LEMMA FreshRow ==
  ASSUME NEW left \in Nat
  PROVE  LET q == [Absent EXCEPT !.status = "pending", !.ttl = left] IN
         /\ q \in Record /\ WellFormed(q)
         /\ q.status = "pending" /\ q.attempt = 0 /\ q.token = NoToken
         /\ q.lease = 0
<1> DEFINE q == [Absent EXCEPT !.status = "pending", !.ttl = left]
<1>1. Absent \in Record
  BY DEF Absent, Record, Status, Reason
<1>2. q \in Record
  BY <1>1 DEF Record, Status
<1>3. /\ q.status = "pending" /\ q.attempt = 0 /\ q.token = NoToken
      /\ q.lease = 0 /\ q.reason = "none"
  BY <1>1 DEF Absent, Record
<1> QED BY <1>2, <1>3 DEF WellFormed

LEMMA AbsentRow == Absent \in Record /\ WellFormed(Absent)
BY QueueAssumption DEF QueueAssumption, Absent, Record, WellFormed, Status, Reason

LEMMA ClaimedRow ==
  ASSUME NEW r \in Record, WellFormed(r), r.status = "pending", NEW t \in Token
  PROVE  LET q == [r EXCEPT !.status = "inflight", !.attempt = @ + 1,
                            !.token = t, !.lease = LeaseTicks] IN
         /\ q \in Record /\ WellFormed(q)
         /\ q.status = "inflight" /\ q.attempt = r.attempt + 1 /\ q.token = t
         /\ q.lease = LeaseTicks
<1>1. r.attempt + 1 \in Nat
  BY DEF Record
<1> QED BY <1>1, QueueAssumption DEF QueueAssumption, Record, WellFormed, Status, Reason

LEMMA PendingRow ==
  ASSUME NEW r \in Record
  PROVE  LET q == AsPending(r) IN
         /\ q \in Record /\ WellFormed(q)
         /\ q.status = "pending" /\ q.attempt = r.attempt /\ q.token = NoToken
         /\ q.lease = 0
<1> DEFINE q == AsPending(r)
<1>1. Released(r) \in Record
  BY DEF Record, Released
<1>2. /\ Released(r).attempt = r.attempt /\ Released(r).token = NoToken
      /\ Released(r).lease = 0 /\ Released(r).reason = r.reason
  BY DEF Record, Released
<1> HIDE DEF Released
<1>3. q \in Record
  BY <1>1 DEF Record, Status, Reason, AsPending
<1>4. /\ q.status = "pending" /\ q.attempt = r.attempt /\ q.token = NoToken
      /\ q.lease = 0 /\ q.reason = "none"
  BY <1>1, <1>2 DEF AsPending, Record
<1> QED BY <1>3, <1>4 DEF WellFormed, AsPending

LEMMA DeadletterRow ==
  ASSUME NEW r \in Record, NEW why \in Reason \ {"none"}
  PROVE  LET q == AsDeadletter(r, why) IN
         /\ q \in Record /\ WellFormed(q)
         /\ q.status = "deadletter" /\ q.attempt = r.attempt /\ q.token = NoToken
         /\ q.lease = 0
<1> DEFINE q == AsDeadletter(r, why)
<1>1. Released(r) \in Record
  BY DEF Record, Released
<1>2. /\ Released(r).attempt = r.attempt /\ Released(r).token = NoToken
      /\ Released(r).lease = 0 /\ Released(r).reason = r.reason
  BY DEF Record, Released
<1> HIDE DEF Released
<1>3. q \in Record
  BY <1>1 DEF Record, Status, Reason, AsDeadletter
<1>4. /\ q.status = "deadletter" /\ q.attempt = r.attempt /\ q.token = NoToken
      /\ q.lease = 0 /\ q.reason = why
  BY <1>1, <1>2 DEF AsDeadletter, Record
<1> QED BY <1>3, <1>4 DEF WellFormed, AsDeadletter

LEMMA CompletedRow ==
  ASSUME NEW r \in Record, WellFormed(r), r.status = "inflight"
  PROVE  LET q == [Released(r) EXCEPT !.status = "completed"] IN
         /\ q \in Record /\ WellFormed(q)
         /\ q.status = "completed" /\ q.attempt = r.attempt /\ q.token = NoToken
         /\ q.lease = 0
<1> DEFINE q == [Released(r) EXCEPT !.status = "completed"]
<1>1. Released(r) \in Record
  BY DEF Record, Released
<1>2. /\ Released(r).attempt = r.attempt /\ Released(r).token = NoToken
      /\ Released(r).lease = 0 /\ Released(r).reason = r.reason
  BY DEF Record, Released
<1> HIDE DEF Released
<1>3. q \in Record
  BY <1>1 DEF Record, Status, Reason
<1>4. /\ q.status = "completed" /\ q.attempt = r.attempt /\ q.token = NoToken
      /\ q.lease = 0 /\ q.reason = r.reason
  BY <1>1, <1>2 DEF Record
<1> QED BY <1>3, <1>4 DEF WellFormed

LEMMA RenewedRow ==
  ASSUME NEW r \in Record, WellFormed(r), r.status = "inflight"
  PROVE  LET q == [r EXCEPT !.lease = LeaseTicks] IN
         /\ q \in Record /\ WellFormed(q)
         /\ q.status = "inflight" /\ q.attempt = r.attempt /\ q.token = r.token
         /\ q.lease = LeaseTicks
BY QueueAssumption DEF QueueAssumption, Record, WellFormed, Status, Reason

LEMMA AgedRow ==
  ASSUME NEW r \in Record, WellFormed(r)
  PROVE  LET q == Aged(r) IN
         /\ q \in Record /\ WellFormed(q)
         /\ q.status = r.status /\ q.attempt = r.attempt /\ q.token = r.token
         /\ q.lease > 0 => r.lease > 0
<1>1. \A n \in Nat : Less(n) \in Nat /\ (Less(n) > 0 => n > 0)
  BY DEF Less
<1> QED BY <1>1 DEF Record, WellFormed, Status, Reason, Aged

-----------------------------------------------------------------------------
(* What each operation does to the rows, field by field.                   *)

RowsOK == records' \in [Id -> Record] /\ \A j \in Id : WellFormed(records'[j])

Kept(j) == records'[j] = records[j]

Wrote(j, s, n, t, l) ==
  /\ records'[j].status = s
  /\ records'[j].attempt = n
  /\ records'[j].token = t
  /\ records'[j].lease = l

Superseded(i) == {j \in Pending : SameKey(i, j)}

Passed(i) == {j \in Pending : Expired(j) /\ ScannedBefore(j, i)}

LEMMA AcceptRows ==
  ASSUME TypeOK, NEW i \in Id, NEW left \in 0..EnvelopeOf[i].ttl, Accept(i, left)
  PROVE  /\ RowsOK
         /\ Wrote(i, "pending", 0, NoToken, 0)
         /\ \A j \in Superseded(i) \ {i} : Wrote(j, "absent", 0, NoToken, 0)
         /\ \A j \in Id \ (Superseded(i) \cup {i}) : Kept(j)
<1> DEFINE fresh == [Absent EXCEPT !.status = "pending", !.ttl = left]
<1>1. left \in Nat
  BY QueueAssumption DEF QueueAssumption
<1>2. /\ fresh \in Record /\ WellFormed(fresh)
      /\ fresh.status = "pending" /\ fresh.attempt = 0 /\ fresh.token = NoToken
      /\ fresh.lease = 0
  BY <1>1, FreshRow
<1>3. records' = [j \in Id |-> IF j = i THEN fresh
                               ELSE IF j \in Superseded(i) THEN Absent ELSE records[j]]
  BY DEF Accept, Superseded
<1>4. /\ Absent.status = "absent" /\ Absent.attempt = 0
      /\ Absent.token = NoToken /\ Absent.lease = 0
  BY DEF Absent
<1> HIDE DEF fresh
<1>5. RowsOK
  BY <1>2, <1>3, AbsentRow DEF RowsOK, TypeOK
<1>6. Superseded(i) \subseteq Id
  BY DEF Superseded, Pending
<1> QED BY <1>2, <1>3, <1>4, <1>5, <1>6 DEF Wrote, Kept

LEMMA ClaimRows ==
  ASSUME TypeOK, NEW F, NEW t \in Token, NEW i \in Id, Claim(F, t, i)
  PROVE  /\ RowsOK
         /\ Wrote(i, "inflight", records[i].attempt + 1, t, LeaseTicks)
         /\ \A j \in Passed(i) \ {i} : Wrote(j, "deadletter", records[j].attempt, NoToken, 0)
         /\ \A j \in Id \ (Passed(i) \cup {i}) : Kept(j)
<1> DEFINE dead(j) == AsDeadletter(records[j], "expired before claim")
           claimed == [records[i] EXCEPT !.status = "inflight", !.attempt = @ + 1,
                                         !.token = t, !.lease = LeaseTicks]
<1>1. records[i] \in Record /\ WellFormed(records[i]) /\ records[i].status = "pending"
  BY DEF Claim, Eligible, Pending, Is, TypeOK
<1>2. /\ claimed \in Record /\ WellFormed(claimed)
      /\ claimed.status = "inflight" /\ claimed.attempt = records[i].attempt + 1
      /\ claimed.token = t /\ claimed.lease = LeaseTicks
  BY <1>1, ClaimedRow
<1>3. \A j \in Id : /\ dead(j) \in Record /\ WellFormed(dead(j))
                    /\ dead(j).status = "deadletter"
                    /\ dead(j).attempt = records[j].attempt
                    /\ dead(j).token = NoToken /\ dead(j).lease = 0
  BY DeadletterRow DEF Reason, TypeOK
<1>4. records' = [j \in Id |-> IF j = i THEN claimed
                               ELSE IF j \in Passed(i) THEN dead(j) ELSE records[j]]
  BY DEF Claim, Passed
<1> HIDE DEF claimed, dead
<1>5. RowsOK
  BY <1>2, <1>3, <1>4 DEF RowsOK, TypeOK
<1>6. Passed(i) \subseteq Id
  BY DEF Passed, Pending
<1> QED BY <1>2, <1>3, <1>4, <1>5, <1>6 DEF Wrote, Kept

LEMMA ClaimNothingRows ==
  ASSUME TypeOK, NEW F, ClaimNothing(F)
  PROVE  /\ RowsOK
         /\ \A j \in Id : \/ Kept(j)
                          \/ /\ j \in Pending /\ Expired(j)
                             /\ Wrote(j, "deadletter", records[j].attempt, NoToken, 0)
<1> DEFINE dead(j) == AsDeadletter(records[j], "expired before claim")
<1>1. \A j \in Id : /\ dead(j) \in Record /\ WellFormed(dead(j))
                    /\ dead(j).status = "deadletter"
                    /\ dead(j).attempt = records[j].attempt
                    /\ dead(j).token = NoToken /\ dead(j).lease = 0
  BY DeadletterRow DEF Reason, TypeOK
<1>2. records' = [j \in Id |-> IF j \in {k \in Pending : Expired(k)}
                               THEN dead(j) ELSE records[j]]
  BY DEF ClaimNothing
<1> HIDE DEF dead
<1> QED BY <1>1, <1>2 DEF RowsOK, TypeOK, Wrote, Kept

LEMMA RenewRows ==
  ASSUME TypeOK, NEW t, NEW i \in Id, LiveClaim(i, t),
         records' = [records EXCEPT ![i].lease = LeaseTicks]
  PROVE  /\ RowsOK
         /\ Wrote(i, "inflight", records[i].attempt, t, LeaseTicks)
         /\ \A j \in Id \ {i} : Kept(j)
<1> DEFINE q == [records[i] EXCEPT !.lease = LeaseTicks]
<1>1. records[i] \in Record /\ WellFormed(records[i]) /\ records[i].status = "inflight"
      /\ records[i].token = t
  BY DEF LiveClaim, Is, TypeOK
<1>2. /\ q \in Record /\ WellFormed(q)
      /\ q.status = "inflight" /\ q.attempt = records[i].attempt /\ q.token = t
      /\ q.lease = LeaseTicks
  BY <1>1, RenewedRow
<1>3. records' = [records EXCEPT ![i] = q]
  OBVIOUS
<1> HIDE DEF q
<1> QED BY <1>2, <1>3 DEF RowsOK, TypeOK, Wrote, Kept

(* Ack, nack, requeue and deadletter all rewrite exactly one row. *)
LEMMA RewriteRow ==
  ASSUME TypeOK, NEW i \in Id, NEW q \in Record, WellFormed(q),
         records' = [records EXCEPT ![i] = q]
  PROVE  /\ RowsOK
         /\ records'[i] = q
         /\ \A j \in Id \ {i} : Kept(j)
BY DEF RowsOK, TypeOK, Kept

LEMMA AckRows ==
  ASSUME TypeOK, NEW t, NEW i \in Id, LiveClaim(i, t),
         records' = [records EXCEPT ![i] = [Released(@) EXCEPT !.status = "completed"]]
  PROVE  /\ RowsOK
         /\ Wrote(i, "completed", records[i].attempt, NoToken, 0)
         /\ \A j \in Id \ {i} : Kept(j)
<1> DEFINE q == [Released(records[i]) EXCEPT !.status = "completed"]
<1>1. records[i] \in Record /\ WellFormed(records[i]) /\ records[i].status = "inflight"
  BY DEF LiveClaim, Is, TypeOK
<1>2. /\ q \in Record /\ WellFormed(q)
      /\ q.status = "completed" /\ q.attempt = records[i].attempt
      /\ q.token = NoToken /\ q.lease = 0
  BY <1>1, CompletedRow
<1>3. records' = [records EXCEPT ![i] = q]
  OBVIOUS
<1> HIDE DEF q
<1> QED BY <1>2, <1>3, RewriteRow DEF Wrote

LEMMA ToPendingRows ==
  ASSUME TypeOK, NEW i \in Id, records' = [records EXCEPT ![i] = AsPending(@)]
  PROVE  /\ RowsOK
         /\ Wrote(i, "pending", records[i].attempt, NoToken, 0)
         /\ \A j \in Id \ {i} : Kept(j)
<1>1. records[i] \in Record
  BY DEF TypeOK
<1>2. records' = [records EXCEPT ![i] = AsPending(records[i])]
  OBVIOUS
<1> QED BY <1>1, <1>2, PendingRow, RewriteRow DEF Wrote

LEMMA ToDeadletterRows ==
  ASSUME TypeOK, NEW i \in Id, NEW why \in Reason \ {"none"},
         records' = [records EXCEPT ![i] = AsDeadletter(@, why)]
  PROVE  /\ RowsOK
         /\ Wrote(i, "deadletter", records[i].attempt, NoToken, 0)
         /\ \A j \in Id \ {i} : Kept(j)
<1>1. records[i] \in Record
  BY DEF TypeOK
<1> DEFINE q == AsDeadletter(records[i], why)
<1>2. /\ q \in Record /\ WellFormed(q)
      /\ q.status = "deadletter" /\ q.attempt = records[i].attempt
      /\ q.token = NoToken /\ q.lease = 0
  BY <1>1, DeadletterRow
<1>3. records' = [records EXCEPT ![i] = q]
  OBVIOUS
<1> HIDE DEF q
<1> QED BY <1>2, <1>3, RewriteRow DEF Wrote

LEMMA SweepRows ==
  ASSUME TypeOK, SweepExpiredClaims
  PROVE  /\ RowsOK
         /\ \A j \in Id : IF ~LeaseLapsed(j) THEN Kept(j)
                          ELSE Wrote(j, IF BudgetSpent(j) THEN "deadletter" ELSE "pending",
                                     records[j].attempt, NoToken, 0)
<1> DEFINE dead(j) == AsDeadletter(records[j], "lease expired")
           back(j) == AsPending(records[j])
<1>1. \A j \in Id : /\ dead(j) \in Record /\ WellFormed(dead(j))
                    /\ dead(j).status = "deadletter"
                    /\ dead(j).attempt = records[j].attempt
                    /\ dead(j).token = NoToken /\ dead(j).lease = 0
  BY DeadletterRow DEF Reason, TypeOK
<1>2. \A j \in Id : /\ back(j) \in Record /\ WellFormed(back(j))
                    /\ back(j).status = "pending"
                    /\ back(j).attempt = records[j].attempt
                    /\ back(j).token = NoToken /\ back(j).lease = 0
  BY PendingRow DEF TypeOK
<1>3. \A j \in Id : records'[j] = IF ~LeaseLapsed(j) THEN records[j]
                                  ELSE IF BudgetSpent(j) THEN dead(j) ELSE back(j)
  BY DEF SweepExpiredClaims
<1>4. records' = [j \in Id |-> records'[j]]
  BY DEF SweepExpiredClaims
<1> HIDE DEF dead, back
<1> QED BY <1>1, <1>2, <1>3, <1>4 DEF RowsOK, TypeOK, Wrote, Kept

LEMMA TickRows ==
  ASSUME TypeOK, Tick
  PROVE  /\ RowsOK
         /\ \A j \in Id : /\ records'[j].status = records[j].status
                          /\ records'[j].attempt = records[j].attempt
                          /\ records'[j].token = records[j].token
                          /\ records'[j].lease > 0 => records[j].lease > 0
<1> DEFINE aged(j) == Aged(records[j])
<1>1. \A j \in Id : /\ aged(j) \in Record /\ WellFormed(aged(j))
                    /\ aged(j).status = records[j].status
                    /\ aged(j).attempt = records[j].attempt
                    /\ aged(j).token = records[j].token
                    /\ aged(j).lease > 0 => records[j].lease > 0
  BY AgedRow DEF TypeOK
<1>2. records' = [j \in Id |-> aged(j)]
  BY DEF Tick
<1> HIDE DEF aged
<1> QED BY <1>1, <1>2 DEF RowsOK

-----------------------------------------------------------------------------
(* Nack splits into the two rewrites it chooses between. *)
LEMMA NackCases ==
  ASSUME NEW t, NEW requeue \in BOOLEAN, Nack(t, requeue)
  PROVE  \E i \in Id :
           /\ LiveClaim(i, t)
           /\ \/ /\ records' = [records EXCEPT ![i] = AsDeadletter(@, "nack")]
                 /\ UNCHANGED ahead
              \/ /\ ~BudgetSpent(i)
                 /\ records' = [records EXCEPT ![i] = AsPending(@)]
                 /\ ahead' = PushedTail({}, i)
BY DEF Nack

(* Type correctness of the rows, the bucket order and the known tokens,    *)
(* under every operation of the class (TypeOK, ApiSpec).                   *)
LEMMA TypeStep == TypeOK /\ [ApiNext]_vars => TypeOK'
<1> SUFFICES ASSUME TypeOK, [ApiNext]_vars
             PROVE  RowsOK /\ ahead' \in SUBSET (Id \X Id)
  BY DEF RowsOK, TypeOK
<1> USE DEF TypeOK
<1>1. ASSUME NEW i \in Id, NEW left \in 0..EnvelopeOf[i].ttl, Accept(i, left)
      PROVE  RowsOK /\ ahead' \in SUBSET (Id \X Id)
  <2>1. RowsOK
    BY <1>1, AcceptRows
  <2> QED BY <2>1, <1>1 DEF Accept, PushedTail, Without, Pending
<1>2. ASSUME NEW w \in Worker, NEW t \in Token, NEW i \in Id, Claim(Handles[w], t, i)
      PROVE  RowsOK /\ ahead' \in SUBSET (Id \X Id)
  BY <1>2, ClaimRows DEF Claim, Without
<1>3. ASSUME NEW w \in Worker, ClaimNothing(Handles[w])
      PROVE  RowsOK /\ ahead' \in SUBSET (Id \X Id)
  BY <1>3, ClaimNothingRows DEF ClaimNothing, Without
<1>4. ASSUME NEW t \in Token, Renew(t)
      PROVE  RowsOK /\ ahead' \in SUBSET (Id \X Id)
  BY <1>4, RenewRows DEF Renew
<1>5. ASSUME NEW t \in Token, Ack(t)
      PROVE  RowsOK /\ ahead' \in SUBSET (Id \X Id)
  BY <1>5, AckRows DEF Ack
<1>6. ASSUME NEW t \in Token, NEW requeue \in BOOLEAN, Nack(t, requeue)
      PROVE  RowsOK /\ ahead' \in SUBSET (Id \X Id)
  <2>1. PICK i \in Id :
           /\ LiveClaim(i, t)
           /\ \/ /\ records' = [records EXCEPT ![i] = AsDeadletter(@, "nack")]
                 /\ UNCHANGED ahead
              \/ /\ ~BudgetSpent(i)
                 /\ records' = [records EXCEPT ![i] = AsPending(@)]
                 /\ ahead' = PushedTail({}, i)
    BY <1>6, NackCases
  <2>0. "nack" \in Reason \ {"none"}
    BY DEF Reason
  <2>2. CASE records' = [records EXCEPT ![i] = AsDeadletter(@, "nack")] /\ UNCHANGED ahead
    <3>1. RowsOK
      BY <2>0, <2>2, ToDeadletterRows
    <3> QED BY <3>1, <2>1, <2>2
  <2>3. CASE /\ records' = [records EXCEPT ![i] = AsPending(@)]
             /\ ahead' = PushedTail({}, i)
    <3>1. RowsOK
      BY <2>3, ToPendingRows
    <3> QED BY <3>1, <2>1, <2>3 DEF PushedTail, Without, Pending
  <2> QED BY <2>1, <2>2, <2>3
<1>7. ASSUME NEW i \in Id, Requeue(i)
      PROVE  RowsOK /\ ahead' \in SUBSET (Id \X Id)
  <2>1. RowsOK
    BY <1>7, ToPendingRows DEF Requeue
  <2> QED BY <2>1, <1>7 DEF Requeue, PushedTail, Without, Pending
<1>8. ASSUME NEW i \in Id, Deadletter(i)
      PROVE  RowsOK /\ ahead' \in SUBSET (Id \X Id)
  <2>1. "operator" \in Reason \ {"none"}
    BY DEF Reason
  <2>2. RowsOK
    BY <2>1, <1>8, ToDeadletterRows DEF Deadletter
  <2> QED BY <2>2, <1>8 DEF Deadletter, Without
<1>9. CASE SweepExpiredClaims
  BY <1>9, SweepRows DEF SweepExpiredClaims, Orders, Pending
<1>11. CASE Tick
  BY <1>11, TickRows DEF Tick
<1>12. CASE UNCHANGED vars
  BY <1>12 DEF vars, RowsOK
<1> QED
  BY <1>1, <1>2, <1>3, <1>4, <1>5, <1>6, <1>7, <1>8, <1>9, <1>11, <1>12
     DEF ApiNext, DaemonNext, ClaimBy

(* Rows, buckets and their order stay well-formed (TypeOK) under every      *)
(* method of the class, whoever calls it.                                  *)
THEOREM TypeCorrect == ApiSpec => []TypeOK
<1>1. Init => TypeOK
  BY AbsentRow DEF Init, TypeOK
<1> QED BY <1>1, TypeStep, PTL DEF ApiSpec

(* The daemon's behaviours are behaviours of the class. *)
LEMMA DaemonIsApi == Spec => ApiSpec
<1>1. [DaemonNext]_vars => [ApiNext]_vars
  BY DEF ApiNext
<1> QED BY <1>1, PTL DEF Spec, ApiSpec
-----------------------------------------------------------------------------
(* The life of one row under the daemon's calls: every step of the system  *)
(* is, for each row, one of these moves.                                   *)
Settled(j) ==
  /\ records'[j].status = records[j].status
  /\ records'[j].attempt = records[j].attempt
  /\ records'[j].token = records[j].token

Moved(j, from, to) == Is(j, from) /\ records'[j].status = to

RowMove(j) ==
  \/ Settled(j)
  \/ /\ Moved(j, "absent", "pending") /\ records'[j].attempt = 0
     /\ \E left \in 0..EnvelopeOf[j].ttl : Accept(j, left)
  \/ Moved(j, "pending", "absent") /\ records'[j].attempt = 0
  \/ Moved(j, "pending", "inflight") /\ records'[j].attempt = records[j].attempt + 1
  \/ /\ Moved(j, "inflight", "pending") /\ records'[j].attempt = records[j].attempt
     /\ ~BudgetSpent(j)
  \/ Moved(j, "inflight", "completed") /\ records'[j].attempt = records[j].attempt
  \/ /\ Active(j) /\ records'[j].status = "deadletter"
     /\ records'[j].attempt = records[j].attempt

LEMMA RowMoves ==
  ASSUME TypeOK, [DaemonNext]_vars, NEW j \in Id
  PROVE  RowMove(j)
<1> USE DEF RowMove, Moved, Is
<1>1. ASSUME NEW i \in Id, NEW left \in 0..EnvelopeOf[i].ttl, Accept(i, left)
      PROVE  RowMove(j)
  <2>1. Is(i, "absent")
    BY <1>1 DEF Accept, AcceptRefused
  <2>2. CASE j = i
    BY <1>1, <2>1, <2>2, AcceptRows DEF Wrote
  <2>3. CASE j \in Superseded(i) \ {i}
    <3>1. Wrote(j, "absent", 0, NoToken, 0)
      BY <1>1, <2>3, AcceptRows
    <3> QED BY <3>1, <2>3 DEF Wrote, Superseded, Pending
  <2>4. CASE j \in Id \ (Superseded(i) \cup {i})
    BY <1>1, <2>4, AcceptRows DEF Kept, Settled
  <2> QED BY <2>2, <2>3, <2>4
<1>2. ASSUME NEW w \in Worker, NEW t \in Token, NEW i \in Id, Claim(Handles[w], t, i)
      PROVE  RowMove(j)
  <2>1. Is(i, "pending")
    BY <1>2 DEF Claim, Eligible, Pending
  <2>2. CASE j = i
    BY <1>2, <2>1, <2>2, ClaimRows DEF Wrote
  <2>3. CASE j \in Passed(i) \ {i}
    <3>1. Wrote(j, "deadletter", records[j].attempt, NoToken, 0)
      BY <1>2, <2>3, ClaimRows
    <3> QED BY <3>1, <2>3 DEF Wrote, Passed, Pending, Active
  <2>4. CASE j \in Id \ (Passed(i) \cup {i})
    BY <1>2, <2>4, ClaimRows DEF Kept, Settled
  <2> QED BY <2>2, <2>3, <2>4
<1>3. ASSUME NEW w \in Worker, ClaimNothing(Handles[w])
      PROVE  RowMove(j)
  BY <1>3, ClaimNothingRows DEF Kept, Settled, Wrote, Active, Pending
<1>4. ASSUME NEW t \in Token, Renew(t)
      PROVE  RowMove(j)
  BY <1>4, RenewRows DEF Renew, LiveClaim, Wrote, Kept, Settled
<1>5. ASSUME NEW t \in Token, Ack(t)
      PROVE  RowMove(j)
  BY <1>5, AckRows DEF Ack, LiveClaim, Wrote, Kept, Settled
<1>6. ASSUME NEW t \in Token, NEW requeue \in BOOLEAN, Nack(t, requeue)
      PROVE  RowMove(j)
  <2>1. PICK i \in Id :
           /\ LiveClaim(i, t)
           /\ \/ /\ records' = [records EXCEPT ![i] = AsDeadletter(@, "nack")]
                 /\ UNCHANGED ahead
              \/ /\ ~BudgetSpent(i)
                 /\ records' = [records EXCEPT ![i] = AsPending(@)]
                 /\ ahead' = PushedTail({}, i)
    BY <1>6, NackCases
  <2>2. "nack" \in Reason \ {"none"}
    BY DEF Reason
  <2>3. CASE records' = [records EXCEPT ![i] = AsDeadletter(@, "nack")]
    <3>1. /\ Wrote(i, "deadletter", records[i].attempt, NoToken, 0)
          /\ \A k \in Id \ {i} : Kept(k)
      BY <2>2, <2>3, ToDeadletterRows
    <3> QED BY <3>1, <2>1 DEF LiveClaim, Wrote, Kept, Settled, Active
  <2>4. CASE ~BudgetSpent(i) /\ records' = [records EXCEPT ![i] = AsPending(@)]
    <3>1. /\ Wrote(i, "pending", records[i].attempt, NoToken, 0)
          /\ \A k \in Id \ {i} : Kept(k)
      BY <2>4, ToPendingRows
    <3> QED BY <3>1, <2>1, <2>4 DEF LiveClaim, Wrote, Kept, Settled
  <2> QED BY <2>1, <2>3, <2>4
<1>7. ASSUME NEW i \in Id, Active(i), Deadletter(i)
      PROVE  RowMove(j)
  <2>1. "operator" \in Reason \ {"none"}
    BY DEF Reason
  <2>2. /\ Wrote(i, "deadletter", records[i].attempt, NoToken, 0)
        /\ \A k \in Id \ {i} : Kept(k)
    BY <2>1, <1>7, ToDeadletterRows DEF Deadletter
  <2> QED BY <2>2, <1>7 DEF Wrote, Kept, Settled
<1>8. CASE SweepExpiredClaims
  BY <1>8, SweepRows DEF LeaseLapsed, Wrote, Kept, Settled, Active
<1>10. CASE Tick
  BY <1>10, TickRows DEF Settled
<1>11. CASE UNCHANGED vars
  BY <1>11 DEF vars, Settled
<1> QED
  BY <1>1, <1>2, <1>3, <1>4, <1>5, <1>6, <1>7, <1>8, <1>10, <1>11
     DEF DaemonNext, ClaimBy

(* The retry budget (AttemptsWithinBudget) holds for every budget: nack    *)
(* and the sweep are the only ways back to a bucket, and both test it.     *)
THEOREM RetryBudget == Spec => []AttemptsWithinBudget
<1>1. Init => AttemptsWithinBudget
  BY QueueAssumption DEF QueueAssumption, Init, AttemptsWithinBudget, Absent, Is
<1>2. TypeOK /\ AttemptsWithinBudget /\ [DaemonNext]_vars => AttemptsWithinBudget'
  <2> SUFFICES ASSUME TypeOK, AttemptsWithinBudget, [DaemonNext]_vars, NEW j \in Id
               PROVE  /\ records'[j].attempt <= MaxAttempts
                      /\ records'[j].status = "pending" => records'[j].attempt < MaxAttempts
    BY DEF AttemptsWithinBudget, Is
  <2>1. RowMove(j)
    BY RowMoves
  <2>2. records[j].attempt \in Nat
    BY DEF TypeOK, Record
  <2>3. /\ records[j].attempt <= MaxAttempts
        /\ records[j].status = "pending" => records[j].attempt < MaxAttempts
    BY DEF AttemptsWithinBudget, Is
  <2> QED
    BY <2>1, <2>2, <2>3, QueueAssumption
       DEF QueueAssumption, RowMove, Moved, Settled, Is, BudgetSpent
<1> QED BY <1>1, <1>2, TypeCorrect, DaemonIsApi, PTL DEF Spec

(* One active row per dedupe key (OneActivePerKey): only accept admits a   *)
(* row, it refuses while a holder of the key is in flight, and it deletes  *)
(* the waiting ones in the same transaction.                               *)
THEOREM DedupeHolds == Spec => []OneActivePerKey
<1>1. Init => OneActivePerKey
  BY DEF Init, OneActivePerKey, Absent, Active, Is
<1>2. TypeOK /\ OneActivePerKey /\ [DaemonNext]_vars => OneActivePerKey'
  <2> DEFINE ActiveAfter(i) == records'[i].status \in {"pending", "inflight"}
  <2> SUFFICES ASSUME TypeOK, OneActivePerKey, [DaemonNext]_vars,
                      NEW i \in Id, NEW j \in Id, i # j, SameKey(i, j),
                      ActiveAfter(i), ActiveAfter(j)
               PROVE  FALSE
    BY DEF OneActivePerKey, Active, Is, SameKey
  <2>1. \A k \in Id : ActiveAfter(k) =>
           Active(k) \/ \E left \in 0..EnvelopeOf[k].ttl : Accept(k, left)
    <3> SUFFICES ASSUME NEW k \in Id, ActiveAfter(k)
                 PROVE  Active(k) \/ \E left \in 0..EnvelopeOf[k].ttl : Accept(k, left)
      OBVIOUS
    <3>1. RowMove(k)
      BY RowMoves
    <3> QED BY <3>1 DEF RowMove, Moved, Settled, Active, Is
  <2>2. \A k, l \in Id : \A left \in 0..EnvelopeOf[k].ttl :
           k # l /\ SameKey(k, l) /\ Accept(k, left) => ~ActiveAfter(l)
    <3> SUFFICES ASSUME NEW k \in Id, NEW l \in Id, NEW left \in 0..EnvelopeOf[k].ttl,
                        k # l, SameKey(k, l), Accept(k, left)
                 PROVE  ~ActiveAfter(l)
      OBVIOUS
    <3>1. CASE l \in Superseded(k)
      BY <3>1, AcceptRows DEF Wrote
    <3>2. CASE l \notin Superseded(k)
      <4>1. ~Active(l)
        BY <3>2 DEF Superseded, Pending, Active, Accept, AcceptRefused
      <4>2. Kept(l)
        BY <3>2, AcceptRows
      <4> QED BY <4>1, <4>2 DEF Kept, Active, Is
    <3> QED BY <3>1, <3>2
  <2>3. SameKey(j, i)
    BY DEF SameKey
  <2>4. ~(Active(i) /\ Active(j))
    BY DEF OneActivePerKey
  <2> QED BY <2>1, <2>2, <2>3, <2>4
<1> QED BY <1>1, <1>2, TypeCorrect, DaemonIsApi, PTL DEF Spec

-----------------------------------------------------------------------------
(* The order of the pending buckets, for every operation of the class.     *)
(*                                                                         *)
(* All operations act on the buckets in one way: some rows leave, and some *)
(* rows that stood in no bucket join behind everything that stays, in an   *)
(* order of their own.  QueueMoves shows this operation by operation; that *)
(* such a move keeps each bucket a queue, and lets nobody overtake, needs  *)
(* no operation any more.                                                  *)

Reordered(gone, joined, batch) ==
  /\ joined \cap Pending = {}
  /\ Pending' = (Pending \ gone) \cup joined
  /\ \A i, j \in Id :
       <<i, j>> \in ahead' <=>
         \/ <<i, j>> \in ahead /\ i \notin gone /\ j \notin gone
         \/ i \in Pending \ gone /\ j \in joined /\ SameBucket(i, j)
         \/ <<i, j>> \in batch

BucketMove ==
  \E gone, joined, batch :
    /\ gone \subseteq Id /\ joined \subseteq Id /\ batch \in Orders(joined)
    /\ Reordered(gone, joined, batch)

-----------------------------------------------------------------------------

LEMMA NoOrder ==
  ASSUME NEW S, \A i, j \in S : i = j
  PROVE  {} \in Orders(S)
BY DEF Orders

(* Rows that only leave the buckets. *)
LEMMA LeavesMove ==
  ASSUME TypeOK, NEW gone \in SUBSET Id, Pending' = Pending \ gone, ahead' = Without(gone)
  PROVE  BucketMove
<1>1. Reordered(gone, {}, {})
  BY DEF Reordered, Without
<1> QED BY <1>1, NoOrder DEF BucketMove

(* One row joins its bucket at the tail. *)
LEMMA JoinsMove ==
  ASSUME TypeOK, NEW gone \in SUBSET Id, NEW i \in Id, i \notin Pending,
         Pending' = (Pending \ gone) \cup {i}, ahead' = PushedTail(gone, i)
  PROVE  BucketMove
<1>1. \A k, l \in Id :
        <<k, l>> \in ahead' <=>
          \/ <<k, l>> \in ahead /\ k \notin gone /\ l \notin gone
          \/ k \in Pending \ gone /\ l = i /\ SameBucket(k, l)
  BY DEF PushedTail, Without, Pending
<1>2. Reordered(gone, {i}, {})
  BY <1>1 DEF Reordered
<1> QED BY <1>2, NoOrder DEF BucketMove

(* A step that rewrites rows without touching who is pending. *)
LEMMA StaysMove ==
  ASSUME TypeOK, Pending' = Pending, UNCHANGED ahead
  PROVE  BucketMove
<1>1. Reordered({}, {}, {})
  BY DEF Reordered
<1> QED BY <1>1, NoOrder DEF BucketMove

(* What rewriting the single row i does to the set of pending rows. *)
LEMMA PendingAfterRewrite ==
  ASSUME NEW i \in Id, \A j \in Id \ {i} : Kept(j)
  PROVE  /\ records'[i].status = "pending" => Pending' = Pending \cup {i}
         /\ records'[i].status # "pending" => Pending' = Pending \ {i}
BY DEF Kept, Pending, Is

LEMMA AcceptMove ==
  ASSUME TypeOK, NEW i \in Id, NEW left \in 0..EnvelopeOf[i].ttl, Accept(i, left)
  PROVE  BucketMove
<1>1. i \notin Pending
  BY DEF Accept, AcceptRefused, Pending, Is
<1>2. Superseded(i) \subseteq Pending /\ Superseded(i) \subseteq Id
  BY DEF Superseded, Pending
<1>3. Pending' = (Pending \ Superseded(i)) \cup {i}
  BY <1>1, <1>2, AcceptRows DEF Wrote, Kept, Pending, Is
<1>4. ahead' = PushedTail(Superseded(i), i)
  BY DEF Accept, Superseded
<1> QED BY <1>1, <1>2, <1>3, <1>4, JoinsMove

LEMMA ClaimMove ==
  ASSUME TypeOK, NEW F, NEW t \in Token, NEW i \in Id, Claim(F, t, i)
  PROVE  BucketMove
<1>1. Passed(i) \cup {i} \in SUBSET Id
  BY DEF Passed, Pending
<1>2. Pending' = Pending \ (Passed(i) \cup {i})
  BY <1>1, ClaimRows DEF Wrote, Kept, Pending, Is
<1>3. ahead' = Without(Passed(i) \cup {i})
  BY DEF Claim, Passed
<1> QED BY <1>1, <1>2, <1>3, LeavesMove

LEMMA ClaimNothingMove ==
  ASSUME TypeOK, NEW F, ClaimNothing(F)
  PROVE  BucketMove
<1> DEFINE passed == {j \in Pending : Expired(j)}
<1>1. passed \in SUBSET Id
  BY DEF Pending
<1>2. \A j \in Id : j \in Pending' <=> j \in Pending /\ j \notin passed
  <2>1. records' = [j \in Id |-> IF j \in passed
                                 THEN AsDeadletter(records[j], "expired before claim")
                                 ELSE records[j]]
    BY DEF ClaimNothing
  <2>2. \A j \in Id : AsDeadletter(records[j], "expired before claim").status = "deadletter"
    BY DeadletterRow DEF Reason, TypeOK
  <2> HIDE DEF passed
  <2> QED BY <2>1, <2>2 DEF Pending, Is
<1>3. Pending' = Pending \ passed
  BY <1>2 DEF Pending
<1>4. ahead' = Without(passed)
  BY DEF ClaimNothing
<1> HIDE DEF passed
<1> QED BY <1>1, <1>3, <1>4, LeavesMove

LEMMA NackMove ==
  ASSUME TypeOK, NEW t \in Token, NEW requeue \in BOOLEAN, Nack(t, requeue)
  PROVE  BucketMove
<1>1. PICK i \in Id :
        /\ LiveClaim(i, t)
        /\ \/ /\ records' = [records EXCEPT ![i] = AsDeadletter(@, "nack")]
              /\ UNCHANGED ahead
           \/ /\ ~BudgetSpent(i)
              /\ records' = [records EXCEPT ![i] = AsPending(@)]
              /\ ahead' = PushedTail({}, i)
  BY NackCases
<1>2. i \notin Pending
  BY <1>1 DEF LiveClaim, Pending, Is
<1>3. CASE records' = [records EXCEPT ![i] = AsDeadletter(@, "nack")] /\ UNCHANGED ahead
  <2>1. "nack" \in Reason \ {"none"}
    BY DEF Reason
  <2>2. Pending' = Pending \ {i}
    BY <1>3, <2>1, ToDeadletterRows, PendingAfterRewrite DEF Wrote
  <2> QED BY <1>2, <1>3, <2>2, StaysMove
<1>4. CASE /\ records' = [records EXCEPT ![i] = AsPending(@)]
           /\ ahead' = PushedTail({}, i)
  <2>1. Pending' = (Pending \ {}) \cup {i}
    BY <1>4, ToPendingRows, PendingAfterRewrite DEF Wrote
  <2> QED BY <1>2, <1>4, <2>1, JoinsMove
<1> QED BY <1>1, <1>3, <1>4

LEMMA RequeueMove ==
  ASSUME TypeOK, NEW i \in Id, Requeue(i)
  PROVE  BucketMove
<1>1. i \notin Pending
  BY DEF Requeue, Pending, Is
<1>2. /\ records' = [records EXCEPT ![i] = AsPending(@)]
      /\ ahead' = PushedTail({}, i)
  BY DEF Requeue
<1>3. Pending' = (Pending \ {}) \cup {i}
  BY <1>2, ToPendingRows, PendingAfterRewrite DEF Wrote
<1> QED BY <1>1, <1>2, <1>3, JoinsMove

LEMMA DeadletterMove ==
  ASSUME TypeOK, NEW i \in Id, Deadletter(i)
  PROVE  BucketMove
<1>1. "operator" \in Reason \ {"none"}
  BY DEF Reason
<1>2. /\ records' = [records EXCEPT ![i] = AsDeadletter(@, "operator")]
      /\ ahead' = Without({i})
  BY DEF Deadletter
<1>3. Pending' = Pending \ {i}
  BY <1>1, <1>2, ToDeadletterRows, PendingAfterRewrite DEF Wrote
<1> QED BY <1>2, <1>3, LeavesMove

LEMMA SweepMove ==
  ASSUME TypeOK, SweepExpiredClaims
  PROVE  BucketMove
<1> DEFINE returned == {j \in Id : LeaseLapsed(j) /\ ~BudgetSpent(j)}
<1>1. returned \cap Pending = {}
  BY DEF LeaseLapsed, Pending, Is
<1>2. \A j \in Id : j \in Pending' <=> j \in Pending \/ j \in returned
  BY SweepRows DEF Wrote, Kept, LeaseLapsed, Pending, Is
<1>3. Pending' = (Pending \ {}) \cup returned
  BY <1>2 DEF Pending
<1>4. PICK batch \in Orders(returned) :
        ahead' = ahead \cup {p \in Pending \X returned : SameBucket(p[1], p[2])} \cup batch
  <2>1. {i \in {k \in Id : LeaseLapsed(k)} : ~BudgetSpent(i)} = returned
    OBVIOUS
  <2> QED BY <2>1 DEF SweepExpiredClaims
<1> HIDE DEF returned
<1>5. Reordered({}, returned, batch)
  BY <1>1, <1>3, <1>4 DEF Reordered
<1>6. returned \in SUBSET Id
  BY DEF returned
<1> QED BY <1>5, <1>6 DEF BucketMove

(* Every operation moves the buckets in the one way. *)
LEMMA QueueMoves ==
  ASSUME TypeOK, [ApiNext]_vars
  PROVE  BucketMove
<1>1. ASSUME NEW t \in Token, Renew(t) \/ Ack(t)
      PROVE  BucketMove
  <2>1. PICK i \in Id : /\ LiveClaim(i, t)
                        /\ UNCHANGED ahead
                        /\ \A j \in Id \ {i} : Kept(j)
                        /\ records'[i].status # "pending"
    BY <1>1, RenewRows, AckRows DEF Renew, Ack, Wrote
  <2>2. i \notin Pending
    BY <2>1 DEF LiveClaim, Pending, Is
  <2>3. Pending' = Pending \ {i}
    BY <2>1, PendingAfterRewrite
  <2> QED BY <2>1, <2>2, <2>3, StaysMove
<1>2. CASE Tick \/ UNCHANGED vars
  <2>1. Pending' = Pending
    BY <1>2, TickRows DEF vars, Pending, Is
  <2> QED BY <1>2, <2>1, StaysMove DEF Tick, vars
<1> QED
  BY <1>1, <1>2, AcceptMove, ClaimMove, ClaimNothingMove, NackMove, RequeueMove,
     DeadletterMove, SweepMove
     DEF ApiNext, DaemonNext, ClaimBy

-----------------------------------------------------------------------------

(* Each bucket is one queue of exactly its pending rows (BucketsConsistent) *)
(* under every operation of the class, manual requeues and removals too.    *)
THEOREM BucketsHold == ApiSpec => []BucketsConsistent
<1>1. Init => BucketsConsistent
  BY DEF Init, BucketsConsistent, Absent, Pending, Is
<1>2. TypeOK /\ BucketsConsistent /\ [ApiNext]_vars => BucketsConsistent'
  <2> SUFFICES ASSUME TypeOK, BucketsConsistent, [ApiNext]_vars
               PROVE  BucketsConsistent'
    OBVIOUS
  <2>1. PICK gone, joined, batch :
          /\ gone \subseteq Id /\ joined \subseteq Id /\ batch \in Orders(joined)
          /\ Reordered(gone, joined, batch)
    BY QueueMoves DEF BucketMove
  <2>2. ahead' \in SUBSET (Id \X Id)
    BY TypeStep DEF TypeOK
  <2>3. \A i, j \in Id : <<i, j>> \in batch =>
          i \in joined /\ j \in joined /\ SameBucket(i, j)
    BY <2>1 DEF Orders
  <2>4. \A i, j \in Id : <<i, j>> \in ahead =>
          i \in Pending /\ j \in Pending /\ SameBucket(i, j)
    BY DEF BucketsConsistent
  <2>5. ASSUME NEW i \in Id, NEW j \in Id, <<i, j>> \in ahead'
        PROVE  i \in Pending' /\ j \in Pending' /\ SameBucket(i, j)
    BY <2>1, <2>3, <2>4, <2>5 DEF Reordered
  <2>6. \A i \in Id : <<i, i>> \notin ahead'
    <3>1. \A i \in Id : <<i, i>> \notin ahead
      BY DEF BucketsConsistent
    <3>2. \A i \in joined : <<i, i>> \notin batch
      BY <2>1 DEF Orders
    <3> QED BY <2>1, <2>3, <3>1, <3>2 DEF Reordered
  <2>7. ASSUME NEW i \in Pending', NEW j \in Pending', i # j, SameBucket(i, j)
        PROVE  <<i, j>> \in ahead' <=> <<j, i>> \notin ahead'
    <3>1. i \in Id /\ j \in Id /\ SameBucket(j, i)
      BY <2>7 DEF Pending, SameBucket
    <3>2. \A k, l \in joined : k # l /\ SameBucket(k, l) =>
             (<<k, l>> \in batch <=> <<l, k>> \notin batch)
      BY <2>1 DEF Orders
    <3>3. \A k, l \in Pending : k # l /\ SameBucket(k, l) =>
             (<<k, l>> \in ahead <=> <<l, k>> \notin ahead)
      BY DEF BucketsConsistent
    <3> QED BY <2>1, <2>3, <2>4, <2>7, <3>1, <3>2, <3>3 DEF Reordered
  <2>8. ASSUME NEW i \in Id, NEW j \in Id, NEW k \in Id,
               <<i, j>> \in ahead', <<j, k>> \in ahead'
        PROVE  <<i, k>> \in ahead'
    <3>1. \A l, m, n \in Id : SameBucket(l, m) /\ SameBucket(m, n) => SameBucket(l, n)
      BY DEF SameBucket
    <3>2. \A l, m, n \in joined : <<l, m>> \in batch /\ <<m, n>> \in batch => <<l, n>> \in batch
      BY <2>1 DEF Orders
    <3>3. \A l, m, n \in Id : <<l, m>> \in ahead /\ <<m, n>> \in ahead => <<l, n>> \in ahead
      BY DEF BucketsConsistent
    <3> QED BY <2>1, <2>3, <2>4, <2>8, <3>1, <3>2, <3>3 DEF Reordered
  <2> QED BY <2>2, <2>5, <2>6, <2>7, <2>8 DEF BucketsConsistent, SameBucket
<1> QED BY <1>1, <1>2, TypeCorrect, PTL DEF ApiSpec

(* A row that enters a bucket goes behind all that wait there, and those   *)
(* that go on waiting keep their order (NoOvertaking).                     *)
THEOREM NobodyOvertakes == ApiSpec => NoOvertaking
<1> DEFINE InOrder ==
      \A i, j \in Id :
        /\ Is(i, "pending") /\ Is(i, "pending")' /\ Is(j, "pending")'
        /\ SameBucket(i, j) /\ i # j
        => (<<i, j>> \in ahead' <=> (Is(j, "pending") => <<i, j>> \in ahead))
<1>1. TypeOK /\ BucketsConsistent /\ [ApiNext]_vars => InOrder
  <2> SUFFICES ASSUME TypeOK, BucketsConsistent, [ApiNext]_vars,
                      NEW i \in Id, NEW j \in Id,
                      Is(i, "pending"), Is(i, "pending")', Is(j, "pending")',
                      SameBucket(i, j), i # j
               PROVE  <<i, j>> \in ahead' <=> (Is(j, "pending") => <<i, j>> \in ahead)
    OBVIOUS
  <2>1. PICK gone, joined, batch :
          /\ gone \subseteq Id /\ joined \subseteq Id /\ batch \in Orders(joined)
          /\ Reordered(gone, joined, batch)
    BY QueueMoves DEF BucketMove
  <2>2. i \in Pending /\ i \in Pending' /\ j \in Pending'
    BY DEF Pending, Is
  <2>3. <<i, j>> \in batch => i \in joined
    BY <2>1 DEF Orders
  <2>4. <<i, j>> \in ahead => j \in Pending
    BY DEF BucketsConsistent
  <2>5. Is(j, "pending") <=> j \in Pending
    BY DEF Pending
  <2> QED BY <2>1, <2>2, <2>3, <2>4, <2>5 DEF Reordered
<1>2. TypeOK /\ BucketsConsistent /\ [ApiNext]_vars => [InOrder]_vars
  BY <1>1
<1> QED BY <1>2, TypeCorrect, BucketsHold, PTL DEF ApiSpec, NoOvertaking

-----------------------------------------------------------------------------
(* The daemon's queue implements ExclusiveDelivery.  The refinement        *)
(* mapping (fateOf, ownerOf) forgets attempts, ttls, buckets and lapsed    *)
(* leases.  Besides TypeOK one invariant is needed: two rows in flight     *)
(* never name one claim, because a claim takes a token no row names.       *)

UniqueClaims ==
  \A i, j \in Id : i # j /\ records[i].token = records[j].token => records[i].token = NoToken

(* What a step does to row j, as far as its fate and its owner can tell.   *)
(* A row is owned while its lease runs.                                    *)
Owned(j) == Is(j, "inflight") /\ records[j].lease > 0

KeepsClaim(j) == records'[j].token \in {records[j].token, NoToken}

Unchanged(j) ==
  /\ records'[j].status = records[j].status
  /\ records'[j].token = records[j].token
  /\ records'[j].lease > 0 <=> records[j].lease > 0

TakesClaim(j) ==
  /\ Moved(j, "pending", "inflight")
  /\ records'[j].token \in Token /\ FreshToken(records'[j].token)
  /\ records'[j].lease > 0
  /\ \A k \in Id \ {j} : KeepsClaim(k)

LosesClaim(j) ==
  /\ Is(j, "inflight") /\ KeepsClaim(j)
  /\ records'[j].status \in {"pending", "inflight"}
  /\ records'[j].lease = 0

OwnerMove(j) ==
  \/ Unchanged(j)
  \/ Moved(j, "absent", "pending") /\ KeepsClaim(j)
  \/ TakesClaim(j)
  \/ LosesClaim(j)
  \/ Moved(j, "inflight", "completed") /\ Owned(j) /\ KeepsClaim(j)
  \/ Active(j) /\ records'[j].status = "deadletter" /\ KeepsClaim(j)
  \/ /\ Moved(j, "pending", "absent") /\ KeepsClaim(j)
     /\ \E n \in Id : SameKey(j, n) /\ Moved(n, "absent", "pending")

LEMMA OwnerMoves ==
  ASSUME TypeOK, [DaemonNext]_vars, NEW j \in Id
  PROVE  OwnerMove(j)
<1> USE DEF OwnerMove, KeepsClaim
<1>1. ASSUME NEW i \in Id, NEW left \in 0..EnvelopeOf[i].ttl, Accept(i, left)
      PROVE  OwnerMove(j)
  <2>1. Moved(i, "absent", "pending") /\ records'[i].token = NoToken
    BY <1>1, AcceptRows DEF Accept, AcceptRefused, Wrote, Moved
  <2>2. CASE j = i
    BY <2>1, <2>2
  <2>3. CASE j \in Superseded(i) \ {i}
    <3>1. Wrote(j, "absent", 0, NoToken, 0)
      BY <1>1, <2>3, AcceptRows
    <3>2. SameKey(j, i) /\ Is(j, "pending")
      BY <2>3 DEF Superseded, SameKey, Pending
    <3> QED BY <2>1, <3>1, <3>2 DEF Wrote, Moved
  <2>4. CASE j \in Id \ (Superseded(i) \cup {i})
    BY <1>1, <2>4, AcceptRows DEF Kept, Unchanged
  <2> QED BY <2>2, <2>3, <2>4
<1>2. ASSUME NEW w \in Worker, NEW t \in Token, NEW i \in Id, Claim(Handles[w], t, i)
      PROVE  OwnerMove(j)
  <2>1. \A k \in Id \ {i} :
           \/ Kept(k)
           \/ /\ Is(k, "pending")
              /\ Wrote(k, "deadletter", records[k].attempt, NoToken, 0)
    BY <1>2, ClaimRows DEF Passed, Pending
  <2>2. CASE j = i
    <3>1. Wrote(i, "inflight", records[i].attempt + 1, t, LeaseTicks)
      BY <1>2, ClaimRows
    <3>2. Is(i, "pending") /\ FreshToken(t)
      BY <1>2 DEF Claim, Eligible, Pending
    <3>3. \A k \in Id \ {i} : KeepsClaim(k)
      BY <2>1 DEF Kept, Wrote
    <3> QED BY <2>2, <3>1, <3>2, <3>3, QueueAssumption
             DEF QueueAssumption, Wrote, Moved, TakesClaim
  <2>3. CASE j # i
    BY <2>1, <2>3 DEF Kept, Wrote, Unchanged, Active
  <2> QED BY <2>2, <2>3
<1>3. ASSUME NEW w \in Worker, ClaimNothing(Handles[w])
      PROVE  OwnerMove(j)
  BY <1>3, ClaimNothingRows DEF Kept, Unchanged, Wrote, Active, Pending
<1>4. ASSUME NEW t \in Token, Renew(t)
      PROVE  OwnerMove(j)
  BY <1>4, RenewRows, QueueAssumption
     DEF QueueAssumption, Renew, LiveClaim, Wrote, Kept, Unchanged, Is
<1>5. ASSUME NEW t \in Token, Ack(t)
      PROVE  OwnerMove(j)
  BY <1>5, AckRows DEF Ack, LiveClaim, Wrote, Kept, Unchanged, Moved, Owned
<1>6. ASSUME NEW t \in Token, NEW requeue \in BOOLEAN, Nack(t, requeue)
      PROVE  OwnerMove(j)
  <2>1. PICK i \in Id :
           /\ LiveClaim(i, t)
           /\ \/ /\ records' = [records EXCEPT ![i] = AsDeadletter(@, "nack")]
                 /\ UNCHANGED ahead
              \/ /\ ~BudgetSpent(i)
                 /\ records' = [records EXCEPT ![i] = AsPending(@)]
                 /\ ahead' = PushedTail({}, i)
    BY <1>6, NackCases
  <2>2. "nack" \in Reason \ {"none"}
    BY DEF Reason
  <2>3. /\ \/ Wrote(i, "deadletter", records[i].attempt, NoToken, 0)
           \/ Wrote(i, "pending", records[i].attempt, NoToken, 0)
        /\ \A k \in Id \ {i} : Kept(k)
    BY <2>1, <2>2, ToDeadletterRows, ToPendingRows
  <2> QED BY <2>1, <2>3 DEF LiveClaim, Wrote, Kept, Unchanged, LosesClaim, Active
<1>7. ASSUME NEW i \in Id, Active(i), Deadletter(i)
      PROVE  OwnerMove(j)
  <2>1. "operator" \in Reason \ {"none"}
    BY DEF Reason
  <2>2. /\ Wrote(i, "deadletter", records[i].attempt, NoToken, 0)
        /\ \A k \in Id \ {i} : Kept(k)
    BY <2>1, <1>7, ToDeadletterRows DEF Deadletter
  <2> QED BY <2>2, <1>7 DEF Wrote, Kept, Unchanged
<1>8. CASE SweepExpiredClaims
  BY <1>8, SweepRows DEF LeaseLapsed, Wrote, Kept, Unchanged, LosesClaim, Active
<1>9. CASE Tick
  <2>1. /\ records'[j].status = records[j].status
        /\ records'[j].token = records[j].token
        /\ records'[j].lease > 0 => records[j].lease > 0
    BY <1>9, TickRows
  <2>2. /\ records[j].lease \in Nat /\ records'[j].lease \in Nat
        /\ records[j].lease > 0 => Is(j, "inflight")
    BY <1>9, TickRows DEF TypeOK, RowsOK, Record, WellFormed, Is
  <2> QED BY <2>1, <2>2 DEF Unchanged, LosesClaim, Is
<1>10. CASE UNCHANGED vars
  BY <1>10 DEF vars, Unchanged
<1> QED
  BY <1>1, <1>2, <1>3, <1>4, <1>5, <1>6, <1>7, <1>8, <1>9, <1>10
     DEF DaemonNext, ClaimBy

-----------------------------------------------------------------------------
(* Claims stay unique. *)
LEMMA UniqueStep ==
  ASSUME TypeOK, UniqueClaims, [DaemonNext]_vars
  PROVE  UniqueClaims'
<1> SUFFICES ASSUME NEW i \in Id, NEW j \in Id, i # j,
                    records'[i].token = records'[j].token, records'[i].token # NoToken
             PROVE  FALSE
  BY DEF UniqueClaims
<1>1. \A k \in Id : KeepsClaim(k) \/ TakesClaim(k)
  BY OwnerMoves DEF OwnerMove, Unchanged, LosesClaim, KeepsClaim
<1>2. CASE KeepsClaim(i) /\ KeepsClaim(j)
  BY <1>2 DEF KeepsClaim, UniqueClaims
<1>3. CASE TakesClaim(i)
  BY <1>3 DEF TakesClaim, KeepsClaim, FreshToken
<1>4. CASE TakesClaim(j)
  BY <1>4 DEF TakesClaim, KeepsClaim, FreshToken
<1> QED BY <1>1, <1>2, <1>3, <1>4

LEMMA ClaimsAreUnique == Spec => []UniqueClaims
<1>1. Init => UniqueClaims
  BY DEF Init, UniqueClaims, Absent
<1> QED BY <1>1, UniqueStep, TypeCorrect, DaemonIsApi, PTL DEF Spec

LEMMA RowStep ==
  ASSUME TypeOK, [DaemonNext]_vars, NEW j \in Id
  PROVE  Delivery!Step(j)
<1>1. OwnerMove(j)
  BY OwnerMoves
<1>2. TypeOK'
  BY TypeStep DEF ApiNext
<1>3. /\ Owned(j) => records[j].token # NoToken
      /\ records[j].lease \in Nat /\ records'[j].lease \in Nat
  BY <1>2 DEF TypeOK, WellFormed, Owned, Is, Record
<1> DEFINE Fate  == [i \in Id |-> fateOf(i)]
           Owner == [i \in Id |-> ownerOf(i)]
<1>4. \A i \in Id : /\ Fate[i] = fateOf(i) /\ Fate'[i] = fateOf(i)'
                    /\ Owner[i] = ownerOf(i) /\ Owner'[i] = ownerOf(i)'
  OBVIOUS
<1> USE DEF Moved, Is, Owned
<1>5. CASE Unchanged(j)
  <2>1. fateOf(j)' = fateOf(j) /\ ownerOf(j)' = ownerOf(j)
    BY <1>5 DEF Unchanged, fateOf, ownerOf
  <2>2. Delivery!Stay(j)
    BY <1>4, <2>1 DEF Delivery!Stay
  <2> QED BY <2>2 DEF Delivery!Step
<1>6. CASE Moved(j, "absent", "pending")
  <2>1. Delivery!Submit(j)
    BY <1>6 DEF fateOf, ownerOf, Delivery!Submit
  <2> QED BY <2>1 DEF Delivery!Step
<1>7. CASE TakesClaim(j)
  <2>1. \A n \in Id : ownerOf(n) # records'[j].token
    BY <1>7, QueueAssumption DEF QueueAssumption, TakesClaim, FreshToken, ownerOf
  <2>2. ownerOf(j) = NoToken /\ ownerOf(j)' = records'[j].token
    BY <1>7 DEF TakesClaim, ownerOf
  <2>3. fateOf(j) = "waiting" /\ fateOf(j)' = "waiting"
    BY <1>7 DEF TakesClaim, fateOf
  <2>4. records'[j].token \in Token
    BY <1>7 DEF TakesClaim
  <2>5. Delivery!Deliver(j)
    BY <2>1, <2>2, <2>3, <2>4 DEF Delivery!Deliver, Delivery!Unowned
  <2> QED BY <2>5 DEF Delivery!Step
<1>8. CASE LosesClaim(j)
  <2>1. fateOf(j) = "waiting" /\ fateOf(j)' = "waiting" /\ ownerOf(j)' = NoToken
    BY <1>8 DEF LosesClaim, fateOf, ownerOf
  <2>2. Delivery!Stay(j) \/ Delivery!Return(j)
    BY <2>1 DEF Delivery!Stay, Delivery!Return, Delivery!Unowned
  <2> QED BY <2>2 DEF Delivery!Step
<1>9. CASE Moved(j, "inflight", "completed") /\ Owned(j)
  <2>1. fateOf(j) = "waiting" /\ fateOf(j)' = "done" /\ ownerOf(j)' = NoToken
        /\ ownerOf(j) # NoToken
    BY <1>3, <1>9 DEF fateOf, ownerOf
  <2>2. Delivery!Finish(j)
    BY <2>1 DEF Delivery!Finish, Delivery!Unowned
  <2> QED BY <2>2 DEF Delivery!Step
<1>10. CASE Active(j) /\ records'[j].status = "deadletter"
  <2>1. fateOf(j) = "waiting" /\ fateOf(j)' = "dropped" /\ ownerOf(j)' = NoToken
    BY <1>10 DEF Active, fateOf, ownerOf
  <2>2. Delivery!Drop(j)
    BY <2>1 DEF Delivery!Drop
  <2> QED BY <2>2 DEF Delivery!Step
<1>11. CASE /\ Moved(j, "pending", "absent")
            /\ \E n \in Id : SameKey(j, n) /\ Moved(n, "absent", "pending")
  <2>1. PICK n \in Id : SameKey(j, n) /\ Moved(n, "absent", "pending")
    BY <1>11
  <2>2. fateOf(n) = "unknown" /\ fateOf(n)' = "waiting"
    BY <2>1 DEF fateOf
  <2>3. fateOf(j) = "waiting" /\ fateOf(j)' = "unknown"
        /\ ownerOf(j) = NoToken /\ ownerOf(j)' = NoToken
    BY <1>11 DEF fateOf, ownerOf
  <2>4. Delivery!Supersede(j)
    BY <2>1, <2>2, <2>3 DEF Delivery!Supersede, Delivery!Unowned
  <2> QED BY <2>4 DEF Delivery!Step
<1> QED BY <1>1, <1>5, <1>6, <1>7, <1>8, <1>9, <1>10, <1>11 DEF OwnerMove

(* The queue the daemon uses implements ExclusiveDelivery: only the token  *)
(* whose lease still runs settles a row, and an accepted row is never lost *)
(* (DeliveryContract).                                                     *)
THEOREM QueueDelivers == Spec => DeliveryContract
<1>1. Init => Delivery!Init
  BY DEF Init, Absent, Delivery!Init, fateOf, ownerOf, Is
<1>2. ASSUME TypeOK, UniqueClaims, [DaemonNext]_vars
      PROVE  Delivery!Next
  <2>1. \A m \in Id : Delivery!Step(m)
    BY <1>2, RowStep
  <2>2. UniqueClaims'
    BY <1>2, UniqueStep
  <2>3. \A m, n \in Id : m # n /\ ownerOf(m)' # NoToken => ownerOf(m)' # ownerOf(n)'
    BY <2>2 DEF UniqueClaims, ownerOf
  <2>4. Delivery!DistinctOwners'
    BY <2>3 DEF Delivery!DistinctOwners, Delivery!Unowned
  <2> QED BY <2>1, <2>4 DEF Delivery!Next
<1> QED
  BY <1>1, <1>2, TypeCorrect, ClaimsAreUnique, DaemonIsApi, PTL
     DEF Spec, DeliveryContract, Delivery!Spec

-----------------------------------------------------------------------------
(* Which claims are honoured after a step: what callers of the queue need. *)

Live(t) == \E i \in Id : LiveClaim(i, t)

BeginsNoClaim ==
  \/ \E i \in Id : \E left \in 0..EnvelopeOf[i].ttl : Accept(i, left)
  \/ \E F \in SUBSET Id : ClaimNothing(F)
  \/ \E t \in Token : Renew(t) \/ Ack(t) \/ \E requeue \in BOOLEAN : Nack(t, requeue)
  \/ SweepExpiredClaims \/ Tick \/ UNCHANGED vars

LEMMA NoClaimBegins ==
  ASSUME TypeOK, BeginsNoClaim, NEW i \in Id, NEW t \in Token,
         records'[i].status = "inflight", records'[i].token = t, records'[i].lease > 0
  PROVE  LiveClaim(i, t)
<1> USE DEF LiveClaim, Is
<1>1. ASSUME NEW j \in Id, NEW left \in 0..EnvelopeOf[j].ttl, Accept(j, left)
      PROVE  LiveClaim(i, t)
  BY <1>1, AcceptRows DEF Wrote, Kept
<1>2. ASSUME NEW F \in SUBSET Id, ClaimNothing(F)
      PROVE  LiveClaim(i, t)
  BY <1>2, ClaimNothingRows DEF Wrote, Kept
<1>3. ASSUME NEW s \in Token, Renew(s) \/ Ack(s)
      PROVE  LiveClaim(i, t)
  <2>1. PICK j \in Id : /\ LiveClaim(j, s) /\ \A k \in Id \ {j} : Kept(k)
                        /\ \/ Wrote(j, "inflight", records[j].attempt, s, LeaseTicks)
                           \/ Wrote(j, "completed", records[j].attempt, NoToken, 0)
    BY <1>3, RenewRows, AckRows DEF Renew, Ack
  <2> QED BY <2>1 DEF Wrote, Kept
<1>4. ASSUME NEW s \in Token, NEW requeue \in BOOLEAN, Nack(s, requeue)
      PROVE  LiveClaim(i, t)
  <2>1. PICK j \in Id :
           \/ records' = [records EXCEPT ![j] = AsDeadletter(@, "nack")]
           \/ records' = [records EXCEPT ![j] = AsPending(@)]
    BY <1>4, NackCases
  <2>2. "nack" \in Reason \ {"none"}
    BY DEF Reason
  <2>3. /\ \A k \in Id \ {j} : Kept(k)
        /\ \/ Wrote(j, "deadletter", records[j].attempt, NoToken, 0)
           \/ Wrote(j, "pending", records[j].attempt, NoToken, 0)
    BY <2>1, <2>2, ToDeadletterRows, ToPendingRows
  <2> QED BY <2>3 DEF Wrote, Kept
<1>5. CASE SweepExpiredClaims
  BY <1>5, SweepRows DEF Wrote, Kept
<1>6. CASE Tick
  BY <1>6, TickRows
<1>7. CASE UNCHANGED vars
  BY <1>7 DEF vars
<1> QED BY <1>1, <1>2, <1>3, <1>4, <1>5, <1>6, <1>7 DEF BeginsNoClaim

LEMMA LiveBefore ==
  ASSUME TypeOK, BeginsNoClaim, NEW t \in Token, Live(t)'
  PROVE  Live(t)
BY NoClaimBegins DEF Live, LiveClaim, Is

LEMMA LiveBeforeClaim ==
  ASSUME TypeOK, NEW F, NEW s \in Token, NEW j \in Id, Claim(F, s, j),
         NEW t \in Token \ {s}, Live(t)'
  PROVE  Live(t)
<1>1. PICK i \in Id : records'[i].status = "inflight" /\ records'[i].token = t
                      /\ records'[i].lease > 0
  BY DEF Live, LiveClaim, Is
<1>2. Kept(i)
  BY <1>1, ClaimRows DEF Wrote
<1> QED BY <1>1, <1>2 DEF Kept, Live, LiveClaim, Is

(* A claim that is acked or returned is honoured no more. *)
LEMMA SettledIsDead ==
  ASSUME TypeOK, UniqueClaims, NEW t \in Token, NEW requeue \in BOOLEAN,
         Ack(t) \/ Nack(t, requeue)
  PROVE  ~Live(t)'
<1>0. NoToken \notin Token
  BY QueueAssumption DEF QueueAssumption
<1>1. PICK j \in Id : LiveClaim(j, t) /\ records'[j].token = NoToken
  <2>1. CASE Ack(t)
    BY <2>1, AckRows DEF Ack, Wrote
  <2>2. CASE Nack(t, requeue)
    <3>1. "nack" \in Reason \ {"none"}
      BY DEF Reason
    <3> QED BY <2>2, <3>1, NackCases, ToDeadletterRows, ToPendingRows DEF Wrote
  <2> QED BY <2>1, <2>2
<1>2. \A i \in Id : records[i].token = t => i = j
  BY <1>0, <1>1 DEF LiveClaim, UniqueClaims
<1>3. BeginsNoClaim
  BY DEF BeginsNoClaim
<1>4. ASSUME NEW i \in Id, records'[i].status = "inflight", records'[i].token = t,
             records'[i].lease > 0
      PROVE  FALSE
  <2>1. LiveClaim(i, t)
    BY <1>3, <1>4, NoClaimBegins
  <2> QED BY <1>0, <1>1, <1>2, <1>4, <2>1 DEF LiveClaim
<1> QED BY <1>4 DEF Live, LiveClaim, Is
=============================================================================
