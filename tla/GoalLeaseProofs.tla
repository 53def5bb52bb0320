--------------------------- MODULE GoalLeaseProofs ---------------------------
(***************************************************************************)
(* Lease exclusion for every set of goals and owners, every lease length   *)
(* and every bound on the age of a clock reading; and what the write fence *)
(* and the write lock make of it, for any number of processes as well.     *)
(***************************************************************************)
EXTENDS MCLeases, TLAPS

USE LeaseAssumption DEF LeaseAssumption

LEMMA LeaseTypeStep == TypeOK /\ [Next]_vars => TypeOK'
<1> USE DEF TypeOK
<1> SUFFICES ASSUME TypeOK, [Next]_vars PROVE TypeOK'
  OBVIOUS
<1>1. ASSUME NEW o \in Owner, NEW g \in Goal, NEW lag \in 0..MaxLag, Granted(o, g, lag)
      PROVE  TypeOK'
  <2>1. LeaseTicks - lag \in (-MaxLag)..LeaseTicks
    OBVIOUS
  <2>2. lease' \in [Goal -> [owner : Owner \cup {NoOwner}, left : (-MaxLag)..LeaseTicks]]
    BY <1>1, <2>1 DEF Granted
  <2>3. promised' \in [Owner -> [Goal -> 0..LeaseTicks]]
    BY <1>1, <2>1 DEF Granted, Told
  <2> QED BY <2>2, <2>3
<1>2. ASSUME NEW o \in Owner, NEW g \in Goal, Release(o, g)
      PROVE  TypeOK'
  BY <1>2 DEF Release, Told, NoLease
<1>3. ASSUME NEW lag \in 0..MaxLag, ReapStale(lag)
      PROVE  TypeOK'
  BY <1>3 DEF ReapStale, NoLease
<1>4. ASSUME NEW o \in Owner, Forget(o)
      PROVE  TypeOK'
  BY <1>4 DEF Forget
<1>5. CASE Tick
  <2>1. \A g \in Goal : LeaseAged(lease[g]) \in
          [owner : Owner \cup {NoOwner}, left : (-MaxLag)..LeaseTicks]
    BY DEF LeaseAged
  <2> QED BY <1>5, <2>1 DEF Tick
<1>6. CASE UNCHANGED vars
  BY <1>6 DEF vars
<1> QED
  BY <1>1, <1>2, <1>3, <1>4, <1>5, <1>6 DEF Next, Acquire, Renew

(* Type correctness (TypeOK): no row's time leaves -MaxLag..LeaseTicks.    *)
THEOREM LeaseTypeCorrect == Spec => []TypeOK
<1>1. Init => TypeOK
  BY DEF Init, NoLease, TypeOK
<1> QED BY <1>1, LeaseTypeStep, PTL DEF Spec

(* LeaseHonoured is inductive together with the types. *)
LEMMA HonouredStep == TypeOK /\ LeaseHonoured /\ [Next]_vars => LeaseHonoured'
<1> SUFFICES ASSUME TypeOK, LeaseHonoured, [Next]_vars,
                    NEW o \in Owner, NEW g \in Goal, promised'[o][g] > 0
             PROVE  lease'[g].owner = o /\ lease'[g].left >= promised'[o][g]
  BY DEF LeaseHonoured
<1>1. ASSUME NEW p \in Owner, NEW h \in Goal, NEW lag \in 0..MaxLag,
             Granted(p, h, lag),
             \A q \in Owner \ {p} : promised[q][h] = 0
      PROVE  lease'[g].owner = o /\ lease'[g].left >= promised'[o][g]
  <2>1. CASE o = p /\ g = h
    BY <1>1, <2>1 DEF Granted, Told, TypeOK
  <2>2. CASE g # h
    BY <1>1, <2>2 DEF Granted, Told, TypeOK, LeaseHonoured
  <2>3. CASE o # p /\ g = h
    BY <1>1, <2>3 DEF Granted, Told, TypeOK
  <2> QED BY <2>1, <2>2, <2>3
<1>2. ASSUME NEW p \in Owner, NEW h \in Goal, NEW lag \in 0..MaxLag, Acquire(p, h, lag)
      PROVE  lease'[g].owner = o /\ lease'[g].left >= promised'[o][g]
  <2>1. \A q \in Owner : promised[q][h] = 0
    BY <1>2 DEF Acquire, Owned, LiveAt, LeaseHonoured, TypeOK
  <2> QED BY <1>1, <1>2, <2>1 DEF Acquire
<1>3. ASSUME NEW p \in Owner, NEW h \in Goal, NEW lag \in 0..MaxLag, Renew(p, h, lag)
      PROVE  lease'[g].owner = o /\ lease'[g].left >= promised'[o][g]
  <2>1. \A q \in Owner \ {p} : promised[q][h] = 0
    BY <1>3 DEF Renew, LeaseHonoured, TypeOK
  <2> QED BY <1>1, <1>3, <2>1 DEF Renew
<1>4. ASSUME NEW p \in Owner, NEW h \in Goal, Release(p, h)
      PROVE  lease'[g].owner = o /\ lease'[g].left >= promised'[o][g]
  BY <1>4 DEF Release, Told, TypeOK, LeaseHonoured
<1>5. ASSUME NEW lag \in 0..MaxLag, ReapStale(lag)
      PROVE  lease'[g].owner = o /\ lease'[g].left >= promised'[o][g]
  BY <1>5 DEF ReapStale, LiveAt, TypeOK, LeaseHonoured
<1>6. ASSUME NEW p \in Owner, Forget(p)
      PROVE  lease'[g].owner = o /\ lease'[g].left >= promised'[o][g]
  BY <1>6 DEF Forget, TypeOK, LeaseHonoured
<1>7. CASE Tick
  <2>1. promised[o][g] \in Nat /\ promised'[o][g] = promised[o][g] - 1 /\ promised[o][g] > 0
    BY <1>7 DEF Tick, TypeOK
  <2>2. lease[g].owner = o /\ lease[g].left >= promised[o][g]
    BY <2>1 DEF LeaseHonoured
  <2>3. lease'[g] = LeaseAged(lease[g])
    BY <1>7 DEF Tick
  <2>4. LeaseAged(lease[g]).owner = o /\ LeaseAged(lease[g]).left = lease[g].left - 1
    BY <2>1, <2>2 DEF LeaseAged, TypeOK
  <2> QED BY <2>1, <2>2, <2>3, <2>4 DEF TypeOK
<1>8. CASE UNCHANGED vars
  BY <1>8 DEF vars, LeaseHonoured
<1> QED BY <1>2, <1>3, <1>4, <1>5, <1>6, <1>7, <1>8 DEF Next

(* No caller ever loses a lease before the time it was told (LeaseHonoured). *)
THEOREM LeasesAreHonoured == Spec => []LeaseHonoured
<1>1. Init => LeaseHonoured
  BY DEF Init, LeaseHonoured
<1> QED BY <1>1, HonouredStep, LeaseTypeCorrect, PTL DEF Spec

(* Mutual exclusion of the executions of a goal (OneHolderPerGoal): two    *)
(* owners with time left would both be the owner the row names.            *)
THEOREM LeaseExclusion == Spec => []OneHolderPerGoal
<1>1. LeaseHonoured => OneHolderPerGoal
  BY DEF LeaseHonoured, OneHolderPerGoal
<1> QED BY <1>1, LeasesAreHonoured, PTL

-----------------------------------------------------------------------------
(* The write fence.  Its type invariant, in the parts a step may change.   *)

Row == [owner : Owner \cup {NoOwner}, left : (-FenceLag)..FenceTicks]

LEMMA FenceLeaseTypes ==
  ASSUME Fence!Leases!TypeOK, NEW o \in Owner, NEW lag \in 0..FenceLag
  PROVE  /\ Fence!Leases!Acquire(o, TheGoal, lag) => Fence!Leases!TypeOK'
         /\ Fence!Leases!Renew(o, TheGoal, lag) => Fence!Leases!TypeOK'
         /\ Fence!Leases!Release(o, TheGoal) => Fence!Leases!TypeOK'
         /\ Fence!Leases!Tick => Fence!Leases!TypeOK'
<1> USE Instances DEF Fence!FenceAssumption, Fence!Leases!TypeOK
<1>1. ASSUME Fence!Leases!Granted(o, TheGoal, lag) PROVE Fence!Leases!TypeOK'
  <2>1. FenceTicks - lag \in (-FenceLag)..FenceTicks
    OBVIOUS
  <2>2. lease' \in [{TheGoal} -> Row]
    BY <1>1, <2>1 DEF Fence!Leases!Granted, Row
  <2>3. promised' \in [Owner -> [{TheGoal} -> 0..FenceTicks]]
    BY <1>1, <2>1 DEF Fence!Leases!Granted, Fence!Leases!Told
  <2> QED BY <2>2, <2>3 DEF Row
<1>2. ASSUME Fence!Leases!Release(o, TheGoal) PROVE Fence!Leases!TypeOK'
  BY <1>2 DEF Fence!Leases!Release, Fence!Leases!Told, Fence!Leases!NoLease
<1>3. ASSUME Fence!Leases!Tick PROVE Fence!Leases!TypeOK'
  <2>1. \A g \in {TheGoal} : Fence!Leases!LeaseAged(lease[g]) \in Row
    BY DEF Fence!Leases!LeaseAged, Row
  <2> QED BY <1>3, <2>1 DEF Fence!Leases!Tick, Row
<1> QED BY <1>1, <1>2, <1>3 DEF Fence!Leases!Acquire, Fence!Leases!Renew

RunRow == [token : Owner \cup {NoOwner}, phase : {"none", "leased", "fenced", "ending"}]
MutationRow == [author : Owner \cup {NoOwner}, stage : Fence!Stages]
LockRow == [holder : Process \cup {NoProcess, Orphan}, left : 0..LockTicks]

RunsTyped ==
  /\ run \in [Process -> RunRow]
  /\ \A p \in Process : IF Fence!In(p, "none") THEN run[p] = Fence!NoRun
                                              ELSE run[p].token \in Owner
MutationsTyped ==
  /\ mutation \in [Process -> MutationRow]
  /\ \A p \in Process : Fence!At(p, "none") => mutation[p] = Fence!NoMutation
LockTyped    == lock \in LockRow
HistoryTyped ==
  turn \in Nat /\ era \in [Owner -> Nat] /\ lastEra \in Nat /\ late \in SUBSET Owner

AllTyped == Fence!Leases!TypeOK /\ RunsTyped /\ MutationsTyped /\ LockTyped /\ HistoryTyped

LEMMA FenceTypes == AllTyped => Fence!TypeOK
BY DEF AllTyped, Fence!TypeOK, RunsTyped, MutationsTyped, LockTyped, HistoryTyped,
       RunRow, MutationRow, LockRow

LEMMA RunTypes ==
  ASSUME RunsTyped, NEW p \in Process
  PROVE  /\ \A o \in Owner :
              run' = [run EXCEPT ![p] = [token |-> o, phase |-> "leased"]] => RunsTyped'
         /\ run' = [run EXCEPT ![p] = Fence!NoRun] => RunsTyped'
         /\ ~Fence!In(p, "none") /\ (Fence!Enters(p, "fenced") \/ Fence!Enters(p, "ending"))
              => RunsTyped'
         /\ UNCHANGED run => RunsTyped'
<1>1. ASSUME NEW r \in RunRow, IF r.phase = "none" THEN r = Fence!NoRun ELSE r.token \in Owner,
             run' = [run EXCEPT ![p] = r]
      PROVE  RunsTyped'
  <2>1. run' \in [Process -> RunRow]
    BY <1>1 DEF RunsTyped
  <2>2. \A q \in Process : run'[q] = IF q = p THEN r ELSE run[q]
    BY <1>1 DEF RunsTyped
  <2> QED BY <1>1, <2>1, <2>2 DEF RunsTyped, Fence!In
<1>2. /\ \A o \in Owner : [token |-> o, phase |-> "leased"] \in RunRow
      /\ Fence!NoRun \in RunRow
      /\ \A ph \in {"fenced", "ending"} :
           /\ [run[p] EXCEPT !.phase = ph] \in RunRow
           /\ [run[p] EXCEPT !.phase = ph].phase # "none"
           /\ [run[p] EXCEPT !.phase = ph].token = run[p].token
           /\ Fence!Enters(p, ph) => run' = [run EXCEPT ![p] = [run[p] EXCEPT !.phase = ph]]
  BY Instances DEF RunRow, RunsTyped, Fence!NoRun, Fence!Enters
<1>3. ASSUME NEW ph \in {"fenced", "ending"}, ~Fence!In(p, "none"), Fence!Enters(p, ph)
      PROVE  RunsTyped'
  <2>1. run[p].token \in Owner
    BY <1>3 DEF RunsTyped
  <2> QED BY <1>1, <1>2, <1>3, <2>1
<1>4. ASSUME NEW o \in Owner PROVE [token |-> o, phase |-> "leased"].token \in Owner
  OBVIOUS
<1>5. UNCHANGED run => RunsTyped'
  BY DEF RunsTyped, Fence!In
<1>6. run' = [run EXCEPT ![p] = Fence!NoRun] => RunsTyped'
  BY <1>1, <1>2 DEF Fence!NoRun
<1>7. ASSUME NEW o \in Owner, run' = [run EXCEPT ![p] = [token |-> o, phase |-> "leased"]]
      PROVE  RunsTyped'
  BY <1>1, <1>2, <1>4, <1>7
<1> QED BY <1>3, <1>5, <1>6, <1>7

LEMMA MutationTypes ==
  ASSUME MutationsTyped, NEW p \in Process
  PROVE  /\ \A stage \in Fence!Stages \ {"none"} : Fence!Goes(p, stage) => MutationsTyped'
         /\ Fence!Ends(p) => MutationsTyped'
         /\ \A author \in Owner \cup {NoOwner} :
              mutation' = [mutation EXCEPT ![p] = [author |-> author, stage |-> "waiting"]]
                => MutationsTyped'
         /\ UNCHANGED mutation => MutationsTyped'
<1>1. ASSUME NEW m \in MutationRow, m.stage = "none" => m = Fence!NoMutation,
             mutation' = [mutation EXCEPT ![p] = m]
      PROVE  MutationsTyped'
  <2>1. mutation' \in [Process -> MutationRow]
    BY <1>1 DEF MutationsTyped
  <2>2. \A q \in Process : mutation'[q] = IF q = p THEN m ELSE mutation[q]
    BY <1>1 DEF MutationsTyped
  <2> QED BY <1>1, <2>1, <2>2 DEF MutationsTyped, Fence!At
<1>2. ASSUME NEW stage \in Fence!Stages \ {"none"}
      PROVE  /\ [mutation[p] EXCEPT !.stage = stage] \in MutationRow
             /\ [mutation[p] EXCEPT !.stage = stage].stage # "none"
             /\ Fence!Goes(p, stage)
                  => mutation' = [mutation EXCEPT ![p] = [mutation[p] EXCEPT !.stage = stage]]
  BY DEF MutationRow, MutationsTyped, Fence!Goes
<1>3. /\ Fence!NoMutation \in MutationRow
      /\ \A author \in Owner \cup {NoOwner} :
           [author |-> author, stage |-> "waiting"] \in MutationRow
  BY DEF MutationRow, Fence!NoMutation, Fence!Stages
<1> QED BY <1>1, <1>2, <1>3 DEF MutationsTyped, Fence!At, Fence!Ends

LEMMA FenceTypeStep == AllTyped /\ [Fence!Next]_(Fence!vars) => AllTyped'
<1> SUFFICES ASSUME AllTyped, [Fence!Next]_(Fence!vars) PROVE AllTyped'
  OBVIOUS
<1> USE RunTypes, MutationTypes DEF AllTyped, Fence!historyVars, HistoryTyped
<1>a. \A p \in Process : run[p].phase # "none" => run[p].token \in Owner
  BY DEF RunsTyped, Fence!In
<1>b. UNCHANGED Fence!leaseVars => Fence!Leases!TypeOK'
  BY DEF Fence!leaseVars, Fence!Leases!TypeOK
<1>c. UNCHANGED lock => LockTyped'
  BY DEF LockTyped
<1>e. (UNCHANGED run => RunsTyped') /\ (UNCHANGED mutation => MutationsTyped')
  BY DEF RunsTyped, MutationsTyped, Fence!In, Fence!At
<1>d. 0 \in 0..FenceLag
  BY Instances DEF Fence!FenceAssumption
<1>1. ASSUME NEW p \in Process, NEW o \in Owner, NEW lag \in 0..FenceLag,
             Fence!StartExecution(p, o, lag)
      PROVE  AllTyped'
  <2>1. Fence!Leases!TypeOK'
    BY <1>1, FenceLeaseTypes DEF Fence!StartExecution
  <2>2. HistoryTyped'
    BY <1>1 DEF Fence!StartExecution
  <2> QED BY <1>1, <1>c, <2>1, <2>2 DEF Fence!StartExecution
<1>2. ASSUME NEW p \in Process, NEW lag \in 0..FenceLag, Fence!RenewLease(p, lag)
      PROVE  AllTyped'
  BY <1>2, <1>a, <1>c, FenceLeaseTypes DEF Fence!RenewLease, Fence!In
<1>3. ASSUME NEW p \in Process, Fence!Relinquish(p)
      PROVE  AllTyped'
  BY <1>3, <1>a, <1>c, <1>d, FenceLeaseTypes DEF Fence!Relinquish, Fence!In
<1>4. ASSUME NEW p \in Process, Fence!EndExecution(p)
      PROVE  AllTyped'
  BY <1>4, <1>a, <1>b, <1>c, <1>d, FenceLeaseTypes DEF Fence!EndExecution, Fence!In
<1>5. ASSUME NEW p \in Process, Fence!InstallFence(p) \/ Fence!ClearFence(p)
      PROVE  AllTyped'
  BY <1>5, <1>b, <1>c DEF Fence!InstallFence, Fence!ClearFence, Fence!In
<1>6. ASSUME NEW p \in Process, NEW author \in Owner \cup {NoOwner}, Fence!Request(p, author)
      PROVE  AllTyped'
  BY <1>6, <1>b, <1>c DEF Fence!Request
<1>7. ASSUME NEW p \in Process, Fence!TakeLock(p)
      PROVE  AllTyped'
  <2>1. LockTyped'
    BY <1>7, Instances DEF Fence!TakeLock, LockTyped, LockRow, Fence!FenceAssumption
  <2> QED BY <1>7, <1>b, <2>1 DEF Fence!TakeLock, Fence!Stages
<1>8. ASSUME NEW p \in Process, Fence!LockTimeout(p) \/ Fence!CheckFence(p) \/ Fence!Commit(p)
      PROVE  AllTyped'
  <2>1. Fence!Leases!TypeOK' /\ RunsTyped' /\ LockTyped'
    BY <1>8, <1>b, <1>c DEF Fence!LockTimeout, Fence!CheckFence, Fence!Commit
  <2>2. MutationsTyped'
    BY <1>8 DEF Fence!LockTimeout, Fence!CheckFence, Fence!Commit, Fence!Stages
  <2>3. mutation[p].author \in Owner \cup {NoOwner}
    BY DEF MutationsTyped, MutationRow
  <2>4. HistoryTyped'
    BY <1>8, <2>3 DEF Fence!LockTimeout, Fence!CheckFence, Fence!Commit, Fence!Author
  <2> QED BY <2>1, <2>2, <2>4
<1>9. ASSUME NEW p \in Process, Fence!Unlock(p)
      PROVE  AllTyped'
  <2>1. LockTyped'
    BY <1>9, Instances
    DEF Fence!Unlock, LockTyped, LockRow, Fence!NoLock, Fence!FenceAssumption
  <2> QED BY <1>9, <1>b, <2>1 DEF Fence!Unlock
<1>10. ASSUME NEW p \in Process, Fence!Crash(p)
       PROVE  AllTyped'
  <2>1. LockTyped'
    BY <1>10 DEF Fence!Crash, LockTyped, LockRow
  <2>2. Fence!Leases!TypeOK'
    <3>1. CASE run[p].token = NoOwner
      BY <1>10, <1>b, <3>1 DEF Fence!Crash
    <3>2. CASE run[p].token # NoOwner
      <4>1. run[p].token \in Owner
        BY <3>2 DEF RunsTyped, Fence!NoRun
      <4>2. [g \in {TheGoal} |-> 0] \in [{TheGoal} -> 0..FenceTicks]
        BY Instances DEF Fence!FenceAssumption
      <4>3. /\ lease' = lease
            /\ promised' = [promised EXCEPT ![run[p].token] = [g \in {TheGoal} |-> 0]]
        BY <1>10, <3>2 DEF Fence!Crash
      <4> QED BY <4>1, <4>2, <4>3 DEF Fence!Leases!TypeOK
    <3> QED BY <3>1, <3>2
  <2> QED BY <1>10, <2>1, <2>2 DEF Fence!Crash
<1>11. CASE Fence!Tick
  <2>1. LockTyped'
    BY <1>11, Instances DEF Fence!FenceAssumption, Fence!Tick, LockTyped, LockRow
  <2>2. Fence!Leases!TypeOK'
    <3>1. CASE Owner = {}
      BY <1>11, <3>1
      DEF Fence!Tick, Fence!Leases!TypeOK, Fence!Leases!Tick, Fence!Leases!LeaseAged
    <3> QED BY <1>11, <1>d, <3>1, FenceLeaseTypes DEF Fence!Tick
  <2> QED BY <1>11, <1>e, <2>1, <2>2 DEF Fence!Tick
<1>12. CASE UNCHANGED Fence!vars
  BY <1>12, <1>b, <1>c, <1>e DEF Fence!vars, Fence!leaseVars
<1> QED BY <1>1, <1>2, <1>3, <1>4, <1>5, <1>6, <1>7, <1>8, <1>9, <1>10, <1>11, <1>12
        DEF Fence!Next

(* The row names the latest execution, if any; eras count up to the turn.  *)
RowIsLatest ==
  \A o \in Owner : lease[TheGoal].owner = o => era[o] = turn

ErasBounded == lastEra <= turn /\ \A o \in Owner : era[o] <= turn

(* An execution's token is its own, and so is what its process writes.     *)
TokensFresh ==
  \A p, q \in Process : run[p].token \in Owner =>
    era[run[p].token] > 0 /\ (run[q].token = run[p].token => p = q)

AuthorsFenced ==
  \A p \in Process : mutation[p].author \in Owner =>
    Fence!In(p, "fenced") /\ run[p].token = mutation[p].author

(* Past the fence and with the lock: nobody newer has committed, nor can   *)
(* anybody newer who has had the lock commit before.                       *)
AheadOf(p, q) == mutation[p].author \in Owner => era[mutation[p].author] <= era[mutation[q].author]

ClearedIsNewest ==
  \A p \in Process :
    Fence!At(p, "cleared") /\ lock.holder = p /\ mutation[p].author \in Owner =>
      /\ lastEra <= era[mutation[p].author]
      /\ \A q \in Process \ {p} :
           Fence!At(q, "locked") \/ Fence!At(q, "cleared") => AheadOf(q, p)

(* Who committed after a takeover has nothing left that passed the fence.  *)
LateIsOver ==
  \A o \in late : /\ era[o] > 0 /\ Fence!TakenOver(o)
                  /\ \A p \in Process : ~(Fence!At(p, "cleared") /\ mutation[p].author = o)

FenceSound ==
  RowIsLatest /\ ErasBounded /\ TokensFresh /\ AuthorsFenced /\ ClearedIsNewest /\ LateIsOver

LEMMA FenceSoundStep == AllTyped /\ FenceSound /\ [Fence!Next]_(Fence!vars) => FenceSound'
<1> SUFFICES ASSUME AllTyped, FenceSound, [Fence!Next]_(Fence!vars) PROVE FenceSound'
  OBVIOUS
<1> USE Instances DEF Fence!FenceAssumption, FenceSound, Fence!In, Fence!At, Fence!Author,
                      Fence!historyVars, Fence!leaseVars
<1>t. /\ run \in [Process -> RunRow] /\ mutation \in [Process -> MutationRow]
      /\ turn \in Nat /\ era \in [Owner -> Nat] /\ lastEra \in Nat /\ late \in SUBSET Owner
      /\ lease \in [{TheGoal} -> Row]
      /\ lock \in LockRow
  BY DEF AllTyped, RunsTyped, MutationsTyped, HistoryTyped, LockTyped, Fence!Leases!TypeOK, Row
<1>o. \A p \in Process : run[p].phase = "none" => run[p] = Fence!NoRun
  BY DEF AllTyped, RunsTyped
<1>a. ASSUME NEW p \in Process, mutation[p].author \in Owner
      PROVE  /\ Fence!Fence(p) = mutation[p].author /\ era[mutation[p].author] > 0
             /\ \A q \in Process : mutation[q].author = mutation[p].author => q = p
  BY <1>a DEF AuthorsFenced, TokensFresh, Fence!Fence
<1>u. /\ UNCHANGED <<lease, era, turn>> => RowIsLatest'
      /\ UNCHANGED <<lastEra, era, turn>> => ErasBounded'
      /\ UNCHANGED <<run, era>> => TokensFresh'
      /\ UNCHANGED <<run, mutation>> => AuthorsFenced'
      /\ UNCHANGED <<mutation, lock, lastEra, era>> => ClearedIsNewest'
      /\ UNCHANGED <<mutation, late, era, turn>> => LateIsOver'
  BY DEF RowIsLatest, ErasBounded, TokensFresh, AuthorsFenced, ClearedIsNewest, AheadOf,
         LateIsOver, Fence!TakenOver
<1> USE <1>t, <1>o DEF RunRow, MutationRow, LockRow, Row
<1>1. ASSUME NEW p \in Process, NEW o \in Owner, NEW lag \in 0..FenceLag,
             Fence!StartExecution(p, o, lag)
      PROVE  FenceSound'
  <2>1. RowIsLatest'
    BY <1>1
    DEF RowIsLatest, Fence!StartExecution, Fence!Leases!Acquire,
        Fence!Leases!Granted
  <2>2. ErasBounded'
    BY <1>1
    DEF ErasBounded, Fence!StartExecution, Fence!Leases!Acquire,
        Fence!Leases!Granted
  <2>3. TokensFresh'
    BY <1>1
    DEF TokensFresh, Fence!StartExecution, Fence!Leases!Acquire,
        Fence!Leases!Granted
  <2>4. AuthorsFenced'
    BY <1>1
    DEF AuthorsFenced, Fence!StartExecution, Fence!Leases!Acquire,
        Fence!Leases!Granted
  <2>0. \A q \in Process : mutation[q].author \in Owner =>
          mutation[q].author # o /\ era'[mutation[q].author] = era[mutation[q].author]
    BY <1>1, <1>a DEF Fence!StartExecution
  <2>5. ClearedIsNewest'
    BY <1>1, <2>0
    DEF ClearedIsNewest, Fence!StartExecution, Fence!Leases!Acquire,
        Fence!Leases!Granted, AheadOf
  <2>6. LateIsOver'
    BY <1>1
    DEF LateIsOver, Fence!StartExecution, Fence!Leases!Acquire,
        Fence!Leases!Granted, Fence!TakenOver
  <2> QED BY <2>1, <2>2, <2>3, <2>4, <2>5, <2>6
<1>2. ASSUME NEW p \in Process, NEW lag \in 0..FenceLag, Fence!RenewLease(p, lag)
      PROVE  FenceSound'
  <2>1. RowIsLatest'
    BY <1>2 DEF RowIsLatest, Fence!RenewLease, Fence!Leases!Renew, Fence!Leases!Granted
  <2> QED BY <1>2, <1>u, <2>1 DEF Fence!RenewLease
<1>3. ASSUME NEW p \in Process, Fence!Relinquish(p)
      PROVE  FenceSound'
  <2>1. RowIsLatest'
    BY <1>3 DEF RowIsLatest, Fence!Relinquish, Fence!Leases!Release, Fence!Leases!NoLease
  <2> QED BY <1>3, <1>u, <2>1 DEF Fence!Relinquish
<1>4. ASSUME NEW p \in Process, Fence!EndExecution(p)
      PROVE  FenceSound'
  <2>1. RowIsLatest'
    BY <1>4
    DEF RowIsLatest, Fence!EndExecution, Fence!Leases!Release, Fence!Leases!NoLease,
        Fence!NoRun
  <2>3. TokensFresh'
    BY <1>4
    DEF TokensFresh, Fence!EndExecution, Fence!Leases!Release, Fence!Leases!NoLease,
        Fence!NoRun
  <2>4. AuthorsFenced'
    BY <1>4
    DEF AuthorsFenced, Fence!EndExecution, Fence!Leases!Release,
        Fence!Leases!NoLease, Fence!NoRun
  <2> QED BY <1>4, <1>u, <2>1, <2>3, <2>4 DEF Fence!EndExecution
<1>5. ASSUME NEW p \in Process, Fence!InstallFence(p)
      PROVE  FenceSound'
  <2>3. TokensFresh'
    BY <1>5 DEF TokensFresh, Fence!InstallFence, Fence!Enters
  <2>4. AuthorsFenced'
    BY <1>5 DEF AuthorsFenced, Fence!InstallFence, Fence!Enters
  <2> QED BY <1>5, <1>u, <2>3, <2>4 DEF Fence!InstallFence
<1>6. ASSUME NEW p \in Process, Fence!ClearFence(p)
      PROVE  FenceSound'
  <2>3. TokensFresh'
    BY <1>6 DEF TokensFresh, Fence!ClearFence, Fence!Enters
  <2>4. AuthorsFenced'
    BY <1>6 DEF AuthorsFenced, Fence!ClearFence, Fence!Enters
  <2> QED BY <1>6, <1>u, <2>3, <2>4 DEF Fence!ClearFence
<1>7. ASSUME NEW p \in Process, NEW author \in Owner \cup {NoOwner}, Fence!Request(p, author)
      PROVE  FenceSound'
  <2>4. AuthorsFenced'
    BY <1>7 DEF AuthorsFenced, Fence!Request, Fence!Fence
  <2>5. ClearedIsNewest'
    BY <1>7 DEF ClearedIsNewest, Fence!Request, Fence!Fence, AheadOf
  <2>6. LateIsOver'
    BY <1>7 DEF LateIsOver, Fence!Request, Fence!Fence, Fence!TakenOver
  <2> QED BY <1>7, <1>u, <2>4, <2>5, <2>6 DEF Fence!Request
<1>8. ASSUME NEW p \in Process, Fence!TakeLock(p)
      PROVE  FenceSound'
  <2>4. AuthorsFenced'
    BY <1>8 DEF AuthorsFenced, Fence!TakeLock, Fence!Goes
  <2>5. ClearedIsNewest'
    BY <1>8 DEF ClearedIsNewest, Fence!TakeLock, Fence!Goes, AheadOf
  <2>6. LateIsOver'
    BY <1>8 DEF LateIsOver, Fence!TakeLock, Fence!Goes, Fence!TakenOver
  <2> QED BY <1>8, <1>u, <2>4, <2>5, <2>6 DEF Fence!TakeLock
<1>9. ASSUME NEW p \in Process, Fence!LockTimeout(p)
      PROVE  FenceSound'
  <2>4. AuthorsFenced'
    BY <1>9 DEF AuthorsFenced, Fence!LockTimeout, Fence!Ends, Fence!NoMutation
  <2>5. ClearedIsNewest'
    BY <1>9 DEF ClearedIsNewest, Fence!LockTimeout, Fence!Ends, Fence!NoMutation, AheadOf
  <2>6. LateIsOver'
    BY <1>9 DEF LateIsOver, Fence!LockTimeout, Fence!Ends, Fence!NoMutation, Fence!TakenOver
  <2> QED BY <1>9, <1>u, <2>4, <2>5, <2>6 DEF Fence!LockTimeout
<1>10. ASSUME NEW p \in Process, Fence!CheckFence(p)
      PROVE  FenceSound'
  <2>4. AuthorsFenced'
    BY <1>10 DEF AuthorsFenced, Fence!CheckFence, Fence!Goes, Fence!FenceHolds, Fence!Fence
  <2>0. ASSUME mutation[p].author \in Owner, Fence!At(p, "cleared")'
        PROVE  era[mutation[p].author] = turn
    BY <1>10, <2>0, <1>a DEF RowIsLatest, Fence!CheckFence, Fence!Goes, Fence!FenceHolds
  <2>7. /\ \A q \in Process \ {p} : mutation'[q] = mutation[q]
        /\ mutation'[p].author = mutation[p].author /\ UNCHANGED <<lock, lastEra, era, late, turn>>
        /\ mutation[p].stage = "locked"
    BY <1>10 DEF Fence!CheckFence, Fence!Goes
  <2>5. ClearedIsNewest'
    <3> SUFFICES ASSUME NEW r \in Process, Fence!At(r, "cleared")', lock.holder = r,
                        mutation[r].author \in Owner
                 PROVE  /\ lastEra <= era[mutation[r].author]
                        /\ \A q \in Process \ {r} :
                             (Fence!At(q, "locked") \/ Fence!At(q, "cleared"))' => AheadOf(q, r)
      BY <2>7 DEF ClearedIsNewest, AheadOf
    <3>1. CASE r = p
      BY <2>0, <3>1 DEF AheadOf, ErasBounded
    <3>2. CASE r # p
      BY <2>7, <3>2 DEF ClearedIsNewest
    <3> QED BY <3>1, <3>2
  <2>6. LateIsOver'
    BY <2>0, <2>7 DEF LateIsOver, Fence!TakenOver
  <2> QED BY <1>10, <1>u, <2>4, <2>5, <2>6 DEF Fence!CheckFence
<1>11. ASSUME NEW p \in Process, Fence!Commit(p)
      PROVE  FenceSound'
  <2>2. ErasBounded'
    BY <1>11 DEF ErasBounded, Fence!Commit, Fence!Goes
  <2>4. AuthorsFenced'
    BY <1>11 DEF AuthorsFenced, Fence!Commit, Fence!Goes
  <2>5. ClearedIsNewest'
    BY <1>11 DEF ClearedIsNewest, Fence!Commit, Fence!Goes, AheadOf
  <2>6. LateIsOver'
    <3>1. /\ \A q \in Process : mutation'[q].author = mutation[q].author
          /\ \A q \in Process \ {p} : mutation'[q].stage = mutation[q].stage
          /\ mutation'[p].stage = "unlocking" /\ mutation[p].stage = "cleared"
          /\ UNCHANGED <<era, turn>>
      BY <1>11 DEF Fence!Commit, Fence!Goes
    <3>2. \A o \in late' : o \in late \/ (o = mutation[p].author /\ o \in Owner /\ Fence!TakenOver(o))
      BY <1>11 DEF Fence!Commit, LateIsOver
    <3> QED BY <3>1, <3>2, <1>a DEF LateIsOver, Fence!TakenOver
  <2> QED BY <1>11, <1>u, <2>2, <2>4, <2>5, <2>6 DEF Fence!Commit
<1>12. ASSUME NEW p \in Process, Fence!Unlock(p)
      PROVE  FenceSound'
  <2>4. AuthorsFenced'
    BY <1>12 DEF AuthorsFenced, Fence!Unlock, Fence!Ends, Fence!NoMutation, Fence!NoLock
  <2>5. ClearedIsNewest'
    BY <1>12
    DEF ClearedIsNewest, Fence!Unlock, Fence!Ends, Fence!NoMutation, Fence!NoLock,
        AheadOf
  <2>6. LateIsOver'
    BY <1>12
    DEF LateIsOver, Fence!Unlock, Fence!Ends, Fence!NoMutation, Fence!NoLock,
        Fence!TakenOver
  <2> QED BY <1>12, <1>u, <2>4, <2>5, <2>6 DEF Fence!Unlock
<1>13. ASSUME NEW p \in Process, Fence!Crash(p)
      PROVE  FenceSound'
  <2>3. TokensFresh'
    BY <1>13 DEF TokensFresh, Fence!Crash, Fence!Ends, Fence!NoMutation, Fence!NoRun
  <2>4. AuthorsFenced'
    BY <1>13 DEF AuthorsFenced, Fence!Crash, Fence!Ends, Fence!NoMutation, Fence!NoRun
  <2>5. ClearedIsNewest'
    BY <1>13
    DEF ClearedIsNewest, Fence!Crash, Fence!Ends, Fence!NoMutation, Fence!NoRun,
        AheadOf
  <2>6. LateIsOver'
    BY <1>13
    DEF LateIsOver, Fence!Crash, Fence!Ends, Fence!NoMutation, Fence!NoRun,
        Fence!TakenOver
  <2> QED BY <1>13, <1>u, <2>3, <2>4, <2>5, <2>6 DEF Fence!Crash
<1>14. ASSUME Fence!Tick
      PROVE  FenceSound'
  <2>1. RowIsLatest'
    BY <1>14 DEF RowIsLatest, Fence!Tick, Fence!Leases!Tick, Fence!Leases!LeaseAged
  <2>5. ClearedIsNewest'
    BY <1>14
    DEF ClearedIsNewest, Fence!Tick, Fence!Leases!Tick, Fence!Leases!LeaseAged,
        AheadOf
  <2> QED BY <1>14, <1>u, <2>1, <2>5 DEF Fence!Tick
<1>15. ASSUME UNCHANGED Fence!vars
      PROVE  FenceSound'
  BY <1>15, <1>u DEF Fence!vars
<1> QED BY <1>1, <1>2, <1>3, <1>4, <1>5, <1>6, <1>7, <1>8, <1>9, <1>10, <1>11, <1>12, <1>13, <1>14, <1>15
        DEF Fence!Next

LEMMA FenceSoundHolds == Fence!Spec => [](AllTyped /\ FenceSound)
<1>1. Fence!Init => AllTyped /\ FenceSound
  <2> SUFFICES ASSUME Fence!Init PROVE AllTyped /\ FenceSound
    OBVIOUS
  <2> USE Instances DEF Fence!FenceAssumption, Fence!Init, Fence!Leases!Init, Fence!Leases!NoLease,
                        Fence!NoRun, Fence!NoMutation, Fence!NoLock, Fence!In, Fence!At
  <2>1. AllTyped
    BY DEF AllTyped, Fence!Leases!TypeOK, RunsTyped, MutationsTyped, LockTyped, HistoryTyped,
           RunRow, MutationRow, LockRow, Fence!Stages
  <2>2. FenceSound
    BY DEF FenceSound, RowIsLatest, ErasBounded, TokensFresh, AuthorsFenced, ClearedIsNewest,
           AheadOf, LateIsOver
  <2> QED BY <2>1, <2>2
<1> QED BY <1>1, FenceTypeStep, FenceSoundStep, PTL DEF Fence!Spec

(* Lease row, write lock, mutations and processes stay well-formed         *)
(* (TypeOK of StateWriteFence).                                            *)
THEOREM FenceTypeCorrect == Fence!Spec => []Fence!TypeOK
BY FenceSoundHolds, FenceTypes, PTL

(* An execution whose goal was taken over never puts its state over a      *)
(* newer owner's while the write lock is still its own (NoStaleOverwrite): *)
(* whoever passed the fence with the lock was then the newest execution,   *)
(* and without the lock nobody can pass the fence after it.                *)
THEOREM NewerStateStays == Fence!Spec => NoStaleOverwrite
<1>1. ClearedIsNewest =>
        \A p \in Process : \A o \in Owner :
          Fence!Commits(p, o) /\ lock.holder = p => lastEra <= era[o]
  BY DEF ClearedIsNewest, Fence!Commits, Fence!Author
<1> QED BY <1>1, FenceSoundHolds, PTL
        DEF NoStaleOverwrite, Fence!NoStaleOverwrite, Fence!Spec, FenceSound

(* A taken-over execution gets at most one more write through              *)
(* (OneLateCommitAtMost): it commits late only what had passed the fence.  *)
THEOREM LateCommitsEnd == Fence!Spec => OneLateCommitAtMost
<1>1. LateIsOver =>
        \A p \in Process : \A o \in Owner :
          Fence!Commits(p, o) /\ Fence!TakenOver(o) => o \notin late
  BY DEF LateIsOver, Fence!Commits, Fence!Author
<1> QED BY <1>1, FenceSoundHolds, PTL
        DEF OneLateCommitAtMost, Fence!OneLateCommitAtMost, Fence!Spec, FenceSound
=============================================================================
