------------------------- MODULE ScheduleEngineProofs -------------------------
(***************************************************************************)
(* Theorems about the schedule engine for every set of entries, keys,      *)
(* operations and callers, every number of crashes and every retry policy, *)
(* as long as each engine has one caller and no lock row lapses under a    *)
(* live holder.  Both are needed: the engine's depth counter lets a second *)
(* caller of the same engine in without the row, and a holder is not told  *)
(* of a lapse.                                                             *)
(***************************************************************************)
EXTENDS ScheduleEngine, FiniteSetTheorems, TLAPS

(* The hypotheses of the theorems. *)
OneCallerEach == \A c, d \in Caller : EngineOf[c] = EngineOf[d] => c = d
NoLiveLapse   == MaxLapses = 0

-----------------------------------------------------------------------------
(* Types *)

Places    == {"idle", "enter", "wait", "work", "save", "leave", "next", "running", "history"}
Sections  == {"select", "apply", "escalate", "edit"}
Telling   == {"unborn", "open", "live", "paused", "removed", "twin"}
Operation == {"none", "tick", "manual", "manual_escalate"} \cup Edits
Named     == Entry \cup {None}
Moment    == 0 .. MaxTime
Table     == [Entry -> Row \cup {Gone}]

JobRecord == [op : Operation, at : {"none"} \cup Sections, entry : Named, source : Named,
              todo : SUBSET Entry, out : {"none", "ok", "transient", "failed"}, when : Moment,
              applied : BOOLEAN, owns : BOOLEAN]

Typed ==
  /\ rows \in Table /\ mem \in [Engine -> Table]
  /\ lock \in Caller \cup {Orphan, None} /\ depth \in [Engine -> Nat]
  /\ pc \in [Caller -> Places] /\ job \in [Caller -> JobRecord]
  /\ now \in 1 .. MaxTime /\ lapses \in Nat
  /\ history \in [Entry -> Nat] /\ told \in [Entry -> Telling]

LEMMA Constants ==
  /\ MaxTime \in Nat \ {0} /\ MaxAttempts \in Nat /\ Breaker \in Nat \ {0}
  /\ None \notin Entry /\ None \notin Caller /\ Orphan \notin Caller /\ None # Orphan
  /\ Ticker \in Caller /\ IsFiniteSet(Caller)
  /\ \A x \in Entry : Target[x] \in Named
  /\ \A c \in Caller : EngineOf[c] \in Engine
BY ScheduleAssumption DEF ScheduleAssumption, Engine, Named

(* A caller that goes on leaves the other callers where they are. *)
LEMMA Going ==
  ASSUME Typed, NEW c \in Caller, NEW where \in Places, NEW j \in JobRecord, Goto(c, where, j)
  PROVE  /\ pc' \in [Caller -> Places] /\ job' \in [Caller -> JobRecord]
         /\ pc'[c] = where /\ job'[c] = j
         /\ \A d \in Caller \ {c} : pc'[d] = pc[d] /\ job'[d] = job[d]
BY DEF Typed, Goto

(* The changes that the steps make to a job. *)
LEMMA Claiming ==
  ASSUME NEW r \in JobRecord, NEW b \in BOOLEAN
  PROVE  LET q == [r EXCEPT !.owns = b]
         IN  /\ q \in JobRecord /\ q.owns = b
             /\ q.op = r.op /\ q.at = r.at /\ q.entry = r.entry /\ q.source = r.source
             /\ q.out = r.out /\ q.when = r.when /\ q.applied = r.applied
BY DEF JobRecord

LEMMA Listing ==
  ASSUME NEW r \in JobRecord, NEW S \in SUBSET Entry
  PROVE  LET q == [r EXCEPT !.todo = S]
         IN  /\ q \in JobRecord
             /\ q.op = r.op /\ q.at = r.at /\ q.entry = r.entry /\ q.source = r.source
             /\ q.out = r.out /\ q.when = r.when /\ q.applied = r.applied /\ q.owns = r.owns
BY DEF JobRecord

LEMMA Applying ==
  ASSUME NEW r \in JobRecord, NEW b \in BOOLEAN
  PROVE  LET q == [r EXCEPT !.applied = b]
         IN  /\ q \in JobRecord /\ q.applied = b
             /\ q.op = r.op /\ q.at = r.at /\ q.entry = r.entry /\ q.source = r.source
             /\ q.out = r.out /\ q.when = r.when /\ q.owns = r.owns
BY DEF JobRecord

LEMMA Stamping ==
  ASSUME NEW r \in JobRecord, NEW t \in Moment
  PROVE  LET q == [r EXCEPT !.applied = TRUE, !.when = t]
         IN  /\ q \in JobRecord /\ q.applied = TRUE /\ q.when = t
             /\ q.op = r.op /\ q.at = r.at /\ q.entry = r.entry /\ q.source = r.source
             /\ q.out = r.out /\ q.owns = r.owns
BY DEF JobRecord

LEMMA Returning ==
  ASSUME NEW r \in JobRecord, NEW x \in Named
  PROVE  LET q == [r EXCEPT !.entry = x, !.source = None]
         IN  /\ q \in JobRecord /\ q.entry = x /\ q.source = None
             /\ q.op = r.op /\ q.at = r.at /\ q.out = r.out /\ q.when = r.when
             /\ q.applied = r.applied /\ q.owns = r.owns
BY DEF JobRecord, Named

LEMMA Asking ==
  ASSUME NEW r \in JobRecord
  PROVE  LET q == [r EXCEPT !.at = "escalate"]
         IN  /\ q \in JobRecord /\ q.at = "escalate"
             /\ q.op = r.op /\ q.entry = r.entry /\ q.source = r.source
             /\ q.out = r.out /\ q.when = r.when /\ q.applied = r.applied /\ q.owns = r.owns
BY DEF JobRecord, Sections

Sent(r, x, y) == [r EXCEPT !.at = "select", !.entry = y, !.source = x]

LEMMA Sending ==
  ASSUME NEW r \in JobRecord, NEW x \in Named, NEW y \in Named
  PROVE  LET q == Sent(r, x, y)
         IN  /\ q \in JobRecord /\ q.at = "select" /\ q.entry = y /\ q.source = x
             /\ q.op = r.op /\ q.out = r.out /\ q.when = r.when
             /\ q.applied = r.applied /\ q.owns = r.owns
BY DEF JobRecord, Sections, Sent

Picked(r, x) == [r EXCEPT !.entry = x, !.todo = @ \ {x}]

LEMMA Picking ==
  ASSUME NEW r \in JobRecord, NEW x \in Named
  PROVE  LET q == Picked(r, x)
         IN  /\ q \in JobRecord /\ q.entry = x
             /\ q.op = r.op /\ q.at = r.at /\ q.source = r.source /\ q.out = r.out
             /\ q.when = r.when /\ q.applied = r.applied /\ q.owns = r.owns
BY DEF JobRecord, Picked

LEMMA Ending ==
  ASSUME NEW r \in JobRecord, NEW out \in {"ok", "transient", "failed"}
  PROVE  LET q == [r EXCEPT !.at = "apply", !.out = out]
         IN  /\ q \in JobRecord /\ q.at = "apply" /\ q.out = out
             /\ q.op = r.op /\ q.entry = r.entry /\ q.source = r.source
             /\ q.when = r.when /\ q.applied = r.applied /\ q.owns = r.owns
BY DEF JobRecord, Sections

LEMMA Idle == NoJob \in JobRecord
BY Constants DEF NoJob, JobRecord, Operation, Named, Moment

LEMMA Ticking ==
  LET q == [NoJob EXCEPT !.op = "tick", !.at = "select"]
  IN  q \in JobRecord /\ q.op = "tick" /\ q.at = "select" /\ q.source = None
BY Idle DEF NoJob, JobRecord, Operation, Sections

Begun(op, at, x) == [NoJob EXCEPT !.op = op, !.at = at, !.entry = x]

LEMMA Begins ==
  ASSUME NEW op \in Operation, NEW at \in Sections, NEW x \in Named
  PROVE  LET q == Begun(op, at, x)
         IN  /\ q \in JobRecord /\ q.op = op /\ q.at = at /\ q.entry = x
             /\ q.source = None /\ ~q.applied
BY Idle DEF NoJob, JobRecord, Begun

(* What a run and what an edit make of the rows. *)
LEMMA AppliedRow ==
  ASSUME now \in 1 .. MaxTime, NEW x \in Entry, NEW r \in Row, NEW out, NEW keep \in BOOLEAN
  PROVE  LET q == Applied(x, r, out, keep)
         IN  q \in Row /\ q # Gone /\ q.runs = r.runs + 1 /\ q.escAt = r.escAt
<1> DEFINE again == out = "transient" /\ r.retry < MaxAttempts
           fails == IF out = "ok" THEN 0
                    ELSE IF r.fails < Breaker THEN r.fails + 1 ELSE Breaker
           enabled == (keep => r.enabled) /\ ~(Target[x] # None /\ fails = Breaker)
           retry == IF again THEN r.retry + 1 ELSE 0
           retryAt == IF again THEN now + 1 ELSE 0
           next == now + 1
           runs == r.runs + 1
           q == [r EXCEPT !.enabled = enabled, !.next = next, !.retry = retry,
                          !.retryAt = retryAt, !.fails = fails, !.runs = runs]
<1>1. /\ r.enabled \in BOOLEAN /\ r.retry \in 0 .. MaxAttempts /\ r.fails \in 0 .. Breaker
      /\ r.runs \in Nat
  BY DEF Row
<1>2. MaxTime \in Nat /\ MaxAttempts \in Nat /\ Breaker \in Nat
  BY Constants
<1>3. fails \in 0 .. Breaker
  BY <1>1, <1>2
<1>4. retry \in 0 .. MaxAttempts
  BY <1>1, <1>2
<1>5. retryAt \in 0 .. (MaxTime + 1) /\ next \in 1 .. (MaxTime + 1) /\ runs \in Nat
  BY <1>1, <1>2
<1>6. enabled \in BOOLEAN
  OBVIOUS
<1>7. q = Applied(x, r, out, keep)
  BY DEF Applied
<1> HIDE DEF enabled, next, retry, retryAt, fails, runs
<1>8. q \in Row /\ q.runs = runs /\ q.escAt = r.escAt /\ q.next = next
  BY <1>3, <1>4, <1>5, <1>6 DEF Row
<1> HIDE DEF q
<1>9. q # Gone
  BY <1>5, <1>8 DEF Gone, Row
<1> QED BY <1>7, <1>8, <1>9 DEF runs

LEMMA FreshIsRow ==
  ASSUME NEW t \in 1 .. MaxTime
  PROVE  LET q == FreshRow(t) IN q \in Row /\ q # Gone /\ q.runs = 0 /\ q.escAt = 0
<1>1. t + 1 \in 1 .. (MaxTime + 1) /\ MaxTime \in Nat /\ MaxAttempts \in Nat /\ Breaker \in Nat
  BY Constants
<1>2. FreshRow(t) \in Row /\ FreshRow(t).runs = 0 /\ FreshRow(t).escAt = 0
  BY <1>1 DEF FreshRow, Row
<1>3. FreshRow(t).next = t + 1 /\ Gone.next = 0
  BY DEF FreshRow, Gone
<1>4. FreshRow(t) # Gone
  BY <1>1, <1>3
<1> QED BY <1>2, <1>4

LEMMA NoRowIsGone == \A r \in Row : r # Gone
BY DEF Row, Gone

LEMMA ResumedRow ==
  ASSUME now \in 1 .. MaxTime, NEW r \in Row
  PROVE  LET q == [r EXCEPT !.enabled = TRUE, !.next = now + 1, !.retry = 0, !.retryAt = 0]
         IN  q \in Row /\ q.runs = r.runs /\ q.escAt = r.escAt
<1> DEFINE next == now + 1
<1>1. next \in 1 .. (MaxTime + 1) /\ 0 \in 0 .. MaxAttempts /\ 0 \in 0 .. (MaxTime + 1)
  BY Constants
<1> HIDE DEF next
<1> DEFINE q == [r EXCEPT !.enabled = TRUE, !.next = next, !.retry = 0, !.retryAt = 0]
<1>2. q \in Row /\ q.runs = r.runs /\ q.escAt = r.escAt
  BY <1>1 DEF Row
<1> QED BY <1>2 DEF next

(* An edit leaves the other rows alone, removes or adds no row that it is   *)
(* not asked to, and adds none whose replay key is taken.                   *)
EditGives(op, x, T, U) ==
  /\ U \in Table
  /\ \A y \in Entry \ {x} : U[y] = T[y]
  /\ op = "remove" => U[x] = Gone
  /\ op \in {"pause", "resume"} =>
       \/ U[x] = Gone /\ T[x] = Gone
       \/ U[x] # Gone /\ T[x] # Gone /\ U[x].runs = T[x].runs /\ U[x].escAt = T[x].escAt
  /\ op = "add" =>
       \/ U[x] = T[x]
       \/ /\ T[x] = Gone /\ U[x] # Gone /\ U[x].runs = 0 /\ U[x].escAt = 0
          /\ \A y \in Entry : T[y] # Gone => KeyOf[y] # KeyOf[x]

LEMMA EditedTable ==
  ASSUME now \in 1 .. MaxTime, NEW op \in Edits, NEW x \in Entry, NEW T \in Table
  PROVE  EditGives(op, x, T, Edited(op, x, T))
<1> DEFINE U == Edited(op, x, T)
<1> SUFFICES EditGives(op, x, T, U)
  OBVIOUS
<1>0. T[x] \in Row \cup {Gone} /\ (T[x] # Gone => T[x] \in Row) /\ Gone \notin Row
  BY NoRowIsGone DEF Table
<1>1. CASE op # "add" /\ T[x] = Gone
  <2>1. U = T
    BY <1>1 DEF Edited
  <2> HIDE DEF U
  <2> QED BY <1>1, <2>1 DEF EditGives, Edits
<1>2. CASE op = "add"
  <2>1. CASE \E y \in Entry : T[y] # Gone /\ KeyOf[y] = KeyOf[x]
    <3>1. U = T
      BY <1>2, <2>1 DEF Edited
    <3> HIDE DEF U
    <3> QED BY <1>2, <3>1 DEF EditGives
  <2>2. CASE ~ \E y \in Entry : T[y] # Gone /\ KeyOf[y] = KeyOf[x]
    <3>1. U = [T EXCEPT ![x] = FreshRow(now)]
      BY <1>2, <2>2 DEF Edited
    <3>2. T[x] = Gone
      BY <2>2
    <3> HIDE DEF U
    <3> QED BY <1>2, <2>2, <3>1, <3>2, FreshIsRow DEF Table, EditGives
  <2> QED BY <2>1, <2>2
<1>3. CASE op = "remove" /\ T[x] # Gone
  <2>1. U = [T EXCEPT ![x] = Gone]
    BY <1>3 DEF Edited
  <2> HIDE DEF U
  <2> QED BY <1>3, <2>1 DEF Table, EditGives
<1>4. ASSUME NEW q \in Row, q.runs = T[x].runs, q.escAt = T[x].escAt, U = [T EXCEPT ![x] = q],
             op \in {"pause", "resume"}, T[x] # Gone
      PROVE  EditGives(op, x, T, U)
  <2> HIDE DEF U
  <2> QED BY <1>4, NoRowIsGone DEF Table, EditGives
<1>5. CASE op = "pause" /\ T[x] # Gone
  <2> DEFINE q == [T[x] EXCEPT !.enabled = FALSE]
  <2>1. q \in Row /\ q.runs = T[x].runs /\ q.escAt = T[x].escAt
    BY <1>0, <1>5 DEF Row
  <2>2. U = [T EXCEPT ![x] = q]
    BY <1>5 DEF Edited
  <2> HIDE DEF U, q
  <2> QED BY <1>4, <1>5, <2>1, <2>2
<1>6. CASE op = "resume" /\ T[x] # Gone
  <2>1. CASE T[x].enabled
    <3>1. U = T
      BY <1>6, <2>1 DEF Edited
    <3> HIDE DEF U
    <3> QED BY <1>6, <3>1 DEF EditGives
  <2>2. CASE ~T[x].enabled
    <3> DEFINE q == [T[x] EXCEPT !.enabled = TRUE, !.next = now + 1, !.retry = 0, !.retryAt = 0]
    <3>1. q \in Row /\ q.runs = T[x].runs /\ q.escAt = T[x].escAt
      BY <1>0, <1>6, ResumedRow
    <3>3. U = [T EXCEPT ![x] = q]
      BY <1>6, <2>2 DEF Edited
    <3> HIDE DEF U, q
    <3> QED BY <1>4, <1>6, <3>1, <3>3
  <2> QED BY <2>1, <2>2
<1> HIDE DEF U
<1> QED BY <1>1, <1>2, <1>3, <1>5, <1>6 DEF Edits

-----------------------------------------------------------------------------
(* The invariant *)

Section(c) == pc[c] \in {"work", "save", "leave"}
Busy(c)    == pc[c] \in {"enter", "wait", "work", "save", "leave"}

(* Under the lock row there is one caller, and only it has a depth. *)
Locked ==
  \A c \in Caller : /\ Section(c) => lock = c /\ job[c].owns
                    /\ depth[EngineOf[c]] = IF Section(c) THEN 1 ELSE 0

(* A job says what its caller is doing. *)
JobSound(c) ==
  /\ pc[c] = "idle" => job[c] = NoJob
  /\ pc[c] \in {"running", "history"} => job[c].entry \in Entry
  /\ pc[c] = "next" => job[c].op = "tick" /\ job[c].source = None
  /\ job[c].op \in Edits => Busy(c) /\ job[c].source = None
  /\ Busy(c) => /\ job[c].at \in Sections
                /\ job[c].at = "edit" <=> job[c].op \in Edits
                /\ job[c].at = "escalate" => job[c].source = None
                /\ (job[c].at = "select" => job[c].op # "tick" \/ job[c].source # None)
                     => job[c].entry \in Entry

(* The caller's copy of the table, until it is saved: the table on disk, but *)
(* for what the section makes of its entry.                                  *)
ToSave(c) ==
  LET x == job[c].entry  at == job[c].at  T == mem[EngineOf[c]]
  IN  /\ at \in {"apply", "escalate"} =>
           /\ \A y \in Entry \ {x} : T[y] = rows[y]
           /\ rows[x] # Gone /\ T[x] # Gone /\ job[c].applied
      /\ at = "apply" => T[x].runs = rows[x].runs + 1 /\ T[x].escAt = rows[x].escAt
      /\ at = "escalate" => /\ T[x].runs = rows[x].runs /\ T[x].escAt = job[c].when
                            /\ rows[x].escAt < job[c].when /\ Target[x] # None
      /\ at = "edit" => EditGives(job[c].op, x, rows, T)
      /\ at = "select" => T = rows

(* Once it is saved, and until the section is left. *)
Saved(c) ==
  LET x == job[c].entry
  IN  /\ mem[EngineOf[c]] = rows
      /\ job[c].op = "remove" => rows[x] = Gone
      /\ job[c].at = "escalate" /\ job[c].applied =>
           /\ rows[x] # Gone /\ rows[x].escAt = job[c].when /\ Target[x] # None
           /\ \A a \in alarms : a[1] = x => a[2] < job[c].when

Own(c) == JobSound(c) /\ (pc[c] = "save" => ToSave(c)) /\ (pc[c] = "leave" => Saved(c))

(* The caller has saved a run of its entry and not recorded it. *)
Owes(c) ==
  \/ pc[c] = "history"
  \/ Busy(c) /\ job[c].at = "escalate"
  \/ pc[c] = "leave" /\ job[c].at = "apply" /\ job[c].applied

(* A run that escalates is owed a record beside its target's. *)
MainIs(c, x) == job[c].source = x \/ (job[c].source = None /\ Owes(c) /\ job[c].entry = x)
SubIs(c, x)  == job[c].source # None /\ Owes(c) /\ job[c].entry = x
EditIs(c, x) == job[c].op \in Edits /\ job[c].entry = x
AddIs(c, x)  == job[c].op = "add" /\ job[c].entry = x

Mains(x) == {c \in Caller : MainIs(c, x)}
Subs(x)  == {c \in Caller : SubIs(c, x)}

(* What is recorded of an entry, and what is owed, has been saved. *)
HistoryOf(x) ==
  rows[x] # Gone => history[x] + Cardinality(Mains(x)) + Cardinality(Subs(x)) <= rows[x].runs

(* Nothing has happened yet to an entry that is still to be added. *)
Untouched(x) == /\ history[x] = 0 /\ Mains(x) = {} /\ Subs(x) = {}
                /\ \A a \in alarms : a[1] # x

NothingOf(x) ==
  rows[x] = Gone /\ (told[x] = "unborn" \/ \E c \in Caller : AddIs(c, x)) => Untouched(x)

(* A row remembers the last alarm about its entry. *)
AlarmsOf(x) == \A a \in alarms : a[1] = x /\ rows[x] # Gone => a[2] <= rows[x].escAt

(* The user knows whether there is a row. *)
ToldOf(x) == /\ told[x] = "removed" => rows[x] = Gone
             /\ told[x] \in {"live", "paused"} => rows[x] # Gone

EntrySound(x) == HistoryOf(x) /\ NothingOf(x) /\ AlarmsOf(x) /\ ToldOf(x)

(* An entry is edited by one user at a time, who is told afterwards. *)
EditsApart ==
  \A x \in Entry, c \in Caller :
    EditIs(c, x) => told[x] = "open" /\ \A d \in Caller \ {c} : ~EditIs(d, x)

Ledger == /\ \A x \in Entry : EntrySound(x)
          /\ \A a \in alarms : a[1] \in Entry /\ a[2] \in Nat
          /\ EditsApart /\ OneAlarmPerCooldown

Inv == Typed /\ Locked /\ (\A c \in Caller : Own(c)) /\ Ledger

-----------------------------------------------------------------------------
(* Steps of one caller *)

(* It is owed no more records than before, and edits nothing else. *)
Sheds(c) ==
  \A x \in Entry : /\ MainIs(c, x)' => MainIs(c, x)
                   /\ SubIs(c, x)' => SubIs(c, x)
                   /\ EditIs(c, x)' => EditIs(c, x)
                   /\ AddIs(c, x)' => AddIs(c, x)

(* The other callers stay where they are. *)
Alone(c) ==
  /\ pc' \in [Caller -> Places] /\ job' \in [Caller -> JobRecord]
  /\ \A d \in Caller \ {c} : pc'[d] = pc[d] /\ job'[d] = job[d]

LEMMA TheOthers ==
  ASSUME NEW c \in Caller, Alone(c), NEW d \in Caller \ {c}
  PROVE  /\ Sheds(d)
         /\ Section(d)' = Section(d) /\ Busy(d)' = Busy(d) /\ JobSound(d)' = JobSound(d)
         /\ \A x \in Entry : /\ MainIs(d, x)' = MainIs(d, x) /\ SubIs(d, x)' = SubIs(d, x)
                             /\ EditIs(d, x)' = EditIs(d, x) /\ AddIs(d, x)' = AddIs(d, x)
<1>1. pc'[d] = pc[d] /\ job'[d] = job[d]
  BY DEF Alone
<1>2. /\ Section(d)' = Section(d) /\ Busy(d)' = Busy(d)
      /\ \A x \in Entry : /\ MainIs(d, x)' = MainIs(d, x) /\ SubIs(d, x)' = SubIs(d, x)
                          /\ EditIs(d, x)' = EditIs(d, x) /\ AddIs(d, x)' = AddIs(d, x)
  BY <1>1 DEF Section, Busy, MainIs, SubIs, EditIs, AddIs, Owes
<1>3. JobSound(d)' = JobSound(d)
  BY <1>1, <1>2 DEF JobSound
<1> QED BY <1>2, <1>3 DEF Sheds

(* What others own is not disturbed by a caller that writes its own copy, or *)
(* that writes the table or sends alarms under the lock.                     *)
LEMMA OthersOwn ==
  ASSUME OneCallerEach, Inv, NEW c \in Caller, Alone(c),
         \A e \in Engine \ {EngineOf[c]} : mem'[e] = mem[e],
         Section(c) \/ UNCHANGED <<rows, alarms>>
  PROVE  \A d \in Caller \ {c} : Own(d)'
<1> SUFFICES ASSUME NEW d \in Caller \ {c} PROVE Own(d)'
  OBVIOUS
<1>1. pc'[d] = pc[d] /\ job'[d] = job[d] /\ JobSound(d)'
  BY TheOthers DEF Alone, Inv, Own
<1>2. mem'[EngineOf[d]] = mem[EngineOf[d]]
  BY Constants DEF OneCallerEach
<1>3. CASE ~Section(d)
  BY <1>1, <1>3 DEF Own, Section
<1>4. CASE Section(d)
  <2>1. UNCHANGED <<rows, alarms>>
    BY <1>4 DEF Inv, Locked
  <2>2. Own(d)
    BY DEF Inv
  <2>3. ToSave(d)' = ToSave(d) /\ Saved(d)' = Saved(d)
    BY <1>1, <1>2, <2>1 DEF ToSave, Saved, EditGives
  <2> QED BY <1>1, <2>2, <2>3 DEF Own
<1> QED BY <1>3, <1>4

LEMMA Counting ==
  ASSUME NEW S \in SUBSET Caller, NEW T \in SUBSET Caller
  PROVE  /\ Cardinality(S) \in Nat /\ Cardinality(T) \in Nat
         /\ T \subseteq S => Cardinality(T) <= Cardinality(S)
         /\ \A x : T \subseteq S \cup {x} => Cardinality(T) <= Cardinality(S) + 1
         /\ \A x \in S : T \subseteq S \ {x} => Cardinality(T) + 1 <= Cardinality(S)
<1>1. IsFiniteSet(S) /\ IsFiniteSet(T) /\ Cardinality(S) \in Nat /\ Cardinality(T) \in Nat
  BY Constants, FS_Subset, FS_CardinalityType
<1>2. ASSUME NEW x, T \subseteq S \cup {x}
      PROVE  Cardinality(T) <= Cardinality(S) + 1
  <2>0. /\ IsFiniteSet(S \cup {x})
        /\ Cardinality(S \cup {x}) = IF x \in S THEN Cardinality(S) ELSE Cardinality(S) + 1
    BY <1>1, FS_AddElement, Zenon
  <2>1. /\ IsFiniteSet(S \cup {x}) /\ Cardinality(S \cup {x}) \in Nat
        /\ Cardinality(S \cup {x}) <= Cardinality(S) + 1
    BY <1>1, <2>0
  <2>2. Cardinality(T) <= Cardinality(S \cup {x})
    BY <1>2, <2>1, FS_Subset
  <2> QED BY <1>1, <2>1, <2>2
<1>3. ASSUME NEW x \in S, T \subseteq S \ {x}
      PROVE  Cardinality(T) + 1 <= Cardinality(S)
  <2>1. /\ IsFiniteSet(S \ {x}) /\ Cardinality(S \ {x}) = Cardinality(S) - 1
        /\ Cardinality(S \ {x}) \in Nat
    BY <1>1, FS_RemoveElement, FS_CardinalityType
  <2>2. Cardinality(T) <= Cardinality(S \ {x})
    BY <1>3, <2>1, FS_Subset
  <2> QED BY <1>1, <2>1, <2>2
<1> QED BY <1>1, <1>2, <1>3, FS_Subset

(* An entry whose row, records and alarms stay as they are. *)
Kept(x) ==
  /\ rows'[x] = rows[x] /\ history'[x] = history[x] /\ told'[x] = told[x]
  /\ \A a \in alarms' : a[1] = x => a \in alarms
  /\ \A c \in Caller : /\ MainIs(c, x)' => MainIs(c, x)
                       /\ SubIs(c, x)' => SubIs(c, x)
                       /\ AddIs(c, x)' => AddIs(c, x)

LEMMA HistoryKept ==
  ASSUME Inv, NEW x \in Entry, rows'[x] = rows[x], history'[x] = history[x],
         \A c \in Caller : (MainIs(c, x)' => MainIs(c, x)) /\ (SubIs(c, x)' => SubIs(c, x))
  PROVE  Mains(x)' \subseteq Mains(x) /\ Subs(x)' \subseteq Subs(x) /\ HistoryOf(x)'
<1>1. EntrySound(x) /\ history[x] \in Nat
  BY DEF Inv, Ledger, Typed
<1>2. Mains(x)' \subseteq Mains(x) /\ Subs(x)' \subseteq Subs(x)
  BY DEF Mains, Subs
<1>3. HistoryOf(x)'
  <2> SUFFICES ASSUME rows[x] # Gone
               PROVE  history[x] + Cardinality(Mains(x))' + Cardinality(Subs(x))' <= rows[x].runs
    BY DEF HistoryOf
  <2>1. history[x] + Cardinality(Mains(x)) + Cardinality(Subs(x)) <= rows[x].runs
    BY <1>1 DEF EntrySound, HistoryOf
  <2>2. /\ Cardinality(Mains(x))' <= Cardinality(Mains(x)) /\ Cardinality(Mains(x)) \in Nat
        /\ Cardinality(Mains(x))' \in Nat
    BY <1>2, Counting DEF Mains
  <2>3. /\ Cardinality(Subs(x))' <= Cardinality(Subs(x)) /\ Cardinality(Subs(x)) \in Nat
        /\ Cardinality(Subs(x))' \in Nat
    BY <1>2, Counting DEF Subs
  <2>4. rows[x].runs \in Nat
    BY DEF Inv, Typed, Table, Row
  <2> QED BY <1>1, <2>1, <2>2, <2>3, <2>4
<1> QED BY <1>2, <1>3

LEMMA EntryKept ==
  ASSUME Inv, NEW x \in Entry, Kept(x)
  PROVE  EntrySound(x)'
<1>1. EntrySound(x)
  BY DEF Inv, Ledger
<1>2. Mains(x)' \subseteq Mains(x) /\ Subs(x)' \subseteq Subs(x) /\ HistoryOf(x)'
  BY HistoryKept DEF Kept
<1>3. NothingOf(x)'
  BY <1>1, <1>2 DEF EntrySound, NothingOf, Untouched, Kept
<1>4. AlarmsOf(x)' /\ ToldOf(x)'
  BY <1>1 DEF EntrySound, AlarmsOf, ToldOf, Kept
<1> QED BY <1>2, <1>3, <1>4 DEF EntrySound

LEMMA LedgerKept ==
  ASSUME Inv, \A c \in Caller : Sheds(c), UNCHANGED <<rows, history, told, alarms>>
  PROVE  Ledger'
<1>1. \A x \in Entry : EntrySound(x)'
  BY EntryKept DEF Kept, Sheds
<1>2. EditsApart' /\ OneAlarmPerCooldown' /\ \A a \in alarms' : a[1] \in Entry /\ a[2] \in Nat
  BY DEF Inv, Ledger, EditsApart, OneAlarmPerCooldown, Sheds
<1> QED BY <1>1, <1>2 DEF Ledger

(* Steps outside a section *)

LEMMA OutsideStep ==
  ASSUME OneCallerEach, Inv, NEW c \in Caller, Alone(c), JobSound(c)', ~Section(c), ~Section(c)',
         UNCHANGED <<rows, lock, mem, depth, now, lapses, alarms>>,
         history' \in [Entry -> Nat], told' \in [Entry -> Telling], Ledger'
  PROVE  Inv'
<1>1. Typed'
  BY DEF Inv, Typed, Alone
<1>2. Locked'
  <2> SUFFICES ASSUME NEW d \in Caller
               PROVE  /\ Section(d)' => lock = d /\ job'[d].owns
                      /\ depth[EngineOf[d]] = IF Section(d)' THEN 1 ELSE 0
    BY DEF Locked
  <2>1. CASE d = c
    BY <2>1 DEF Inv, Locked
  <2>2. CASE d # c
    BY <2>2, TheOthers DEF Inv, Locked, Alone
  <2> QED BY <2>1, <2>2
<1>3. Own(c)'
  BY DEF Own, Section
<1>4. \A d \in Caller : Own(d)'
  BY <1>3, OthersOwn
<1> QED BY <1>1, <1>2, <1>4 DEF Inv

LEMMA QuietStep ==
  ASSUME OneCallerEach, Inv, NEW c \in Caller, Alone(c), JobSound(c)', Sheds(c),
         ~Section(c), ~Section(c)',
         UNCHANGED <<rows, lock, mem, depth, now, lapses, history, told, alarms>>
  PROVE  Inv'
<1>1. \A d \in Caller : Sheds(d)
  BY TheOthers
<1>2. Ledger'
  BY <1>1, LedgerKept
<1>3. history' \in [Entry -> Nat] /\ told' \in [Entry -> Telling]
  BY DEF Inv, Typed
<1> QED BY <1>2, <1>3, OutsideStep

LEMMA EnterStep ==
  ASSUME OneCallerEach, Inv, NEW c \in Caller, Enter(c)
  PROVE  Inv'
<1> DEFINE q == [job[c] EXCEPT !.owns = FALSE]
<1>1. /\ pc[c] = "enter" /\ ~Section(c) /\ depth[EngineOf[c]] = 0
      /\ job[c] \in JobRecord /\ JobSound(c)
  BY DEF Enter, Section, Inv, Locked, Typed, Own
<1>2. Goto(c, "wait", q)
  BY <1>1 DEF Enter
<1>3. /\ q \in JobRecord /\ q.op = job[c].op /\ q.at = job[c].at /\ q.entry = job[c].entry
      /\ q.source = job[c].source
  BY <1>1, Claiming
<1> HIDE DEF q
<1>4. Alone(c) /\ pc'[c] = "wait" /\ job'[c] = q
  BY <1>2, <1>3, Going DEF Inv, Alone, Places
<1>5. ~Section(c)' /\ Busy(c) /\ Busy(c)'
  BY <1>1, <1>4 DEF Section, Busy
<1>6. JobSound(c)'
  BY <1>1, <1>3, <1>4, <1>5 DEF JobSound
<1>7. Sheds(c)
  BY <1>1, <1>3, <1>4, <1>5 DEF Sheds, MainIs, SubIs, EditIs, AddIs, Owes
<1> QED BY <1>1, <1>4, <1>5, <1>6, <1>7, QuietStep DEF Enter, counters, ghosts

(* A caller without a job owes and edits nothing. *)
LEMMA NoJobSheds ==
  ASSUME NEW c \in Caller, pc'[c] = "idle", job'[c] = NoJob
  PROVE  JobSound(c)' /\ Sheds(c) /\ ~Section(c)' /\ ~Busy(c)'
<1>1. ~Busy(c)' /\ ~Section(c)' /\ ~Owes(c)'
  BY DEF Busy, Section, Owes
<1>2. NoJob.op = "none" /\ NoJob.source = None /\ "none" \notin Edits /\ "add" \in Edits
  BY DEF NoJob, Edits
<1>3. JobSound(c)'
  BY <1>1, <1>2 DEF JobSound
<1>4. Sheds(c)
  BY <1>1, <1>2, Constants DEF Sheds, MainIs, SubIs, EditIs, AddIs
<1> QED BY <1>1, <1>3, <1>4

LEMMA GiveUpStep ==
  ASSUME OneCallerEach, Inv, NEW c \in Caller, GiveUp(c)
  PROVE  Inv'
<1>1. ~Section(c)
  BY DEF GiveUp, Section
<1>2. Alone(c) /\ pc'[c] = "idle" /\ job'[c] = NoJob
  BY Going, Idle DEF GiveUp, Inv, Alone, Places
<1> QED BY <1>1, <1>2, NoJobSheds, QuietStep DEF GiveUp, counters, ghosts

(* A job that begins owes nothing. *)
LEMMA JobBegins ==
  ASSUME Inv, NEW c \in Caller, pc[c] = "idle", NEW j \in JobRecord, Goto(c, "enter", j),
         j.at \in {"select", "edit"}, j.source = None,
         j.at = "edit" <=> j.op \in Edits, j.op # "tick" => j.entry \in Entry
  PROVE  /\ Alone(c) /\ JobSound(c)' /\ ~Section(c) /\ ~Section(c)'
         /\ \A x \in Entry : /\ ~MainIs(c, x)' /\ ~SubIs(c, x)'
                             /\ EditIs(c, x)' => j.op \in Edits /\ j.entry = x
                             /\ AddIs(c, x)' => j.op = "add" /\ j.entry = x
<1>1. Alone(c) /\ pc'[c] = "enter" /\ job'[c] = j
  BY Going DEF Inv, Alone, Places
<1>2. ~Section(c) /\ ~Section(c)' /\ Busy(c)' /\ ~Owes(c)'
  BY <1>1 DEF Section, Busy, Owes
<1>3. JobSound(c)'
  BY <1>1, <1>2 DEF JobSound, Sections, Edits
<1> QED BY <1>1, <1>2, <1>3, Constants DEF MainIs, SubIs, EditIs, AddIs

LEMMA BeginTickStep ==
  ASSUME OneCallerEach, Inv, NEW c \in Caller, BeginTick(c)
  PROVE  Inv'
<1> DEFINE q == [NoJob EXCEPT !.op = "tick", !.at = "select"]
<1>1. q \in JobRecord /\ q.op = "tick" /\ q.at = "select" /\ q.source = None
  BY Ticking
<1>2. pc[c] = "idle" /\ Goto(c, "enter", q)
  BY DEF BeginTick
<1> HIDE DEF q
<1>3. "tick" \notin Edits /\ "add" \in Edits
  BY DEF Edits
<1>4. Alone(c) /\ JobSound(c)' /\ ~Section(c) /\ ~Section(c)' /\ Sheds(c)
  BY <1>1, <1>2, <1>3, JobBegins DEF Sheds
<1> QED BY <1>4, QuietStep DEF BeginTick, counters, ghosts

LEMMA BeginManualStep ==
  ASSUME OneCallerEach, Inv, NEW c \in Caller, NEW op \in Ops, NEW x \in Entry,
         BeginManual(c, op, x)
  PROVE  Inv'
<1> DEFINE q == Begun(op, "select", x)
<1>0. op \in {"manual", "manual_escalate"} /\ op \in Operation /\ op \notin Edits
  BY DEF BeginManual, Operation, Edits
<1>1. q \in JobRecord /\ q.op = op /\ q.at = "select" /\ q.source = None /\ q.entry = x
  <2>1. "select" \in Sections /\ x \in Named
    BY DEF Sections, Named
  <2> QED BY <1>0, <2>1, Begins
<1>2. pc[c] = "idle" /\ Goto(c, "enter", q)
  BY DEF BeginManual, Begun
<1> HIDE DEF q
<1>3. "add" \in Edits
  BY DEF Edits
<1>4. Alone(c) /\ JobSound(c)' /\ ~Section(c) /\ ~Section(c)' /\ Sheds(c)
  BY <1>0, <1>1, <1>2, <1>3, JobBegins DEF Sheds
<1> QED BY <1>4, QuietStep DEF BeginManual, ghosts

(* The tick's list holds entries only. *)
LEMMA PickEntryStep ==
  ASSUME OneCallerEach, Inv, NEW c \in Caller, PickEntry(c)
  PROVE  Inv'
<1>1. pc[c] = "next" /\ job[c] \in JobRecord /\ job[c].source = None /\ job[c].op = "tick"
      /\ ~Section(c) /\ job[c].todo \in SUBSET Entry
  BY DEF PickEntry, Inv, Typed, Own, JobSound, Section, JobRecord
<1>2. CASE Goto(c, "idle", NoJob)
  <2>1. Alone(c) /\ pc'[c] = "idle" /\ job'[c] = NoJob
    BY <1>2, Going, Idle DEF Inv, Alone, Places
  <2> QED BY <1>1, <2>1, NoJobSheds, QuietStep DEF PickEntry, counters, ghosts
<1>3. ASSUME NEW x \in job[c].todo,
             Goto(c, "running", [job[c] EXCEPT !.entry = x, !.todo = @ \ {x}])
      PROVE  Inv'
  <2> DEFINE q == Picked(job[c], x)
  <2>1. Goto(c, "running", q)
    BY <1>3 DEF Picked
  <2>2. x \in Entry /\ x \in Named
    BY <1>1 DEF Named
  <2>3. q \in JobRecord /\ q.entry = x /\ q.op = job[c].op /\ q.source = job[c].source
    BY <1>1, <2>2, Picking
  <2> HIDE DEF q
  <2>4. Alone(c) /\ pc'[c] = "running" /\ job'[c] = q
    BY <2>1, <2>3, Going DEF Inv, Alone, Places
  <2>5. ~Section(c)' /\ ~Busy(c)' /\ ~Owes(c)' /\ "tick" \notin Edits /\ "add" \in Edits
    BY <2>4 DEF Section, Busy, Owes, Edits
  <2>6. JobSound(c)'
    BY <1>1, <2>2, <2>3, <2>4, <2>5 DEF JobSound
  <2>7. Sheds(c)
    BY <1>1, <2>3, <2>4, <2>5, Constants DEF Sheds, MainIs, SubIs, EditIs, AddIs
  <2> QED BY <1>1, <2>4, <2>5, <2>6, <2>7, QuietStep DEF PickEntry, counters, ghosts
<1> QED BY <1>2, <1>3 DEF PickEntry

LEMMA RunEndsStep ==
  ASSUME OneCallerEach, Inv, NEW c \in Caller, RunEnds(c)
  PROVE  Inv'
<1>1. pc[c] = "running" /\ job[c] \in JobRecord /\ ~Section(c) /\ ~Busy(c) /\ JobSound(c)
  BY DEF RunEnds, Inv, Typed, Own, Section, Busy
<1>2. PICK out \in {"ok", "transient", "failed"} :
        Goto(c, "enter", [job[c] EXCEPT !.at = "apply", !.out = out])
  BY DEF RunEnds
<1> DEFINE q == [job[c] EXCEPT !.at = "apply", !.out = out]
<1>3. /\ q \in JobRecord /\ q.at = "apply" /\ q.op = job[c].op /\ q.entry = job[c].entry
      /\ q.source = job[c].source
  BY <1>1, Ending
<1>4. Goto(c, "enter", q)
  BY <1>2
<1> HIDE DEF q
<1>5. Alone(c) /\ pc'[c] = "enter" /\ job'[c] = q
  BY <1>3, <1>4, Going DEF Inv, Alone, Places
<1>6. ~Section(c)' /\ Busy(c)' /\ ~Owes(c)' /\ q.op \notin Edits /\ q.entry \in Entry
  BY <1>1, <1>3, <1>5 DEF Section, Busy, Owes, JobSound
<1>7. JobSound(c)'
  BY <1>3, <1>5, <1>6 DEF JobSound, Sections
<1>8. Sheds(c)
  BY <1>3, <1>5, <1>6 DEF Sheds, MainIs, SubIs, EditIs, AddIs
<1> QED BY <1>1, <1>5, <1>6, <1>7, <1>8, QuietStep DEF RunEnds, counters, ghosts

(* Steps under the lock *)

(* A caller without the row has no depth; it takes both. *)
LEMMA AcquireStep ==
  ASSUME OneCallerEach, Inv, NEW c \in Caller, Acquire(c)
  PROVE  Inv'
<1> DEFINE q == [job[c] EXCEPT !.owns = TRUE]
<1>1. /\ pc[c] = "wait" /\ lock = None /\ job[c] \in JobRecord /\ JobSound(c)
      /\ \A d \in Caller : ~Section(d) /\ depth[EngineOf[d]] = 0
  BY Constants DEF Acquire, Inv, Locked, Typed, Own
<1>2. Goto(c, "work", q)
  BY DEF Acquire
<1>3. /\ q \in JobRecord /\ q.op = job[c].op /\ q.at = job[c].at /\ q.entry = job[c].entry
      /\ q.source = job[c].source /\ q.owns = TRUE
  BY <1>1, Claiming
<1> HIDE DEF q
<1>4. Alone(c) /\ pc'[c] = "work" /\ job'[c] = q
  BY <1>2, <1>3, Going DEF Inv, Alone, Places
<1>5. Section(c)' /\ Busy(c) /\ Busy(c)'
  BY <1>1, <1>4 DEF Section, Busy
<1>6. JobSound(c)'
  BY <1>1, <1>3, <1>4, <1>5 DEF JobSound
<1>7. Sheds(c)
  BY <1>1, <1>3, <1>4, <1>5 DEF Sheds, MainIs, SubIs, EditIs, AddIs, Owes
<1>8. UNCHANGED <<rows, mem, now, lapses, history, told, alarms>>
  BY DEF Acquire, counters, ghosts
<1>9. lock' = c /\ depth' = [depth EXCEPT ![EngineOf[c]] = @ + 1]
  BY DEF Acquire
<1>10. Typed'
  BY <1>4, <1>8, <1>9, Constants DEF Inv, Typed, Alone
<1>11. Locked'
  <2>1. depth'[EngineOf[c]] = 1
    BY <1>1, <1>9, Constants DEF Inv, Typed
  <2>2. ASSUME NEW d \in Caller \ {c}
        PROVE  ~Section(d)' /\ depth'[EngineOf[d]] = 0
    BY <1>1, <1>4, <1>9, TheOthers, Constants DEF Inv, Typed, OneCallerEach
  <2> QED BY <1>3, <1>4, <1>5, <1>9, <2>1, <2>2 DEF Locked
<1>12. \A d \in Caller : Own(d)'
  BY <1>4, <1>6, <1>8, OthersOwn DEF Own
<1>13. \A d \in Caller : Sheds(d)
  BY <1>4, <1>7, TheOthers
<1> QED BY <1>8, <1>10, <1>11, <1>12, <1>13, LedgerKept DEF Inv

(* A step inside the section. *)
LEMMA InSection ==
  ASSUME OneCallerEach, Inv, NEW c \in Caller, Alone(c), Section(c), Section(c)',
         job'[c].owns = job[c].owns, UNCHANGED <<lock, depth, now, lapses, history, told>>,
         rows' \in Table, mem' \in [Engine -> Table],
         \A e \in Engine \ {EngineOf[c]} : mem'[e] = mem[e],
         Own(c)', Ledger'
  PROVE  Inv'
<1>1. Typed'
  BY DEF Inv, Typed, Alone
<1>2. Locked'
  <2> SUFFICES ASSUME NEW d \in Caller
               PROVE  /\ Section(d)' => lock = d /\ job'[d].owns
                      /\ depth[EngineOf[d]] = IF Section(d)' THEN 1 ELSE 0
    BY DEF Locked
  <2>1. CASE d = c
    BY <2>1 DEF Inv, Locked
  <2>2. CASE d # c
    BY <2>2, TheOthers DEF Inv, Locked, Alone
  <2> QED BY <2>1, <2>2
<1>3. \A d \in Caller : Own(d)'
  BY OthersOwn
<1> QED BY <1>1, <1>2, <1>3 DEF Inv

(* The work of a section is done on the engine's copy. *)
LEMMA WorkStep ==
  ASSUME OneCallerEach, Inv, NEW c \in Caller, pc[c] = "work",
         NEW where \in {"save", "leave"}, NEW j \in JobRecord, Goto(c, where, j),
         j.op = job[c].op, j.at = job[c].at, j.entry = job[c].entry, j.source = job[c].source,
         j.owns = job[c].owns, where = "leave" /\ j.at = "apply" => ~j.applied,
         NEW T \in Table, Refresh(c, T), UNCHANGED <<rows, lock, depth, counters, ghosts>>,
         where = "save" => ToSave(c)', where = "leave" => Saved(c)'
  PROVE  Inv'
<1>1. Alone(c) /\ pc'[c] = where /\ job'[c] = j
  BY Going DEF Inv, Alone, Places
<1>2. Section(c) /\ Section(c)' /\ Busy(c) /\ Busy(c)'
  BY <1>1 DEF Section, Busy
<1>3. /\ mem' \in [Engine -> Table] /\ \A e \in Engine \ {EngineOf[c]} : mem'[e] = mem[e]
      /\ rows' \in Table
  BY DEF Refresh, Inv, Typed
<1>4. Own(c)'
  <2>1. JobSound(c)
    BY DEF Inv, Own
  <2>2. JobSound(c)'
    BY <1>1, <1>2, <2>1 DEF JobSound
  <2> QED BY <1>1, <2>2 DEF Own
<1>5. Sheds(c)
  BY <1>1, <1>2 DEF Sheds, MainIs, SubIs, EditIs, AddIs, Owes
<1>6. Ledger'
  BY <1>1, <1>5, TheOthers, LedgerKept DEF ghosts
<1> QED BY <1>1, <1>2, <1>3, <1>4, <1>6, InSection DEF counters, ghosts
LEMMA SelectStep ==
  ASSUME OneCallerEach, Inv, NEW c \in Caller, Select(c)
  PROVE  Inv'
<1>1. /\ pc[c] = "work" /\ job[c].at = "select" /\ job[c] \in JobRecord /\ rows \in Table
      /\ job[c].op \notin Edits /\ Refresh(c, rows)
      /\ UNCHANGED <<rows, lock, depth, counters, ghosts>>
  BY DEF Select, Inv, Typed, Own, JobSound, Busy
<1>2. mem'[EngineOf[c]] = rows'
  BY <1>1, Constants DEF Refresh, Inv, Typed
<1>3. ASSUME NEW where \in {"save", "leave"}, NEW j \in JobRecord, Goto(c, where, j),
             j.op = job[c].op, j.at = job[c].at, j.entry = job[c].entry,
             j.source = job[c].source, j.owns = job[c].owns
      PROVE  Inv'
  <2>1. job'[c] = j
    BY <1>3, Going DEF Inv, Places
  <2>2. ToSave(c)' /\ Saved(c)'
    BY <1>1, <1>2, <1>3, <2>1 DEF ToSave, Saved, Edits
  <2> QED BY <1>1, <1>3, <2>2, WorkStep
<1>4. CASE job[c].op = "tick" /\ job[c].source = None
  <2>1. PICK where \in {"save", "leave"} :
          Goto(c, where, [job[c] EXCEPT !.todo = {x \in Entry : Due(rows[x])}])
    BY <1>4 DEF Select
  <2> DEFINE S == {x \in Entry : Due(rows[x])}
             q == [job[c] EXCEPT !.todo = S]
  <2>2. S \in SUBSET Entry /\ Goto(c, where, q)
    BY <2>1
  <2> HIDE DEF S
  <2>3. /\ q \in JobRecord /\ q.op = job[c].op /\ q.at = job[c].at /\ q.entry = job[c].entry
        /\ q.source = job[c].source /\ q.owns = job[c].owns
    BY <1>1, <2>2, Listing
  <2> HIDE DEF q
  <2> QED BY <1>3, <2>2, <2>3
<1>5. CASE ~(job[c].op = "tick" /\ job[c].source = None)
  <2> DEFINE b == rows[job[c].entry] # Gone
             q == [job[c] EXCEPT !.applied = b]
  <2>1. b \in BOOLEAN /\ Goto(c, "leave", q)
    BY <1>5 DEF Select
  <2> HIDE DEF b
  <2>2. /\ q \in JobRecord /\ q.op = job[c].op /\ q.at = job[c].at /\ q.entry = job[c].entry
        /\ q.source = job[c].source /\ q.owns = job[c].owns
    BY <1>1, <2>1, Applying
  <2> HIDE DEF q
  <2> QED BY <1>3, <2>1, <2>2
<1> QED BY <1>4, <1>5

LEMMA ApplyStep ==
  ASSUME OneCallerEach, Inv, NEW c \in Caller, Apply(c)
  PROVE  Inv'
<1> DEFINE x == job[c].entry
           keep == job[c].op # "tick" /\ job[c].source = None
           row == Applied(x, rows[x], job[c].out, keep)
<1>1. /\ pc[c] = "work" /\ job[c].at = "apply" /\ job[c] \in JobRecord /\ rows \in Table
      /\ x \in Entry /\ job[c].op \notin Edits /\ keep \in BOOLEAN /\ now \in 1 .. MaxTime
      /\ UNCHANGED <<rows, lock, depth, counters, ghosts>>
  BY DEF Apply, Inv, Typed, Own, JobSound, Busy
<1>2. IF rows[x] = Gone
      THEN Refresh(c, rows) /\ Goto(c, "leave", [job[c] EXCEPT !.applied = FALSE])
      ELSE /\ Refresh(c, [rows EXCEPT ![x] = row])
           /\ Goto(c, "save", [job[c] EXCEPT !.applied = TRUE])
  BY DEF Apply
<1> HIDE DEF keep
<1>3. ASSUME NEW b \in BOOLEAN
      PROVE  LET q == [job[c] EXCEPT !.applied = b]
             IN  /\ q \in JobRecord /\ q.applied = b /\ q.op = job[c].op /\ q.at = job[c].at
                 /\ q.entry = job[c].entry /\ q.source = job[c].source /\ q.owns = job[c].owns
  BY <1>1, Applying
<1>4. CASE rows[x] = Gone
  <2> DEFINE q == [job[c] EXCEPT !.applied = FALSE]
  <2>1. Refresh(c, rows) /\ Goto(c, "leave", q)
    BY <1>2, <1>4
  <2>2. /\ q \in JobRecord /\ ~q.applied /\ q.op = job[c].op /\ q.at = job[c].at
        /\ q.entry = job[c].entry /\ q.source = job[c].source /\ q.owns = job[c].owns
    BY <1>3
  <2> HIDE DEF q
  <2>3. job'[c] = q /\ mem'[EngineOf[c]] = rows'
    BY <1>1, <2>1, <2>2, Going, Constants DEF Inv, Typed, Places, Refresh
  <2>4. Saved(c)'
    BY <1>1, <2>2, <2>3 DEF Saved, Edits
  <2> QED BY <1>1, <2>1, <2>2, <2>4, WorkStep
<1>5. CASE rows[x] # Gone
  <2> DEFINE q == [job[c] EXCEPT !.applied = TRUE]
             T == [rows EXCEPT ![x] = row]
  <2>1. Refresh(c, T) /\ Goto(c, "save", q)
    BY <1>2, <1>5
  <2>2. /\ q \in JobRecord /\ q.applied /\ q.op = job[c].op /\ q.at = job[c].at
        /\ q.entry = job[c].entry /\ q.source = job[c].source /\ q.owns = job[c].owns
    BY <1>3
  <2> HIDE DEF q
  <2>3. rows[x] \in Row
    BY <1>1, <1>5 DEF Table
  <2>4. row \in Row /\ row # Gone /\ row.runs = rows[x].runs + 1 /\ row.escAt = rows[x].escAt
    BY <1>1, <2>3, AppliedRow
  <2> HIDE DEF row
  <2>5. T \in Table /\ T[x] = row /\ \A y \in Entry \ {x} : T[y] = rows[y]
    BY <1>1, <2>4 DEF Table
  <2>6. job'[c] = q /\ mem'[EngineOf[c]] = T /\ rows' = rows
    BY <1>1, <2>1, <2>2, <2>5, Going, Constants DEF Inv, Typed, Places, Refresh
  <2> HIDE DEF T
  <2>7. ToSave(c)'
    BY <1>1, <1>5, <2>2, <2>4, <2>5, <2>6 DEF ToSave
  <2> QED BY <1>1, <2>1, <2>2, <2>5, <2>7, WorkStep
<1> QED BY <1>4, <1>5

LEMMA EscalateStep ==
  ASSUME OneCallerEach, Inv, NEW c \in Caller, Escalate(c)
  PROVE  Inv'
<1> DEFINE x == job[c].entry
<1>1. /\ pc[c] = "work" /\ job[c].at = "escalate" /\ job[c] \in JobRecord /\ rows \in Table
      /\ x \in Entry /\ job[c].op \notin Edits /\ now \in 1 .. MaxTime
      /\ UNCHANGED <<rows, lock, depth, counters, ghosts>>
  BY DEF Escalate, Inv, Typed, Own, JobSound, Busy
<1>2. IF MayEscalate(x, rows[x])
      THEN /\ Refresh(c, [rows EXCEPT ![x].escAt = now])
           /\ Goto(c, "save", [job[c] EXCEPT !.applied = TRUE, !.when = now])
      ELSE Refresh(c, rows) /\ Goto(c, "leave", [job[c] EXCEPT !.applied = FALSE])
  BY DEF Escalate
<1>4. CASE ~MayEscalate(x, rows[x])
  <2> DEFINE q == [job[c] EXCEPT !.applied = FALSE]
  <2>1. Refresh(c, rows) /\ Goto(c, "leave", q)
    BY <1>2, <1>4
  <2>2. /\ q \in JobRecord /\ ~q.applied /\ q.op = job[c].op /\ q.at = job[c].at
        /\ q.entry = job[c].entry /\ q.source = job[c].source /\ q.owns = job[c].owns
    BY <1>1, Applying
  <2> HIDE DEF q
  <2>3. job'[c] = q /\ mem'[EngineOf[c]] = rows'
    BY <1>1, <2>1, <2>2, Going, Constants DEF Inv, Typed, Places, Refresh
  <2>4. Saved(c)'
    BY <1>1, <2>2, <2>3 DEF Saved, Edits
  <2> QED BY <1>1, <2>1, <2>2, <2>4, WorkStep
<1>5. CASE MayEscalate(x, rows[x])
  <2> DEFINE q == [job[c] EXCEPT !.applied = TRUE, !.when = now]
             row == [rows[x] EXCEPT !.escAt = now]
             T == [rows EXCEPT ![x] = row]
  <2>1. Refresh(c, T) /\ Goto(c, "save", q)
    BY <1>2, <1>5
  <2>2. now \in Moment /\ now > 0
    BY <1>1, Constants DEF Moment
  <2>3. /\ q \in JobRecord /\ q.applied /\ q.when = now /\ q.op = job[c].op
        /\ q.at = job[c].at /\ q.entry = job[c].entry /\ q.source = job[c].source
        /\ q.owns = job[c].owns
    BY <1>1, <2>2, Stamping
  <2> HIDE DEF q
  <2>4. rows[x] \in Row /\ rows[x] # Gone /\ Target[x] # None
    BY <1>1, <1>5 DEF Table, MayEscalate
  <2>5. rows[x].escAt < now
    BY <1>5, <2>2 DEF MayEscalate
  <2>6. row \in Row /\ row # Gone /\ row.runs = rows[x].runs /\ row.escAt = now
    <3>1. row \in Row /\ row.runs = rows[x].runs /\ row.escAt = now
      BY <2>2, <2>4 DEF Row, Moment
    <3> QED BY <3>1, NoRowIsGone
  <2> HIDE DEF row
  <2>7. T \in Table /\ T[x] = row /\ \A y \in Entry \ {x} : T[y] = rows[y]
    BY <1>1, <2>6 DEF Table
  <2>8. job'[c] = q /\ mem'[EngineOf[c]] = T /\ rows' = rows
    BY <1>1, <2>1, <2>3, <2>7, Going, Constants DEF Inv, Typed, Places, Refresh
  <2> HIDE DEF T
  <2>9. ToSave(c)'
    BY <1>1, <2>3, <2>4, <2>5, <2>6, <2>7, <2>8 DEF ToSave
  <2> QED BY <1>1, <2>1, <2>3, <2>7, <2>9, WorkStep
<1> QED BY <1>4, <1>5

LEMMA EditStep ==
  ASSUME OneCallerEach, Inv, NEW c \in Caller, Edit(c)
  PROVE  Inv'
<1> DEFINE x == job[c].entry
           op == job[c].op
           T == Edited(op, x, rows)
<1>1. /\ pc[c] = "work" /\ job[c].at = "edit" /\ job[c] \in JobRecord /\ rows \in Table
      /\ x \in Entry /\ op \in Edits /\ now \in 1 .. MaxTime
      /\ UNCHANGED <<rows, lock, depth, counters, ghosts>>
      /\ Refresh(c, T) /\ Goto(c, "save", job[c])
  BY DEF Edit, Inv, Typed, Own, JobSound, Busy
<1>2. EditGives(op, x, rows, T)
  BY <1>1, EditedTable
<1> HIDE DEF T
<1>3. T \in Table
  BY <1>2 DEF EditGives
<1>4. job'[c] = job[c] /\ mem'[EngineOf[c]] = T /\ rows' = rows
  BY <1>1, <1>3, Going, Constants DEF Inv, Typed, Places, Refresh
<1>5. ToSave(c)'
  BY <1>1, <1>2, <1>4 DEF ToSave, EditGives
<1> QED BY <1>1, <1>3, <1>5, WorkStep
(* What a save makes of the entry of the section. *)
LEMMA SavedEntry ==
  ASSUME Inv, NEW c \in Caller, NEW x \in Entry, job[c].entry = x, ToSave(c),
         job[c].at \in {"apply", "escalate", "edit"}, rows' = mem[EngineOf[c]],
         UNCHANGED <<history, told, alarms>>, \A d \in Caller : EditIs(d, x)' => EditIs(d, x),
         \A d \in Caller : AddIs(d, x)' => AddIs(d, x),
         job[c].at = "edit" => EditIs(c, x) /\ (AddIs(c, x) <=> job[c].op = "add"),
         IF job[c].at = "apply"
         THEN \/ Mains(x)' \subseteq Mains(x) \cup {c} /\ Subs(x)' \subseteq Subs(x)
              \/ Mains(x)' \subseteq Mains(x) /\ Subs(x)' \subseteq Subs(x) \cup {c}
         ELSE Mains(x)' \subseteq Mains(x) /\ Subs(x)' \subseteq Subs(x)
  PROVE  EntrySound(x)'
<1> DEFINE m == Cardinality(Mains(x))
           s == Cardinality(Subs(x))
           mm == Cardinality(Mains(x))'
           ss == Cardinality(Subs(x))'
<1>1. EntrySound(x) /\ history[x] \in Nat /\ rows[x] \in Row \cup {Gone}
  BY DEF Inv, Ledger, Typed, Table
<1>2. /\ m \in Nat /\ mm \in Nat /\ s \in Nat /\ ss \in Nat
      /\ Mains(x)' \subseteq Mains(x) => mm <= m
      /\ Subs(x)' \subseteq Subs(x) => ss <= s
      /\ Mains(x)' \subseteq Mains(x) \cup {c} => mm <= m + 1
      /\ Subs(x)' \subseteq Subs(x) \cup {c} => ss <= s + 1
  <2>1. Mains(x) \in SUBSET Caller /\ Mains(x)' \in SUBSET Caller
    BY DEF Mains
  <2>2. Subs(x) \in SUBSET Caller /\ Subs(x)' \in SUBSET Caller
    BY DEF Subs
  <2> QED BY <2>1, <2>2, Counting
<1>3. rows[x] # Gone => history[x] + m + s <= rows[x].runs /\ rows[x].runs \in Nat
  BY <1>1 DEF EntrySound, HistoryOf, Row
<1>4. \A a \in alarms : a[1] = x /\ rows[x] # Gone => a[2] <= rows[x].escAt
  BY <1>1 DEF EntrySound, AlarmsOf
<1>5. \A a \in alarms : a[2] \in Nat
  BY DEF Inv, Ledger
<1>6. CASE job[c].at = "apply"
  <2>1. /\ rows[x] # Gone /\ rows'[x] # Gone /\ rows'[x].runs = rows[x].runs + 1
        /\ rows'[x].escAt = rows[x].escAt
    BY <1>6 DEF ToSave
  <2>2. HistoryOf(x)'
    <3>1. mm + ss <= m + s + 1
      BY <1>2, <1>6
    <3>2. history[x] + mm + ss <= rows'[x].runs
      BY <1>1, <1>2, <1>3, <2>1, <3>1
    <3> QED BY <3>2 DEF HistoryOf
  <2> QED BY <1>1, <1>4, <2>1, <2>2 DEF EntrySound, NothingOf, AlarmsOf, ToldOf
<1>7. CASE job[c].at = "escalate"
  <2>1. /\ rows[x] # Gone /\ rows'[x] # Gone /\ rows'[x].runs = rows[x].runs
        /\ rows'[x].escAt = job[c].when /\ rows[x].escAt < job[c].when
    BY <1>7 DEF ToSave
  <2>2. rows[x].escAt \in Nat /\ job[c].when \in Nat
    <3>1. rows[x].escAt \in 0 .. MaxTime /\ job[c].when \in 0 .. MaxTime /\ MaxTime \in Nat
      BY <1>1, <2>1, Constants DEF Row, Inv, Typed, JobRecord, Moment
    <3> QED BY <3>1
  <2>3. history[x] + mm + ss <= rows'[x].runs
    BY <1>1, <1>2, <1>3, <1>7, <2>1
  <2>4. AlarmsOf(x)'
    <3> SUFFICES ASSUME NEW a \in alarms, a[1] = x PROVE a[2] <= rows'[x].escAt
      BY DEF AlarmsOf
    <3> QED BY <1>4, <1>5, <2>1, <2>2
  <2> QED BY <1>1, <2>1, <2>3, <2>4 DEF EntrySound, HistoryOf, NothingOf, ToldOf
<1>8. CASE job[c].at = "edit"
  <2>1. /\ EditGives(job[c].op, x, rows, rows') /\ EditIs(c, x)
        /\ told[x] = "open" /\ \A d \in Caller \ {c} : ~EditIs(d, x)
        /\ \A d \in Caller : AddIs(d, x)' => d = c /\ job[c].op = "add"
    <3>1. "add" \in Edits /\ \A d \in Caller : AddIs(d, x) => EditIs(d, x)
      BY DEF AddIs, EditIs, Edits
    <3> QED BY <1>8, <3>1 DEF ToSave, Inv, Ledger, EditsApart
  <2>2. CASE job[c].op = "add" /\ rows'[x] # rows[x]
    <3>1. rows[x] = Gone /\ rows'[x] # Gone /\ rows'[x].runs = 0
      BY <2>1, <2>2 DEF EditGives
    <3>2. AddIs(c, x)
      BY <1>8, <2>2
    <3>3. Untouched(x)
      BY <1>1, <3>1, <3>2 DEF EntrySound, NothingOf
    <3>4. m = 0 /\ s = 0 /\ history[x] = 0 /\ \A a \in alarms : a[1] # x
      BY <3>3, FS_EmptySet DEF Untouched
    <3>5. history[x] + mm + ss <= rows'[x].runs
      BY <1>2, <1>8, <3>1, <3>4
    <3> HIDE DEF m, s, mm, ss
    <3> QED BY <2>1, <3>1, <3>4, <3>5 DEF EntrySound, HistoryOf, NothingOf, AlarmsOf, ToldOf, mm, ss
  <2>3. CASE job[c].op # "add" /\ rows'[x] = Gone
    BY <2>1, <2>3 DEF EntrySound, HistoryOf, NothingOf, AlarmsOf, ToldOf
  <2>4. CASE /\ rows'[x] = Gone <=> rows[x] = Gone
             /\ rows[x] # Gone => rows'[x].runs = rows[x].runs /\ rows'[x].escAt = rows[x].escAt
             /\ job[c].op = "add" \/ rows[x] # Gone
    <3>1. HistoryOf(x)'
      <4>1. rows[x] # Gone => history[x] + mm + ss <= rows'[x].runs
        BY <1>1, <1>2, <1>3, <1>8, <2>4
      <4> QED BY <2>4, <4>1 DEF HistoryOf
    <3>2. NothingOf(x)'
      BY <1>1, <1>8, <2>1, <2>4 DEF EntrySound, NothingOf, Untouched
    <3>3. AlarmsOf(x)' /\ ToldOf(x)'
      BY <1>4, <2>1, <2>4 DEF AlarmsOf, ToldOf
    <3> QED BY <3>1, <3>2, <3>3 DEF EntrySound
  <2>5. job[c].op \in Edits
    BY <2>1 DEF EditIs
  <2> QED BY <2>1, <2>2, <2>3, <2>4, <2>5 DEF EditGives, Edits
<1> QED BY <1>6, <1>7, <1>8

LEMMA SaveStep ==
  ASSUME OneCallerEach, Inv, NEW c \in Caller, Save(c)
  PROVE  Inv'
<1> SUFFICES ASSUME NEW x, x = job[c].entry PROVE Inv'
  OBVIOUS
<1>1. /\ pc[c] = "save" /\ job[c] \in JobRecord /\ JobSound(c) /\ ToSave(c)
      /\ rows' = mem[EngineOf[c]] /\ mem' = mem /\ Goto(c, "leave", job[c])
      /\ UNCHANGED <<lock, depth, now, lapses, history, told, alarms>>
  BY DEF Save, Inv, Typed, Own, counters, ghosts
<1>2. Alone(c) /\ pc'[c] = "leave" /\ job'[c] = job[c]
  BY <1>1, Going DEF Inv, Alone, Places
<1>3. /\ Section(c) /\ Section(c)' /\ Busy(c) /\ Busy(c)'
      /\ job[c].at \in Sections
      /\ job[c].at # "select" => x \in Entry
  BY <1>1, <1>2 DEF Section, Busy, JobSound
<1>4. rows' \in Table /\ mem' \in [Engine -> Table]
  BY <1>1, Constants DEF Inv, Typed
<1>5. Own(c)'
  <2>1. JobSound(c)'
    BY <1>1, <1>2, <1>3 DEF JobSound
  <2>2. job[c].op = "remove" => rows'[x] = Gone
    <3>1. job[c].op = "remove" => job[c].at = "edit"
      BY <1>1, <1>3 DEF JobSound, Edits
    <3> QED BY <1>1, <3>1 DEF ToSave, EditGives
  <2>3. ASSUME job[c].at = "escalate"
        PROVE  /\ rows'[x] # Gone /\ rows'[x].escAt = job[c].when /\ Target[x] # None
               /\ \A a \in alarms : a[1] = x => a[2] < job[c].when
    <3>1. /\ rows'[x] # Gone /\ rows'[x].escAt = job[c].when /\ Target[x] # None
          /\ rows[x] # Gone /\ rows[x].escAt < job[c].when /\ x \in Entry
      BY <1>1, <1>3, <2>3 DEF ToSave
    <3>2. rows[x].escAt \in 0 .. MaxTime /\ job[c].when \in 0 .. MaxTime /\ MaxTime \in Nat
      BY <1>1, <3>1, Constants DEF Inv, Typed, Table, Row, JobRecord, Moment
    <3>3. \A a \in alarms : a[2] \in Nat /\ (a[1] = x => a[2] <= rows[x].escAt)
      BY <3>1 DEF Inv, Ledger, EntrySound, AlarmsOf
    <3> QED BY <3>1, <3>2, <3>3
  <2> QED BY <1>1, <1>2, <2>1, <2>2, <2>3 DEF Own, Saved
<1>6. \A y \in Entry : /\ EditIs(c, y)' => EditIs(c, y)
                       /\ AddIs(c, y)' => AddIs(c, y)
                       /\ y # x \/ job[c].at # "apply" \/ job[c].source # None => (MainIs(c, y)' => MainIs(c, y))
                       /\ y # x \/ job[c].at # "apply" \/ job[c].source = None => (SubIs(c, y)' => SubIs(c, y))
  BY <1>1, <1>2, <1>3 DEF EditIs, AddIs, MainIs, SubIs, Owes
<1>7. \A d \in Caller \ {c} : \A y \in Entry :
        /\ MainIs(d, y)' = MainIs(d, y) /\ SubIs(d, y)' = SubIs(d, y)
        /\ EditIs(d, y)' = EditIs(d, y) /\ AddIs(d, y)' = AddIs(d, y)
  BY <1>2, TheOthers
<1>8. Ledger'
  <2>1. CASE job[c].at = "select"
    <3>1. rows' = rows
      BY <1>1, <2>1 DEF ToSave
    <3>2. \A d \in Caller : Sheds(d)
      BY <1>6, <1>7, <2>1 DEF Sheds
    <3> QED BY <1>1, <3>1, <3>2, LedgerKept
  <2>2. CASE job[c].at # "select"
    <3>1. x \in Entry /\ \A y \in Entry \ {x} : rows'[y] = rows[y]
      BY <1>1, <1>3, <2>2 DEF ToSave, EditGives, Sections
    <3>2. \A y \in Entry \ {x} : EntrySound(y)'
      <4>1. \A y \in Entry \ {x} : Kept(y)
        BY <1>1, <1>6, <1>7, <3>1 DEF Kept
      <4> QED BY <4>1, EntryKept
    <3>3. EntrySound(x)'
      <4>1. \A d \in Caller : (EditIs(d, x)' => EditIs(d, x)) /\ (AddIs(d, x)' => AddIs(d, x))
        BY <1>6, <1>7, <3>1
      <4>2. job[c].at = "edit" => EditIs(c, x) /\ (AddIs(c, x) <=> job[c].op = "add")
        BY <1>1, <1>3 DEF EditIs, AddIs, JobSound
      <4>3. job[c].source # None \/ job[c].at # "apply" => Mains(x)' \subseteq Mains(x)
        BY <1>6, <1>7, <3>1 DEF Mains
      <4>4. job[c].source = None \/ job[c].at # "apply" => Subs(x)' \subseteq Subs(x)
        BY <1>6, <1>7, <3>1 DEF Subs
      <4>5. Mains(x)' \subseteq Mains(x) \cup {c} /\ Subs(x)' \subseteq Subs(x) \cup {c}
        BY <1>7, <3>1 DEF Mains, Subs
      <4> QED BY <1>1, <1>3, <2>2, <3>1, <4>1, <4>2, <4>3, <4>4, <4>5, SavedEntry DEF Sections
    <3>4. EditsApart'
      <4>1. \A y \in Entry, d \in Caller : EditIs(d, y)' => EditIs(d, y)
        BY <1>6, <1>7
      <4> QED BY <1>1, <4>1 DEF Inv, Ledger, EditsApart
    <3> QED BY <1>1, <3>2, <3>3, <3>4 DEF Inv, Ledger, OneAlarmPerCooldown
  <2> QED BY <2>1, <2>2
<1> QED BY <1>1, <1>2, <1>3, <1>4, <1>5, <1>8, InSection

(* Leaving a section gives back the row and the depth. *)
LEMMA LeavingStep ==
  ASSUME OneCallerEach, Inv, NEW c \in Caller, pc[c] = "leave", Release(c), Alone(c),
         ~Section(c)', JobSound(c)', UNCHANGED <<rows, mem, now, lapses>>,
         history' \in [Entry -> Nat], told' \in [Entry -> Telling], Ledger'
  PROVE  Inv'
<1>1. Section(c) /\ lock = c /\ job[c].owns /\ depth[EngineOf[c]] = 1
  BY DEF Section, Inv, Locked
<1>2. lock' = None /\ depth' = [depth EXCEPT ![EngineOf[c]] = 0]
  BY <1>1 DEF Release
<1>3. Typed'
  BY <1>2 DEF Inv, Typed, Alone
<1>4. Locked'
  <2>1. ~Section(c)' /\ depth'[EngineOf[c]] = 0
    BY <1>2, Constants DEF Inv, Typed
  <2>2. ASSUME NEW d \in Caller \ {c}
        PROVE  ~Section(d)' /\ depth'[EngineOf[d]] = 0
    <3>1. ~Section(d) /\ depth[EngineOf[d]] = 0
      BY <1>1 DEF Inv, Locked
    <3>2. ~Section(d)'
      BY <3>1, TheOthers
    <3>3. EngineOf[d] # EngineOf[c]
      BY DEF OneCallerEach
    <3> QED BY <1>2, <3>1, <3>2, <3>3, Constants DEF Inv, Typed
  <2> QED BY <2>1, <2>2 DEF Locked
<1>5. \A d \in Caller \ {c} : Own(d)'
  BY <1>1, OthersOwn
<1>6. Own(c)'
  BY DEF Own, Section
<1> QED BY <1>3, <1>4, <1>5, <1>6 DEF Inv

(* When what is owed does not grow and nobody is told anything. *)
LEMMA QuietLeave ==
  ASSUME OneCallerEach, Inv, NEW c \in Caller, pc[c] = "leave", Release(c),
         NEW where \in {"idle", "next", "running", "history", "enter"}, NEW j \in JobRecord,
         Goto(c, where, j), JobSound(c)', Sheds(c), UNCHANGED <<rows, mem, counters, ghosts>>
  PROVE  Inv'
<1>1. Alone(c) /\ ~Section(c)'
  <2>1. Alone(c) /\ pc'[c] = where
    BY Going DEF Inv, Alone, Places
  <2> QED BY <2>1 DEF Section
<1>2. \A d \in Caller : Sheds(d)
  BY <1>1, TheOthers
<1>3. Ledger'
  BY <1>2, LedgerKept DEF ghosts
<1>4. history' \in [Entry -> Nat] /\ told' \in [Entry -> Telling]
  BY DEF Inv, Typed, ghosts
<1> QED BY <1>1, <1>3, <1>4, LeavingStep DEF counters, ghosts

(* The operation is over, or the tick goes on with its list. *)
LEMMA DoneGoes ==
  ASSUME Inv, NEW c \in Caller, job[c].source = None, job[c].op \notin Edits, Done(c)
  PROVE  /\ JobSound(c)' /\ Sheds(c)
         /\ \E where \in {"idle", "next"}, j \in JobRecord : Goto(c, where, j)
<1>0. job[c] \in JobRecord
  BY DEF Inv, Typed
<1>1. CASE job[c].op = "tick"
  <2>1. Goto(c, "next", job[c])
    BY <1>1 DEF Done
  <2>2. pc'[c] = "next" /\ job'[c] = job[c]
    BY <1>0, <2>1, Going DEF Inv, Places
  <2>3. ~Busy(c)' /\ ~Owes(c)' /\ "add" \in Edits
    BY <2>2 DEF Busy, Owes, Edits
  <2>4. JobSound(c)'
    BY <1>1, <2>2, <2>3 DEF JobSound
  <2>5. Sheds(c)
    BY <2>2, <2>3, Constants DEF Sheds, MainIs, SubIs, EditIs, AddIs
  <2> QED BY <1>0, <2>1, <2>4, <2>5
<1>2. CASE job[c].op # "tick"
  <2>1. Goto(c, "idle", NoJob)
    BY <1>2 DEF Done
  <2>2. pc'[c] = "idle" /\ job'[c] = NoJob
    BY <2>1, Idle, Going DEF Inv, Places
  <2> QED BY <2>1, <2>2, Idle, NoJobSheds
<1> QED BY <1>1, <1>2

(* A run that escalated is owed the record of its own entry. *)
LEMMA ReturnGoes ==
  ASSUME Inv, NEW c \in Caller, job[c].source # None, job[c].op \notin Edits,
         Goto(c, "history", [job[c] EXCEPT !.entry = job[c].source, !.source = None])
  PROVE  /\ JobSound(c)' /\ Alone(c) /\ ~Section(c)'
         /\ \A y \in Entry : /\ MainIs(c, y)' => job[c].source = y
                             /\ ~SubIs(c, y)' /\ ~EditIs(c, y)' /\ ~AddIs(c, y)'
         /\ \E j \in JobRecord : Goto(c, "history", j)
<1> DEFINE q == [job[c] EXCEPT !.entry = job[c].source, !.source = None]
<1>1. job[c] \in JobRecord /\ job[c].source \in Named /\ job[c].source \in Entry
  BY DEF Inv, Typed, JobRecord, Named
<1>2. q \in JobRecord /\ q.entry = job[c].source /\ q.source = None /\ q.op = job[c].op
  BY <1>1, Returning
<1>3. Goto(c, "history", q)
  OBVIOUS
<1> HIDE DEF q
<1>4. Alone(c) /\ pc'[c] = "history" /\ job'[c] = q
  BY <1>2, <1>3, Going DEF Inv, Alone, Places
<1>5. ~Busy(c)' /\ ~Section(c)' /\ "add" \in Edits
  BY <1>4 DEF Busy, Section, Edits
<1>6. JobSound(c)'
  BY <1>1, <1>2, <1>4, <1>5 DEF JobSound
<1> QED BY <1>2, <1>3, <1>4, <1>5, <1>6, Constants DEF MainIs, SubIs, EditIs, AddIs

LEMMA LeaveSelectStep ==
  ASSUME OneCallerEach, Inv, NEW c \in Caller, LeaveSelect(c)
  PROVE  Inv'
<1>1. /\ pc[c] = "leave" /\ job[c].at = "select" /\ job[c] \in JobRecord /\ JobSound(c)
      /\ Release(c) /\ UNCHANGED <<rows, mem, counters, ghosts>> /\ job[c].op \notin Edits
      /\ (job[c].op # "tick" \/ job[c].source # None) => job[c].entry \in Entry
  BY DEF LeaveSelect, Inv, Typed, Own, JobSound, Busy
<1>2. CASE Goto(c, "running", job[c]) /\ job[c].entry \in Entry
  <2>1. pc'[c] = "running" /\ job'[c] = job[c]
    BY <1>1, <1>2, Going DEF Inv, Places
  <2>2. ~Busy(c)' /\ ~Owes(c)' /\ "add" \in Edits
    BY <2>1 DEF Busy, Owes, Edits
  <2>3. JobSound(c)'
    BY <1>1, <1>2, <2>1, <2>2 DEF JobSound
  <2>4. Sheds(c)
    BY <2>1, <2>2 DEF Sheds, MainIs, SubIs, EditIs, AddIs
  <2> QED BY <1>1, <1>2, <2>3, <2>4, QuietLeave
<1>3. CASE /\ Goto(c, "history", [job[c] EXCEPT !.entry = job[c].source, !.source = None])
           /\ job[c].source # None
  <2>1. /\ JobSound(c)' /\ \E j \in JobRecord : Goto(c, "history", j)
        /\ Sheds(c)
    BY <1>1, <1>3, ReturnGoes DEF Sheds, MainIs
  <2> QED BY <1>1, <2>1, QuietLeave
<1>4. CASE Done(c) /\ job[c].source = None
  BY <1>1, <1>4, DoneGoes, QuietLeave
<1>5. CASE Goto(c, "next", job[c]) /\ job[c].source = None /\ job[c].op = "tick"
  BY <1>4, <1>5 DEF Done
<1> QED BY <1>1, <1>2, <1>3, <1>4, <1>5 DEF LeaveSelect

LEMMA LeaveApplyStep ==
  ASSUME OneCallerEach, Inv, NEW c \in Caller, LeaveApply(c)
  PROVE  Inv'
<1> DEFINE asks == job[c].out # "ok" /\ job[c].source = None /\ job[c].op # "manual"
<1>1. /\ pc[c] = "leave" /\ job[c].at = "apply" /\ job[c] \in JobRecord /\ JobSound(c)
      /\ Release(c) /\ UNCHANGED <<rows, mem, counters, ghosts>> /\ job[c].op \notin Edits
      /\ job[c].entry \in Entry /\ job[c].applied \in BOOLEAN
  BY DEF LeaveApply, Inv, Typed, Own, JobSound, Busy, JobRecord
<1>2. CASE job[c].applied /\ asks
  <2> DEFINE q == [job[c] EXCEPT !.at = "escalate"]
  <2>1. Goto(c, "enter", q)
    BY <1>2 DEF LeaveApply
  <2>2. /\ q \in JobRecord /\ q.at = "escalate" /\ q.op = job[c].op /\ q.entry = job[c].entry
        /\ q.source = None
    BY <1>1, <1>2, Asking
  <2> HIDE DEF q
  <2>3. pc'[c] = "enter" /\ job'[c] = q
    BY <2>1, <2>2, Going DEF Inv, Places
  <2>4. Busy(c)' /\ Owes(c) /\ "add" \in Edits
    BY <1>1, <1>2, <2>3 DEF Busy, Owes, Edits
  <2>5. JobSound(c)'
    BY <1>1, <2>2, <2>3, <2>4 DEF JobSound, Sections
  <2>6. Sheds(c)
    BY <1>1, <1>2, <2>2, <2>3, <2>4, Constants DEF Sheds, MainIs, SubIs, EditIs, AddIs
  <2> QED BY <1>1, <2>1, <2>2, <2>5, <2>6, QuietLeave
<1>3. CASE job[c].applied /\ ~asks
  <2>1. Goto(c, "history", job[c])
    BY <1>3 DEF LeaveApply
  <2>2. pc'[c] = "history" /\ job'[c] = job[c]
    BY <1>1, <2>1, Going DEF Inv, Places
  <2>3. ~Busy(c)' /\ Owes(c) /\ "add" \in Edits
    BY <1>1, <1>3, <2>2 DEF Busy, Owes, Edits
  <2>4. JobSound(c)'
    BY <1>1, <2>2, <2>3 DEF JobSound
  <2>5. Sheds(c)
    BY <1>1, <2>2, <2>3 DEF Sheds, MainIs, SubIs, EditIs, AddIs
  <2> QED BY <1>1, <2>1, <2>4, <2>5, QuietLeave
<1>4. CASE ~job[c].applied /\ job[c].source # None
  <2>1. Goto(c, "history", [job[c] EXCEPT !.entry = job[c].source, !.source = None])
    BY <1>4 DEF LeaveApply
  <2>2. /\ JobSound(c)' /\ \E j \in JobRecord : Goto(c, "history", j)
        /\ Sheds(c)
    BY <1>1, <1>4, <2>1, ReturnGoes DEF Sheds, MainIs
  <2> QED BY <1>1, <2>2, QuietLeave
<1>5. CASE ~job[c].applied /\ job[c].source = None
  <2>1. Done(c)
    BY <1>5 DEF LeaveApply
  <2> QED BY <1>1, <1>5, <2>1, DoneGoes, QuietLeave
<1> QED BY <1>1, <1>2, <1>3, <1>4, <1>5

(* The alarm is that of the row, and its target is run for its source. *)
LEMMA AlarmGoes ==
  ASSUME OneCallerEach, Inv, NEW c \in Caller, LeaveEscalate(c), job[c].applied
  PROVE  Inv'
<1> SUFFICES ASSUME NEW x, x = job[c].entry PROVE Inv'
  OBVIOUS
<1> DEFINE q == Sent(job[c], x, Target[x])
           alarm == <<x, job[c].when, c, history[x]>>
<1>1. /\ pc[c] = "leave" /\ job[c].at = "escalate" /\ job[c] \in JobRecord /\ Saved(c)
      /\ Release(c) /\ UNCHANGED <<rows, mem, counters, history, told>> /\ job[c].op \notin Edits
      /\ x \in Entry /\ job[c].source = None
  BY DEF LeaveEscalate, Inv, Typed, Own, JobSound, Busy
<1>2. alarms' = alarms \cup {alarm} /\ Goto(c, "enter", q)
  BY DEF LeaveEscalate, Sent
<1>3. /\ rows[x] # Gone /\ rows[x].escAt = job[c].when /\ Target[x] \in Entry
      /\ \A a \in alarms : a[1] = x => a[2] < job[c].when
  BY <1>1, Constants DEF Saved, Named
<1>4. q \in JobRecord /\ q.at = "select" /\ q.entry = Target[x] /\ q.source = x /\ q.op = job[c].op
  <2>1. x \in Named /\ Target[x] \in Named
    BY <1>1, <1>3 DEF Named
  <2> QED BY <1>1, <2>1, Sending
<1> HIDE DEF q
<1>5. Alone(c) /\ pc'[c] = "enter" /\ job'[c] = q
  BY <1>2, <1>4, Going DEF Inv, Alone, Places
<1>6. ~Section(c)' /\ Busy(c)' /\ ~Owes(c)' /\ Owes(c) /\ "add" \in Edits
  BY <1>1, <1>4, <1>5 DEF Section, Busy, Owes, Edits
<1>7. JobSound(c)'
  BY <1>1, <1>3, <1>4, <1>5, <1>6 DEF JobSound, Sections
<1>8. Sheds(c)
  BY <1>1, <1>4, <1>5, <1>6, Constants DEF Sheds, MainIs, SubIs, EditIs, AddIs
<1>9. \A d \in Caller : Sheds(d)
  BY <1>5, <1>8, TheOthers
<1>10. alarm[1] = x /\ alarm[2] = job[c].when /\ job[c].when \in Nat
  BY <1>1, Constants DEF JobRecord, Moment
<1> HIDE DEF alarm
<1>11. Ledger'
  <2>1. ASSUME NEW y \in Entry \ {x}
        PROVE  EntrySound(y)'
    <3>1. Kept(y)
      BY <1>1, <1>2, <1>9, <1>10 DEF Kept, Sheds
    <3> QED BY <3>1, EntryKept
  <2>2. EntrySound(x)'
    <3>1. HistoryOf(x)'
      BY <1>1, <1>9, HistoryKept DEF Sheds
    <3>2. NothingOf(x)'
      BY <1>1, <1>3 DEF NothingOf
    <3>3. AlarmsOf(x)'
      BY <1>1, <1>2, <1>3, <1>10 DEF AlarmsOf, Inv, Ledger, EntrySound
    <3>4. ToldOf(x)'
      BY <1>1 DEF ToldOf, Inv, Ledger, EntrySound
    <3> QED BY <3>1, <3>2, <3>3, <3>4 DEF EntrySound
  <2>3. \A a \in alarms' : a[1] \in Entry /\ a[2] \in Nat
    BY <1>1, <1>2, <1>10 DEF Inv, Ledger
  <2>4. EditsApart'
    BY <1>1, <1>9 DEF Inv, Ledger, EditsApart, Sheds
  <2>5. OneAlarmPerCooldown'
    <3> SUFFICES ASSUME NEW a \in alarms', NEW b \in alarms', a[1] = b[1], a[2] = b[2]
                 PROVE  a = b
      BY DEF OneAlarmPerCooldown
    <3>1. \A d \in alarms : ~(d[1] = alarm[1] /\ d[2] = alarm[2])
      BY <1>3, <1>10 DEF Inv, Ledger
    <3> QED BY <1>2, <3>1 DEF Inv, Ledger, OneAlarmPerCooldown
  <2> QED BY <1>1, <2>1, <2>2, <2>3, <2>4, <2>5 DEF Ledger
<1>12. history' \in [Entry -> Nat] /\ told' \in [Entry -> Telling]
  BY <1>1 DEF Inv, Typed
<1> QED BY <1>1, <1>5, <1>6, <1>7, <1>11, <1>12, LeavingStep DEF counters

LEMMA LeaveEscalateStep ==
  ASSUME OneCallerEach, Inv, NEW c \in Caller, LeaveEscalate(c)
  PROVE  Inv'
<1>1. /\ pc[c] = "leave" /\ job[c].at = "escalate" /\ job[c] \in JobRecord
      /\ Release(c) /\ UNCHANGED <<rows, mem, counters, history, told>> /\ job[c].op \notin Edits
      /\ job[c].entry \in Entry
  BY DEF LeaveEscalate, Inv, Typed, Own, JobSound, Busy
<1>2. CASE ~job[c].applied
  <2>1. Goto(c, "history", job[c]) /\ UNCHANGED alarms
    BY <1>2 DEF LeaveEscalate
  <2>2. pc'[c] = "history" /\ job'[c] = job[c]
    BY <1>1, <2>1, Going DEF Inv, Places
  <2>3. ~Busy(c)' /\ Owes(c) /\ "add" \in Edits
    BY <1>1, <2>2 DEF Busy, Owes, Edits
  <2>4. JobSound(c)'
    BY <1>1, <2>2, <2>3 DEF JobSound
  <2>5. Sheds(c)
    BY <1>1, <2>2, <2>3 DEF Sheds, MainIs, SubIs, EditIs, AddIs
  <2> QED BY <1>1, <2>1, <2>4, <2>5, QuietLeave DEF ghosts
<1> QED BY <1>2, AlarmGoes

(* The user is told what the table holds. *)
LEMMA LeaveEditStep ==
  ASSUME OneCallerEach, Inv, NEW c \in Caller, LeaveEdit(c)
  PROVE  Inv'
<1> SUFFICES ASSUME NEW x, x = job[c].entry PROVE Inv'
  OBVIOUS
<1>1. /\ pc[c] = "leave" /\ job[c].at = "edit" /\ Saved(c) /\ Release(c)
      /\ UNCHANGED <<rows, mem, counters, history, alarms>> /\ job[c].op \in Edits
      /\ x \in Entry /\ job[c].source = None /\ Goto(c, "idle", NoJob)
  BY DEF LeaveEdit, Inv, Own, JobSound, Busy
<1>2. EditIs(c, x) /\ told[x] = "open" /\ \A d \in Caller \ {c} : ~EditIs(d, x) /\ ~AddIs(d, x)
  BY <1>1 DEF EditIs, AddIs, Edits, Inv, Ledger, EditsApart
<1>3. Alone(c) /\ JobSound(c)' /\ Sheds(c) /\ ~Section(c)' /\ \A d \in Caller : Sheds(d)
  <2>1. Alone(c) /\ pc'[c] = "idle" /\ job'[c] = NoJob
    BY <1>1, Going, Idle DEF Inv, Alone, Places
  <2> QED BY <2>1, NoJobSheds, TheOthers
<1>4. \A y \in Entry : ~EditIs(c, y)' /\ ~AddIs(c, y)'
  <2>1. job'[c] = NoJob /\ NoJob.op = "none" /\ "none" \notin Edits
    BY <1>1, Idle, Going DEF Inv, Places, NoJob, Edits
  <2> QED BY <2>1 DEF EditIs, AddIs
<1> DEFINE news == CASE job[c].op = "remove" -> "removed"
                     [] job[c].op = "add" -> IF rows[x] = Gone THEN "twin" ELSE "live"
                     [] OTHER -> IF rows[x] = Gone THEN "removed"
                                 ELSE IF job[c].op = "pause" THEN "paused" ELSE "live"
<1>5. told' = [told EXCEPT ![x] = news]
  <2>1. mem[EngineOf[c]][x] = rows[x]
    BY <1>1 DEF Saved
  <2> QED BY <2>1 DEF LeaveEdit
<1>6. /\ news \in Telling \ {"unborn"}
      /\ news = "removed" => rows[x] = Gone
      /\ news \in {"live", "paused"} => rows[x] # Gone
  <2>1. job[c].op = "remove" => rows[x] = Gone
    BY <1>1 DEF Saved
  <2>2. CASE job[c].op = "remove"
    BY <2>1, <2>2 DEF Telling
  <2>3. CASE job[c].op = "add"
    BY <2>3 DEF Telling
  <2>4. CASE job[c].op \notin {"remove", "add"}
    BY <2>4 DEF Telling
  <2> QED BY <2>2, <2>3, <2>4
<1> HIDE DEF news
<1>7. told' \in [Entry -> Telling] /\ told'[x] = news /\ \A y \in Entry \ {x} : told'[y] = told[y]
  BY <1>1, <1>5, <1>6 DEF Inv, Typed
<1>8. Ledger'
  <2>1. ASSUME NEW y \in Entry \ {x}
        PROVE  EntrySound(y)'
    <3>1. Kept(y)
      BY <1>1, <1>3, <1>7 DEF Kept, Sheds
    <3> QED BY <3>1, EntryKept
  <2>2. EntrySound(x)'
    <3>1. HistoryOf(x)'
      BY <1>1, <1>3, HistoryKept DEF Sheds
    <3>2. NothingOf(x)'
      BY <1>1, <1>2, <1>3, <1>4, <1>6, <1>7 DEF NothingOf, Sheds
    <3>3. AlarmsOf(x)'
      BY <1>1 DEF AlarmsOf, Inv, Ledger, EntrySound
    <3>4. ToldOf(x)'
      BY <1>1, <1>6, <1>7 DEF ToldOf
    <3> QED BY <3>1, <3>2, <3>3, <3>4 DEF EntrySound
  <2>3. EditsApart'
    <3> SUFFICES ASSUME NEW y \in Entry, NEW d \in Caller, EditIs(d, y)'
                 PROVE  told'[y] = "open" /\ \A b \in Caller \ {d} : ~EditIs(b, y)'
      BY DEF EditsApart
    <3>1. EditIs(d, y) /\ d # c /\ y # x
      BY <1>1, <1>2, <1>3, <1>4 DEF Sheds
    <3> QED BY <1>3, <1>7, <3>1 DEF Inv, Ledger, EditsApart, Sheds
  <2> QED BY <1>1, <2>1, <2>2, <2>3 DEF Inv, Ledger, OneAlarmPerCooldown
<1>9. history' \in [Entry -> Nat]
  BY <1>1 DEF Inv, Typed
<1> QED BY <1>1, <1>3, <1>7, <1>8, <1>9, LeavingStep DEF counters

-----------------------------------------------------------------------------
(* Records and edits *)

(* A record is written for a run that was owed one. *)
LEMMA RecordHistoryStep ==
  ASSUME OneCallerEach, Inv, NEW c \in Caller, RecordHistory(c)
  PROVE  Inv'
<1> SUFFICES ASSUME NEW x, x = job[c].entry PROVE Inv'
  OBVIOUS
<1>1. /\ pc[c] = "history" /\ x \in Entry /\ job[c].op \notin Edits /\ ~Section(c)
      /\ job[c] \in JobRecord /\ Owes(c)
      /\ UNCHANGED <<rows, lock, mem, depth, counters, told, alarms>>
      /\ history' = [history EXCEPT ![x] = @ + 1]
  BY DEF RecordHistory, Inv, Typed, Own, JobSound, Busy, Section, Owes
<1>2. /\ JobSound(c)' /\ Alone(c) /\ ~Section(c)' /\ Sheds(c)
      /\ IF job[c].source = None THEN MainIs(c, x) /\ ~MainIs(c, x)'
         ELSE SubIs(c, x) /\ ~SubIs(c, x)'
  <2>1. CASE job[c].source # None
    <3>1. Goto(c, "history", [job[c] EXCEPT !.entry = job[c].source, !.source = None])
      BY <2>1 DEF RecordHistory
    <3>2. SubIs(c, x)
      BY <1>1, <2>1 DEF SubIs
    <3> QED BY <1>1, <2>1, <3>1, <3>2, ReturnGoes DEF Sheds, MainIs
  <2>2. CASE job[c].source = None
    <3>1. Done(c)
      BY <2>2 DEF RecordHistory
    <3>2. JobSound(c)' /\ Sheds(c)
      BY <1>1, <2>2, <3>1, DoneGoes
    <3>3. PICK where \in {"idle", "next"}, j \in JobRecord :
            Goto(c, where, j) /\ j.source = None
      <4>1. NoJob.source = None
        BY DEF NoJob
      <4> QED BY <1>1, <2>2, <3>1, <4>1, Idle DEF Done
    <3>4. Alone(c) /\ pc'[c] = where /\ job'[c] = j
      BY <3>3, Going DEF Inv, Alone, Places
    <3>5. ~Section(c)' /\ ~Owes(c)'
      BY <3>4 DEF Section, Owes, Busy
    <3>6. MainIs(c, x) /\ ~MainIs(c, x)'
      BY <1>1, <2>2, <3>3, <3>4, <3>5, Constants DEF MainIs
    <3> QED BY <2>2, <3>2, <3>4, <3>5, <3>6
  <2> QED BY <2>1, <2>2
<1>3. \A d \in Caller : Sheds(d)
  BY <1>2, TheOthers
<1>4. /\ history' \in [Entry -> Nat] /\ history'[x] = history[x] + 1 /\ history[x] \in Nat
      /\ \A y \in Entry \ {x} : history'[y] = history[y]
  BY <1>1 DEF Inv, Typed
<1>5. ASSUME NEW y \in Entry \ {x}
      PROVE  EntrySound(y)'
  <2>1. Kept(y)
    BY <1>1, <1>3, <1>4 DEF Kept, Sheds
  <2> QED BY <2>1, EntryKept
<1>6. EntrySound(x)'
  <2>1. EntrySound(x)
    BY <1>1 DEF Inv, Ledger
  <2>2. /\ Mains(x)' \subseteq Mains(x) /\ Subs(x)' \subseteq Subs(x)
        /\ \/ c \in Mains(x) /\ Mains(x)' \subseteq Mains(x) \ {c}
           \/ c \in Subs(x) /\ Subs(x)' \subseteq Subs(x) \ {c}
    BY <1>1, <1>2, <1>3 DEF Mains, Subs, Sheds
  <2>3. HistoryOf(x)'
    <3> DEFINE m == Cardinality(Mains(x))
               s == Cardinality(Subs(x))
               mm == Cardinality(Mains(x))'
               ss == Cardinality(Subs(x))'
    <3>1. /\ m \in Nat /\ mm \in Nat /\ mm <= m
          /\ c \in Mains(x) /\ Mains(x)' \subseteq Mains(x) \ {c} => mm + 1 <= m
      BY <2>2, Counting DEF Mains
    <3>2. /\ s \in Nat /\ ss \in Nat /\ ss <= s
          /\ c \in Subs(x) /\ Subs(x)' \subseteq Subs(x) \ {c} => ss + 1 <= s
      BY <2>2, Counting DEF Subs
    <3>3. rows[x] # Gone => history[x] + m + s <= rows[x].runs /\ rows[x].runs \in Nat
      BY <1>1, <2>1 DEF EntrySound, HistoryOf, Inv, Typed, Table, Row
    <3>4. rows[x] # Gone => history'[x] + mm + ss <= rows[x].runs
      BY <1>4, <2>2, <3>1, <3>2, <3>3
    <3> QED BY <1>1, <3>4 DEF HistoryOf
  <2>4. NothingOf(x)'
    BY <1>1, <1>3, <2>1, <2>2 DEF EntrySound, NothingOf, Untouched, Sheds
  <2>5. AlarmsOf(x)' /\ ToldOf(x)'
    BY <1>1, <2>1 DEF EntrySound, AlarmsOf, ToldOf
  <2> QED BY <2>3, <2>4, <2>5 DEF EntrySound
<1>7. EditsApart'
  BY <1>1, <1>3 DEF Inv, Ledger, EditsApart, Sheds
<1>8. Ledger'
  BY <1>1, <1>5, <1>6, <1>7 DEF Inv, Ledger, OneAlarmPerCooldown
<1>9. told' \in [Entry -> Telling] /\ UNCHANGED <<now, lapses>>
  BY <1>1 DEF Inv, Typed, counters
<1> QED BY <1>1, <1>2, <1>4, <1>8, <1>9, OutsideStep

(* What the user was told no longer holds once an edit is asked for. *)
LEMMA BeginEditStep ==
  ASSUME OneCallerEach, Inv, NEW c \in Caller, NEW op \in Ops, NEW x \in Entry,
         BeginEdit(c, op, x)
  PROVE  Inv'
<1> DEFINE q == Begun(op, "edit", x)
<1>0. op \in Edits /\ op \in Operation /\ op # "tick"
  BY DEF BeginEdit, Operation, Edits
<1>1. q \in JobRecord /\ q.op = op /\ q.at = "edit" /\ q.source = None /\ q.entry = x
  <2>1. "edit" \in Sections /\ x \in Named
    BY DEF Sections, Named
  <2> QED BY <1>0, <2>1, Begins
<1>2. /\ pc[c] = "idle" /\ Goto(c, "enter", q) /\ (op = "add" <=> told[x] = "unborn")
      /\ \A d \in Caller : ~EditIs(d, x) /\ ~AddIs(d, x)
      /\ told' = [told EXCEPT ![x] = "open"]
      /\ UNCHANGED <<rows, lock, mem, depth, now, lapses, history, alarms>>
  BY DEF BeginEdit, Begun, EditIs, AddIs, Edits
<1> HIDE DEF q
<1>3. /\ Alone(c) /\ JobSound(c)' /\ ~Section(c) /\ ~Section(c)'
      /\ \A y \in Entry : /\ ~MainIs(c, y)' /\ ~SubIs(c, y)'
                          /\ EditIs(c, y)' => y = x
                          /\ AddIs(c, y)' => op = "add" /\ y = x
  BY <1>0, <1>1, <1>2, JobBegins
<1>4. \A d \in Caller \ {c} : Sheds(d)
  BY <1>3, TheOthers
<1>5. \A d \in Caller : \A y \in Entry \ {x} :
        /\ MainIs(d, y)' => MainIs(d, y)
        /\ SubIs(d, y)' => SubIs(d, y)
        /\ EditIs(d, y)' => EditIs(d, y)
        /\ AddIs(d, y)' => AddIs(d, y)
  BY <1>3, <1>4 DEF Sheds
<1>6. \A d \in Caller : /\ MainIs(d, x)' => MainIs(d, x)
                        /\ SubIs(d, x)' => SubIs(d, x)
                        /\ EditIs(d, x)' => d = c
                        /\ AddIs(d, x)' => d = c /\ op = "add"
  BY <1>2, <1>3, <1>4 DEF Sheds
<1>7. /\ told' \in [Entry -> Telling] /\ told'[x] = "open"
      /\ \A y \in Entry \ {x} : told'[y] = told[y]
  BY <1>2 DEF Inv, Typed, Telling
<1>8. ASSUME NEW y \in Entry \ {x}
      PROVE  EntrySound(y)'
  <2>1. Kept(y)
    BY <1>2, <1>5, <1>7 DEF Kept
  <2> QED BY <2>1, EntryKept
<1>9. EntrySound(x)'
  <2>1. EntrySound(x)
    BY DEF Inv, Ledger
  <2>2. Mains(x)' \subseteq Mains(x) /\ Subs(x)' \subseteq Subs(x) /\ HistoryOf(x)'
    BY <1>2, <1>6, HistoryKept
  <2>3. NothingOf(x)'
    BY <1>2, <1>6, <1>7, <2>1, <2>2 DEF EntrySound, NothingOf, Untouched
  <2>4. AlarmsOf(x)' /\ ToldOf(x)'
    BY <1>2, <1>7, <2>1 DEF EntrySound, AlarmsOf, ToldOf
  <2> QED BY <2>2, <2>3, <2>4 DEF EntrySound
<1>10. EditsApart'
  <2> SUFFICES ASSUME NEW y \in Entry, NEW d \in Caller, EditIs(d, y)'
               PROVE  told'[y] = "open" /\ \A b \in Caller \ {d} : ~EditIs(b, y)'
    BY DEF EditsApart
  <2>1. CASE y = x
    BY <1>6, <1>7, <2>1
  <2>2. CASE y # x
    BY <1>5, <1>7, <2>2 DEF Inv, Ledger, EditsApart
  <2> QED BY <2>1, <2>2
<1>11. Ledger'
  BY <1>2, <1>8, <1>9, <1>10 DEF Inv, Ledger, OneAlarmPerCooldown
<1>12. history' \in [Entry -> Nat]
  BY <1>2 DEF Inv, Typed
<1> QED BY <1>2, <1>3, <1>7, <1>11, <1>12, OutsideStep

-----------------------------------------------------------------------------
(* Faults and time *)

(* A dead process leaves its lock row to nobody. *)
LEMMA CrashStep ==
  ASSUME OneCallerEach, Inv, NEW e \in Engine, Crash(e)
  PROVE  Inv'
<1>1. PICK c \in Caller : EngineOf[c] = e
  BY DEF Engine
<1>2. \A d \in Caller : EngineOf[d] = e <=> d = c
  BY <1>1 DEF OneCallerEach
<1>3. /\ pc' = [d \in Caller |-> IF d = c THEN "idle" ELSE pc[d]]
      /\ job' = [d \in Caller |-> IF d = c THEN NoJob ELSE job[d]]
      /\ depth' = [depth EXCEPT ![e] = 0] /\ mem' = [mem EXCEPT ![e] = rows]
      /\ lock' = IF lock = c THEN Orphan ELSE lock
      /\ UNCHANGED <<rows, now, lapses, history, told, alarms>>
  BY <1>2 DEF Crash, ghosts
<1>4. Alone(c) /\ pc'[c] = "idle" /\ job'[c] = NoJob
  BY <1>3, Idle DEF Inv, Typed, Alone, Places
<1>5. JobSound(c)' /\ Sheds(c) /\ ~Section(c)' /\ \A d \in Caller : Sheds(d)
  BY <1>4, NoJobSheds, TheOthers
<1>6. Typed'
  BY <1>3, <1>4 DEF Inv, Typed, Alone
<1>7. Locked'
  <2>1. depth'[EngineOf[c]] = 0
    BY <1>1, <1>3 DEF Inv, Typed
  <2>2. ASSUME NEW d \in Caller \ {c}
        PROVE  /\ Section(d)' => lock' = d /\ job'[d].owns
               /\ depth'[EngineOf[d]] = IF Section(d)' THEN 1 ELSE 0
    <3>1. Section(d)' = Section(d) /\ job'[d] = job[d] /\ EngineOf[d] # e
      BY <1>2, <1>4, TheOthers DEF Alone
    <3>2. depth'[EngineOf[d]] = depth[EngineOf[d]]
      BY <1>3, <3>1, Constants DEF Inv, Typed
    <3> QED BY <1>3, <3>1, <3>2 DEF Inv, Locked
  <2> QED BY <1>5, <2>1, <2>2 DEF Locked
<1>8. \A d \in Caller : Own(d)'
  <2>1. Own(c)'
    BY <1>4, <1>5 DEF Own
  <2>2. \A f \in Engine \ {EngineOf[c]} : mem'[f] = mem[f]
    BY <1>1, <1>3 DEF Inv, Typed
  <2> QED BY <1>3, <1>4, <2>1, <2>2, OthersOwn
<1> QED BY <1>3, <1>5, <1>6, <1>7, <1>8, LedgerKept DEF Inv

(* Nothing that a caller is at depends on the time, nor on a row nobody holds. *)
LEMMA StillSound ==
  ASSUME Inv, Typed', UNCHANGED <<rows, mem, depth, pc, job, history, told, alarms>>,
         \A c \in Caller : Section(c) => lock' = lock
  PROVE  Inv'
<1>1. \A c \in Caller : Section(c)' = Section(c) /\ Busy(c)' = Busy(c) /\ Owes(c)' = Owes(c)
  BY DEF Section, Busy, Owes
<1>2. \A c \in Caller : Sheds(c)
  BY <1>1 DEF Sheds, MainIs, SubIs, EditIs, AddIs
<1>3. Locked'
  BY <1>1 DEF Inv, Locked
<1>4. \A c \in Caller : Own(c)'
  <2> SUFFICES ASSUME NEW c \in Caller PROVE Own(c)'
    OBVIOUS
  <2>1. Own(c)
    BY DEF Inv
  <2>2. JobSound(c)' = JobSound(c) /\ ToSave(c)' = ToSave(c) /\ Saved(c)' = Saved(c)
    BY <1>1 DEF JobSound, ToSave, Saved, EditGives
  <2> QED BY <2>1, <2>2 DEF Own
<1> QED BY <1>2, <1>3, <1>4, LedgerKept DEF Inv

LEMMA LapseStep ==
  ASSUME NoLiveLapse, Inv, Lapse
  PROVE  Inv'
<1>1. lock = Orphan
  BY DEF Lapse, NoLiveLapse, Inv, Typed
<1>2. lock' = None /\ UNCHANGED <<rows, mem, depth, pc, job, now, lapses, history, told, alarms>>
  BY <1>1 DEF Lapse, ghosts
<1>3. \A c \in Caller : ~Section(c)
  BY <1>1, Constants DEF Inv, Locked
<1>4. Typed'
  BY <1>2 DEF Inv, Typed
<1> QED BY <1>2, <1>3, <1>4, StillSound

LEMMA TimeStep ==
  ASSUME Inv, Time
  PROVE  Inv'
<1>1. now' \in 1 .. MaxTime
  BY Constants DEF Time, Inv, Typed
<1>2. Typed' /\ UNCHANGED <<rows, lock, mem, depth, pc, job, history, told, alarms>>
  BY <1>1 DEF Time, Inv, Typed, ghosts
<1> QED BY <1>2, StillSound

-----------------------------------------------------------------------------
(* The invariant is inductive *)

LEMMA Starts == Init => Inv
<1> SUFFICES ASSUME Init PROVE Inv
  OBVIOUS
<1>1. /\ rows = [x \in Entry |-> IF x \in Added THEN FreshRow(1) ELSE Gone]
      /\ lock = None /\ mem = [e \in Engine |-> rows] /\ depth = [e \in Engine |-> 0]
      /\ pc = [c \in Caller |-> "idle"] /\ job = [c \in Caller |-> NoJob]
      /\ now = 1 /\ lapses = 0 /\ history = [x \in Entry |-> 0]
      /\ told = [x \in Entry |-> IF x \in Added THEN "live" ELSE "unborn"]
      /\ alarms = {}
  BY DEF Init
<1>2. /\ 1 \in 1 .. MaxTime
      /\ FreshRow(1) \in Row /\ FreshRow(1) # Gone /\ FreshRow(1).runs = 0
  BY Constants, FreshIsRow
<1>3. Typed
  <2>1. rows \in Table
    BY <1>1, <1>2 DEF Table
  <2> QED BY <1>1, <1>2, <2>1, Idle DEF Typed, Places, Telling
<1>4. \A c \in Caller : pc[c] = "idle" /\ job[c] = NoJob /\ ~Section(c) /\ ~Busy(c) /\ ~Owes(c)
  BY <1>1 DEF Section, Busy, Owes
<1>5. Locked
  BY <1>1, <1>4, Constants DEF Locked
<1>6. NoJob.op = "none" /\ NoJob.source = None /\ "none" \notin Edits
  BY DEF NoJob, Edits
<1>7. \A c \in Caller : Own(c)
  BY <1>4, <1>6 DEF Own, JobSound
<1>8. \A x \in Entry, c \in Caller : ~MainIs(c, x) /\ ~SubIs(c, x) /\ ~EditIs(c, x) /\ ~AddIs(c, x)
  BY <1>4, <1>6, Constants DEF MainIs, SubIs, EditIs, AddIs
<1>9. ASSUME NEW x \in Entry
      PROVE  EntrySound(x)
  <2>1. Mains(x) = {} /\ Subs(x) = {}
    BY <1>8 DEF Mains, Subs
  <2>2. /\ rows[x] # Gone <=> x \in Added
        /\ rows[x] # Gone => rows[x].runs = 0
        /\ history[x] = 0 /\ told[x] = IF x \in Added THEN "live" ELSE "unborn"
    BY <1>1, <1>2
  <2>3. HistoryOf(x)
    BY <2>1, <2>2, FS_EmptySet DEF HistoryOf
  <2>4. NothingOf(x) /\ AlarmsOf(x) /\ ToldOf(x)
    BY <1>1, <2>1, <2>2 DEF NothingOf, Untouched, AlarmsOf, ToldOf
  <2> QED BY <2>3, <2>4 DEF EntrySound
<1>10. Ledger
  BY <1>1, <1>8, <1>9 DEF Ledger, EditsApart, OneAlarmPerCooldown
<1> QED BY <1>3, <1>5, <1>7, <1>10 DEF Inv

LEMMA InvHolds ==
  ASSUME OneCallerEach, NoLiveLapse
  PROVE  Spec => []Inv
<1>1. Inv /\ [Next]_vars => Inv'
  <2> SUFFICES ASSUME Inv, [Next]_vars PROVE Inv'
    OBVIOUS
  <2>1. ASSUME NEW c \in Caller, Step(c)
        PROVE  Inv'
    <3>1. CASE Enter(c) \/ Acquire(c) \/ Save(c)
      BY <3>1, EnterStep, AcquireStep, SaveStep
    <3>2. CASE Select(c) \/ Apply(c) \/ Escalate(c) \/ Edit(c)
      BY <3>2, SelectStep, ApplyStep, EscalateStep, EditStep
    <3>3. CASE LeaveSelect(c) \/ LeaveApply(c) \/ LeaveEscalate(c) \/ LeaveEdit(c)
      BY <3>3, LeaveSelectStep, LeaveApplyStep, LeaveEscalateStep, LeaveEditStep
    <3>4. CASE PickEntry(c) \/ RunEnds(c) \/ RecordHistory(c)
      BY <3>4, PickEntryStep, RunEndsStep, RecordHistoryStep
    <3> QED BY <2>1, <3>1, <3>2, <3>3, <3>4 DEF Step
  <2>2. ASSUME NEW c \in Caller, BeginTick(c) \/ GiveUp(c)
        PROVE  Inv'
    BY <2>2, BeginTickStep, GiveUpStep
  <2>3. ASSUME NEW c \in Caller, NEW op \in Ops, NEW x \in Entry,
               BeginManual(c, op, x) \/ BeginEdit(c, op, x)
        PROVE  Inv'
    BY <2>3, BeginManualStep, BeginEditStep
  <2>4. ASSUME NEW e \in Engine, Crash(e)
        PROVE  Inv'
    BY <2>4, CrashStep
  <2>5. CASE Lapse \/ Time
    BY <2>5, LapseStep, TimeStep
  <2>6. CASE UNCHANGED vars
    <3>1. UNCHANGED <<rows, lock, mem, depth, pc, job, now, lapses, history, told, alarms>>
      BY <2>6 DEF vars
    <3>2. Typed'
      BY <3>1 DEF Inv, Typed
    <3> QED BY <3>1, <3>2, StillSound
  <2> QED BY <2>1, <2>2, <2>3, <2>4, <2>5, <2>6 DEF Next
<1> QED BY <1>1, Starts, PTL DEF Spec

-----------------------------------------------------------------------------
(* The theorems *)

(* withLock: types, and a caller that works under the row of its own token *)
(* keeps the depth of its engine above zero.                               *)
THEOREM ScheduleTypeCorrect ==
  ASSUME OneCallerEach, NoLiveLapse
  PROVE  Spec => []TypeOK
<1>1. Inv => TypeOK
  BY DEF Inv, Typed, Locked, Section, Table, Places, TypeOK
<1> QED BY <1>1, InvHolds, PTL

(* saveEntries before recordHistory: no entry has more history records than *)
(* runs whose outcome is in the table, through crashes, removals and the    *)
(* records that escalations still owe.                                      *)
THEOREM OutcomesBeforeRecords ==
  ASSUME OneCallerEach, NoLiveLapse
  PROVE  Spec => []HistoryIsSaved
<1>1. Inv => HistoryIsSaved
  <2> SUFFICES ASSUME Inv, NEW x \in Entry, rows[x] # Gone PROVE history[x] <= rows[x].runs
    BY DEF HistoryIsSaved
  <2>1. history[x] + Cardinality(Mains(x)) + Cardinality(Subs(x)) <= rows[x].runs
    BY DEF Inv, Ledger, EntrySound, HistoryOf
  <2>2. Cardinality(Mains(x)) \in Nat /\ Cardinality(Subs(x)) \in Nat
    BY Counting DEF Mains, Subs
  <2>3. history[x] \in Nat /\ rows[x].runs \in Nat
    BY DEF Inv, Typed, Table, Row
  <2> QED BY <2>1, <2>2, <2>3
<1> QED BY <1>1, InvHolds, PTL

(* withScheduleMutation: what the user was told of an entry stays true, so a *)
(* run that ends after a removal does not bring the entry back.              *)
THEOREM EditsAreKept ==
  ASSUME OneCallerEach, NoLiveLapse
  PROVE  Spec => []ToldIsStored
<1>1. Inv => ToldIsStored
  BY DEF Inv, Ledger, EntrySound, ToldOf, ToldIsStored
<1> QED BY <1>1, InvHolds, PTL

(* executeEntry: a cooldown is checked and stamped in one section, so it has *)
(* one alarm however ticks and manual runs fail together.                    *)
THEOREM AlarmsAreSpaced ==
  ASSUME OneCallerEach, NoLiveLapse
  PROVE  Spec => []OneAlarmPerCooldown
<1>1. Inv => OneAlarmPerCooldown
  BY DEF Inv, Ledger
<1> QED BY <1>1, InvHolds, PTL

(* addEntryInMemory: a replay key has one entry, however the attempts to add *)
(* it interleave, when the entries of the start have keys of their own.      *)
THEOREM KeysAreUnique ==
  ASSUME OneCallerEach, NoLiveLapse,
         \A x, y \in Added : KeyOf[x] = KeyOf[y] => x = y
  PROVE  Spec => []OneEntryPerKey
<1>1. Init => OneEntryPerKey
  BY DEF Init, OneEntryPerKey
<1>2. ASSUME Inv, OneEntryPerKey, [Next]_vars
      PROVE  OneEntryPerKey'
  <2>1. CASE UNCHANGED rows
    BY <1>2, <2>1 DEF OneEntryPerKey
  <2>2. ASSUME NEW c \in Caller, Save(c)
        PROVE  OneEntryPerKey'
    <3>1. rows' = mem[EngineOf[c]] /\ ToSave(c) /\ JobSound(c) /\ Busy(c)
      BY <1>2, <2>2 DEF Save, Inv, Own, Busy
    <3>2. \/ rows' = rows
          \/ \E x \in Entry :
               /\ \A y \in Entry \ {x} : rows'[y] = rows[y]
               /\ rows[x] # Gone \/ (\A y \in Entry : rows[y] # Gone => KeyOf[y] # KeyOf[x]) \/ rows'[x] = rows[x]
      <4>1. CASE job[c].at = "select"
        BY <3>1, <4>1 DEF ToSave
      <4>2. CASE job[c].at \in {"apply", "escalate"}
        BY <3>1, <4>2 DEF ToSave, JobSound
      <4>3. CASE job[c].at = "edit"
        BY <3>1, <4>3 DEF ToSave, JobSound, EditGives, Edits
      <4> QED BY <3>1, <4>1, <4>2, <4>3 DEF JobSound, Sections
    <3> QED BY <1>2, <3>2 DEF OneEntryPerKey
  <2>3. CASE Next
    BY <2>1, <2>2, <2>3 DEF Next, Step, Enter, Acquire, Select, Apply, Escalate, Edit, LeaveSelect,
       LeaveApply, LeaveEscalate, LeaveEdit, PickEntry, RunEnds, RecordHistory, BeginTick, GiveUp,
       BeginManual, BeginEdit, Crash, Lapse, Time
  <2> QED BY <1>2, <2>1, <2>3 DEF vars
<1> QED BY <1>1, <1>2, InvHolds, PTL DEF Spec
=============================================================================
