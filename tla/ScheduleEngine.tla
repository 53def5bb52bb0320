--------------------------- MODULE ScheduleEngine ---------------------------
(***************************************************************************)
(* The schedule engine: entries that fire at a cadence, are retried after  *)
(* a transient failure, are switched off by a circuit breaker and escalate *)
(* to another entry.  The entries are one table of the control database,   *)
(* read and written as a whole under a lock row with a lease.  Several     *)
(* engines share the table: the one the daemon ticks, and those of the     *)
(* command line, the TUI and the gateway.                                  *)
(*                                                                         *)
(* A section under the lock is the steps Work (re-read the table, change   *)
(* the copy in memory), Save and Leave; an entry runs outside the lock.    *)
(* Within one engine the lock is re-entrant by a depth counter that does   *)
(* not know who holds it: a caller that finds the depth above zero goes in *)
(* without the lock row.                                                   *)
(***************************************************************************)
EXTENDS Naturals, FiniteSets

CONSTANTS
  Entry,        \* schedule entries, the ones still to be added included
  Added,        \* the entries that exist at the start
  KeyOf,        \* [Entry -> replay keys] of the personal agent that adds them
  Target,       \* [Entry -> Entry \cup {None}]: the entry an escalation runs
  Caller,       \* activities that use an engine
  Ticker,       \* the caller that is the daemon's maintenance loop
  EngineOf,     \* [Caller -> engines]: which of them share one ScheduleEngine
  Ops,          \* the operations other callers ask for
  None,
  MaxTime,      \* bound: cadences that come due
  MaxAttempts,  \* retry_policy.max_attempts
  Breaker,      \* escalation.circuit_breaker_threshold
  MaxOps,       \* bound: operations asked for
  MaxCrashes,   \* bound: processes that die
  MaxLapses     \* bound: leases that run out under a live holder

Orphan == "orphan"   \* the lock row of a process that is gone

ASSUME ScheduleAssumption ==
  /\ Added \subseteq Entry /\ Ticker \in Caller /\ IsFiniteSet(Caller)
  /\ \A x \in Entry : Target[x] \in Entry \cup {None}
  /\ None \notin Entry \cup Caller \cup {Orphan} /\ Orphan \notin Caller
  /\ MaxTime \in Nat \ {0} /\ MaxAttempts \in Nat /\ Breaker \in Nat \ {0}
  /\ MaxOps \in Nat /\ MaxCrashes \in Nat /\ MaxLapses \in Nat

Engine == {EngineOf[c] : c \in Caller}
Gone == [next |-> 0]  \* no row in schedule_entries

\* Nat bounds of the counters of a row; an entry's time is a count of cadences.
Row == [enabled : BOOLEAN, next : 1..(MaxTime + 1), retry : 0..MaxAttempts,
        retryAt : 0..(MaxTime + 1), fails : 0..Breaker, escAt : 0..MaxTime, runs : Nat]
FreshRow(t) == [enabled |-> TRUE, next |-> t + 1, retry |-> 0, retryAt |-> 0,
                fails |-> 0, escAt |-> 0, runs |-> 0]

VARIABLES
  rows,     \* the table schedule_entries
  lock,     \* the lock row: the caller whose token it holds, Orphan or None
  mem,      \* [Engine -> the engine's this.entries]
  depth,    \* [Engine -> lockDepth]
  pc, job,  \* per caller: where it is, and what it is doing
  now,      \* the time
  ops, crashes, lapses,
  history,  \* [Entry -> history records of the entry]
  told,     \* ghost: what the user was last told of the entry
  alarms    \* ghost: the escalations sent, as <<entry, time, caller, run>>

vars == <<rows, lock, mem, depth, pc, job, now, ops, crashes, lapses, history, told, alarms>>
ghosts == <<history, told, alarms>>
counters == <<now, ops, crashes, lapses>>

NoJob == [op |-> "none", at |-> "none", entry |-> None, source |-> None, todo |-> {},
          out |-> "none", when |-> 0, applied |-> FALSE, owns |-> FALSE]

Edits == {"pause", "resume", "remove", "add"}

Init ==
  /\ rows = [x \in Entry |-> IF x \in Added THEN FreshRow(1) ELSE Gone]
  /\ lock = None
  /\ mem = [e \in Engine |-> rows]
  /\ depth = [e \in Engine |-> 0]
  /\ pc = [c \in Caller |-> "idle"]
  /\ job = [c \in Caller |-> NoJob]
  /\ now = 1 /\ ops = 0 /\ crashes = 0 /\ lapses = 0
  /\ history = [x \in Entry |-> 0]
  /\ told = [x \in Entry |-> IF x \in Added THEN "live" ELSE "unborn"]
  /\ alarms = {}

-----------------------------------------------------------------------------
(* What an entry is due for, and what a run does to it.                    *)

\* A pending retry replaces the cadence.
Due(row) ==
  /\ row # Gone
  /\ row.enabled
  /\ IF row.retry > 0 THEN row.retryAt <= now ELSE row.next <= now

\* The outcome of a run: "ok", "transient" (retryable, within the retry window)
\* or "failed" (any other failure).
Applied(x, row, out, keep) ==
  LET again == out = "transient" /\ row.retry < MaxAttempts
      fails == IF out = "ok" THEN 0
               ELSE IF row.fails < Breaker THEN row.fails + 1 ELSE Breaker
  IN  [row EXCEPT !.enabled = (keep => @) /\ ~(Target[x] # None /\ fails = Breaker),
                  !.next = now + 1,
                  !.retry = IF again THEN @ + 1 ELSE 0,
                  !.retryAt = IF again THEN now + 1 ELSE 0,
                  !.fails = fails,
                  !.runs = @ + 1]

\* The escalation of x is on and neither its cooldown nor its rate holds it back.
MayEscalate(x, row) == row # Gone /\ Target[x] # None /\ (row.escAt = 0 \/ row.escAt < now)

(* Mutant of Edited: the replay key is not looked up. *)
EditedAnyway(op, x, table) ==
  IF op = "add" THEN [table EXCEPT ![x] = FreshRow(now)]
  ELSE IF op = "remove" THEN [table EXCEPT ![x] = Gone] ELSE table

\* A user's edit, on the table as just read.
Edited(op, x, table) ==
  IF table[x] = Gone /\ op # "add" THEN table
  ELSE CASE op = "pause"  -> [table EXCEPT ![x].enabled = FALSE]
         [] op = "resume" -> IF table[x].enabled THEN table
                             ELSE [table EXCEPT ![x] = [@ EXCEPT !.enabled = TRUE, !.next = now + 1,
                                                            !.retry = 0, !.retryAt = 0]]
         [] op = "remove" -> [table EXCEPT ![x] = Gone]
         [] op = "add"    -> IF \E y \in Entry : table[y] # Gone /\ KeyOf[y] = KeyOf[x]
                             THEN table ELSE [table EXCEPT ![x] = FreshRow(now)]

-----------------------------------------------------------------------------
(* The lock.                                                               *)

Goto(c, where, j) == /\ pc' = [pc EXCEPT ![c] = where]
                     /\ job' = [job EXCEPT ![c] = j]

\* withLock, first line: inside an engine whose depth is above zero the caller
\* goes straight to work, without a token of its own.
Enter(c) ==
  /\ pc[c] = "enter"
  /\ Goto(c, IF depth[EngineOf[c]] > 0 THEN "work" ELSE "wait", [job[c] EXCEPT !.owns = FALSE])
  /\ UNCHANGED <<rows, lock, mem, depth, counters, ghosts>>

Acquire(c) ==
  /\ pc[c] = "wait" /\ lock = None
  /\ lock' = c
  /\ depth' = [depth EXCEPT ![EngineOf[c]] = @ + 1]
  /\ Goto(c, "work", [job[c] EXCEPT !.owns = TRUE])
  /\ UNCHANGED <<rows, mem, counters, ghosts>>

\* Five seconds without the lock: the whole operation fails.
GiveUp(c) ==
  /\ pc[c] = "wait" /\ lock # None
  /\ Goto(c, "idle", NoJob)
  /\ UNCHANGED <<rows, lock, mem, depth, counters, ghosts>>

(* Mutant of Lapse: the row of a dead process is never deleted. *)
LapseLive ==
  /\ lock # None /\ lock # Orphan /\ lapses < MaxLapses
  /\ lapses' = lapses + 1
  /\ lock' = None
  /\ UNCHANGED <<rows, mem, depth, pc, job, now, ops, crashes, ghosts>>

\* The next acquirer deletes a row whose lease is over; a live holder is not told.
Lapse ==
  /\ lock # None
  /\ lock # Orphan => lapses < MaxLapses
  /\ lapses' = IF lock = Orphan THEN lapses ELSE lapses + 1
  /\ lock' = None
  /\ UNCHANGED <<rows, mem, depth, pc, job, now, ops, crashes, ghosts>>

\* What leaving a section does to the lock.
Release(c) ==
  IF job[c].owns
  THEN /\ depth' = [depth EXCEPT ![EngineOf[c]] = @ - 1]
       /\ lock' = IF lock = c THEN None ELSE lock
  ELSE UNCHANGED <<depth, lock>>

-----------------------------------------------------------------------------
(* Operations.                                                             *)

BeginTick(c) ==
  /\ c = Ticker /\ pc[c] = "idle"
  /\ Goto(c, "enter", [NoJob EXCEPT !.op = "tick", !.at = "select"])
  /\ UNCHANGED <<rows, lock, mem, depth, counters, ghosts>>

BeginManual(c, op, x) ==
  /\ op \in Ops \cap {"manual", "manual_escalate"}
  /\ c # Ticker /\ pc[c] = "idle" /\ ops < MaxOps /\ told[x] # "unborn"
  /\ ops' = ops + 1
  /\ Goto(c, "enter", [NoJob EXCEPT !.op = op, !.at = "select", !.entry = x])
  /\ UNCHANGED <<rows, lock, mem, depth, now, crashes, lapses, ghosts>>

\* One user edits an entry at a time.
BeginEdit(c, op, x) ==
  /\ op \in Ops \cap Edits
  /\ c # Ticker /\ pc[c] = "idle" /\ ops < MaxOps
  /\ op = "add" <=> told[x] = "unborn"
  /\ \A d \in Caller : job[d].op \in Edits => job[d].entry # x
  /\ ops' = ops + 1
  /\ told' = [told EXCEPT ![x] = "open"]
  /\ Goto(c, "enter", [NoJob EXCEPT !.op = op, !.at = "edit", !.entry = x])
  /\ UNCHANGED <<rows, lock, mem, depth, now, crashes, lapses, history, alarms>>

\* Re-read the table into the copy of the engine, changed or not.
Refresh(c, table) == mem' = [mem EXCEPT ![EngineOf[c]] = table]

\* Under the lock: the tick's list of due entries, with a save when a budget day is
\* over; the entry of a manual run or of an escalation.
Select(c) ==
  /\ pc[c] = "work" /\ job[c].at = "select"
  /\ Refresh(c, rows)
  /\ IF job[c].op = "tick" /\ job[c].source = None
     THEN \E where \in {"save", "leave"} :
            Goto(c, where, [job[c] EXCEPT !.todo = {x \in Entry : Due(rows[x])}])
     ELSE Goto(c, "leave", [job[c] EXCEPT !.applied = rows[job[c].entry] # Gone])
  /\ UNCHANGED <<rows, lock, depth, counters, ghosts>>

(* Mutant of Apply: the table is not read again after the run. *)
ApplyStale(c) ==
  LET x == job[c].entry  table == mem[EngineOf[c]] IN
  /\ pc[c] = "work" /\ job[c].at = "apply"
  /\ IF table[x] = Gone THEN UNCHANGED mem
     ELSE Refresh(c, [table EXCEPT ![x] = Applied(x, table[x], job[c].out, FALSE)])
  /\ Goto(c, IF table[x] = Gone THEN "leave" ELSE "save", [job[c] EXCEPT !.applied = table[x] # Gone])
  /\ UNCHANGED <<rows, lock, depth, counters, ghosts>>

(* Mutant of Apply: the outcome is left for the next save. *)
ApplyUnsaved(c) ==
  LET x == job[c].entry IN
  /\ pc[c] = "work" /\ job[c].at = "apply"
  /\ IF rows[x] = Gone THEN Refresh(c, rows)
     ELSE Refresh(c, [rows EXCEPT ![x] = Applied(x, @, job[c].out, FALSE)])
  /\ Goto(c, "leave", [job[c] EXCEPT !.applied = rows[x] # Gone])
  /\ UNCHANGED <<rows, lock, depth, counters, ghosts>>

\* Under the lock: the outcome goes into the row as it is now; a removed entry has none.
\* Only a manual run of the entry itself keeps its enabled flag.
Apply(c) ==
  LET x == job[c].entry
      keep == job[c].op # "tick" /\ job[c].source = None
  IN
  /\ pc[c] = "work" /\ job[c].at = "apply"
  /\ IF rows[x] = Gone
     THEN Refresh(c, rows) /\ Goto(c, "leave", [job[c] EXCEPT !.applied = FALSE])
     ELSE /\ Refresh(c, [rows EXCEPT ![x] = Applied(x, @, job[c].out, keep)])
          /\ Goto(c, "save", [job[c] EXCEPT !.applied = TRUE])
  /\ UNCHANGED <<rows, lock, depth, counters, ghosts>>

(* Mutant of Escalate: the stamp is not saved. *)
EscalateUnstamped(c) ==
  LET x == job[c].entry IN
  /\ pc[c] = "work" /\ job[c].at = "escalate"
  /\ Refresh(c, rows)
  /\ Goto(c, "leave", [job[c] EXCEPT !.applied = MayEscalate(x, rows[x]), !.when = now])
  /\ UNCHANGED <<rows, lock, depth, counters, ghosts>>

\* Under the lock: the cooldown is checked and stamped in one section.
Escalate(c) ==
  LET x == job[c].entry IN
  /\ pc[c] = "work" /\ job[c].at = "escalate"
  /\ IF MayEscalate(x, rows[x])
     THEN /\ Refresh(c, [rows EXCEPT ![x].escAt = now])
          /\ Goto(c, "save", [job[c] EXCEPT !.applied = TRUE, !.when = now])
     ELSE Refresh(c, rows) /\ Goto(c, "leave", [job[c] EXCEPT !.applied = FALSE])
  /\ UNCHANGED <<rows, lock, depth, counters, ghosts>>

\* Under the lock: a user's edit; withScheduleMutation saves whatever it did.
Edit(c) ==
  /\ pc[c] = "work" /\ job[c].at = "edit"
  /\ Refresh(c, Edited(job[c].op, job[c].entry, rows))
  /\ Goto(c, "save", job[c])
  /\ UNCHANGED <<rows, lock, depth, counters, ghosts>>

\* saveEntries: the whole table becomes the engine's copy of it, which another
\* caller of the engine may have read again since.
Save(c) ==
  /\ pc[c] = "save"
  /\ rows' = mem[EngineOf[c]]
  /\ Goto(c, "leave", job[c])
  /\ UNCHANGED <<lock, mem, depth, counters, ghosts>>

Done(c) == IF job[c].op = "tick" THEN Goto(c, "next", job[c]) ELSE Goto(c, "idle", NoJob)

LeaveSelect(c) ==
  /\ pc[c] = "leave" /\ job[c].at = "select"
  /\ Release(c)
  /\ CASE job[c].source # None ->
            IF job[c].applied THEN Goto(c, "running", job[c])
            ELSE Goto(c, "history", [job[c] EXCEPT !.entry = job[c].source, !.source = None])
       [] job[c].source = None /\ job[c].op = "tick" -> Goto(c, "next", job[c])
       [] OTHER -> IF job[c].applied THEN Goto(c, "running", job[c]) ELSE Done(c)
  /\ UNCHANGED <<rows, mem, counters, ghosts>>

\* A failure is looked at for an escalation; a target does not escalate in turn.
LeaveApply(c) ==
  LET asks == job[c].out # "ok" /\ job[c].source = None /\ job[c].op # "manual" IN
  /\ pc[c] = "leave" /\ job[c].at = "apply"
  /\ Release(c)
  /\ CASE job[c].applied /\ asks -> Goto(c, "enter", [job[c] EXCEPT !.at = "escalate"])
       [] job[c].applied /\ ~asks -> Goto(c, "history", job[c])
       [] ~job[c].applied /\ job[c].source # None ->
            Goto(c, "history", [job[c] EXCEPT !.entry = job[c].source, !.source = None])
       [] OTHER -> Done(c)
  /\ UNCHANGED <<rows, mem, counters, ghosts>>

\* The notification goes out, then the target runs.
LeaveEscalate(c) ==
  LET x == job[c].entry IN
  /\ pc[c] = "leave" /\ job[c].at = "escalate"
  /\ Release(c)
  /\ IF job[c].applied
     THEN /\ alarms' = alarms \cup {<<x, job[c].when, c, history[x]>>}
          /\ Goto(c, "enter", [job[c] EXCEPT !.at = "select", !.entry = Target[x], !.source = x])
     ELSE Goto(c, "history", job[c]) /\ UNCHANGED alarms
  /\ UNCHANGED <<rows, mem, counters, history, told>>

\* The user is told what the edit did.
LeaveEdit(c) ==
  LET x == job[c].entry  stored == mem[EngineOf[c]][x] IN
  /\ pc[c] = "leave" /\ job[c].at = "edit"
  /\ Release(c)
  /\ told' = [told EXCEPT ![x] = CASE job[c].op = "remove" -> "removed"
                                   [] job[c].op = "add" -> IF stored = Gone THEN "twin" ELSE "live"
                                   [] OTHER -> IF stored = Gone THEN "removed"
                                               ELSE IF job[c].op = "pause" THEN "paused" ELSE "live"]
  /\ Goto(c, "idle", NoJob)
  /\ UNCHANGED <<rows, mem, counters, history, alarms>>

\* The tick runs the entries of its list, each as it was when the list was made.
PickEntry(c) ==
  /\ pc[c] = "next"
  /\ IF job[c].todo = {} THEN Goto(c, "idle", NoJob)
     ELSE \E x \in job[c].todo :
            Goto(c, "running", [job[c] EXCEPT !.entry = x, !.todo = @ \ {x}])
  /\ UNCHANGED <<rows, lock, mem, depth, counters, ghosts>>

RunEnds(c) ==
  /\ pc[c] = "running"
  /\ \E out \in {"ok", "transient", "failed"} :
       Goto(c, "enter", [job[c] EXCEPT !.at = "apply", !.out = out])
  /\ UNCHANGED <<rows, lock, mem, depth, counters, ghosts>>

\* A target's record comes before that of the entry that escalated to it.
RecordHistory(c) ==
  /\ pc[c] = "history"
  /\ history' = [history EXCEPT ![job[c].entry] = @ + 1]
  /\ IF job[c].source # None
     THEN Goto(c, "history", [job[c] EXCEPT !.entry = job[c].source, !.source = None])
     ELSE Done(c)
  /\ UNCHANGED <<rows, lock, mem, depth, counters, told, alarms>>

\* A process dies with everything its engine was doing; its lock row stays.
Crash(e) ==
  LET dead == {c \in Caller : EngineOf[c] = e} IN
  /\ crashes < MaxCrashes
  /\ crashes' = crashes + 1
  /\ pc' = [c \in Caller |-> IF c \in dead THEN "idle" ELSE pc[c]]
  /\ job' = [c \in Caller |-> IF c \in dead THEN NoJob ELSE job[c]]
  /\ depth' = [depth EXCEPT ![e] = 0]
  /\ mem' = [mem EXCEPT ![e] = rows]
  /\ lock' = IF lock \in dead THEN Orphan ELSE lock
  /\ UNCHANGED <<rows, now, ops, lapses, ghosts>>

Time ==
  /\ now < MaxTime
  /\ now' = now + 1
  /\ UNCHANGED <<rows, lock, mem, depth, pc, job, ops, crashes, lapses, ghosts>>

Step(c) ==
  \/ Enter(c) \/ Acquire(c)
  \/ Select(c) \/ Apply(c) \/ Escalate(c) \/ Edit(c)
  \/ Save(c)
  \/ LeaveSelect(c) \/ LeaveApply(c) \/ LeaveEscalate(c) \/ LeaveEdit(c)
  \/ PickEntry(c) \/ RunEnds(c) \/ RecordHistory(c)

Next ==
  \/ \E c \in Caller : Step(c) \/ BeginTick(c) \/ GiveUp(c)
  \/ \E c \in Caller, op \in Ops, x \in Entry : BeginManual(c, op, x) \/ BeginEdit(c, op, x)
  \/ \E e \in Engine : Crash(e)
  \/ Lapse
  \/ Time

Spec == Init /\ [][Next]_vars

\* Activities go on, runs end, the maintenance loop ticks again, time passes and
\* the lease of a dead process runs out.  Nothing is assumed of users and faults.
FairSpec ==
  /\ Spec
  /\ \A c \in Caller : WF_vars(Step(c))
  /\ WF_vars(BeginTick(Ticker))
  /\ WF_vars(Lapse /\ lock = Orphan)
  /\ WF_vars(Time)

-----------------------------------------------------------------------------
(* Properties.                                                             *)

\* The variables keep their types, and a caller that works under the lock row
\* keeps the depth of its engine above zero.
TypeOK ==
  /\ rows \in [Entry -> Row \cup {Gone}]
  /\ mem \in [Engine -> [Entry -> Row \cup {Gone}]]
  /\ lock \in Caller \cup {Orphan, None}
  /\ depth \in [Engine -> Nat]
  /\ pc \in [Caller -> {"idle", "enter", "wait", "work", "save", "leave", "next", "running", "history"}]
  /\ now \in 1..MaxTime
  /\ \A c \in Caller : (pc[c] \in {"work", "save", "leave"} /\ job[c].owns) => depth[EngineOf[c]] > 0

\* The cadence and the retry state of a run are in the table before its record is in
\* the history, whatever crashes (runtime-auto-recovery.md: "saved before history
\* recording"): no entry has more records than saved outcomes.
HistoryIsSaved == \A x \in Entry : rows[x] # Gone => history[x] <= rows[x].runs

\* What a user was told of an entry stays true: a removed entry does not come back
\* with a run's outcome, and one that was added or edited is not lost.
ToldIsStored ==
  \A x \in Entry :
    /\ told[x] = "removed" => rows[x] = Gone
    /\ told[x] \in {"live", "paused"} => rows[x] # Gone

\* A durable create decision that is retried makes one schedule, however the two
\* attempts interleave (addEntryInMemory looks for the replay key).
OneEntryPerKey ==
  \A x, y \in Entry : (rows[x] # Gone /\ rows[y] # Gone /\ KeyOf[x] = KeyOf[y]) => x = y

\* One alarm per cooldown: a tick and a manual run that fail together do not both
\* escalate.
OneAlarmPerCooldown == \A a, b \in alarms : (a[1] = b[1] /\ a[2] = b[2]) => a = b

\* A pause holds until the user resumes the entry.
PauseHolds == \A x \in Entry : told[x] = "paused" => rows[x] # Gone /\ ~rows[x].enabled

\* Two runs of one entry do not overlap.
NoOverlap ==
  \A c, d \in Caller :
    (pc[c] = "running" /\ pc[d] = "running" /\ job[c].entry = job[d].entry) => c = d

\* A slot of the cadence that has come is run or given up with the entry: none is
\* stuck behind the lock of a dead process or behind a retry.
DueIsRun ==
  \A x \in Entry, n \in 1..MaxTime :
    LET waits == rows[x] # Gone /\ rows[x].enabled /\ rows[x].next = n /\ n <= now
    IN  waits ~> ~waits
=============================================================================
