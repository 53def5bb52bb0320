---------------------------- MODULE BackgroundRuns ----------------------------
(***************************************************************************)
(* One background run and its ledger entry (src/runtime/store/background-  *)
(* run-store.ts).  A chat creates the entry and asks the daemon to start   *)
(* the goal (interface/chat/tend-command.ts, run-spec/handoff.ts); the     *)
(* supervisor marks the entry as its executions of the activation start,   *)
(* end or are given up by a shutdown (executor/loop-supervisor.ts).  Every *)
(* mark loads the entry and saves it in a later transaction.               *)
(*                                                                         *)
(* The activation is a queue record that is delivered again until it is    *)
(* acknowledged; GoalLease and JournalBackedQueue say when a claim lapses, *)
(* here it may at any time.  An entry is its status and whether it has a   *)
(* completion time; links, summaries and source references are left out.   *)
(***************************************************************************)
EXTENDS Naturals, FiniteSets

CONSTANTS
  MaxRuns,         (* bounds the executions of the activation              *)
  MaxCrashes,      (* bounds the crashes of the daemon                     *)
  MaxStarts,       (* bounds the start requests of the chat                *)
  MayLapse,        (* whether the claim of a live execution may lapse      *)
  MaxShutdowns,    (* bounds how often the daemon is told to stop          *)
  ReplyMayGetLost  (* whether a start that was accepted may look failed    *)

(* What a module that instantiates this one assumes of its constants.       *)
RunsAssumption ==
  /\ MaxRuns \in Nat \ {0} /\ MaxCrashes \in Nat /\ MaxStarts \in Nat \ {0}
  /\ MaxShutdowns \in Nat /\ {MayLapse, ReplyMayGetLost} \subseteq BOOLEAN

Run == 1 .. MaxRuns
Yielder(r) == MaxRuns + r
Writer == 0 .. 2 * MaxRuns  (* the chat, the executions, their giving up   *)
Terminal == {"succeeded", "failed"}
NoEntry == [status |-> "none", completed |-> FALSE]

VARIABLES
  entry,       (* the ledger entry                                         *)
  loaded,      (* loaded[w]: the entry that writer w has read to update it *)
  activation,  (* "none", "pending", "inflight", "done" or "dead"          *)
  holder,      (* the execution that holds the claim, 0 for none           *)
  at,          (* at[r]: where execution r is                              *)
  result,      (* result[r]: how the run of execution r ended              *)
  givenUp,     (* shutdownRelinquishedClaimTokens, by execution            *)
  yielding,    (* yielding[r]: where the giving up of execution r is       *)
  lost,        (* executions that know that their claim is gone            *)
  daemon,      (* "up" or "stopping"                                       *)
  chat,        (* where the chat's start request is                        *)
  crashes, shutdowns, starts,
  told,        (* history: the chat was told that nothing was started      *)
  settled,     (* history: the execution that settled the activation       *)
  ran          (* history: executions that have run the goal               *)

vars == <<entry, loaded, activation, holder, at, result, givenUp, yielding, lost, daemon,
          chat, crashes, shutdowns, starts, told, settled, ran>>
execVars == <<activation, holder, at, result, givenUp, yielding, lost, settled, ran>>
chatVars == <<chat, starts, told>>
outages  == <<crashes, shutdowns>>

(* The bound leaves an execution to deliver the activation to.             *)
RunsLeft == at[MaxRuns] = "idle"

Init ==
  /\ entry = NoEntry /\ loaded = [w \in Writer |-> NoEntry]
  /\ activation = "none" /\ holder = 0
  /\ at = [r \in Run |-> "idle"] /\ result = [r \in Run |-> "none"]
  /\ givenUp = {} /\ yielding = [r \in Run |-> "no"] /\ lost = {}
  /\ daemon = "up" /\ chat = "idle" /\ crashes = 0
  /\ shutdowns = 0 /\ starts = 0
  /\ told = FALSE /\ settled = 0 /\ ran = {}

-----------------------------------------------------------------------------

(* update(): load, then save what the updater makes of the loaded entry.   *)
Load(w) == entry.status # "none" /\ loaded' = [loaded EXCEPT ![w] = entry]
Save(w, e) == entry' = e /\ loaded' = [loaded EXCEPT ![w] = NoEntry]

Started(e)     == [e EXCEPT !.status = "running"]
Queued(e)      == [e EXCEPT !.status = "queued", !.completed = FALSE]
Ended(e, how)  == [e EXCEPT !.status = how, !.completed = TRUE]

-----------------------------------------------------------------------------

(* The chat takes the entry that is there or creates one ...               *)
CreateEntry ==
  /\ chat = "idle" /\ starts < MaxStarts
  /\ starts' = starts + 1 /\ chat' = "posting" /\ told' = FALSE
  /\ entry' = IF entry.status = "none" THEN [NoEntry EXCEPT !.status = "queued"] ELSE entry
  /\ UNCHANGED <<loaded, execVars, daemon, outages>>

(* ... and asks the daemon to start the goal: the activation is queued
   unless one is waiting or under way.                                     *)
Accept == activation' = IF activation \in {"pending", "inflight"} THEN activation ELSE "pending"

PostStart ==
  /\ chat = "posting" /\ daemon = "up"
  /\ Accept /\ chat' = "idle"
  /\ UNCHANGED <<entry, loaded, holder, at, result, givenUp, yielding, lost, daemon, outages,
                 starts, told, settled, ran>>

(* The request fails: the daemon did not take it, or its answer was lost.  *)
PostFails ==
  /\ chat = "posting"
  /\ \/ daemon # "up" /\ UNCHANGED activation
     \/ ReplyMayGetLost /\ daemon = "up" /\ Accept
  /\ chat' = "failing"
  /\ UNCHANGED <<entry, loaded, holder, at, result, givenUp, yielding, lost, daemon, outages,
                 starts, told, settled, ran>>

FailLoads ==
  /\ chat = "failing" /\ Load(0)
  /\ chat' = "saving"
  /\ UNCHANGED <<entry, execVars, daemon, outages, starts, told>>

FailSaves ==
  /\ chat = "saving"
  /\ Save(0, Ended(loaded[0], "failed"))
  /\ chat' = "idle" /\ told' = TRUE
  /\ UNCHANGED <<execVars, daemon, outages, starts>>

-----------------------------------------------------------------------------

Goes(r, to) == at' = [at EXCEPT ![r] = to]

(* A worker claims the activation.  One execution per goal and process: the
   one whose claim lapsed belongs to a process that lost its leadership.   *)
Claim(r) ==
  /\ daemon = "up" /\ activation = "pending" /\ at[r] = "idle"
  /\ \A s \in Run : s < r => at[s] # "idle"
  /\ \A s \in Run : at[s] \notin {"idle", "gone"} => s \in lost
  /\ activation' = "inflight" /\ holder' = r /\ Goes(r, "starting")
  /\ UNCHANGED <<entry, loaded, result, givenUp, yielding, lost, daemon, chatVars,
                 outages, settled, ran>>

StartLoads(r) ==
  /\ at[r] = "starting" /\ Load(r) /\ Goes(r, "marking")
  /\ UNCHANGED <<entry, activation, holder, result, givenUp, yielding, lost, daemon, chatVars,
                 outages, settled, ran>>

StartSaves(r) ==
  /\ at[r] = "marking"
  /\ Save(r, Started(loaded[r])) /\ Goes(r, "running") /\ ran' = ran \cup {r}
  /\ UNCHANGED <<activation, holder, result, givenUp, yielding, lost, daemon, chatVars,
                 outages, settled>>

(* Mutant of RunEnds: the claim is settled without the outcome.            *)
RunEndsUnrecorded(r) ==
  /\ at[r] = "running"
  /\ \E how \in Terminal : result' = [result EXCEPT ![r] = how]
  /\ Goes(r, "settling")
  /\ UNCHANGED <<entry, loaded, activation, holder, givenUp, yielding, lost, daemon, chatVars,
                 outages, settled, ran>>

(* The worker returns.  An execution that was given up stops here.         *)
RunEnds(r) ==
  /\ at[r] = "running"
  /\ \E how \in {"succeeded", "failed"} \cup (IF RunsLeft THEN {"error"} ELSE {}) :
       /\ result' = [result EXCEPT ![r] = how]
       /\ Goes(r, CASE r \in givenUp -> "releasing"
                    [] r \notin givenUp /\ how = "error" -> "retrying"
                    [] OTHER -> "ending")
  /\ UNCHANGED <<entry, loaded, activation, holder, givenUp, yielding, lost, daemon, chatVars,
                 outages, settled, ran>>

(* Mutant of Retry: the claim is not handed back.                          *)
RetryKeepsClaim(r) ==
  /\ at[r] = "retrying" /\ Goes(r, "releasing")
  /\ UNCHANGED <<entry, loaded, activation, holder, result, givenUp, yielding, lost, daemon,
                 chatVars, outages, settled, ran>>

(* deferDurableRetry: the claim is handed back after a pause, without a
   word in the ledger.                                                     *)
Retry(r) ==
  /\ at[r] = "retrying" /\ Goes(r, "releasing")
  /\ IF holder = r THEN activation' = "pending" /\ holder' = 0
                   ELSE UNCHANGED <<activation, holder>>
  /\ UNCHANGED <<entry, loaded, result, givenUp, yielding, lost, daemon, chatVars,
                 outages, settled, ran>>

EndLoads(r) ==
  /\ at[r] = "ending" /\ Load(r) /\ Goes(r, "recording")
  /\ UNCHANGED <<entry, activation, holder, result, givenUp, yielding, lost, daemon, chatVars,
                 outages, settled, ran>>

EndSaves(r) ==
  /\ at[r] = "recording"
  /\ Save(r, Ended(loaded[r], result[r])) /\ Goes(r, "settling")
  /\ UNCHANGED <<activation, holder, result, givenUp, yielding, lost, daemon, chatVars,
                 outages, settled, ran>>

(* completeClaim, or failClaim without requeue after too many crashes: the
   claim is settled if the execution still has it.                         *)
Settle(r) ==
  /\ at[r] = "settling" /\ Goes(r, "releasing")
  /\ IF holder = r /\ r \notin lost
     THEN /\ activation' = (IF result[r] = "failed" THEN "dead" ELSE "done")
          /\ holder' = 0 /\ settled' = r
     ELSE UNCHANGED <<activation, holder, settled>>
  /\ UNCHANGED <<entry, loaded, result, givenUp, yielding, lost, daemon, chatVars, outages, ran>>

(* The finally block releases the lease and forgets the execution.         *)
Release(r) ==
  /\ at[r] = "releasing" /\ Goes(r, "gone")
  /\ UNCHANGED <<entry, loaded, activation, holder, result, givenUp, yielding, lost, daemon,
                 chatVars, outages, settled, ran>>

-----------------------------------------------------------------------------

(* The renewal fails: the claim is swept, and the execution is told.       *)
Lapse(r) ==
  /\ MayLapse /\ holder = r /\ RunsLeft
  /\ activation' = "pending" /\ holder' = 0 /\ lost' = lost \cup {r}
  /\ UNCHANGED <<entry, loaded, at, result, givenUp, yielding, daemon, chatVars, outages,
                 settled, ran>>

ShutDown ==
  /\ shutdowns < MaxShutdowns /\ daemon = "up" /\ RunsLeft
  /\ shutdowns' = shutdowns + 1 /\ daemon' = "stopping"
  /\ UNCHANGED <<entry, loaded, execVars, chatVars, crashes>>

(* relinquishActiveExecutionAfterShutdownGrace: the claim goes back to the
   queue if it is still held; the entry is marked queued in any case.      *)
Relinquish(r) ==
  /\ daemon = "stopping" /\ at[r] \notin {"idle", "gone"} /\ yielding[r] = "no"
  /\ givenUp' = givenUp \cup {r} /\ yielding' = [yielding EXCEPT ![r] = "loading"]
  /\ IF holder = r THEN activation' = "pending" /\ holder' = 0
                   ELSE UNCHANGED <<activation, holder>>
  /\ UNCHANGED <<entry, loaded, at, result, lost, daemon, chatVars,
                 outages, settled, ran>>

QueuedLoads(r) ==
  /\ yielding[r] = "loading" /\ Load(Yielder(r))
  /\ yielding' = [yielding EXCEPT ![r] = "saving"]
  /\ UNCHANGED <<entry, activation, holder, at, result, givenUp, lost, daemon, chatVars,
                 outages, settled, ran>>

QueuedSaves(r) ==
  /\ yielding[r] = "saving"
  /\ Save(Yielder(r), Queued(loaded[Yielder(r)])) /\ yielding' = [yielding EXCEPT ![r] = "done"]
  /\ UNCHANGED <<activation, holder, at, result, givenUp, lost, daemon, chatVars,
                 outages, settled, ran>>

(* The process ends, after a shutdown that has given up what was running or
   by a crash; the claims it held lapse, and the daemon starts again.      *)
ProcessEnds ==
  /\ \/ /\ daemon = "stopping"
        /\ \A r \in Run : yielding[r] = "done" \/ at[r] \in {"idle", "gone"}
        /\ UNCHANGED crashes
     \/ crashes < MaxCrashes /\ RunsLeft /\ crashes' = crashes + 1
  /\ UNCHANGED shutdowns
  /\ at' = [r \in Run |-> IF at[r] = "idle" THEN "idle" ELSE "gone"]
  /\ yielding' = [r \in Run |-> "no"] /\ daemon' = "up" /\ holder' = 0
  /\ activation' = IF activation = "inflight" THEN "pending" ELSE activation
  /\ loaded' = [w \in Writer |-> IF w = 0 THEN loaded[0] ELSE NoEntry]
  /\ UNCHANGED <<entry, result, givenUp, lost, chatVars, settled, ran>>

ExecutionStep(r) ==
  \/ Claim(r) \/ StartLoads(r) \/ StartSaves(r) \/ RunEnds(r) \/ Retry(r)
  \/ EndLoads(r) \/ EndSaves(r) \/ Settle(r) \/ Release(r)

ChatStep == CreateEntry \/ PostStart \/ PostFails \/ FailLoads \/ FailSaves

Next ==
  \/ ChatStep \/ ShutDown \/ ProcessEnds
  \/ \E r \in Run : ExecutionStep(r) \/ Lapse(r) \/ Relinquish(r)
                     \/ QueuedLoads(r) \/ QueuedSaves(r)

Spec == Init /\ [][Next]_vars

(* Promises settle, the poll loop claims what is pending, a process that is
   told to stop gives up what is running and ends.                         *)
FairSpec ==
  /\ Spec
  /\ \A r \in Run : /\ WF_vars(ExecutionStep(r)) /\ WF_vars(Relinquish(r))
                    /\ WF_vars(QueuedLoads(r) \/ QueuedSaves(r))
  /\ WF_vars(daemon = "stopping" /\ ProcessEnds)

-----------------------------------------------------------------------------

(* Every variable has its type.                                            *)
TypeOK ==
  LET Entry == [status : {"none", "queued", "running"} \cup Terminal, completed : BOOLEAN]
  IN  /\ entry \in Entry /\ loaded \in [Writer -> Entry]
      /\ activation \in {"none", "pending", "inflight", "done", "dead"}
      /\ holder \in {0} \cup Run /\ settled \in {0} \cup Run
      /\ at \in [Run -> {"idle", "starting", "marking", "running", "retrying", "ending",
                         "recording", "settling", "releasing", "gone"}]
      /\ result \in [Run -> {"none", "error"} \cup Terminal]
      /\ givenUp \subseteq Run /\ lost \subseteq Run /\ ran \subseteq Run
      /\ yielding \in [Run -> {"no", "loading", "saving", "done"}]
      /\ daemon \in {"up", "stopping"} /\ chat \in {"idle", "posting", "failing", "saving"}
      /\ crashes \in 0 .. MaxCrashes /\ shutdowns \in 0 .. MaxShutdowns
      /\ starts \in 0 .. MaxStarts /\ told \in BOOLEAN

(* Nothing is about to write the entry.                                    *)
NoWriter ==
  /\ chat \in {"idle", "posting"}
  /\ \A r \in Run : /\ at[r] \notin {"marking", "ending", "recording"}
                    /\ yielding[r] \in {"no", "done"}

(* Whatever crashed and was run again meanwhile, once the activation is
   settled the ledger shows the outcome of the execution that settled it:
   the outcome is saved before the claim is acknowledged.                  *)
RecordedOutcome ==
  activation \in {"done", "dead"} /\ NoWriter => entry.status = result[settled] /\ entry.completed

(* A start that the daemon has accepted is settled in the end, through
   retries, lapsed claims, shutdowns and crashes.                          *)
AcceptedIsSettled == activation = "pending" ~> activation \in {"done", "dead"}

(* A chat that reports that nothing was started is right.                  *)
ToldNotStarted == told => ran = {}

(* The outcome of a run is recorded by an execution that owns the goal.    *)
OwnerRecords == [][\A r \in Run : at[r] = "recording" /\ at'[r] = "settling" => holder = r]_vars
=============================================================================
