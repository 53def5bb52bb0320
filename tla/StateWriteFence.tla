--------------------------- MODULE StateWriteFence ---------------------------
(***************************************************************************)
(* How a goal's durable state is written: the per-process promise queue    *)
(* and the write fence of StateManager, the write lock of                  *)
(* GoalTaskStateStore in the shared control database, and the goal lease   *)
(* the fence consults.  Queue, lock, fence and lease are all kept goal by  *)
(* goal, so the module follows one goal through several daemon processes.  *)
(*                                                                         *)
(* A mutation takes the lock row, awaits the fence, awaits the write and   *)
(* deletes the lock row.  Those are separate transactions: time, other     *)
(* processes and a crash come between any two of them.  The promise queue  *)
(* runs one mutation per goal and process at a time, so `mutation` is the  *)
(* one at its head.  A restarted process is again a member of Process.     *)
(***************************************************************************)
EXTENDS Integers

CONSTANTS
  Goal,             (* the goal that is followed                           *)
  Owner, NoOwner,   (* execution tokens, one per claim                     *)
  LeaseTicks, MaxLag,
  Process,          (* daemon processes that share the control database    *)
  NoProcess, Orphan,(* nobody holds the lock; a dead process holds it      *)
  LockTicks         (* GOAL_STATE_WRITE_LOCK_LEASE_MS                      *)

(* What a module that instantiates this one assumes of its constants.       *)
FenceAssumption ==
  /\ NoOwner \notin Owner
  /\ NoProcess \notin Process /\ Orphan \notin Process /\ NoProcess # Orphan
  /\ LeaseTicks \in Nat \ {0} /\ MaxLag \in Nat /\ LockTicks \in Nat \ {0}

VARIABLES
  lease, promised,  (* of GoalLease                                        *)
  run,              (* run[p]: p's execution of the goal, and its phase    *)
  lock,             (* the goal's row of goal_state_write_locks            *)
  mutation,         (* the mutation at the head of p's queue               *)
  turn, era,        (* history: executions so far, and which one o was     *)
  lastEra,          (* history: the era of the last commit of an execution *)
  late              (* history: owners that committed after a takeover     *)

leaseVars   == <<lease, promised>>
historyVars == <<turn, era, lastEra, late>>
vars        == <<lease, promised, run, lock, mutation, turn, era, lastEra, late>>

Leases == INSTANCE GoalLease WITH Goal <- {Goal}

-----------------------------------------------------------------------------

NoRun      == [token |-> NoOwner, phase |-> "none"]
NoMutation == [author |-> NoOwner, stage |-> "none"]
NoLock     == [holder |-> NoProcess, left |-> 0]

Init ==
  /\ Leases!Init
  /\ run = [p \in Process |-> NoRun]
  /\ lock = NoLock
  /\ mutation = [p \in Process |-> NoMutation]
  /\ turn = 0 /\ era = [o \in Owner |-> 0]
  /\ lastEra = 0 /\ late = {}

In(p, phase)    == run[p].phase = phase
Enters(p, phase) == run' = [run EXCEPT ![p].phase = phase]
At(p, stage)    == mutation[p].stage = stage
Goes(p, stage)  == mutation' = [mutation EXCEPT ![p].stage = stage]
Ends(p)         == mutation' = [mutation EXCEPT ![p] = NoMutation]
Author(p)       == mutation[p].author
TakenOver(o)    == era[o] < turn

(* The token p's write fence compares; NoOwner while p has no fence. *)
Fence(p) == IF In(p, "fenced") THEN run[p].token ELSE NoOwner

-----------------------------------------------------------------------------
(* The execution *)

(* The supervisor obtains the goal lease under a fresh claim token. *)
StartExecution(p, o, lag) ==
  /\ In(p, "none") /\ era[o] = 0
  /\ Leases!Acquire(o, Goal, lag)
  /\ run' = [run EXCEPT ![p] = [token |-> o, phase |-> "leased"]]
  /\ turn' = turn + 1 /\ era' = [era EXCEPT ![o] = turn + 1]
  /\ UNCHANGED <<lock, mutation, lastEra, late>>

InstallFence(p) ==
  /\ In(p, "leased")
  /\ Enters(p, "fenced")
  /\ UNCHANGED <<leaseVars, lock, mutation, historyVars>>

(* The renew loop.  Losing the lease stops the loop, not the execution. *)
RenewLease(p, lag) ==
  /\ In(p, "fenced")
  /\ Leases!Renew(run[p].token, Goal, lag)
  /\ UNCHANGED <<run, lock, mutation, historyVars>>

(* Shutdown gives away the lease of an execution that does not settle. *)
Relinquish(p) ==
  /\ In(p, "fenced")
  /\ Leases!Release(run[p].token, Goal)
  /\ UNCHANGED <<run, lock, mutation, historyVars>>

(* The execution has settled, its own writes included. *)
ClearFence(p) ==
  /\ In(p, "fenced")
  /\ Author(p) = NoOwner
  /\ Enters(p, "ending")
  /\ UNCHANGED <<leaseVars, lock, mutation, historyVars>>

EndExecution(p) ==
  /\ In(p, "ending")
  /\ \/ Leases!Release(run[p].token, Goal)
     \/ lease[Goal].owner # run[p].token /\ UNCHANGED leaseVars
  /\ run' = [run EXCEPT ![p] = NoRun]
  /\ UNCHANGED <<lock, mutation, historyVars>>

-----------------------------------------------------------------------------
(* One mutation *)

(* Requested by the execution or, with no author, by anything else in the  *)
(* process: a command handler, the maintenance cycle, a tool.              *)
Request(p, author) ==
  /\ At(p, "none")
  /\ author = NoOwner \/ author = Fence(p)
  /\ mutation' = [mutation EXCEPT ![p] = [author |-> author, stage |-> "waiting"]]
  /\ UNCHANGED <<leaseVars, run, lock, historyVars>>

LockIsFree == lock.left = 0

TakeLock(p) ==
  /\ At(p, "waiting") /\ LockIsFree
  /\ lock' = [holder |-> p, left |-> LockTicks]
  /\ Goes(p, "locked")
  /\ UNCHANGED <<leaseVars, run, historyVars>>

(* GOAL_STATE_WRITE_LOCK_TIMEOUT_MS have passed in front of a taken lock. *)
LockTimeout(p) ==
  /\ At(p, "waiting") /\ ~LockIsFree
  /\ Ends(p)
  /\ UNCHANGED <<leaseVars, run, lock, historyVars>>

FenceExpiryOnly(p) == Fence(p) = NoOwner \/ lease[Goal].left > 0

(* Without a fence every mutation passes; the fence itself reads the row   *)
(* and the clock afresh.                                                   *)
FenceHolds(p) ==
  \/ Fence(p) = NoOwner
  \/ lease[Goal].owner = Fence(p) /\ lease[Goal].left > 0

CheckFenceNotAwaited(p) ==
  /\ At(p, "locked")
  /\ Goes(p, "cleared")
  /\ UNCHANGED <<leaseVars, run, lock, historyVars>>

CheckFence(p) ==
  /\ At(p, "locked")
  /\ Goes(p, IF FenceHolds(p) THEN "cleared" ELSE "unlocking")
  /\ UNCHANGED <<leaseVars, run, lock, historyVars>>

Commit(p) ==
  LET o == Author(p) IN
  /\ At(p, "cleared")
  /\ Goes(p, "unlocking")
  /\ IF o = NoOwner THEN UNCHANGED <<lastEra, late>>
     ELSE /\ lastEra' = era[o]
          /\ late' = IF TakenOver(o) THEN late \cup {o} ELSE late
  /\ UNCHANGED <<leaseVars, run, lock, turn, era>>

(* The finally clause deletes the lock row if it is still p's. *)
Unlock(p) ==
  /\ At(p, "unlocking")
  /\ lock' = IF lock.holder = p THEN NoLock ELSE lock
  /\ Ends(p)
  /\ UNCHANGED <<leaseVars, run, historyVars>>

-----------------------------------------------------------------------------

(* The process dies: rows stay behind, nobody knows the lock's token. *)
Crash(p) ==
  /\ run[p] # NoRun \/ ~At(p, "none")
  /\ run' = [run EXCEPT ![p] = NoRun]
  /\ Ends(p)
  /\ lock' = IF lock.holder = p THEN [lock EXCEPT !.holder = Orphan] ELSE lock
  /\ IF run[p].token = NoOwner THEN UNCHANGED leaseVars
     ELSE /\ promised' = [promised EXCEPT ![run[p].token] = [g \in {Goal} |-> 0]]
          /\ UNCHANGED lease
  /\ UNCHANGED historyVars

Tick ==
  /\ Leases!Tick
  /\ lock' = [lock EXCEPT !.left = IF @ > 0 THEN @ - 1 ELSE 0]
  /\ UNCHANGED <<run, mutation, historyVars>>

Next ==
  \/ \E p \in Process :
       \/ \E o \in Owner, lag \in 0..MaxLag : StartExecution(p, o, lag)
       \/ \E lag \in 0..MaxLag : RenewLease(p, lag)
       \/ InstallFence(p) \/ Relinquish(p) \/ ClearFence(p) \/ EndExecution(p)
       \/ \E author \in Owner \cup {NoOwner} : Request(p, author)
       \/ TakeLock(p) \/ LockTimeout(p) \/ CheckFence(p) \/ Commit(p) \/ Unlock(p)
       \/ Crash(p)
  \/ Tick

Spec == Init /\ [][Next]_vars

-----------------------------------------------------------------------------
(* Properties *)

Stages == {"none", "waiting", "locked", "cleared", "unlocking"}

(* Type invariant; a process that is idle keeps nothing of its last run or *)
(* mutation.                                                               *)
TypeOK ==
  /\ Leases!TypeOK
  /\ run \in [Process -> [token : Owner \cup {NoOwner},
                          phase : {"none", "leased", "fenced", "ending"}]]
  /\ lock \in [holder : Process \cup {NoProcess, Orphan}, left : 0..LockTicks]
  /\ mutation \in [Process -> [author : Owner \cup {NoOwner}, stage : Stages]]
  /\ \A p \in Process : /\ In(p, "none") => run[p] = NoRun
                        /\ At(p, "none") => mutation[p] = NoMutation
  /\ turn \in Nat /\ era \in [Owner -> Nat] /\ lastEra \in Nat
  /\ late \in SUBSET Owner

Commits(p, o) == At(p, "cleared") /\ At(p, "unlocking")' /\ Author(p) = o

(* An execution whose goal was taken over by a newer owner never puts its  *)
(* state over a newer owner's, as long as the lock row it wrote under is   *)
(* still its own: the lock carries the fence's verdict up to the write.    *)
NoStaleOverwrite ==
  [][\A p \in Process : \A o \in Owner :
       Commits(p, o) /\ lock.holder = p => lastEra <= era[o]]_vars

(* A taken-over execution gets at most one more write through: the one     *)
(* that had passed the fence before; whatever it tries next is rejected.   *)
OneLateCommitAtMost ==
  [][\A p \in Process : \A o \in Owner :
       Commits(p, o) /\ TakenOver(o) => o \notin late]_vars

(* runtime-auto-recovery.md:93 "A worker must still own the lease at       *)
(* commit time or its write is rejected by the state write fence."  The    *)
(* fence is awaited before the write, and the lease may lapse in between.  *)
CommitsOwnTheLease ==
  [][\A p \in Process : \A o \in Owner :
       Commits(p, o) => lease[Goal].owner = o /\ lease[Goal].left > 0]_vars
=============================================================================
