------------------------------ MODULE GoalLease ------------------------------
(***************************************************************************)
(* The goal leases (src/runtime/goal-lease-manager.ts): one row per goal,  *)
(* naming the token of the execution that owns the goal and until when.    *)
(*                                                                         *)
(* acquire and renew read the clock BEFORE they await the database handle, *)
(* so the reading they use may be old when their transaction runs: `lag`   *)
(* is how old.  A row keeps what is left of lease_until, which goes below  *)
(* zero down to -MaxLag: a lagging reading still sees such a row as live.  *)
(* `promised` is what is left of the lease_until in the record that the    *)
(* last successful call returned to its caller.                            *)
(***************************************************************************)
EXTENDS Integers

CONSTANTS
  Goal,             (* goal ids                                            *)
  Owner, NoOwner,   (* owner tokens, and what an absent row shows          *)
  LeaseTicks,       (* the leaseMs callers ask for                         *)
  MaxLag            (* bounds how old a clock reading can be when used     *)

ASSUME LeaseAssumption ==
  /\ NoOwner \notin Owner
  /\ LeaseTicks \in Nat \ {0}
  /\ MaxLag \in Nat

VARIABLES
  lease,            (* the rows of goal_leases                             *)
  promised          (* promised[o][g]: lease time o was told it still has  *)

vars == <<lease, promised>>

-----------------------------------------------------------------------------

NoLease == [owner |-> NoOwner, left |-> 0]

Init ==
  /\ lease = [g \in Goal |-> NoLease]
  /\ promised = [o \in Owner |-> [g \in Goal |-> 0]]

Owned(g)         == lease[g].owner # NoOwner
LiveAt(g, lag)   == lease[g].left + lag > 0
Told(o, g, time) == promised' = [promised EXCEPT ![o][g] = IF time > 0 THEN time ELSE 0]

Granted(o, g, lag) ==
  /\ lease' = [lease EXCEPT ![g] = [owner |-> o, left |-> LeaseTicks - lag]]
  /\ Told(o, g, LeaseTicks - lag)

Acquire(o, g, lag) ==
  /\ ~(Owned(g) /\ LiveAt(g, lag))
  /\ Granted(o, g, lag)

RenewAnyOwner(o, g, lag) ==
  /\ Owned(g) /\ LiveAt(g, lag)
  /\ Granted(o, g, lag)

Renew(o, g, lag) ==
  /\ lease[g].owner = o
  /\ LiveAt(g, lag)
  /\ Granted(o, g, lag)

(* Deletes the caller's own row, lapsed or not. *)
Release(o, g) ==
  /\ lease[g].owner = o
  /\ lease' = [lease EXCEPT ![g] = NoLease]
  /\ Told(o, g, 0)

(* Offered by the class; the daemon never calls it. *)
ReapStale(lag) ==
  /\ \E g \in Goal : Owned(g) /\ ~LiveAt(g, lag)
  /\ lease' = [g \in Goal |-> IF LiveAt(g, lag) THEN lease[g] ELSE NoLease]
  /\ UNCHANGED promised

(* The holder's process dies: the row stays, nobody relies on it any more. *)
Forget(o) ==
  /\ \E g \in Goal : promised[o][g] > 0
  /\ promised' = [promised EXCEPT ![o] = [g \in Goal |-> 0]]
  /\ UNCHANGED lease

LeaseAged(r) ==
  [r EXCEPT !.left = IF r.owner # NoOwner /\ @ > -MaxLag THEN @ - 1 ELSE @]

Tick ==
  /\ lease' = [g \in Goal |-> LeaseAged(lease[g])]
  /\ promised' = [o \in Owner |-> [g \in Goal |->
                    IF promised[o][g] > 0 THEN promised[o][g] - 1 ELSE 0]]

Next ==
  \/ \E o \in Owner, g \in Goal :
       \/ \E lag \in 0..MaxLag : Acquire(o, g, lag) \/ Renew(o, g, lag)
       \/ Release(o, g)
  \/ \E lag \in 0..MaxLag : ReapStale(lag)
  \/ \E o \in Owner : Forget(o)
  \/ Tick

Spec == Init /\ [][Next]_vars

-----------------------------------------------------------------------------
(* Properties *)

(* Type invariant. *)
TypeOK ==
  /\ lease \in [Goal -> [owner : Owner \cup {NoOwner}, left : (-MaxLag)..LeaseTicks]]
  /\ promised \in [Owner -> [Goal -> 0..LeaseTicks]]

(* Whoever was told that it owns a goal for some time yet is the owner the *)
(* row names, for at least that long: no acquire, renewal, release or reap *)
(* of another caller takes the goal away early, old clock readings or not. *)
LeaseHonoured ==
  \A o \in Owner, g \in Goal :
    promised[o][g] > 0 => lease[g].owner = o /\ lease[g].left >= promised[o][g]

(* Two executions never both have an unexpired lease on one goal.          *)
OneHolderPerGoal ==
  \A o, p \in Owner, g \in Goal :
    promised[o][g] > 0 /\ promised[p][g] > 0 => o = p
=============================================================================
