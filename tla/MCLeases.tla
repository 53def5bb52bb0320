------------------------------ MODULE MCLeases ------------------------------
(***************************************************************************)
(* Goal leases and the write fence that relies on them, for TLC.  A        *)
(* behaviour is one of GoalLease alone, with longer leases and older clock *)
(* readings, or one of StateWriteFence on the same lease row; `subject`    *)
(* says which.                                                             *)
(***************************************************************************)
EXTENDS GoalLease, TLC

CONSTANTS
  TheGoal,          (* the goal whose writes are followed                  *)
  FenceTicks, FenceLag, LockTicks,      (* its lease and its write lock    *)
  Process, NoProcess, Orphan

VARIABLES subject, run, lock, mutation, turn, era, lastEra, late

Fence == INSTANCE StateWriteFence WITH
  Goal <- TheGoal, LeaseTicks <- FenceTicks, MaxLag <- FenceLag

ASSUME Instances == Goal = {TheGoal} /\ Fence!FenceAssumption

fenceVars == <<run, lock, mutation, turn, era, lastEra, late>>

LeasesInit ==
  /\ subject \in {"lease", "fence"}
  /\ Init /\ Fence!Init

LeasesNext ==
  \/ subject = "lease" /\ Next /\ UNCHANGED <<subject, fenceVars>>
  \/ subject = "fence" /\ Fence!Next /\ UNCHANGED subject

LeasesSpec == LeasesInit /\ [][LeasesNext]_<<subject, vars, fenceVars>>

LeasesSymmetry == Permutations(Owner) \cup Permutations(Process)

(* An execution whose goal was taken over never puts its state over a      *)
(* newer owner's as long as the write lock is still its own.               *)
NoStaleOverwrite == Fence!NoStaleOverwrite

(* A taken-over execution gets at most one more write through.             *)
OneLateCommitAtMost == Fence!OneLateCommitAtMost

(* A worker still owns the lease when its write is committed.              *)
CommitsOwnTheLease == Fence!CommitsOwnTheLease
=============================================================================
