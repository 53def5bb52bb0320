-------------------------- MODULE MCLoopSupervisor --------------------------
(***************************************************************************)
(* Instances of LoopSupervisor for TLC.  a and b activate goal g, a with   *)
(* the plain dedupe key, b on behalf of a background run.                  *)
(***************************************************************************)
EXTENDS LoopSupervisor, TLC

CONSTANTS a, b, g, plain, run, MaxTtl

MCGoalOf == [i \in Id |-> g]

MCEnvelopeOf ==
  [i \in Id |->
     [priority   |-> 2,
      dedupe_key |-> IF i = b THEN run ELSE plain,
      ttl        |-> MaxTtl]]

(* Bound: after an outage only behaviours in which a is alone are followed. *)
AloneAfterOutage == outages > 0 => Queue!Is(b, "absent")

SupervisorSymmetry == Permutations(Token) \cup Permutations(Worker)
=============================================================================
