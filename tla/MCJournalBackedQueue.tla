------------------------ MODULE MCJournalBackedQueue ------------------------
(***************************************************************************)
(* Instances of JournalBackedQueue for TLC.  a and b are two activations   *)
(* of one goal (one dedupe key); c shares their bucket and has no key; d   *)
(* is a command in a more urgent bucket that only the dispatcher handles.  *)
(***************************************************************************)
EXTENDS JournalBackedQueue, TLC

CONSTANTS a, b, c, d, goalKey, supervisor, dispatcher, MaxTtl

MCEnvelopeOf ==
  [i \in Id |->
     [priority   |-> IF i = d THEN 1 ELSE 2,
      dedupe_key |-> IF i \in {a, b} THEN goalKey ELSE NoKey,
      ttl        |-> MaxTtl]]

MCHandles ==
  [w \in Worker |-> IF w = dispatcher THEN {d} \cap Id ELSE Id \ {d}]

(* Tokens are UUIDs: nothing but equality is ever asked of them. *)
TokenSymmetry == Permutations(Token)
=============================================================================
