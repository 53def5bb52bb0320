-------------------------- MODULE ExclusiveDelivery --------------------------
(***************************************************************************)
(* What the runtime journal queue promises its callers, with nothing said  *)
(* about attempts, leases, buckets or scan order.                          *)
(*                                                                         *)
(* A message is unknown, waiting, done or dropped.  While it waits at most *)
(* one holder owns it, and one holder owns at most one message.  Only an   *)
(* owned message is finished; a finished or dropped message never comes    *)
(* back; and the only way for an accepted message to vanish is to be       *)
(* superseded, unowned, by a newly accepted one with the same dedupe key.  *)
(*                                                                         *)
(* One step may move several messages at once (a sweep, a claim that drops *)
(* stale messages on its way), so Next is stated message by message.       *)
(***************************************************************************)
CONSTANTS
  Message,          (* message ids                                         *)
  Holder,           (* claim tokens                                        *)
  NoHolder,         (* the value of owner for a message nobody owns        *)
  SameKey(_, _)     (* two messages carry one and the same dedupe key      *)

VARIABLES
  fate,             (* fate[m] \in {"unknown","waiting","done","dropped"}  *)
  owner             (* owner[m] is the token that may settle m             *)

vars == <<fate, owner>>

Unowned(m) == owner[m] = NoHolder

Init ==
  /\ fate  = [m \in Message |-> "unknown"]
  /\ owner = [m \in Message |-> NoHolder]

-----------------------------------------------------------------------------

Stay(m) ==
  fate'[m] = fate[m] /\ owner'[m] = owner[m]

Submit(m) ==
  /\ fate[m] = "unknown"
  /\ fate'[m] = "waiting" /\ owner'[m] = NoHolder

(* A delivery names a holder that owned nothing before the step. *)
Deliver(m) ==
  /\ fate[m] = "waiting" /\ Unowned(m)
  /\ fate'[m] = "waiting"
  /\ owner'[m] \in Holder
  /\ \A n \in Message : owner[n] # owner'[m]

(* The owner gives the message back, or its lease lapses. *)
Return(m) ==
  /\ fate[m] = "waiting" /\ ~Unowned(m)
  /\ fate'[m] = "waiting" /\ owner'[m] = NoHolder

Finish(m) ==
  /\ fate[m] = "waiting" /\ ~Unowned(m)
  /\ fate'[m] = "done" /\ owner'[m] = NoHolder

Drop(m) ==
  /\ fate[m] = "waiting"
  /\ fate'[m] = "dropped" /\ owner'[m] = NoHolder

Supersede(m) ==
  /\ fate[m] = "waiting" /\ Unowned(m)
  /\ \E n \in Message : SameKey(m, n) /\ fate[n] = "unknown" /\ fate'[n] = "waiting"
  /\ fate'[m] = "unknown" /\ owner'[m] = NoHolder

Step(m) ==
  \/ Stay(m) \/ Submit(m) \/ Deliver(m) \/ Return(m)
  \/ Finish(m) \/ Drop(m) \/ Supersede(m)

(* Two messages never end a step with the same holder. *)
DistinctOwners ==
  \A m, n \in Message : m # n /\ ~Unowned(m) => owner[m] # owner[n]

Next == (\A m \in Message : Step(m)) /\ DistinctOwners'

Spec == Init /\ [][Next]_vars
=============================================================================
