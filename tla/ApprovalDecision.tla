--------------------------- MODULE ApprovalDecision ---------------------------
(***************************************************************************)
(* What an approval promises, without brokers, stores or timers: it is     *)
(* decided at most once, whoever asked is told at most once, and is told   *)
(* yes only for an approval that was approved.                             *)
(***************************************************************************)
CONSTANTS Approval, Request, IdOf

VARIABLES
  verdict,  (* verdict[a]: "open" until a is decided                       *)
  told      (* told[r]: what the caller behind request r has been told     *)

Verdict == {"approved", "denied", "expired"}

Init ==
  /\ verdict = [a \in Approval |-> "open"]
  /\ told = [r \in Request |-> "waiting"]

(* The answer that a verdict means to the caller.                          *)
Meaning(v) == IF v = "approved" THEN "approved" ELSE "refused"

(* A verdict is reached and, at once or later, callers are told of it.     *)
DecideOrTell(a) ==
  /\ \/ verdict[a] = "open" /\ \E v \in Verdict : verdict' = [verdict EXCEPT ![a] = v]
     \/ verdict[a] # "open" /\ verdict' = verdict
  /\ \E R \in SUBSET {r \in Request : IdOf[r] = a /\ told[r] = "waiting"} :
       told' = [r \in Request |-> IF r \in R THEN Meaning(verdict'[a]) ELSE told[r]]

(* Callers go away: their process ends or their request could not be kept. *)
Abandon ==
  /\ \E R \in SUBSET {r \in Request : told[r] = "waiting"} :
       told' = [r \in Request |-> IF r \in R THEN "gone" ELSE told[r]]
  /\ verdict' = verdict

Next == Abandon \/ \E a \in Approval : DecideOrTell(a)

Spec == Init /\ [][Next]_<<verdict, told>>
=============================================================================
