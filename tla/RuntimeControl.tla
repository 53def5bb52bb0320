---------------------------- MODULE RuntimeControl ----------------------------
(***************************************************************************)
(* A restart of the daemon that is asked for through RuntimeControlService *)
(* (src/runtime/control/runtime-control-service.ts), by one process of its *)
(* own per operation: the operation's record, the command in the daemon's  *)
(* queue, its handler, and the reconciliation of a daemon that starts.     *)
(*                                                                         *)
(* Every save writes the whole operation, with the state the writer goes   *)
(* on to and no look at the one on record; so a record is its state.  The  *)
(* queue is as in JournalBackedQueue, with retry budget to spare; other    *)
(* commands, admission policy, traces and the kinds of operations that end *)
(* in the request itself are left out.                                     *)
(***************************************************************************)
EXTENDS Naturals, FiniteSets

CONSTANTS
  Operation, NoOperation,
  MaxCrashes,   (* bounds the daemon's crashes                             *)
  MaxLapses     (* bounds the claims that expire under their handler       *)

(* What a module that instantiates this one assumes of its constants.      *)
ControlAssumption ==
  /\ IsFiniteSet(Operation) /\ NoOperation \notin Operation
  /\ MaxCrashes \in Nat /\ MaxLapses \in Nat

VARIABLES
  record,      (* record[o]: the state of operation o in the store         *)
  request,     (* request[o]: where its requester is                       *)
  command,     (* command[o]: its runtime_control command in the queue     *)
  daemon,      (* "down", "starting" (up to the reconciliation) or "up"    *)
  stopping,    (* whether the daemon has begun to shut down                *)
  timer,       (* whether a handler's shutdown timer is set                *)
  handling,    (* the operation whose command is being handled             *)
  handler,     (* where its handler is                                     *)
  reconcile,   (* where the reconciliation is                              *)
  listed,      (* the operations it has listed and not yet come to         *)
  lapses, crashes,
  restarts,    (* history: how many daemons a command has shut down        *)
  here,        (* history: the operations this daemon's handler has saved  *)
  verified     (* history: the operations that have been verified          *)

recordVars  == <<record, request, command>>
processVars == <<daemon, stopping, timer, handling, handler, reconcile, listed>>
history     == <<lapses, crashes, restarts, here, verified>>
controlVars == <<recordVars, processVars, history>>

Init ==
  /\ record = [o \in Operation |-> "absent"]
  /\ request = [o \in Operation |-> "idle"] /\ command = [o \in Operation |-> "none"]
  /\ daemon = "up" /\ stopping = FALSE /\ timer = FALSE
  /\ handling = NoOperation /\ handler = "none" /\ reconcile = "over" /\ listed = {}
  /\ lapses = 0 /\ crashes = 0 /\ restarts = 0 /\ here = {} /\ verified = {}

Saves(o, state) == record' = [record EXCEPT ![o] = state]
Goes(o, to)     == request' = [request EXCEPT ![o] = to]
Keeps           == UNCHANGED <<daemon, stopping, reconcile, listed, lapses, crashes>>

-----------------------------------------------------------------------------
(* The requester *)

Ask(o) ==
  /\ request[o] = "idle" /\ Saves(o, "pending") /\ Goes(o, "asking")
  /\ UNCHANGED <<command, processVars, history>>

Approve(o) ==
  /\ request[o] = "asking"
  /\ \/ Saves(o, "approved") /\ Goes(o, "approved")
     \/ \E end \in {"cancelled", "failed", "blocked"} : Saves(o, end) /\ Goes(o, "toldNo")
  /\ UNCHANGED <<command, processVars, history>>

Acknowledge(o) ==
  /\ request[o] = "approved" /\ Saves(o, "acknowledged") /\ Goes(o, "calling")
  /\ UNCHANGED <<command, processVars, history>>

(* The daemon accepts the command; its answer may be lost or be an error.  *)
Call(o) ==
  /\ request[o] = "calling" /\ daemon # "down"
  /\ command' = [command EXCEPT ![o] = "queued"]
  /\ \E answer \in {"accepted", "unanswered"} : Goes(o, answer)
  /\ UNCHANGED <<record, processVars, history>>

(* There is no daemon, or it does not take the command.                    *)
CallFails(o) ==
  /\ request[o] = "calling" /\ Goes(o, "unanswered")
  /\ UNCHANGED <<record, command, processVars, history>>

(* What the executor returns is saved, whatever has become of the record.  *)
RecordAnswer(o) ==
  /\ \/ request[o] = "accepted" /\ Saves(o, "restarting") /\ Goes(o, "toldYes")
     \/ request[o] = "unanswered" /\ Saves(o, "failed") /\ Goes(o, "toldNo")
  /\ UNCHANGED <<command, processVars, history>>

(* The requester's process may end at any time.                            *)
Leave(o) ==
  /\ request[o] \notin {"idle", "toldYes", "toldNo", "gone"} /\ Goes(o, "gone")
  /\ UNCHANGED <<record, command, processVars, history>>

-----------------------------------------------------------------------------
(* The dispatcher and handleRuntimeControlCommand *)

Claim(o) ==
  /\ daemon # "down" /\ handler = "none" /\ command[o] = "queued"
  /\ command' = [command EXCEPT ![o] = "claimed"]
  /\ handling' = o /\ handler' = "loaded"
  /\ Keeps /\ UNCHANGED <<record, request, timer, restarts, here, verified>>

HandlerSaves ==
  /\ handler = "loaded" /\ Saves(handling, "restarting") /\ handler' = "saved"
  /\ timer' = TRUE /\ here' = here \cup {handling}
  /\ Keeps /\ UNCHANGED <<request, command, handling, restarts, verified>>

(* Only a claim that is still the handler's own is acked.                  *)
Ack ==
  /\ handler = "saved" /\ handler' = "none" /\ handling' = NoOperation
  /\ command' = [command EXCEPT ![handling] = IF @ = "claimed" THEN "none" ELSE @]
  /\ Keeps /\ UNCHANGED <<record, request, timer, restarts, here, verified>>

(* A claim lapses that nobody works with any more, or under its handler.   *)
Sweep(o) ==
  /\ daemon # "down" /\ command[o] = "claimed"
  /\ \/ handling # o /\ UNCHANGED lapses
     \/ handling = o /\ lapses < MaxLapses /\ lapses' = lapses + 1
  /\ command' = [command EXCEPT ![o] = "queued"]
  /\ UNCHANGED <<record, request, processVars, crashes, restarts, here, verified>>

(* beginGracefulShutdown, 25 ms after the save.                            *)
TimerFires ==
  /\ timer /\ timer' = FALSE /\ stopping' = TRUE
  /\ restarts' = IF stopping THEN restarts ELSE restarts + 1
  /\ UNCHANGED <<recordVars, daemon, handling, handler, reconcile, listed, lapses, crashes, here, verified>>

-----------------------------------------------------------------------------
(* The daemon: its start, its reconciliation and its end *)

(* The dispatchers are started first.                                      *)
Start ==
  /\ daemon = "down" /\ daemon' = "starting" /\ reconcile' = "listing"
  /\ UNCHANGED <<recordVars, stopping, timer, handling, handler, listed, history>>

(* Mutant of Unsettled: only operations that are running.                  *)
UnsettledRunning == {"running"}

Unsettled == {"restarting", "running"}

List ==
  /\ reconcile = "listing" /\ reconcile' = "settling"
  /\ listed' = {o \in Operation : record[o] \in Unsettled}
  /\ UNCHANGED <<recordVars, daemon, stopping, timer, handling, handler, history>>

(* The operation is saved as verified, and its result published.           *)
Verify(o) ==
  /\ reconcile = "settling" /\ o \in listed /\ listed' = listed \ {o}
  /\ Saves(o, "verified") /\ verified' = verified \cup {o}
  /\ UNCHANGED <<request, command, daemon, stopping, timer, handling, handler, reconcile, lapses,
                 crashes, restarts, here>>

Started ==
  /\ reconcile = "settling" /\ listed = {} /\ reconcile' = "over" /\ daemon' = "up"
  /\ UNCHANGED <<recordVars, stopping, timer, handling, handler, listed, history>>

Gone ==
  /\ daemon' = "down" /\ stopping' = FALSE /\ timer' = FALSE
  /\ handling' = NoOperation /\ handler' = "none" /\ reconcile' = "over" /\ listed' = {}
  /\ here' = {}
  /\ UNCHANGED <<recordVars, lapses, restarts, verified>>

(* Mutant of Ends: the command in flight is not waited for.                *)
EndsUndrained == daemon = "up" /\ stopping /\ Gone /\ UNCHANGED crashes

(* shutdown() of the dispatcher waits for the command in flight.           *)
Ends == daemon = "up" /\ stopping /\ handler = "none" /\ Gone /\ UNCHANGED crashes

Crash ==
  /\ daemon # "down" /\ crashes < MaxCrashes /\ crashes' = crashes + 1 /\ Gone

-----------------------------------------------------------------------------

RequesterStep(o) == Ask(o) \/ Approve(o) \/ Acknowledge(o) \/ Call(o) \/ CallFails(o) \/ RecordAnswer(o)

DaemonStep ==
  \/ \E o \in Operation : Claim(o) \/ Verify(o)
  \/ HandlerSaves \/ Ack \/ TimerFires \/ Start \/ List \/ Started \/ Ends

Next ==
  \/ \E o \in Operation : RequesterStep(o) \/ Leave(o) \/ Sweep(o)
  \/ DaemonStep \/ Crash

Spec == Init /\ [][Next]_controlVars

(* A daemon that went down is started again, and none of what it awaits
   takes for ever; requesters may stop anywhere.                           *)
Fairness ==
  /\ \A o \in Operation : WF_controlVars(Claim(o)) /\ WF_controlVars(Sweep(o) /\ handling # o)
                          /\ WF_controlVars(Verify(o))
  /\ WF_controlVars(HandlerSaves) /\ WF_controlVars(Ack) /\ WF_controlVars(TimerFires)
  /\ WF_controlVars(Start) /\ WF_controlVars(List) /\ WF_controlVars(Started) /\ WF_controlVars(Ends)

FairSpec == Spec /\ Fairness

-----------------------------------------------------------------------------
(* Properties *)

(* Every variable has its type, and nothing outlives the process.          *)
TypeOK ==
  /\ record \in [Operation -> {"absent", "pending", "approved", "acknowledged", "restarting",
                               "verified", "failed", "cancelled", "blocked"}]
  /\ request \in [Operation -> {"idle", "asking", "approved", "calling", "accepted", "unanswered",
                                "toldYes", "toldNo", "gone"}]
  /\ command \in [Operation -> {"none", "queued", "claimed"}]
  /\ daemon \in {"down", "starting", "up"} /\ {stopping, timer} \subseteq BOOLEAN
  /\ handler \in {"none", "loaded", "saved"} /\ (handler = "none" <=> handling = NoOperation)
  /\ reconcile \in {"over", "listing", "settling"} /\ (reconcile # "over" <=> daemon = "starting")
  /\ listed \subseteq Operation /\ {here, verified} \subseteq SUBSET Operation /\ restarts \in Nat
  /\ daemon = "down" => ~stopping /\ ~timer /\ handler = "none" /\ listed = {}

(* An operation whose requester was told that the daemon restarts has been
   verified in the end, whatever crashed meanwhile.                        *)
ToldIsVerified ==
  \A o \in Operation : request[o] = "toldYes" ~> o \in verified

(* No restart loop: beyond one restart per operation, each restart is owed
   to a crash between the handler's save and its ack or to a lapsed claim. *)
RestartsAreAccounted ==
  restarts <= Cardinality({o \in Operation : record[o] # "absent"}) + crashes + lapses

(* An operation is verified by a daemon other than the one that handled it. *)
VerifiedAfterRestart ==
  [][\A o \in here : record[o] # "verified" => record'[o] # "verified"]_controlVars
=============================================================================
