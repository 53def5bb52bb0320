---------------------------- MODULE DaemonRunner ----------------------------
(***************************************************************************)
(* The life of a daemon process and its leadership: the leader lock        *)
(* (src/runtime/leader-lock-manager.ts), the runtime ownership coordinator *)
(* that renews it (daemon/runtime-ownership.ts), and the runner's startup  *)
(* and shutdown (daemon/runner-startup.ts, runner-lifecycle.ts,            *)
(* persistence.ts).  A Daemon is one incarnation: it starts at most once.  *)
(*                                                                         *)
(* The lock is one row.  acquire and renew read the clock before they      *)
(* await the database, so their reading may be `lag` old when it is used:  *)
(* the row keeps what is left of lease_until, down to -MaxLag.  `promised` *)
(* is what is left of the lease in the record a daemon was last given.     *)
(* A process that is suspended just takes no step while Tick goes on.      *)
(***************************************************************************)
EXTENDS Integers, FiniteSets

CONSTANTS
  Daemon, NoDaemon,  (* incarnations of the daemon process, and none       *)
  LeaseTicks,        (* RUNTIME_LEADER_LEASE_MS                            *)
  MaxLag,            (* bounds how old a clock reading can be when used    *)
  MayOverlap         (* may a daemon be started while another one lives?   *)

ASSUME RunnerAssumption ==
  /\ NoDaemon \notin Daemon
  /\ LeaseTicks \in Nat \ {0}
  /\ MaxLag \in Nat
  /\ MayOverlap \in BOOLEAN

VARIABLES
  lock,       (* the row of leader_locks                                   *)
  promised,   (* lease time each daemon was told it still has              *)
  phase,      (* how far each daemon is in start()                         *)
  flags,      (* the runner's own notes about its end                      *)
  marker,     (* the shutdown marker on disk                               *)
  last,       (* the last daemon that announced itself in the marker       *)
  told        (* daemons asked to stop after they set running              *)

vars == <<lock, promised, phase, flags, marker, last, told>>

-----------------------------------------------------------------------------

Phase ==
  {"new", "asking", "gaining", "opening", "restoring", "launching",
   "launched", "serving", "draining", "saving", "closing", "exited", "dead"}

Alive(p)  == phase[p] \notin {"new", "exited", "dead"}
Ended(p)  == phase[p] \in {"exited", "dead"}

(* leaderOwnerToken is set from the acquisition to releaseLeadership. *)
HoldsToken(p) ==
  phase[p] \in {"gaining", "opening", "restoring", "launching", "launched",
                "serving", "draining", "saving"}

(* The coordinator's signal handlers are installed. *)
Listens(p) == phase[p] \in {"restoring", "launching", "launched", "serving"}

NoLock == [owner |-> NoDaemon, left |-> 0]

Fresh == [running |-> FALSE, shuttingDown |-> FALSE, crashed |-> FALSE,
          wasCrashed |-> FALSE, resolved |-> FALSE, force |-> "off"]

Init ==
  /\ lock = NoLock
  /\ promised = [p \in Daemon |-> 0]
  /\ phase = [p \in Daemon |-> "new"]
  /\ flags = [p \in Daemon |-> Fresh]
  /\ marker = "none"
  /\ last = NoDaemon
  /\ told = {}

Moves(p, from, to) == phase[p] = from /\ phase' = [phase EXCEPT ![p] = to]

(* The notes go with the process; how it ended is kept for the properties. *)
NotesGone(p) ==
  /\ flags' = [flags EXCEPT ![p] = [Fresh EXCEPT !.wasCrashed = flags[p].wasCrashed]]
  /\ told' = told \ {p}

-----------------------------------------------------------------------------
(* The leader lock *)

(* The row is honoured while its lease runs and its process answers. *)
LockedOut(lag) ==
  /\ lock.owner # NoDaemon
  /\ lock.left + lag > 0
  /\ Alive(lock.owner)

Granted(p, lag) ==
  /\ lock' = [owner |-> p, left |-> LeaseTicks - lag]
  /\ promised' = [promised EXCEPT ![p] = IF LeaseTicks > lag THEN LeaseTicks - lag ELSE 0]

(* Mutant of Released: the row is deleted whoever owns it. *)
ReleasedAnyRow(p) ==
  /\ lock' = NoLock
  /\ promised' = [promised EXCEPT ![p] = 0]

(* DELETE of the daemon's own row; another owner's row stays. *)
Released(p) ==
  /\ lock' = IF lock.owner = p THEN NoLock ELSE lock
  /\ promised' = [promised EXCEPT ![p] = 0]

Acquire(p, lag) ==
  /\ Moves(p, "asking", "gaining")
  /\ ~LockedOut(lag)
  /\ Granted(p, lag)
  /\ UNCHANGED <<flags, marker, last, told>>

(* "Runtime daemon leader already active": start() throws. *)
Refused(p, lag) ==
  /\ Moves(p, "asking", "exited")
  /\ LockedOut(lag)
  /\ UNCHANGED <<lock, promised, flags, marker, last, told>>

(* failRuntimeLeadership: the runner is told to end, and shutdownResolve   *)
(* is called if the runner already waits on it.                            *)
LeadershipLost(p) ==
  flags' = IF flags[p].crashed THEN flags
           ELSE [flags EXCEPT ![p].crashed = TRUE, ![p].running = FALSE,
                              ![p].shuttingDown = TRUE,
                              ![p].resolved = @ \/ phase[p] = "serving"]

(* The heartbeat interval runs from "opening" until releaseLeadership. *)
Heartbeats(p) == HoldsToken(p) /\ phase[p] # "gaining"

Renew(p, lag) ==
  /\ Heartbeats(p)
  /\ lock.owner = p
  /\ lock.left + lag > 0
  /\ Granted(p, lag)
  /\ UNCHANGED <<phase, flags, marker, last, told>>

(* Mutant of RenewFails: a renewal that is refused goes unnoticed. *)
RenewFailsUnnoticed(p, lag) ==
  /\ Heartbeats(p)
  /\ lock.owner # p \/ lock.left + lag <= 0
  /\ UNCHANGED vars

(* The row is another daemon's or has lapsed.  The interval goes on. *)
RenewFails(p, lag) ==
  /\ Heartbeats(p)
  /\ lock.owner # p \/ lock.left + lag <= 0
  /\ LeadershipLost(p)
  /\ UNCHANGED <<lock, promised, phase, marker, last, told>>

(* The renewal throws. *)
RenewThrows(p) ==
  /\ Heartbeats(p)
  /\ ~flags[p].crashed
  /\ LeadershipLost(p)
  /\ UNCHANGED <<lock, promised, phase, marker, last, told>>

LeftAfterTick(r) == IF r.owner # NoDaemon /\ r.left > -MaxLag THEN r.left - 1 ELSE r.left

Tick ==
  /\ lock' = [lock EXCEPT !.left = LeftAfterTick(lock)]
  /\ promised' = [p \in Daemon |-> IF promised[p] > 0 THEN promised[p] - 1 ELSE 0]
  /\ UNCHANGED <<phase, flags, marker, last, told>>

-----------------------------------------------------------------------------
(* Startup *)

(* start(): the marker the previous incarnation left is read and deleted,  *)
(* before leadership is asked for.                                         *)
Start(p) ==
  /\ Moves(p, "new", "asking")
  /\ MayOverlap \/ \A q \in Daemon : ~Alive(q)
  /\ marker' = "none"
  /\ last' = IF last # NoDaemon /\ Ended(last) THEN NoDaemon ELSE last
  /\ UNCHANGED <<lock, promised, flags, told>>

(* The first heartbeat is written and the renewal interval set. *)
BeginHeartbeats(p) ==
  /\ Moves(p, "gaining", "opening")
  /\ UNCHANGED <<lock, promised, flags, marker, last, told>>

(* The event server is up; shuttingDown is cleared, then the coordinator   *)
(* installs the signal handlers.                                           *)
ActivateCoordinator(p) ==
  /\ Moves(p, "opening", "restoring")
  /\ flags' = [flags EXCEPT ![p].shuttingDown = FALSE]
  /\ UNCHANGED <<lock, promised, marker, last, told>>

(* The goals are restored: running is set and a new daemon state made. *)
SetRunning(p) ==
  /\ Moves(p, "restoring", "launching")
  /\ flags' = [flags EXCEPT ![p].running = TRUE, ![p].crashed = FALSE]
  /\ UNCHANGED <<lock, promised, marker, last, told>>

WriteStartupMarker(p) ==
  /\ Moves(p, "launching", "launched")
  /\ marker' = "running"
  /\ last' = p
  /\ UNCHANGED <<lock, promised, flags, told>>

(* Before startupReady a failure gives the leadership back and ends start. *)
StartupFails(p) ==
  /\ phase[p] \in {"gaining", "opening", "restoring", "launching", "launched"}
  /\ phase' = [phase EXCEPT ![p] = "exited"]
  /\ Released(p)
  /\ NotesGone(p)
  /\ UNCHANGED <<marker, last>>

(* The drain disposes of handlers and timers; nothing reads the notes      *)
(* about the way there any more, except that the state may say crashed.    *)
Disposed(p) == [Fresh EXCEPT !.shuttingDown = TRUE, !.crashed = flags[p].crashed]

(* After it, a failure of the dispatchers, the supervisor or the first     *)
(* maintenance cycle goes through the same drain as an ordinary stop.      *)
LaunchFails(p) ==
  /\ Moves(p, "launched", "draining")
  /\ flags' = [flags EXCEPT ![p] = Disposed(p)]
  /\ UNCHANGED <<lock, promised, marker, last, told>>

(* Dispatchers and supervisor are up; the runner waits for shutdownResolve *)
AwaitShutdown(p) ==
  /\ Moves(p, "launched", "serving")
  /\ flags' = [flags EXCEPT ![p].resolved = ~flags[p].running]
  /\ UNCHANGED <<lock, promised, marker, last, told>>

-----------------------------------------------------------------------------
(* Shutdown *)

(* The flags beginGracefulShutdown leaves. *)
BeginGracefulShutdown(p) ==
  IF flags[p].shuttingDown THEN flags[p]
  ELSE [flags[p] EXCEPT !.shuttingDown = TRUE, !.running = FALSE,
                        !.resolved = @ \/ phase[p] = "serving"]

HearsStop(p) ==
  told' = IF phase[p] \in {"launching", "launched", "serving"} /\ ~flags[p].shuttingDown
          THEN told \cup {p} ELSE told

(* SIGTERM or SIGINT.  Once the force timer is set, even after it has      *)
(* fired, further signals are ignored.                                     *)
Signal(p) ==
  /\ Listens(p)
  /\ flags[p].force = "off"
  /\ flags' = [flags EXCEPT ![p] = [BeginGracefulShutdown(p) EXCEPT !.force = "set"]]
  /\ HearsStop(p)
  /\ UNCHANGED <<lock, promised, phase, marker, last>>

(* The graceful shutdown timeout: onForceStop clears running. *)
ForceStop(p) ==
  /\ Listens(p)
  /\ flags[p].force = "set"
  /\ flags' = [flags EXCEPT ![p].force = "fired", ![p].running = FALSE]
  /\ UNCHANGED <<lock, promised, phase, marker, last, told>>

(* A restart_daemon or restart_gateway command, 25 ms after it was handled *)
RestartCommand(p) ==
  /\ phase[p] \in {"launched", "serving"}
  /\ ~flags[p].shuttingDown
  /\ flags' = [flags EXCEPT ![p] = BeginGracefulShutdown(p)]
  /\ HearsStop(p)
  /\ UNCHANGED <<lock, promised, phase, marker, last>>

(* Handlers and timers go; the supervisor and the dispatchers shut down. *)
Drain(p) ==
  /\ Moves(p, "serving", "draining")
  /\ flags[p].resolved
  /\ flags' = [flags EXCEPT ![p] = Disposed(p)]
  /\ UNCHANGED <<lock, promised, marker, last, told>>

(* cleanupDaemonRun notes whether the state says crashed, and saves it.    *)
(* The renewal interval still runs while the save is awaited.              *)
BeginCleanup(p) ==
  /\ Moves(p, "draining", "saving")
  /\ flags' = [flags EXCEPT ![p].wasCrashed = flags[p].crashed]
  /\ UNCHANGED <<lock, promised, marker, last, told>>

(* The save has landed or failed; the leadership is given back.            *)
ReleaseLeadership(p) ==
  /\ Moves(p, "saving", "closing")
  /\ Released(p)
  /\ UNCHANGED <<flags, marker, last, told>>

(* Mutant of WriteFinalMarker: a crashed run leaves a clean marker too. *)
WriteFinalMarkerClean(p) ==
  /\ Moves(p, "closing", "exited")
  /\ marker' = "clean_shutdown"
  /\ NotesGone(p)
  /\ UNCHANGED <<lock, promised, last>>

(* The final health and the marker are written by what cleanup had noted   *)
(* at its beginning, and the process ends.                                 *)
WriteFinalMarker(p) ==
  /\ Moves(p, "closing", "exited")
  /\ marker' = IF flags[p].wasCrashed THEN "running" ELSE "clean_shutdown"
  /\ NotesGone(p)
  /\ UNCHANGED <<lock, promised, last>>

(* The process dies at any point: its row stays. *)
Crash(p) ==
  /\ Alive(p)
  /\ phase' = [phase EXCEPT ![p] = "dead"]
  /\ promised' = [promised EXCEPT ![p] = 0]
  /\ NotesGone(p)
  /\ UNCHANGED <<lock, marker, last>>

-----------------------------------------------------------------------------

Startup(p) ==
  \/ BeginHeartbeats(p) \/ ActivateCoordinator(p) \/ SetRunning(p)
  \/ WriteStartupMarker(p) \/ AwaitShutdown(p)

Shutdown(p) == Drain(p) \/ BeginCleanup(p) \/ ReleaseLeadership(p) \/ WriteFinalMarker(p)

Next ==
  \/ \E p \in Daemon :
       \/ Start(p) \/ Startup(p) \/ StartupFails(p) \/ LaunchFails(p)
       \/ \E lag \in 0..MaxLag :
            Acquire(p, lag) \/ Refused(p, lag) \/ Renew(p, lag) \/ RenewFails(p, lag)
       \/ RenewThrows(p)
       \/ Signal(p) \/ ForceStop(p) \/ RestartCommand(p)
       \/ Shutdown(p)
       \/ Crash(p)
  \/ Tick

Spec == Init /\ [][Next]_vars

(* start() goes on, the interval fires and the drain ends (the supervisor  *)
(* gives up after its grace period); nothing obliges a signal or a crash.  *)
Fairness ==
  \A p \in Daemon :
    /\ WF_vars(Startup(p))
    /\ WF_vars(Shutdown(p))
    /\ WF_vars(\E lag \in 0..MaxLag : Renew(p, lag) \/ RenewFails(p, lag))

LiveSpec == Spec /\ Fairness

-----------------------------------------------------------------------------
(* Properties *)

(* Type invariant. *)
TypeOK ==
  /\ lock \in [owner : Daemon \cup {NoDaemon}, left : (-MaxLag)..LeaseTicks]
  /\ promised \in [Daemon -> 0..LeaseTicks]
  /\ phase \in [Daemon -> Phase]
  /\ flags \in [Daemon -> [running : BOOLEAN, shuttingDown : BOOLEAN, crashed : BOOLEAN,
                           wasCrashed : BOOLEAN, resolved : BOOLEAN, force : {"off", "set", "fired"}]]
  /\ marker \in {"none", "running", "clean_shutdown"}
  /\ last \in Daemon \cup {NoDaemon}
  /\ told \subseteq Daemon

(* A daemon that was told it leads for some time yet is the leader the row *)
(* names, for at least that long: neither another daemon's acquire, nor a  *)
(* release by a deposed leader, takes the row away early.                  *)
LeadershipHonoured ==
  \A p \in Daemon :
    promised[p] > 0 => lock.owner = p /\ lock.left >= promised[p]

(* Two daemons never both rely on an unexpired leadership. *)
OneLeader ==
  \A p, q \in Daemon : promised[p] > 0 /\ promised[q] > 0 => p = q

(* The marker tells a crash from a clean shutdown: when the daemon that    *)
(* announced itself last has died, or had noticed the loss of its          *)
(* leadership when its cleanup began, the marker the next start will read  *)
(* does not say clean_shutdown.                                            *)
CrashIsDetected ==
  last # NoDaemon /\ Ended(last) /\ (phase[last] = "dead" \/ flags[last].wasCrashed)
    => marker # "clean_shutdown"

(* "Also writes clean_shutdown marker to enable crash-vs-clean detection   *)
(* on next startup": a daemon that has noticed the loss by the time it     *)
(* ends does not leave one, also if it noticed while its cleanup was       *)
(* saving the state as stopped.                                            *)
LossIsDetected ==
  [][\A p \in Daemon : phase[p] = "closing" /\ phase'[p] = "exited" /\ flags[p].crashed
       => marker' # "clean_shutdown"]_vars

(* A daemon whose row another daemon has taken stops, however far its own  *)
(* startup or shutdown was when it lost the row.                           *)
DeposedLeaderStops ==
  \A p \in Daemon : HoldsToken(p) /\ lock.owner \notin {p, NoDaemon} ~> Ended(p)

(* A daemon asked to stop once it has set running drains and ends. *)
ToldDaemonStops ==
  \A p \in Daemon : p \in told ~> Ended(p)

(* "Emit SIGTERM - should set shuttingDown and exit the loop": a daemon    *)
(* that received a signal ends.                                            *)
SignalledDaemonStops ==
  \A p \in Daemon : flags[p].force # "off" ~> Ended(p)
=============================================================================
