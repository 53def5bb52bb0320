-------------------------- MODULE DaemonRunnerProofs --------------------------
(***************************************************************************)
(* Leadership of the daemon for every number of incarnations, every lease  *)
(* length and every bound on the age of a clock reading, and the shutdown  *)
(* marker for daemons that are started one after the other, alone and      *)
(* beside daemons that contend (MCDaemonRunner).  For every bound on       *)
(* children, failed probes and unhealthy restarts, and also where a child  *)
(* may be gone before its monitor listens: the watchdog leaves no child    *)
(* behind, and opens its circuit only after a storm.                       *)
(***************************************************************************)
EXTENDS MCDaemonRunner, TLAPS

USE RunnerAssumption DEF RunnerAssumption

Flags == [running : BOOLEAN, shuttingDown : BOOLEAN, crashed : BOOLEAN,
          wasCrashed : BOOLEAN, resolved : BOOLEAN, force : {"off", "set", "fired"}]

(* What a daemon notes about its end is made of Booleans whatever it hears. *)
LEMMA FlagsStep ==
  ASSUME TypeOK, [Next]_vars
  PROVE  flags' \in [Daemon -> Flags]
<1> USE DEF Flags, Fresh
<1>1. flags \in [Daemon -> Flags]
  BY DEF TypeOK
<1>2. ASSUME NEW p \in Daemon, NotesGone(p) PROVE flags' \in [Daemon -> Flags]
  BY <1>1, <1>2 DEF NotesGone
<1>3. ASSUME NEW p \in Daemon, LeadershipLost(p) PROVE flags' \in [Daemon -> Flags]
  <2>1. (flags[p].resolved \/ phase[p] = "serving") \in BOOLEAN
    OBVIOUS
  <2>2. [flags[p] EXCEPT !.crashed = TRUE, !.running = FALSE, !.shuttingDown = TRUE,
                         !.resolved = flags[p].resolved \/ phase[p] = "serving"] \in Flags
    BY <1>1, <2>1
  <2> QED BY <1>1, <1>3, <2>2 DEF LeadershipLost
<1>4. \A p \in Daemon : BeginGracefulShutdown(p) \in Flags
  BY <1>1 DEF BeginGracefulShutdown
<1>5. ASSUME NEW p \in Daemon, Startup(p) PROVE flags' \in [Daemon -> Flags]
  <2>1. (~flags[p].running) \in BOOLEAN
    OBVIOUS
  <2>2. CASE AwaitShutdown(p)
    <3>1. CASE flags[p].running
      BY <1>1, <2>2, <3>1 DEF AwaitShutdown
    <3>2. CASE ~flags[p].running
      <4>1. (~flags[p].running) = TRUE
        BY <3>2
      <4>2. flags' = [flags EXCEPT ![p].resolved = TRUE]
        BY <2>2, <4>1 DEF AwaitShutdown
      <4> QED BY <1>1, <4>2
    <3> QED BY <3>1, <3>2
  <2>3. CASE BeginHeartbeats(p) \/ WriteStartupMarker(p)
    BY <1>1, <2>3 DEF BeginHeartbeats, WriteStartupMarker
  <2>4. CASE SetRunning(p)
    BY <1>1, <2>4 DEF SetRunning
  <2>5. CASE ActivateCoordinator(p)
    BY <1>1, <2>5 DEF ActivateCoordinator
  <2> QED BY <1>5, <2>2, <2>3, <2>4, <2>5 DEF Startup
<1>6. ASSUME NEW p \in Daemon, Signal(p) PROVE flags' \in [Daemon -> Flags]
  BY <1>1, <1>4, <1>6 DEF Signal
<1>7. ASSUME NEW p \in Daemon, ForceStop(p) PROVE flags' \in [Daemon -> Flags]
  BY <1>1, <1>7 DEF ForceStop
<1>8. ASSUME NEW p \in Daemon, RestartCommand(p) PROVE flags' \in [Daemon -> Flags]
  BY <1>1, <1>4, <1>8 DEF RestartCommand
<1>d. ASSUME NEW p \in Daemon, flags' = [flags EXCEPT ![p] = Disposed(p)]
      PROVE  flags' \in [Daemon -> Flags]
  <2>1. Disposed(p) \in Flags
    BY <1>1 DEF Disposed
  <2> QED BY <1>1, <1>d, <2>1
<1>9. ASSUME NEW p \in Daemon, Shutdown(p) PROVE flags' \in [Daemon -> Flags]
  <2>1. CASE Drain(p)
    BY <1>d, <2>1 DEF Drain
  <2>2. CASE BeginCleanup(p)
    BY <1>1, <2>2 DEF BeginCleanup
  <2>3. CASE ReleaseLeadership(p)
    BY <1>1, <2>3 DEF ReleaseLeadership
  <2>4. CASE WriteFinalMarker(p)
    BY <1>2, <2>4 DEF WriteFinalMarker
  <2> QED BY <1>9, <2>1, <2>2, <2>3, <2>4 DEF Shutdown
<1>10. ASSUME NEW p \in Daemon, NEW lag \in 0..MaxLag,
              Acquire(p, lag) \/ Refused(p, lag) \/ Renew(p, lag) \/ RenewFails(p, lag)
       PROVE  flags' \in [Daemon -> Flags]
  BY <1>1, <1>3, <1>10 DEF Acquire, Refused, Renew, RenewFails
<1>11. ASSUME NEW p \in Daemon,
              Start(p) \/ StartupFails(p) \/ LaunchFails(p) \/ RenewThrows(p) \/ Crash(p)
       PROVE  flags' \in [Daemon -> Flags]
  <2>1. CASE LaunchFails(p)
    BY <1>d, <2>1 DEF LaunchFails
  <2>2. CASE Start(p)
    BY <1>1, <2>2 DEF Start
  <2>3. CASE StartupFails(p) \/ Crash(p)
    BY <1>2, <2>3 DEF StartupFails, Crash
  <2>4. CASE RenewThrows(p)
    BY <1>3, <2>4 DEF RenewThrows
  <2> QED BY <1>11, <2>1, <2>2, <2>3, <2>4
<1>12. CASE Tick \/ UNCHANGED vars
  BY <1>1, <1>12 DEF Tick, vars
<1> QED
  BY <1>5, <1>6, <1>7, <1>8, <1>9, <1>10, <1>11, <1>12 DEF Next

(* The row and the promises stay within the lease and the oldest reading.  *)
LEMMA RowStep ==
  ASSUME TypeOK, [Next]_vars
  PROVE  /\ lock' \in [owner : Daemon \cup {NoDaemon}, left : (-MaxLag)..LeaseTicks]
         /\ promised' \in [Daemon -> 0..LeaseTicks]
<1> USE DEF TypeOK, NoLock
<1> DEFINE RowOK == /\ lock' \in [owner : Daemon \cup {NoDaemon}, left : (-MaxLag)..LeaseTicks]
                    /\ promised' \in [Daemon -> 0..LeaseTicks]
<1>1. ASSUME NEW p \in Daemon, NEW lag \in 0..MaxLag, Granted(p, lag) PROVE RowOK
  <2>1. LeaseTicks - lag \in (-MaxLag)..LeaseTicks
    OBVIOUS
  <2> QED BY <1>1, <2>1 DEF Granted
<1>2. ASSUME NEW p \in Daemon, Released(p) PROVE RowOK
  BY <1>2 DEF Released
<1>3. CASE Tick
  BY <1>3 DEF Tick, LeftAfterTick
<1>4. ASSUME NEW p \in Daemon, Startup(p) \/ Signal(p) \/ ForceStop(p) \/ RestartCommand(p)
             \/ Start(p) \/ LaunchFails(p) \/ RenewThrows(p)
      PROVE  RowOK
  BY <1>4 DEF Startup, BeginHeartbeats, ActivateCoordinator, SetRunning, WriteStartupMarker,
              AwaitShutdown, Signal, ForceStop, RestartCommand, Start, LaunchFails, RenewThrows
<1>5. ASSUME NEW p \in Daemon, Shutdown(p) \/ StartupFails(p) PROVE RowOK
  BY <1>2, <1>5 DEF Shutdown, Drain, BeginCleanup, ReleaseLeadership, WriteFinalMarker,
                          StartupFails
<1>6. ASSUME NEW p \in Daemon, Crash(p) PROVE RowOK
  BY <1>6 DEF Crash
<1>7. ASSUME NEW p \in Daemon, NEW lag \in 0..MaxLag,
             Acquire(p, lag) \/ Refused(p, lag) \/ Renew(p, lag) \/ RenewFails(p, lag)
      PROVE  RowOK
  BY <1>1, <1>7 DEF Acquire, Refused, Renew, RenewFails
<1>8. CASE UNCHANGED vars
  BY <1>8 DEF vars
<1> HIDE DEF TypeOK, NoLock
<1> QED BY <1>3, <1>4, <1>5, <1>6, <1>7, <1>8 DEF Next

(* The remaining variables. *)
LEMMA PhaseStep ==
  ASSUME TypeOK, [Next]_vars
  PROVE  /\ phase' \in [Daemon -> Phase]
         /\ marker' \in {"none", "running", "clean_shutdown"}
         /\ last' \in Daemon \cup {NoDaemon}
         /\ told' \subseteq Daemon
<1> USE DEF TypeOK, Phase, Moves, NotesGone
<1> DEFINE RestOK == /\ phase' \in [Daemon -> Phase]
                     /\ marker' \in {"none", "running", "clean_shutdown"}
                     /\ last' \in Daemon \cup {NoDaemon}
                     /\ told' \subseteq Daemon
<1>1. ASSUME NEW p \in Daemon, Startup(p) PROVE RestOK
  BY <1>1 DEF Startup, BeginHeartbeats, ActivateCoordinator, SetRunning, WriteStartupMarker,
              AwaitShutdown
<1>2. ASSUME NEW p \in Daemon, Signal(p) \/ ForceStop(p) \/ RestartCommand(p) PROVE RestOK
  BY <1>2 DEF Signal, ForceStop, RestartCommand, HearsStop
<1>3. ASSUME NEW p \in Daemon, Start(p) \/ LaunchFails(p) \/ RenewThrows(p) PROVE RestOK
  BY <1>3 DEF Start, LaunchFails, RenewThrows
<1>4. ASSUME NEW p \in Daemon, Shutdown(p) PROVE RestOK
  BY <1>4 DEF Shutdown, Drain, BeginCleanup, ReleaseLeadership, WriteFinalMarker
<1>5. ASSUME NEW p \in Daemon, StartupFails(p) \/ Crash(p) PROVE RestOK
  BY <1>5 DEF StartupFails, Crash
<1>6. ASSUME NEW p \in Daemon, NEW lag \in 0..MaxLag,
             Acquire(p, lag) \/ Refused(p, lag) \/ Renew(p, lag) \/ RenewFails(p, lag)
      PROVE  RestOK
  BY <1>6 DEF Acquire, Refused, Renew, RenewFails
<1>7. CASE Tick \/ UNCHANGED vars
  BY <1>7 DEF Tick, vars
<1> HIDE DEF TypeOK, Phase, Moves, NotesGone
<1> QED BY <1>1, <1>2, <1>3, <1>4, <1>5, <1>6, <1>7 DEF Next

(* Type correctness (TypeOK), however startup, signals, failures, lost     *)
(* renewals and crashes follow each other.                                 *)
THEOREM RunnerTypeCorrect == Spec => []TypeOK
<1>1. Init => TypeOK
  BY DEF Init, TypeOK, NoLock, Fresh, Phase
<1>2. TypeOK /\ [Next]_vars => TypeOK'
  BY FlagsStep, RowStep, PhaseStep DEF TypeOK, Flags
<1> QED BY <1>1, <1>2, PTL DEF Spec

-----------------------------------------------------------------------------

(* Only a process that has not given its token back relies on a lease: a   *)
(* dead owner's row may be taken at once.                                  *)
TokenHeld == \A p \in Daemon : promised[p] > 0 => HoldsToken(p)

LeaderInv == LeadershipHonoured /\ TokenHeld

LEMMA LeaderStep ==
  ASSUME TypeOK, LeaderInv, [Next]_vars
  PROVE  LeaderInv'
<1> DEFINE Kept(q) == promised'[q] > 0 => /\ lock'.owner = q
                                          /\ lock'.left >= promised'[q]
                                          /\ HoldsToken(q)'
<1> SUFFICES ASSUME NEW q \in Daemon PROVE Kept(q)
  BY DEF LeaderInv, LeadershipHonoured, TokenHeld
<1> USE DEF LeaderInv, LeadershipHonoured, TokenHeld, TypeOK, HoldsToken
<1>1. ASSUME NEW p \in Daemon, NEW lag \in 0..MaxLag, Granted(p, lag), HoldsToken(p)',
             \A r \in Daemon \ {p} : promised[r] = 0
      PROVE  Kept(q)
  <2>1. CASE q = p
    BY <1>1, <2>1 DEF Granted
  <2>2. CASE q # p
    BY <1>1, <2>2 DEF Granted
  <2> QED BY <2>1, <2>2
<1>2. ASSUME NEW p \in Daemon, NEW lag \in 0..MaxLag, Acquire(p, lag) PROVE Kept(q)
  <2>1. \A r \in Daemon : promised[r] = 0
    BY <1>2 DEF Acquire, LockedOut, Alive
  <2>2. HoldsToken(p)'
    BY <1>2 DEF Acquire, Moves
  <2> QED BY <1>1, <1>2, <2>1, <2>2 DEF Acquire
<1>3. ASSUME NEW p \in Daemon, NEW lag \in 0..MaxLag, Renew(p, lag) PROVE Kept(q)
  <2>1. \A r \in Daemon \ {p} : promised[r] = 0
    BY <1>3 DEF Renew
  <2>2. HoldsToken(p)'
    BY <1>3 DEF Renew, Heartbeats
  <2> QED BY <1>1, <1>3, <2>1, <2>2 DEF Renew
<1>4. ASSUME NEW p \in Daemon, NEW lag \in 0..MaxLag, Refused(p, lag) \/ RenewFails(p, lag)
      PROVE  Kept(q)
  BY <1>4 DEF Refused, RenewFails, Moves
<1>5. ASSUME NEW p \in Daemon, Released(p),
             phase' = [phase EXCEPT ![p] = phase'[p]]
      PROVE  Kept(q)
  BY <1>5 DEF Released, NoLock
<1>6. ASSUME NEW p \in Daemon, StartupFails(p) PROVE Kept(q)
  BY <1>5, <1>6 DEF StartupFails
<1>7. ASSUME NEW p \in Daemon, Startup(p) PROVE Kept(q)
  BY <1>7 DEF Startup, BeginHeartbeats, ActivateCoordinator, SetRunning, WriteStartupMarker,
              AwaitShutdown, Moves
<1>8. ASSUME NEW p \in Daemon,
             Signal(p) \/ ForceStop(p) \/ RestartCommand(p) \/ RenewThrows(p)
             \/ Start(p) \/ LaunchFails(p)
      PROVE  Kept(q)
  BY <1>8 DEF Signal, ForceStop, RestartCommand, RenewThrows, Start, LaunchFails, Moves
<1>9. ASSUME NEW p \in Daemon, Shutdown(p) PROVE Kept(q)
  <2>1. CASE Drain(p) \/ BeginCleanup(p)
    BY <2>1 DEF Drain, BeginCleanup, Moves
  <2>2. CASE ReleaseLeadership(p)
    BY <1>5, <2>2 DEF ReleaseLeadership, Moves
  <2>3. CASE WriteFinalMarker(p)
    BY <2>3 DEF WriteFinalMarker, Moves
  <2> QED BY <1>9, <2>1, <2>2, <2>3 DEF Shutdown
<1>10. ASSUME NEW p \in Daemon, Crash(p) PROVE Kept(q)
  BY <1>10 DEF Crash
<1>11. CASE Tick
  <2>1. CASE promised[q] = 0
    BY <1>11, <2>1 DEF Tick
  <2>2. CASE promised[q] > 0
    <3>1. promised'[q] = promised[q] - 1 /\ promised[q] \in Nat
      BY <1>11, <2>2 DEF Tick
    <3>2. lock.owner = q /\ lock.left >= promised[q] /\ HoldsToken(q)'
      BY <1>11, <2>2 DEF Tick
    <3>3. lock'.owner = q /\ lock'.left = lock.left - 1
      BY <1>11, <2>2, <3>1, <3>2 DEF Tick, LeftAfterTick
    <3> QED BY <3>1, <3>2, <3>3
  <2> QED BY <2>1, <2>2
<1>12. CASE UNCHANGED vars
  BY <1>12 DEF vars
<1> HIDE DEF Kept
<1> QED
  BY <1>2, <1>3, <1>4, <1>6, <1>7, <1>8, <1>9, <1>10, <1>11, <1>12 DEF Next

(* No daemon loses the leader row before the time it was told, whatever    *)
(* the other incarnations do and however old their clock readings are.     *)
THEOREM LeadershipIsHonoured == Spec => []LeadershipHonoured
<1>1. Init => LeaderInv
  BY DEF Init, LeaderInv, LeadershipHonoured, TokenHeld
<1>2. TypeOK /\ LeaderInv /\ [Next]_vars => LeaderInv'
  BY LeaderStep
<1>3. LeaderInv => LeadershipHonoured
  BY DEF LeaderInv
<1> QED BY <1>1, <1>2, <1>3, RunnerTypeCorrect, PTL DEF Spec

(* There is one leader at a time (OneLeader): two daemons with time left   *)
(* would both be the owner the row names.                                  *)
THEOREM LeaderExclusion == Spec => []OneLeader
<1>1. LeadershipHonoured => OneLeader
  BY DEF LeadershipHonoured, OneLeader
<1> QED BY <1>1, LeadershipIsHonoured, PTL

-----------------------------------------------------------------------------

(* Daemons started one after the other: nobody else lives beside a daemon, *)
(* and the one that announced itself last is the one that lives.           *)
OneAlive == \A p, q \in Daemon : Alive(p) /\ Alive(q) => p = q
LastIsAlive == \A p \in Daemon : Alive(p) => last \in {p, NoDaemon}

(* While it lives, the marker on disk says that it runs. *)
MarkerRuns == last # NoDaemon /\ Alive(last) => marker = "running"

(* What announced itself has started. *)
LastStarted == last # NoDaemon => phase[last] # "new"

MarkerInv == OneAlive /\ LastIsAlive /\ MarkerRuns /\ LastStarted /\ CrashIsDetected

(* A daemon starts, and no other one is there. *)
StartsAlone == \E p \in Daemon : Start(p) /\ \A q \in Daemon : ~Alive(q)

(* What happens but for a start. *)
Goes(p) ==
  \/ Startup(p) \/ StartupFails(p) \/ LaunchFails(p)
  \/ \E lag \in 0..MaxLag :
       Acquire(p, lag) \/ Refused(p, lag) \/ Renew(p, lag) \/ RenewFails(p, lag)
  \/ RenewThrows(p)
  \/ Signal(p) \/ ForceStop(p) \/ RestartCommand(p)
  \/ Shutdown(p)
  \/ Crash(p)

InTurn == StartsAlone \/ (\E p \in Daemon : Goes(p)) \/ Tick \/ UNCHANGED vars

LEMMA MarkerStep ==
  ASSUME TypeOK, MarkerInv, InTurn
  PROVE  MarkerInv'
<1> USE DEF MarkerInv, OneAlive, LastIsAlive, MarkerRuns, LastStarted, CrashIsDetected,
            TypeOK, Alive, Ended, Moves, Phase
<1>1. ASSUME NEW p \in Daemon, Start(p), \A q \in Daemon : ~Alive(q) PROVE MarkerInv'
  BY <1>1 DEF Start
<1>2. ASSUME NEW p \in Daemon, Startup(p) PROVE MarkerInv'
  BY <1>2 DEF Startup, BeginHeartbeats, ActivateCoordinator, SetRunning, WriteStartupMarker,
              AwaitShutdown
<1>3. ASSUME NEW p \in Daemon, StartupFails(p) PROVE MarkerInv'
  BY <1>3 DEF StartupFails, NotesGone
<1>4. ASSUME NEW p \in Daemon, Crash(p) PROVE MarkerInv'
  BY <1>4 DEF Crash, NotesGone
<1>5. ASSUME NEW p \in Daemon, NEW lag \in 0..MaxLag,
             Acquire(p, lag) \/ Refused(p, lag) \/ Renew(p, lag)
      PROVE  MarkerInv'
  BY <1>5 DEF Acquire, Refused, Renew
<1>6. ASSUME NEW p \in Daemon, LeadershipLost(p), Heartbeats(p), UNCHANGED <<phase, marker, last>>
      PROVE  MarkerInv'
  BY <1>6 DEF LeadershipLost, Heartbeats, HoldsToken
<1>7. ASSUME NEW p \in Daemon, NEW lag \in 0..MaxLag, RenewFails(p, lag) PROVE MarkerInv'
  BY <1>6, <1>7 DEF RenewFails
<1>8. ASSUME NEW p \in Daemon, RenewThrows(p) PROVE MarkerInv'
  BY <1>6, <1>8 DEF RenewThrows
<1>9. ASSUME NEW p \in Daemon, Signal(p) \/ ForceStop(p) \/ RestartCommand(p) PROVE MarkerInv'
  BY <1>9 DEF Signal, ForceStop, RestartCommand, BeginGracefulShutdown, Listens
<1>10. ASSUME NEW p \in Daemon,
              LaunchFails(p) \/ Drain(p) \/ BeginCleanup(p) \/ ReleaseLeadership(p)
       PROVE  MarkerInv'
  BY <1>10 DEF LaunchFails, Drain, Disposed, Fresh, BeginCleanup, ReleaseLeadership
<1>11. ASSUME NEW p \in Daemon, WriteFinalMarker(p) PROVE MarkerInv'
  BY <1>11 DEF WriteFinalMarker, NotesGone
<1>12. CASE Tick \/ UNCHANGED vars
  BY <1>12 DEF Tick, vars
<1> QED
  BY <1>1, <1>2, <1>3, <1>4, <1>5, <1>7, <1>8, <1>9, <1>10, <1>11, <1>12
     DEF InTurn, StartsAlone, Goes, Shutdown

(* With one daemon at a time the marker tells a daemon that died, or knew  *)
(* when its cleanup began that it leads no more, from a clean shutdown     *)
(* (CrashIsDetected), whatever was going on when it died.                  *)
THEOREM CrashAlwaysDetected ==
  ASSUME MayOverlap = FALSE
  PROVE  Spec => []CrashIsDetected
<1>1. Init => MarkerInv
  BY DEF Init, MarkerInv, OneAlive, LastIsAlive, MarkerRuns, LastStarted, CrashIsDetected, Alive
<1>2. TypeOK /\ MarkerInv /\ [Next]_vars => MarkerInv'
  <2>1. [Next]_vars => InTurn
    BY DEF Next, InTurn, StartsAlone, Goes, Start
  <2> QED BY <2>1, MarkerStep
<1>3. MarkerInv => CrashIsDetected
  BY DEF MarkerInv
<1> QED BY <1>1, <1>2, <1>3, RunnerTypeCorrect, PTL DEF Spec

(* The steps of daemons in turn are those of the instance. *)
LEMMA SerialStep == Serial!Next => InTurn /\ Next
<1> SUFFICES ASSUME Serial!Next PROVE InTurn /\ Next
  OBVIOUS
<1>1. ASSUME NEW p \in Daemon, Serial!Start(p)
      PROVE  Start(p) /\ \A q \in Daemon : ~Alive(q)
  BY <1>1 DEF Serial!Start, Serial!Moves, Serial!Alive, Serial!Ended, Start, Moves, Alive, Ended
<1>2. ASSUME NEW p \in Daemon, Serial!Startup(p)
      PROVE  Startup(p)
  BY <1>2 DEF Serial!Startup, Serial!BeginHeartbeats, Serial!ActivateCoordinator,
              Serial!SetRunning, Serial!WriteStartupMarker, Serial!AwaitShutdown, Serial!Moves,
              Startup, BeginHeartbeats, ActivateCoordinator, SetRunning, WriteStartupMarker,
              AwaitShutdown, Moves
<1>3. ASSUME NEW p \in Daemon, Serial!StartupFails(p) \/ Serial!LaunchFails(p) \/ Serial!Crash(p)
      PROVE  StartupFails(p) \/ LaunchFails(p) \/ Crash(p)
  BY <1>3 DEF Serial!StartupFails, Serial!LaunchFails, Serial!Crash, Serial!Released,
              Serial!NotesGone, Serial!Moves, Serial!Alive, Serial!NoLock, Serial!Fresh,
              Serial!Disposed, Disposed,
              StartupFails, LaunchFails, Crash, Released, NotesGone, Moves, Alive, NoLock, Fresh
<1>4. ASSUME NEW p \in Daemon, NEW lag \in 0..MaxLag, Serial!Acquire(p, lag) \/ Serial!Refused(p, lag)
      PROVE  Acquire(p, lag) \/ Refused(p, lag)
  BY <1>4 DEF Serial!Acquire, Serial!Refused, Serial!Moves, Serial!LockedOut, Serial!Granted,
              Serial!Alive, Acquire, Refused, Moves, LockedOut, Granted, Alive
<1>5. ASSUME NEW p \in Daemon, NEW lag \in 0..MaxLag, Serial!Renew(p, lag)
      PROVE  Renew(p, lag)
  BY <1>5 DEF Serial!Renew, Serial!Heartbeats, Serial!HoldsToken, Serial!Granted,
              Renew, Heartbeats, HoldsToken, Granted
<1>6. ASSUME NEW p \in Daemon, NEW lag \in 0..MaxLag, Serial!RenewFails(p, lag)
      PROVE  RenewFails(p, lag)
  BY <1>6 DEF Serial!RenewFails, Serial!Heartbeats, Serial!HoldsToken, Serial!LeadershipLost,
              RenewFails, Heartbeats, HoldsToken, LeadershipLost
<1>7. ASSUME NEW p \in Daemon, Serial!RenewThrows(p)
      PROVE  RenewThrows(p)
  BY <1>7 DEF Serial!RenewThrows, Serial!Heartbeats, Serial!HoldsToken, Serial!LeadershipLost,
              RenewThrows, Heartbeats, HoldsToken, LeadershipLost
<1>8. ASSUME NEW p \in Daemon, Serial!Signal(p)
      PROVE  Signal(p)
  BY <1>8 DEF Serial!Signal, Serial!Listens, Serial!BeginGracefulShutdown, Serial!HearsStop,
              Signal, Listens, BeginGracefulShutdown, HearsStop
<1>9. ASSUME NEW p \in Daemon, Serial!ForceStop(p)
      PROVE  ForceStop(p)
  BY <1>9 DEF Serial!ForceStop, Serial!Listens, ForceStop, Listens
<1>10. ASSUME NEW p \in Daemon, Serial!RestartCommand(p)
       PROVE  RestartCommand(p)
  BY <1>10 DEF Serial!RestartCommand, Serial!BeginGracefulShutdown, Serial!HearsStop,
               RestartCommand, BeginGracefulShutdown, HearsStop
<1>11. ASSUME NEW p \in Daemon, Serial!Shutdown(p)
       PROVE  Shutdown(p)
  BY <1>11 DEF Serial!Shutdown, Serial!Drain, Serial!BeginCleanup, Serial!ReleaseLeadership,
               Serial!WriteFinalMarker, Serial!Moves, Serial!Released, Serial!NotesGone,
               Serial!NoLock, Serial!Fresh, Serial!Disposed, Disposed, Shutdown, Drain,
               BeginCleanup, ReleaseLeadership, WriteFinalMarker, Moves, Released, NotesGone,
               NoLock, Fresh
<1>12. Serial!Tick => Tick
  BY DEF Serial!Tick, Serial!LeftAfterTick, Tick, LeftAfterTick
<1>13. CASE \E p \in Daemon : Serial!Start(p)
  BY <1>1, <1>13 DEF InTurn, StartsAlone, Next
<1>14. ASSUME NEW p \in Daemon,
              \/ Serial!Startup(p) \/ Serial!StartupFails(p) \/ Serial!LaunchFails(p)
              \/ \E lag \in 0..MaxLag : \/ Serial!Acquire(p, lag) \/ Serial!Refused(p, lag)
                                       \/ Serial!Renew(p, lag) \/ Serial!RenewFails(p, lag)
              \/ Serial!RenewThrows(p)
              \/ Serial!Signal(p) \/ Serial!ForceStop(p) \/ Serial!RestartCommand(p)
              \/ Serial!Shutdown(p)
              \/ Serial!Crash(p)
       PROVE  Goes(p)
  BY <1>2, <1>3, <1>4, <1>5, <1>6, <1>7, <1>8, <1>9, <1>10, <1>11, <1>14 DEF Goes
<1>15. ASSUME NEW p \in Daemon, Goes(p) PROVE InTurn /\ Next
  BY <1>15 DEF Goes, InTurn, Next
<1> QED BY <1>12, <1>13, <1>14, <1>15 DEF Serial!Next, InTurn, Next

(* The behaviours of MCDaemonRunner are behaviours of DaemonRunner, so     *)
(* what is proved of those holds of these.                                 *)
LEMMA RunnerIsDaemonRunner == RunnerSpec => Spec
<1>1. RunnerInit => Init
  BY DEF RunnerInit
<1>2. [RunnerNext]_<<subject, vars, watchdogVars>> => [Next]_vars
  BY SerialStep DEF RunnerNext
<1> QED BY <1>1, <1>2, PTL DEF RunnerSpec, Spec

(* Whatever other behaviours there are, a daemon that is only started when *)
(* none lives finds the right marker (CrashIsDetectedInTurn): the start    *)
(* that deletes the marker, and not the leadership, is what needs turns.   *)
THEOREM CrashDetectedInTurn == RunnerSpec => []CrashIsDetectedInTurn
<1> DEFINE I == subject = "serial" => MarkerInv
<1>1. RunnerInit => I
  BY DEF RunnerInit, Init, MarkerInv, OneAlive, LastIsAlive, MarkerRuns, LastStarted,
         CrashIsDetected, Alive
<1>2. TypeOK /\ I /\ [RunnerNext]_<<subject, vars, watchdogVars>> => I'
  <2> SUFFICES ASSUME TypeOK, I, [RunnerNext]_<<subject, vars, watchdogVars>>,
                      subject' = "serial"
               PROVE  MarkerInv'
    OBVIOUS
  <2>1. InTurn /\ MarkerInv
    BY SerialStep DEF RunnerNext, InTurn
  <2> QED BY <2>1, MarkerStep
<1>3. I => CrashIsDetectedInTurn
  BY DEF MarkerInv, CrashIsDetectedInTurn
<1> QED BY <1>1, <1>2, <1>3, RunnerIsDaemonRunner, RunnerTypeCorrect, PTL DEF RunnerSpec

-----------------------------------------------------------------------------
(* The watchdog *)

(* The updates of monitorChild's local variables keep their types. *)
LEMMA MonitorUpdates ==
  ASSUME NEW m \in Watchdog!Monitor, NEW b \in BOOLEAN, NEW c \in BOOLEAN,
         NEW n \in 0..MaxProbeFailures, NEW s \in {"no", "observed", "overdue"}
  PROVE  /\ [m EXCEPT !.exitSeen = b, !.force = c] \in Watchdog!Monitor
         /\ [m EXCEPT !.killed = TRUE, !.healthy = FALSE, !.force = TRUE] \in Watchdog!Monitor
         /\ [m EXCEPT !.healthy = TRUE, !.failures = n, !.stale = s] \in Watchdog!Monitor
         /\ [m EXCEPT !.failures = n, !.stale = s] \in Watchdog!Monitor
         /\ [m EXCEPT !.stale = s] \in Watchdog!Monitor
         /\ [m EXCEPT !.grace = FALSE] \in Watchdog!Monitor
         /\ m.force \in BOOLEAN /\ m.failures \in 0..MaxProbeFailures
<1>1. [m EXCEPT !.exitSeen = b, !.force = c] \in Watchdog!Monitor
  BY DEF Watchdog!Monitor
<1>2. [m EXCEPT !.killed = TRUE, !.healthy = FALSE, !.force = TRUE] \in Watchdog!Monitor
  BY DEF Watchdog!Monitor
<1>3. [m EXCEPT !.healthy = TRUE, !.failures = n, !.stale = s] \in Watchdog!Monitor
  BY DEF Watchdog!Monitor
<1>4. [m EXCEPT !.failures = n, !.stale = s] \in Watchdog!Monitor
  BY DEF Watchdog!Monitor
<1>5. [m EXCEPT !.stale = s] \in Watchdog!Monitor
  BY DEF Watchdog!Monitor
<1>6. [m EXCEPT !.grace = FALSE] \in Watchdog!Monitor
  BY DEF Watchdog!Monitor
<1>7. m.force \in BOOLEAN /\ m.failures \in 0..MaxProbeFailures
  BY DEF Watchdog!Monitor
<1> QED BY <1>1, <1>2, <1>3, <1>4, <1>5, <1>6, <1>7

LEMMA NewMonitorType == Watchdog!NewMonitor \in Watchdog!Monitor
<1>1. 0 \in 0..MaxProbeFailures
  BY Watched DEF Watchdog!WatchdogAssumption
<1> QED BY <1>1 DEF Watchdog!NewMonitor, Watchdog!Monitor

LEMMA RestartType ==
  ASSUME monitor \in Watchdog!Monitor, termSent \in BOOLEAN, Watchdog!TriggerRestart
  PROVE  monitor' \in Watchdog!Monitor /\ termSent' \in BOOLEAN
<1>1. CASE stopping
  BY <1>1 DEF Watchdog!TriggerRestart
<1>2. CASE ~stopping
  <2>1. monitor' \in Watchdog!Monitor
    BY <1>2 DEF Watchdog!TriggerRestart, Watchdog!Monitor
  <2>2. Watchdog!Lives \in BOOLEAN
    BY DEF Watchdog!Lives
  <2> QED BY <1>2, <2>1, <2>2 DEF Watchdog!TriggerRestart
<1> QED BY <1>1, <1>2

LEMMA ExitsType ==
  ASSUME monitor \in Watchdog!Monitor, reading \in {"none", "fresh", "stale"}, Watchdog!Exits
  PROVE  monitor' \in Watchdog!Monitor /\ reading' \in {"none", "fresh", "stale"}
<1>1. Watchdog!Watches \in BOOLEAN /\ (monitor.force /\ ~Watchdog!Watches) \in BOOLEAN
  BY DEF Watchdog!Watches
<1>2. monitor' = [monitor EXCEPT !.exitSeen = Watchdog!Watches,
                                 !.force = monitor.force /\ ~Watchdog!Watches]
  BY DEF Watchdog!Exits
<1>3. 0 \in 0..MaxProbeFailures
  BY Watched DEF Watchdog!WatchdogAssumption
<1>4. \A b, c \in BOOLEAN : [monitor EXCEPT !.exitSeen = b, !.force = c] \in Watchdog!Monitor
  BY <1>3, MonitorUpdates
<1>5. monitor' \in Watchdog!Monitor
  BY <1>1, <1>2, <1>4
<1> QED BY <1>5 DEF Watchdog!Exits

(* The two halves of the type invariant, of the loop and of what it watches. *)
LoopType ==
  /\ at \in {"preflight", "spawned", "monitoring", "sleeping", "refused", "circuit_open", "ended"}
  /\ stopping \in BOOLEAN /\ child \in 0..MaxChildren
  /\ storm \in 0..MaxUnhealthy /\ ill \in Nat

WatchedType ==
  /\ doing \in {"starting", "beating", "deaf", "hung", "leaving", "exited"}
  /\ fresh \in BOOLEAN /\ termSent \in BOOLEAN
  /\ monitor \in Watchdog!Monitor
  /\ reading \in {"none", "fresh", "stale"}

(* The window holds fewer restarts than open the circuit until it is open. *)
StormBounded == at # "circuit_open" => storm < MaxUnhealthy

LEMMA LoopTypeStep ==
  ASSUME LoopType, StormBounded, [Watchdog!Next]_(Watchdog!vars)
  PROVE  LoopType' /\ StormBounded'
<1>0. MaxChildren \in Nat /\ MaxUnhealthy \in Nat /\ MaxUnhealthy > 0
  BY Watched DEF Watchdog!WatchdogAssumption
<1> USE DEF LoopType, StormBounded
<1>1. CASE Watchdog!StartChild
  BY <1>0, <1>1 DEF Watchdog!StartChild
<1>2. CASE Watchdog!PreflightFails \/ Watchdog!BeginMonitor \/ Watchdog!Awaken
           \/ Watchdog!Stop \/ Watchdog!StopRuntimeForces
  BY <1>0, <1>2 DEF Watchdog!PreflightFails, Watchdog!BeginMonitor, Watchdog!Awaken,
                    Watchdog!Stop, Watchdog!StopRuntimeForces
<1>3. CASE Watchdog!StormAges
  BY <1>0, <1>3 DEF Watchdog!StormAges
<1>4. CASE Watchdog!ChildEnded
  <2>1. ill' \in Nat /\ child' = child
    BY <1>4 DEF Watchdog!ChildEnded
  <2>2. storm \in Nat /\ storm < MaxUnhealthy
    BY <1>0, <1>4 DEF Watchdog!ChildEnded
  <2>3. CASE stopping
    BY <1>0, <1>4, <2>1, <2>2, <2>3 DEF Watchdog!ChildEnded
  <2>4. CASE ~stopping /\ monitor.healthy
    BY <1>0, <1>4, <2>1, <2>4 DEF Watchdog!ChildEnded, Watchdog!AfterChild
  <2>5. CASE ~stopping /\ ~monitor.healthy
    <3>1. storm' = storm + 1 /\ storm + 1 \in 0..MaxUnhealthy
      BY <1>0, <1>4, <2>2, <2>5 DEF Watchdog!ChildEnded, Watchdog!AfterChild
    <3>2. CASE storm' >= MaxUnhealthy
      <4>1. at' = "circuit_open" /\ stopping' = TRUE
        BY <1>4, <2>5, <3>2 DEF Watchdog!ChildEnded, Watchdog!AfterChild
      <4> QED BY <2>1, <3>1, <4>1
    <3>3. CASE ~(storm' >= MaxUnhealthy)
      <4>1. at' = "sleeping" /\ stopping' = stopping
        BY <1>4, <2>5, <3>3 DEF Watchdog!ChildEnded, Watchdog!AfterChild
      <4>2. storm' < MaxUnhealthy
        BY <1>0, <2>2, <3>1, <3>3
      <4> QED BY <2>1, <3>1, <4>1, <4>2
    <3> QED BY <3>2, <3>3
  <2> QED BY <2>3, <2>4, <2>5
<1>5. CASE UNCHANGED Watchdog!loop
  BY <1>5 DEF Watchdog!loop
<1>6. CASE Watchdog!Poll \/ Watchdog!PollEnds \/ Watchdog!PollThrows
           \/ Watchdog!StartupGraceEnds \/ Watchdog!StaleGraceEnds \/ Watchdog!ForceKill
           \/ Watchdog!ChildLeads \/ Watchdog!ChildFalters \/ Watchdog!ChildRecovers
           \/ Watchdog!ChildTakesTerm \/ Watchdog!ChildExits
           \/ Watchdog!RecordsAge \/ UNCHANGED Watchdog!vars
  <2>1. UNCHANGED Watchdog!loop
    BY <1>6 DEF Watchdog!Poll, Watchdog!PollEnds, Watchdog!PollThrows,
                Watchdog!StartupGraceEnds, Watchdog!StaleGraceEnds, Watchdog!ForceKill,
                Watchdog!ChildLeads,
                Watchdog!ChildFalters, Watchdog!ChildRecovers, Watchdog!ChildTakesTerm,
                Watchdog!ChildExits, Watchdog!RecordsAge, Watchdog!vars, Watchdog!loop,
                Watchdog!ProbeAnswered, Watchdog!ProbeFails, Watchdog!PollFindsStale, Watchdog!Exits
  <2> QED BY <1>5, <2>1
<1> QED BY <1>1, <1>2, <1>3, <1>4, <1>6 DEF Watchdog!Next

LEMMA WatchedTypeStep ==
  ASSUME WatchedType, [Watchdog!Next]_(Watchdog!vars)
  PROVE  WatchedType'
<1>0. 0 \in 0..MaxProbeFailures /\ MaxProbeFailures \in Nat \ {0}
  BY Watched DEF Watchdog!WatchdogAssumption
<1>a. monitor \in Watchdog!Monitor /\ termSent \in BOOLEAN /\ reading \in {"none", "fresh", "stale"}
  BY DEF WatchedType
<1>1. CASE Watchdog!StartChild
  BY <1>1, NewMonitorType DEF Watchdog!StartChild, WatchedType
<1>2. CASE UNCHANGED <<monitor, reading>> /\ UNCHANGED Watchdog!world
  BY <1>2 DEF WatchedType, Watchdog!world
<1>3. CASE Watchdog!PreflightFails \/ Watchdog!BeginMonitor \/ Watchdog!Awaken
           \/ Watchdog!StormAges \/ Watchdog!ChildEnded \/ UNCHANGED Watchdog!vars
  BY <1>2, <1>3 DEF Watchdog!PreflightFails, Watchdog!BeginMonitor, Watchdog!Awaken,
                    Watchdog!StormAges, Watchdog!ChildEnded, Watchdog!vars, Watchdog!world
<1>4. CASE Watchdog!Stop \/ Watchdog!StopRuntimeForces
  <2>1. termSent' \in BOOLEAN
    BY <1>4, <1>a DEF Watchdog!Stop, Watchdog!StopRuntimeForces, Watchdog!Lives
  <2>2. doing' \in {doing, "exited"} /\ UNCHANGED <<fresh, monitor, reading>>
    BY <1>4 DEF Watchdog!Stop, Watchdog!StopRuntimeForces
  <2> QED BY <2>1, <2>2 DEF WatchedType
<1>5. CASE Watchdog!Poll \/ Watchdog!PollThrows
  BY <1>5 DEF Watchdog!Poll, Watchdog!PollThrows, WatchedType, Watchdog!world
<1>6. CASE Watchdog!ProbeAnswered
  <2>1. monitor' \in Watchdog!Monitor
    BY <1>0, <1>6, <1>a, MonitorUpdates DEF Watchdog!ProbeAnswered
  <2> QED BY <1>6, <2>1 DEF Watchdog!ProbeAnswered, WatchedType, Watchdog!world
<1>7. CASE Watchdog!ProbeFails
  <2>1. monitor' \in Watchdog!Monitor /\ termSent' \in BOOLEAN
    <3>1. CASE Watchdog!TriggerRestart
      BY <1>a, <3>1, RestartType
    <3>2. CASE ~Watchdog!TriggerRestart
      <4> DEFINE n == IF monitor.failures < MaxProbeFailures THEN monitor.failures + 1
                      ELSE MaxProbeFailures
      <4>1. monitor.failures \in 0..MaxProbeFailures
        BY <1>0, <1>a, MonitorUpdates
      <4>2. n \in 0..MaxProbeFailures
        BY <1>0, <4>1
      <4>3. [monitor EXCEPT !.failures = n, !.stale = "no"] \in Watchdog!Monitor
        <5> HIDE DEF n
        <5> QED BY <1>a, <4>2, MonitorUpdates
      <4>4. monitor' = [monitor EXCEPT !.failures = n, !.stale = "no"] /\ UNCHANGED termSent
        BY <1>7, <3>2 DEF Watchdog!ProbeFails
      <4> QED BY <1>a, <4>3, <4>4
    <3> QED BY <3>1, <3>2
  <2> QED BY <1>7, <2>1 DEF Watchdog!ProbeFails, WatchedType
<1>8. CASE Watchdog!PollFindsStale
  <2>1. monitor' \in Watchdog!Monitor /\ termSent' \in BOOLEAN
    <3>1. CASE Watchdog!TriggerRestart
      BY <1>a, <3>1, RestartType
    <3>2. CASE ~Watchdog!TriggerRestart
      BY <1>8, <1>a, <3>2 DEF Watchdog!PollFindsStale, Watchdog!Monitor
    <3> QED BY <3>1, <3>2
  <2> QED BY <1>8, <2>1 DEF Watchdog!PollFindsStale, WatchedType
<1>9. CASE Watchdog!StartupGraceEnds \/ Watchdog!StaleGraceEnds
  <2>1. monitor' \in Watchdog!Monitor
    BY <1>9, <1>a DEF Watchdog!StartupGraceEnds, Watchdog!StaleGraceEnds, Watchdog!Monitor
  <2> QED BY <1>9, <2>1 DEF Watchdog!StartupGraceEnds, Watchdog!StaleGraceEnds,
                            WatchedType, Watchdog!world
<1>10. CASE Watchdog!ForceKill \/ Watchdog!ChildExits
  <2>1. Watchdog!Exits
    BY <1>10 DEF Watchdog!ForceKill, Watchdog!ChildExits
  <2>2. monitor' \in Watchdog!Monitor /\ reading' \in {"none", "fresh", "stale"}
    BY <1>a, <2>1, ExitsType
  <2> QED BY <2>1, <2>2 DEF Watchdog!Exits, WatchedType
<1>11. CASE Watchdog!ChildLeads \/ Watchdog!ChildFalters \/ Watchdog!ChildRecovers
            \/ Watchdog!ChildTakesTerm \/ Watchdog!RecordsAge
  BY <1>11 DEF Watchdog!ChildLeads, Watchdog!ChildFalters, Watchdog!ChildRecovers,
               Watchdog!ChildTakesTerm, Watchdog!RecordsAge, WatchedType
<1> QED
  BY <1>1, <1>3, <1>4, <1>5, <1>6, <1>7, <1>8, <1>9, <1>10, <1>11 DEF Watchdog!Next,
                                                                      Watchdog!PollEnds

(* Type correctness of RuntimeWatchdog: in particular the failures counted *)
(* and the storm stay within their bounds.                                 *)
THEOREM WatchdogTypeCorrect == Watchdog!Spec => []Watchdog!TypeOK
<1> DEFINE Inv == (LoopType /\ StormBounded) /\ WatchedType
<1>1. Watchdog!Init => Inv
  <2>1. Watchdog!Init => LoopType /\ StormBounded
    <3>1. 0 \in 0..MaxChildren /\ 0 \in 0..MaxUnhealthy /\ 0 < MaxUnhealthy /\ 0 \in Nat
      BY Watched DEF Watchdog!WatchdogAssumption
    <3>2. Watchdog!Init => stopping \in BOOLEAN
      BY DEF Watchdog!Init
    <3> QED BY <3>1, <3>2 DEF Watchdog!Init, LoopType, StormBounded
  <2>2. Watchdog!Init => WatchedType
    BY NewMonitorType DEF Watchdog!Init, WatchedType
  <2> QED BY <2>1, <2>2
<1>2. Inv /\ [Watchdog!Next]_(Watchdog!vars) => Inv'
  BY LoopTypeStep, WatchedTypeStep
<1>3. Inv => Watchdog!TypeOK
  BY DEF LoopType, WatchedType, Watchdog!TypeOK
<1> QED BY <1>1, <1>2, <1>3, PTL DEF Watchdog!Spec

-----------------------------------------------------------------------------
(* A monitor that has seen an exit has no child any more, and only that    *)
(* lets the loop go on.                                                    *)
ExitSeenIsTrue == monitor.exitSeen => ~Watchdog!Lives

(* No child outlives its monitor (NoStrayChild): the loop leaves a child   *)
(* only through its exit event or the forced kill.                         *)
THEOREM NoChildIsLeft == Watchdog!Spec => []NoStrayChild
<1> DEFINE Inv == Watchdog!NoStrayChild /\ ExitSeenIsTrue
<1>1. Watchdog!Init => Inv
  BY DEF Watchdog!Init, Watchdog!NoStrayChild, ExitSeenIsTrue, Watchdog!Lives
<1>2. Watchdog!TypeOK /\ Inv /\ [Watchdog!Next]_(Watchdog!vars) => Inv'
  <2> SUFFICES ASSUME Watchdog!TypeOK, Inv, [Watchdog!Next]_(Watchdog!vars) PROVE Inv'
    OBVIOUS
  <2> USE DEF Watchdog!TypeOK, Watchdog!NoStrayChild, ExitSeenIsTrue, Watchdog!Lives,
              Watchdog!loop, Watchdog!world
  <2>1. CASE Watchdog!StartChild
    BY <2>1 DEF Watchdog!StartChild, Watchdog!NewMonitor
  <2>2. CASE Watchdog!PreflightFails \/ Watchdog!BeginMonitor \/ Watchdog!Awaken
             \/ Watchdog!StormAges \/ Watchdog!Stop \/ Watchdog!StopRuntimeForces
    BY <2>2 DEF Watchdog!PreflightFails, Watchdog!BeginMonitor, Watchdog!Awaken,
                Watchdog!StormAges, Watchdog!Stop, Watchdog!StopRuntimeForces
  <2>3. CASE Watchdog!ChildEnded
    BY <2>3 DEF Watchdog!ChildEnded, Watchdog!AfterChild
  <2>4. CASE Watchdog!Poll \/ Watchdog!PollEnds \/ Watchdog!PollThrows
             \/ Watchdog!StartupGraceEnds \/ Watchdog!StaleGraceEnds
    <3>1. UNCHANGED <<at, doing>> /\ monitor'.exitSeen = monitor.exitSeen
      BY <2>4 DEF Watchdog!Poll, Watchdog!PollEnds, Watchdog!PollThrows,
                  Watchdog!StartupGraceEnds, Watchdog!StaleGraceEnds, Watchdog!ProbeAnswered,
                  Watchdog!ProbeFails, Watchdog!PollFindsStale, Watchdog!TriggerRestart,
                  Watchdog!Monitor
    <3> QED BY <3>1
  <2>5. CASE Watchdog!ForceKill \/ Watchdog!ChildExits
    BY <2>5 DEF Watchdog!ForceKill, Watchdog!ChildExits, Watchdog!Exits, Watchdog!Watches
  <2>6. CASE Watchdog!ChildLeads \/ Watchdog!ChildFalters \/ Watchdog!ChildRecovers
             \/ Watchdog!ChildTakesTerm \/ Watchdog!RecordsAge
    BY <2>6 DEF Watchdog!ChildLeads, Watchdog!ChildFalters, Watchdog!ChildRecovers,
                Watchdog!ChildTakesTerm, Watchdog!RecordsAge
  <2>7. CASE UNCHANGED Watchdog!vars
    BY <2>7 DEF Watchdog!vars
  <2> QED BY <2>1, <2>2, <2>3, <2>4, <2>5, <2>6, <2>7 DEF Watchdog!Next
<1>3. Inv => NoStrayChild
  BY DEF NoStrayChild
<1> QED BY <1>1, <1>2, <1>3, WatchdogTypeCorrect, PTL DEF Watchdog!Spec

-----------------------------------------------------------------------------
(* What is left in the window ended unhealthy, one after the other, unless *)
(* a stop has ended the loop with a healthy child.                         *)
StormIsIll == at # "ended" => storm <= ill

(* The circuit opens only after MaxUnhealthy children in a row that ended  *)
(* badly (CircuitMeansStorm), however old restarts leave the window.       *)
THEOREM CircuitNeedsStorm == Watchdog!Spec => []CircuitMeansStorm
<1> DEFINE Inv == Watchdog!CircuitMeansStorm /\ StormIsIll
<1>1. Watchdog!Init => Inv
  BY DEF Watchdog!Init, Watchdog!CircuitMeansStorm, StormIsIll
<1>2. Watchdog!TypeOK /\ Inv /\ [Watchdog!Next]_(Watchdog!vars) => Inv'
  <2> SUFFICES ASSUME Watchdog!TypeOK, Inv, [Watchdog!Next]_(Watchdog!vars) PROVE Inv'
    OBVIOUS
  <2> USE DEF Watchdog!TypeOK, Watchdog!CircuitMeansStorm, StormIsIll, Watchdog!loop,
              Watchdog!world
  <2>1. CASE Watchdog!ChildEnded
    <3>1. storm \in Nat /\ ill \in Nat /\ MaxUnhealthy \in Nat /\ storm <= ill
      BY <2>1, Watched DEF Watchdog!WatchdogAssumption, Watchdog!ChildEnded
    <3>2. CASE stopping
      BY <2>1, <3>2 DEF Watchdog!ChildEnded
    <3>3. CASE ~stopping /\ monitor.healthy
      BY <2>1, <3>3 DEF Watchdog!ChildEnded, Watchdog!AfterChild
    <3>4. CASE ~stopping /\ ~monitor.healthy
      <4>1. storm' = storm + 1 /\ ill' = ill + 1
        BY <2>1, <3>4 DEF Watchdog!ChildEnded, Watchdog!AfterChild
      <4>2. storm' <= ill' /\ (at' = "circuit_open" => storm' >= MaxUnhealthy)
        BY <2>1, <3>1, <3>4, <4>1 DEF Watchdog!ChildEnded, Watchdog!AfterChild
      <4> QED BY <3>1, <4>1, <4>2
    <3> QED BY <3>2, <3>3, <3>4
  <2>2. CASE Watchdog!StartChild \/ Watchdog!PreflightFails \/ Watchdog!BeginMonitor
             \/ Watchdog!Awaken \/ Watchdog!StormAges \/ Watchdog!Stop
             \/ Watchdog!StopRuntimeForces
    BY <2>2 DEF Watchdog!StartChild, Watchdog!PreflightFails, Watchdog!BeginMonitor,
                Watchdog!Awaken, Watchdog!StormAges, Watchdog!Stop, Watchdog!StopRuntimeForces
  <2>3. CASE Watchdog!Poll \/ Watchdog!PollEnds \/ Watchdog!PollThrows
             \/ Watchdog!StartupGraceEnds \/ Watchdog!StaleGraceEnds
    BY <2>3 DEF Watchdog!Poll, Watchdog!PollEnds, Watchdog!PollThrows,
                Watchdog!StartupGraceEnds, Watchdog!StaleGraceEnds, Watchdog!ProbeAnswered,
                Watchdog!ProbeFails, Watchdog!PollFindsStale
  <2>4. CASE Watchdog!ForceKill \/ Watchdog!ChildExits \/ Watchdog!ChildLeads
             \/ Watchdog!ChildFalters \/ Watchdog!ChildRecovers
             \/ Watchdog!ChildTakesTerm \/ Watchdog!RecordsAge
    BY <2>4 DEF Watchdog!ForceKill, Watchdog!ChildExits, Watchdog!Exits,
                Watchdog!ChildLeads, Watchdog!ChildFalters, Watchdog!ChildRecovers,
                Watchdog!ChildTakesTerm, Watchdog!RecordsAge
  <2>5. CASE UNCHANGED Watchdog!vars
    BY <2>5 DEF Watchdog!vars
  <2> QED BY <2>1, <2>2, <2>3, <2>4, <2>5 DEF Watchdog!Next
<1>3. Inv => CircuitMeansStorm
  BY DEF CircuitMeansStorm
<1> QED BY <1>1, <1>2, <1>3, WatchdogTypeCorrect, PTL DEF Watchdog!Spec
=============================================================================
