--------------------------- MODULE FaultRecovery ---------------------------
(***************************************************************************)
(* How the OBC notices a hung role and gets it restarted, with its timing. *)
(*                                                                         *)
(* Every role's heartbeat thread sends, once per second, a heartbeat to    *)
(* FDIR and then one to the supervisor (src/apps/obc/<role>/src/           *)
(* heartbeat.c).  FDIR's health monitor stamps what it receives, its       *)
(* watchdog asks the supervisor to restart a role whose stamp is too old   *)
(* and pings the supervisor itself (src/apps/obc/fdir).  The supervisor's  *)
(* control thread does the restarts and stamps FDIR's pings, its heartbeat *)
(* thread restarts FDIR when that stamp is too old.                        *)
(*                                                                         *)
(* A socket holds IPC_BACKLOG messages; a sender that finds it full waits  *)
(* in connect(2).  Time passes in seconds: a step that can be taken is     *)
(* taken before the next second (CanStep), the waits that the code spends  *)
(* asleep or in a kill take seconds, and so may the health monitor's send  *)
(* to the commands role, whose socket is full when that role is stuck.     *)
(* What a restart does in detail is the subject of Supervisor; here it is  *)
(* one step at the end of the kill, and posix_spawn may fail.              *)
(***************************************************************************)
EXTENDS Integers, Sequences

CONSTANTS
  R,              \* number of monitored roles
  RoleTimeout,    \* ROLE_HEARTBEAT_TIMEOUT_SEC of FDIR's watchdog
  FdirTimeout,    \* HEARTBEAT_TIMEOUT_SEC of the supervisor
  Grace,          \* SHUTDOWN_GRACE_SEC
  Pause,          \* the health monitor's sleep before a board shutdown
  Threshold,      \* RESET_SHUTDOWN_THRESHOLD
  Backlog,        \* IPC_BACKLOG
  MaxHangs,       \* bound: hangs of roles
  MaxFdirHangs,   \* bound: hangs of FDIR
  MaxNotices,     \* bound: reset notices of the board
  MaxLosses,      \* bound: requests of FDIR that IPC_send fails to deliver
  MaxSpawnFails,  \* bound: restarts whose posix_spawn fails
  MaxWait,        \* bound: seconds that commands keeps the health monitor's order waiting
  MaxAge          \* bound: ages, and periods a thread is behind, saturate here

ASSUME CountsAssumption == {R, Backlog, Threshold} \subseteq Nat \ {0}
ASSUME TimesAssumption ==
  /\ {RoleTimeout, FdirTimeout, Grace, Pause, MaxAge} \subseteq Nat
  /\ MaxAge > RoleTimeout /\ MaxAge > FdirTimeout
ASSUME LimitsAssumption ==
  {MaxHangs, MaxFdirHangs, MaxNotices, MaxLosses, MaxSpawnFails, MaxWait} \subseteq Nat

Roles  == 1..R
Fdir   == 0            \* FDIR as a sender of messages to the supervisor
Nobody == -1

VARIABLES
  hung,          \* roles whose process makes no progress
  dead,          \* roles and FDIR without a process: the respawn failed (pid -1)
  hpc, owed,     \* heartbeat threads: next send, periods not yet served
  last_heartbeat,   \* age of last_heartbeat[r] (of the start while unseen)
  fault_latched,
  wi, late, wowed,  \* watchdog: role looked at (0: asleep), age of now, periods
  ordering, pause, waited,  \* health monitor: ordering a board's shutdown, its
                            \* seconds left to sleep, seconds spent in the send
  reset_counts, shutdowns,    \* of the board; shutdowns this FDIR ordered
  fdirInbox, fdirHung,
  supInbox,      \* messages waiting on the supervisor's socket
  control, left, \* control thread: role being killed; seconds to SIGKILL
  si, sowed,     \* supervisor's heartbeat thread: entry looked at, periods
  fdirLeft,      \* seconds to FDIR's SIGKILL
  fdirAge,       \* age of the supervisor's last_heartbeat[ROLE_FDIR]
  hungFor,       \* seconds since the role hung
  falseFdir,     \* FDIR was restarted although it was running
  delayed,       \* has commands kept the health monitor's order waiting?
  hangs, fdirHangs, notices, losses, spawnFails

beats   == <<hpc, owed>>
watchdog == <<fault_latched, wi, late, wowed>>
monitor == <<last_heartbeat, ordering, pause, waited, reset_counts, shutdowns>>
sweep   == <<si, sowed, fdirLeft>>
killing == <<control, left>>
ghosts  == <<hungFor, falseFdir, delayed>>
events  == <<hangs, fdirHangs, notices, losses, spawnFails>>
vars    == <<hung, dead, beats, watchdog, monitor, fdirInbox, fdirHung, supInbox,
             killing, sweep, fdirAge, ghosts, events>>

Running(r) == r \notin hung \cup dead
Room(q)   == Len(q) < Backlog
Older(a)  == IF a < MaxAge THEN a + 1 ELSE a
Notice    == 0         \* in FDIR's inbox; a role's number is a heartbeat
Restart(r) == [src |-> Fdir, restart |-> r]
Ping(s)    == [src |-> s, restart |-> Nobody]

\* The longest a role stays hung: the heartbeat timeout, the watchdog's period,
\* a lost request per period, the kill's grace period; the sleep of the health
\* monitor, which stamps late what was sent before the hang; and, if FDIR hangs
\* as well, the time to find that out, to kill it and the new FDIR's timeout.
MaxOutage ==
  RoleTimeout + 1 + MaxLosses + Grace
  + (IF MaxNotices >= Threshold THEN Pause ELSE 0)
  + MaxFdirHangs * (FdirTimeout + 1 + Grace + RoleTimeout + 1)

LongerHung(h) == IF h <= MaxOutage THEN h + 1 ELSE h

\* Every variable has its type; no socket holds more than its backlog.
TypeOK ==
  /\ hung \subseteq Roles /\ dead \subseteq Roles \cup {Fdir}
  /\ fdirHung \in BOOLEAN /\ falseFdir \in BOOLEAN
  /\ delayed \in {"never", "now", "past"} /\ ordering \in BOOLEAN
  /\ hpc \in [Roles -> {"fdir", "supervisor"}] /\ owed \in [Roles -> 0..MaxAge]
  /\ last_heartbeat \in [Roles -> 0..MaxAge]
  /\ fault_latched \in [Roles -> BOOLEAN]
  /\ wi \in 0..(R + 1) /\ late \in 0..MaxAge /\ wowed \in 0..MaxAge
  /\ pause \in 0..Pause /\ waited \in 0..MaxWait
  /\ reset_counts \in Nat /\ shutdowns \in Nat
  /\ Len(fdirInbox) <= Backlog /\ Len(supInbox) <= Backlog
  /\ \A i \in 1..Len(supInbox) :
       supInbox[i] \in [src : Roles \cup {Fdir}, restart : Roles \cup {Nobody}]
  /\ control \in Roles \cup {Nobody} /\ left \in 0..Grace
  /\ si \in 0..(R + 2) /\ fdirLeft \in 0..Grace /\ sowed \in 0..MaxAge /\ fdirAge \in 0..MaxAge
  /\ hungFor \in [Roles -> Nat]
  /\ {hangs, fdirHangs, notices, losses, spawnFails} \subseteq Nat

Init ==
  /\ hung = {} /\ dead = {} /\ fdirHung = FALSE
  /\ hpc = [r \in Roles |-> "fdir"] /\ owed = [r \in Roles |-> 1]
  /\ last_heartbeat = [r \in Roles |-> 0]
  /\ fault_latched = [r \in Roles |-> FALSE]
  /\ wi = 0 /\ late = 0 /\ wowed = 1
  /\ ordering = FALSE /\ pause = 0 /\ waited = 0 /\ reset_counts = 0 /\ shutdowns = 0
  /\ fdirInbox = <<>> /\ supInbox = <<>>
  /\ control = Nobody /\ left = 0
  /\ si = 0 /\ sowed = 1 /\ fdirLeft = 0 /\ fdirAge = 0
  /\ hungFor = [r \in Roles |-> 0] /\ falseFdir = FALSE /\ delayed = "never"
  /\ hangs = 0 /\ fdirHangs = 0 /\ notices = 0 /\ losses = 0 /\ spawnFails = 0

-----------------------------------------------------------------------------
(***************************************************************************)
(* heartbeat_thread of a role: first FDIR, then the supervisor.  A thread  *)
(* that was held up serves the periods it missed without sleeping; the     *)
(* connection to an FDIR that is dead is refused at once.                  *)
(***************************************************************************)
CanBeat(r) == Running(r) /\ owed[r] > 0
              /\ IF hpc[r] = "fdir" THEN Room(fdirInbox) \/ Fdir \in dead
                 ELSE Room(supInbox)

Beat(r) ==
  /\ CanBeat(r)
  /\ \/ /\ hpc[r] = "fdir"
        /\ fdirInbox' = IF Fdir \in dead THEN fdirInbox ELSE Append(fdirInbox, r)
        /\ hpc' = [hpc EXCEPT ![r] = "supervisor"]
        /\ UNCHANGED <<owed, supInbox>>
     \/ /\ hpc[r] = "supervisor"
        /\ supInbox' = Append(supInbox, Ping(r))
        /\ hpc' = [hpc EXCEPT ![r] = "fdir"]
        /\ owed' = [owed EXCEPT ![r] = @ - 1]
        /\ UNCHANGED fdirInbox
  /\ UNCHANGED <<hung, dead, watchdog, monitor, fdirHung, killing, sweep, fdirAge,
                 ghosts, events>>

(***************************************************************************)
(* watchdog_thread.  now is read once per iteration; a send that has to    *)
(* wait lets it grow old (late).                                           *)
(***************************************************************************)
\* Mutant of RoleIsStale: no allowance for a heartbeat that is under way.
RoleIsStaleEagerly(r) == last_heartbeat[r] - late > 1

\* role_is_stale; before the first heartbeat the age counts from the start.
RoleIsStale(r) == last_heartbeat[r] - late > RoleTimeout

WatchBegin ==
  /\ ~fdirHung /\ wi = 0 /\ wowed > 0
  /\ wi' = 1 /\ late' = 0
  /\ UNCHANGED <<hung, dead, beats, fault_latched, wowed, monitor, fdirInbox,
                 fdirHung, supInbox, killing, sweep, fdirAge, ghosts, events>>

MustAsk == wi \in Roles /\ RoleIsStale(wi) /\ ~fault_latched[wi]
CanCheck == ~fdirHung /\ wi \in Roles /\ (MustAsk => Room(supInbox))

\* Mutant of WatchCheck: the latch is set although the request was not sent.
WatchCheckLatchesAlways ==
  /\ CanCheck
  /\ wi' = wi + 1
  /\ \/ /\ MustAsk
        /\ supInbox' = Append(supInbox, Restart(wi))
        /\ fault_latched' = [fault_latched EXCEPT ![wi] = TRUE]
        /\ UNCHANGED losses
     \/ /\ MustAsk
        /\ losses < MaxLosses
        /\ losses' = losses + 1
        /\ fault_latched' = [fault_latched EXCEPT ![wi] = TRUE]
        /\ UNCHANGED supInbox
     \/ /\ ~MustAsk
        /\ fault_latched' = [fault_latched EXCEPT ![wi] = @ /\ RoleIsStale(wi)]
        /\ UNCHANGED <<supInbox, losses>>
  /\ UNCHANGED <<hung, dead, beats, late, wowed, monitor, fdirInbox, fdirHung,
                 killing, sweep, fdirAge, ghosts, hangs, fdirHangs, notices, spawnFails>>

\* One role of the loop: a stale one is reported once (and latched only when
\* the request was sent), a fresh one releases its latch.
WatchCheck ==
  /\ CanCheck
  /\ wi' = wi + 1
  /\ \/ /\ MustAsk
        /\ supInbox' = Append(supInbox, Restart(wi))
        /\ fault_latched' = [fault_latched EXCEPT ![wi] = TRUE]
        /\ UNCHANGED losses
     \/ /\ MustAsk
        /\ losses < MaxLosses
        /\ losses' = losses + 1
        /\ UNCHANGED <<supInbox, fault_latched>>
     \/ /\ ~MustAsk
        /\ fault_latched' = [fault_latched EXCEPT ![wi] = @ /\ RoleIsStale(wi)]
        /\ UNCHANGED <<supInbox, losses>>
  /\ UNCHANGED <<hung, dead, beats, late, wowed, monitor, fdirInbox, fdirHung,
                 killing, sweep, fdirAge, ghosts, hangs, fdirHangs, notices, spawnFails>>

\* FDIR's own ping ends the iteration.
CanPing == ~fdirHung /\ wi = R + 1 /\ Room(supInbox)

WatchPing ==
  /\ CanPing
  /\ supInbox' = Append(supInbox, Ping(Fdir))
  /\ wi' = 0 /\ wowed' = wowed - 1
  /\ UNCHANGED <<hung, dead, beats, fault_latched, late, monitor, fdirInbox, fdirHung,
                 killing, sweep, fdirAge, ghosts, events>>

(***************************************************************************)
(* health_monitor_thread.                                                  *)
(***************************************************************************)
CanReceive == ~fdirHung /\ ~ordering /\ fdirInbox # <<>>

\* A heartbeat is stamped when it is received; the notice that reaches the
\* threshold puts the thread to sleep before it gives the order.
MonitorReceive ==
  /\ CanReceive
  /\ fdirInbox' = Tail(fdirInbox)
  /\ \/ /\ Head(fdirInbox) # Notice
        /\ last_heartbeat' = [last_heartbeat EXCEPT ![Head(fdirInbox)] = 0]
        /\ UNCHANGED <<ordering, pause, reset_counts>>
     \/ /\ Head(fdirInbox) = Notice
        /\ reset_counts' = reset_counts + 1
        /\ ordering' = (reset_counts + 1 = Threshold)
        /\ pause' = IF reset_counts + 1 = Threshold THEN Pause ELSE 0
        /\ UNCHANGED last_heartbeat
  /\ UNCHANGED <<hung, dead, beats, watchdog, waited, shutdowns, fdirHung, supInbox,
                 killing, sweep, fdirAge, ghosts, events>>

\* fallback_shutdown_board: IPC_send waits in connect(2) as long as commands leaves
\* its socket full; nobody looks at the result, and the order is not repeated.
InSend == ~fdirHung /\ ordering /\ pause = 0

MonitorOrder ==
  /\ InSend
  /\ ordering' = FALSE /\ waited' = 0
  /\ shutdowns' = shutdowns + 1
  /\ UNCHANGED <<hung, dead, beats, watchdog, last_heartbeat, pause, reset_counts,
                 fdirInbox, fdirHung, supInbox, killing, sweep, fdirAge, ghosts,
                 events>>

(***************************************************************************)
(* The supervisor's control thread: shutdown_thread.                       *)
(***************************************************************************)
CanServe == control = Nobody /\ supInbox # <<>>

\* FDIR's ping is stamped, the others' stamps are never judged; a request
\* starts with SIGTERM and a grace period.
ControlReceive ==
  /\ CanServe
  /\ supInbox' = Tail(supInbox)
  /\ LET m == Head(supInbox) IN
       \/ /\ m.restart = Nobody
          /\ fdirAge' = IF m.src = Fdir THEN 0 ELSE fdirAge
          /\ UNCHANGED killing
       \/ /\ m.restart # Nobody
          /\ control' = m.restart /\ left' = Grace
          /\ UNCHANGED fdirAge
  /\ UNCHANGED <<hung, dead, beats, watchdog, monitor, fdirInbox, fdirHung, sweep,
                 ghosts, events>>

\* A healthy role dies of SIGTERM at once, a hung one when it chooses to or of
\* SIGKILL; the new process starts with a heartbeat.  Without a new process the
\* entry stays dead: supervisor_reap passes over it, only a request tries again.
CanRevive == control \in Roles

Revive ==
  /\ CanRevive
  /\ hung' = hung \ {control}
  /\ hpc' = [hpc EXCEPT ![control] = "fdir"]
  /\ owed' = [owed EXCEPT ![control] = 1]
  /\ control' = Nobody /\ left' = 0
  /\ \/ /\ dead' = dead \ {control}
        /\ hungFor' = [hungFor EXCEPT ![control] = 0]
        /\ UNCHANGED spawnFails
     \/ /\ spawnFails < MaxSpawnFails
        /\ spawnFails' = spawnFails + 1
        /\ dead' = dead \cup {control}
        /\ UNCHANGED hungFor
  /\ UNCHANGED <<watchdog, monitor, fdirInbox, fdirHung, supInbox, sweep, fdirAge,
                 falseFdir, delayed, hangs, fdirHangs, notices, losses>>

(***************************************************************************)
(* The supervisor's heartbeat thread: supervisor_reap takes every entry's  *)
(* lifecycle_lock, which the control thread holds during a kill; then      *)
(* supervisor_check_frozen.                                                *)
(***************************************************************************)
CanSweep == \/ si = 0 /\ sowed > 0
            \/ si \in Roles /\ control # si
            \/ si = R + 1

SweepEntry ==
  /\ CanSweep
  /\ si <= R
  /\ si' = si + 1
  /\ UNCHANGED <<hung, dead, beats, watchdog, monitor, fdirInbox, fdirHung, supInbox,
                 killing, sowed, fdirLeft, fdirAge, ghosts, events>>

\* Mutant of FdirIsFrozen: the comparison is off by several periods.
FdirIsFrozenEagerly == fdirAge > 1

\* supervisor_is_frozen(ROLE_FDIR)
FdirIsFrozen == fdirAge > FdirTimeout

\* A dead FDIR is passed over: its pid is -1.
CheckFrozen ==
  /\ si = R + 1
  /\ \/ /\ ~FdirIsFrozen \/ Fdir \in dead
        /\ si' = 0 /\ sowed' = sowed - 1
        /\ UNCHANGED <<fdirLeft, falseFdir>>
     \/ /\ FdirIsFrozen /\ Fdir \notin dead
        /\ si' = R + 2 /\ fdirLeft' = Grace
        /\ falseFdir' = (falseFdir \/ ~fdirHung)
        /\ UNCHANGED sowed
  /\ UNCHANGED <<hung, dead, beats, watchdog, monitor, fdirInbox, fdirHung, supInbox,
                 killing, fdirAge, hungFor, delayed, events>>

\* The old FDIR is dead; the new one knows nothing of latches, stamps and
\* board resets.  Without a new one the stamp of FDIR is not renewed.
RestartFdir ==
  /\ si = R + 2
  /\ si' = 0 /\ sowed' = sowed - 1 /\ fdirLeft' = 0
  /\ \/ /\ fdirAge' = 0 /\ fdirHung' = FALSE
        /\ UNCHANGED <<dead, spawnFails>>
     \/ /\ spawnFails < MaxSpawnFails
        /\ spawnFails' = spawnFails + 1
        /\ dead' = dead \cup {Fdir} /\ fdirHung' = TRUE
        /\ UNCHANGED fdirAge
  /\ delayed' = IF delayed = "now" THEN "past" ELSE delayed
  /\ fdirInbox' = <<>>
  /\ last_heartbeat' = [r \in Roles |-> 0]
  /\ fault_latched' = [r \in Roles |-> FALSE]
  /\ wi' = 0 /\ late' = 0 /\ wowed' = 1
  /\ ordering' = FALSE /\ pause' = 0 /\ waited' = 0 /\ reset_counts' = 0 /\ shutdowns' = 0
  /\ UNCHANGED <<hung, beats, supInbox, killing, hungFor, falseFdir, hangs,
                 fdirHangs, notices, losses>>

-----------------------------------------------------------------------------
(***************************************************************************)
(* The environment.                                                        *)
(***************************************************************************)
RoleHangs(r) ==
  /\ Running(r) /\ control # r
  /\ hangs < MaxHangs
  /\ hangs' = hangs + 1
  /\ hung' = hung \cup {r}
  /\ UNCHANGED <<dead, beats, watchdog, monitor, fdirInbox, fdirHung, supInbox,
                 killing, sweep, fdirAge, ghosts, fdirHangs, notices, losses,
                 spawnFails>>

FdirHangs ==
  /\ ~fdirHung /\ si # R + 2
  /\ fdirHangs < MaxFdirHangs
  /\ fdirHangs' = fdirHangs + 1
  /\ fdirHung' = TRUE
  /\ UNCHANGED <<hung, dead, beats, watchdog, monitor, fdirInbox, supInbox, killing,
                 sweep, fdirAge, ghosts, hangs, notices, losses, spawnFails>>

\* The commands role forwards a reset notice of the board.
BoardResets ==
  /\ notices < MaxNotices
  /\ Room(fdirInbox) /\ Fdir \notin dead
  /\ notices' = notices + 1
  /\ fdirInbox' = Append(fdirInbox, Notice)
  /\ UNCHANGED <<hung, dead, beats, watchdog, monitor, fdirHung, supInbox, killing,
                 sweep, fdirAge, ghosts, hangs, fdirHangs, losses, spawnFails>>

CanStep == \/ \E r \in Roles : CanBeat(r)
           \/ ~fdirHung /\ wi = 0 /\ wowed > 0
           \/ CanCheck \/ CanPing \/ CanReceive \/ CanServe \/ CanSweep
           \/ InSend /\ waited = MaxWait
           \/ CanRevive /\ (left = 0 \/ control \notin hung)
           \/ si = R + 2 /\ (fdirLeft = 0 \/ ~fdirHung)

\* A second passes.
Tick ==
  /\ ~CanStep
  /\ owed' = [r \in Roles |-> IF Running(r) THEN Older(owed[r]) ELSE owed[r]]
  /\ last_heartbeat' = [r \in Roles |-> Older(last_heartbeat[r])]
  /\ late' = IF wi = 0 THEN 0 ELSE Older(late)
  /\ wowed' = IF fdirHung THEN wowed ELSE Older(wowed)
  /\ pause' = IF pause > 0 /\ ~fdirHung THEN pause - 1 ELSE pause
  /\ waited' = IF InSend THEN waited + 1 ELSE waited
  /\ left' = IF control = Nobody THEN 0 ELSE left - 1
  /\ sowed' = Older(sowed)
  /\ fdirLeft' = IF si = R + 2 THEN fdirLeft - 1 ELSE 0
  /\ fdirAge' = Older(fdirAge)
  /\ hungFor' = [r \in Roles |-> IF Running(r) THEN 0 ELSE LongerHung(hungFor[r])]
  /\ delayed' = IF InSend THEN "now"
                ELSE IF delayed = "now" /\ ~fdirHung /\ ~ordering THEN "past" ELSE delayed
  /\ UNCHANGED <<hung, dead, hpc, fault_latched, wi, ordering, reset_counts, shutdowns,
                 fdirInbox, fdirHung, supInbox, control, si, falseFdir, events>>

-----------------------------------------------------------------------------
OBCStep ==
  \/ \E r \in Roles : Beat(r)
  \/ WatchBegin \/ WatchCheck \/ WatchPing
  \/ MonitorReceive \/ MonitorOrder
  \/ ControlReceive \/ Revive
  \/ SweepEntry \/ CheckFrozen \/ RestartFdir
  \/ Tick

Next ==
  \/ OBCStep
  \/ \E r \in Roles : RoleHangs(r)
  \/ FdirHangs \/ BoardResets

Spec == Init /\ [][Next]_vars

-----------------------------------------------------------------------------
\* FDIR asks for a restart only of a role that has stopped: a healthy role's
\* stamp stays young although its heartbeats wait for the sleeping health
\* monitor and for a supervisor that is busy killing another role.  The one
\* exception: commands keeps the health monitor waiting in its order to shut a
\* board down, until the second in which the monitor is back at its socket.
OnlyHungRolesReported ==
  [][\A r \in Roles :
       ~fault_latched[r] /\ fault_latched'[r] => ~Running(r) \/ delayed = "now"]_vars

\* The supervisor restarts FDIR only when it has stopped, although its pings
\* wait while the control thread kills a role.
OnlyHungFdirRestarted == ~falseFdir

\* posix_spawn failed for the role or for FDIR, or commands once kept the health
\* monitor waiting.
Unserved(r) == r \in dead \/ Fdir \in dead \/ delayed # "never"

\* A hung role is back within MaxOutage seconds, unless its restart or FDIR's has
\* failed, or a health monitor kept waiting has left a latch behind.
HungRoleIsBack == \A r \in Roles : hungFor[r] <= MaxOutage \/ Unserved(r)

\* "fires exactly once, on the cycle that crosses the threshold": one FDIR
\* process orders the board's shutdown once, however many notices come.
ShutdownOnce == shutdowns <= 1

\* FDIR and the supervisor act on true faults only: neither a busy control thread
\* nor a health monitor that sleeps makes a healthy FDIR look frozen, and a board
\* is shut down once (watchdog.c, health_monitor.c, processes.c).
RecoveryInv == TypeOK /\ OnlyHungFdirRestarted /\ ShutdownOnce

=============================================================================
