----------------------------- MODULE Supervisor -----------------------------
(***************************************************************************)
(* The OBC supervisor (src/apps/obc/supervisor): the parent process that   *)
(* starts the other OBC roles, restarts the ones that die, restarts FDIR   *)
(* when it goes quiet, and shuts roles down or restarts them when FDIR     *)
(* asks.                                                                   *)
(*                                                                         *)
(* Three threads share the process table: main() (boot and SIGTERM), the   *)
(* periodic heartbeat thread ("reaper") and the shutdown thread            *)
(* ("control") that serves the supervisor's IPC socket.  Each table entry  *)
(* has a lifecycle_lock that serialises kill, wait and spawn.  The entry's *)
(* pid is read and written under proc_lock in critical sections of one     *)
(* statement, so a step that touches pid is atomic here too.               *)
(*                                                                         *)
(* The kernel is modelled by two sets per role: alive (running children)   *)
(* and zombie (children that died and were not waited for).  Pids of a     *)
(* role are 1, 2, 3, ...; a pid that was waited for is never used again by *)
(* the role, so a signal to it would be a signal to a stranger.            *)
(***************************************************************************)
EXTENDS Integers, Sequences

CONSTANTS
  N,                \* number of entries of processes[]; entry 1 is FDIR
  MaxCrashRestarts, \* MAX_CRASH_RESTARTS
  Commands,         \* supervisor_cmd_t values that are sent to the supervisor
  MaxInbox,         \* messages that wait on the supervisor's socket
  MaxCrashes,       \* bound: spontaneous deaths of a role's child
  MaxRequests,      \* bound: control requests sent to the supervisor
  MaxQuiet,         \* bound: times FDIR's heartbeat deadline passes
  MaxSpawnFailures  \* bound: posix_spawn calls that fail

ASSUME NAssumption == N \in Nat \ {0}
ASSUME RestartsAssumption == MaxCrashRestarts \in Nat
ASSUME CommandsAssumption == Commands \subseteq {"RESTART", "SHUTDOWN"}
ASSUME BoundsAssumption ==
  {MaxInbox, MaxCrashes, MaxRequests, MaxQuiet, MaxSpawnFailures} \subseteq Nat

Roles   == 1..N
Fdir    == 1
Threads == {"main", "reaper", "control"}
NoPid   == -1
Free    == "free"

VARIABLES
  pid,            \* processes[r].pid
  restart_count,  \* processes[r].restart_count
  lifecycle_lock, \* the thread that holds processes[r].lifecycle_lock, or Free
  shutting_down,  \* set by supervisor_shutdown_all
  fdirQuiet,      \* supervisor_is_frozen(ROLE_FDIR): last_heartbeat too old
  sigterm,        \* g_shutdown_requested
  inbox,          \* messages queued on the supervisor's socket
  pc,             \* where each thread is
  op,             \* why the thread handles its target
  tgt,            \* the table entry the thread handles
  victim,         \* the thread's local pid
  alive, zombie,  \* the kernel: running and unreaped children of each role
  spawned,        \* the kernel: children ever started for each role
  crashes,        \* the kernel: children of each role that died unasked
  requests, quiets, spawnFailures   \* environment events counted so far

table  == <<pid, restart_count>>
local  == <<pc, op, tgt, victim>>
kernel == <<alive, zombie, spawned, crashes>>
env    == <<sigterm, inbox, requests, quiets, spawnFailures>>
vars   == <<pid, restart_count, lifecycle_lock, shutting_down, fdirQuiet,
            sigterm, inbox, pc, op, tgt, victim, alive, zombie, spawned,
            crashes, requests, quiets, spawnFailures>>

(***************************************************************************)
(* Messages: an empty payload is a ping, a supervisor_request_t a request. *)
(***************************************************************************)
Message == [src : Roles, cmd : {"PING", "RESTART", "SHUTDOWN"}, role : Roles]

\* The reasons for which a thread takes a lifecycle_lock: the reaper's scan,
\* check_frozen, a request of either kind, supervisor_shutdown_all.
Ops == {"scan", "frozen", "RESTART", "SHUTDOWN", "stop"}

\* Reasons that continue with posix_spawn once the old child is gone
\* (supervisor_restart_process_locked rather than ..._shutdown_process_locked).
Respawns(o) == o \in {"scan", "frozen", "RESTART"}

Locked   == {"reap", "buried", "read", "grace", "wait", "clear", "spawn",
             "store", "unlock"}
PCs      == Locked \cup {"boot", "run", "off", "lock", "next", "flag",
                         "frozen", "sleep", "receive", "done", "aborted"}

Children(r) == alive[r] \cup zombie[r]
Up          == pc["main"] \notin {"done", "aborted"}

TypeTable ==
  /\ pid \in [Roles -> Int]
  /\ restart_count \in [Roles -> Nat]
  /\ lifecycle_lock \in [Roles -> Threads \cup {Free}]

TypeLocal ==
  /\ pc \in [Threads -> PCs]
  /\ op \in [Threads -> Ops]
  /\ tgt \in [Threads -> Roles]
  /\ victim \in [Threads -> Int]

TypeKernel ==
  /\ alive \in [Roles -> SUBSET Nat]
  /\ zombie \in [Roles -> SUBSET Nat]
  /\ spawned \in [Roles -> Nat]
  /\ crashes \in [Roles -> Nat]

TypeEnv ==
  /\ shutting_down \in BOOLEAN
  /\ fdirQuiet \in BOOLEAN
  /\ sigterm \in BOOLEAN
  /\ inbox \in Seq(Message)
  /\ requests \in Nat /\ quiets \in Nat /\ spawnFailures \in Nat

\* Every variable has its type; a thread works only on entries of the table.
TypeOK == TypeTable /\ TypeLocal /\ TypeKernel /\ TypeEnv

Init ==
  /\ pid = [r \in Roles |-> NoPid]
  /\ restart_count = [r \in Roles |-> 0]
  /\ lifecycle_lock = [r \in Roles |-> Free]
  /\ shutting_down = FALSE
  /\ fdirQuiet = FALSE
  /\ sigterm = FALSE
  /\ inbox = <<>>
  /\ pc = [t \in Threads |-> IF t = "main" THEN "boot" ELSE "off"]
  /\ op = [t \in Threads |-> IF t = "main" THEN "stop" ELSE "scan"]
  /\ tgt = [t \in Threads |-> 1]
  /\ victim = [t \in Threads |-> NoPid]
  /\ alive = [r \in Roles |-> {}]
  /\ zombie = [r \in Roles |-> {}]
  /\ spawned = [r \in Roles |-> 0]
  /\ crashes = [r \in Roles |-> 0]
  /\ requests = 0 /\ quiets = 0 /\ spawnFailures = 0

-----------------------------------------------------------------------------
(***************************************************************************)
(* Helpers.                                                                *)
(***************************************************************************)
Goto(t, l) == pc' = [pc EXCEPT ![t] = l]

\* supervisor_mark_alive: only FDIR's timestamp is ever judged.
MarkAlive(r) == fdirQuiet' = (fdirQuiet /\ r # Fdir)

\* A thread that calls kill() has told its victim to stop and now waits for it.
Stopping(t) == pc[t] \in {"grace", "wait"}

\* waitpid on the thread's victim succeeds: the kernel forgets the child.
Waited(t) ==
  /\ victim[t] \in zombie[tgt[t]]
  /\ zombie' = [zombie EXCEPT ![tgt[t]] = @ \ {victim[t]}]
  /\ UNCHANGED <<alive, spawned, crashes>>

\* posix_spawn succeeds and returns a fresh pid.
Forked(r) ==
  /\ spawned' = [spawned EXCEPT ![r] = @ + 1]
  /\ alive' = [alive EXCEPT ![r] = @ \cup {spawned[r] + 1}]
  /\ UNCHANGED <<zombie, crashes>>

SpawnFails ==
  /\ spawnFailures < MaxSpawnFailures
  /\ spawnFailures' = spawnFailures + 1

-----------------------------------------------------------------------------
(***************************************************************************)
(* main(): start_all_processes, launch the threads, wait for SIGTERM, then *)
(* supervisor_shutdown_all.                                                *)
(***************************************************************************)
\* start_all_processes spawns the entries in order; no other thread runs yet.
\* After the last one main launches the heartbeat and the shutdown thread.
BootSpawn ==
  /\ pc["main"] = "boot"
  /\ LET r == tgt["main"] IN
       /\ Forked(r)
       /\ pid' = [pid EXCEPT ![r] = spawned[r] + 1]
       /\ MarkAlive(r)
       /\ \/ /\ r < N
             /\ tgt' = [tgt EXCEPT !["main"] = r + 1]
             /\ UNCHANGED pc
          \/ /\ r = N
             /\ pc' = [pc EXCEPT !["main"] = "run", !["reaper"] = "lock",
                                 !["control"] = "receive"]
             /\ UNCHANGED tgt
  /\ UNCHANGED <<restart_count, lifecycle_lock, shutting_down, op, victim>>
  /\ UNCHANGED env

\* A failed posix_spawn makes main return 1; children already started stay.
BootFails ==
  /\ pc["main"] = "boot"
  /\ SpawnFails
  /\ Goto("main", "aborted")
  /\ UNCHANGED <<table, lifecycle_lock, shutting_down, fdirQuiet, op, tgt,
                 victim, kernel, sigterm, inbox, requests, quiets>>

\* main leaves its sleep loop and raises the flag; the loop over the table
\* starts with entry 1.
ShutdownAll ==
  /\ pc["main"] = "run"
  /\ sigterm
  /\ shutting_down' = TRUE
  /\ tgt' = [tgt EXCEPT !["main"] = 1]
  /\ Goto("main", "lock")
  /\ UNCHANGED <<table, lifecycle_lock, fdirQuiet, op, victim, kernel, env>>

\* The next entry of supervisor_shutdown_all, or return from main: the whole
\* supervisor process ends, with its other threads wherever they are.
ShutdownNext ==
  /\ pc["main"] = "next"
  /\ \/ /\ tgt["main"] < N
        /\ tgt' = [tgt EXCEPT !["main"] = @ + 1]
        /\ Goto("main", "lock")
     \/ /\ tgt["main"] = N
        /\ Goto("main", "done")
        /\ UNCHANGED tgt
  /\ UNCHANGED <<table, lifecycle_lock, shutting_down, fdirQuiet, op, victim,
                 kernel, env>>

-----------------------------------------------------------------------------
(***************************************************************************)
(* Code that every thread runs on the entry it handles.                    *)
(***************************************************************************)
\* Mutant of Lock: the mutex is not waited for.
LockWithoutWaiting(t) ==
  /\ Up
  /\ pc[t] = "lock"
  /\ lifecycle_lock' = [lifecycle_lock EXCEPT ![tgt[t]] = t]
  /\ Goto(t, IF op[t] = "scan" THEN "reap" ELSE "read")
  /\ UNCHANGED <<table, shutting_down, fdirQuiet, op, tgt, victim, kernel, env>>

\* Mutant of Lock: the reaper scans an entry that another thread has locked.
LockSkippedByScan(t) ==
  /\ Up
  /\ pc[t] = "lock"
  /\ op[t] = "scan" \/ lifecycle_lock[tgt[t]] = Free
  /\ lifecycle_lock' = [lifecycle_lock EXCEPT ![tgt[t]] = t]
  /\ Goto(t, IF op[t] = "scan" THEN "reap" ELSE "read")
  /\ UNCHANGED <<table, shutting_down, fdirQuiet, op, tgt, victim, kernel, env>>

\* What the thread does once it has the lock: the reaper's scan polls the
\* child, everything else starts with supervisor_shutdown_process_locked.
Lock(t) ==
  /\ Up
  /\ pc[t] = "lock"
  /\ lifecycle_lock[tgt[t]] = Free
  /\ lifecycle_lock' = [lifecycle_lock EXCEPT ![tgt[t]] = t]
  /\ Goto(t, IF op[t] = "scan" THEN "reap" ELSE "read")
  /\ UNCHANGED <<table, shutting_down, fdirQuiet, op, tgt, victim, kernel, env>>

\* Start of supervisor_shutdown_process_locked: read pid; a dead entry needs
\* nothing, a live one gets SIGTERM (which a zombie accepts as well).
ReadPid(t) ==
  /\ Up
  /\ pc[t] = "read"
  /\ victim' = [victim EXCEPT ![t] = pid[tgt[t]]]
  /\ Goto(t, IF pid[tgt[t]] > 0 THEN "grace"
             ELSE IF Respawns(op[t]) THEN "spawn" ELSE "unlock")
  /\ UNCHANGED <<table, lifecycle_lock, shutting_down, fdirQuiet, op, tgt,
                 kernel, env>>

\* A poll of waitpid(WNOHANG) within the grace period finds the child dead.
GraceExit(t) ==
  /\ Up
  /\ pc[t] = "grace"
  /\ Waited(t)
  /\ Goto(t, "clear")
  /\ UNCHANGED <<table, lifecycle_lock, shutting_down, fdirQuiet, op, tgt,
                 victim, env>>

\* Mutant of GraceExpires: no escalation to SIGKILL.
GraceNeverExpires(t) ==
  /\ FALSE
  /\ UNCHANGED vars

\* SHUTDOWN_GRACE_SEC passed and the last poll found the child alive: SIGKILL.
GraceExpires(t) ==
  /\ Up
  /\ pc[t] = "grace"
  /\ victim[t] \in alive[tgt[t]]
  /\ Goto(t, "wait")
  /\ UNCHANGED <<table, lifecycle_lock, shutting_down, fdirQuiet, op, tgt,
                 victim, kernel, env>>

\* The blocking waitpid after SIGKILL returns.
KillWaited(t) ==
  /\ Up
  /\ pc[t] = "wait"
  /\ Waited(t)
  /\ Goto(t, "clear")
  /\ UNCHANGED <<table, lifecycle_lock, shutting_down, fdirQuiet, op, tgt,
                 victim, env>>

\* Mutant of ClearPid: a shutdown leaves the dead child's pid in the table.
ClearPidOnRestartOnly(t) ==
  /\ Up
  /\ pc[t] = "clear"
  /\ pid' = [pid EXCEPT ![tgt[t]] = IF Respawns(op[t]) THEN NoPid ELSE @]
  /\ Goto(t, IF Respawns(op[t]) THEN "spawn" ELSE "unlock")
  /\ UNCHANGED <<restart_count, lifecycle_lock, shutting_down, fdirQuiet, op,
                 tgt, victim, kernel, env>>

\* proc->pid = -1 after the child was waited for.
ClearPid(t) ==
  /\ Up
  /\ pc[t] = "clear"
  /\ pid' = [pid EXCEPT ![tgt[t]] = NoPid]
  /\ Goto(t, IF Respawns(op[t]) THEN "spawn" ELSE "unlock")
  /\ UNCHANGED <<restart_count, lifecycle_lock, shutting_down, fdirQuiet, op,
                 tgt, victim, kernel, env>>

\* posix_spawn in supervisor_restart_process_locked; the pid is still local.
Spawn(t) ==
  /\ Up
  /\ pc[t] = "spawn"
  /\ \/ /\ Forked(tgt[t])
        /\ victim' = [victim EXCEPT ![t] = spawned[tgt[t]] + 1]
        /\ Goto(t, "store")
        /\ UNCHANGED spawnFailures
     \/ /\ SpawnFails
        /\ Goto(t, "unlock")
        /\ UNCHANGED <<victim, kernel>>
  /\ UNCHANGED <<table, lifecycle_lock, shutting_down, fdirQuiet, op, tgt,
                 sigterm, inbox, requests, quiets>>

\* Mutant of StorePid: the new pid is not published once a shutdown began.
StorePidUnlessStopping(t) ==
  /\ Up
  /\ pc[t] = "store"
  /\ pid' = [pid EXCEPT ![tgt[t]] = IF shutting_down THEN @ ELSE victim[t]]
  /\ MarkAlive(tgt[t])
  /\ Goto(t, "unlock")
  /\ UNCHANGED <<restart_count, lifecycle_lock, shutting_down, op, tgt, victim,
                 kernel, env>>

\* The new pid is published and the entry gets a fresh heartbeat timestamp.
StorePid(t) ==
  /\ Up
  /\ pc[t] = "store"
  /\ pid' = [pid EXCEPT ![tgt[t]] = victim[t]]
  /\ MarkAlive(tgt[t])
  /\ Goto(t, "unlock")
  /\ UNCHANGED <<restart_count, lifecycle_lock, shutting_down, op, tgt, victim,
                 kernel, env>>

\* Where each thread goes after it released the lock.
AfterUnlock(t) ==
  CASE t = "control"   -> "receive"
    [] op[t] = "frozen" -> "sleep"
    [] OTHER           -> "next"

Unlock(t) ==
  /\ Up
  /\ pc[t] = "unlock"
  /\ lifecycle_lock' = [lifecycle_lock EXCEPT ![tgt[t]] = Free]
  /\ Goto(t, AfterUnlock(t))
  /\ UNCHANGED <<table, shutting_down, fdirQuiet, op, tgt, victim, kernel, env>>

-----------------------------------------------------------------------------
(***************************************************************************)
(* heartbeat_thread: supervisor_reap over the table, then                  *)
(* supervisor_check_frozen, once per second.                               *)
(***************************************************************************)
\* waitpid(WNOHANG) on the entry's pid; no child or a live one: nothing to do.
Reap ==
  /\ Up
  /\ pc["reaper"] = "reap"
  /\ LET r == tgt["reaper"] IN
       \/ /\ pid[r] \notin zombie[r]
          /\ Goto("reaper", "unlock")
          /\ UNCHANGED zombie
       \/ /\ pid[r] \in zombie[r]
          /\ zombie' = [zombie EXCEPT ![r] = @ \ {pid[r]}]
          /\ Goto("reaper", "buried")
  /\ UNCHANGED <<table, lifecycle_lock, shutting_down, fdirQuiet, op, tgt,
                 victim, alive, spawned, crashes, env>>

\* Mutant of Bury: shutting_down is not consulted.
BuryIgnoringShutdown ==
  /\ Up
  /\ pc["reaper"] = "buried"
  /\ LET r     == tgt["reaper"]
         count == restart_count[r] + 1
     IN  /\ pid' = [pid EXCEPT ![r] = NoPid]
         /\ restart_count' = [restart_count EXCEPT ![r] = count]
         /\ Goto("reaper", IF count > MaxCrashRestarts THEN "unlock" ELSE "read")
  /\ UNCHANGED <<lifecycle_lock, shutting_down, fdirQuiet, op, tgt, victim,
                 kernel, env>>

\* Mutant of Bury: gives up one crash too early.
BuryOffByOne ==
  /\ Up
  /\ pc["reaper"] = "buried"
  /\ LET r     == tgt["reaper"]
         count == restart_count[r] + 1
     IN  /\ pid' = [pid EXCEPT ![r] = NoPid]
         /\ \/ /\ shutting_down
               /\ Goto("reaper", "unlock")
               /\ UNCHANGED restart_count
            \/ /\ ~shutting_down
               /\ restart_count' = [restart_count EXCEPT ![r] = count]
               /\ Goto("reaper", IF count >= MaxCrashRestarts THEN "unlock"
                                                              ELSE "read")
  /\ UNCHANGED <<lifecycle_lock, shutting_down, fdirQuiet, op, tgt, victim,
                 kernel, env>>

\* The child was dead: clear the pid, then restart it unless the supervisor is
\* shutting down or the entry has used up its crash restarts.
Bury ==
  /\ Up
  /\ pc["reaper"] = "buried"
  /\ LET r     == tgt["reaper"]
         count == restart_count[r] + 1
     IN  /\ pid' = [pid EXCEPT ![r] = NoPid]
         /\ \/ /\ shutting_down
               /\ Goto("reaper", "unlock")
               /\ UNCHANGED restart_count
            \/ /\ ~shutting_down
               /\ restart_count' = [restart_count EXCEPT ![r] = count]
               /\ Goto("reaper", IF count > MaxCrashRestarts THEN "unlock"
                                                             ELSE "read")
  /\ UNCHANGED <<lifecycle_lock, shutting_down, fdirQuiet, op, tgt, victim,
                 kernel, env>>

\* Mutant of ReapNext: the scan runs one entry past the end of processes[].
ReapNextOffByOne ==
  /\ Up
  /\ pc["reaper"] = "next"
  /\ \/ /\ tgt["reaper"] <= N
        /\ tgt' = [tgt EXCEPT !["reaper"] = @ + 1]
        /\ Goto("reaper", "lock")
     \/ /\ tgt["reaper"] > N
        /\ Goto("reaper", "flag")
        /\ UNCHANGED tgt
  /\ UNCHANGED <<table, lifecycle_lock, shutting_down, fdirQuiet, op, victim,
                 kernel, env>>

\* Next entry of supervisor_reap, or on to supervisor_check_frozen.
ReapNext ==
  /\ Up
  /\ pc["reaper"] = "next"
  /\ \/ /\ tgt["reaper"] < N
        /\ tgt' = [tgt EXCEPT !["reaper"] = @ + 1]
        /\ Goto("reaper", "lock")
     \/ /\ tgt["reaper"] = N
        /\ Goto("reaper", "flag")
        /\ UNCHANGED tgt
  /\ UNCHANGED <<table, lifecycle_lock, shutting_down, fdirQuiet, op, victim,
                 kernel, env>>

\* Mutant of CheckFlag: the frozen check is skipped.
CheckFlagNever ==
  /\ Up
  /\ pc["reaper"] = "flag"
  /\ Goto("reaper", "sleep")
  /\ UNCHANGED <<table, lifecycle_lock, shutting_down, fdirQuiet, op, tgt,
                 victim, kernel, env>>

\* supervisor_check_frozen reads shutting_down without any lock.
CheckFlag ==
  /\ Up
  /\ pc["reaper"] = "flag"
  /\ Goto("reaper", IF shutting_down THEN "sleep" ELSE "frozen")
  /\ UNCHANGED <<table, lifecycle_lock, shutting_down, fdirQuiet, op, tgt,
                 victim, kernel, env>>

\* It then reads FDIR's pid and heartbeat age and, when FDIR is frozen, calls
\* supervisor_restart_process, which takes the lock later.
CheckFrozen ==
  /\ Up
  /\ pc["reaper"] = "frozen"
  /\ \/ /\ pid[Fdir] > 0 /\ fdirQuiet
        /\ op' = [op EXCEPT !["reaper"] = "frozen"]
        /\ tgt' = [tgt EXCEPT !["reaper"] = Fdir]
        /\ Goto("reaper", "lock")
     \/ /\ ~(pid[Fdir] > 0 /\ fdirQuiet)
        /\ Goto("reaper", "sleep")
        /\ UNCHANGED <<op, tgt>>
  /\ UNCHANGED <<table, lifecycle_lock, shutting_down, fdirQuiet, victim,
                 kernel, env>>

\* The next period starts.
ReaperWakes ==
  /\ Up
  /\ pc["reaper"] = "sleep"
  /\ op' = [op EXCEPT !["reaper"] = "scan"]
  /\ tgt' = [tgt EXCEPT !["reaper"] = 1]
  /\ Goto("reaper", "lock")
  /\ UNCHANGED <<table, lifecycle_lock, shutting_down, fdirQuiet, victim,
                 kernel, env>>

-----------------------------------------------------------------------------
(***************************************************************************)
(* shutdown_thread: one message per iteration.                             *)
(***************************************************************************)
\* A ping refreshes the sender's timestamp; a request is obeyed only when it
\* comes from FDIR.
Receive ==
  /\ Up
  /\ pc["control"] = "receive"
  /\ inbox # <<>>
  /\ inbox' = Tail(inbox)
  /\ LET m == Head(inbox) IN
       \/ /\ m.cmd = "PING"
          /\ MarkAlive(m.src)
          /\ UNCHANGED <<pc, op, tgt>>
       \/ /\ m.cmd # "PING" /\ m.src # Fdir
          /\ UNCHANGED <<pc, op, tgt, fdirQuiet>>
       \/ /\ m.cmd # "PING" /\ m.src = Fdir
          /\ op' = [op EXCEPT !["control"] = m.cmd]
          /\ tgt' = [tgt EXCEPT !["control"] = m.role]
          /\ Goto("control", "lock")
          /\ UNCHANGED fdirQuiet
  /\ UNCHANGED <<table, lifecycle_lock, shutting_down, victim, kernel,
                 sigterm, requests, quiets, spawnFailures>>

-----------------------------------------------------------------------------
(***************************************************************************)
(* The environment: the children, their messages, the clock, the operator. *)
(***************************************************************************)
\* A child that nobody signalled exits or is killed by a fault.
ChildCrashes(r, p) ==
  /\ p \in alive[r]
  /\ ~\E t \in Threads : Stopping(t) /\ tgt[t] = r /\ victim[t] = p
  /\ crashes[r] < MaxCrashes
  /\ crashes' = [crashes EXCEPT ![r] = @ + 1]
  /\ alive' = [alive EXCEPT ![r] = @ \ {p}]
  /\ zombie' = [zombie EXCEPT ![r] = @ \cup {p}]
  /\ UNCHANGED <<table, lifecycle_lock, shutting_down, fdirQuiet, local,
                 spawned, env>>

\* SIGTERM or SIGKILL takes effect (a frozen child may sit on SIGTERM).
ChildStops(t) ==
  /\ Stopping(t)
  /\ victim[t] \in alive[tgt[t]]
  /\ alive' = [alive EXCEPT ![tgt[t]] = @ \ {victim[t]}]
  /\ zombie' = [zombie EXCEPT ![tgt[t]] = @ \cup {victim[t]}]
  /\ UNCHANGED <<table, lifecycle_lock, shutting_down, fdirQuiet, local,
                 spawned, crashes, env>>

\* A live role pings the supervisor or sends it a request; FDIR only asks for
\* the roles it monitors, which leave out FDIR itself.
Send(m) ==
  /\ alive[m.src] # {}
  /\ Len(inbox) < MaxInbox
  /\ inbox' = Append(inbox, m)
  /\ \/ /\ m.cmd = "PING" /\ m.role = m.src
        /\ UNCHANGED requests
     \/ /\ m.cmd \in Commands /\ m.role # Fdir
        /\ requests < MaxRequests
        /\ requests' = requests + 1
  /\ UNCHANGED <<table, lifecycle_lock, shutting_down, fdirQuiet, local,
                 kernel, sigterm, quiets, spawnFailures>>

\* HEARTBEAT_TIMEOUT_SEC passed since FDIR's last recorded heartbeat.
FdirGoesQuiet ==
  /\ ~fdirQuiet
  /\ quiets < MaxQuiet
  /\ quiets' = quiets + 1
  /\ fdirQuiet' = TRUE
  /\ UNCHANGED <<table, lifecycle_lock, shutting_down, local, kernel, sigterm,
                 inbox, requests, spawnFailures>>

\* SIGTERM reaches the supervisor.
Sigterm ==
  /\ ~sigterm
  /\ sigterm' = TRUE
  /\ UNCHANGED <<table, lifecycle_lock, shutting_down, fdirQuiet, local,
                 kernel, inbox, requests, quiets, spawnFailures>>

-----------------------------------------------------------------------------
ThreadStep(t) ==
  \/ Lock(t) \/ ReadPid(t) \/ GraceExit(t) \/ GraceExpires(t) \/ KillWaited(t)
  \/ ClearPid(t) \/ Spawn(t) \/ StorePid(t) \/ Unlock(t)

MainStep   == BootSpawn \/ BootFails \/ ShutdownAll \/ ShutdownNext
ReaperStep == Reap \/ Bury \/ ReapNext \/ CheckFlag \/ CheckFrozen
              \/ ReaperWakes

\* After main returned only the orphaned children are left.
Halted == ~Up /\ UNCHANGED vars

Next ==
  \/ \E t \in Threads : ThreadStep(t)
  \/ MainStep
  \/ ReaperStep
  \/ Receive
  \/ \E r \in Roles : \E p \in alive[r] : ChildCrashes(r, p)
  \/ \E t \in Threads : ChildStops(t)
  \/ \E m \in Message : Send(m)
  \/ FdirGoesQuiet
  \/ Sigterm
  \/ Halted

Spec == Init /\ [][Next]_vars

(***************************************************************************)
(* Fairness.  Every thread of the supervisor keeps running.  A mutex that  *)
(* is released again and again is eventually obtained (its holders sleep   *)
(* or wait for messages between two acquisitions), hence the strong        *)
(* fairness on Lock.  SIGKILL always takes effect; SIGTERM may not.        *)
(***************************************************************************)
Fairness ==
  /\ \A t \in Threads :
       /\ SF_vars(Lock(t))
       /\ WF_vars(ReadPid(t) \/ GraceExit(t) \/ GraceExpires(t)
                  \/ KillWaited(t) \/ ClearPid(t) \/ Spawn(t) \/ StorePid(t)
                  \/ Unlock(t))
       /\ WF_vars(pc[t] = "wait" /\ ChildStops(t))
  /\ WF_vars(MainStep)
  /\ WF_vars(ReaperStep)
  /\ WF_vars(Receive)

FairSpec == Spec /\ Fairness

-----------------------------------------------------------------------------
(***************************************************************************)
(* The inductive invariant.  The locks are held by the threads that are    *)
(* inside a locked section; what the kernel's children of an entry look    *)
(* like then depends only on where the holder is.                          *)
(***************************************************************************)
Entry(r) == IF pid[r] = NoPid THEN {} ELSE {pid[r]}

LockInv ==
  /\ \A t \in Threads : pc[t] \in Locked => lifecycle_lock[tgt[t]] = t
  /\ \A r \in Roles : \A t \in Threads :
       lifecycle_lock[r] = t => pc[t] \in Locked /\ tgt[t] = r

\* While main boots, the other threads do not exist and the entries from
\* tgt["main"] on have no child.
BootInv ==
  pc["main"] = "boot" =>
    /\ pc["reaper"] = "off" /\ pc["control"] = "off"
    /\ \A r \in Roles : r >= tgt["main"] => pid[r] = NoPid /\ Children(r) = {}

ChildInv ==
  \A r \in Roles :
    /\ pid[r] = NoPid \/ pid[r] > 0
    /\ alive[r] \cap zombie[r] = {}
    /\ lifecycle_lock[r] = Free => Children(r) = Entry(r)

HolderInv ==
  \A t \in Threads :
    /\ pc[t] \in {"reap", "read", "unlock"} => Children(tgt[t]) = Entry(tgt[t])
    /\ pc[t] \in {"grace", "wait", "store"} =>
         victim[t] > 0 /\ Children(tgt[t]) = {victim[t]}
    /\ pc[t] \in {"buried", "clear", "spawn"} => Children(tgt[t]) = {}
    /\ pc[t] = "spawn" => pid[tgt[t]] = NoPid

TableInv == LockInv /\ BootInv /\ ChildInv /\ HolderInv

\* An unreaped child of r that no thread is stopping: it died by itself.
Unasked(r) ==
  zombie[r] # {} /\ ~\E t \in Threads : Stopping(t) /\ tgt[t] = r

\* Every crash that is still to be counted leaves room for the count.
CrashInv ==
  \A r \in Roles :
    /\ restart_count[r] <= crashes[r]
    /\ Unasked(r) => restart_count[r] < crashes[r]
    /\ pc["reaper"] = "buried" /\ tgt["reaper"] = r =>
         restart_count[r] < crashes[r]

\* supervisor_shutdown_all is done with entry r.
Passed(r) ==
  \/ pc["main"] = "done"
  \/ shutting_down /\ r < tgt["main"]
  \/ pc["main"] = "next" /\ r = tgt["main"]

\* The reaper decided to restart the dead child of entry r.
Reviving(r) ==
  /\ op["reaper"] = "scan" /\ tgt["reaper"] = r
  /\ pc["reaper"] \in {"read", "grace", "wait", "clear", "spawn", "store"}

ShutdownInv ==
  /\ op["main"] = "stop"
  /\ pc["main"] \notin {"boot", "run", "aborted"} => shutting_down
  /\ \A r \in Roles : Passed(r) => ~Reviving(r)

-----------------------------------------------------------------------------
(***************************************************************************)
(* Properties.                                                             *)
(***************************************************************************)
\* A role never has two running processes: whatever the reaper, check_frozen,
\* FDIR's requests and the shutdown do at the same time, a new child is
\* spawned only after the old one is gone.
SingleInstance == \A r \in Roles : \A p, q \in alive[r] : p = q

\* kill() and the waitpid() calls of supervisor_shutdown_process_locked are
\* aimed at a child that nobody has waited for yet: the pid the thread read
\* cannot have been reaped (and given to a stranger) behind its back, and
\* waitpid cannot fail with ECHILD.
VictimIsOurChild ==
  \A t \in Threads : Stopping(t) => victim[t] \in Children(tgt[t])

\* An entry nobody is working on tells the truth: its pid is its only child,
\* and an entry with pid -1 has no child that would be forgotten.
EntryTracksChild ==
  \A r \in Roles : lifecycle_lock[r] = Free =>
    Children(r) = IF pid[r] = NoPid THEN {} ELSE {pid[r]}

\* A process that was stopped on purpose is never counted as a crash: the
\* reaper cannot find the child that a restart or shutdown is killing.
CrashAccounting == \A r \in Roles : restart_count[r] <= crashes[r]

\* The reaper never brings back an entry that supervisor_shutdown_all is done
\* with, although it may have found the child dead before the flag was set.
ScanRespectsShutdown ==
  \A r \in Roles : Passed(r) => ~Reviving(r)

\* A requested shutdown ends, even when children ignore SIGTERM and the other
\* threads hold lifecycle locks.
ShutdownTerminates == sigterm ~> ~Up

\* A dead child is replaced unless its crash restarts are used up or the
\* supervisor is shutting down (posix_spawn works, no SHUTDOWN requests).
CrashIsRepaired ==
  \A r \in Roles :
    zombie[r] # {} ~> \/ alive[r] # {}
                      \/ restart_count[r] > MaxCrashRestarts
                      \/ shutting_down \/ ~Up

\* An FDIR that stopped sending heartbeats is replaced or heard of again.
FrozenFdirIsRestarted ==
  fdirQuiet ~> \/ ~fdirQuiet
               \/ restart_count[Fdir] > MaxCrashRestarts
               \/ shutting_down \/ ~Up

\* What the process table promises: see ChildLifecycle.
Lifecycle == INSTANCE ChildLifecycle
               WITH running <- alive, dead <- zombie, last <- spawned

\* The kernel's view of each role is the life of one child at a time.
ImplementsLifecycle == Lifecycle!Spec

=============================================================================
