---------------------------- MODULE CommandRelay ----------------------------
(***************************************************************************)
(* The traffic between the boards and the OBC's roles, and the progress    *)
(* watches that decide whether a role may send its heartbeat.              *)
(*                                                                         *)
(* Threads: commands' ingest (boards to roles) and relay (roles to         *)
(* boards), time's broadcast and request threads, mission's autonomy       *)
(* thread, data's storage thread.  They meet in the roles' sockets: a      *)
(* connect to a socket whose backlog is full blocks (ipc/src/obc_ipc.c).   *)
(* Each thread reports progress to a watch (progress/src/obc_progress.c);  *)
(* a role with a stale watch withholds its heartbeat, and FDIR then has    *)
(* the supervisor restart it.  FDIR and supervisor themselves are the      *)
(* subject of FaultRecovery and Supervisor: here a pass of FDIR kills and  *)
(* starts again every role whose heartbeat is too old.                     *)
(*                                                                         *)
(* A tick is half a second, so that heartbeats of different roles and the  *)
(* passes of FDIR have different phases.  A step that can run runs before  *)
(* the next tick.  A thread may get stuck, and may or may not come loose;  *)
(* a receiving thread may begin to get errors, which leave its watch       *)
(* untouched.  One telemetry message stands for what ADCS sends in a tick. *)
(***************************************************************************)
EXTENDS Integers, Sequences, FiniteSets

CONSTANTS Second,          \* ticks per second: the period of polls and heartbeats
          Stall,           \* *_STALL_TIMEOUT_MS, in ticks
          BeatTimeout,     \* ROLE_HEARTBEAT_TIMEOUT_SEC, in ticks
          SyncInterval,    \* TIME_SYNC_INTERVAL_SEC, in ticks
          SunInterval,     \* DEFAULT_AUTONOMY_INTERVAL_SEC, in ticks
          Backlog,         \* connections a socket holds
          MaxWire,         \* packets the CSP stack holds
          MayStick,        \* the threads that may get stuck
          MaxStuck,        \* bound: how often a thread gets stuck or begins to get errors
          MaxEvents,       \* bound: odd packets and commands lost on the bus, together
          MaxAge           \* bound: ages saturate here

ASSUME RelayAssumption ==
    /\ {Second, Stall, BeatTimeout, SyncInterval, SunInterval, Backlog, MaxWire}
           \subseteq Nat \ {0}
    /\ {MaxStuck, MaxEvents, MaxAge} \subseteq Nat
    /\ MaxAge > Stall /\ MaxAge > BeatTimeout

Roles == {"commands", "time", "mission", "data"}

RoleOf == [ingest |-> "commands", relay |-> "commands", broadcast |-> "time",
           request |-> "time", autonomy |-> "mission", storage |-> "data"]

Threads == DOMAIN RoleOf

\* The threads that receive from their role's socket.
Readers == {"relay", "request", "storage"}

\* The boards whose clocks are set, in order.
Targets == <<"ADCS", "EPS">>

VARIABLES
    phase,        \* the tick's place in the second
    beat_phase,   \* when in the second each role's heartbeat thread wakes
    inbox,        \* the connections waiting at each role's socket
    wire,         \* packets of the boards that ingest has not read
    pc,           \* per thread: "idle", in IPC_send ("send"), or "refused"
    out,          \* per thread: the message it is sending
    todo,         \* broadcast: the targets still to be sent to
    progress,     \* per thread: ticks since its watch was touched
    polled,       \* per reader: ticks since it last began to wait for a connection
    failing,      \* the readers that got an error since they touched their watch
    beat,         \* per role: ticks since FDIR saw its heartbeat
    stuck,        \* the threads that are stuck
    next_sync,    \* ticks until the next broadcast
    last_fired,   \* ticks since autonomy fired
    uptime,       \* ticks since the computer booted
    since_sync,   \* history, per board: ticks since its clock was set
    late,         \* history, per board: how old the time was that it was set to
    since_sun,    \* history: ticks since a sun command reached ADCS
    suspect,      \* history: roles that since their last heartbeat had a thread stuck,
                  \* unable to receive, or blocked in a send to a suspect role
    faults        \* how many stuck or failing threads and other events there were

watches == <<progress, polled, failing>>
threadVars == <<pc, out, todo, watches>>
timers == <<next_sync, last_fired, uptime>>
boards == <<since_sync, late, since_sun>>
vars == <<phase, beat_phase, inbox, wire, threadVars, beat, stuck, suspect, timers, boards,
          faults>>

Boards == {Targets[i] : i \in DOMAIN Targets}
Nothing == [to |-> "nobody", kind |-> "nothing", board |-> "nobody", age |-> 0]
Older(n) == IF n < MaxAge THEN n + 1 ELSE n

\* A message to a role; age counts from when its time was read.
Msg(to, kind, board) == [to |-> to, kind |-> kind, board |-> board, age |-> 0]

Aged(m) == IF m.kind = "sync" THEN [m EXCEPT !.age = Older(@)] ELSE m

Init ==
    /\ phase = 0
    /\ beat_phase \in [Roles -> 0 .. Second - 1] /\ beat_phase["mission"] = 0
    /\ inbox = [r \in Roles |-> <<>>]
    /\ wire = <<>>
    /\ pc = [t \in Threads |-> "idle"]
    /\ out = [t \in Threads |-> Nothing]
    /\ todo = <<>>
    /\ progress = [t \in Threads |-> 0]
    /\ polled = [t \in Readers |-> 0] /\ failing = {}
    /\ beat = [r \in Roles |-> 0]
    /\ stuck = {} /\ suspect = {}
    /\ next_sync = 0 /\ last_fired = 0 /\ uptime = 0
    /\ since_sync = [b \in Boards |-> 0]
    /\ late = [b \in Boards |-> 0]
    /\ since_sun = 0
    /\ faults = [stuck |-> 0, event |-> 0]

-----------------------------------------------------------------------------
\* obc_progress: a thread's watch is touched; a watch that is not active cannot be
\* stale.  Only the broadcast watch is ever inactive, between two broadcasts.
Touch(t) ==
    /\ progress' = [progress EXCEPT ![t] = 0]
    /\ polled' = [s \in Readers |-> IF s = t THEN 0 ELSE polled[s]]
    /\ failing' = failing \ {t}

Active(t) == t = "broadcast" => pc[t] # "idle"
\* Mutant: the relay's watch is not asked.
HealthyWithoutRelay(r, age) ==
    \A t \in Threads \ {"relay"} : RoleOf[t] = r /\ Active(t) => age[t] <= Stall

Healthy(r, age) == \A t \in Threads : RoleOf[t] = r /\ Active(t) => age[t] <= Stall

Idle(t) == pc[t] = "idle" /\ t \notin stuck
Room(t) == Len(inbox[out[t].to]) < Backlog
Slept(t) == progress[t] >= Second

\* IPC_send is called: the thread is in connect until there is room, or until the
\* socket's owner is gone.
StartSend(t, m) ==
    /\ pc' = [pc EXCEPT ![t] = "send"]
    /\ out' = [out EXCEPT ![t] = m]

\* What thread t does when IPC_send has returned, with success or not.
Returned(t, ok) ==
    /\ Touch(t)
    /\ last_fired' = IF t = "autonomy" /\ ok THEN 0 ELSE last_fired
    /\ IF t = "broadcast" /\ todo # <<>>
         THEN /\ out' = [out EXCEPT ![t] = Msg("commands", "sync", Head(todo))]
              /\ pc' = [pc EXCEPT ![t] = "send"]
              /\ todo' = Tail(todo)
         ELSE /\ out' = [out EXCEPT ![t] = Nothing]
              /\ pc' = [pc EXCEPT ![t] = "idle"]
              /\ UNCHANGED todo
    /\ UNCHANGED <<phase, beat_phase, wire, beat, stuck, suspect, next_sync, uptime, boards, faults>>

Deliver(t) ==
    /\ pc[t] = "send" /\ t \notin stuck /\ Room(t)
    /\ inbox' = [inbox EXCEPT ![out[t].to] = Append(@, out[t])]
    /\ Returned(t, TRUE)

Refuse(t) ==
    /\ pc[t] = "refused" /\ t \notin stuck
    /\ UNCHANGED inbox
    /\ Returned(t, FALSE)

-----------------------------------------------------------------------------
\* ingest_thread: a packet goes to the role that its port names.  A reset notice goes
\* to FDIR, which takes it at once; a packet for a port without a route is dropped.
Ingest ==
    /\ Idle("ingest") /\ wire # <<>>
    /\ wire' = Tail(wire)
    /\ CASE Head(wire).kind = "telemetry" ->
              StartSend("ingest", Msg("data", "telemetry", Head(wire).board)) /\ UNCHANGED watches
         [] Head(wire).kind = "request" ->
              StartSend("ingest", Msg("time", "request", Head(wire).board)) /\ UNCHANGED watches
         [] OTHER -> Touch("ingest") /\ UNCHANGED <<pc, out>>
    /\ UNCHANGED <<phase, beat_phase, inbox, todo, beat, stuck, suspect, timers, boards, faults>>

\* A role's thread takes the oldest connection.
Receive(t) ==
    LET r == RoleOf[t]
    IN  /\ Idle(t) /\ inbox[r] # <<>>
        /\ inbox' = [inbox EXCEPT ![r] = Tail(@)]

\* IPC_receive_timeout returns an error, for a frame that is too long, cut short or from
\* no role: the reader waits anew, without a touch.
ReceiveFails(t) ==
    /\ Receive(t)
    /\ \/ t \in failing /\ UNCHANGED faults
       \/ /\ t \notin failing /\ faults.stuck < MaxStuck
          /\ faults' = [faults EXCEPT !.stuck = @ + 1]
    /\ failing' = failing \cup {t}
    /\ polled' = [polled EXCEPT ![t] = 0]
    /\ suspect' = suspect \cup {RoleOf[t]}
    /\ UNCHANGED <<phase, beat_phase, wire, pc, out, todo, progress, beat, stuck, timers, boards>>

\* relay_thread: the command goes out on the bus, unless csp_connect or
\* csp_buffer_get fail or the bus loses it.
Relay ==
    /\ Receive("relay")
    /\ Touch("relay")
    /\ LET m == Head(inbox["commands"])
       IN  \/ /\ m.kind = "sync"
              /\ since_sync' = [since_sync EXCEPT ![m.board] = 0]
              /\ late' = [late EXCEPT ![m.board] = m.age]
              /\ UNCHANGED <<since_sun, faults>>
           \/ /\ m.kind = "sun"
              /\ since_sun' = 0
              /\ UNCHANGED <<since_sync, late, faults>>
           \/ /\ faults.event < MaxEvents
              /\ faults' = [faults EXCEPT !.event = @ + 1]
              /\ UNCHANGED boards
    /\ UNCHANGED <<phase, beat_phase, wire, pc, out, todo, beat, stuck, suspect, timers>>

\* time_sync_request_thread: a board that is a target gets the time at once.
Request ==
    /\ Receive("request")
    /\ LET b == Head(inbox["time"]).board
       IN  IF b \in Boards
             THEN StartSend("request", Msg("commands", "sync", b)) /\ UNCHANGED watches
             ELSE Touch("request") /\ UNCHANGED <<pc, out>>
    /\ UNCHANGED <<phase, beat_phase, wire, todo, beat, stuck, suspect, timers, boards, faults>>

\* storage_thread, as far as telemetry is concerned.
Storage ==
    /\ Receive("storage")
    /\ Touch("storage")
    /\ UNCHANGED <<phase, beat_phase, wire, pc, out, todo, beat, stuck, suspect, timers, boards, faults>>

\* Mutant: only the first target is sent to.
BroadcastToFirst ==
    /\ Idle("broadcast") /\ next_sync = 0
    /\ Touch("broadcast")
    /\ StartSend("broadcast", Msg("commands", "sync", Head(Targets)))
    /\ todo' = <<>>
    /\ next_sync' = SyncInterval
    /\ UNCHANGED <<phase, beat_phase, inbox, wire, beat, stuck, suspect, last_fired, uptime, boards,
                   faults>>

\* time_sync_broadcast_thread wakes: the watch begins and the first send starts.
Broadcast ==
    /\ Idle("broadcast") /\ next_sync = 0
    /\ Touch("broadcast")
    /\ StartSend("broadcast", Msg("commands", "sync", Head(Targets)))
    /\ todo' = Tail(Targets)
    /\ next_sync' = SyncInterval
    /\ UNCHANGED <<phase, beat_phase, inbox, wire, beat, stuck, suspect, last_fired, uptime, boards, faults>>

\* autonomy_thread wakes and finds that the interval has passed.
Autonomy ==
    /\ Idle("autonomy") /\ Slept("autonomy") /\ last_fired >= SunInterval
    /\ StartSend("autonomy", Msg("commands", "sun", "ADCS"))
    /\ UNCHANGED <<phase, beat_phase, inbox, wire, todo, watches, beat, stuck, suspect, timers,
                   boards, faults>>

\* How long an idle thread has waited: in poll, csp_accept or its sleep.
Waited(t) == IF t \in Readers THEN polled[t] ELSE progress[t]

\* Mutant: the request thread's poll times out without a touch.
TouchesIdlyNotRequest(t) ==
    /\ Idle(t)
    /\ t \notin {"broadcast", "request"}
    /\ Waited(t) + 1 >= Second
    /\ t = "autonomy" => last_fired + 1 < SunInterval

\* A thread without work touches its watch every second: the poll of a receiving
\* thread, or csp_accept, has timed out, or autonomy has found nothing to fire.
TouchesIdly(t) ==
    /\ Idle(t)
    /\ t # "broadcast"
    /\ Waited(t) + 1 >= Second
    /\ t = "autonomy" => last_fired + 1 < SunInterval

-----------------------------------------------------------------------------
\* Mutant: the timeout is taken twice.
StaleAfterTwice(r) == beat[r] > 2 * BeatTimeout

Stale(r) == beat[r] > BeatTimeout

\* A pass of FDIR's watchdog finds a role's heartbeat too old; the supervisor kills
\* the role and starts it again.  What waited at its socket is lost, a connect
\* that blocks on it fails, its threads and watches start afresh.
Restart(r) ==
    LET mine == {t \in Threads : RoleOf[t] = r}
    IN  /\ phase = 0 /\ Stale(r)
        /\ inbox' = [inbox EXCEPT ![r] = <<>>]
        /\ pc' = [t \in Threads |-> IF t \in mine THEN "idle"
                                    ELSE IF pc[t] = "send" /\ out[t].to = r THEN "refused"
                                    ELSE pc[t]]
        /\ out' = [t \in Threads |-> IF t \in mine THEN Nothing ELSE out[t]]
        /\ progress' = [t \in Threads |-> IF t \in mine THEN 0 ELSE progress[t]]
        /\ polled' = [t \in Readers |-> IF t \in mine THEN 0 ELSE polled[t]]
        /\ failing' = failing \ mine
        /\ stuck' = stuck \ mine
        /\ beat' = [beat EXCEPT ![r] = 0]
        /\ wire' = IF r = "commands" THEN <<>> ELSE wire
        /\ IF r = "time" THEN next_sync' = 0 /\ todo' = <<>> ELSE UNCHANGED <<next_sync, todo>>
        /\ last_fired' = IF r = "mission" THEN uptime ELSE last_fired
        /\ UNCHANGED <<phase, beat_phase, suspect, uptime, boards, faults>>

Stick(t) ==
    /\ t \in MayStick \ stuck /\ faults.stuck < MaxStuck
    /\ Active(t)
    /\ stuck' = stuck \cup {t}
    /\ suspect' = suspect \cup {RoleOf[t]}
    /\ faults' = [faults EXCEPT !.stuck = @ + 1]
    /\ UNCHANGED <<phase, beat_phase, inbox, wire, threadVars, beat, timers, boards>>

ComeLoose(t) ==
    /\ t \in stuck
    /\ stuck' = stuck \ {t}
    /\ UNCHANGED <<phase, beat_phase, inbox, wire, threadVars, beat, suspect, timers, boards, faults>>

\* Can thread t take a step now?
Ready(t) ==
    /\ t \notin stuck
    /\ \/ pc[t] = "refused"
       \/ pc[t] = "send" /\ Room(t)
       \/ pc[t] = "idle" /\ CASE t = "ingest" -> wire # <<>>
                              [] t = "broadcast" -> next_sync = 0
                              [] t = "autonomy" -> Slept(t) /\ last_fired >= SunInterval
                              [] OTHER -> inbox[RoleOf[t]] # <<>>

Quiet == \A t \in Threads : ~Ready(t)

\* Between two rounds of telemetry a board asks for the time, or something arrives
\* that nobody waits for: a board that is no target, a notice, a port without a route.
BoardSends ==
    /\ Quiet
    /\ faults.event < MaxEvents /\ Len(wire) < MaxWire
    /\ \E p \in {Msg("commands", "request", "EPS"), Msg("commands", "request", "stranger"),
                 Msg("commands", "other", "stranger")} : wire' = Append(wire, p)
    /\ faults' = [faults EXCEPT !.event = @ + 1]
    /\ UNCHANGED <<phase, beat_phase, inbox, threadVars, beat, stuck, suspect, timers, boards>>

\* A thread of role r is stuck, cannot receive, or waits for a suspect role to accept
\* its message.
Held(r) == \E t \in Threads :
    /\ RoleOf[t] = r
    /\ t \in stuck \cup failing \/ (pc[t] = "send" /\ out[t].to \in suspect)

\* Half a second passes.  Telemetry arrives; what the CSP stack cannot hold is
\* lost.  The heartbeat threads whose phase it is judge their watches.
Tick ==
    /\ Quiet
    /\ phase = 0 => \A r \in Roles : ~Stale(r)
    /\ phase' = (phase + 1) % Second
    /\ progress' = [t \in Threads |-> IF TouchesIdly(t) THEN 0 ELSE Older(progress[t])]
    /\ polled' = [t \in Readers |-> IF TouchesIdly(t) THEN 0 ELSE Older(polled[t])]
    /\ failing' = {t \in failing : ~TouchesIdly(t)}
    /\ beat' = [r \in Roles |-> IF beat_phase[r] = phase' /\ Healthy(r, progress') THEN 0
                                ELSE Older(beat[r])]
    /\ suspect' = {r \in Roles : beat'[r] # 0 /\ (r \in suspect \/ Held(r))}
    /\ out' = [t \in Threads |-> Aged(out[t])]
    /\ inbox' = [r \in Roles |-> [i \in DOMAIN inbox[r] |-> Aged(inbox[r][i])]]
    /\ wire' = IF Len(wire) < MaxWire THEN Append(wire, Msg("commands", "telemetry", "ADCS"))
               ELSE wire
    /\ next_sync' = IF next_sync > 0 THEN next_sync - 1 ELSE 0
    /\ last_fired' = IF last_fired < SunInterval THEN last_fired + 1 ELSE last_fired
    /\ uptime' = IF uptime < SunInterval THEN uptime + 1 ELSE uptime
    /\ since_sync' = [b \in Boards |-> Older(since_sync[b])]
    /\ since_sun' = Older(since_sun)
    /\ UNCHANGED <<beat_phase, pc, todo, stuck, late, faults>>

Next ==
    \/ \E t \in Threads : Deliver(t) \/ Refuse(t) \/ Stick(t) \/ ComeLoose(t)
    \/ \E t \in Readers : ReceiveFails(t)
    \/ Ingest \/ Relay \/ Request \/ Storage \/ Broadcast \/ Autonomy
    \/ \E r \in Roles : Restart(r)
    \/ BoardSends
    \/ Tick

Spec == Init /\ [][Next]_vars
-----------------------------------------------------------------------------
\* Every variable has its type; no socket holds more connections than its backlog,
\* and a thread has a message exactly while it is in IPC_send.
TypeOK ==
    /\ phase \in 0 .. Second - 1
    /\ beat_phase \in [Roles -> 0 .. Second - 1]
    /\ \A r \in Roles : Len(inbox[r]) <= Backlog
    /\ Len(wire) <= MaxWire
    /\ pc \in [Threads -> {"idle", "send", "refused"}]
    /\ \A t \in Threads : pc[t] = "idle" <=> out[t] = Nothing
    /\ progress \in [Threads -> 0 .. MaxAge]
    /\ polled \in [Readers -> 0 .. MaxAge] /\ failing \subseteq Readers
    /\ beat \in [Roles -> 0 .. MaxAge]
    /\ stuck \subseteq Threads /\ suspect \subseteq Roles
    /\ next_sync \in 0 .. SyncInterval
    /\ last_fired \in 0 .. SunInterval /\ uptime \in 0 .. SunInterval

\* How long the watches and FDIR may take to notice a thread and restart its role.
Repair == Stall + BeatTimeout + Second

\* How long a stuck or failing thread may disturb the others: until it is repaired, and then for the
\* second in which every role sends a heartbeat again.
Disturbance == Repair + Second + 1

\* The worst case: a lost message costs a whole interval, and a stuck or failing thread an interval
\* after the time for which it disturbs the others.
Overdue(interval) == (1 + MaxEvents) * interval + MaxStuck * (interval + Disturbance)

\* No thread whose watch is active is silent for longer than a repair takes, be it
\* stuck or blocked by another: the watches cover every place where the six
\* threads can stop, and the restarts release whoever waits.
NoSilentThread == \A t \in Threads : Active(t) => progress[t] <= Repair

\* Sockets and watches keep to their bounds, and nobody is stuck unnoticed
\* (obc_progress.c, obc_ipc.c).
RelayInv == TypeOK /\ NoSilentThread

\* FDIR restarts a role only because one of its threads was stuck or got an error when it
\* received, or was blocked, directly or through others, by a role with such a thread.
\* (It does restart the other kinds: that a stuck role takes others with it, and that
\* errors get a role restarted whose threads all run, is in the model.)
OnlyHeldRolesRestarted == \A r \in Roles : phase = 0 /\ Stale(r) => r \in suspect

\* send_time_sync_to reads the clock before the message waits, in connect and at the
\* socket: the time that a board is set to is never older than the repairs that the
\* message can have waited for, one for each stuck thread.
SyncIsRecent == \A b \in Boards : late[b] <= MaxStuck * Repair

\* Broadcasts and requests keep setting the boards' clocks and sun commands keep
\* coming, although a message that IPC_send has delivered, and that autonomy takes
\* for done, may be lost with the role that should read it: it costs one interval.
\* (Autonomy looks at its timer once a second.)
CommandsKeepComing ==
    /\ \A b \in Boards : since_sync[b] <= Overdue(SyncInterval)
    /\ since_sun <= Overdue(SunInterval + Second)
=============================================================================
