-------------------------- MODULE RecoveryProofs --------------------------
(***************************************************************************)
(* Theorems about FaultRecovery, for every number of roles, length of the  *)
(* sockets' queues, threshold of board resets and number of FDIR's hangs,  *)
(* reset notices, lost requests and failed respawns: when at most one role *)
(* hangs and the time-outs leave the margins below, the supervisor         *)
(* restarts no healthy FDIR, FDIR reports no healthy role unless commands  *)
(* keeps its health monitor waiting, and a hung role is soon back unless   *)
(* that has happened or a respawn has failed.                              *)
(*                                                                         *)
(* The argument is a budget.  Only the kill of the hung role makes the     *)
(* supervisor's control thread wait (KillTime), only the sleep before the  *)
(* board's shutdown makes FDIR's health monitor wait (SleepTime), and a    *)
(* healthy process is otherwise heard in every second: an age never        *)
(* exceeds what the two have spent (FreshFdir, FreshRoles).  The outage of *)
(* a hung role is measured by one clock after the other: FDIR's stamp, the *)
(* supervisor's stamp of FDIR, the grace of the kill (OutageInv).          *)
(***************************************************************************)
EXTENDS FaultRecovery, FiniteSetTheorems, TLAPS

\* At most one role hangs.
SingleFault == MaxHangs <= 1

\* How the time-outs relate; the code's 5, 5, 3 and 2 seconds satisfy it.
Margins ==
  /\ FdirTimeout >= Grace + 1
  /\ RoleTimeout >= Pause + 1 /\ RoleTimeout >= Pause + Grace
  /\ MaxAge > RoleTimeout + Grace

-----------------------------------------------------------------------------
\* Seconds that the kill of a hung role has kept the control thread.
KillTime == IF control \in hung THEN Grace - left
            ELSE IF hung = {} /\ hangs # 0 THEN Grace ELSE 0

\* Seconds that this FDIR's health monitor has slept.
SleepTime == IF reset_counts < Threshold THEN 0 ELSE Pause - pause

\* Somewhere in a queue.
In(x, q) == \E i \in 1..Len(q) : q[i] = x

\* r's next heartbeat is with FDIR, or is the next thing that r does.
Due(r) == In(r, fdirInbox) \/ (owed[r] >= 1 /\ hpc[r] = "fdir")

\* The supervisor knows that it has to restart r.
Pending(r) == control = r \/ In(Restart(r), supInbox)

AtLeastOne(n) == IF n >= 1 THEN n ELSE 1

\* The age that the two waits allow the stamp of r.
Allowed(r) == SleepTime + (IF Running(r) /\ Due(r) THEN AtLeastOne(KillTime)
                           ELSE KillTime)

Messages == {Restart(r) : r \in Roles} \cup {Ping(s) : s \in Roles \cup {Fdir}}

\* Every variable has its type, queues included; a thread at work owes a period.
TInv ==
  /\ TypeOK
  /\ fdirInbox \in Seq(Roles \cup {Notice})
  /\ supInbox \in Seq(Messages)
  /\ \A r \in Roles : owed[r] = 0 => hpc[r] = "fdir"
  /\ wi # 0 => wowed > 0
  /\ si # 0 => sowed > 0

\* The board's shutdown is ordered once per FDIR.
ShutInv ==
  /\ reset_counts < Threshold => shutdowns = 0 /\ pause = 0 /\ ~ordering
  /\ ordering => shutdowns = 0
  /\ pause > 0 => ordering
  /\ shutdowns <= 1

\* One role hangs at most; an FDIR that is dead does not run and is left alone.
FaultInv ==
  /\ hangs = 0 => hung = {}
  /\ \A p, q \in hung : p = q
  /\ hangs <= 1
  /\ Fdir \in dead => fdirHung /\ si # R + 2

\* FDIR's ping is under way whenever the supervisor's stamp has an age, and that
\* age is what the kill has cost, and the second in which the ping is sent.
FreshFdir ==
  /\ ~falseFdir
  /\ ~fdirHung => /\ fdirAge = 0 \/ wowed > 0 \/ In(Ping(Fdir), supInbox)
                  /\ fdirAge <= 1 + KillTime
                  /\ wi # 0 => late <= KillTime

\* A healthy role's heartbeat is under way whenever its stamp has an age.
Heard(r) == \/ last_heartbeat[r] = 0
            \/ Due(r)
            \/ owed[r] >= 2

\* Already reported.
Reported(r) == fault_latched[r] /\ RoleIsStale(r)

\* A running role's stamp is older than allowed only if it was reported, or commands
\* keeps the health monitor waiting.
Aged(r) == \/ last_heartbeat[r] <= Allowed(r)
           \/ Reported(r)
           \/ delayed = "now"

\* A role that waits for the supervisor was stamped, but for the kill, just now.
Passed(r) == hpc[r] = "supervisor" /\ ~In(r, fdirInbox) => last_heartbeat[r] <= KillTime

\* A role whose restart was asked for is not asked for again.
Claimed(r) == Pending(r) => \/ last_heartbeat[r] <= SleepTime + KillTime
                            \/ Reported(r)

FreshRoles ==
  ~fdirHung => \A r \in Roles : /\ Running(r) => Heard(r) /\ Aged(r) /\ Passed(r)
                               /\ Claimed(r)

RecInv == TInv /\ ShutInv /\ FaultInv /\ FreshFdir /\ FreshRoles

-----------------------------------------------------------------------------
\* The constants are numbers, and who may be named in a message.
LEMMA ConstantFacts ==
  /\ R \in Nat /\ R > 0 /\ Backlog \in Nat /\ Backlog > 0
  /\ Threshold \in Nat /\ Threshold > 0
  /\ RoleTimeout \in Nat /\ FdirTimeout \in Nat /\ Grace \in Nat /\ Pause \in Nat
  /\ MaxAge \in Nat /\ MaxAge > 0
  /\ MaxHangs \in Nat /\ MaxFdirHangs \in Nat /\ MaxNotices \in Nat /\ MaxLosses \in Nat
  /\ MaxSpawnFails \in Nat /\ MaxWait \in Nat
BY CountsAssumption, TimesAssumption, LimitsAssumption

\* Notices, FDIR and nobody are no roles.
LEMMA RoleFacts == /\ Roles \subseteq Nat /\ Notice \notin Roles /\ Fdir \notin Roles
                   /\ Nobody \notin Roles /\ Nobody # Fdir
                   /\ \A r \in Roles : r >= 1 /\ r <= R
BY ConstantFacts DEF Roles, Notice, Fdir, Nobody

\* What FDIR and the roles send.
LEMMA MessageFacts ==
  /\ \A r \in Roles : Restart(r) \in Messages /\ Restart(r).restart = r
  /\ \A r \in Roles : Ping(r) \in Messages /\ Ping(r) # Ping(Fdir)
  /\ Ping(Fdir) \in Messages
  /\ \A r \in Roles, s \in Roles \cup {Fdir} : Restart(r) # Ping(s)
  /\ \A r, s \in Roles : Restart(r) = Restart(s) => r = s
  /\ \A m \in Messages : /\ m \in [src : Roles \cup {Fdir}, restart : Roles \cup {Nobody}]
                         /\ m.restart # Nobody => m = Restart(m.restart)
BY RoleFacts DEF Restart, Ping, Messages

\* A second more, up to the bound.
LEMMA OlderFacts ==
  \A a \in 0..MaxAge : /\ Older(a) \in 0..MaxAge /\ Older(a) > 0
                       /\ Older(a) <= a + 1 /\ (a < MaxAge => Older(a) = a + 1)
                       /\ (a = MaxAge => Older(a) = MaxAge)
BY ConstantFacts DEF Older

\* One message more.
LEMMA InAppend ==
  ASSUME NEW S, NEW q \in Seq(S), NEW y \in S
  PROVE  /\ Append(q, y) \in Seq(S) /\ Len(Append(q, y)) = Len(q) + 1 /\ Len(q) \in Nat
         /\ \A x : In(x, Append(q, y)) <=> In(x, q) \/ x = y
<1>1. /\ Append(q, y) \in Seq(S) /\ Len(q) \in Nat /\ Len(Append(q, y)) = Len(q) + 1
      /\ \A i \in 1..Len(q) : Append(q, y)[i] = q[i] /\ i \in 1..Len(Append(q, y))
      /\ Append(q, y)[Len(q) + 1] = y /\ Len(q) + 1 \in 1..Len(Append(q, y))
      /\ \A i \in 1..Len(Append(q, y)) : i \in 1..Len(q) \/ i = Len(q) + 1
  OBVIOUS
<1> QED BY <1>1 DEF In

\* One message less.
LEMMA InTail ==
  ASSUME NEW S, NEW q \in Seq(S), q # <<>>
  PROVE  /\ Head(q) \in S /\ Tail(q) \in Seq(S) /\ Len(Tail(q)) <= Len(q)
         /\ Len(q) \in Nat /\ Len(q) > 0 /\ Len(Tail(q)) \in Nat
         /\ \A x : In(x, q) <=> x = Head(q) \/ In(x, Tail(q))
<1>1. /\ Head(q) \in S /\ Head(q) = q[1] /\ Tail(q) \in Seq(S)
      /\ Len(q) \in Nat /\ Len(q) > 0 /\ Len(Tail(q)) = Len(q) - 1
      /\ \A i \in 1..Len(Tail(q)) : Tail(q)[i] = q[i + 1] /\ i + 1 \in 1..Len(q)
  OBVIOUS
<1>2. ASSUME NEW x PROVE In(x, q) <=> x = Head(q) \/ In(x, Tail(q))
  <2>1. ASSUME In(x, q) PROVE x = Head(q) \/ In(x, Tail(q))
    <3>1. PICK i \in 1..Len(q) : q[i] = x BY <2>1 DEF In
    <3>2. CASE i = 1 BY <1>1, <3>1, <3>2
    <3>3. CASE i # 1
      <4>1. i - 1 \in 1..Len(Tail(q)) /\ (i - 1) + 1 = i BY <1>1, <3>3
      <4> QED BY <1>1, <3>1, <4>1 DEF In
    <3> QED BY <3>2, <3>3
  <2>2. ASSUME x = Head(q) PROVE In(x, q)
    <3>1. 1 \in 1..Len(q) BY <1>1
    <3> QED BY <1>1, <2>2, <3>1 DEF In
  <2>3. ASSUME In(x, Tail(q)) PROVE In(x, q)
    <3>1. PICK i \in 1..Len(Tail(q)) : Tail(q)[i] = x BY <2>3 DEF In
    <3> QED BY <1>1, <3>1 DEF In
  <2> QED BY <2>1, <2>2, <2>3
<1> QED BY <1>1, <1>2

\* Nothing is in an empty queue.
LEMMA InEmpty == \A x : ~In(x, <<>>)
BY DEF In

\* A queue's types, as TypeOK says them.
LEMMA QueueTypes ==
  ASSUME supInbox \in Seq(Messages)
  PROVE  \A i \in 1..Len(supInbox) :
           supInbox[i] \in [src : Roles \cup {Fdir}, restart : Roles \cup {Nobody}]
<1>1. \A i \in 1..Len(supInbox) : supInbox[i] \in Messages OBVIOUS
<1> QED BY <1>1, MessageFacts

\* Who serves the supervisor's socket is not kept waiting except by a hung role; so
\* when a second passes, either that role is being killed, or every message of FDIR
\* has been served and its watchdog is asleep.
LEMMA TickFacts ==
  ASSUME TInv, Tick
  PROVE  /\ \/ control \in hung /\ control \in Roles /\ left > 0
            \/ /\ control = Nobody /\ supInbox = <<>>
               /\ ~fdirHung => wi = 0 /\ wowed = 0
               /\ \A r \in Roles : Running(r) /\ owed[r] > 0 => hpc[r] = "fdir"
         /\ si = R + 2 => fdirLeft > 0
         /\ \A r \in Roles : Running(r) /\ hpc[r] = "fdir" /\ owed[r] > 0 => ~Room(fdirInbox)
         /\ ~fdirHung => ordering \/ fdirInbox = <<>>
         /\ InSend => waited # MaxWait
<1> USE ConstantFacts, RoleFacts
<1>0. ~CanStep BY DEF Tick
<1>1. control \in Roles => control \in hung /\ left > 0
  BY <1>0 DEF CanStep, CanRevive, TInv, TypeOK
<1>2. control = Nobody => supInbox = <<>>
  BY <1>0 DEF CanStep, CanServe
<1>3. supInbox = <<>> => Room(supInbox) BY DEF Room
<1>4. ~fdirHung /\ Room(supInbox) => wi = 0 /\ wowed = 0
  <2>1. ~CanCheck /\ ~CanPing /\ ~(~fdirHung /\ wi = 0 /\ wowed > 0) BY <1>0 DEF CanStep
  <2>2. wi \in Roles \/ wi = R + 1 \/ wi = 0 BY DEF TInv, TypeOK, Roles
  <2>3. wowed \in 0..MaxAge BY DEF TInv, TypeOK
  <2> QED BY <2>1, <2>2, <2>3 DEF CanCheck, CanPing
<1>5. \A r \in Roles : ~CanBeat(r) BY <1>0 DEF CanStep
<1>6. \A r \in Roles : Running(r) /\ owed[r] > 0 /\ Room(supInbox) => hpc[r] = "fdir"
  BY <1>5 DEF CanBeat, TInv, TypeOK
<1>7. \A r \in Roles : Running(r) /\ hpc[r] = "fdir" /\ owed[r] > 0 => ~Room(fdirInbox)
  BY <1>5 DEF CanBeat
<1>8. ~fdirHung => ordering \/ fdirInbox = <<>>
  BY <1>0 DEF CanStep, CanReceive, TInv, TypeOK
<1>11. InSend => waited # MaxWait BY <1>0 DEF CanStep
<1>9. si = R + 2 => fdirLeft > 0 BY <1>0 DEF CanStep, TInv, TypeOK
<1>10. control \in Roles \/ control = Nobody BY DEF TInv, TypeOK
<1> QED BY <1>1, <1>2, <1>3, <1>4, <1>6, <1>7, <1>8, <1>9, <1>10, <1>11

\* A queue that lost its head or got a message within its backlog.
LEMMA SupPush ==
  ASSUME TInv, NEW m \in Messages, Room(supInbox), supInbox' = Append(supInbox, m)
  PROVE  supInbox' \in Seq(Messages) /\ Len(supInbox') <= Backlog
BY InAppend, ConstantFacts DEF TInv, Room

\* The same for FDIR's queue.
LEMMA FdirPush ==
  ASSUME TInv, NEW m \in Roles \cup {Notice}, Room(fdirInbox),
         fdirInbox' = Append(fdirInbox, m)
  PROVE  fdirInbox' \in Seq(Roles \cup {Notice}) /\ Len(fdirInbox') <= Backlog
BY InAppend, ConstantFacts DEF TInv, Room

\* The queues keep their types.
LEMMA QueueStep ==
  ASSUME TInv, [Next]_vars
  PROVE  /\ supInbox' \in Seq(Messages) /\ Len(supInbox') <= Backlog
         /\ fdirInbox' \in Seq(Roles \cup {Notice}) /\ Len(fdirInbox') <= Backlog
<1> USE ConstantFacts, RoleFacts
<1>0. /\ supInbox \in Seq(Messages) /\ Len(supInbox) <= Backlog
      /\ fdirInbox \in Seq(Roles \cup {Notice}) /\ Len(fdirInbox) <= Backlog
  BY DEF TInv, TypeOK
<1>1. ASSUME NEW r \in Roles, Beat(r)
      PROVE  \/ UNCHANGED <<supInbox, fdirInbox>>
             \/ /\ UNCHANGED supInbox
                /\ Room(fdirInbox) /\ fdirInbox' = Append(fdirInbox, r)
             \/ /\ UNCHANGED fdirInbox
                /\ Room(supInbox) /\ supInbox' = Append(supInbox, Ping(r))
  BY <1>1 DEF Beat, CanBeat
<1>2. CASE WatchCheck
  <2>1. /\ UNCHANGED fdirInbox
        /\ \/ UNCHANGED supInbox
           \/ /\ wi \in Roles /\ Room(supInbox)
              /\ supInbox' = Append(supInbox, Restart(wi))
    BY <1>2 DEF WatchCheck, CanCheck
  <2> QED BY <1>0, <2>1, SupPush, MessageFacts
<1>3. CASE WatchPing
  <2>1. UNCHANGED fdirInbox /\ Room(supInbox) /\ supInbox' = Append(supInbox, Ping(Fdir))
    BY <1>3 DEF WatchPing, CanPing
  <2> QED BY <1>0, <2>1, SupPush, MessageFacts
<1>4. CASE MonitorReceive
  <2>1. UNCHANGED supInbox /\ fdirInbox # <<>> /\ fdirInbox' = Tail(fdirInbox)
    BY <1>4 DEF MonitorReceive, CanReceive
  <2>2. fdirInbox' \in Seq(Roles \cup {Notice}) /\ Len(fdirInbox') <= Len(fdirInbox)
        /\ Len(fdirInbox) \in Nat /\ Len(fdirInbox') \in Nat
    BY <1>0, <2>1, InTail
  <2> QED BY <1>0, <2>1, <2>2
<1>5. CASE ControlReceive
  <2>1. UNCHANGED fdirInbox /\ supInbox # <<>> /\ supInbox' = Tail(supInbox)
    BY <1>5 DEF ControlReceive, CanServe
  <2>2. supInbox' \in Seq(Messages) /\ Len(supInbox') <= Len(supInbox)
        /\ Len(supInbox) \in Nat /\ Len(supInbox') \in Nat
    BY <1>0, <2>1, InTail
  <2> QED BY <1>0, <2>1, <2>2
<1>6. CASE RestartFdir
  <2>1. UNCHANGED supInbox /\ fdirInbox' = <<>> BY <1>6 DEF RestartFdir
  <2> QED BY <1>0, <2>1
<1>7. CASE BoardResets
  <2>1. UNCHANGED supInbox /\ Room(fdirInbox) /\ fdirInbox' = Append(fdirInbox, Notice)
    BY <1>7 DEF BoardResets
  <2> QED BY <1>0, <2>1, FdirPush
<1>8. CASE UNCHANGED <<supInbox, fdirInbox>> BY <1>0, <1>8
<1>9. CASE \E r \in Roles : Beat(r)
  <2>1. PICK r \in Roles : Beat(r) BY <1>9
  <2> QED BY <1>0, <1>1, <2>1, SupPush, FdirPush, MessageFacts
<1>10. ASSUME NEW r \in Roles, RoleHangs(r) PROVE UNCHANGED <<supInbox, fdirInbox>>
  BY <1>10 DEF RoleHangs
<1> QED
  BY <1>2, <1>3, <1>4, <1>5, <1>6, <1>7, <1>8, <1>9, <1>10
     DEF Next, OBCStep, WatchBegin, MonitorOrder, Revive, SweepEntry, CheckFrozen,
         FdirHangs, Tick, vars

\* TInv without its queues.
RestInv ==
  /\ hung \subseteq Roles /\ dead \subseteq Roles \cup {Fdir}
  /\ fdirHung \in BOOLEAN /\ falseFdir \in BOOLEAN
  /\ delayed \in {"never", "now", "past"} /\ ordering \in BOOLEAN
  /\ hpc \in [Roles -> {"fdir", "supervisor"}] /\ owed \in [Roles -> 0..MaxAge]
  /\ \A r \in Roles : owed[r] = 0 => hpc[r] = "fdir"
  /\ last_heartbeat \in [Roles -> 0..MaxAge]
  /\ fault_latched \in [Roles -> BOOLEAN]
  /\ wi \in 0..(R + 1) /\ late \in 0..MaxAge /\ wowed \in 0..MaxAge
  /\ wi # 0 => wowed > 0
  /\ pause \in 0..Pause /\ waited \in 0..MaxWait
  /\ reset_counts \in Nat /\ shutdowns \in Nat
  /\ control \in Roles \cup {Nobody} /\ left \in 0..Grace
  /\ si \in 0..(R + 2) /\ fdirLeft \in 0..Grace /\ sowed \in 0..MaxAge /\ fdirAge \in 0..MaxAge
  /\ si # 0 => sowed > 0
  /\ hungFor \in [Roles -> Nat]
  /\ hangs \in Nat /\ fdirHangs \in Nat /\ notices \in Nat /\ losses \in Nat
  /\ spawnFails \in Nat

\* TInv and its parts.
LEMMA TInvParts ==
  TInv <=> /\ RestInv
           /\ supInbox \in Seq(Messages) /\ Len(supInbox) <= Backlog
           /\ fdirInbox \in Seq(Roles \cup {Notice}) /\ Len(fdirInbox) <= Backlog
<1>1. supInbox \in Seq(Messages) =>
        \A i \in 1..Len(supInbox) :
          supInbox[i] \in [src : Roles \cup {Fdir}, restart : Roles \cup {Nobody}]
  BY QueueTypes
<1> QED BY <1>1 DEF TInv, TypeOK, RestInv

\* Every step keeps the types.
LEMMA TStep == TInv /\ [Next]_vars => TInv'
<1> SUFFICES ASSUME TInv, [Next]_vars PROVE TInv' OBVIOUS
<1>q. /\ supInbox' \in Seq(Messages) /\ Len(supInbox') <= Backlog
      /\ fdirInbox' \in Seq(Roles \cup {Notice}) /\ Len(fdirInbox') <= Backlog
  BY QueueStep
<1>t. RestInv BY TInvParts
<1>r. \A i \in 1..Len(supInbox') :
        supInbox'[i] \in [src : Roles \cup {Fdir}, restart : Roles \cup {Nobody}]
  <2>1. \A i \in 1..Len(supInbox') : supInbox'[i] \in Messages BY <1>q
  <2> QED BY <2>1, MessageFacts
<1>s. SUFFICES RestInv' BY <1>q, <1>r, <1>s DEF TInv, TypeOK, RestInv
<1> USE <1>t, ConstantFacts, RoleFacts DEF RestInv
<1>1. ASSUME NEW r \in Roles, Beat(r) PROVE RestInv'
  <2>1. /\ hpc' \in [Roles -> {"fdir", "supervisor"}] /\ owed' \in [Roles -> 0..MaxAge]
        /\ \A s \in Roles : owed'[s] = 0 => hpc'[s] = "fdir"
    <3>1. CASE /\ hpc[r] = "fdir" /\ hpc' = [hpc EXCEPT ![r] = "supervisor"]
               /\ owed' = owed
      <4>1. owed[r] > 0 BY <1>1 DEF Beat, CanBeat
      <4> QED BY <3>1, <4>1
    <3>2. CASE /\ hpc[r] = "supervisor" /\ hpc' = [hpc EXCEPT ![r] = "fdir"]
               /\ owed' = [owed EXCEPT ![r] = @ - 1]
      <4>1. owed[r] > 0 BY <1>1 DEF Beat, CanBeat
      <4> QED BY <3>2, <4>1
    <3> QED BY <1>1, <3>1, <3>2 DEF Beat
  <2> QED BY <1>1, <2>1 DEF Beat, watchdog, monitor, killing, sweep, ghosts, events
<1>2. CASE WatchBegin
  BY <1>2 DEF WatchBegin, beats, monitor, killing, sweep, ghosts, events
<1>3. CASE WatchCheck
  <2>1. wi' = wi + 1 /\ wi \in Roles /\ wowed > 0
    BY <1>3 DEF WatchCheck, CanCheck
  <2>2. fault_latched' \in [Roles -> BOOLEAN] /\ losses' \in Nat
    <3>1. CASE /\ fault_latched' = [fault_latched EXCEPT ![wi] = TRUE] /\ UNCHANGED losses
      BY <3>1
    <3>2. CASE losses' = losses + 1 /\ UNCHANGED fault_latched BY <3>2
    <3>3. CASE /\ fault_latched' = [fault_latched EXCEPT ![wi] = @ /\ RoleIsStale(wi)]
               /\ UNCHANGED losses
      BY <3>3, Zenon
    <3> QED BY <1>3, <3>1, <3>2, <3>3 DEF WatchCheck
  <2> QED BY <1>3, <2>1, <2>2 DEF WatchCheck, beats, monitor, killing, sweep, ghosts
<1>4. CASE WatchPing
  BY <1>4 DEF WatchPing, CanPing, beats, monitor, killing, sweep, ghosts, events
<1>5. CASE MonitorReceive
  <2>1. /\ last_heartbeat' \in [Roles -> 0..MaxAge]
        /\ pause' \in 0..Pause /\ reset_counts' \in Nat
    BY <1>5 DEF MonitorReceive
  <2>2. ordering' \in BOOLEAN BY <1>5, Zenon DEF MonitorReceive
  <2> QED BY <1>5, <2>1, <2>2
          DEF MonitorReceive, beats, watchdog, killing, sweep, ghosts, events
<1>16. CASE MonitorOrder
  <2>1. ordering' \in BOOLEAN BY <1>16, Zenon DEF MonitorOrder
  <2> QED BY <1>16, <2>1
          DEF MonitorOrder, beats, watchdog, killing, sweep, ghosts, events
<1>6. CASE ControlReceive
  <2>1. Head(supInbox) \in Messages
    BY <1>6, TInvParts, InTail DEF ControlReceive, CanServe
  <2>2. Head(supInbox).restart \in Roles \cup {Nobody} BY <2>1, MessageFacts
  <2>3. control' \in Roles \cup {Nobody} /\ left' \in 0..Grace /\ fdirAge' \in 0..MaxAge
    BY <1>6, <2>2 DEF ControlReceive, killing
  <2> QED BY <1>6, <2>3
          DEF ControlReceive, beats, watchdog, monitor, sweep, ghosts, events
<1>7. CASE Revive
  <2>1. control \in Roles BY <1>7 DEF Revive, CanRevive
  <2>2. /\ hung' \subseteq Roles /\ dead' \subseteq Roles \cup {Fdir}
        /\ hungFor' \in [Roles -> Nat] /\ spawnFails' \in Nat
    <3>1. hung' = hung \ {control} BY <1>7 DEF Revive
    <3>2. CASE /\ dead' = dead \ {control} /\ UNCHANGED spawnFails
               /\ hungFor' = [hungFor EXCEPT ![control] = 0]
      BY <3>1, <3>2
    <3>3. CASE /\ dead' = dead \cup {control} /\ spawnFails' = spawnFails + 1
               /\ UNCHANGED hungFor
      BY <2>1, <3>1, <3>3
    <3> QED BY <1>7, <3>2, <3>3 DEF Revive
  <2>3. /\ hpc' \in [Roles -> {"fdir", "supervisor"}] /\ owed' \in [Roles -> 0..MaxAge]
        /\ \A r \in Roles : owed'[r] = 0 => hpc'[r] = "fdir"
    BY <1>7, <2>1 DEF Revive
  <2> QED BY <1>7, <2>2, <2>3 DEF Revive, watchdog, monitor, sweep
<1>8. CASE SweepEntry
  BY <1>8 DEF SweepEntry, CanSweep, beats, watchdog, monitor, killing, ghosts, events
<1>9. CASE CheckFrozen
  <2>1. /\ si' \in 0..(R + 2) /\ fdirLeft' \in 0..Grace /\ sowed' \in 0..MaxAge
        /\ si' # 0 => sowed' > 0
    BY <1>9 DEF CheckFrozen
  <2>2. falseFdir' \in BOOLEAN BY <1>9, Zenon DEF CheckFrozen
  <2> QED BY <1>9, <2>1, <2>2 DEF CheckFrozen, beats, watchdog, monitor, killing, events
<1>10. CASE RestartFdir
  <2>1. /\ si' = 0 /\ sowed' \in 0..MaxAge /\ fdirLeft' = 0 /\ fdirAge' \in 0..MaxAge
        /\ wi' = 0 /\ late' = 0 /\ wowed' = 1
        /\ pause' = 0 /\ waited' = 0 /\ reset_counts' = 0 /\ shutdowns' = 0
    BY <1>10 DEF RestartFdir
  <2>6. dead' \subseteq Roles \cup {Fdir} /\ spawnFails' \in Nat
    <3>1. CASE UNCHANGED <<dead, spawnFails>> BY <3>1
    <3>2. CASE dead' = dead \cup {Fdir} /\ spawnFails' = spawnFails + 1
      <4>1. dead \subseteq Roles \cup {Fdir} /\ spawnFails \in Nat OBVIOUS
      <4>2. dead' \subseteq Roles \cup {Fdir} BY ONLY <3>2, <4>1, Zenon
      <4>3. spawnFails' \in Nat BY ONLY <3>2, <4>1
      <4> QED BY <4>2, <4>3
    <3> QED BY <1>10, <3>1, <3>2 DEF RestartFdir
  <2>7. delayed' \in {"never", "now", "past"} BY <1>10 DEF RestartFdir
  <2>5. ordering' \in BOOLEAN BY <1>10, Zenon DEF RestartFdir
  <2>2. last_heartbeat' \in [Roles -> 0..MaxAge] /\ fault_latched' \in [Roles -> BOOLEAN]
    BY <1>10 DEF RestartFdir
  <2>4. fdirHung' \in BOOLEAN BY <1>10, Zenon DEF RestartFdir
  <2>3. UNCHANGED <<hung, hpc, owed, control, left, hungFor, falseFdir, hangs, fdirHangs,
                    notices, losses>>
    BY <1>10 DEF RestartFdir, beats, killing
  <2> QED BY <2>1, <2>2, <2>3, <2>4, <2>5, <2>6, <2>7
<1>11. CASE Tick
  <2>1. /\ si = R + 2 => fdirLeft > 0
        /\ control # Nobody => left > 0
        /\ ~fdirHung /\ wi # 0 => control # Nobody
        /\ InSend => waited # MaxWait
    BY <1>11, TickFacts
  <2>2. owed' \in [Roles -> 0..MaxAge] /\ \A r \in Roles : owed'[r] = 0 => hpc'[r] = "fdir"
    BY <1>11, OlderFacts DEF Tick
  <2>3. last_heartbeat' \in [Roles -> 0..MaxAge] /\ hungFor' \in [Roles -> Nat]
    BY <1>11, OlderFacts DEF Tick, LongerHung
  <2>4. /\ late' \in 0..MaxAge /\ wowed' \in 0..MaxAge /\ (wi' # 0 => wowed' > 0)
        /\ sowed' \in 0..MaxAge /\ (si' # 0 => sowed' > 0) /\ fdirAge' \in 0..MaxAge
    BY <1>11, OlderFacts DEF Tick
  <2>5. /\ pause' \in 0..Pause /\ left' \in 0..Grace /\ fdirLeft' \in 0..Grace
        /\ waited' \in 0..MaxWait
    BY <1>11, <2>1 DEF Tick
  <2>6. delayed' \in {"never", "now", "past"} BY <1>11 DEF Tick
  <2> QED BY <1>11, <2>2, <2>3, <2>4, <2>5, <2>6 DEF Tick, events
<1>12. ASSUME NEW r \in Roles, RoleHangs(r) PROVE RestInv'
  BY <1>12 DEF RoleHangs, beats, watchdog, monitor, killing, sweep, ghosts
<1>13. CASE FdirHangs
  BY <1>13 DEF FdirHangs, beats, watchdog, monitor, killing, sweep, ghosts
<1>14. CASE BoardResets
  BY <1>14 DEF BoardResets, beats, watchdog, monitor, killing, sweep, ghosts
<1>15. CASE UNCHANGED vars
  BY <1>15 DEF vars, beats, watchdog, monitor, killing, sweep, ghosts, events
<1> QED BY <1>1, <1>2, <1>3, <1>4, <1>5, <1>6, <1>7, <1>8, <1>9, <1>10, <1>11, <1>12,
           <1>13, <1>14, <1>15, <1>16 DEF Next, OBCStep

\* The notice that reaches the threshold is the only one to start the sleep, and the
\* sleep ends in the only shutdown.
LEMMA ShutStep == TInv /\ ShutInv /\ [Next]_vars => ShutInv'
<1> SUFFICES ASSUME TInv, ShutInv, [Next]_vars PROVE ShutInv' OBVIOUS
<1>t. /\ pause \in 0..Pause /\ reset_counts \in Nat /\ shutdowns \in Nat
  BY DEF TInv, TypeOK
<1> USE ConstantFacts, <1>t DEF ShutInv
<1>1. CASE MonitorReceive
  <2>1. ~ordering /\ pause = 0 /\ UNCHANGED shutdowns
    BY <1>1 DEF MonitorReceive, CanReceive
  <2>2. CASE UNCHANGED <<ordering, pause, reset_counts>> BY <2>1, <2>2
  <2>3. CASE /\ reset_counts' = reset_counts + 1
             /\ ordering' = (reset_counts + 1 = Threshold)
             /\ pause' = IF reset_counts + 1 = Threshold THEN Pause ELSE 0
    <3>1. CASE reset_counts + 1 = Threshold
      <4>1. ordering' /\ pause' = Pause /\ reset_counts' = Threshold BY <2>3, <3>1
      <4>2. shutdowns = 0 BY <3>1
      <4> QED BY <2>1, <4>1, <4>2
    <3>2. CASE reset_counts + 1 # Threshold
      <4>1. ~ordering' /\ pause' = 0 BY <2>3, <3>2
      <4> QED BY <2>1, <2>3, <4>1
    <3> QED BY <3>1, <3>2
  <2> QED BY <1>1, <2>2, <2>3 DEF MonitorReceive
<1>5. CASE MonitorOrder
  <2>1. /\ ordering /\ pause = 0 /\ ~ordering' /\ shutdowns' = shutdowns + 1
        /\ UNCHANGED <<pause, reset_counts>>
    BY <1>5 DEF MonitorOrder, InSend
  <2> QED BY <2>1
<1>2. CASE RestartFdir BY <1>2 DEF RestartFdir
<1>3. CASE Tick BY <1>3 DEF Tick
<1>4. CASE UNCHANGED <<ordering, pause, reset_counts, shutdowns>> BY <1>4
<1> HIDE DEF ShutInv
<1> QED BY <1>1, <1>2, <1>3, <1>4, <1>5
        DEF Next, OBCStep, Beat, WatchBegin, WatchCheck, WatchPing, ControlReceive, Revive,
            SweepEntry, CheckFrozen, RoleHangs, FdirHangs, BoardResets, vars, monitor

-----------------------------------------------------------------------------
\* The budget of the kill is a number of seconds up to the grace period.
LEMMA KillFacts == TInv => KillTime \in 0..Grace
<1> SUFFICES ASSUME TInv PROVE KillTime \in 0..Grace OBVIOUS
<1>1. left \in 0..Grace BY DEF TInv, TypeOK
<1>2. KillTime = Grace - left \/ KillTime = Grace \/ KillTime = 0 BY DEF KillTime
<1>3. ASSUME NEW l \in 0..Grace PROVE Grace - l \in 0..Grace BY ConstantFacts
<1> QED BY <1>1, <1>2, <1>3, ConstantFacts

\* The same after a step.
LEMMA KillFactsNext == TInv' => KillTime' \in 0..Grace
<1> SUFFICES ASSUME TInv' PROVE KillTime' \in 0..Grace OBVIOUS
<1>1. left' \in 0..Grace BY DEF TInv, TypeOK
<1>2. KillTime' = Grace - left' \/ KillTime' = Grace \/ KillTime' = 0 BY DEF KillTime
<1>3. ASSUME NEW l \in 0..Grace PROVE Grace - l \in 0..Grace BY ConstantFacts
<1> QED BY <1>1, <1>2, <1>3, ConstantFacts

\* The sleep's is one up to the pause.
LEMMA SleepFacts == TInv => SleepTime \in 0..Pause
BY ConstantFacts DEF TInv, TypeOK, SleepTime

\* The same after a step.
LEMMA SleepFactsNext == TInv' => SleepTime' \in 0..Pause
<1> SUFFICES ASSUME TInv' PROVE SleepTime' \in 0..Pause OBVIOUS
<1>1. pause' \in 0..Pause BY DEF TInv, TypeOK
<1>2. SleepTime' = Pause - pause' \/ SleepTime' = 0 BY DEF SleepTime
<1>3. ASSUME NEW l \in 0..Pause PROVE Pause - l \in 0..Pause BY ConstantFacts
<1> QED BY <1>1, <1>2, <1>3, ConstantFacts

\* What an age may be.
LEMMA AllowedFacts ==
  ASSUME TInv, NEW r \in Roles
  PROVE  /\ Allowed(r) = SleepTime + KillTime
            \/ Allowed(r) = SleepTime + AtLeastOne(KillTime)
         /\ Allowed(r) \in Nat
         /\ Margins => Allowed(r) <= RoleTimeout
BY KillFacts, SleepFacts, ConstantFacts DEF Allowed, AtLeastOne, Margins

\* A role that FDIR is about to report has stopped, and was not asked for.
LEMMA TrueFault ==
  ASSUME Margins, RecInv, ~fdirHung, MustAsk
  PROVE  wi \in Roles /\ (Running(wi) => delayed = "now") /\ ~Pending(wi)
<1>1. wi \in Roles /\ RoleIsStale(wi) /\ ~fault_latched[wi] BY DEF MustAsk
<1>2. /\ Allowed(wi) <= RoleTimeout /\ Allowed(wi) \in Nat
      /\ SleepTime + KillTime <= RoleTimeout /\ SleepTime + KillTime \in Nat
  <2>1. Allowed(wi) <= RoleTimeout /\ Allowed(wi) \in Nat
    BY <1>1, AllowedFacts DEF RecInv
  <2>2. SleepTime \in 0..Pause /\ KillTime \in 0..Grace BY SleepFacts, KillFacts DEF RecInv
  <2>3. \A x \in 0..Pause, y \in 0..Grace : x + y <= RoleTimeout /\ x + y \in Nat
    BY ConstantFacts DEF Margins
  <2> QED BY <2>1, <2>2, <2>3
<1>3. last_heartbeat[wi] \in Nat /\ late \in Nat
  BY <1>1, ConstantFacts DEF RecInv, TInv, TypeOK
<1>4. \A x \in Nat : x <= RoleTimeout => ~(last_heartbeat[wi] <= x)
  BY <1>1, <1>3, ConstantFacts DEF RoleIsStale
<1>5. ~Reported(wi) BY <1>1 DEF Reported
<1>6. ~Pending(wi) BY <1>1, <1>2, <1>4, <1>5 DEF RecInv, FreshRoles, Claimed
<1>7. Running(wi) => delayed = "now" BY <1>1, <1>2, <1>4, <1>5 DEF RecInv, FreshRoles, Aged
<1> QED BY <1>1, <1>6, <1>7

\* How the steps spend the budget of the kill: only time does.
LEMMA KillStep ==
  ASSUME SingleFault, RecInv, [Next]_vars
  PROVE  /\ KillTime <= KillTime'
         /\ Tick /\ control \in hung => KillTime' = KillTime + 1
<1> USE ConstantFacts, RoleFacts
<1>t. /\ hung \subseteq Roles /\ control \in Roles \cup {Nobody} /\ left \in 0..Grace
      /\ hangs \in Nat
  BY DEF RecInv, TInv, TypeOK
<1>f. /\ hangs = 0 => hung = {}
      /\ \A p, q \in hung : p = q
  BY DEF RecInv, FaultInv
<1>1. CASE ControlReceive
  <2>1. /\ UNCHANGED <<hung, hangs>> /\ control = Nobody
        /\ \/ UNCHANGED <<control, left>>
           \/ left' = Grace
    BY <1>1 DEF ControlReceive, CanServe, killing, events
  <2>2. ~Tick
    BY <1>1 DEF ControlReceive, CanServe, Tick, CanStep
  <2>3. KillTime = IF hung = {} /\ hangs # 0 THEN Grace ELSE 0
    BY <1>t, <2>1 DEF KillTime
  <2>4. CASE UNCHANGED <<control, left>>
    <3>1. KillTime' = KillTime BY <2>1, <2>4 DEF KillTime
    <3> QED BY <2>2, <2>3, <3>1
  <2>5. CASE left' = Grace /\ control' \in hung
    <3>1. KillTime' = 0 /\ hung # {} BY <2>1, <2>5 DEF KillTime
    <3> QED BY <2>2, <2>3, <3>1
  <2>6. CASE control' \notin hung
    <3>1. KillTime' = KillTime BY <2>1, <2>3, <2>6 DEF KillTime
    <3> QED BY <2>2, <2>3, <3>1
  <2> QED BY <2>1, <2>4, <2>5, <2>6
<1>2. CASE Revive
  <2>1. /\ control \in Roles /\ hung' = hung \ {control} /\ control' = Nobody
        /\ UNCHANGED hangs
    BY <1>2 DEF Revive, CanRevive, events
  <2>2. KillTime <= KillTime'
    <3>1. CASE control \in hung
      <4>1. hung' = {} /\ hangs # 0 BY <1>f, <2>1, <3>1
      <4>2. KillTime = Grace - left BY <3>1 DEF KillTime
      <4>3. KillTime' = Grace BY <2>1, <4>1 DEF KillTime
      <4> QED BY <1>t, <4>2, <4>3
    <3>2. CASE control \notin hung
      <4>1. hung' = hung BY <2>1, <3>2
      <4>2. Nobody \notin hung BY <1>t
      <4>3. KillTime = IF hung = {} /\ hangs # 0 THEN Grace ELSE 0
        BY <3>2 DEF KillTime
      <4>4. KillTime' = IF hung = {} /\ hangs # 0 THEN Grace ELSE 0
        BY <2>1, <4>1, <4>2 DEF KillTime
      <4> QED BY <4>3, <4>4
    <3> QED BY <3>1, <3>2
  <2>3. ~(Tick /\ control \in hung)
    BY <1>t, <2>1 DEF Tick
  <2> QED BY <2>2, <2>3
<1>3. ASSUME NEW r \in Roles, RoleHangs(r) PROVE KillTime = 0 /\ KillTime' = 0 /\ ~Tick
  <2>1. /\ control # r /\ hangs < MaxHangs /\ hangs' = hangs + 1
        /\ hung' = hung \cup {r} /\ UNCHANGED <<control, left>>
    BY <1>3 DEF RoleHangs, killing
  <2>2. hangs = 0 BY <1>t, <2>1 DEF SingleFault
  <2>3. hung = {} BY <1>f, <2>2
  <2>4. hangs' # hangs BY <1>t, <2>1
  <2>5. ~Tick BY <2>4 DEF Tick, events
  <2> QED BY <2>1, <2>2, <2>3, <2>5 DEF KillTime
<1>4. CASE Tick
  <2>1. UNCHANGED <<hung, control, hangs>> BY <1>4 DEF Tick, events
  <2>2. CASE control \in hung
    <3>1. left' = left - 1 BY <1>t, <1>4, <2>2 DEF Tick
    <3> QED BY <1>t, <2>1, <2>2, <3>1 DEF KillTime
  <2>3. CASE control \notin hung
    BY <1>t, <2>1, <2>3 DEF KillTime
  <2> QED BY <2>2, <2>3
<1>5. CASE ~Tick /\ UNCHANGED <<hung, control, left, hangs>>
  BY <1>t, <1>5 DEF KillTime
<1>6. KillTime \in Nat BY KillFacts DEF RecInv
<1> QED BY <1>1, <1>2, <1>3, <1>4, <1>5, <1>6
        DEF Next, OBCStep, Beat, WatchBegin, WatchCheck, WatchPing, MonitorReceive,
            MonitorOrder, SweepEntry, CheckFrozen, RestartFdir, FdirHangs, BoardResets,
            vars, killing, events

\* A request reaches the supervisor from FDIR's watchdog only.
LEMMA PendingStep ==
  ASSUME TInv, [Next]_vars, NEW r \in Roles, Pending(r)'
  PROVE  Pending(r) \/ (~fdirHung /\ WatchCheck /\ MustAsk /\ wi = r)
<1> USE RoleFacts, MessageFacts DEF Pending
<1>t. supInbox \in Seq(Messages) BY DEF TInv
<1>p. \A x : In(x, supInbox)' <=> In(x, supInbox') BY DEF In
<1>1. ASSUME NEW s \in Roles, Beat(s) PROVE Pending(r)
  <2>1. UNCHANGED control /\ (UNCHANGED supInbox \/ supInbox' = Append(supInbox, Ping(s)))
    BY <1>1 DEF Beat, killing
  <2>2. CASE UNCHANGED supInbox BY <1>p, <2>1, <2>2
  <2>3. CASE supInbox' = Append(supInbox, Ping(s))
    <3>1. In(Restart(r), supInbox') <=> In(Restart(r), supInbox) \/ Restart(r) = Ping(s)
      BY <1>t, <2>3, InAppend
    <3> QED BY <1>p, <2>1, <3>1
  <2> QED BY <2>1, <2>2, <2>3
<1>2. CASE WatchCheck
  <2>1. UNCHANGED control /\ ~fdirHung /\ wi \in Roles
    BY <1>2 DEF WatchCheck, CanCheck, killing
  <2>2. CASE UNCHANGED supInbox BY <1>p, <2>1, <2>2
  <2>3. CASE MustAsk /\ supInbox' = Append(supInbox, Restart(wi))
    <3>1. In(Restart(r), supInbox')
          <=> In(Restart(r), supInbox) \/ Restart(r) = Restart(wi)
      BY <1>t, <2>1, <2>3, InAppend
    <3> QED BY <1>2, <1>p, <2>1, <2>3, <3>1
  <2> QED BY <1>2, <2>2, <2>3 DEF WatchCheck
<1>3. CASE WatchPing
  <2>1. UNCHANGED control /\ supInbox' = Append(supInbox, Ping(Fdir))
    BY <1>3 DEF WatchPing, killing
  <2>2. In(Restart(r), supInbox') <=> In(Restart(r), supInbox) \/ Restart(r) = Ping(Fdir)
    BY <1>t, <2>1, InAppend
  <2> QED BY <1>p, <2>1, <2>2
<1>4. CASE ControlReceive
  <2> DEFINE m == Head(supInbox)
  <2>1. supInbox # <<>> /\ supInbox' = Tail(supInbox)
        /\ (UNCHANGED control \/ (m.restart # Nobody /\ control' = m.restart))
    BY <1>4 DEF ControlReceive, CanServe, killing
  <2>2. m \in Messages /\ \A x : In(x, supInbox) <=> x = m \/ In(x, supInbox')
    BY <1>t, <2>1, InTail
  <2>3. In(Restart(r), supInbox') => In(Restart(r), supInbox) BY <2>2
  <2>4. ASSUME m.restart = r, control' = r PROVE Pending(r)
    <3>1. m = Restart(r) BY <2>2, <2>4
    <3> QED BY <2>2, <3>1
  <2> QED BY <1>p, <2>1, <2>3, <2>4
<1>5. CASE Revive
  <2>1. control' = Nobody /\ UNCHANGED supInbox BY <1>5 DEF Revive
  <2> QED BY <1>p, <2>1
<1>6. CASE UNCHANGED <<control, supInbox>> BY <1>p, <1>6
<1> QED
  BY <1>1, <1>2, <1>3, <1>4, <1>5, <1>6
     DEF Next, OBCStep, WatchBegin, MonitorReceive, MonitorOrder, SweepEntry, CheckFrozen,
         RestartFdir, RoleHangs, FdirHangs, BoardResets, Tick, vars, killing

\* One hang in all.
LEMMA FaultStep ==
  ASSUME SingleFault, RecInv, [Next]_vars
  PROVE  FaultInv'
<1> USE ConstantFacts, RoleFacts
<1>t. hangs \in Nat /\ hung \subseteq Roles BY DEF RecInv, TInv, TypeOK
<1>f. FaultInv BY DEF RecInv
<1>1. ASSUME NEW r \in Roles, RoleHangs(r)
      PROVE  hangs = 0 /\ hangs' = 1 /\ hung' = {r}
  <2>1. hangs < MaxHangs /\ hangs' = hangs + 1 /\ hung' = hung \cup {r}
    BY <1>1 DEF RoleHangs
  <2>2. hangs = 0 BY <1>t, <2>1 DEF SingleFault
  <2>3. hung = {} BY <1>f, <2>2 DEF FaultInv
  <2> QED BY <2>1, <2>2, <2>3
<1>2. \/ \E r \in Roles : RoleHangs(r)
      \/ UNCHANGED hangs /\ hung' \subseteq hung
  BY DEF Next, OBCStep, Beat, WatchBegin, WatchCheck, WatchPing, MonitorReceive,
         MonitorOrder, ControlReceive, Revive, SweepEntry, CheckFrozen, RestartFdir,
         FdirHangs, BoardResets, Tick, vars, events
<1>3. Fdir \in dead' => fdirHung' /\ si' # R + 2
  <2>t. si \in 0..(R + 2) /\ control \in Roles \cup {Nobody} BY DEF RecInv, TInv, TypeOK
  <2>1. CASE Revive
    <3>1. control # Fdir /\ UNCHANGED <<fdirHung, si>>
      BY <2>1 DEF Revive, CanRevive, sweep
    <3>2. Fdir \in dead' => Fdir \in dead BY <2>1, <3>1 DEF Revive
    <3> QED BY <1>f, <3>1, <3>2 DEF FaultInv
  <2>2. CASE SweepEntry
    <3>1. UNCHANGED <<dead, fdirHung>> /\ si <= R /\ si' = si + 1 BY <2>2 DEF SweepEntry
    <3> QED BY <1>f, <2>t, <3>1 DEF FaultInv
  <2>3. CASE CheckFrozen
    <3>1. UNCHANGED <<dead, fdirHung>> /\ (si' = 0 \/ Fdir \notin dead)
      BY <2>3 DEF CheckFrozen
    <3> QED BY <1>f, <3>1 DEF FaultInv
  <2>4. CASE RestartFdir
    <3>1. si = R + 2 /\ si' = 0 /\ (UNCHANGED dead \/ fdirHung') BY <2>4 DEF RestartFdir
    <3> QED BY <1>f, <3>1 DEF FaultInv
  <2>5. CASE FdirHangs BY <1>f, <2>5 DEF FdirHangs, FaultInv, sweep
  <2>6. CASE UNCHANGED <<dead, fdirHung, si>> BY <1>f, <2>6 DEF FaultInv
  <2> QED BY <2>1, <2>2, <2>3, <2>4, <2>5, <2>6
          DEF Next, OBCStep, Beat, WatchBegin, WatchCheck, WatchPing, MonitorReceive,
              MonitorOrder, ControlReceive, RoleHangs, BoardResets, Tick, vars, sweep
<1> QED BY <1>1, <1>2, <1>3, <1>f DEF FaultInv

\* The supervisor's stamp of FDIR keeps within the budget, so a running FDIR is never
\* taken for a frozen one.
LEMMA FdirStep ==
  ASSUME SingleFault, Margins, RecInv, [Next]_vars
  PROVE  FreshFdir'
<1> USE ConstantFacts, RoleFacts, MessageFacts
<1> DEFINE K == KillTime
           L == KillTime'
<1>t. /\ wi \in 0..(R + 1) /\ late \in 0..MaxAge /\ wowed \in 0..MaxAge
      /\ (wi # 0 => wowed > 0) /\ fdirAge \in 0..MaxAge /\ fdirHung \in BOOLEAN
      /\ supInbox \in Seq(Messages) /\ control \in Roles \cup {Nobody}
      /\ falseFdir \in BOOLEAN
  BY DEF RecInv, TInv, TypeOK
<1>k. K \in 0..Grace /\ L \in 0..Grace /\ K <= L
  BY KillFacts, KillFactsNext, KillStep, TStep DEF RecInv
<1>f. FreshFdir BY DEF RecInv
<1>p. \A x : In(x, supInbox)' <=> In(x, supInbox') BY DEF In
<1> HIDE DEF K, L
<1>g. ~falseFdir /\ (~fdirHung => /\ fdirAge = 0 \/ wowed > 0 \/ In(Ping(Fdir), supInbox)
                                  /\ fdirAge <= 1 + K
                                  /\ wi # 0 => late <= K)
  BY <1>f DEF FreshFdir, K
<1>h. SUFFICES /\ ~falseFdir'
               /\ ~fdirHung' =>
                    /\ fdirAge' = 0 \/ wowed' > 0 \/ In(Ping(Fdir), supInbox')
                    /\ fdirAge' <= 1 + L
                    /\ wi' # 0 => late' <= L
  BY <1>h, <1>p DEF FreshFdir, L
<1>1. ASSUME NEW r \in Roles, Beat(r)
      PROVE  /\ UNCHANGED <<falseFdir, fdirHung, fdirAge, wowed, wi, late>>
             /\ In(Ping(Fdir), supInbox) => In(Ping(Fdir), supInbox')
  <2>1. UNCHANGED <<falseFdir, fdirHung, fdirAge, wowed, wi, late>>
        /\ (UNCHANGED supInbox \/ supInbox' = Append(supInbox, Ping(r)))
    BY <1>1 DEF Beat, watchdog, ghosts
  <2>2. CASE UNCHANGED supInbox BY <2>1, <2>2
  <2>3. CASE supInbox' = Append(supInbox, Ping(r))
    <3>1. Ping(r) \in Messages OBVIOUS
    <3>2. In(Ping(Fdir), supInbox) => In(Ping(Fdir), supInbox') BY <1>t, <2>3, <3>1, InAppend
    <3> QED BY <2>1, <3>2
  <2> QED BY <2>1, <2>2, <2>3
<1>2. CASE \/ \E r \in Roles : Beat(r)
           \/ /\ UNCHANGED <<falseFdir, fdirHung, fdirAge, wowed, wi, late, supInbox>>
  <2>1. /\ UNCHANGED <<falseFdir, fdirHung, fdirAge, wowed, wi, late>>
        /\ In(Ping(Fdir), supInbox) => In(Ping(Fdir), supInbox')
    BY <1>1, <1>2
  <2> QED BY <1>g, <1>k, <1>t, <2>1
<1>3. CASE WatchBegin
  <2>1. wi' = 1 /\ late' = 0 /\ UNCHANGED <<falseFdir, fdirHung, fdirAge, wowed, supInbox>>
    BY <1>3 DEF WatchBegin, ghosts
  <2> QED BY <1>g, <1>k, <1>t, <2>1
<1>4. CASE WatchCheck
  <2>1. /\ wi \in Roles /\ ~fdirHung
        /\ UNCHANGED <<falseFdir, fdirHung, fdirAge, wowed, late>>
        /\ UNCHANGED supInbox \/ supInbox' = Append(supInbox, Restart(wi))
    BY <1>4 DEF WatchCheck, CanCheck, ghosts
  <2> QED BY <1>g, <1>k, <1>t, <2>1
<1>5. CASE WatchPing
  <2>1. /\ UNCHANGED <<falseFdir, fdirHung, fdirAge, late>> /\ wi' = 0
        /\ supInbox' = Append(supInbox, Ping(Fdir)) /\ ~fdirHung
    BY <1>5 DEF WatchPing, CanPing, ghosts
  <2>2. In(Ping(Fdir), supInbox') BY <1>t, <2>1, InAppend
  <2> QED BY <1>g, <1>k, <1>t, <2>1, <2>2
<1>6. CASE ControlReceive
  <2> DEFINE m == Head(supInbox)
  <2>1. /\ UNCHANGED <<falseFdir, fdirHung, wowed, wi, late>>
        /\ supInbox # <<>> /\ supInbox' = Tail(supInbox)
        /\ \/ m.restart = Nobody /\ fdirAge' = IF m.src = Fdir THEN 0 ELSE fdirAge
           \/ m.restart # Nobody /\ UNCHANGED fdirAge
    BY <1>6 DEF ControlReceive, CanServe, watchdog, ghosts
  <2>2. In(Ping(Fdir), supInbox) <=> Ping(Fdir) = m \/ In(Ping(Fdir), supInbox')
    BY <1>t, <2>1, InTail
  <2>3. Ping(Fdir) = m => fdirAge' = 0 BY <2>1 DEF Ping
  <2>4. fdirAge' = 0 \/ fdirAge' = fdirAge BY <2>1
  <2> HIDE DEF m
  <2> QED BY <1>g, <1>k, <1>t, <2>1, <2>2, <2>3, <2>4
<1>7. CASE CheckFrozen
  <2>1. UNCHANGED <<fdirHung, fdirAge, wowed, wi, late, supInbox>>
        /\ \/ UNCHANGED falseFdir
           \/ FdirIsFrozen /\ falseFdir' = (falseFdir \/ ~fdirHung)
    BY <1>7 DEF CheckFrozen, watchdog
  <2>2. FdirIsFrozen => fdirHung
    BY <1>g, <1>k, <1>t DEF FdirIsFrozen, Margins
  <2>3. ~falseFdir' BY <1>g, <2>1, <2>2
  <2> QED BY <1>g, <1>k, <1>t, <2>1, <2>3
<1>8. CASE RestartFdir
  <2>1. (fdirAge' = 0 \/ fdirHung') /\ wi' = 0 /\ UNCHANGED falseFdir
    BY <1>8 DEF RestartFdir
  <2> QED BY <1>g, <1>k, <2>1
<1>9. CASE FdirHangs
  <2>1. fdirHung' /\ UNCHANGED falseFdir BY <1>9 DEF FdirHangs, ghosts
  <2> QED BY <1>g, <2>1
<1>10. CASE Tick
  <2>1. UNCHANGED <<falseFdir, fdirHung, wi, supInbox>> /\ fdirAge' = Older(fdirAge)
        /\ late' = (IF wi = 0 THEN 0 ELSE Older(late))
        /\ wowed' = (IF fdirHung THEN wowed ELSE Older(wowed))
    BY <1>10 DEF Tick
  <2>2. fdirAge' <= fdirAge + 1 /\ (wi # 0 => late' <= late + 1) /\ (~fdirHung => wowed' > 0)
        /\ fdirAge' \in 0..MaxAge /\ late' \in 0..MaxAge
    <3>1. fdirAge' <= fdirAge + 1 /\ fdirAge' \in 0..MaxAge BY <1>t, <2>1, OlderFacts
    <3>2. wi # 0 => late' <= late + 1 /\ late' \in 0..MaxAge BY <1>t, <2>1, OlderFacts
    <3>3. ~fdirHung => wowed' > 0 BY <1>t, <2>1, OlderFacts
    <3>4. wi = 0 => late' \in 0..MaxAge BY <2>1
    <3> QED BY <3>1, <3>2, <3>3, <3>4
  <2>3. CASE control \in hung
    <3>1. L = K + 1 BY <1>10, <2>3, KillStep DEF K, L
    <3> QED BY <1>g, <1>k, <1>t, <2>1, <2>2, <3>1
  <2>4. CASE ~fdirHung /\ control \notin hung
    <3>1. supInbox = <<>> /\ wi = 0 /\ wowed = 0 BY <1>10, <2>4, TickFacts DEF RecInv
    <3>2. fdirAge = 0 BY <1>g, <1>t, <2>4, <3>1, InEmpty
    <3> QED BY <1>g, <1>k, <1>t, <2>1, <2>2, <3>1, <3>2
  <2> QED BY <1>g, <2>1, <2>3, <2>4
<1> QED
  BY <1>2, <1>3, <1>4, <1>5, <1>6, <1>7, <1>8, <1>9, <1>10
     DEF Next, OBCStep, MonitorReceive, MonitorOrder, Revive, SweepEntry, RoleHangs,
         BoardResets, vars, watchdog, ghosts

\* How the steps of one FDIR spend the budget of the sleep: only time does.
LEMMA SleepStep ==
  ASSUME TInv, ShutInv, [Next]_vars, ~fdirHung, ~RestartFdir
  PROVE  /\ SleepTime <= SleepTime'
         /\ Tick /\ pause > 0 => SleepTime' = SleepTime + 1
<1>t. pause \in 0..Pause /\ reset_counts \in Nat BY DEF TInv, TypeOK
<1> USE <1>t, ConstantFacts DEF ShutInv, SleepTime
<1>1. CASE MonitorReceive
  <2>0. ~Tick BY <1>1 DEF MonitorReceive, Tick, CanStep
  <2>1. /\ pause = 0
        /\ \/ UNCHANGED <<pause, reset_counts>>
           \/ /\ reset_counts' = reset_counts + 1
              /\ pause' = IF reset_counts + 1 = Threshold THEN Pause ELSE 0
    BY <1>1 DEF MonitorReceive, CanReceive
  <2>2. SleepTime <= SleepTime' BY <2>1
  <2> QED BY <2>0, <2>2
<1>2. CASE Tick
  <2>1. /\ UNCHANGED reset_counts
        /\ pause' = IF pause > 0 /\ ~fdirHung THEN pause - 1 ELSE pause
    BY <1>2 DEF Tick
  <2> QED BY <2>1
<1>3. CASE ~Tick /\ UNCHANGED <<pause, reset_counts>> BY <1>3
<1> QED BY <1>1, <1>2, <1>3
        DEF Next, OBCStep, Beat, WatchBegin, WatchCheck, WatchPing, MonitorOrder,
            ControlReceive, Revive, SweepEntry, CheckFrozen, RoleHangs, FdirHangs,
            BoardResets, vars, monitor

\* Only a new FDIR runs again.
LEMMA SameFdir ==
  ASSUME [Next]_vars, ~RestartFdir, ~fdirHung'
  PROVE  ~fdirHung
BY DEF Next, OBCStep, Beat, WatchBegin, WatchCheck, WatchPing, MonitorReceive, MonitorOrder,
       ControlReceive, Revive, SweepEntry, CheckFrozen, RoleHangs, FdirHangs, BoardResets,
       Tick, vars

\* A role is hung by RoleHangs and runs again by Revive.
LEMMA HungStep ==
  ASSUME [Next]_vars, NEW r \in Roles
  PROVE  /\ r \in hung /\ r \notin hung' => Revive /\ control = r
         /\ r \notin hung /\ r \in hung' => RoleHangs(r)
<1>1. ASSUME NEW s \in Roles, RoleHangs(s)
      PROVE  /\ r \in hung => r \in hung'
             /\ r \notin hung /\ r \in hung' => RoleHangs(r)
  BY <1>1 DEF RoleHangs
<1>2. CASE Revive BY <1>2 DEF Revive
<1>3. CASE UNCHANGED hung BY <1>3
<1> QED BY <1>1, <1>2, <1>3
        DEF Next, OBCStep, Beat, WatchBegin, WatchCheck, WatchPing, MonitorReceive,
            MonitorOrder, ControlReceive, SweepEntry, CheckFrozen, RestartFdir, FdirHangs,
            BoardResets, Tick, vars

\* A role stops by RoleHangs or in a restart, and runs again by Revive.
LEMMA RunStep ==
  ASSUME TInv, [Next]_vars, NEW r \in Roles
  PROVE  /\ ~Running(r) /\ Running(r)' => Revive /\ control = r
         /\ Running(r) /\ ~Running(r)' => RoleHangs(r) \/ (Revive /\ control = r)
<1>p. Running(r)' <=> r \notin hung' /\ r \notin dead' BY DEF Running
<1>q. Running(r) <=> r \notin hung /\ r \notin dead BY DEF Running
<1>1. ASSUME NEW s \in Roles, RoleHangs(s)
      PROVE  /\ ~Running(r) => ~Running(r)'
             /\ Running(r) /\ ~Running(r)' => RoleHangs(r)
  BY <1>1, <1>p, <1>q DEF RoleHangs
<1>2. CASE Revive
  <2>1. control # r => (r \in hung' <=> r \in hung) /\ (r \in dead' <=> r \in dead)
    BY <1>2 DEF Revive
  <2> QED BY <1>2, <1>p, <1>q, <2>1
<1>3. CASE RestartFdir
  <2>1. UNCHANGED hung /\ (r \in dead' <=> r \in dead) BY <1>3, RoleFacts DEF RestartFdir
  <2> QED BY <1>p, <1>q, <2>1
<1>4. CASE UNCHANGED <<hung, dead>> BY <1>p, <1>q, <1>4
<1> QED BY <1>1, <1>2, <1>3, <1>4
        DEF Next, OBCStep, Beat, WatchBegin, WatchCheck, WatchPing, MonitorReceive,
            MonitorOrder, ControlReceive, SweepEntry, CheckFrozen, FdirHangs, BoardResets,
            Tick, vars

\* While no second passes a heartbeat under way stays so until it is stamped.
LEMMA DueStep ==
  ASSUME TInv, [Next]_vars, ~Tick, ~RestartFdir, Fdir \notin dead, NEW r \in Roles
  PROVE  /\ last_heartbeat'[r] = 0 \/ last_heartbeat'[r] = last_heartbeat[r]
         /\ Due(r) => Due(r)' \/ last_heartbeat'[r] = 0
         /\ owed[r] >= 2 => Due(r)' \/ owed'[r] >= 2
         /\ Revive /\ control = r => Due(r)'
<1> USE ConstantFacts, RoleFacts
<1>t. /\ fdirInbox \in Seq(Roles \cup {Notice}) /\ owed \in [Roles -> 0..MaxAge]
      /\ hpc \in [Roles -> {"fdir", "supervisor"}] /\ last_heartbeat \in [Roles -> 0..MaxAge]
      /\ control \in Roles \cup {Nobody}
  BY DEF TInv, TypeOK
<1>p. Due(r)' <=> In(r, fdirInbox') \/ (owed'[r] >= 1 /\ hpc'[r] = "fdir")
  BY DEF Due, In
<1>1. ASSUME NEW s \in Roles, Beat(s)
      PROVE  /\ UNCHANGED last_heartbeat /\ (Due(r) => Due(r)')
             /\ owed[r] >= 2 => Due(r)' \/ owed'[r] >= 2
             /\ ~Revive
  <2>0. UNCHANGED last_heartbeat /\ owed[s] > 0 /\ control' = control
    BY <1>1 DEF Beat, CanBeat, monitor, killing
  <2>1. ~Revive BY <2>0, RoleFacts DEF Revive, CanRevive
  <2>2. CASE /\ hpc[s] = "fdir" /\ fdirInbox' = Append(fdirInbox, s)
             /\ hpc' = [hpc EXCEPT ![s] = "supervisor"] /\ UNCHANGED owed
    <3>1. \A x : In(x, fdirInbox') <=> In(x, fdirInbox) \/ x = s
      BY <1>t, <2>2, InAppend
    <3>2. r # s => hpc'[r] = hpc[r] BY <1>t, <2>2
    <3>3. CASE r = s
      <4>1. In(r, fdirInbox') BY ONLY <3>1, <3>3
      <4>2. Due(r)' BY <1>p, <4>1
      <4> QED BY <2>0, <2>1, <4>2
    <3>4. CASE r # s
      <4>1. Due(r) => Due(r)' BY <1>p, <2>2, <3>1, <3>2, <3>4 DEF Due
      <4> QED BY <2>0, <2>1, <2>2, <4>1
    <3> QED BY <3>3, <3>4
  <2>3. CASE /\ hpc[s] = "supervisor" /\ UNCHANGED fdirInbox
             /\ hpc' = [hpc EXCEPT ![s] = "fdir"] /\ owed' = [owed EXCEPT ![s] = @ - 1]
    <3>1. r # s => hpc'[r] = hpc[r] /\ owed'[r] = owed[r] BY <1>t, <2>3
    <3>2. r = s => hpc'[r] = "fdir" /\ owed'[r] = owed[r] - 1 /\ hpc[r] # "fdir"
      BY <1>t, <2>3
    <3>3. owed[r] \in Nat BY <1>t
    <3> QED BY <1>p, <2>0, <2>1, <2>3, <3>1, <3>2, <3>3 DEF Due
  <2> QED BY <1>1, <2>2, <2>3 DEF Beat
<1>2. CASE MonitorReceive
  <2>1. /\ fdirInbox # <<>> /\ fdirInbox' = Tail(fdirInbox)
        /\ UNCHANGED <<hpc, owed, control>>
        /\ \/ /\ Head(fdirInbox) # Notice
              /\ last_heartbeat' = [last_heartbeat EXCEPT ![Head(fdirInbox)] = 0]
           \/ Head(fdirInbox) = Notice /\ UNCHANGED last_heartbeat
    BY <1>2 DEF MonitorReceive, CanReceive, beats, killing
  <2>2. In(r, fdirInbox) <=> r = Head(fdirInbox) \/ In(r, fdirInbox')
    BY <1>t, <2>1, InTail
  <2>3. /\ r = Head(fdirInbox) => last_heartbeat'[r] = 0
        /\ r # Head(fdirInbox) => last_heartbeat'[r] = last_heartbeat[r]
    BY <1>t, <2>1
  <2>4. ~Revive BY <2>1 DEF Revive, CanRevive
  <2> QED BY <1>p, <2>1, <2>2, <2>3, <2>4 DEF Due
<1>3. CASE Revive
  <2>1. /\ control \in Roles /\ UNCHANGED <<last_heartbeat, fdirInbox>>
        /\ hpc' = [hpc EXCEPT ![control] = "fdir"] /\ owed' = [owed EXCEPT ![control] = 1]
    BY <1>3 DEF Revive, CanRevive, monitor
  <2>2. r = control => hpc'[r] = "fdir" /\ owed'[r] = 1 BY <1>t, <2>1
  <2>3. r # control => hpc'[r] = hpc[r] /\ owed'[r] = owed[r] BY <1>t, <2>1
  <2> QED BY <1>p, <2>1, <2>2, <2>3 DEF Due
<1>4. CASE BoardResets
  <2>1. /\ fdirInbox' = Append(fdirInbox, Notice)
        /\ UNCHANGED <<last_heartbeat, hpc, owed, control>>
    BY <1>4 DEF BoardResets, beats, monitor, killing
  <2>2. In(r, fdirInbox) => In(r, fdirInbox')
    <3>1. Notice \in Roles \cup {Notice} OBVIOUS
    <3>2. \A x : In(x, Append(fdirInbox, Notice)) <=> In(x, fdirInbox) \/ x = Notice
      BY <1>t, <3>1, InAppend
    <3> QED BY <2>1, <3>2
  <2>3. ~Revive BY <2>1 DEF Revive, CanRevive
  <2> QED BY <1>p, <2>1, <2>2, <2>3 DEF Due
<1>5. CASE ~Revive /\ UNCHANGED <<last_heartbeat, fdirInbox, hpc, owed>>
  BY <1>p, <1>5 DEF Due
<1>6. CASE \E s \in Roles : Beat(s)
  <2>1. PICK s \in Roles : Beat(s) BY <1>6
  <2> QED BY <1>1, <2>1
<1> QED BY <1>2, <1>3, <1>4, <1>5, <1>6
        DEF Next, OBCStep, WatchBegin, WatchCheck, WatchPing, MonitorOrder, ControlReceive,
            SweepEntry, CheckFrozen, RoleHangs, FdirHangs, vars, beats, monitor

\* A reported role stays reported while its stamp does not change.
LEMMA ReportedStep ==
  ASSUME TInv, [Next]_vars, ~Tick, ~RestartFdir, NEW r \in Roles, Reported(r),
         last_heartbeat'[r] = last_heartbeat[r]
  PROVE  Reported(r)'
<1> USE ConstantFacts
<1>t. /\ fault_latched \in [Roles -> BOOLEAN] /\ late \in 0..MaxAge
      /\ last_heartbeat[r] \in 0..MaxAge
  BY DEF TInv, TypeOK
<1>r. fault_latched[r] /\ last_heartbeat[r] - late > RoleTimeout
  BY DEF Reported, RoleIsStale
<1>p. Reported(r)' <=> fault_latched'[r] /\ last_heartbeat'[r] - late' > RoleTimeout
  BY DEF Reported, RoleIsStale
<1>1. CASE WatchCheck
  <2>1. UNCHANGED late BY <1>1 DEF WatchCheck
  <2>2. fault_latched'[r]
    <3>1. CASE fault_latched' = [fault_latched EXCEPT ![wi] = TRUE]
      BY <1>r, <1>t, <3>1, Zenon
    <3>2. CASE UNCHANGED fault_latched BY <1>r, <3>2
    <3>3. CASE fault_latched' = [fault_latched EXCEPT ![wi] = @ /\ RoleIsStale(wi)]
      <4>1. RoleIsStale(r) BY DEF Reported
      <4>2. r = wi => fault_latched'[r] = (fault_latched[r] /\ RoleIsStale(r))
        BY <1>t, <3>3, Zenon
      <4>3. r # wi => fault_latched'[r] = fault_latched[r] BY <1>t, <3>3, Zenon
      <4> QED BY <1>r, <4>1, <4>2, <4>3
    <3> QED BY <1>1, <3>1, <3>2, <3>3 DEF WatchCheck
  <2> QED BY <1>r, <1>p, <2>1, <2>2
<1>2. CASE UNCHANGED fault_latched /\ (UNCHANGED late \/ late' = 0)
  BY <1>r, <1>p, <1>t, <1>2
<1> QED BY <1>1, <1>2
        DEF Next, OBCStep, Beat, WatchBegin, WatchPing, MonitorReceive, MonitorOrder,
            ControlReceive, Revive, SweepEntry, CheckFrozen, RoleHangs, FdirHangs,
            BoardResets, vars, watchdog

\* A healthy role's next heartbeat is under way.
LEMMA HeardStep ==
  ASSUME Margins, RecInv, [Next]_vars, ~fdirHung', NEW r \in Roles, Running(r)'
  PROVE  Heard(r)'
<1> USE ConstantFacts
<1>t. /\ owed \in [Roles -> 0..MaxAge] /\ hpc \in [Roles -> {"fdir", "supervisor"}]
      /\ (owed[r] = 0 => hpc[r] = "fdir")
  BY DEF RecInv, TInv, TypeOK
<1>p. Heard(r)' <=> last_heartbeat'[r] = 0 \/ Due(r)' \/ owed'[r] >= 2
  BY DEF Heard
<1>1. CASE RestartFdir
  <2>1. last_heartbeat'[r] = 0 BY <1>1 DEF RestartFdir
  <2> QED BY <1>p, <2>1
<1>2. CASE Tick
  <2>1. UNCHANGED hpc /\ owed'[r] = Older(owed[r])
    <3>1. Running(r) BY <1>2 DEF Tick, Running
    <3> QED BY <1>2, <1>t, <3>1 DEF Tick
  <2>2. owed[r] \in 0..MaxAge BY <1>t
  <2>3. CASE owed[r] = 0
    <3>1. owed'[r] >= 1 /\ hpc'[r] = "fdir" BY <1>t, <2>1, <2>3, <2>2, OlderFacts
    <3> QED BY <1>p, <3>1 DEF Due
  <2>4. CASE owed[r] >= 1
    <3>1. MaxAge >= 2 BY DEF Margins
    <3>2. owed'[r] >= 2 BY <2>1, <2>2, <2>4, <3>1 DEF Older
    <3> QED BY <1>p, <3>2
  <2> QED BY <2>2, <2>3, <2>4
<1>3. CASE ~Tick /\ ~RestartFdir
  <2>1. ~fdirHung BY <1>3, SameFdir
  <2>2. /\ last_heartbeat'[r] = 0 \/ last_heartbeat'[r] = last_heartbeat[r]
        /\ Due(r) => Due(r)' \/ last_heartbeat'[r] = 0
        /\ owed[r] >= 2 => Due(r)' \/ owed'[r] >= 2
        /\ Revive /\ control = r => Due(r)'
    BY <1>3, <2>1, DueStep DEF RecInv, FaultInv
  <2>3. CASE ~Running(r) BY <1>p, <2>2, <2>3, RunStep DEF RecInv
  <2>4. CASE Running(r)
    <3>1. Heard(r) BY <2>1, <2>4 DEF RecInv, FreshRoles
    <3> QED BY <1>p, <2>2, <3>1 DEF Heard
  <2> QED BY <2>3, <2>4
<1> QED BY <1>1, <1>2, <1>3

\* The budget of a stamp after a step.
LEMMA AllowedNext ==
  ASSUME TInv', NEW r \in Roles
  PROVE  /\ Allowed(r)' \in Nat
         /\ Allowed(r)' >= SleepTime' + KillTime'
         /\ Due(r)' /\ Running(r)' => /\ Allowed(r)' = SleepTime' + AtLeastOne(KillTime')
                                      /\ Allowed(r)' >= 1
<1>1. KillTime' \in Nat /\ SleepTime' \in Nat
  BY KillFactsNext, SleepFactsNext, ConstantFacts
<1>2. Allowed(r)' = SleepTime' + (IF Running(r)' /\ Due(r)' THEN AtLeastOne(KillTime')
                                  ELSE KillTime')
  BY DEF Allowed, AtLeastOne
<1>3. \A k, s \in Nat : /\ s + k \in Nat /\ s + AtLeastOne(k) \in Nat
                       /\ s + AtLeastOne(k) >= s + k /\ s + AtLeastOne(k) >= 1
                       /\ s + k >= s + k
  BY DEF AtLeastOne
<1>4. CASE Due(r)' /\ Running(r)'
  <2>1. Allowed(r)' = SleepTime' + AtLeastOne(KillTime') BY <1>2, <1>4
  <2> QED BY <1>1, <1>3, <1>4, <2>1
<1>5. CASE ~(Due(r)' /\ Running(r)')
  <2>1. Allowed(r)' = SleepTime' + KillTime' BY <1>2, <1>5
  <2> QED BY <1>1, <1>3, <1>5, <2>1
<1> QED BY <1>4, <1>5

\* What a step that takes no time leaves of a claim.
LEMMA ClaimedStill ==
  ASSUME SingleFault, Margins, RecInv, [Next]_vars, ~Tick, ~RestartFdir, ~fdirHung',
         NEW r \in Roles
  PROVE  Claimed(r)'
<1> USE ConstantFacts
<1>0. ~fdirHung /\ Fdir \notin dead
  <2>1. ~fdirHung BY SameFdir
  <2> QED BY <2>1 DEF RecInv, FaultInv
<1>t. last_heartbeat[r] \in Nat BY DEF RecInv, TInv, TypeOK
<1>n. TInv' BY TStep DEF RecInv
<1> SUFFICES ASSUME Pending(r)'
             PROVE  last_heartbeat'[r] <= SleepTime' + KillTime' \/ Reported(r)'
  BY DEF Claimed
<1>k. KillTime \in Nat /\ KillTime' \in Nat /\ KillTime <= KillTime'
  BY <1>n, KillFacts, KillFactsNext, KillStep DEF RecInv
<1>s. SleepTime \in Nat /\ SleepTime' \in Nat /\ SleepTime <= SleepTime'
  BY <1>0, <1>n, SleepFacts, SleepFactsNext, SleepStep DEF RecInv
<1>d. last_heartbeat'[r] = 0 \/ last_heartbeat'[r] = last_heartbeat[r]
  BY <1>0, DueStep DEF RecInv
<1>1. CASE last_heartbeat'[r] = 0
  <2>1. \A k, l \in Nat : 0 <= k + l OBVIOUS
  <2>2. 0 <= SleepTime' + KillTime' BY <1>k, <1>s, <2>1
  <2> QED BY <1>1, <2>2
<1>2. CASE last_heartbeat'[r] = last_heartbeat[r] /\ Pending(r)
  <2>1. last_heartbeat[r] <= SleepTime + KillTime \/ Reported(r)
    BY <1>0, <1>2 DEF RecInv, FreshRoles, Claimed
  <2>2. Reported(r) => Reported(r)' BY <1>2, ReportedStep DEF RecInv
  <2>3. last_heartbeat[r] <= SleepTime + KillTime
        => last_heartbeat'[r] <= SleepTime' + KillTime'
    BY ONLY <1>2, <1>t, <1>k, <1>s
  <2> QED BY <2>1, <2>2, <2>3
<1>3. CASE last_heartbeat'[r] = last_heartbeat[r] /\ ~Pending(r)
  <2>1. WatchCheck /\ MustAsk /\ wi = r BY <1>3, PendingStep DEF RecInv
  <2>2. fault_latched'[r]
    <3>1. CASE supInbox' = supInbox
      <4>1. UNCHANGED control BY <2>1 DEF WatchCheck, killing
      <4> QED BY <1>3, <3>1, <4>1 DEF Pending, In
    <3>2. CASE fault_latched' = [fault_latched EXCEPT ![wi] = TRUE]
      <4>1. fault_latched \in [Roles -> BOOLEAN] BY DEF RecInv, TInv, TypeOK
      <4> QED BY <2>1, <3>2, <4>1, Zenon
    <3> QED BY <2>1, <3>1, <3>2 DEF WatchCheck
  <2>3. UNCHANGED late BY <2>1 DEF WatchCheck
  <2>4. RoleIsStale(r) BY <2>1 DEF MustAsk
  <2> QED BY <1>3, <2>2, <2>3, <2>4 DEF Reported, RoleIsStale
<1> QED BY <1>d, <1>1, <1>2, <1>3

\* Only time and a new FDIR end or begin a delay.
LEMMA DelayStep ==
  ASSUME [Next]_vars, ~Tick, ~RestartFdir
  PROVE  UNCHANGED delayed
BY DEF Next, OBCStep, Beat, WatchBegin, WatchCheck, WatchPing, MonitorReceive, MonitorOrder,
       ControlReceive, Revive, SweepEntry, CheckFrozen, RoleHangs, FdirHangs, BoardResets,
       vars, ghosts

\* A step that takes no time leaves every running role's stamp within its budget.
LEMMA AgeStill ==
  ASSUME SingleFault, Margins, RecInv, [Next]_vars, ~Tick, ~RestartFdir, ~fdirHung',
         NEW r \in Roles, Running(r)'
  PROVE  Aged(r)'
<1> USE ConstantFacts
<1>0. ~fdirHung /\ Fdir \notin dead
  <2>1. ~fdirHung BY SameFdir
  <2> QED BY <2>1 DEF RecInv, FaultInv
<1>t. last_heartbeat[r] \in Nat BY DEF RecInv, TInv, TypeOK
<1>n. TInv' BY TStep DEF RecInv
<1>p. Aged(r)' <=> \/ last_heartbeat'[r] <= Allowed(r)'
                   \/ Reported(r)'
                   \/ delayed' = "now"
  BY DEF Aged
<1>k. KillTime \in Nat /\ KillTime' \in Nat /\ KillTime <= KillTime'
  BY <1>n, KillFacts, KillFactsNext, KillStep DEF RecInv
<1>s. SleepTime \in Nat /\ SleepTime' \in Nat /\ SleepTime <= SleepTime'
  BY <1>0, <1>n, SleepFacts, SleepFactsNext, SleepStep DEF RecInv
<1>d. /\ last_heartbeat'[r] = 0 \/ last_heartbeat'[r] = last_heartbeat[r]
      /\ Due(r) => Due(r)' \/ last_heartbeat'[r] = 0
  BY <1>0, DueStep DEF RecInv
<1>b. /\ Allowed(r)' \in Nat
      /\ Allowed(r)' >= SleepTime' + KillTime'
      /\ Due(r)' => Allowed(r)' = SleepTime' + AtLeastOne(KillTime')
  BY <1>n, AllowedNext
<1>1. CASE last_heartbeat'[r] = 0 BY <1>b, <1>p, <1>1
<1>2. CASE last_heartbeat'[r] = last_heartbeat[r] /\ last_heartbeat'[r] # 0
  <2>1. Reported(r) => Reported(r)' BY <1>2, ReportedStep DEF RecInv
  <2>2. CASE last_heartbeat[r] <= SleepTime + KillTime
    <3>1. last_heartbeat'[r] <= Allowed(r)'
      BY ONLY <1>2, <1>t, <1>k, <1>s, <1>b, <2>2
    <3> QED BY <1>p, <3>1
  <2>3. CASE Running(r) /\ last_heartbeat[r] <= Allowed(r) /\ Due(r)
    <3>1. Due(r)' BY <1>2, <1>d, <2>3
    <3>2. Allowed(r) = SleepTime + AtLeastOne(KillTime) BY <2>3 DEF Allowed
    <3>3. AtLeastOne(KillTime) <= AtLeastOne(KillTime')
          /\ AtLeastOne(KillTime) \in Nat /\ AtLeastOne(KillTime') \in Nat
      BY ONLY <1>k DEF AtLeastOne
    <3>4. Allowed(r)' = SleepTime' + AtLeastOne(KillTime') BY <1>b, <3>1
    <3>5. last_heartbeat'[r] <= Allowed(r)'
      BY ONLY <1>2, <1>t, <1>s, <2>3, <3>2, <3>3, <3>4
    <3> QED BY <1>p, <3>5
  <2>4. CASE delayed = "now" BY <1>p, <2>4, DelayStep
  <2>5. CASE Reported(r) BY <1>p, <2>1, <2>5
  <2>6. CASE ~Running(r)
    <3>1. Pending(r)
      <4>1. control = r BY <2>6, RunStep DEF RecInv
      <4> QED BY <4>1 DEF Pending
    <3>2. last_heartbeat[r] <= SleepTime + KillTime \/ Reported(r)
      BY <1>0, <3>1 DEF RecInv, FreshRoles, Claimed
    <3> QED BY <2>2, <2>5, <3>2
  <2>7. CASE Running(r)
    <3>1. Aged(r) BY <1>0, <2>7 DEF RecInv, FreshRoles
    <3>2. Allowed(r) = SleepTime + KillTime \/ Due(r) BY DEF Allowed
    <3> QED BY <2>2, <2>3, <2>4, <2>5, <2>7, <3>1, <3>2 DEF Aged
  <2> QED BY <2>6, <2>7
<1> QED BY <1>d, <1>1, <1>2

\* What a second does to a stamp and to the two budgets.
LEMMA AgeFacts ==
  ASSUME SingleFault, Margins, RecInv, Tick, ~fdirHung, NEW r \in Roles
  PROVE  /\ last_heartbeat'[r] <= last_heartbeat[r] + 1 /\ last_heartbeat'[r] \in Nat
         /\ last_heartbeat[r] \in Nat
         /\ KillTime \in Nat /\ KillTime' \in Nat /\ KillTime <= KillTime'
         /\ control \in hung => KillTime' = KillTime + 1
         /\ SleepTime \in Nat /\ SleepTime' \in Nat /\ SleepTime <= SleepTime'
         /\ pause > 0 => SleepTime' = SleepTime + 1
<1> USE ConstantFacts
<1>0. [Next]_vars BY DEF Next, OBCStep
<1>n. TInv' BY <1>0, TStep DEF RecInv
<1>t. last_heartbeat \in [Roles -> 0..MaxAge] /\ last_heartbeat[r] \in 0..MaxAge
  BY DEF RecInv, TInv, TypeOK
<1>1. last_heartbeat'[r] = Older(last_heartbeat[r]) BY <1>t DEF Tick
<1>2. last_heartbeat'[r] <= last_heartbeat[r] + 1 /\ last_heartbeat'[r] \in 0..MaxAge
  BY <1>t, <1>1, OlderFacts
<1>3. /\ KillTime \in Nat /\ KillTime' \in Nat /\ KillTime <= KillTime'
      /\ control \in hung => KillTime' = KillTime + 1
  BY <1>0, <1>n, KillFacts, KillFactsNext, KillStep DEF RecInv
<1>4. /\ SleepTime \in Nat /\ SleepTime' \in Nat /\ SleepTime <= SleepTime'
      /\ pause > 0 => SleepTime' = SleepTime + 1
  <2>1. ~RestartFdir BY DEF RestartFdir, Tick, CanStep
  <2> QED BY <1>0, <1>n, <2>1, SleepFacts, SleepFactsNext, SleepStep DEF RecInv
<1> QED BY <1>t, <1>2, <1>3, <1>4

\* A second leaves a role reported.
LEMMA ReportedTick ==
  ASSUME SingleFault, Margins, RecInv, Tick, ~fdirHung, NEW r \in Roles, Reported(r)
  PROVE  Reported(r)'
<1> USE ConstantFacts
<1>0. [Next]_vars BY DEF Next, OBCStep
<1>n. TInv' BY <1>0, TStep DEF RecInv
<1>t. /\ last_heartbeat \in [Roles -> 0..MaxAge] /\ late \in 0..MaxAge
      /\ last_heartbeat[r] \in 0..MaxAge
  BY DEF RecInv, TInv, TypeOK
<1>u. UNCHANGED <<fault_latched, wi, fdirHung>> BY DEF Tick
<1>w. /\ last_heartbeat'[r] = Older(last_heartbeat[r])
      /\ late' = (IF wi = 0 THEN 0 ELSE Older(late))
  BY <1>t DEF Tick
<1>1. fault_latched[r] /\ last_heartbeat[r] - late > RoleTimeout
  BY DEF Reported, RoleIsStale
<1>2. late' <= late + 1 /\ late' \in Nat BY <1>t, <1>w, OlderFacts
<1>3. late' <= Grace
  <2>1. wi' # 0 => late' <= KillTime'
    <3>1. FreshFdir' BY <1>0, FdirStep
    <3> QED BY <1>u, <3>1 DEF FreshFdir
  <2>2. wi' = 0 => late' = 0 BY <1>u, <1>w
  <2>3. KillTime' \in 0..Grace BY <1>n, KillFactsNext
  <2> QED BY <1>2, <2>1, <2>2, <2>3
<1>4. last_heartbeat'[r] = last_heartbeat[r] + 1 \/ last_heartbeat'[r] = MaxAge
  BY <1>t, <1>w DEF Older
<1>5. last_heartbeat'[r] - late' > RoleTimeout
  BY <1>t, <1>1, <1>2, <1>3, <1>4 DEF Margins
<1> QED BY <1>u, <1>1, <1>5 DEF Reported, RoleIsStale

\* A role that is asked for is one that waits for the end of the kill.
LEMMA ClaimedTick ==
  ASSUME SingleFault, Margins, RecInv, Tick, ~fdirHung, NEW r \in Roles
  PROVE  Claimed(r)'
<1>a. /\ last_heartbeat'[r] <= last_heartbeat[r] + 1 /\ last_heartbeat'[r] \in Nat
      /\ last_heartbeat[r] \in Nat
      /\ KillTime \in Nat /\ KillTime' \in Nat
      /\ control \in hung => KillTime' = KillTime + 1
      /\ SleepTime \in Nat /\ SleepTime' \in Nat /\ SleepTime <= SleepTime'
  BY AgeFacts
<1>v. Pending(r)' <=> Pending(r)
  <2>1. UNCHANGED <<supInbox, control>> BY DEF Tick
  <2> QED BY <2>1 DEF Pending, In
<1> SUFFICES ASSUME Pending(r)
             PROVE  last_heartbeat'[r] <= SleepTime' + KillTime' \/ Reported(r)'
  BY <1>v DEF Claimed
<1>1. control \in hung
  <2>1. CASE control = Nobody /\ supInbox = <<>>
    <3>1. control # r BY <2>1, RoleFacts
    <3> QED BY <2>1, <3>1, InEmpty DEF Pending
  <2> QED BY <2>1, TickFacts DEF RecInv
<1>2. last_heartbeat[r] <= SleepTime + KillTime \/ Reported(r)
  BY DEF RecInv, FreshRoles, Claimed
<1>3. CASE Reported(r) BY <1>3, ReportedTick
<1>4. CASE last_heartbeat[r] <= SleepTime + KillTime
  <2>1. KillTime' = KillTime + 1 BY <1>a, <1>1
  <2>2. last_heartbeat'[r] <= SleepTime' + KillTime' BY ONLY <1>a, <1>4, <2>1
  <2> QED BY <2>2
<1> QED BY <1>2, <1>3, <1>4

\* A second that passes ages a stamp within what the kill or the sleep spends of it.
LEMMA AgeTick ==
  ASSUME SingleFault, Margins, RecInv, Tick, ~fdirHung, NEW r \in Roles, Running(r)
  PROVE  Aged(r)'
<1> USE ConstantFacts
<1>0. [Next]_vars BY DEF Next, OBCStep
<1>t. /\ owed \in [Roles -> 0..MaxAge] /\ hpc \in [Roles -> {"fdir", "supervisor"}]
      /\ (owed[r] = 0 => hpc[r] = "fdir") /\ pause \in 0..Pause /\ owed[r] \in 0..MaxAge
  BY DEF RecInv, TInv, TypeOK
<1>n. TInv' BY <1>0, TStep DEF RecInv
<1>u. UNCHANGED <<hung, dead, hpc, fdirInbox>> BY DEF Tick
<1>w. owed'[r] = Older(owed[r]) BY <1>t DEF Tick
<1>r. Running(r)' BY <1>u DEF Running
<1>p. Aged(r)' <=> \/ last_heartbeat'[r] <= Allowed(r)'
                   \/ Reported(r)'
                   \/ delayed' = "now"
  BY DEF Aged
<1>h. Heard(r) /\ Aged(r) /\ Passed(r) BY DEF RecInv, FreshRoles
<1>a. /\ last_heartbeat'[r] <= last_heartbeat[r] + 1 /\ last_heartbeat'[r] \in Nat
      /\ last_heartbeat[r] \in Nat
      /\ KillTime \in Nat /\ KillTime' \in Nat /\ KillTime <= KillTime'
      /\ control \in hung => KillTime' = KillTime + 1
      /\ SleepTime \in Nat /\ SleepTime' \in Nat /\ SleepTime <= SleepTime'
      /\ pause > 0 => SleepTime' = SleepTime + 1
  BY AgeFacts
<1>b. /\ Allowed(r)' \in Nat
      /\ Allowed(r)' >= SleepTime' + KillTime'
      /\ Due(r)' => /\ Allowed(r)' = SleepTime' + AtLeastOne(KillTime')
                    /\ Allowed(r)' >= 1
  BY <1>n, <1>r, AllowedNext
<1>1. CASE InSend
  <2>1. delayed' = "now" BY <1>1 DEF Tick
  <2> QED BY <1>p, <2>1
<1>2. CASE pause > 0
  <2>1. CASE delayed = "now"
    <3>1. ordering BY <1>2 DEF RecInv, ShutInv
    <3>2. delayed' = "now" BY <2>1, <3>1 DEF Tick
    <3> QED BY <1>p, <3>2
  <2>2. CASE Reported(r) BY <1>p, <2>2, ReportedTick
  <2>3. CASE last_heartbeat[r] <= Allowed(r) /\ Due(r)
    <3>1. Due(r)'
      <4>1. owed[r] >= 1 => owed'[r] >= 1 BY <1>t, <1>w, OlderFacts
      <4> QED BY <1>u, <2>3, <4>1 DEF Due, In
    <3>2. Allowed(r) = SleepTime + AtLeastOne(KillTime) BY <2>3 DEF Allowed
    <3>3. Allowed(r)' = SleepTime' + AtLeastOne(KillTime') BY <1>b, <3>1
    <3>4. AtLeastOne(KillTime) <= AtLeastOne(KillTime')
          /\ AtLeastOne(KillTime) \in Nat /\ AtLeastOne(KillTime') \in Nat
      BY ONLY <1>a DEF AtLeastOne
    <3>5. last_heartbeat'[r] <= Allowed(r)'
      BY ONLY <1>a, <1>2, <2>3, <3>2, <3>3, <3>4
    <3> QED BY <1>p, <3>5
  <2>4. CASE last_heartbeat[r] <= Allowed(r) /\ ~Due(r)
    <3>1. Allowed(r) = SleepTime + KillTime BY <2>4 DEF Allowed
    <3>2. last_heartbeat'[r] <= Allowed(r)' BY ONLY <1>a, <1>b, <1>2, <2>4, <3>1
    <3> QED BY <1>p, <3>2
  <2> QED BY <1>h, <2>1, <2>2, <2>3, <2>4 DEF Aged
<1>3. CASE ~ordering
  <2>1. fdirInbox = <<>> BY <1>3, TickFacts DEF RecInv
  <2>2. Room(fdirInbox) BY <2>1 DEF Room
  <2>3. ~(hpc[r] = "fdir" /\ owed[r] > 0) BY <2>2, TickFacts DEF RecInv
  <2>4. ~Due(r) /\ ~In(r, fdirInbox) BY <1>t, <2>1, <2>3, InEmpty DEF Due
  <2>5. CASE hpc[r] = "fdir"
    <3>1. owed[r] = 0 BY <1>t, <2>3, <2>5
    <3>2. last_heartbeat[r] = 0 BY <1>h, <2>4, <3>1 DEF Heard
    <3>3. owed'[r] >= 1 /\ hpc'[r] = "fdir" BY <1>t, <1>u, <1>w, <2>5, <3>1, OlderFacts
    <3>4. Due(r)' BY <3>3 DEF Due
    <3>5. last_heartbeat'[r] <= Allowed(r)' BY ONLY <1>a, <1>b, <3>2, <3>4
    <3> QED BY <1>p, <3>5
  <2>6. CASE hpc[r] = "supervisor"
    <3>1. control \in hung BY <1>t, <2>6, TickFacts DEF RecInv
    <3>2. last_heartbeat[r] <= KillTime BY <1>h, <2>4, <2>6 DEF Passed
    <3>3. last_heartbeat'[r] <= Allowed(r)' BY ONLY <1>a, <1>b, <3>1, <3>2
    <3> QED BY <1>p, <3>3
  <2> QED BY <1>t, <2>5, <2>6
<1> QED BY <1>1, <1>2, <1>3, <1>t DEF InSend

\* A role that waits for the supervisor waits for the end of the kill.
LEMMA PassedStep ==
  ASSUME SingleFault, Margins, RecInv, [Next]_vars, ~RestartFdir, ~fdirHung',
         NEW r \in Roles, Running(r)'
  PROVE  Passed(r)'
<1> USE ConstantFacts, RoleFacts
<1>0. ~fdirHung /\ Fdir \notin dead
  <2>1. ~fdirHung BY SameFdir
  <2> QED BY <2>1 DEF RecInv, FaultInv
<1>t. /\ fdirInbox \in Seq(Roles \cup {Notice}) /\ owed \in [Roles -> 0..MaxAge]
      /\ hpc \in [Roles -> {"fdir", "supervisor"}] /\ last_heartbeat \in [Roles -> 0..MaxAge]
      /\ control \in Roles \cup {Nobody} /\ last_heartbeat[r] \in Nat
      /\ owed[r] \in Nat /\ (owed[r] = 0 => hpc[r] = "fdir")
  <2>1. /\ fdirInbox \in Seq(Roles \cup {Notice}) /\ owed \in [Roles -> 0..MaxAge]
        /\ hpc \in [Roles -> {"fdir", "supervisor"}]
        /\ last_heartbeat \in [Roles -> 0..MaxAge] /\ control \in Roles \cup {Nobody}
        /\ owed[r] = 0 => hpc[r] = "fdir"
    BY DEF RecInv, TInv, TypeOK
  <2> QED BY <2>1
<1>n. TInv' BY TStep DEF RecInv
<1>k. KillTime \in Nat /\ KillTime' \in Nat /\ KillTime <= KillTime'
  BY <1>n, KillFacts, KillFactsNext, KillStep DEF RecInv
<1>p. Passed(r)' <=> (hpc'[r] = "supervisor" /\ ~In(r, fdirInbox')
                      => last_heartbeat'[r] <= KillTime')
  BY DEF Passed, In
<1>1. ASSUME Running(r), hpc[r] = "supervisor", ~In(r, fdirInbox),
             last_heartbeat'[r] = last_heartbeat[r]
      PROVE  Passed(r)'
  <2>1. last_heartbeat[r] <= KillTime BY <1>0, <1>1 DEF RecInv, FreshRoles, Passed
  <2>2. last_heartbeat'[r] <= KillTime' BY ONLY <1>k, <1>t, <1>1, <2>1
  <2> QED BY <1>p, <2>2
<1>2. CASE hpc'[r] = "fdir" BY <1>p, <1>2
<1>3. CASE In(r, fdirInbox') BY <1>p, <1>3
<1>4. CASE last_heartbeat'[r] = 0
  <2>1. last_heartbeat'[r] <= KillTime' BY ONLY <1>k, <1>4
  <2> QED BY <1>p, <2>1
<1>5. ASSUME NEW s \in Roles, Beat(s) PROVE Passed(r)'
  <2>0. UNCHANGED <<last_heartbeat, hung, dead>> BY <1>5 DEF Beat, monitor
  <2>1. Running(r) BY <2>0 DEF Running
  <2>2. CASE /\ fdirInbox' = Append(fdirInbox, s)
             /\ hpc' = [hpc EXCEPT ![s] = "supervisor"]
    <3>1. In(r, fdirInbox') <=> In(r, fdirInbox) \/ r = s BY <1>t, <2>2, InAppend
    <3>2. r # s => hpc'[r] = hpc[r] BY <1>t, <2>2
    <3>3. CASE r = s BY <1>3, <3>1, <3>3
    <3>4. CASE r # s /\ hpc'[r] = "supervisor" /\ ~In(r, fdirInbox')
      BY <1>1, <2>0, <2>1, <3>1, <3>2, <3>4
    <3> QED BY <1>p, <3>3, <3>4
  <2>3. CASE UNCHANGED fdirInbox /\ hpc' = [hpc EXCEPT ![s] = "fdir"]
    <3>1. r # s => hpc'[r] = hpc[r] BY <1>t, <2>3
    <3>2. r = s => hpc'[r] = "fdir" BY <1>t, <2>3
    <3>3. CASE r = s BY <1>2, <3>2, <3>3
    <3>4. CASE r # s /\ hpc'[r] = "supervisor" /\ ~In(r, fdirInbox')
      BY <1>1, <2>0, <2>1, <2>3, <3>1, <3>4
    <3> QED BY <1>p, <3>3, <3>4
  <2> QED BY <1>0, <1>5, <2>2, <2>3 DEF Beat
<1>6. CASE MonitorReceive
  <2>1. /\ fdirInbox # <<>> /\ fdirInbox' = Tail(fdirInbox)
        /\ UNCHANGED <<hpc, hung, dead>>
        /\ \/ last_heartbeat' = [last_heartbeat EXCEPT ![Head(fdirInbox)] = 0]
           \/ Head(fdirInbox) = Notice /\ UNCHANGED last_heartbeat
    BY <1>6 DEF MonitorReceive, CanReceive, beats
  <2>2. In(r, fdirInbox) <=> r = Head(fdirInbox) \/ In(r, fdirInbox')
    BY <1>t, <2>1, InTail
  <2>3. Running(r) BY <2>1 DEF Running
  <2>4. CASE r = Head(fdirInbox)
    <3>1. last_heartbeat'[r] = 0 BY <1>t, <2>1, <2>4
    <3> QED BY <1>4, <3>1
  <2>5. CASE r # Head(fdirInbox) /\ hpc'[r] = "supervisor" /\ ~In(r, fdirInbox')
    <3>1. last_heartbeat'[r] = last_heartbeat[r] BY <1>t, <2>1, <2>5
    <3> QED BY <1>1, <2>1, <2>2, <2>3, <2>5, <3>1
  <2> QED BY <1>p, <2>4, <2>5
<1>7. CASE Revive
  <2>1. /\ control \in Roles /\ UNCHANGED <<last_heartbeat, fdirInbox>>
        /\ hpc' = [hpc EXCEPT ![control] = "fdir"]
    BY <1>7 DEF Revive, CanRevive, monitor
  <2>2. r = control => hpc'[r] = "fdir" BY <1>t, <2>1
  <2>3. CASE r = control BY <1>2, <2>2, <2>3
  <2>4. CASE r # control /\ hpc'[r] = "supervisor" /\ ~In(r, fdirInbox')
    <3>1. hpc'[r] = hpc[r] BY <1>t, <2>1, <2>4
    <3>2. Running(r) BY <2>4, RunStep DEF RecInv
    <3> QED BY <1>1, <2>1, <2>4, <3>1, <3>2
  <2> QED BY <1>p, <2>3, <2>4
<1>8. CASE BoardResets
  <2>1. /\ fdirInbox' = Append(fdirInbox, Notice)
        /\ UNCHANGED <<last_heartbeat, hpc, hung, dead>>
    BY <1>8 DEF BoardResets, beats, monitor
  <2>2. In(r, fdirInbox) => In(r, fdirInbox')
    <3>1. Notice \in Roles \cup {Notice} OBVIOUS
    <3>2. \A x : In(x, Append(fdirInbox, Notice)) <=> In(x, fdirInbox) \/ x = Notice
      BY <1>t, <3>1, InAppend
    <3> QED BY <2>1, <3>2
  <2>3. Running(r) BY <2>1 DEF Running
  <2>4. CASE hpc'[r] = "supervisor" /\ ~In(r, fdirInbox')
    BY <1>1, <2>1, <2>2, <2>3, <2>4
  <2> QED BY <1>p, <2>4
<1>9. CASE Tick
  <2>1. UNCHANGED <<hpc, fdirInbox, hung, dead>> BY <1>9 DEF Tick
  <2>2. Running(r) BY <2>1 DEF Running
  <2>3. CASE hpc'[r] = "supervisor" /\ ~In(r, fdirInbox')
    <3>1. owed[r] > 0 /\ hpc[r] = "supervisor" BY <1>t, <2>1, <2>3
    <3>2. control \in hung BY <1>9, <2>2, <3>1, TickFacts DEF RecInv
    <3>3. last_heartbeat[r] <= KillTime BY <1>0, <2>1, <2>2, <2>3 DEF RecInv, FreshRoles, Passed
    <3>4. KillTime' = KillTime + 1 /\ last_heartbeat'[r] <= last_heartbeat[r] + 1
          /\ last_heartbeat'[r] \in Nat
      BY <1>0, <1>9, <3>2, AgeFacts
    <3>5. last_heartbeat'[r] <= KillTime' BY ONLY <1>k, <1>t, <3>3, <3>4
    <3> QED BY <1>p, <3>5
  <2> QED BY <1>p, <2>3
<1>10. CASE RoleHangs(r) BY <1>10 DEF RoleHangs, Running
<1>11. CASE ~Revive /\ ~RoleHangs(r) /\ UNCHANGED <<last_heartbeat, fdirInbox, hpc>>
  <2>1. Running(r) BY <1>11, RunStep DEF RecInv
  <2>2. CASE hpc'[r] = "supervisor" /\ ~In(r, fdirInbox') BY <1>1, <1>11, <2>1, <2>2
  <2> QED BY <1>p, <2>2
<1>12. CASE \E s \in Roles : Beat(s) BY <1>5, <1>12
<1> QED BY <1>6, <1>7, <1>8, <1>9, <1>10, <1>11, <1>12
        DEF Next, OBCStep, WatchBegin, WatchCheck, WatchPing, MonitorOrder, ControlReceive,
            SweepEntry, CheckFrozen, RoleHangs, FdirHangs, vars, beats, monitor

\* Every stamp stays within its budget.
LEMMA RolesStep ==
  ASSUME SingleFault, Margins, RecInv, [Next]_vars
  PROVE  FreshRoles'
<1> SUFFICES ASSUME ~fdirHung', NEW r \in Roles
             PROVE  /\ Running(r)' => Heard(r)' /\ Aged(r)' /\ Passed(r)'
                    /\ Claimed(r)'
  BY DEF FreshRoles
<1>1. Running(r)' => Heard(r)' BY HeardStep
<1>2. CASE RestartFdir
  <2>1. last_heartbeat'[r] = 0 BY <1>2 DEF RestartFdir
  <2>2. Allowed(r)' \in Nat /\ KillTime' \in Nat /\ SleepTime' \in Nat
    BY AllowedNext, KillFactsNext, SleepFactsNext, TStep, ConstantFacts DEF RecInv
  <2>3. /\ last_heartbeat'[r] <= Allowed(r)' /\ last_heartbeat'[r] <= KillTime'
        /\ last_heartbeat'[r] <= SleepTime' + KillTime'
    <3>1. \A k, l \in Nat : 0 <= k /\ 0 <= k + l OBVIOUS
    <3>2. /\ 0 <= Allowed(r)' /\ 0 <= KillTime'
          /\ 0 <= SleepTime' + KillTime'
      BY <2>2, <3>1
    <3> QED BY <2>1, <3>2
  <2> QED BY <1>1, <2>3 DEF Aged, Passed, Claimed
<1>3. CASE Tick
  <2>1. ~fdirHung /\ (Running(r)' => Running(r)) BY <1>3 DEF Tick, Running
  <2>2. ~RestartFdir BY <1>3 DEF RestartFdir, Tick, CanStep
  <2> QED BY <1>1, <1>3, <2>1, <2>2, AgeTick, PassedStep, ClaimedTick
<1>4. CASE ~Tick /\ ~RestartFdir BY <1>1, <1>4, AgeStill, PassedStep, ClaimedStill
<1> QED BY <1>2, <1>3, <1>4

-----------------------------------------------------------------------------
\* The start is within every budget.
LEMMA RecInit == Init => RecInv
<1> SUFFICES ASSUME Init PROVE RecInv OBVIOUS
<1> USE ConstantFacts, RoleFacts
<1>1. TInv
  <2>3. fdirHung \in BOOLEAN /\ falseFdir \in BOOLEAN /\ ordering \in BOOLEAN
    BY Zenon DEF Init
  <2>4. fault_latched \in [Roles -> BOOLEAN] BY DEF Init
  <2>5. /\ hpc \in [Roles -> {"fdir", "supervisor"}] /\ owed \in [Roles -> 0..MaxAge]
        /\ \A r \in Roles : owed[r] = 0 => hpc[r] = "fdir"
        /\ last_heartbeat \in [Roles -> 0..MaxAge] /\ hungFor \in [Roles -> Nat]
    BY DEF Init
  <2>6. /\ hung = {} /\ dead = {} /\ delayed = "never" /\ waited = 0 /\ spawnFails = 0
        /\ wi = 0 /\ late = 0 /\ wowed = 1 /\ pause = 0 /\ reset_counts = 0
        /\ shutdowns = 0 /\ control = Nobody /\ left = 0 /\ si = 0 /\ sowed = 1
        /\ fdirLeft = 0 /\ fdirAge = 0
        /\ hangs = 0 /\ fdirHangs = 0 /\ notices = 0 /\ losses = 0
    BY DEF Init
  <2>1. RestInv BY <2>3, <2>4, <2>5, <2>6 DEF RestInv
  <2>2. /\ supInbox \in Seq(Messages) /\ Len(supInbox) <= Backlog
        /\ fdirInbox \in Seq(Roles \cup {Notice}) /\ Len(fdirInbox) <= Backlog
    BY DEF Init
  <2> QED BY <2>1, <2>2, TInvParts
<1>2. ShutInv BY DEF Init, ShutInv
<1>3. FaultInv BY DEF Init, FaultInv
<1>4. KillTime = 0 BY DEF Init, KillTime
<1>5. FreshFdir BY <1>4 DEF Init, FreshFdir
<1>6. FreshRoles
  <2>1. ASSUME NEW r \in Roles PROVE last_heartbeat[r] = 0 /\ Allowed(r) \in Nat
    BY <1>1, <2>1, AllowedFacts DEF Init
  <2>2. \A r \in Roles : ~Pending(r) BY InEmpty DEF Init, Pending
  <2>3. \A r \in Roles : Heard(r) /\ Aged(r) BY <2>1 DEF Heard, Aged
  <2>4. \A r \in Roles : Passed(r) /\ Claimed(r) BY <2>2 DEF Init, Passed, Claimed
  <2> QED BY <2>3, <2>4 DEF FreshRoles
<1> QED BY <1>1, <1>2, <1>3, <1>5, <1>6 DEF RecInv

\* The inductive invariant: the budgets hold in every state.
LEMMA RecStep ==
  ASSUME SingleFault, Margins
  PROVE  RecInv /\ [Next]_vars => RecInv'
BY TStep, ShutStep, FaultStep, FdirStep, RolesStep DEF RecInv

\* With one role that hangs and the margins of the code's time-outs, the supervisor
\* restarts FDIR only when FDIR has stopped, and an FDIR orders the board's shutdown
\* once (processes.c, watchdog.c, health_monitor.c).
THEOREM RecoveryTheorem ==
  ASSUME SingleFault, Margins
  PROVE  Spec => []RecoveryInv
<1>1. RecInv => RecoveryInv
  BY DEF RecInv, TInv, ShutInv, FreshFdir, RecoveryInv, OnlyHungFdirRestarted, ShutdownOnce
<1> QED BY RecInit, RecStep, <1>1, PTL DEF Spec

\* Under the same conditions FDIR reports a role only when the role has stopped, or
\* while commands keeps the health monitor waiting: otherwise the watchdog's latch
\* rises only for a role that does not run (watchdog.c).
THEOREM ReportTheorem ==
  ASSUME SingleFault, Margins
  PROVE  Spec => OnlyHungRolesReported
<1>1. ASSUME RecInv, [Next]_vars
      PROVE  [\A r \in Roles : ~fault_latched[r] /\ fault_latched'[r] =>
                ~Running(r) \/ delayed = "now"]_vars
  <2> SUFFICES ASSUME NEW r \in Roles, ~fault_latched[r], fault_latched'[r]
               PROVE  ~Running(r) \/ delayed = "now"
    OBVIOUS
  <2>t. fault_latched \in [Roles -> BOOLEAN] BY <1>1 DEF RecInv, TInv, TypeOK
  <2>1. CASE WatchCheck
    <3>1. ~fdirHung BY <2>1 DEF WatchCheck, CanCheck
    <3>2. CASE MustAsk /\ fault_latched' = [fault_latched EXCEPT ![wi] = TRUE]
      <4>1. r = wi BY <2>t, <3>2, Zenon
      <4> QED BY <1>1, <3>1, <3>2, <4>1, TrueFault
    <3>3. CASE UNCHANGED fault_latched BY <3>3
    <3>4. CASE fault_latched' = [fault_latched EXCEPT ![wi] = @ /\ RoleIsStale(wi)]
      BY <2>t, <3>4, Zenon
    <3> QED BY <2>1, <3>2, <3>3, <3>4 DEF WatchCheck
  <2>2. CASE RestartFdir BY <2>2 DEF RestartFdir
  <2>3. CASE UNCHANGED fault_latched BY <2>3
  <2> QED BY <1>1, <2>1, <2>2, <2>3
          DEF Next, OBCStep, Beat, WatchBegin, WatchPing, MonitorReceive, MonitorOrder,
              ControlReceive, Revive, SweepEntry, CheckFrozen, RoleHangs, FdirHangs,
              BoardResets, Tick, vars, watchdog
<1> QED BY RecInit, RecStep, <1>1, PTL DEF Spec, OnlyHungRolesReported

-----------------------------------------------------------------------------
(***************************************************************************)
(* How long a role hangs.  Its outage is split at the request for its      *)
(* restart: what FDIR needs to notice (Noticed), what its own hangs cost   *)
(* on top (Waited, Found), and the kill.                                   *)
(***************************************************************************)
\* What a hang of FDIR costs: to find out, to kill it, and the new one's time-out.
FdirCost == FdirTimeout + 1 + Grace + RoleTimeout + 1

\* What the sleep of the health monitor costs, if there can be one.
SleepCost == IF MaxNotices >= Threshold THEN Pause ELSE 0

\* Spent by losses and hangs of FDIR so far.
Spent == SleepCost + losses + fdirHangs * FdirCost

\* The watchdog has yet to look at r in the iteration that it owes.
Unchecked(r) == wowed > 0 /\ wi <= r

\* What FDIR's stamp of r counts of the outage.
Counted(r) == IF last_heartbeat[r] <= RoleTimeout THEN last_heartbeat[r]
              ELSE RoleTimeout + (IF Unchecked(r) THEN 1 ELSE 0)

\* The notices that wait.
Notices(q) == {i \in 1..Len(q) : q[i] = Notice}

\* The counters are within their bounds; this FDIR has counted notices that came.
CountInv ==
  /\ losses <= MaxLosses /\ fdirHangs <= MaxFdirHangs /\ notices <= MaxNotices
  /\ reset_counts + Cardinality(Notices(fdirInbox)) <= notices
  /\ fdirHung => fdirHangs > 0
  /\ si = R + 2 => fdirHung
  /\ \A r \in Roles : Running(r) => hungFor[r] = 0

\* FDIR lives, and its health monitor was never kept waiting.
Served == delayed = "never" /\ Fdir \notin dead

\* Only the hung role is being restarted while it hangs, and a latch that is up for it
\* means that it is; a role is dead only after that.
AskedInv ==
  /\ \A r \in Roles : Pending(r) => hangs # 0
  /\ dead # {} => hung = {} /\ hangs # 0
  /\ \A r \in Roles : Pending(r) /\ hung # {} => r \in hung
  /\ \A r \in Roles : fault_latched[r] => hangs # 0 /\ (r \in hung => Pending(r))

\* No role was ever killed.
Unkilled == hangs = 0 \/ \E r \in hung : ~Pending(r)

\* While FDIR hangs the supervisor's stamp of it grows until it is found frozen.
Found == fdirHung /\ si # R + 2 /\ Unkilled
         => fdirAge <= FdirTimeout + (IF sowed > 0 THEN 1 ELSE 0)

\* While FDIR runs: a stamp that still has to come costs the sleep only; then FDIR's
\* stamp measures the outage.
Noticed(r) ==
  ~fdirHung => /\ In(r, fdirInbox) => hungFor[r] <= SleepTime
               /\ ~In(r, fdirInbox) => hungFor[r] <= Spent + Counted(r)

\* While FDIR hangs: the supervisor's stamp of FDIR, then FDIR's kill, measure it.
Waited(r) ==
  fdirHung => LET Before == (Spent - FdirCost) + RoleTimeout + 1 IN
    /\ si # R + 2 => hungFor[r] <= Before + fdirAge
    /\ si = R + 2 => hungFor[r] <= Before + FdirTimeout + 1 + (Grace - fdirLeft)
    /\ In(Ping(Fdir), supInbox) => hungFor[r] <= Before

\* Once the restart was asked for, the kill measures it.
OutageInv ==
  \A r \in hung :
    IF Pending(r)
    THEN hungFor[r] <= Spent + RoleTimeout + 1 + (IF control = r THEN Grace - left ELSE 0)
    ELSE Noticed(r) /\ Waited(r)

OutInv == RecInv /\ Served /\ CountInv /\ AskedInv /\ Found /\ OutageInv

\* A dead FDIR is not restarted, and that the health monitor had to wait is remembered.
LEMMA ServedStep ==
  ASSUME RecInv, [Next]_vars, Served'
  PROVE  Served
<1>t. control \in Roles \cup {Nobody} /\ delayed \in {"never", "now", "past"}
  BY DEF RecInv, TInv, TypeOK
<1>1. CASE Revive
  <2>1. control # Fdir /\ UNCHANGED delayed BY <1>1, RoleFacts DEF Revive, CanRevive
  <2>2. Fdir \in dead => Fdir \in dead' BY <1>1, <2>1 DEF Revive
  <2> QED BY <2>1, <2>2 DEF Served
<1>2. CASE RestartFdir
  <2>1. Fdir \in dead => Fdir \in dead' BY <1>2 DEF RestartFdir
  <2>2. delayed' = IF delayed = "now" THEN "past" ELSE delayed BY <1>2 DEF RestartFdir
  <2> QED BY <1>t, <2>1, <2>2 DEF Served
<1>3. CASE Tick BY <1>t, <1>3 DEF Tick, Served
<1>4. CASE UNCHANGED <<dead, delayed>> BY <1>4 DEF Served
<1> QED BY <1>1, <1>2, <1>3, <1>4
        DEF Next, OBCStep, Beat, WatchBegin, WatchCheck, WatchPing, MonitorReceive,
            MonitorOrder, ControlReceive, SweepEntry, CheckFrozen, RoleHangs, FdirHangs,
            BoardResets, vars, ghosts

\* Without a wait of the health monitor, FDIR reports the hung role, or a dead one.
LEMMA TrueRequest ==
  ASSUME Margins, RecInv, Served, AskedInv, ~fdirHung, MustAsk
  PROVE  wi \in Roles /\ hangs # 0 /\ (hung # {} => wi \in hung)
<1>1. wi \in Roles /\ (wi \in hung \/ wi \in dead) BY TrueFault DEF Served, Running
<1> QED BY <1>1 DEF AskedInv, RecInv, FaultInv

\* The notices that wait can be counted.
LEMMA NoticesFinite ==
  ASSUME NEW q \in Seq(Roles \cup {Notice})
  PROVE  IsFiniteSet(Notices(q)) /\ Cardinality(Notices(q)) \in Nat
<1>1. IsFiniteSet(1..Len(q)) BY FS_Interval
<1>2. Notices(q) \subseteq 1..Len(q) BY DEF Notices
<1> QED BY <1>1, <1>2, FS_Subset, FS_CardinalityType

\* One message more counts once, if it is a notice.
LEMMA NoticesPush ==
  ASSUME NEW q \in Seq(Roles \cup {Notice}), NEW m \in Roles \cup {Notice}
  PROVE  /\ m # Notice => Cardinality(Notices(Append(q, m))) = Cardinality(Notices(q))
         /\ Cardinality(Notices(Append(q, m))) <= Cardinality(Notices(q)) + 1
<1> DEFINE A == Notices(q)
           B == Notices(Append(q, m))
           x == Len(q) + 1
<1>1. IsFiniteSet(A) /\ Cardinality(A) \in Nat BY NoticesFinite
<1>2. /\ Len(q) \in Nat /\ Len(Append(q, m)) = Len(q) + 1
      /\ \A i \in 1..Len(q) : Append(q, m)[i] = q[i]
      /\ Append(q, m)[Len(q) + 1] = m
  OBVIOUS
<1>3. m = Notice => B = A \cup {x} BY <1>2 DEF Notices
<1>4. m # Notice => B = A BY <1>2 DEF Notices
<1> HIDE DEF A, B, x
<1>5. Cardinality(A \cup {x}) = IF x \in A THEN Cardinality(A) ELSE Cardinality(A) + 1
  BY <1>1, FS_AddElement
<1>6. Cardinality(A \cup {x}) <= Cardinality(A) + 1 BY <1>1, <1>5
<1>7. Cardinality(A) <= Cardinality(A) + 1 BY <1>1
<1> QED BY <1>3, <1>4, <1>6, <1>7 DEF A, B

\* One message less.
LEMMA NoticesTail ==
  ASSUME NEW q \in Seq(Roles \cup {Notice}), q # <<>>
  PROVE  /\ Cardinality(Notices(Tail(q))) <= Cardinality(Notices(q))
         /\ Head(q) = Notice => Cardinality(Notices(Tail(q))) <= Cardinality(Notices(q)) - 1
<1> DEFINE A == Notices(q)
           B == Notices(Tail(q))
           f == [i \in B |-> i + 1]
<1>1. IsFiniteSet(A) /\ Cardinality(A) \in Nat BY NoticesFinite
<1>2. /\ Head(q) = q[1] /\ Len(q) \in Nat /\ Len(q) > 0 /\ Len(Tail(q)) = Len(q) - 1
      /\ \A i \in 1..Len(Tail(q)) : Tail(q)[i] = q[i + 1] /\ i + 1 \in 1..Len(q)
  OBVIOUS
<1>3. \A i \in B : i \in Nat /\ i # 0 /\ i + 1 \in A \ {1} BY <1>2 DEF Notices
<1>4. f \in Injection(B, A \ {1})
  <2>1. f \in [B -> A \ {1}] BY <1>3
  <2>2. \A i, j \in B : f[i] = f[j] => i = j BY <1>3
  <2> HIDE DEF f
  <2> QED BY <2>1, <2>2 DEF Injection, IsInjective
<1>5. Head(q) = Notice => 1 \in A BY <1>2 DEF Notices
<1> HIDE DEF A, B, f
<1>6. /\ IsFiniteSet(A \ {1})
      /\ Cardinality(A \ {1}) = IF 1 \in A THEN Cardinality(A) - 1 ELSE Cardinality(A)
  BY <1>1, FS_RemoveElement
<1>7. Cardinality(B) <= Cardinality(A \ {1}) /\ IsFiniteSet(B) BY <1>4, <1>6, FS_Injection
<1>8. Cardinality(B) \in Nat BY <1>7, FS_CardinalityType
<1>9. Cardinality(B) <= Cardinality(A) BY <1>1, <1>6, <1>7, <1>8
<1>10. 1 \in A => Cardinality(B) <= Cardinality(A) - 1 BY <1>1, <1>6, <1>7, <1>8
<1> QED BY <1>5, <1>9, <1>10 DEF A, B

\* FDIR has counted no more notices than came.
LEMMA NoticeStep ==
  ASSUME TInv, [Next]_vars, notices <= MaxNotices,
         reset_counts + Cardinality(Notices(fdirInbox)) <= notices
  PROVE  /\ notices' <= MaxNotices
         /\ reset_counts' + Cardinality(Notices(fdirInbox')) <= notices'
<1> USE ConstantFacts, RoleFacts
<1> DEFINE n == Cardinality(Notices(fdirInbox))
           k == Cardinality(Notices(fdirInbox'))
<1>t. /\ fdirInbox \in Seq(Roles \cup {Notice}) /\ reset_counts \in Nat /\ notices \in Nat
  BY DEF TInv, TypeOK
<1>0. n \in Nat /\ k \in Nat BY <1>t, QueueStep, NoticesFinite
<1>1. ASSUME NEW r \in Roles, Beat(r) PROVE k = n /\ UNCHANGED <<reset_counts, notices>>
  <2>1. /\ UNCHANGED <<reset_counts, notices>>
        /\ UNCHANGED fdirInbox \/ fdirInbox' = Append(fdirInbox, r)
    BY <1>1 DEF Beat, monitor, events
  <2> QED BY <1>t, <2>1, NoticesPush
<1>2. CASE MonitorReceive
  <2>1. /\ fdirInbox # <<>> /\ fdirInbox' = Tail(fdirInbox) /\ UNCHANGED notices
        /\ \/ UNCHANGED reset_counts
           \/ Head(fdirInbox) = Notice /\ reset_counts' = reset_counts + 1
    BY <1>2 DEF MonitorReceive, CanReceive, events
  <2>2. k <= n /\ (Head(fdirInbox) = Notice => k <= n - 1) BY <1>t, <2>1, NoticesTail
  <2> HIDE DEF n, k
  <2>3. reset_counts + n <= notices BY DEF n
  <2>4. reset_counts' + k <= notices' BY <1>0, <1>t, <2>1, <2>2, <2>3
  <2> QED BY <2>1, <2>4 DEF k
<1>3. CASE RestartFdir
  <2>1. reset_counts' = 0 /\ UNCHANGED notices /\ fdirInbox' = <<>>
    BY <1>3 DEF RestartFdir, events
  <2>2. Notices(fdirInbox') = {} BY <2>1 DEF Notices
  <2>3. k = 0 BY <2>2, FS_EmptySet
  <2> QED BY <1>t, <2>1, <2>3
<1>4. CASE BoardResets
  <2>1. /\ notices < MaxNotices /\ notices' = notices + 1
        /\ fdirInbox' = Append(fdirInbox, Notice) /\ UNCHANGED reset_counts
    BY <1>4 DEF BoardResets, monitor
  <2>2. k <= n + 1 BY <1>t, <2>1, NoticesPush
  <2> HIDE DEF n, k
  <2>3. reset_counts + n <= notices BY DEF n
  <2>4. reset_counts' + k <= notices' BY <1>0, <1>t, <2>1, <2>2, <2>3
  <2> QED BY <1>t, <2>1, <2>4 DEF k
<1>5. CASE UNCHANGED <<reset_counts, notices, fdirInbox>> BY <1>5
<1>6. CASE \E r \in Roles : Beat(r) BY <1>1, <1>6
<1> QED BY <1>2, <1>3, <1>4, <1>5, <1>6
        DEF Next, OBCStep, WatchBegin, WatchCheck, WatchPing, ControlReceive, Revive,
            SweepEntry, CheckFrozen, RoleHangs, FdirHangs, Tick, vars, monitor, events,
            MonitorOrder

\* The bounds of the counters.
LEMMA CountStep ==
  ASSUME SingleFault, Margins, RecInv, Served', CountInv, [Next]_vars
  PROVE  CountInv'
<1> USE ConstantFacts, RoleFacts
<1>t. /\ losses \in Nat /\ fdirHangs \in Nat /\ si \in 0..(R + 2) /\ hungFor \in [Roles -> Nat]
      /\ fdirAge \in Nat /\ control \in Roles \cup {Nobody}
  BY DEF RecInv, TInv, TypeOK
<1>1. notices' <= MaxNotices /\ reset_counts' + Cardinality(Notices(fdirInbox)') <= notices'
  <2>1. Notices(fdirInbox)' = Notices(fdirInbox') BY DEF Notices
  <2> QED BY <2>1, NoticeStep DEF RecInv, CountInv
<1>2. losses' <= MaxLosses
  <2>1. CASE WatchCheck BY <1>t, <2>1 DEF WatchCheck, CountInv
  <2>2. CASE UNCHANGED losses BY <2>2 DEF CountInv
  <2> QED BY <2>1, <2>2
          DEF Next, OBCStep, Beat, WatchBegin, WatchPing, MonitorReceive, MonitorOrder,
              ControlReceive, Revive, SweepEntry, CheckFrozen, RestartFdir, RoleHangs,
              FdirHangs, BoardResets, Tick, vars, events
<1>3. fdirHangs' <= MaxFdirHangs /\ (fdirHung' => fdirHangs' > 0)
  <2>1. CASE FdirHangs BY <1>t, <2>1 DEF FdirHangs, CountInv
  <2>3. CASE RestartFdir
    <3>1. ~fdirHung' BY <2>3 DEF RestartFdir, Served
    <3>2. UNCHANGED fdirHangs BY <2>3 DEF RestartFdir
    <3> QED BY <3>1, <3>2 DEF CountInv
  <2>2. CASE UNCHANGED fdirHangs /\ (fdirHung' => fdirHung) BY <2>2 DEF CountInv
  <2> QED BY <2>1, <2>2, <2>3
          DEF Next, OBCStep, Beat, WatchBegin, WatchCheck, WatchPing, MonitorReceive,
              MonitorOrder, ControlReceive, Revive, SweepEntry, CheckFrozen, RoleHangs,
              BoardResets, Tick, vars, events
<1>4. si' = R + 2 => fdirHung'
  <2>1. CASE SweepEntry BY <1>t, <2>1 DEF SweepEntry
  <2>2. CASE CheckFrozen
    <3>1. FdirIsFrozen => fdirHung
      <4>1. KillTime \in 0..Grace BY KillFacts DEF RecInv
      <4> QED BY <1>t, <4>1 DEF FdirIsFrozen, Margins, RecInv, FreshFdir
    <3> QED BY <1>t, <2>2, <3>1 DEF CheckFrozen
  <2>3. CASE RestartFdir BY <2>3 DEF RestartFdir
  <2>4. CASE UNCHANGED si /\ (fdirHung => fdirHung') BY <2>4 DEF CountInv
  <2> QED BY <2>1, <2>2, <2>3, <2>4
          DEF Next, OBCStep, Beat, WatchBegin, WatchCheck, WatchPing, MonitorReceive,
              MonitorOrder, ControlReceive, Revive, RoleHangs, FdirHangs, BoardResets,
              Tick, vars, sweep
<1>5. \A r \in Roles : Running(r)' => hungFor'[r] = 0
  <2>1. CASE Revive BY <1>t, <2>1 DEF Revive, CanRevive, CountInv, Running
  <2>2. CASE Tick BY <1>t, <2>2 DEF Tick, Running
  <2>3. CASE UNCHANGED hungFor /\ hung \subseteq hung' /\ dead \subseteq dead'
    BY <2>3 DEF CountInv, Running
  <2> QED BY <2>1, <2>2, <2>3
          DEF Next, OBCStep, Beat, WatchBegin, WatchCheck, WatchPing, MonitorReceive,
              MonitorOrder, ControlReceive, SweepEntry, CheckFrozen, RestartFdir,
              RoleHangs, FdirHangs, BoardResets, vars, ghosts
<1> QED BY <1>1, <1>2, <1>3, <1>4, <1>5 DEF CountInv

\* A request is kept until the role is revived.
LEMMA PendingKeeps ==
  ASSUME RecInv, AskedInv, [Next]_vars, NEW r \in Roles, r \in hung, r \in hung', Pending(r)
  PROVE  Pending(r)'
<1> USE RoleFacts, MessageFacts
<1>t. supInbox \in Seq(Messages) /\ control \in Roles \cup {Nobody}
  BY DEF RecInv, TInv, TypeOK
<1>p. Pending(r)' <=> control' = r \/ In(Restart(r), supInbox') BY DEF Pending, In
<1>q. control = r \/ In(Restart(r), supInbox) BY DEF Pending
<1>1. ASSUME NEW m \in Messages, supInbox' = Append(supInbox, m), UNCHANGED control
      PROVE  Pending(r)'
  <2>1. In(Restart(r), supInbox) => In(Restart(r), supInbox') BY <1>t, <1>1, InAppend
  <2> QED BY <1>1, <1>p, <1>q, <2>1
<1>2. CASE UNCHANGED <<supInbox, control>> BY <1>p, <1>q, <1>2
<1>3. ASSUME NEW s \in Roles, Beat(s) PROVE Pending(r)'
  <2>1. UNCHANGED control /\ (UNCHANGED supInbox \/ supInbox' = Append(supInbox, Ping(s)))
    BY <1>3 DEF Beat, killing
  <2> QED BY <1>1, <1>2, <2>1
<1>4. CASE WatchCheck
  <2>1. /\ UNCHANGED control /\ wi \in Roles
        /\ UNCHANGED supInbox \/ supInbox' = Append(supInbox, Restart(wi))
    BY <1>4 DEF WatchCheck, CanCheck, killing
  <2> QED BY <1>1, <1>2, <2>1
<1>5. CASE WatchPing
  <2>1. UNCHANGED control /\ supInbox' = Append(supInbox, Ping(Fdir))
    BY <1>5 DEF WatchPing, killing
  <2> QED BY <1>1, <2>1
<1>6. CASE ControlReceive
  <2> DEFINE m == Head(supInbox)
  <2>1. /\ control = Nobody /\ supInbox # <<>> /\ supInbox' = Tail(supInbox)
        /\ m.restart = Nobody \/ control' = m.restart
    BY <1>6 DEF ControlReceive, CanServe, killing
  <2>2. In(Restart(r), supInbox) <=> Restart(r) = m \/ In(Restart(r), supInbox')
    BY <1>t, <2>1, InTail
  <2>3. Restart(r) = m => control' = r
    <3>1. Restart(r).restart = r /\ r # Nobody OBVIOUS
    <3> QED BY <2>1, <3>1
  <2> QED BY <1>p, <1>q, <2>1, <2>2, <2>3
<1>7. CASE Revive
  <2>1. control \in Roles /\ hung' = hung \ {control} /\ UNCHANGED supInbox
    BY <1>7 DEF Revive, CanRevive
  <2>2. control # r BY <2>1
  <2> QED BY <1>p, <1>q, <2>1, <2>2
<1>8. CASE \E s \in Roles : Beat(s) BY <1>3, <1>8
<1> QED BY <1>2, <1>4, <1>5, <1>6, <1>7, <1>8
        DEF Next, OBCStep, WatchBegin, MonitorReceive, MonitorOrder, SweepEntry,
            CheckFrozen, RestartFdir, RoleHangs, FdirHangs, BoardResets, Tick, vars,
            killing

\* There is no second hang.
LEMMA NoSecondHang ==
  ASSUME SingleFault, RecInv, AskedInv, [Next]_vars, NEW r \in Roles
  PROVE  RoleHangs(r) => hangs = 0 /\ hung = {} /\ \A q \in Roles : ~Pending(q)
<1>1. hangs \in Nat BY DEF RecInv, TInv, TypeOK
<1>2. RoleHangs(r) => hangs = 0 BY <1>1, ConstantFacts DEF RoleHangs, SingleFault
<1> QED BY <1>2 DEF RecInv, FaultInv, AskedInv

\* What a request and a latch say of the role.
LEMMA AskedStep ==
  ASSUME SingleFault, Margins, RecInv, Served, Served', AskedInv, [Next]_vars
  PROVE  AskedInv'
<1> USE RoleFacts
<1>t. fault_latched \in [Roles -> BOOLEAN] /\ hung \subseteq Roles /\ hangs \in Nat
  BY DEF RecInv, TInv, TypeOK
<1>h. hangs # 0 => hangs' # 0
  BY <1>t DEF Next, OBCStep, Beat, WatchBegin, WatchCheck, WatchPing, MonitorReceive,
              MonitorOrder, ControlReceive, Revive, SweepEntry, CheckFrozen, RestartFdir,
              RoleHangs, FdirHangs, BoardResets, Tick, vars, events
<1>i. ASSUME NEW r \in hung' PROVE r \in hung \/ RoleHangs(r)
  <2>1. r \in Roles BY TStep DEF RecInv, TInv, TypeOK
  <2> QED BY <2>1, HungStep
<1>1. ASSUME NEW r \in Roles, Pending(r)', hung' # {} PROVE r \in hung'
  <2>1. CASE ~fdirHung /\ WatchCheck /\ MustAsk /\ wi = r
    <3>1. UNCHANGED hung BY <2>1 DEF WatchCheck
    <3> QED BY <1>1, <2>1, <3>1, TrueRequest
  <2>2. CASE Pending(r)
    <3>1. \A q \in Roles : ~RoleHangs(q) BY <2>2, NoSecondHang
    <3>2. PICK q \in hung' : TRUE BY <1>1
    <3>3. q \in hung /\ q \in Roles BY <1>i, <1>t, <3>1, <3>2, TStep DEF RecInv, TInv, TypeOK
    <3>4. r \in hung BY <2>2, <3>3 DEF AskedInv
    <3>5. q = r BY <3>3, <3>4 DEF RecInv, FaultInv
    <3> QED BY <3>2, <3>5
  <2> QED BY <1>1, <2>1, <2>2, PendingStep DEF RecInv
<1>2. ASSUME NEW r \in Roles, fault_latched'[r]
      PROVE  hangs' # 0 /\ (r \in hung' => Pending(r)')
  <2>1. CASE fault_latched[r]
    <3>1. hangs # 0 /\ (r \in hung => Pending(r)) BY <2>1 DEF AskedInv
    <3>2. ~RoleHangs(r) BY <3>1, NoSecondHang
    <3>3. r \in hung' => r \in hung BY <1>i, <3>2
    <3> QED BY <1>h, <3>1, <3>3, PendingKeeps
  <2>2. CASE ~fault_latched[r]
    <3>1. CASE WatchCheck
      <4>1. CASE /\ MustAsk /\ supInbox' = Append(supInbox, Restart(wi))
                 /\ fault_latched' = [fault_latched EXCEPT ![wi] = TRUE]
        <5>1. r = wi BY <1>t, <1>2, <2>2, <4>1, Zenon
        <5>2. ~fdirHung BY <3>1 DEF WatchCheck, CanCheck
        <5>3. hangs # 0 BY <4>1, <5>2, TrueRequest
        <5>4. supInbox \in Seq(Messages) /\ Restart(r) \in Messages
          BY MessageFacts DEF RecInv, TInv
        <5>5. In(Restart(r), supInbox') BY <4>1, <5>1, <5>4, InAppend
        <5> QED BY <1>h, <5>3, <5>5 DEF Pending, In
      <4>2. CASE UNCHANGED fault_latched BY <1>2, <2>2, <4>2
      <4>3. CASE fault_latched' = [fault_latched EXCEPT ![wi] = @ /\ RoleIsStale(wi)]
        BY <1>t, <1>2, <2>2, <4>3, Zenon
      <4> QED BY <3>1, <4>1, <4>2, <4>3 DEF WatchCheck
    <3>2. CASE RestartFdir BY <1>2, <3>2 DEF RestartFdir
    <3>3. CASE UNCHANGED fault_latched BY <1>2, <2>2, <3>3
    <3> QED BY <3>1, <3>2, <3>3
            DEF Next, OBCStep, Beat, WatchBegin, WatchPing, MonitorReceive, MonitorOrder,
                ControlReceive, Revive, SweepEntry, CheckFrozen, RoleHangs, FdirHangs,
                BoardResets, Tick, vars, watchdog
  <2> QED BY <2>1, <2>2
<1>3. ASSUME NEW r \in Roles, Pending(r)' PROVE hangs' # 0
  <2>1. CASE ~fdirHung /\ WatchCheck /\ MustAsk /\ wi = r BY <1>h, <2>1, TrueRequest
  <2>2. CASE Pending(r) BY <1>h, <2>2 DEF AskedInv
  <2> QED BY <1>3, <2>1, <2>2, PendingStep DEF RecInv
<1>4. ASSUME dead' # {} PROVE hung' = {} /\ hangs' # 0
  <2>1. CASE Revive
    <3>1. control \in Roles /\ hung' = hung \ {control} /\ UNCHANGED hangs
      BY <2>1 DEF Revive, CanRevive
    <3>2. hangs # 0 /\ (hung # {} => control \in hung) BY <3>1 DEF AskedInv, Pending
    <3> QED BY <3>1, <3>2 DEF RecInv, FaultInv
  <2>2. CASE RestartFdir
    <3>1. UNCHANGED <<dead, hung, hangs>> BY <2>2 DEF RestartFdir, Served
    <3> QED BY <1>4, <3>1 DEF AskedInv
  <2>3. CASE \E r \in Roles : RoleHangs(r)
    <3>1. PICK r \in Roles : RoleHangs(r) BY <2>3
    <3>2. hangs = 0 /\ UNCHANGED dead BY <3>1, NoSecondHang DEF RoleHangs
    <3> QED BY <1>4, <3>2 DEF AskedInv
  <2>4. CASE UNCHANGED <<dead, hung, hangs>> BY <1>4, <2>4 DEF AskedInv
  <2> QED BY <2>1, <2>2, <2>3, <2>4
          DEF Next, OBCStep, Beat, WatchBegin, WatchCheck, WatchPing, MonitorReceive,
              MonitorOrder, ControlReceive, SweepEntry, CheckFrozen, FdirHangs, BoardResets,
              Tick, vars, events
<1> QED BY <1>1, <1>2, <1>3, <1>4 DEF AskedInv

\* While a hung role was not asked for, or before the hang, the kill has cost nothing.
LEMMA UnkilledFacts ==
  ASSUME RecInv, AskedInv, Unkilled
  PROVE  KillTime = 0 /\ \A r \in Roles : ~Pending(r)
<1> USE RoleFacts
<1>t. hung \subseteq Roles /\ control \in Roles \cup {Nobody} BY DEF RecInv, TInv, TypeOK
<1>1. \A r \in Roles : ~Pending(r)
  <2>1. CASE hangs = 0 BY <2>1 DEF AskedInv
  <2>2. CASE \E r \in hung : ~Pending(r)
    <3>1. PICK r \in hung : ~Pending(r) BY <2>2
    <3> QED BY <1>t, <3>1 DEF AskedInv, RecInv, FaultInv
  <2> QED BY <2>1, <2>2 DEF Unkilled
<1>2. control = Nobody /\ Nobody \notin hung BY <1>1, <1>t DEF Pending
<1>3. hung # {} \/ hangs = 0 BY DEF Unkilled
<1> QED BY <1>1, <1>2, <1>3 DEF KillTime

\* No role was killed before a step after which none was.
LEMMA UnkilledStep ==
  ASSUME SingleFault, RecInv, AskedInv, [Next]_vars, Unkilled'
  PROVE  Unkilled
<1>t. hung \subseteq Roles BY DEF RecInv, TInv, TypeOK
<1>h. hangs' = 0 => hangs = 0
  <2>1. hangs \in Nat BY DEF RecInv, TInv, TypeOK
  <2> QED BY <2>1
     DEF Next, OBCStep, Beat, WatchBegin, WatchCheck, WatchPing, MonitorReceive,
         MonitorOrder, ControlReceive, Revive, SweepEntry, CheckFrozen, RestartFdir,
         RoleHangs, FdirHangs, BoardResets, Tick, vars, events
<1>1. CASE hangs' = 0 BY <1>1, <1>h DEF Unkilled
<1>2. CASE \E r \in hung' : ~Pending(r)'
  <2>1. PICK r \in hung' : ~Pending(r)' BY <1>2
  <2>2. r \in Roles BY TStep DEF RecInv, TInv, TypeOK
  <2>3. CASE r \in hung
    <3>1. ~Pending(r) BY <2>1, <2>2, <2>3, PendingKeeps
    <3> QED BY <2>3, <3>1 DEF Unkilled
  <2>4. CASE r \notin hung
    <3>1. RoleHangs(r) BY <2>1, <2>2, <2>4, HungStep
    <3> QED BY <2>2, <3>1, NoSecondHang DEF Unkilled
  <2> QED BY <2>3, <2>4
<1> QED BY <1>1, <1>2 DEF Unkilled

\* With the control thread free, only FDIR's kill keeps the supervisor's sweep.
LEMMA TickSweep ==
  ASSUME TInv, Tick, control = Nobody
  PROVE  si = R + 2 \/ (si = 0 /\ sowed = 0)
<1>1. ~CanSweep BY DEF Tick, CanStep
<1>2. si \in 0..(R + 2) /\ sowed \in 0..MaxAge BY DEF TInv, TypeOK
<1>3. si \in Roles => control # si BY RoleFacts
<1> QED BY <1>1, <1>2, <1>3, ConstantFacts DEF CanSweep, Roles

\* A hung FDIR's stamp at the supervisor.
LEMMA FoundStep ==
  ASSUME SingleFault, Margins, OutInv, [Next]_vars, Served'
  PROVE  Found'
<1> SUFFICES ASSUME fdirHung', si' # R + 2, Unkilled'
             PROVE  fdirAge' <= FdirTimeout + (IF sowed' > 0 THEN 1 ELSE 0)
  BY DEF Found
<1> USE ConstantFacts, RoleFacts
<1>t. /\ fdirAge \in 0..MaxAge /\ sowed \in 0..MaxAge /\ si \in 0..(R + 2)
      /\ control \in Roles \cup {Nobody}
  BY DEF OutInv, RecInv, TInv, TypeOK
<1>u. Unkilled BY UnkilledStep DEF OutInv
<1>k. KillTime = 0 /\ control = Nobody
  BY <1>t, <1>u, UnkilledFacts DEF OutInv, Pending
<1>f. fdirHung /\ si # R + 2 => fdirAge <= FdirTimeout + (IF sowed > 0 THEN 1 ELSE 0)
  BY <1>u DEF OutInv, Found
<1>1. CASE FdirHangs
  <2>1. ~fdirHung /\ UNCHANGED fdirAge BY <1>1 DEF FdirHangs
  <2>2. fdirAge <= 1 BY <1>k, <2>1 DEF OutInv, RecInv, FreshFdir
  <2> QED BY <1>t, <2>1, <2>2 DEF Margins
<1>2. CASE RestartFdir BY <1>2 DEF RestartFdir, Served
<1>3. CASE Tick
  <2>1. UNCHANGED <<si, fdirHung>> /\ fdirAge' = Older(fdirAge) /\ sowed' = Older(sowed)
    BY <1>3 DEF Tick
  <2>2. sowed = 0 BY <1>3, <1>k, <2>1, TickSweep DEF OutInv, RecInv
  <2>3. fdirAge <= FdirTimeout BY <1>f, <2>1, <2>2
  <2>4. sowed' > 0 /\ fdirAge' <= fdirAge + 1 /\ fdirAge' \in 0..MaxAge
    BY <1>t, <2>1, OlderFacts
  <2> QED BY <1>t, <2>3, <2>4
<1>4. CASE CheckFrozen
  <2>1. UNCHANGED <<fdirHung, fdirAge>> /\ ~FdirIsFrozen
    BY <1>4 DEF CheckFrozen, OutInv, Served
  <2> QED BY <1>t, <2>1 DEF FdirIsFrozen
<1>5. CASE ControlReceive
  <2>1. UNCHANGED <<fdirHung, si, sowed>> /\ (fdirAge' = 0 \/ UNCHANGED fdirAge)
    BY <1>5 DEF ControlReceive, sweep
  <2> QED BY <1>f, <1>t, <2>1
<1>6. CASE SweepEntry
  <2>1. UNCHANGED <<fdirHung, sowed, fdirAge>> /\ si <= R BY <1>6 DEF SweepEntry
  <2> QED BY <1>f, <1>t, <2>1
<1>7. CASE UNCHANGED <<fdirHung, si, sowed, fdirAge>> BY <1>f, <1>7
<1> QED BY <1>1, <1>2, <1>3, <1>4, <1>5, <1>6, <1>7
        DEF Next, OBCStep, Beat, WatchBegin, WatchCheck, WatchPing, MonitorReceive,
            MonitorOrder, Revive, RoleHangs, BoardResets, vars, sweep

-----------------------------------------------------------------------------
\* The costs are numbers.
LEMMA CostFacts == /\ FdirCost \in Nat /\ SleepCost \in Nat
                   /\ FdirCost = (FdirTimeout + 1 + Grace) + (RoleTimeout + 1)
BY ConstantFacts DEF FdirCost, SleepCost

\* What is spent is a number, and counts every hang of FDIR.
LEMMA SpentFacts ==
  ASSUME TInv
  PROVE  Spent \in Nat /\ (fdirHangs > 0 => Spent >= FdirCost) /\ Spent >= SleepCost
<1>1. losses \in Nat /\ fdirHangs \in Nat BY DEF TInv, TypeOK
<1>2. \A n, c \in Nat : n * c \in Nat /\ (n > 0 => n * c >= c) OBVIOUS
<1> DEFINE p == fdirHangs * FdirCost
<1>3. p \in Nat /\ (fdirHangs > 0 => p >= FdirCost) BY <1>1, <1>2, CostFacts
<1>4. Spent = SleepCost + losses + p BY DEF Spent
<1> HIDE DEF p
<1> QED BY <1>1, <1>3, <1>4, CostFacts

\* What is spent is never given back.
LEMMA SpentStep ==
  ASSUME TInv, [Next]_vars
  PROVE  /\ Spent' \in Nat /\ Spent <= Spent'
         /\ FdirHangs => Spent' = Spent + FdirCost
         /\ losses' = losses + 1 => Spent' >= Spent + 1
<1> DEFINE p == fdirHangs * FdirCost
           q == fdirHangs' * FdirCost
<1>1. losses \in Nat /\ fdirHangs \in Nat BY DEF TInv, TypeOK
<1>2. \A n, c \in Nat : n * c \in Nat /\ (n + 1) * c = n * c + c OBVIOUS
<1>3. (UNCHANGED losses \/ losses' = losses + 1)
      /\ (~FdirHangs => UNCHANGED fdirHangs)
      /\ (FdirHangs => fdirHangs' = fdirHangs + 1 /\ UNCHANGED losses)
  BY DEF Next, OBCStep, Beat, WatchBegin, WatchCheck, WatchPing, MonitorReceive,
         MonitorOrder, ControlReceive, Revive, SweepEntry, CheckFrozen, RestartFdir,
         RoleHangs, FdirHangs, BoardResets, Tick, vars, events
<1>4. p \in Nat /\ (UNCHANGED fdirHangs => q = p)
      /\ (fdirHangs' = fdirHangs + 1 => q = p + FdirCost)
  BY <1>1, <1>2, CostFacts
<1>5. Spent = SleepCost + losses + p /\ Spent' = SleepCost + losses' + q
  <2>1. FdirCost' = FdirCost /\ SleepCost' = SleepCost BY DEF FdirCost, SleepCost
  <2> QED BY <2>1 DEF Spent
<1> HIDE DEF p, q
<1> QED BY <1>1, <1>3, <1>4, <1>5, CostFacts

\* This FDIR sleeps only if enough notices came.
LEMMA SleepCostFacts ==
  ASSUME TInv, CountInv
  PROVE  SleepTime \in Nat /\ SleepTime <= SleepCost
<1> DEFINE n == Cardinality(Notices(fdirInbox))
<1>1. /\ reset_counts \in Nat /\ notices \in Nat /\ pause \in 0..Pause
      /\ fdirInbox \in Seq(Roles \cup {Notice})
  BY DEF TInv, TypeOK
<1>2. n \in Nat BY <1>1, NoticesFinite
<1>3. reset_counts + n <= notices /\ notices <= MaxNotices BY DEF CountInv
<1> HIDE DEF n
<1>4. reset_counts <= MaxNotices BY <1>1, <1>2, <1>3, ConstantFacts
<1>5. CASE reset_counts < Threshold
  <2>1. SleepTime = 0 BY <1>5 DEF SleepTime
  <2> QED BY <2>1, CostFacts
<1>6. CASE ~(reset_counts < Threshold)
  <2>1. SleepTime = Pause - pause BY <1>6 DEF SleepTime
  <2>2. SleepCost = Pause BY <1>1, <1>4, <1>6, ConstantFacts DEF SleepCost
  <2> QED BY <1>1, <2>1, <2>2, ConstantFacts
<1> QED BY <1>5, <1>6

\* What a stamp counts of the outage is at most the time-out and a second.
LEMMA CountedFacts ==
  ASSUME TInv, NEW r \in Roles
  PROVE  Counted(r) \in Nat /\ Counted(r) <= RoleTimeout + 1
<1>1. last_heartbeat[r] \in Nat BY ConstantFacts DEF TInv, TypeOK
<1> QED BY <1>1, ConstantFacts DEF Counted

\* While FDIR runs and was not heard, the outage is within the deadline of the request.
LEMMA DeadlineFacts ==
  ASSUME OutInv, ~fdirHung, NEW r \in hung, ~Pending(r)
  PROVE  hungFor[r] <= Spent + RoleTimeout + 1
<1>1. r \in Roles /\ hungFor[r] \in Nat BY DEF OutInv, RecInv, TInv, TypeOK
<1>2. Noticed(r) BY DEF OutInv, OutageInv
<1>3. Spent \in Nat /\ Spent >= SleepCost BY SpentFacts DEF OutInv, RecInv
<1>4. SleepTime \in Nat /\ SleepTime <= SleepCost BY SleepCostFacts DEF OutInv, RecInv
<1>5. Counted(r) \in Nat /\ Counted(r) <= RoleTimeout + 1
  BY <1>1, CountedFacts DEF OutInv, RecInv
<1>6. hungFor[r] <= SleepTime \/ hungFor[r] <= Spent + Counted(r) BY <1>2 DEF Noticed
<1> QED BY <1>1, <1>3, <1>4, <1>5, <1>6, ConstantFacts, CostFacts

\* A stamp of a role that hangs comes from before the hang, and a step without a
\* stamp or a second leaves what FDIR measures, but for a lost request.
LEMMA NoticedStill ==
  ASSUME SingleFault, Margins, OutInv, [Next]_vars, ~Tick, ~RestartFdir, ~fdirHung',
         NEW r \in hung, r \in hung', ~Pending(r), ~Pending(r)',
         hungFor'[r] = hungFor[r]
  PROVE  Noticed(r)'
<1> USE ConstantFacts, RoleFacts
<1>0. ~fdirHung BY SameFdir
<1>t. /\ r \in Roles /\ wi \in 0..(R + 1) /\ wowed \in 0..MaxAge /\ late \in 0..MaxAge
      /\ last_heartbeat \in [Roles -> 0..MaxAge] /\ hungFor[r] \in Nat
      /\ fdirInbox \in Seq(Roles \cup {Notice})
      /\ last_heartbeat[r] \in Nat
  BY DEF OutInv, RecInv, TInv, TypeOK
<1>n. TInv' BY TStep DEF OutInv, RecInv
<1>o. Noticed(r) BY DEF OutInv, OutageInv
<1>p. Noticed(r)' <=>
        /\ In(r, fdirInbox') => hungFor'[r] <= SleepTime'
        /\ ~In(r, fdirInbox') => hungFor'[r] <= Spent' + Counted(r)'
  BY DEF Noticed, In
<1>s. SleepTime \in Nat /\ SleepTime <= SleepCost /\ SleepTime <= SleepTime' /\ SleepTime' \in Nat
  BY <1>0, <1>n, SleepCostFacts, SleepStep, SleepFactsNext DEF OutInv, RecInv
<1>e. /\ Spent \in Nat /\ Spent' \in Nat /\ Spent <= Spent' /\ Spent >= SleepCost
      /\ losses' = losses + 1 => Spent' >= Spent + 1
  BY SpentFacts, SpentStep DEF OutInv, RecInv
<1>c. Counted(r) \in Nat /\ Counted(r)' \in Nat
  <2>0. last_heartbeat' \in [Roles -> 0..MaxAge] BY <1>n DEF TInv, TypeOK
  <2>1. last_heartbeat'[r] \in Nat BY <1>t, <2>0
  <2>2. Counted(r)' \in Nat BY <2>1 DEF Counted
  <2> QED BY <1>t, <2>2, CountedFacts DEF OutInv, RecInv
<1>1. CASE In(r, fdirInbox)
  <2>1. hungFor[r] <= SleepTime BY <1>0, <1>1, <1>o DEF Noticed
  <2>2. hungFor'[r] <= SleepTime' BY ONLY <1>s, <1>t, <2>1, hungFor'[r] = hungFor[r]
  <2>3. hungFor'[r] <= Spent' + Counted(r)'
    BY ONLY <1>s, <1>t, <1>e, <1>c, <2>1, hungFor'[r] = hungFor[r], CostFacts
  <2> QED BY <1>p, <2>2, <2>3
<1>2. CASE ~In(r, fdirInbox)
  <2>1. hungFor[r] <= Spent + Counted(r) BY <1>0, <1>2, <1>o DEF Noticed
  <2>2. ~In(r, fdirInbox') /\ last_heartbeat'[r] = last_heartbeat[r]
    <3>1. ASSUME NEW s \in Roles, Beat(s)
          PROVE  ~In(r, fdirInbox') /\ last_heartbeat'[r] = last_heartbeat[r]
      <4>1. s # r /\ UNCHANGED last_heartbeat
            /\ (UNCHANGED fdirInbox \/ fdirInbox' = Append(fdirInbox, s))
        BY <3>1 DEF Beat, CanBeat, Running, monitor
      <4>2. CASE UNCHANGED fdirInbox BY <1>2, <4>1, <4>2
      <4>3. CASE fdirInbox' = Append(fdirInbox, s)
        <5>1. In(r, fdirInbox') <=> In(r, fdirInbox) \/ r = s BY <1>t, <4>3, InAppend
        <5> QED BY <1>2, <4>1, <5>1
      <4> QED BY <4>1, <4>2, <4>3
    <3>2. CASE MonitorReceive
      <4>1. /\ fdirInbox # <<>> /\ fdirInbox' = Tail(fdirInbox)
            /\ \/ UNCHANGED last_heartbeat
               \/ last_heartbeat' = [last_heartbeat EXCEPT ![Head(fdirInbox)] = 0]
        BY <3>2 DEF MonitorReceive, CanReceive
      <4>2. r # Head(fdirInbox) /\ ~In(r, fdirInbox') BY <1>2, <1>t, <4>1, InTail
      <4> QED BY <1>t, <4>1, <4>2
    <3>3. CASE BoardResets
      <4>1. fdirInbox' = Append(fdirInbox, Notice) /\ UNCHANGED last_heartbeat
        BY <3>3 DEF BoardResets, monitor
      <4> QED BY <1>2, <1>t, <4>1, InAppend
    <3>4. CASE UNCHANGED <<fdirInbox, last_heartbeat>> BY <1>2, <3>4
    <3>5. CASE \E s \in Roles : Beat(s) BY <3>1, <3>5
    <3> QED BY <3>2, <3>3, <3>4, <3>5
            DEF Next, OBCStep, WatchBegin, WatchCheck, WatchPing, MonitorOrder,
                ControlReceive, Revive, SweepEntry, CheckFrozen, RoleHangs, FdirHangs, vars,
                monitor
  <2>3. Spent + Counted(r) <= Spent' + Counted(r)'
    <3> DEFINE a == last_heartbeat[r]
               e == Spent
               f == Spent'
    <3>1. Counted(r) = IF a <= RoleTimeout THEN a
                       ELSE RoleTimeout + (IF Unchecked(r) THEN 1 ELSE 0)
      BY DEF Counted
    <3>2. Counted(r)' = IF a <= RoleTimeout THEN a
                        ELSE RoleTimeout + (IF Unchecked(r)' THEN 1 ELSE 0)
      BY <2>2 DEF Counted
    <3>3. e \in Nat /\ f \in Nat /\ e <= f /\ a \in Nat BY <1>e, <1>t
    <3>4. CASE WatchCheck /\ wi = r /\ a > RoleTimeout
      <4>1. Unkilled BY DEF Unkilled
      <4>2. late = 0
        <5>1. KillTime = 0 BY <4>1, UnkilledFacts DEF OutInv
        <5>2. late <= KillTime BY <1>0, <1>t, <3>4 DEF OutInv, RecInv, FreshFdir
        <5> QED BY <1>t, <5>1, <5>2
      <4>3. RoleIsStale(r) BY <1>t, <3>4, <4>2 DEF RoleIsStale
      <4>4. ~fault_latched[r] BY <1>t DEF OutInv, AskedInv
      <4>5. MustAsk BY <1>t, <3>4, <4>3, <4>4 DEF MustAsk
      <4>6. losses' = losses + 1
        <5>1. CASE supInbox' = Append(supInbox, Restart(wi))
          <6>1. supInbox \in Seq(Messages) /\ Restart(r) \in Messages
            BY <1>t, MessageFacts DEF OutInv, RecInv, TInv
          <6>2. In(Restart(r), supInbox') BY <3>4, <5>1, <6>1, InAppend
          <6>3. Pending(r)' BY <6>2 DEF Pending, In
          <6> QED BY <6>3
        <5> QED BY <3>4, <4>5, <5>1 DEF WatchCheck
      <4>7. f >= e + 1 BY <1>e, <4>6
      <4> HIDE DEF a, e, f
      <4>8. e + Counted(r) <= f + Counted(r)' BY <1>c, <3>1, <3>2, <3>3, <3>4, <4>7
      <4> QED BY <4>8 DEF e, f
    <3>5. CASE ~(WatchCheck /\ wi = r /\ a > RoleTimeout)
      <4>1. a <= RoleTimeout \/ (Unchecked(r) => Unchecked(r)')
        <5>1. CASE WatchCheck
          <6>1. wi' = wi + 1 /\ UNCHANGED wowed BY <5>1 DEF WatchCheck
          <6>2. wi # r => (Unchecked(r) => Unchecked(r)') BY <1>t, <6>1 DEF Unchecked
          <6> QED BY <3>3, <3>5, <5>1, <6>2
        <5>2. CASE WatchBegin
          <6>1. wi' = 1 /\ UNCHANGED wowed BY <5>2 DEF WatchBegin
          <6> QED BY <1>t, <6>1 DEF Unchecked
        <5>3. CASE WatchPing
          <6>1. wi = R + 1 BY <5>3 DEF WatchPing, CanPing
          <6> QED BY <1>t, <6>1 DEF Unchecked
        <5>4. CASE UNCHANGED <<wi, wowed>> BY <5>4 DEF Unchecked
        <5> QED BY <5>1, <5>2, <5>3, <5>4
                DEF Next, OBCStep, Beat, MonitorReceive, MonitorOrder, ControlReceive,
                    Revive, SweepEntry, CheckFrozen, RoleHangs, FdirHangs, BoardResets,
                    vars, watchdog
      <4> HIDE DEF a, e, f
      <4>2. Counted(r) <= Counted(r)' BY <3>1, <3>2, <3>3, <4>1
      <4>3. e + Counted(r) <= f + Counted(r)' BY <1>c, <3>3, <4>2
      <4> QED BY <4>3 DEF e, f
    <3> QED BY <3>4, <3>5
  <2>4. hungFor'[r] <= Spent' + Counted(r)'
    BY ONLY <1>t, <1>e, <1>c, <2>1, <2>3, hungFor'[r] = hungFor[r]
  <2> QED BY <1>p, <2>2, <2>4
<1> QED BY <1>1, <1>2

\* A second that passes is measured.
LEMMA NoticedTick ==
  ASSUME SingleFault, Margins, OutInv, Tick, Served', ~fdirHung, NEW r \in hung, ~Pending(r)
  PROVE  Noticed(r)'
<1> USE ConstantFacts, RoleFacts
<1>0. [Next]_vars BY DEF Next, OBCStep
<1>t. /\ r \in Roles /\ last_heartbeat[r] \in 0..MaxAge /\ hungFor[r] \in Nat
      /\ hungFor \in [Roles -> Nat] /\ control \in Roles \cup {Nobody}
  BY DEF OutInv, RecInv, TInv, TypeOK
<1>n. TInv' BY <1>0, TStep DEF OutInv, RecInv
<1>k. control = Nobody
  <2>1. Unkilled BY DEF Unkilled
  <2> QED BY <1>t, <2>1, UnkilledFacts DEF OutInv, Pending
<1>q. wi = 0 /\ wowed = 0 /\ (pause > 0 \/ fdirInbox = <<>>)
  <2>1. control \notin hung BY <1>k DEF OutInv, RecInv, TInv, TypeOK
  <2>2. ~InSend BY DEF Tick, Served
  <2>3. pause \in 0..Pause BY DEF OutInv, RecInv, TInv, TypeOK
  <2>4. ordering \/ fdirInbox = <<>> BY TickFacts DEF OutInv, RecInv
  <2>5. pause > 0 \/ fdirInbox = <<>> BY <2>2, <2>3, <2>4 DEF InSend
  <2> QED BY <2>1, <2>5, TickFacts DEF OutInv, RecInv
<1>u. /\ UNCHANGED <<hung, wi, fdirInbox, fdirHung>> /\ wowed' = Older(wowed)
      /\ last_heartbeat'[r] = Older(last_heartbeat[r])
      /\ hungFor'[r] = LongerHung(hungFor[r])
  BY <1>t DEF Tick, Running
<1>w. wowed' > 0 /\ wi' = 0 BY <1>q, <1>u, OlderFacts
<1>x. hungFor'[r] <= hungFor[r] + 1 /\ hungFor'[r] \in Nat
  <2>1. hungFor'[r] \in Nat BY <1>n, <1>t DEF TInv, TypeOK
  <2>2. hungFor'[r] = hungFor[r] + 1 \/ hungFor'[r] = hungFor[r] BY <1>u DEF LongerHung
  <2> QED BY <1>t, <2>1, <2>2
<1>o. Noticed(r) BY DEF OutInv, OutageInv
<1>p. Noticed(r)' <=>
        /\ In(r, fdirInbox') => hungFor'[r] <= SleepTime'
        /\ ~In(r, fdirInbox') => hungFor'[r] <= Spent' + Counted(r)'
  BY <1>u DEF Noticed, In
<1>1. CASE In(r, fdirInbox)
  <2>1. pause > 0 BY <1>1, <1>q, InEmpty
  <2>2. SleepTime' = SleepTime + 1 /\ SleepTime \in Nat
    <3>1. ~RestartFdir BY DEF RestartFdir, Tick, CanStep
    <3> QED BY <1>0, <2>1, <3>1, SleepStep, SleepFacts DEF OutInv, RecInv
  <2>3. hungFor[r] <= SleepTime BY <1>1, <1>o DEF Noticed
  <2>4. hungFor'[r] <= SleepTime' BY ONLY <1>t, <1>x, <2>2, <2>3
  <2> QED BY <1>p, <1>u, <1>1, <2>4
<1>2. CASE ~In(r, fdirInbox)
  <2> DEFINE a == last_heartbeat[r]
             b == last_heartbeat'[r]
             e == Spent
             f == Spent'
             c == Counted(r)
             d == Counted(r)'
  <2>1. e \in Nat /\ f \in Nat /\ e <= f BY <1>0, SpentFacts, SpentStep DEF OutInv, RecInv
  <2>2. c = (IF a <= RoleTimeout THEN a ELSE RoleTimeout)
    BY <1>q DEF Counted, Unchecked
  <2>3. d = (IF b <= RoleTimeout THEN b ELSE RoleTimeout + 1)
    <3>1. Unchecked(r)' BY <1>t, <1>w DEF Unchecked
    <3> QED BY <3>1 DEF Counted
  <2>4. a \in Nat /\ a <= MaxAge /\ (b = a + 1 \/ (a = MaxAge /\ b = a))
    BY <1>t, <1>u DEF Older
  <2>5. MaxAge > RoleTimeout BY TimesAssumption
  <2>6. hungFor[r] <= e + c BY <1>2, <1>o DEF Noticed
  <2> HIDE DEF a, b, c, d, e, f
  <2>7. c \in Nat /\ d \in Nat /\ d >= c + 1 BY <2>2, <2>3, <2>4, <2>5
  <2>8. hungFor'[r] <= f + d BY ONLY <1>t, <1>x, <2>1, <2>6, <2>7
  <2> QED BY <1>p, <1>u, <1>2, <2>8 DEF d, f
<1> QED BY <1>1, <1>2

\* While FDIR hangs, its stamp at the supervisor or its kill measures every second.
LEMMA WaitedStep ==
  ASSUME SingleFault, Margins, OutInv, [Next]_vars, Served', fdirHung, fdirHung',
         NEW r \in hung, r \in hung', ~Pending(r),
         Tick \/ hungFor'[r] = hungFor[r]
  PROVE  Waited(r)'
<1> USE ConstantFacts, RoleFacts
<1> DEFINE b == (Spent - FdirCost) + RoleTimeout + 1
           c == (Spent' - FdirCost) + RoleTimeout + 1
           h == hungFor[r]
           g == hungFor'[r]
<1>t. /\ r \in Roles /\ h \in Nat /\ hungFor \in [Roles -> Nat]
      /\ fdirAge \in 0..MaxAge /\ fdirLeft \in 0..Grace /\ si \in 0..(R + 2)
      /\ sowed \in 0..MaxAge /\ supInbox \in Seq(Messages)
      /\ control \in Roles \cup {Nobody}
  BY DEF OutInv, RecInv, TInv, TypeOK
<1>n. TInv' BY TStep DEF OutInv, RecInv
<1>g. g \in Nat BY <1>n, <1>t DEF TInv, TypeOK
<1>u. Unkilled BY DEF Unkilled
<1>k. control = Nobody BY <1>t, <1>u, UnkilledFacts DEF OutInv, Pending
<1>b. b \in Nat /\ c \in Nat /\ b <= c
  <2>1. Spent \in Nat /\ Spent' \in Nat /\ Spent <= Spent' /\ Spent >= FdirCost
    BY SpentFacts, SpentStep DEF OutInv, RecInv, CountInv
  <2>2. \A x, y, z \in Nat : x >= z /\ x <= y =>
          /\ (x - z) + RoleTimeout + 1 \in Nat /\ (y - z) + RoleTimeout + 1 \in Nat
          /\ (x - z) + RoleTimeout + 1 <= (y - z) + RoleTimeout + 1
    OBVIOUS
  <2> QED BY <2>1, <2>2, CostFacts
<1>f. si # R + 2 => fdirAge <= FdirTimeout + (IF sowed > 0 THEN 1 ELSE 0)
  BY <1>u DEF OutInv, Found
<1>o. /\ si # R + 2 => h <= b + fdirAge
      /\ si = R + 2 => h <= b + FdirTimeout + 1 + (Grace - fdirLeft)
      /\ In(Ping(Fdir), supInbox) => h <= b
  BY DEF OutInv, OutageInv, Waited
<1>p. Waited(r)' <=>
        /\ si' # R + 2 => g <= c + fdirAge'
        /\ si' = R + 2 => g <= c + FdirTimeout + 1 + (Grace - fdirLeft')
        /\ In(Ping(Fdir), supInbox') => g <= c
  <2>1. FdirCost' = FdirCost BY DEF FdirCost
  <2> QED BY <2>1 DEF Waited, In
<1> HIDE DEF b, c, h, g
<1>1. CASE Tick
  <2>1. /\ UNCHANGED <<si, supInbox>> /\ fdirAge' = Older(fdirAge)
        /\ fdirLeft' = IF si = R + 2 THEN fdirLeft - 1 ELSE 0
        /\ g = LongerHung(h)
    BY <1>1, <1>t DEF Tick, Running, g, h
  <2>2. g <= h + 1
    <3>1. g = h + 1 \/ g = h BY <2>1 DEF LongerHung
    <3> QED BY <1>g, <1>t, <3>1
  <2>3. supInbox = <<>> /\ ~In(Ping(Fdir), supInbox')
    <3>1. supInbox = <<>>
      <4>1. control \notin hung BY <1>k DEF OutInv, RecInv, TInv, TypeOK
      <4> QED BY <1>1, <4>1, TickFacts DEF OutInv, RecInv
    <3> QED BY <2>1, <3>1, InEmpty
  <2>4. CASE si = R + 2
    <3>1. fdirLeft' = fdirLeft - 1 BY <2>1, <2>4
    <3>2. g <= c + FdirTimeout + 1 + (Grace - fdirLeft')
      BY <1>b, <1>g, <1>t, <1>o, <2>2, <2>4, <3>1
    <3> QED BY <1>p, <2>1, <2>3, <2>4, <3>2
  <2>5. CASE si # R + 2
    <3>1. sowed = 0 BY <1>1, <1>k, <2>5, TickSweep DEF OutInv, RecInv
    <3>2. fdirAge <= FdirTimeout BY <1>f, <2>5, <3>1
    <3>3. fdirAge' = fdirAge + 1 BY <1>t, <2>1, <3>2, TimesAssumption DEF Older
    <3>4. g <= c + fdirAge' BY <1>b, <1>g, <1>t, <1>o, <2>2, <2>5, <3>3
    <3> QED BY <1>p, <2>1, <2>3, <2>5, <3>4
  <2> QED BY <2>4, <2>5
<1>2. CASE ControlReceive /\ g = h
  <2> DEFINE m == Head(supInbox)
  <2>1. /\ UNCHANGED <<si, fdirLeft>> /\ supInbox # <<>> /\ supInbox' = Tail(supInbox)
        /\ \/ UNCHANGED fdirAge
           \/ m.restart = Nobody /\ m.src = Fdir /\ fdirAge' = 0
    BY <1>2 DEF ControlReceive, CanServe, sweep
  <2>2. m \in Messages /\ (In(Ping(Fdir), supInbox) <=> Ping(Fdir) = m \/ In(Ping(Fdir), supInbox'))
    BY <1>t, <2>1, InTail
  <2>3. CASE UNCHANGED fdirAge
    <3>1. In(Ping(Fdir), supInbox') => In(Ping(Fdir), supInbox) BY <2>2
    <3> HIDE DEF m
    <3> QED BY <1>b, <1>g, <1>t, <1>o, <1>p, <1>2, <2>1, <2>3, <3>1
  <2>4. CASE m.restart = Nobody /\ m.src = Fdir /\ fdirAge' = 0
    <3>1. m = Ping(Fdir)
      <4>1. m \in [src : Roles \cup {Fdir}, restart : Roles \cup {Nobody}]
        BY <2>2, MessageFacts
      <4> HIDE DEF m
      <4>2. m = [src |-> Fdir, restart |-> Nobody] BY <2>4, <4>1
      <4> QED BY <4>2 DEF Ping
    <3>2. h <= b BY <1>o, <2>2, <3>1
    <3> HIDE DEF m
    <3> QED BY <1>b, <1>g, <1>t, <1>p, <1>2, <2>1, <2>4, <3>2
  <2> QED BY <2>1, <2>3, <2>4
<1>3. CASE CheckFrozen /\ g = h
  <2>1. UNCHANGED <<supInbox, fdirAge>> BY <1>3 DEF CheckFrozen
  <2>2. si = R + 1 BY <1>3 DEF CheckFrozen
  <2>3. si' = 0 \/ (si' = R + 2 /\ fdirLeft' = Grace) BY <1>3 DEF CheckFrozen
  <2>4. h <= b + fdirAge /\ fdirAge <= FdirTimeout + 1 BY <1>f, <1>o, <1>t, <2>2
  <2>5. g <= c + fdirAge' BY <1>b, <1>g, <1>t, <1>3, <2>1, <2>4
  <2>6. si' = R + 2 => g <= c + FdirTimeout + 1 + (Grace - fdirLeft')
    BY <1>b, <1>g, <1>t, <1>3, <2>1, <2>3, <2>4
  <2>7. In(Ping(Fdir), supInbox') => g <= c BY <1>b, <1>g, <1>t, <1>o, <1>3, <2>1
  <2> QED BY <1>p, <2>5, <2>6, <2>7
<1>4. ASSUME g = h, UNCHANGED <<fdirAge, fdirLeft>>, si' = R + 2 <=> si = R + 2,
             In(Ping(Fdir), supInbox') => In(Ping(Fdir), supInbox)
      PROVE  Waited(r)'
  BY <1>b, <1>g, <1>t, <1>o, <1>p, <1>4
<1>5. CASE SweepEntry /\ g = h
  <2>1. UNCHANGED <<fdirAge, fdirLeft, supInbox>> /\ si <= R /\ si' = si + 1
    BY <1>5 DEF SweepEntry
  <2>2. si' = R + 2 <=> si = R + 2 BY <1>t, <2>1
  <2> QED BY <1>4, <1>5, <2>1, <2>2
<1>6. ASSUME NEW s \in Roles, Beat(s), g = h PROVE Waited(r)'
  <2>1. UNCHANGED <<fdirAge, fdirLeft, si>>
        /\ (UNCHANGED supInbox \/ supInbox' = Append(supInbox, Ping(s)))
    BY <1>6 DEF Beat, sweep
  <2>2. In(Ping(Fdir), supInbox') => In(Ping(Fdir), supInbox)
    <3>1. CASE UNCHANGED supInbox BY <3>1
    <3>2. CASE supInbox' = Append(supInbox, Ping(s))
      <4>1. Ping(s) \in Messages /\ Ping(s) # Ping(Fdir) BY MessageFacts
      <4> QED BY <1>t, <3>2, <4>1, InAppend
    <3> QED BY <2>1, <3>1, <3>2
  <2> QED BY <1>4, <1>6, <2>1, <2>2
<1>7. CASE g = h /\ UNCHANGED <<fdirAge, fdirLeft, si, supInbox>> BY <1>4, <1>7
<1>8. CASE (\E s \in Roles : Beat(s)) /\ g = h BY <1>6, <1>8
<1>9. CASE WatchBegin \/ WatchCheck \/ WatchPing
  BY <1>9 DEF WatchBegin, WatchCheck, CanCheck, WatchPing, CanPing
<1>10. CASE RestartFdir BY <1>10 DEF RestartFdir, Served
<1>11. Tick \/ g = h BY DEF g, h
<1> QED BY <1>1, <1>2, <1>3, <1>5, <1>7, <1>8, <1>9, <1>10, <1>11
        DEF Next, OBCStep, MonitorReceive, MonitorOrder, Revive, RoleHangs, FdirHangs,
            BoardResets, vars, sweep

\* What a step does to the seconds a role has hung.
LEMMA HungForStep ==
  ASSUME TInv, [Next]_vars, NEW r \in Roles, r \in hung'
  PROVE  /\ hungFor'[r] \in Nat /\ hungFor'[r] <= hungFor[r] + 1
         /\ ~Tick => hungFor'[r] = hungFor[r]
<1>t. hungFor \in [Roles -> Nat] /\ hungFor[r] \in Nat BY DEF TInv, TypeOK
<1>n. hungFor'[r] \in Nat
  <2>1. TInv' BY TStep
  <2> QED BY <2>1 DEF TInv, TypeOK
<1>1. CASE Revive
  <2>1. r # control /\ (hungFor' = [hungFor EXCEPT ![control] = 0] \/ UNCHANGED hungFor)
    BY <1>1 DEF Revive
  <2>2. hungFor'[r] = hungFor[r] BY <1>t, <2>1
  <2> QED BY <1>n, <1>t, <2>2
<1>2. CASE Tick
  <2>1. r \in hung /\ hungFor'[r] = LongerHung(hungFor[r]) BY <1>2 DEF Tick, Running
  <2>2. hungFor'[r] = hungFor[r] + 1 \/ hungFor'[r] = hungFor[r]
    BY <2>1 DEF LongerHung
  <2> QED BY <1>n, <1>t, <1>2, <2>2
<1>3. CASE UNCHANGED hungFor BY <1>n, <1>t, <1>3
<1> QED BY <1>1, <1>2, <1>3
        DEF Next, OBCStep, Beat, WatchBegin, WatchCheck, WatchPing, MonitorReceive,
            MonitorOrder, ControlReceive, SweepEntry, CheckFrozen, RestartFdir, RoleHangs,
            FdirHangs, BoardResets, vars, ghosts

\* Once asked for, only the kill takes time.
LEMMA KilledStep ==
  ASSUME SingleFault, OutInv, [Next]_vars, NEW r \in hung, r \in hung', Pending(r)
  PROVE  hungFor'[r] <= Spent' + RoleTimeout + 1 + (IF control' = r THEN Grace - left' ELSE 0)
<1> USE ConstantFacts, RoleFacts
<1> DEFINE h == hungFor[r]
           g == hungFor'[r]
           e == Spent
           f == Spent'
<1>t. /\ r \in Roles /\ h \in Nat /\ left \in 0..Grace /\ control \in Roles \cup {Nobody}
  BY DEF OutInv, RecInv, TInv, TypeOK
<1>g. g \in Nat /\ g <= h + 1 /\ (~Tick => g = h) BY <1>t, HungForStep DEF OutInv, RecInv
<1>e. e \in Nat /\ f \in Nat /\ e <= f BY SpentFacts, SpentStep DEF OutInv, RecInv
<1>l. left' \in 0..Grace
  <2>1. TInv' BY TStep DEF OutInv, RecInv
  <2> QED BY <2>1 DEF TInv, TypeOK
<1>o. h <= e + RoleTimeout + 1 + (IF control = r THEN Grace - left ELSE 0)
  BY DEF OutInv, OutageInv
<1> HIDE DEF g, h, e, f
<1> SUFFICES g <= f + RoleTimeout + 1 + (IF control' = r THEN Grace - left' ELSE 0)
  BY DEF g, f
<1>1. CASE Tick
  <2>1. control = r
    <3>1. CASE control = Nobody /\ supInbox = <<>>
      <4>1. control # r BY <1>t, <3>1
      <4> QED BY <3>1, <4>1, InEmpty DEF Pending
    <3>2. CASE control \in hung BY <3>2 DEF OutInv, RecInv, FaultInv
    <3> QED BY <1>1, <3>1, <3>2, TickFacts DEF OutInv, RecInv
  <2>2. control' = r /\ left' = left - 1 BY <1>1, <1>t, <2>1 DEF Tick
  <2> QED BY <1>e, <1>g, <1>l, <1>o, <1>t, <2>1, <2>2
<1>2. CASE ~Tick /\ control # r
  <2>1. h <= e + RoleTimeout + 1 BY <1>e, <1>o, <1>t, <1>2
  <2>2. g = h BY <1>g, <1>2
  <2>3. \A x, y, z, a \in Nat : a <= x + RoleTimeout + 1 /\ x <= y =>
          a <= y + RoleTimeout + 1 + z
    OBVIOUS
  <2>4. (IF control' = r THEN Grace - left' ELSE 0) \in Nat
    <3>1. \A l \in 0..Grace : Grace - l \in Nat OBVIOUS
    <3>2. Grace - left' \in Nat BY <1>l, <3>1
    <3> QED BY <3>2, Zenon
  <2> QED BY <1>e, <1>g, <1>t, <2>1, <2>2, <2>3, <2>4
<1>3. CASE ~Tick /\ control = r
  <2>1. UNCHANGED <<control, left>>
    <3>1. CASE Revive BY <1>3, <3>1 DEF Revive
    <3>2. CASE ControlReceive BY <1>t, <1>3, <3>2 DEF ControlReceive, CanServe
    <3> QED BY <1>3, <3>1, <3>2
            DEF Next, OBCStep, Beat, WatchBegin, WatchCheck, WatchPing, MonitorReceive,
                MonitorOrder, SweepEntry, CheckFrozen, RestartFdir, RoleHangs, FdirHangs,
                BoardResets, vars, killing
  <2> QED BY <1>e, <1>g, <1>o, <1>t, <1>3, <2>1
<1> QED BY <1>1, <1>2, <1>3

\* The new FDIR starts with what the hang of the old one has cost.
LEMMA RestartedStep ==
  ASSUME OutInv, RestartFdir, [Next]_vars, NEW r \in hung, r \in hung', ~Pending(r),
         hungFor'[r] = hungFor[r]
  PROVE  Noticed(r)'
<1> USE ConstantFacts, RoleFacts
<1>1. fdirHung /\ si = R + 2 BY DEF RestartFdir, OutInv, CountInv
<1>t. r \in Roles /\ hungFor[r] \in Nat /\ fdirLeft \in 0..Grace
  BY DEF OutInv, RecInv, TInv, TypeOK
<1> DEFINE e == Spent
           f == Spent'
           c == FdirCost
<1>2. hungFor[r] <= ((e - c) + RoleTimeout + 1) + FdirTimeout + 1 + (Grace - fdirLeft)
  BY <1>1 DEF OutInv, OutageInv, Waited
<1>3. e \in Nat /\ f \in Nat /\ e <= f BY SpentFacts, SpentStep DEF OutInv, RecInv
<1>4. c \in Nat /\ c = (FdirTimeout + 1 + Grace) + (RoleTimeout + 1) BY CostFacts
<1> HIDE DEF e, f, c
<1>5. hungFor[r] <= f BY <1>t, <1>2, <1>3, <1>4
<1>6. last_heartbeat'[r] = 0 /\ fdirInbox' = <<>> BY <1>t DEF RestartFdir
<1>7. Counted(r)' = 0 BY <1>6 DEF Counted
<1>8. ~In(r, fdirInbox)' BY <1>6 DEF In
<1>9. hungFor'[r] <= Spent' + Counted(r)' BY <1>3, <1>5, <1>7, <1>t DEF f
<1> QED BY <1>8, <1>9 DEF Noticed

\* The outage of a hung role is measured in every state.
LEMMA OutageStep ==
  ASSUME SingleFault, Margins, OutInv, [Next]_vars, Served'
  PROVE  OutageInv'
<1> USE ConstantFacts
<1>n. TInv' BY TStep DEF OutInv, RecInv
<1> SUFFICES ASSUME NEW r \in hung'
             PROVE  IF Pending(r)'
                    THEN hungFor'[r] <= Spent' + RoleTimeout + 1
                                        + (IF control' = r THEN Grace - left' ELSE 0)
                    ELSE Noticed(r)' /\ Waited(r)'
  BY DEF OutageInv
<1>r. r \in Roles BY <1>n DEF TInv, TypeOK
<1>g. /\ hungFor'[r] \in Nat /\ hungFor'[r] <= hungFor[r] + 1
      /\ ~Tick => hungFor'[r] = hungFor[r]
  BY <1>r, HungForStep DEF OutInv, RecInv
<1>e. /\ Spent' \in Nat /\ Spent <= Spent' /\ Spent \in Nat
      /\ FdirHangs => Spent' = Spent + FdirCost
  BY SpentStep, SpentFacts DEF OutInv, RecInv
<1>l. /\ left' \in 0..Grace /\ fdirAge' \in 0..MaxAge /\ fdirLeft' \in 0..Grace
      /\ last_heartbeat'[r] \in 0..MaxAge /\ fdirHangs' \in Nat
  BY <1>n, <1>r DEF TInv, TypeOK
<1>1. CASE r \notin hung
  <2>1. RoleHangs(r) BY <1>1, <1>r, HungStep
  <2>2. ~Tick BY <2>1 DEF RoleHangs, Tick, events
  <2>3. hungFor'[r] = 0 BY <1>g, <1>r, <2>1, <2>2 DEF OutInv, CountInv, RoleHangs
  <2>4. ~Pending(r)'
    <3>1. ~Pending(r) BY <1>r, <2>1, NoSecondHang DEF OutInv
    <3> QED BY <2>1, <3>1 DEF RoleHangs, Pending, In, killing
  <2>5. Noticed(r)'
    <3>1. SleepTime' \in Nat BY <1>n, SleepFactsNext
    <3>2. Counted(r)' \in Nat BY <1>l DEF Counted
    <3>3. 0 <= SleepTime' /\ 0 <= Spent' + Counted(r)' BY ONLY <1>e, <3>1, <3>2
    <3> QED BY <2>3, <3>3 DEF Noticed
  <2>6. Waited(r)'
    <3> DEFINE b == (Spent' - FdirCost) + RoleTimeout + 1
    <3>1. fdirHung' => b \in Nat
      <4>1. fdirHung' => fdirHangs' > 0 /\ UNCHANGED fdirHangs
        BY <2>1 DEF RoleHangs, OutInv, CountInv
      <4>2. fdirHung' => Spent >= FdirCost BY <4>1, SpentFacts DEF OutInv, RecInv
      <4>3. \A x, y, z \in Nat : x >= z /\ x <= y => (y - z) + RoleTimeout + 1 \in Nat
        OBVIOUS
      <4> QED BY <1>e, <4>2, <4>3, CostFacts
    <3>2. FdirCost' = FdirCost BY DEF FdirCost
    <3>3. /\ \A x \in Nat : \A a \in 0..MaxAge : 0 <= x + a /\ 0 <= x
          /\ \A x \in Nat : \A l \in 0..Grace : 0 <= x + FdirTimeout + 1 + (Grace - l)
      OBVIOUS
    <3>4. Waited(r)' <=>
            (fdirHung' => /\ si' # R + 2 => 0 <= b + fdirAge'
                          /\ si' = R + 2 => 0 <= b + FdirTimeout + 1 + (Grace - fdirLeft')
                          /\ In(Ping(Fdir), supInbox)' => 0 <= b)
      BY <2>3, <3>2 DEF Waited
    <3> HIDE DEF b
    <3> QED BY <1>l, <3>1, <3>3, <3>4
  <2> QED BY <2>4, <2>5, <2>6
<1>2. CASE r \in hung /\ Pending(r)
  <2>1. Pending(r)' BY <1>r, <1>2, PendingKeeps DEF OutInv
  <2> QED BY <1>2, <2>1, KilledStep
<1>3. CASE r \in hung /\ ~Pending(r) /\ Pending(r)'
  <2>1. ~fdirHung /\ WatchCheck BY <1>r, <1>3, PendingStep DEF OutInv, RecInv
  <2>2. hungFor[r] <= Spent + RoleTimeout + 1 BY <1>3, <2>1, DeadlineFacts
  <2>3. ~Tick BY <2>1 DEF WatchCheck, Tick, CanStep
  <2>4. hungFor'[r] = hungFor[r] /\ hungFor'[r] \in Nat BY <1>g, <2>3
  <2>5. (IF control' = r THEN Grace - left' ELSE 0) \in Nat
    <3>1. \A l \in 0..Grace : Grace - l \in Nat OBVIOUS
    <3>2. Grace - left' \in Nat BY <1>l, <3>1
    <3> QED BY <3>2, Zenon
  <2>6. \A x, y, z, h \in Nat : h <= x + RoleTimeout + 1 /\ x <= y =>
          h <= y + RoleTimeout + 1 + z
    OBVIOUS
  <2>7. hungFor'[r] <= Spent' + RoleTimeout + 1 + (IF control' = r THEN Grace - left' ELSE 0)
    BY <1>e, <2>2, <2>4, <2>5, <2>6
  <2> QED BY <1>3, <2>7
<1>4. CASE r \in hung /\ ~Pending(r) /\ ~Pending(r)'
  <2>1. CASE Tick
    <3>1. UNCHANGED fdirHung BY <2>1 DEF Tick
    <3>2. CASE fdirHung
      <4>1. Waited(r)' BY <1>4, <2>1, <3>1, <3>2, WaitedStep
      <4>2. Noticed(r)' BY <3>1, <3>2 DEF Noticed
      <4> QED BY <1>4, <4>1, <4>2
    <3>3. CASE ~fdirHung
      <4>1. Noticed(r)' BY <1>4, <2>1, <3>3, NoticedTick
      <4>2. Waited(r)' BY <3>1, <3>3 DEF Waited
      <4> QED BY <1>4, <4>1, <4>2
    <3> QED BY <3>2, <3>3
  <2>2. CASE RestartFdir /\ ~Tick
    <3>1. Noticed(r)' BY <1>4, <1>g, <2>2, RestartedStep
    <3>2. ~fdirHung' BY <2>2 DEF RestartFdir, Served
    <3>3. Waited(r)' BY <3>2 DEF Waited
    <3> QED BY <1>4, <3>1, <3>3
  <2>3. CASE ~RestartFdir /\ ~Tick /\ ~fdirHung'
    <3>1. Noticed(r)' BY <1>4, <1>g, <2>3, NoticedStill
    <3>2. Waited(r)' BY <2>3 DEF Waited
    <3> QED BY <1>4, <3>1, <3>2
  <2>4. CASE ~RestartFdir /\ ~Tick /\ fdirHung' /\ fdirHung
    <3>1. Waited(r)' BY <1>4, <1>g, <2>4, WaitedStep
    <3>2. Noticed(r)' BY <2>4 DEF Noticed
    <3> QED BY <1>4, <3>1, <3>2
  <2>5. CASE ~Tick /\ fdirHung' /\ ~fdirHung
    <3>1. FdirHangs
      BY <2>5 DEF Next, OBCStep, Beat, WatchBegin, WatchCheck, WatchPing, MonitorReceive,
                  MonitorOrder, ControlReceive, Revive, SweepEntry, CheckFrozen,
                  RestartFdir, RoleHangs, BoardResets, vars, Served
    <3>2. hungFor[r] <= Spent + RoleTimeout + 1 BY <1>4, <2>5, DeadlineFacts
    <3>3. hungFor'[r] <= Spent + RoleTimeout + 1 BY <1>g, <2>5, <3>2
    <3>4. (Spent' - FdirCost) + RoleTimeout + 1 = Spent + RoleTimeout + 1
      <4>1. \A x, z \in Nat : ((x + z) - z) + RoleTimeout + 1 = x + RoleTimeout + 1 OBVIOUS
      <4> QED BY <1>e, <3>1, <4>1, CostFacts
    <3>5. si' # R + 2 BY <3>1 DEF FdirHangs, sweep
    <3>6. FdirCost' = FdirCost BY DEF FdirCost
    <3>7. \A x, h, a \in Nat : h <= x + RoleTimeout + 1 => h <= (x + RoleTimeout + 1) + a
      OBVIOUS
    <3>8. hungFor'[r] <= (Spent + RoleTimeout + 1) + fdirAge'
      BY <1>e, <1>g, <1>l, <3>3, <3>7
    <3>9. Waited(r)' BY <3>3, <3>4, <3>5, <3>6, <3>8 DEF Waited
    <3>10. Noticed(r)' BY <2>5 DEF Noticed
    <3> QED BY <1>4, <3>9, <3>10
  <2> QED BY <2>1, <2>2, <2>3, <2>4, <2>5
<1> QED BY <1>1, <1>2, <1>3, <1>4

-----------------------------------------------------------------------------
\* At the start nothing hangs.
LEMMA OutInit == Init => OutInv
<1> SUFFICES ASSUME Init PROVE OutInv OBVIOUS
<1> USE ConstantFacts, RoleFacts
<1>1. RecInv BY RecInit
<1>2. CountInv
  <2>1. Notices(fdirInbox) = {} BY DEF Init, Notices
  <2>2. Cardinality(Notices(fdirInbox)) = 0 BY <2>1, FS_EmptySet
  <2> QED BY <2>2 DEF Init, CountInv
<1>3. AskedInv BY InEmpty DEF Init, AskedInv, Pending
<1>4. Found BY DEF Init, Found
<1>5. OutageInv BY DEF Init, OutageInv
<1>6. Served BY DEF Init, Served
<1> QED BY <1>1, <1>2, <1>3, <1>4, <1>5, <1>6 DEF OutInv

\* The inductive invariant behind the bound of the outage.
KeptInv == RecInv /\ (Served => OutInv)

\* Every step keeps it: what was not served stays so.
LEMMA OutStep ==
  ASSUME SingleFault, Margins
  PROVE  KeptInv /\ [Next]_vars => KeptInv'
<1> SUFFICES ASSUME KeptInv, [Next]_vars PROVE KeptInv' OBVIOUS
<1>1. RecInv' BY RecStep DEF KeptInv
<1>2. ASSUME Served' PROVE OutInv'
  <2>1. OutInv BY <1>2, ServedStep DEF KeptInv
  <2> QED BY <1>1, <1>2, <2>1, CountStep, AskedStep, FoundStep, OutageStep DEF OutInv
<1> QED BY <1>1, <1>2 DEF KeptInv

\* The invariant keeps every outage within MaxOutage.
LEMMA OutageBound ==
  ASSUME OutInv
  PROVE  \A r \in Roles : hungFor[r] <= MaxOutage \/ r \in dead
<1> USE ConstantFacts
<1>t. /\ losses \in Nat /\ fdirHangs \in Nat /\ hungFor \in [Roles -> Nat]
      /\ fdirAge \in 0..MaxAge /\ fdirLeft \in 0..Grace /\ left \in 0..Grace
      /\ hung \subseteq Roles
  BY DEF OutInv, RecInv, TInv, TypeOK
<1> DEFINE e == Spent
           k == FdirCost
           m == SleepCost + MaxLosses + MaxFdirHangs * FdirCost
<1>0. k \in Nat /\ k = (FdirTimeout + 1 + Grace) + (RoleTimeout + 1) /\ SleepCost \in Nat
  BY CostFacts
<1>1. m \in Nat /\ e \in Nat /\ e <= m
  <2> DEFINE p == fdirHangs * FdirCost
             q == MaxFdirHangs * FdirCost
  <2>1. losses <= MaxLosses /\ fdirHangs <= MaxFdirHangs BY DEF OutInv, CountInv
  <2>2. \A x, y, z \in Nat : x <= y => x * z <= y * z /\ x * z \in Nat /\ y * z \in Nat
    OBVIOUS
  <2>3. p \in Nat /\ q \in Nat /\ p <= q BY <1>0, <1>t, <2>1, <2>2
  <2>4. e = SleepCost + losses + p BY DEF Spent
  <2>5. m = SleepCost + MaxLosses + q OBVIOUS
  <2> HIDE DEF e, m, p, q
  <2> QED BY <1>0, <1>t, <2>1, <2>3, <2>4, <2>5
<1>2. MaxOutage = (m + RoleTimeout + 1) + Grace
  <2> DEFINE s == SleepCost
             q == MaxFdirHangs * FdirCost
  <2>1. MaxOutage = RoleTimeout + 1 + MaxLosses + Grace + s + q
    BY DEF MaxOutage, SleepCost, FdirCost
  <2>2. s \in Nat /\ q \in Nat BY <1>0
  <2>3. m = s + MaxLosses + q OBVIOUS
  <2> HIDE DEF m, s, q
  <2> QED BY <2>1, <2>2, <2>3
<1> HIDE DEF e, k, m
<1>3. ASSUME NEW r \in Roles, r \notin dead PROVE hungFor[r] <= MaxOutage
  <2> DEFINE h == hungFor[r]
  <2>0. h \in Nat BY <1>t
  <2>1. CASE r \notin hung
    <3>1. h = 0 BY <1>3, <2>1 DEF OutInv, CountInv, Running
    <3> HIDE DEF h
    <3>2. h <= MaxOutage BY <1>1, <1>2, <3>1
    <3> QED BY <3>2 DEF h
  <2>2. CASE r \in hung /\ Pending(r)
    <3>1. h <= e + RoleTimeout + 1 + (IF control = r THEN Grace - left ELSE 0)
      BY <2>2 DEF OutInv, OutageInv, e
    <3> HIDE DEF h
    <3>2. h <= MaxOutage BY <1>1, <1>2, <1>t, <2>0, <3>1
    <3> QED BY <3>2 DEF h
  <2>3. CASE r \in hung /\ ~Pending(r) /\ ~fdirHung
    <3>1. h <= e + RoleTimeout + 1 BY <2>3, DeadlineFacts DEF e
    <3> HIDE DEF h
    <3>2. h <= MaxOutage BY <1>1, <1>2, <2>0, <3>1
    <3> QED BY <3>2 DEF h
  <2>4. CASE r \in hung /\ ~Pending(r) /\ fdirHung
    <3>1. Waited(r) BY <2>4 DEF OutInv, OutageInv
    <3>2. CASE si = R + 2
      <4>1. h <= ((e - k) + RoleTimeout + 1) + FdirTimeout + 1 + (Grace - fdirLeft)
        BY <2>4, <3>1, <3>2 DEF Waited, e, k
      <4> HIDE DEF h
      <4>2. h <= MaxOutage BY <1>0, <1>1, <1>2, <1>t, <2>0, <4>1
      <4> QED BY <4>2 DEF h
    <3>3. CASE si # R + 2
      <4>1. h <= ((e - k) + RoleTimeout + 1) + fdirAge
        BY <2>4, <3>1, <3>3 DEF Waited, e, k
      <4>2. fdirAge <= FdirTimeout + 1
        <5>1. Unkilled BY <2>4 DEF Unkilled
        <5>2. fdirAge <= FdirTimeout + (IF sowed > 0 THEN 1 ELSE 0)
          BY <2>4, <3>3, <5>1 DEF OutInv, Found
        <5> QED BY <1>t, <5>2
      <4> HIDE DEF h
      <4>3. h <= MaxOutage BY <1>0, <1>1, <1>2, <1>t, <2>0, <4>1, <4>2
      <4> QED BY <4>3 DEF h
    <3> QED BY <3>2, <3>3
  <2> QED BY <2>1, <2>2, <2>3, <2>4
<1> QED BY <1>3

\* With one role that hangs and the margins of the code's time-outs, the role is back
\* within MaxOutage seconds, whatever FDIR's hangs, lost requests and board resets do
\* in between, unless its respawn or FDIR's fails or commands has kept the health
\* monitor waiting (watchdog.c, health_monitor.c, processes.c).
THEOREM OutageTheorem ==
  ASSUME SingleFault, Margins
  PROVE  Spec => []HungRoleIsBack
<1>1. Init => KeptInv BY RecInit, OutInit DEF KeptInv
<1>2. KeptInv => HungRoleIsBack
  <2> SUFFICES ASSUME KeptInv PROVE HungRoleIsBack OBVIOUS
  <2>1. CASE Served BY <2>1, OutageBound DEF KeptInv, HungRoleIsBack, Unserved
  <2>2. CASE ~Served BY <2>2 DEF Served, HungRoleIsBack, Unserved
  <2> QED BY <2>1, <2>2
<1> QED BY <1>1, <1>2, OutStep, PTL DEF Spec

=============================================================================
