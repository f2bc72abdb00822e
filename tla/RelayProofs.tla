---------------------------- MODULE RelayProofs -----------------------------
(***************************************************************************)
(* Proofs about the traffic between boards and roles: no watched thread is *)
(* silent for longer than a repair, a role is restarted only when it was   *)
(* held up, the time a board is set to is recent, and time and sun         *)
(* commands keep reaching the boards; for any number of stuck threads and  *)
(* lost messages, and any backlog.                                         *)
(***************************************************************************)
EXTENDS CommandRelay, TLAPS

\* What a message may say.
Messages == [to : Roles \cup {"nobody"},
             kind : {"telemetry", "request", "other", "sync", "sun", "nothing"},
             board : Boards \cup {"stranger", "nobody"},
             age : 0..MaxAge]

\* The roles a thread sends to.
Goals(t) == IF t = "ingest" THEN {"data", "time"}
            ELSE IF t \in {"broadcast", "request", "autonomy"} THEN {"commands"} ELSE {}

\* A reader that got no error has waited since it touched its watch.
WatchOK ==
    /\ polled \in [Readers -> 0..MaxAge] /\ failing \subseteq Readers
    /\ \A t \in Readers \ failing : polled[t] = progress[t]

\* The types, with what the messages are and where they go.
TInv ==
    /\ TypeOK /\ WatchOK
    /\ inbox \in [Roles -> Seq(Messages)] /\ wire \in Seq(Messages)
    /\ out \in [Threads -> Messages] /\ todo \in Seq(Boards)
    /\ \A t \in Threads : pc[t] # "idle" => out[t].to \in Goals(t)
    /\ \A i \in 1..Len(wire) : wire[i].board \in Boards \cup {"stranger"}
    /\ late \in [Boards -> Nat]
    /\ faults \in [stuck : Nat, event : Nat]

-----------------------------------------------------------------------------
\* The constants are positive numbers, and ages do not saturate below the time-outs.
LEMMA ConstantFacts ==
  /\ Second \in Nat /\ Second >= 1 /\ Stall \in Nat /\ Stall >= 1
  /\ BeatTimeout \in Nat /\ BeatTimeout >= 1
  /\ SyncInterval \in Nat /\ SyncInterval >= 1 /\ SunInterval \in Nat /\ SunInterval >= 1
  /\ Backlog \in Nat /\ Backlog >= 1 /\ MaxWire \in Nat /\ MaxWire >= 1
  /\ MaxStuck \in Nat /\ MaxEvents \in Nat /\ MaxAge \in Nat
  /\ MaxAge > Stall /\ MaxAge > BeatTimeout
BY RelayAssumption

\* The six threads and the roles they belong to.
LEMMA ThreadFacts ==
  /\ Threads = {"ingest", "relay", "broadcast", "request", "autonomy", "storage"}
  /\ \A t \in Threads : RoleOf[t] \in Roles
  /\ RoleOf["ingest"] = "commands" /\ RoleOf["relay"] = "commands"
  /\ RoleOf["broadcast"] = "time" /\ RoleOf["request"] = "time"
  /\ RoleOf["autonomy"] = "mission" /\ RoleOf["storage"] = "data"
  /\ Readers = {"relay", "request", "storage"} /\ Readers \subseteq Threads
BY DEF Threads, RoleOf, Roles, Readers

\* The boards, and the order in which their clocks are set.
LEMMA BoardFacts ==
  /\ Boards = {"ADCS", "EPS"} /\ Head(Targets) \in Boards /\ Tail(Targets) \in Seq(Boards)
<1>1. Targets \in Seq({"ADCS", "EPS"}) /\ Len(Targets) = 2 /\ Targets # <<>>
      /\ Targets[1] = "ADCS" /\ Targets[2] = "EPS" /\ DOMAIN Targets = {1, 2}
  BY DEF Targets
<1>2. Boards = {"ADCS", "EPS"} BY <1>1 DEF Boards
<1> QED BY <1>1, <1>2

\* A message is one of Messages.
LEMMA MsgFacts ==
  /\ Nothing \in Messages /\ Nothing.kind = "nothing"
  /\ \A r \in Roles, k \in {"telemetry", "request", "other", "sync", "sun"},
        b \in Boards \cup {"stranger"} :
       /\ Msg(r, k, b) \in Messages /\ Msg(r, k, b) # Nothing
       /\ Msg(r, k, b).to = r /\ Msg(r, k, b).kind = k /\ Msg(r, k, b).board = b
       /\ Msg(r, k, b).age = 0
<1>1. Nothing \in Messages /\ Nothing.kind = "nothing" BY ConstantFacts DEF Nothing, Messages
<1>2. ASSUME NEW r \in Roles, NEW k \in {"telemetry", "request", "other", "sync", "sun"},
             NEW b \in Boards \cup {"stranger"}
      PROVE  /\ Msg(r, k, b).to = r /\ Msg(r, k, b).kind = k /\ Msg(r, k, b).board = b
             /\ Msg(r, k, b).age = 0 /\ Msg(r, k, b) \in Messages
  BY ConstantFacts DEF Msg, Messages
<1>3. ASSUME NEW r \in Roles, NEW k \in {"telemetry", "request", "other", "sync", "sun"},
             NEW b \in Boards \cup {"stranger"}
      PROVE  Msg(r, k, b) # Nothing
  <2>1. Msg(r, k, b).kind # "nothing" BY <1>2
  <2> QED BY <1>1, <2>1
<1> QED BY <1>1, <1>2, <1>3

\* A message that waits keeps everything but its age.
LEMMA AgedFacts ==
  ASSUME NEW m \in Messages
  PROVE  /\ Aged(m) \in Messages /\ Aged(m).to = m.to /\ Aged(m).kind = m.kind
         /\ Aged(m).board = m.board
         /\ m.kind = "sync" => Aged(m).age = Older(m.age)
         /\ Aged(m) = Nothing <=> m = Nothing
<1>1. Older(m.age) \in 0..MaxAge BY ConstantFacts DEF Messages, Older
<1>2. CASE m.kind # "sync" BY <1>2 DEF Aged
<1>3. CASE m.kind = "sync"
  <2>1. Aged(m) = [m EXCEPT !.age = Older(m.age)] BY <1>3 DEF Aged
  <2>2. Aged(m) \in Messages BY <1>1, <2>1 DEF Messages
  <2>3. Aged(m).kind = "sync" /\ Nothing.kind = "nothing" BY <1>3, <2>1 DEF Messages, Nothing
  <2> QED BY <1>3, <2>1, <2>2, <2>3 DEF Messages
<1> QED BY <1>2, <1>3

\* The messages at a socket grow older, and stay where they are.
LEMMA AgedQueue ==
  ASSUME NEW q \in Seq(Messages)
  PROVE  /\ [i \in DOMAIN q |-> Aged(q[i])] \in Seq(Messages)
         /\ Len([i \in DOMAIN q |-> Aged(q[i])]) = Len(q)
<1>1. DOMAIN q = 1..Len(q) /\ Len(q) \in Nat OBVIOUS
<1>2. \A i \in 1..Len(q) : Aged(q[i]) \in Messages BY AgedFacts
<1> QED BY <1>1, <1>2

\* An age grows by one at most, and only up to MaxAge.
LEMMA OlderFacts ==
  \A n \in 0..MaxAge : /\ Older(n) \in 0..MaxAge /\ n <= Older(n) /\ Older(n) <= n + 1
                       /\ n < MaxAge => Older(n) = n + 1
BY ConstantFacts DEF Older

-----------------------------------------------------------------------------
\* At the start nothing waits.
LEMMA TInit == Init => TInv
<1> SUFFICES ASSUME Init PROVE TInv OBVIOUS
<1> USE ConstantFacts, ThreadFacts, BoardFacts, MsgFacts
<1>1. TypeOK BY DEF Init, TypeOK
<1>2. late \in [Boards -> Nat] /\ faults \in [stuck : Nat, event : Nat] BY DEF Init
<1>3. inbox \in [Roles -> Seq(Messages)] /\ wire \in Seq(Messages) /\ Len(wire) = 0
  BY DEF Init
<1>4. out \in [Threads -> Messages] /\ todo \in Seq(Boards) BY DEF Init
<1>5. \A t \in Threads : pc[t] = "idle" BY DEF Init
<1>6. WatchOK BY DEF Init, WatchOK
<1> QED BY <1>1, <1>2, <1>3, <1>4, <1>5, <1>6 DEF TInv

\* What a step does to the watches.
LEMMA WatchCases ==
  ASSUME [Next]_vars
  PROVE  \/ \E t \in Threads : Touch(t)
         \/ UNCHANGED watches
         \/ \E t \in Readers : ReceiveFails(t)
         \/ \E r \in Roles : Restart(r)
         \/ Tick
<1> USE ThreadFacts
<1>1. ASSUME NEW t \in Threads, Deliver(t) \/ Refuse(t) PROVE Touch(t)
  BY <1>1 DEF Deliver, Refuse, Returned
<1>2. ASSUME NEW t \in Threads, Stick(t) \/ ComeLoose(t) PROVE UNCHANGED watches
  BY <1>2 DEF Stick, ComeLoose, threadVars
<1>3. ASSUME Ingest PROVE Touch("ingest") \/ UNCHANGED watches BY <1>3 DEF Ingest
<1>4. ASSUME Request PROVE Touch("request") \/ UNCHANGED watches BY <1>4 DEF Request
<1>5. ASSUME Relay \/ Storage \/ Broadcast
      PROVE  Touch("relay") \/ Touch("storage") \/ Touch("broadcast")
  BY <1>5 DEF Relay, Storage, Broadcast
<1>6. ASSUME Autonomy \/ BoardSends \/ UNCHANGED vars PROVE UNCHANGED watches
  BY <1>6 DEF Autonomy, BoardSends, vars, threadVars
<1> QED BY <1>1, <1>2, <1>3, <1>4, <1>5, <1>6 DEF Next

\* The watches of the readers keep their types.
LEMMA WatchTypes ==
  ASSUME TInv, [Next]_vars
  PROVE  WatchOK'
<1> USE ConstantFacts
<1>t. /\ progress \in [Threads -> 0..MaxAge] /\ polled \in [Readers -> 0..MaxAge]
      /\ failing \subseteq Readers /\ Readers \subseteq Threads
      /\ \A t \in Readers \ failing : polled[t] = progress[t]
      /\ 0 \in 0..MaxAge
  BY ThreadFacts DEF TInv, TypeOK, WatchOK
<1> SUFFICES /\ polled' \in [Readers -> 0..MaxAge] /\ failing' \subseteq Readers
             /\ \A t \in Readers \ failing' : polled'[t] = progress'[t]
  BY DEF WatchOK, Readers
<1>1. ASSUME NEW t \in Threads, Touch(t)
      PROVE  /\ polled' \in [Readers -> 0..MaxAge] /\ failing' \subseteq Readers
             /\ \A s \in Readers \ failing' : polled'[s] = progress'[s]
  BY <1>1, <1>t DEF Touch
<1>2. CASE UNCHANGED watches BY <1>2, <1>t DEF watches
<1>3. ASSUME NEW t \in Readers, ReceiveFails(t)
      PROVE  /\ polled' \in [Readers -> 0..MaxAge] /\ failing' \subseteq Readers
             /\ \A s \in Readers \ failing' : polled'[s] = progress'[s]
  BY <1>3, <1>t DEF ReceiveFails
<1>4. ASSUME NEW r \in Roles, Restart(r)
      PROVE  /\ polled' \in [Readers -> 0..MaxAge] /\ failing' \subseteq Readers
             /\ \A s \in Readers \ failing' : polled'[s] = progress'[s]
  <2> DEFINE mine == {t \in Threads : RoleOf[t] = r}
  <2>1. /\ progress' = [t \in Threads |-> IF t \in mine THEN 0 ELSE progress[t]]
        /\ polled' = [t \in Readers |-> IF t \in mine THEN 0 ELSE polled[t]]
        /\ failing' = failing \ mine
    BY <1>4 DEF Restart
  <2> HIDE DEF mine
  <2> QED BY <1>t, <2>1
<1>5. CASE Tick
  <2>1. /\ progress' = [t \in Threads |-> IF TouchesIdly(t) THEN 0 ELSE Older(progress[t])]
        /\ polled' = [t \in Readers |-> IF TouchesIdly(t) THEN 0 ELSE Older(polled[t])]
        /\ failing' = {t \in failing : ~TouchesIdly(t)}
    BY <1>5 DEF Tick
  <2>2. \A t \in Readers : Older(polled[t]) \in 0..MaxAge BY <1>t, OlderFacts
  <2> QED BY <1>t, <2>1, <2>2
<1> QED BY <1>1, <1>2, <1>3, <1>4, <1>5, WatchCases

\* The type of a thread's send: it has a message for one of its receivers, or none.
LEMMA SendTypes ==
  ASSUME TInv, NEW t \in Threads, NEW m \in Messages, m # Nothing, m.to \in Goals(t),
         StartSend(t, m)
  PROVE  /\ pc' \in [Threads -> {"idle", "send", "refused"}] /\ out' \in [Threads -> Messages]
         /\ \A s \in Threads : pc'[s] = "idle" <=> out'[s] = Nothing
         /\ \A s \in Threads : pc'[s] # "idle" => out'[s].to \in Goals(s)
<1>1. /\ pc \in [Threads -> {"idle", "send", "refused"}] /\ out \in [Threads -> Messages]
      /\ \A s \in Threads : pc[s] = "idle" <=> out[s] = Nothing
      /\ \A s \in Threads : pc[s] # "idle" => out[s].to \in Goals(s)
  BY DEF TInv, TypeOK
<1>2. pc' = [pc EXCEPT ![t] = "send"] /\ out' = [out EXCEPT ![t] = m] BY DEF StartSend
<1> QED BY <1>1, <1>2

\* What a thread leaves behind when IPC_send has returned.
LEMMA ReturnedTypes ==
  ASSUME TInv, WatchOK', NEW t \in Threads, NEW ok \in BOOLEAN, Returned(t, ok),
         inbox' \in [Roles -> Seq(Messages)], \A r \in Roles : Len(inbox'[r]) <= Backlog
  PROVE  TInv'
<1> USE ConstantFacts, ThreadFacts, BoardFacts, MsgFacts
<1>t. TypeOK /\ todo \in Seq(Boards) BY DEF TInv
<1>1. /\ pc' \in [Threads -> {"idle", "send", "refused"}] /\ out' \in [Threads -> Messages]
      /\ \A s \in Threads : pc'[s] = "idle" <=> out'[s] = Nothing
      /\ \A s \in Threads : pc'[s] # "idle" => out'[s].to \in Goals(s)
      /\ todo' \in Seq(Boards)
  <2>1. CASE t = "broadcast" /\ todo # <<>>
    <3> DEFINE m == Msg("commands", "sync", Head(todo))
    <3>1. Head(todo) \in Boards /\ Tail(todo) \in Seq(Boards) BY <1>t, <2>1
    <3>2. "commands" \in Roles /\ m.to \in Goals(t) BY <2>1, <3>1 DEF Roles, Goals
    <3>3. m \in Messages /\ m # Nothing BY <3>1, <3>2
    <3>4. todo' = Tail(todo) /\ StartSend(t, m) BY <2>1 DEF Returned, StartSend
    <3> HIDE DEF m
    <3> QED BY <3>1, <3>2, <3>3, <3>4, SendTypes
  <2>2. CASE ~(t = "broadcast" /\ todo # <<>>)
    <3>1. /\ out' = [out EXCEPT ![t] = Nothing] /\ pc' = [pc EXCEPT ![t] = "idle"]
          /\ todo' = todo
      BY <2>2 DEF Returned
    <3>2. /\ pc \in [Threads -> {"idle", "send", "refused"}] /\ out \in [Threads -> Messages]
          /\ \A s \in Threads : pc[s] = "idle" <=> out[s] = Nothing
          /\ \A s \in Threads : pc[s] # "idle" => out[s].to \in Goals(s)
      BY DEF TInv, TypeOK
    <3> QED BY <1>t, <3>1, <3>2
  <2> QED BY <2>1, <2>2
<1>2. progress' \in [Threads -> 0..MaxAge]
  <2>1. progress \in [Threads -> 0..MaxAge] /\ 0 \in 0..MaxAge BY <1>t DEF TypeOK
  <2>2. progress' = [progress EXCEPT ![t] = 0] BY DEF Returned, Touch
  <2> QED BY <2>1, <2>2
<1>3. last_fired' \in 0..SunInterval BY <1>t DEF Returned, TypeOK
<1>4. UNCHANGED <<phase, beat_phase, wire, beat, stuck, suspect, next_sync, uptime, late, faults>>
  BY DEF Returned, boards
<1>5. TypeOK' BY <1>t, <1>1, <1>2, <1>3, <1>4 DEF TypeOK, WatchOK
<1> QED BY <1>1, <1>4, <1>5 DEF TInv

\* A message is taken from a socket.
LEMMA ReceiveTypes ==
  ASSUME TInv, NEW t \in Threads, Receive(t)
  PROVE  /\ inbox' \in [Roles -> Seq(Messages)] /\ \A r \in Roles : Len(inbox'[r]) <= Backlog
         /\ Head(inbox[RoleOf[t]]) \in Messages
<1> USE ConstantFacts, ThreadFacts
<1> DEFINE r == RoleOf[t]
<1>1. /\ r \in Roles /\ inbox[r] # <<>> /\ inbox' = [inbox EXCEPT ![r] = Tail(inbox[r])]
  BY DEF Receive
<1>2. inbox \in [Roles -> Seq(Messages)] /\ \A q \in Roles : Len(inbox[q]) <= Backlog
  BY DEF TInv, TypeOK
<1> HIDE DEF r
<1>3. /\ inbox[r] \in Seq(Messages) /\ Tail(inbox[r]) \in Seq(Messages)
      /\ Len(Tail(inbox[r])) <= Backlog /\ Head(inbox[r]) \in Messages
  <2>1. inbox[r] \in Seq(Messages) /\ inbox[r] # <<>> /\ Len(inbox[r]) <= Backlog
    BY <1>1, <1>2
  <2>2. Len(Tail(inbox[r])) = Len(inbox[r]) - 1 /\ Len(inbox[r]) \in Nat BY <2>1
  <2> QED BY <2>1, <2>2
<1> QED BY <1>1, <1>2, <1>3 DEF r

\* A thread touches its watch.
LEMMA TouchTypes ==
  ASSUME TInv, NEW t \in Threads, Touch(t)
  PROVE  progress' \in [Threads -> 0..MaxAge]
<1>1. progress \in [Threads -> 0..MaxAge] /\ 0 \in 0..MaxAge
  BY ConstantFacts DEF TInv, TypeOK
<1> QED BY <1>1 DEF Touch

\* Faults are counted.
LEMMA FaultTypes ==
  \A f \in [stuck : Nat, event : Nat] :
    /\ [f EXCEPT !.stuck = @ + 1] \in [stuck : Nat, event : Nat]
    /\ [f EXCEPT !.event = @ + 1] \in [stuck : Nat, event : Nat]
OBVIOUS

\* The types hold in every state.
LEMMA TStep == TInv /\ [Next]_vars => TInv'
<1> SUFFICES ASSUME TInv, [Next]_vars PROVE TInv' OBVIOUS
<1> USE ConstantFacts
<1>w. WatchOK' /\ polled' \in [Readers -> 0..MaxAge] /\ failing' \subseteq Readers
  <2>1. WatchOK' BY WatchTypes
  <2> QED BY <2>1 DEF WatchOK
<1>t. /\ TypeOK /\ inbox \in [Roles -> Seq(Messages)] /\ wire \in Seq(Messages)
      /\ out \in [Threads -> Messages] /\ todo \in Seq(Boards)
      /\ \A t \in Threads : pc[t] # "idle" => out[t].to \in Goals(t)
      /\ \A i \in 1..Len(wire) : wire[i].board \in Boards \cup {"stranger"}
      /\ late \in [Boards -> Nat] /\ faults \in [stuck : Nat, event : Nat]
  BY DEF TInv
<1>1. ASSUME NEW t \in Threads, Deliver(t) PROVE TInv'
  <2> DEFINE q == out[t].to
  <2>1. /\ inbox' = [inbox EXCEPT ![q] = Append(inbox[q], out[t])] /\ Returned(t, TRUE)
        /\ Len(inbox[q]) < Backlog /\ pc[t] = "send"
    BY <1>1 DEF Deliver, Room
  <2>2. q \in Roles BY <1>t, <2>1, ThreadFacts DEF Goals, Roles
  <2>3. /\ inbox[q] \in Seq(Messages) /\ out[t] \in Messages BY <1>t, <2>2
  <2> HIDE DEF q
  <2>4. /\ Append(inbox[q], out[t]) \in Seq(Messages)
        /\ Len(Append(inbox[q], out[t])) <= Backlog
    BY <2>1, <2>3
  <2>5. \A r \in Roles : Len(inbox[r]) <= Backlog BY <1>t DEF TypeOK
  <2>6. inbox' \in [Roles -> Seq(Messages)] /\ \A r \in Roles : Len(inbox'[r]) <= Backlog
    BY <1>t, <2>1, <2>2, <2>4, <2>5
  <2> QED BY <1>w, <2>1, <2>6, ReturnedTypes
<1>2. ASSUME NEW t \in Threads, Refuse(t) PROVE TInv'
  <2>1. inbox' = inbox /\ Returned(t, FALSE) BY <1>2 DEF Refuse
  <2>2. inbox' \in [Roles -> Seq(Messages)] /\ \A r \in Roles : Len(inbox'[r]) <= Backlog
    BY <1>t, <2>1 DEF TypeOK
  <2> QED BY <1>w, <2>1, <2>2, ReturnedTypes
<1>3. ASSUME NEW t \in Threads, Stick(t) PROVE TInv'
  <2>1. /\ stuck' \subseteq Threads /\ suspect' \subseteq Roles
        /\ faults' \in [stuck : Nat, event : Nat]
    <3>1. RoleOf[t] \in Roles BY ThreadFacts
    <3>2. /\ stuck' = stuck \cup {t} /\ suspect' = suspect \cup {RoleOf[t]}
          /\ faults' = [faults EXCEPT !.stuck = @ + 1]
      BY <1>3 DEF Stick
    <3>3. stuck \subseteq Threads /\ suspect \subseteq Roles BY <1>t DEF TypeOK
    <3>4. faults' \in [stuck : Nat, event : Nat] BY <1>t, <3>2, FaultTypes
    <3> QED BY <3>1, <3>2, <3>3, <3>4
  <2>2. UNCHANGED <<phase, beat_phase, inbox, wire, pc, out, todo, progress, beat, next_sync,
                    last_fired, uptime, late>>
    BY <1>3 DEF Stick, threadVars, watches, timers, boards
  <2>3. TypeOK' BY <1>t, <1>w, <2>1, <2>2 DEF TypeOK
  <2> QED BY <1>t, <1>w, <2>1, <2>2, <2>3 DEF TInv
<1>4. ASSUME NEW t \in Threads, ComeLoose(t) PROVE TInv'
  <2>1. stuck' \subseteq Threads BY <1>4, <1>t DEF ComeLoose, TypeOK
  <2>2. UNCHANGED <<phase, beat_phase, inbox, wire, pc, out, todo, progress, beat, next_sync,
                    last_fired, uptime, late, suspect, faults>>
    BY <1>4 DEF ComeLoose, threadVars, watches, timers, boards
  <2>3. TypeOK' BY <1>t, <1>w, <2>1, <2>2 DEF TypeOK
  <2> QED BY <1>t, <1>w, <2>2, <2>3 DEF TInv
<1>5. CASE Ingest
  <2>1. /\ wire # <<>> /\ wire' = Tail(wire)
        /\ UNCHANGED <<phase, beat_phase, inbox, todo, beat, stuck, suspect, next_sync,
                       last_fired, uptime, late, faults>>
    BY <1>5 DEF Ingest, timers, boards
  <2>2. /\ wire' \in Seq(Messages) /\ Len(wire') = Len(wire) - 1 /\ Len(wire) \in Nat
        /\ \A i \in 1..Len(wire') : wire'[i] = wire[i + 1] /\ i + 1 \in 1..Len(wire)
        /\ Head(wire) = wire[1] /\ 1 \in 1..Len(wire)
    BY <1>t, <2>1
  <2>3. Len(wire') <= MaxWire BY <1>t, <2>2 DEF TypeOK
  <2>4. \A i \in 1..Len(wire') : wire'[i].board \in Boards \cup {"stranger"}
    BY <1>t, <2>2
  <2>5. Head(wire).board \in Boards \cup {"stranger"} BY <1>t, <2>2
  <2>6. \/ /\ \/ StartSend("ingest", Msg("data", "telemetry", Head(wire).board))
              \/ StartSend("ingest", Msg("time", "request", Head(wire).board))
           /\ UNCHANGED progress
        \/ Touch("ingest") /\ UNCHANGED <<pc, out>>
    BY <1>5 DEF Ingest, watches
  <2>7. /\ pc' \in [Threads -> {"idle", "send", "refused"}] /\ out' \in [Threads -> Messages]
        /\ \A s \in Threads : pc'[s] = "idle" <=> out'[s] = Nothing
        /\ \A s \in Threads : pc'[s] # "idle" => out'[s].to \in Goals(s)
    <3> DEFINE m(r, k) == Msg(r, k, Head(wire).board)
    <3>1. \A r \in {"data", "time"}, k \in {"telemetry", "request"} :
            m(r, k) \in Messages /\ m(r, k) # Nothing /\ m(r, k).to = r
      BY <2>5, MsgFacts DEF Roles
    <3>2. Goals("ingest") = {"data", "time"} BY DEF Goals
    <3>3. CASE StartSend("ingest", m("data", "telemetry"))
      BY <3>1, <3>2, <3>3, SendTypes, ThreadFacts
    <3>4. CASE StartSend("ingest", m("time", "request"))
      BY <3>1, <3>2, <3>4, SendTypes, ThreadFacts
    <3>5. CASE UNCHANGED <<pc, out>> BY <1>t, <3>5 DEF TypeOK
    <3> QED BY <2>6, <3>3, <3>4, <3>5
  <2>8. progress' \in [Threads -> 0..MaxAge]
    BY <1>t, <2>6, TouchTypes, ThreadFacts DEF TypeOK
  <2>9. TypeOK' BY <1>t, <1>w, <2>1, <2>3, <2>7, <2>8 DEF TypeOK
  <2> QED BY <1>t, <1>w, <2>1, <2>2, <2>4, <2>7, <2>9 DEF TInv
<1>6. CASE Relay
  <2> DEFINE m == Head(inbox["commands"])
  <2>1. /\ Receive("relay") /\ Touch("relay")
        /\ UNCHANGED <<phase, beat_phase, wire, pc, out, todo, beat, stuck, suspect, next_sync,
                       last_fired, uptime>>
    BY <1>6 DEF Relay, timers
  <2>2. /\ inbox' \in [Roles -> Seq(Messages)] /\ \A r \in Roles : Len(inbox'[r]) <= Backlog
        /\ m \in Messages
    BY <2>1, ReceiveTypes, ThreadFacts
  <2>3. progress' \in [Threads -> 0..MaxAge] BY <2>1, TouchTypes, ThreadFacts
  <2>4. late' \in [Boards -> Nat] /\ faults' \in [stuck : Nat, event : Nat]
    <3>1. \/ late' = [late EXCEPT ![m.board] = m.age] \/ late' = late
      BY <1>6 DEF Relay, boards
    <3>2. faults' = [faults EXCEPT !.event = @ + 1] \/ faults' = faults
      BY <1>6 DEF Relay
    <3>3. m.age \in Nat BY <2>2 DEF Messages
    <3> HIDE DEF m
    <3>4. late' \in [Boards -> Nat] BY <1>t, <3>1, <3>3
    <3>5. faults' \in [stuck : Nat, event : Nat] BY <1>t, <3>2, FaultTypes
    <3> QED BY <3>4, <3>5
  <2>5. TypeOK' BY <1>t, <1>w, <2>1, <2>2, <2>3 DEF TypeOK
  <2> QED BY <1>t, <1>w, <2>1, <2>2, <2>4, <2>5 DEF TInv
<1>7. CASE Request
  <2> DEFINE b == Head(inbox["time"]).board
             m == Msg("commands", "sync", b)
  <2>1. /\ Receive("request")
        /\ UNCHANGED <<phase, beat_phase, wire, todo, beat, stuck, suspect, next_sync,
                       last_fired, uptime, late, faults>>
    BY <1>7 DEF Request, timers, boards
  <2>2. /\ inbox' \in [Roles -> Seq(Messages)] /\ \A r \in Roles : Len(inbox'[r]) <= Backlog
    BY <2>1, ReceiveTypes, ThreadFacts
  <2>3. \/ b \in Boards /\ StartSend("request", m) /\ UNCHANGED progress
        \/ Touch("request") /\ UNCHANGED <<pc, out>>
    BY <1>7 DEF Request, watches
  <2>4. /\ pc' \in [Threads -> {"idle", "send", "refused"}] /\ out' \in [Threads -> Messages]
        /\ \A s \in Threads : pc'[s] = "idle" <=> out'[s] = Nothing
        /\ \A s \in Threads : pc'[s] # "idle" => out'[s].to \in Goals(s)
    <3>1. CASE b \in Boards /\ StartSend("request", m)
      <4>1. m \in Messages /\ m # Nothing /\ m.to = "commands" BY <3>1, MsgFacts DEF Roles
      <4>2. m.to \in Goals("request") BY <4>1 DEF Goals
      <4> HIDE DEF m
      <4> QED BY <3>1, <4>1, <4>2, SendTypes, ThreadFacts
    <3>2. CASE UNCHANGED <<pc, out>> BY <1>t, <3>2 DEF TypeOK
    <3> QED BY <2>3, <3>1, <3>2
  <2>5. progress' \in [Threads -> 0..MaxAge] BY <1>t, <2>3, TouchTypes, ThreadFacts DEF TypeOK
  <2>6. TypeOK' BY <1>t, <1>w, <2>1, <2>2, <2>4, <2>5 DEF TypeOK
  <2> QED BY <1>t, <1>w, <2>1, <2>2, <2>4, <2>6 DEF TInv
<1>8. CASE Storage
  <2>1. /\ Receive("storage") /\ Touch("storage")
        /\ UNCHANGED <<phase, beat_phase, wire, pc, out, todo, beat, stuck, suspect, next_sync,
                       last_fired, uptime, late, faults>>
    BY <1>8 DEF Storage, timers, boards
  <2>2. /\ inbox' \in [Roles -> Seq(Messages)] /\ \A r \in Roles : Len(inbox'[r]) <= Backlog
    BY <2>1, ReceiveTypes, ThreadFacts
  <2>3. progress' \in [Threads -> 0..MaxAge] BY <2>1, TouchTypes, ThreadFacts
  <2>4. TypeOK' BY <1>t, <1>w, <2>1, <2>2, <2>3 DEF TypeOK
  <2> QED BY <1>t, <1>w, <2>1, <2>2, <2>4 DEF TInv
<1>9. CASE Broadcast
  <2> DEFINE m == Msg("commands", "sync", Head(Targets))
  <2>1. /\ StartSend("broadcast", m) /\ Touch("broadcast") /\ todo' = Tail(Targets)
        /\ next_sync' = SyncInterval
        /\ UNCHANGED <<phase, beat_phase, inbox, wire, beat, stuck, suspect, last_fired, uptime,
                       late, faults>>
    BY <1>9 DEF Broadcast, boards
  <2>2. m \in Messages /\ m # Nothing /\ m.to = "commands"
    BY BoardFacts, MsgFacts DEF Roles
  <2>3. m.to \in Goals("broadcast") BY <2>2 DEF Goals
  <2> HIDE DEF m
  <2>4. /\ pc' \in [Threads -> {"idle", "send", "refused"}] /\ out' \in [Threads -> Messages]
        /\ \A s \in Threads : pc'[s] = "idle" <=> out'[s] = Nothing
        /\ \A s \in Threads : pc'[s] # "idle" => out'[s].to \in Goals(s)
    BY <2>1, <2>2, <2>3, SendTypes, ThreadFacts
  <2>5. progress' \in [Threads -> 0..MaxAge] BY <2>1, TouchTypes, ThreadFacts
  <2>6. TypeOK' BY <1>t, <1>w, <2>1, <2>4, <2>5 DEF TypeOK
  <2>7. todo' \in Seq(Boards) BY <2>1, BoardFacts
  <2> QED BY <1>t, <1>w, <2>1, <2>4, <2>6, <2>7 DEF TInv
<1>10. CASE Autonomy
  <2> DEFINE m == Msg("commands", "sun", "ADCS")
  <2>1. /\ StartSend("autonomy", m)
        /\ UNCHANGED <<phase, beat_phase, inbox, wire, todo, progress, beat, stuck, suspect,
                       next_sync, last_fired, uptime, late, faults>>
    BY <1>10 DEF Autonomy, watches, timers, boards
  <2>2. m \in Messages /\ m # Nothing /\ m.to = "commands"
    BY BoardFacts, MsgFacts DEF Roles
  <2>3. m.to \in Goals("autonomy") BY <2>2 DEF Goals
  <2> HIDE DEF m
  <2>4. /\ pc' \in [Threads -> {"idle", "send", "refused"}] /\ out' \in [Threads -> Messages]
        /\ \A s \in Threads : pc'[s] = "idle" <=> out'[s] = Nothing
        /\ \A s \in Threads : pc'[s] # "idle" => out'[s].to \in Goals(s)
    BY <2>1, <2>2, <2>3, SendTypes, ThreadFacts
  <2>5. TypeOK' BY <1>t, <1>w, <2>1, <2>4 DEF TypeOK
  <2> QED BY <1>t, <1>w, <2>1, <2>4, <2>5 DEF TInv
<1>11. ASSUME NEW r \in Roles, Restart(r) PROVE TInv'
  <2> DEFINE mine == {t \in Threads : RoleOf[t] = r}
  <2>1. /\ inbox' = [inbox EXCEPT ![r] = <<>>]
        /\ pc' = [t \in Threads |-> IF t \in mine THEN "idle"
                                    ELSE IF pc[t] = "send" /\ out[t].to = r THEN "refused"
                                    ELSE pc[t]]
        /\ out' = [t \in Threads |-> IF t \in mine THEN Nothing ELSE out[t]]
        /\ progress' = [t \in Threads |-> IF t \in mine THEN 0 ELSE progress[t]]
        /\ stuck' = stuck \ mine
        /\ beat' = [beat EXCEPT ![r] = 0]
        /\ wire' = <<>> \/ wire' = wire
        /\ next_sync' = 0 \/ next_sync' = next_sync
        /\ todo' = <<>> \/ todo' = todo
        /\ last_fired' = uptime \/ last_fired' = last_fired
        /\ UNCHANGED <<phase, beat_phase, suspect, uptime, late, faults>>
    BY <1>11 DEF Restart, boards
  <2> HIDE DEF mine
  <2>2. inbox' \in [Roles -> Seq(Messages)] /\ \A s \in Roles : Len(inbox'[s]) <= Backlog
    <3>1. inbox' = [inbox EXCEPT ![r] = <<>>] BY <2>1
    <3>2. <<>> \in Seq(Messages) /\ Len(<<>>) <= Backlog OBVIOUS
    <3>3. \A s \in Roles : Len(inbox[s]) <= Backlog BY <1>t DEF TypeOK
    <3> QED BY <1>t, <3>1, <3>2, <3>3
  <2>3. /\ pc' \in [Threads -> {"idle", "send", "refused"}] /\ out' \in [Threads -> Messages]
        /\ \A s \in Threads : pc'[s] = "idle" <=> out'[s] = Nothing
        /\ \A s \in Threads : pc'[s] # "idle" => out'[s].to \in Goals(s)
    <3>1. /\ pc \in [Threads -> {"idle", "send", "refused"}]
          /\ \A s \in Threads : pc[s] = "idle" <=> out[s] = Nothing
      BY <1>t DEF TypeOK
    <3>2. ASSUME NEW s \in Threads
          PROVE  /\ pc'[s] \in {"idle", "send", "refused"} /\ out'[s] \in Messages
                 /\ pc'[s] = "idle" <=> out'[s] = Nothing
                 /\ pc'[s] # "idle" => out'[s].to \in Goals(s)
      <4>1. CASE s \in mine
        <5>1. pc'[s] = "idle" /\ out'[s] = Nothing BY <2>1, <4>1
        <5> QED BY <5>1, MsgFacts
      <4>2. CASE s \notin mine
        <5>1. /\ pc'[s] = IF pc[s] = "send" /\ out[s].to = r THEN "refused" ELSE pc[s]
              /\ out'[s] = out[s]
          BY <2>1, <4>2
        <5> QED BY <1>t, <3>1, <5>1
      <4> QED BY <4>1, <4>2
    <3> QED BY <2>1, <3>2
  <2>4. progress' \in [Threads -> 0..MaxAge] /\ beat' \in [Roles -> 0..MaxAge]
    <3>1. progress \in [Threads -> 0..MaxAge] /\ beat \in [Roles -> 0..MaxAge] /\ 0 \in 0..MaxAge
      BY <1>t DEF TypeOK
    <3> QED BY <2>1, <3>1
  <2>5. /\ wire' \in Seq(Messages) /\ Len(wire') <= MaxWire
        /\ \A i \in 1..Len(wire') : wire'[i].board \in Boards \cup {"stranger"}
    <3>1. CASE wire' = <<>> BY <3>1
    <3>2. CASE wire' = wire BY <1>t, <3>2 DEF TypeOK
    <3> QED BY <2>1, <3>1, <3>2
  <2>6. todo' \in Seq(Boards)
    <3>1. <<>> \in Seq(Boards) OBVIOUS
    <3> QED BY <1>t, <2>1, <3>1
  <2>7. TypeOK'
    <3>1. next_sync' \in 0..SyncInterval /\ last_fired' \in 0..SunInterval
      <4>1. /\ next_sync \in 0..SyncInterval /\ last_fired \in 0..SunInterval
            /\ uptime \in 0..SunInterval /\ 0 \in 0..SyncInterval
        BY <1>t DEF TypeOK
      <4> QED BY <2>1, <4>1
    <3>2. stuck' \subseteq Threads BY <1>t, <2>1 DEF TypeOK
    <3>3. UNCHANGED <<phase, beat_phase, suspect, uptime>> BY <2>1
    <3> QED BY <1>t, <1>w, <2>2, <2>3, <2>4, <2>5, <3>1, <3>2, <3>3 DEF TypeOK
  <2> QED BY <1>t, <1>w, <2>1, <2>2, <2>3, <2>5, <2>6, <2>7 DEF TInv
<1>12. CASE BoardSends
  <2>1. PICK p \in {Msg("commands", "request", "EPS"), Msg("commands", "request", "stranger"),
                    Msg("commands", "other", "stranger")} : wire' = Append(wire, p)
    BY <1>12 DEF BoardSends
  <2>2. p \in Messages /\ p.board \in Boards \cup {"stranger"}
    BY <2>1, BoardFacts, MsgFacts DEF Roles
  <2>3. /\ faults' = [faults EXCEPT !.event = @ + 1] /\ Len(wire) < MaxWire
        /\ UNCHANGED <<phase, beat_phase, inbox, pc, out, todo, progress, beat, stuck, suspect,
                       next_sync, last_fired, uptime, late>>
    BY <1>12 DEF BoardSends, threadVars, watches, timers, boards
  <2>4. /\ wire' \in Seq(Messages) /\ Len(wire') <= MaxWire
        /\ \A i \in 1..Len(wire') : (wire'[i] = wire[i] /\ i \in 1..Len(wire)) \/ wire'[i] = p
    <3>1. wire \in Seq(Messages) /\ wire' = Append(wire, p) /\ Len(wire) < MaxWire
      BY <1>t, <2>1, <2>3
    <3> QED BY <2>2, <3>1
  <2>5. \A i \in 1..Len(wire') : wire'[i].board \in Boards \cup {"stranger"}
    BY <1>t, <2>2, <2>4
  <2>6. faults' \in [stuck : Nat, event : Nat] BY <1>t, <2>3, FaultTypes
  <2>7. TypeOK' BY <1>t, <1>w, <2>3, <2>4 DEF TypeOK
  <2> QED BY <1>t, <1>w, <2>3, <2>4, <2>5, <2>6, <2>7 DEF TInv
<1>13. CASE Tick
  <2>1. /\ phase' = (phase + 1) % Second
        /\ progress' = [t \in Threads |-> IF TouchesIdly(t) THEN 0 ELSE Older(progress[t])]
        /\ beat' = [r \in Roles |-> IF beat_phase[r] = phase' /\ Healthy(r, progress') THEN 0
                                    ELSE Older(beat[r])]
        /\ suspect' \subseteq Roles
        /\ out' = [t \in Threads |-> Aged(out[t])]
        /\ inbox' = [r \in Roles |-> [i \in DOMAIN inbox[r] |-> Aged(inbox[r][i])]]
        /\ UNCHANGED <<beat_phase, pc, todo, stuck, late, faults>>
    BY <1>13 DEF Tick
  <2>2. phase' \in 0..Second - 1
    <3>1. phase \in 0..Second - 1 /\ phase' = (phase + 1) % Second BY <1>t, <2>1 DEF TypeOK
    <3>2. \A n \in Nat : n % Second \in 0..Second - 1 OBVIOUS
    <3> QED BY <3>1, <3>2
  <2>3. progress' \in [Threads -> 0..MaxAge] /\ beat' \in [Roles -> 0..MaxAge]
    <3>1. progress \in [Threads -> 0..MaxAge] /\ beat \in [Roles -> 0..MaxAge] /\ 0 \in 0..MaxAge
      BY <1>t DEF TypeOK
    <3>2. /\ \A t \in Threads : Older(progress[t]) \in 0..MaxAge
          /\ \A r \in Roles : Older(beat[r]) \in 0..MaxAge
      BY <3>1, OlderFacts
    <3> QED BY <2>1, <3>1, <3>2
  <2>4. /\ next_sync' = (IF next_sync > 0 THEN next_sync - 1 ELSE 0)
        /\ last_fired' = (IF last_fired < SunInterval THEN last_fired + 1 ELSE last_fired)
        /\ uptime' = (IF uptime < SunInterval THEN uptime + 1 ELSE uptime)
    BY <1>13 DEF Tick
  <2>5. /\ next_sync' \in 0..SyncInterval /\ last_fired' \in 0..SunInterval
        /\ uptime' \in 0..SunInterval
    <3>1. /\ next_sync \in 0..SyncInterval /\ last_fired \in 0..SunInterval
          /\ uptime \in 0..SunInterval
      BY <1>t DEF TypeOK
    <3>2. next_sync' \in 0..SyncInterval BY <2>4, <3>1
    <3>3. last_fired' \in 0..SunInterval /\ uptime' \in 0..SunInterval BY <2>4, <3>1
    <3> QED BY <3>2, <3>3
  <2>6. /\ inbox' \in [Roles -> Seq(Messages)] /\ \A r \in Roles : Len(inbox'[r]) <= Backlog
    <3>1. ASSUME NEW r \in Roles
          PROVE  inbox'[r] \in Seq(Messages) /\ Len(inbox'[r]) <= Backlog
      <4>1. inbox[r] \in Seq(Messages) /\ Len(inbox[r]) <= Backlog BY <1>t DEF TypeOK
      <4>2. inbox'[r] = [i \in DOMAIN inbox[r] |-> Aged(inbox[r][i])] BY <2>1
      <4> QED BY <4>1, <4>2, AgedQueue
    <3> QED BY <2>1, <3>1
  <2>7. /\ out' \in [Threads -> Messages]
        /\ \A s \in Threads : pc'[s] = "idle" <=> out'[s] = Nothing
        /\ \A s \in Threads : pc'[s] # "idle" => out'[s].to \in Goals(s)
    <3>1. ASSUME NEW s \in Threads
          PROVE  /\ out'[s] \in Messages /\ out'[s].to = out[s].to
                 /\ out'[s] = Nothing <=> out[s] = Nothing
      <4>1. out[s] \in Messages /\ out'[s] = Aged(out[s]) BY <1>t, <2>1
      <4> QED BY <4>1, AgedFacts
    <3>2. \A s \in Threads : pc[s] = "idle" <=> out[s] = Nothing BY <1>t DEF TypeOK
    <3> QED BY <1>t, <2>1, <3>1, <3>2
  <2>8. /\ wire' \in Seq(Messages) /\ Len(wire') <= MaxWire
        /\ \A i \in 1..Len(wire') : wire'[i].board \in Boards \cup {"stranger"}
    <3> DEFINE p == Msg("commands", "telemetry", "ADCS")
    <3>1. p \in Messages /\ p.board \in Boards BY BoardFacts, MsgFacts DEF Roles
    <3>2. \/ Len(wire) < MaxWire /\ wire' = Append(wire, p)
          \/ wire' = wire
      BY <1>13 DEF Tick
    <3> HIDE DEF p
    <3>3. CASE Len(wire) < MaxWire /\ wire' = Append(wire, p)
      <4>1. /\ wire' \in Seq(Messages) /\ Len(wire') <= MaxWire
            /\ \A i \in 1..Len(wire') : (wire'[i] = wire[i] /\ i \in 1..Len(wire)) \/ wire'[i] = p
        BY <1>t, <3>1, <3>3
      <4> QED BY <1>t, <3>1, <4>1
    <3>4. CASE wire' = wire BY <1>t, <3>4 DEF TypeOK
    <3> QED BY <3>2, <3>3, <3>4
  <2>9. TypeOK' BY <1>t, <1>w, <2>1, <2>2, <2>3, <2>5, <2>6, <2>7, <2>8 DEF TypeOK
  <2> QED BY <1>t, <1>w, <2>1, <2>6, <2>7, <2>8, <2>9 DEF TInv
<1>14. CASE UNCHANGED vars
  BY <1>t, <1>w, <1>14 DEF TInv, TypeOK, vars, threadVars, watches, timers, boards
<1>15. ASSUME NEW t \in Readers, ReceiveFails(t) PROVE TInv'
  <2>0. t \in Threads /\ RoleOf[t] \in Roles BY ThreadFacts
  <2>1. /\ Receive(t) /\ suspect' = suspect \cup {RoleOf[t]}
        /\ faults' = faults \/ faults' = [faults EXCEPT !.stuck = @ + 1]
        /\ UNCHANGED <<phase, beat_phase, wire, pc, out, todo, progress, beat, stuck, next_sync,
                       last_fired, uptime, late>>
    BY <1>15 DEF ReceiveFails, timers, boards
  <2>2. inbox' \in [Roles -> Seq(Messages)] /\ \A r \in Roles : Len(inbox'[r]) <= Backlog
    BY <2>0, <2>1, ReceiveTypes
  <2>3. faults' \in [stuck : Nat, event : Nat] BY <1>t, <2>1, FaultTypes
  <2>4. suspect' \subseteq Roles BY <1>t, <2>0, <2>1 DEF TypeOK
  <2>5. TypeOK' BY <1>t, <1>w, <2>1, <2>2, <2>4 DEF TypeOK
  <2> QED BY <1>t, <1>w, <2>1, <2>2, <2>3, <2>5 DEF TInv
<1> QED BY <1>1, <1>2, <1>3, <1>4, <1>5, <1>6, <1>7, <1>8, <1>9, <1>10, <1>11, <1>12, <1>13,
           <1>14, <1>15 DEF Next

-----------------------------------------------------------------------------
\* A thread does its work: it touches its watch, or it starts a send.
Works(t) ==
    /\ t \notin stuck /\ UNCHANGED <<phase, beat_phase, beat, stuck, suspect>>
    /\ \A s \in Threads \ {t} : pc'[s] = pc[s] /\ out'[s] = out[s] /\ progress'[s] = progress[s]
    /\ \/ progress'[t] = 0 /\ failing' = failing \ {t}
       \/ /\ t # "broadcast" /\ pc[t] = "idle" /\ pc'[t] = "send" /\ progress'[t] = progress[t]
          /\ UNCHANGED failing
    /\ last_fired' = last_fired \/ progress'["autonomy"] = 0

\* A receiving thread gets an error.
Fails(t) == t \in Readers /\ ReceiveFails(t)

\* What the watches see of a step.
LEMMA WorkStep ==
  ASSUME TInv, [Next]_vars
  PROVE  \/ \E t \in Threads : Works(t) \/ Stick(t) \/ ComeLoose(t) \/ Fails(t)
         \/ \E r \in Roles : Restart(r)
         \/ UNCHANGED <<phase, beat_phase, pc, out, progress, failing, beat, stuck, suspect,
                        last_fired>>
         \/ Tick
<1>t. /\ pc \in [Threads -> {"idle", "send", "refused"}] /\ out \in [Threads -> Messages]
      /\ progress \in [Threads -> 0..MaxAge]
  BY DEF TInv, TypeOK
<1>1. ASSUME NEW t \in Threads, NEW ok \in BOOLEAN, Returned(t, ok), t \notin stuck
      PROVE  Works(t)
  <2>1. progress' = [progress EXCEPT ![t] = 0] /\ failing' = failing \ {t}
    BY <1>1 DEF Returned, Touch
  <2>2. \E m, x : out' = [out EXCEPT ![t] = m] /\ pc' = [pc EXCEPT ![t] = x]
    BY <1>1 DEF Returned
  <2>3. /\ \A s \in Threads \ {t} : pc'[s] = pc[s] /\ out'[s] = out[s] /\ progress'[s] = progress[s]
        /\ progress'[t] = 0
    BY <1>t, <2>1, <2>2
  <2>4. last_fired' = last_fired \/ t = "autonomy" BY <1>1 DEF Returned
  <2>5. UNCHANGED <<phase, beat_phase, beat, stuck, suspect>> BY <1>1 DEF Returned
  <2> QED BY <1>1, <2>1, <2>3, <2>4, <2>5 DEF Works
<1>2. ASSUME NEW t \in Threads, Idle(t), t # "broadcast", NEW m, StartSend(t, m),
             UNCHANGED <<phase, beat_phase, beat, stuck, suspect, progress, failing, last_fired>>
      PROVE  Works(t)
  <2>1. pc' = [pc EXCEPT ![t] = "send"] /\ out' = [out EXCEPT ![t] = m]
    BY <1>2 DEF StartSend
  <2>2. /\ \A s \in Threads \ {t} : pc'[s] = pc[s] /\ out'[s] = out[s]
        /\ pc'[t] = "send"
    BY <1>t, <2>1
  <2>3. pc[t] = "idle" /\ t \notin stuck BY <1>2 DEF Idle
  <2> QED BY <1>2, <2>2, <2>3 DEF Works
<1>3. ASSUME NEW t \in Threads, Idle(t), Touch(t),
             UNCHANGED <<phase, beat_phase, beat, stuck, suspect, last_fired>>,
             \A s \in Threads \ {t} : pc'[s] = pc[s] /\ out'[s] = out[s]
      PROVE  Works(t)
  <2>1. /\ progress'[t] = 0 /\ failing' = failing \ {t}
        /\ \A s \in Threads \ {t} : progress'[s] = progress[s]
    BY <1>t, <1>3 DEF Touch
  <2>2. t \notin stuck BY <1>3 DEF Idle
  <2> QED BY <1>3, <2>1, <2>2 DEF Works
<1>4. ASSUME NEW t \in Threads, Deliver(t) \/ Refuse(t) PROVE Works(t)
  <2>1. t \notin stuck /\ (Returned(t, TRUE) \/ Returned(t, FALSE))
    BY <1>4 DEF Deliver, Refuse
  <2> QED BY <1>1, <2>1
<1>5. CASE Ingest
  <2>1. /\ Idle("ingest") /\ UNCHANGED <<phase, beat_phase, beat, stuck, suspect, last_fired>>
        /\ \/ /\ \E m : StartSend("ingest", m)
              /\ UNCHANGED <<progress, failing>>
           \/ Touch("ingest") /\ UNCHANGED <<pc, out>>
    BY <1>5 DEF Ingest, watches, timers
  <2> QED BY <1>2, <1>3, <2>1, ThreadFacts
<1>6. CASE Relay \/ Storage
  <2>1. \E t \in {"relay", "storage"} :
          /\ Idle(t) /\ Touch(t)
          /\ UNCHANGED <<phase, beat_phase, beat, stuck, suspect, last_fired, pc, out>>
    BY <1>6 DEF Relay, Storage, Receive, timers
  <2> QED BY <1>3, <2>1, ThreadFacts
<1>7. CASE Request
  <2>1. /\ Idle("request") /\ UNCHANGED <<phase, beat_phase, beat, stuck, suspect, last_fired>>
        /\ \/ (\E m : StartSend("request", m)) /\ UNCHANGED <<progress, failing>>
           \/ Touch("request") /\ UNCHANGED <<pc, out>>
    BY <1>7 DEF Request, Receive, watches, timers
  <2> QED BY <1>2, <1>3, <2>1, ThreadFacts
<1>8. CASE Broadcast
  <2>1. /\ Idle("broadcast") /\ Touch("broadcast")
        /\ UNCHANGED <<phase, beat_phase, beat, stuck, suspect, last_fired>>
    BY <1>8 DEF Broadcast
  <2>2. \A s \in Threads \ {"broadcast"} : pc'[s] = pc[s] /\ out'[s] = out[s]
    BY <1>8, <1>t DEF Broadcast, StartSend
  <2> QED BY <1>3, <2>1, <2>2, ThreadFacts
<1>9. CASE Autonomy
  <2>1. /\ Idle("autonomy") /\ \E m : StartSend("autonomy", m)
        /\ UNCHANGED <<phase, beat_phase, beat, stuck, suspect, progress, failing, last_fired>>
    BY <1>9 DEF Autonomy, watches, timers
  <2> QED BY <1>2, <2>1, ThreadFacts
<1>10. CASE BoardSends \/ UNCHANGED vars
  BY <1>10 DEF BoardSends, vars, threadVars, watches, timers
<1>11. ASSUME NEW t \in Readers, ReceiveFails(t) PROVE t \in Threads /\ Fails(t)
  BY <1>11, ThreadFacts DEF Fails
<1> QED BY <1>4, <1>5, <1>6, <1>7, <1>8, <1>9, <1>10, <1>11 DEF Next

\* What an error does.
LEMMA FailsFacts ==
  ASSUME NEW t, Fails(t)
  PROVE  /\ t \in Threads /\ t \in Readers /\ ~Tick
         /\ suspect' = suspect \cup {RoleOf[t]} /\ failing' = failing \cup {t}
         /\ UNCHANGED <<phase, beat_phase, wire, pc, out, todo, progress, beat, stuck, next_sync,
                        last_fired>>
<1>1. t \in Threads /\ t \in Readers BY ThreadFacts DEF Fails
<1>2. /\ suspect' = suspect \cup {RoleOf[t]} /\ failing' = failing \cup {t}
      /\ UNCHANGED <<phase, beat_phase, wire, pc, out, todo, progress, beat, stuck, next_sync,
                     last_fired>>
  BY DEF Fails, ReceiveFails, timers
<1>3. ~Tick
  <2>1. pc[t] = "idle" /\ t \notin stuck /\ inbox[RoleOf[t]] # <<>>
    BY DEF Fails, ReceiveFails, Receive, Idle
  <2>2. t \notin {"ingest", "broadcast", "autonomy"} BY <1>1, ThreadFacts
  <2>3. Ready(t) BY <2>1, <2>2 DEF Ready
  <2> QED BY <1>1, <2>3 DEF Tick, Quiet
<1> QED BY <1>1, <1>2, <1>3

\* What a restart does to the watches and to those who send to the role.
LEMMA RestartFacts ==
  ASSUME TInv, NEW r \in Roles, Restart(r)
  PROVE  /\ phase = 0 /\ UNCHANGED <<phase, beat_phase, suspect>> /\ beat'[r] = 0
         /\ \A q \in Roles \ {r} : beat'[q] = beat[q]
         /\ \A t \in Threads : RoleOf[t] = r =>
              /\ pc'[t] = "idle" /\ out'[t] = Nothing /\ progress'[t] = 0
              /\ t \notin stuck' \cup failing'
         /\ \A t \in Threads : RoleOf[t] # r =>
              /\ out'[t] = out[t] /\ progress'[t] = progress[t]
              /\ t \in stuck' <=> t \in stuck
              /\ t \in failing' <=> t \in failing
              /\ IF pc[t] = "send" /\ out[t].to = r THEN pc'[t] = "refused" ELSE pc'[t] = pc[t]
         /\ r # "mission" => last_fired' = last_fired
<1> DEFINE mine == {t \in Threads : RoleOf[t] = r}
<1>1. /\ pc' = [t \in Threads |-> IF t \in mine THEN "idle"
                                  ELSE IF pc[t] = "send" /\ out[t].to = r THEN "refused"
                                  ELSE pc[t]]
      /\ out' = [t \in Threads |-> IF t \in mine THEN Nothing ELSE out[t]]
      /\ progress' = [t \in Threads |-> IF t \in mine THEN 0 ELSE progress[t]]
      /\ stuck' = stuck \ mine /\ failing' = failing \ mine /\ beat' = [beat EXCEPT ![r] = 0]
      /\ phase = 0 /\ UNCHANGED <<phase, beat_phase, suspect>>
      /\ last_fired' = IF r = "mission" THEN uptime ELSE last_fired
  BY DEF Restart
<1>2. beat \in [Roles -> 0..MaxAge] BY DEF TInv, TypeOK
<1>3. \A t \in Threads : t \in mine <=> RoleOf[t] = r OBVIOUS
<1> HIDE DEF mine
<1>4. beat'[r] = 0 /\ \A q \in Roles \ {r} : beat'[q] = beat[q] BY <1>1, <1>2
<1> QED BY <1>1, <1>3, <1>4

-----------------------------------------------------------------------------
\* FDIR looks at the heartbeats once a second.
BeatBound == \A r \in Roles : beat[r] <= BeatTimeout + (IF phase = 0 THEN Second ELSE phase)

\* A role that beats is healthy, so that a silent thread silences its role.
WatchInv == \A t \in Threads : Active(t) => progress[t] <= Stall + beat[RoleOf[t]]

\* The inductive invariant behind RelayInv.
SilentInv == TInv /\ BeatBound /\ WatchInv

\* What a tick does to the watches.
LEMMA TickFacts ==
  ASSUME TInv, Tick
  PROVE  /\ Quiet /\ UNCHANGED <<beat_phase, pc, stuck>>
         /\ phase' \in 0..Second - 1
         /\ IF phase = Second - 1 THEN phase' = 0 ELSE phase' = phase + 1
         /\ \A t \in Threads :
              IF TouchesIdly(t) THEN progress'[t] = 0 ELSE progress'[t] = Older(progress[t])
         /\ failing' = {t \in failing : ~TouchesIdly(t)}
         /\ \A r \in Roles :
              IF beat_phase[r] = phase' /\ Healthy(r, progress')
                THEN beat'[r] = 0
                ELSE beat'[r] = Older(beat[r])
         /\ \A r \in Roles : phase = 0 => beat[r] <= BeatTimeout
<1>1. phase \in 0..Second - 1 /\ beat \in [Roles -> 0..MaxAge] BY DEF TInv, TypeOK
<1>2. phase' = (phase + 1) % Second BY DEF Tick
<1>3. /\ phase' \in 0..Second - 1
      /\ IF phase = Second - 1 THEN phase' = 0 ELSE phase' = phase + 1
  BY <1>1, <1>2, ConstantFacts
<1>4. \A r \in Roles : phase = 0 => beat[r] <= BeatTimeout
  <2>1. \A r \in Roles : phase = 0 => ~(beat[r] > BeatTimeout) BY DEF Tick, Stale
  <2> QED BY <1>1, <2>1, ConstantFacts
<1> QED BY <1>3, <1>4 DEF Tick

\* A pass of FDIR comes before a heartbeat can grow much older than its time-out.
LEMMA BeatBoundStep ==
  ASSUME TInv, BeatBound, [Next]_vars
  PROVE  BeatBound'
<1> USE ConstantFacts
<1>t. phase \in 0..Second - 1 /\ beat \in [Roles -> 0..MaxAge] BY DEF TInv, TypeOK
<1>1. CASE \E t \in Threads : Works(t) \/ Stick(t) \/ ComeLoose(t) \/ Fails(t)
  <2>1. UNCHANGED <<phase, beat>> BY <1>1, FailsFacts DEF Works, Stick, ComeLoose
  <2> QED BY <2>1 DEF BeatBound
<1>2. ASSUME NEW r \in Roles, Restart(r) PROVE BeatBound'
  <2>1. /\ phase' = phase /\ beat'[r] = 0 /\ \A q \in Roles \ {r} : beat'[q] = beat[q]
    BY <1>2, RestartFacts
  <2> QED BY <1>t, <2>1 DEF BeatBound
<1>3. CASE UNCHANGED <<phase, beat>> BY <1>3 DEF BeatBound
<1>4. CASE Tick
  <2> SUFFICES ASSUME NEW r \in Roles
               PROVE  beat'[r] <= BeatTimeout + (IF phase' = 0 THEN Second ELSE phase')
    BY DEF BeatBound
  <2> DEFINE b == beat[r]
             c == beat'[r]
             p == phase
             q == phase'
  <2>1. b \in 0..MaxAge /\ b <= BeatTimeout + (IF p = 0 THEN Second ELSE p)
    BY <1>t DEF BeatBound
  <2>2. p = 0 => b <= BeatTimeout BY <1>4, TickFacts
  <2>3. q \in 0..Second - 1 /\ (IF p = Second - 1 THEN q = 0 ELSE q = p + 1)
    BY <1>4, TickFacts
  <2>4. c = 0 \/ c <= b + 1
    <3>1. c = 0 \/ c = Older(b) BY <1>4, TickFacts
    <3>2. Older(b) <= b + 1 BY <2>1, OlderFacts
    <3> HIDE DEF b, c
    <3> QED BY <3>1, <3>2
  <2>5. p \in 0..Second - 1 BY <1>t
  <2>6. c = 0 \/ c \in 0..MaxAge
    <3>1. c = 0 \/ c = Older(b) BY <1>4, TickFacts
    <3> QED BY <2>1, <3>1, OlderFacts
  <2> HIDE DEF b, c, p, q
  <2>7. c <= BeatTimeout + (IF q = 0 THEN Second ELSE q)
    BY <2>1, <2>2, <2>3, <2>4, <2>5, <2>6
  <2> QED BY <2>7 DEF c, q
<1> QED BY <1>1, <1>2, <1>3, <1>4, WorkStep

\* A thread that is watched after a step was watched before, or has just touched its watch.
LEMMA ActiveStep ==
  ASSUME TInv, [Next]_vars, ~Tick, NEW t \in Threads, Active(t)'
  PROVE  Active(t) \/ progress'[t] = 0
<1>1. ASSUME NEW s \in Threads, Works(s) PROVE Active(t) \/ progress'[t] = 0
  <2>1. CASE s = t BY <1>1, <2>1 DEF Works, Active
  <2>2. CASE s # t BY <1>1, <2>2 DEF Works, Active
  <2> QED BY <2>1, <2>2
<1>2. ASSUME NEW s \in Threads, Stick(s) \/ ComeLoose(s) \/ Fails(s) PROVE Active(t)
  BY <1>2, FailsFacts DEF Stick, ComeLoose, threadVars, watches, Active
<1>3. ASSUME NEW r \in Roles, Restart(r) PROVE Active(t) \/ progress'[t] = 0
  <2>1. CASE RoleOf[t] = r BY <1>3, <2>1, RestartFacts
  <2>2. CASE RoleOf[t] # r BY <1>3, <2>2, RestartFacts DEF Active
  <2> QED BY <2>1, <2>2
<1>4. CASE UNCHANGED pc BY <1>4 DEF Active
<1> QED BY <1>1, <1>2, <1>3, <1>4, WorkStep

\* A silent thread makes its role's heartbeat old.
LEMMA WatchStep ==
  ASSUME TInv, WatchInv, [Next]_vars
  PROVE  WatchInv'
<1> USE ConstantFacts
<1>n. TInv' BY TStep
<1> SUFFICES ASSUME NEW t \in Threads, Active(t)'
             PROVE  progress'[t] <= Stall + beat'[RoleOf[t]]
  <2>1. RoleOf' = RoleOf /\ Threads' = Threads BY DEF RoleOf, Threads
  <2> QED BY <2>1 DEF WatchInv
<1> DEFINE r == RoleOf[t]
           p == progress[t]
           q == progress'[t]
           b == beat[r]
           c == beat'[r]
<1>r. r \in Roles BY ThreadFacts
<1>t. p \in 0..MaxAge /\ b \in 0..MaxAge BY <1>r DEF TInv, TypeOK
<1>u. q \in 0..MaxAge /\ c \in 0..MaxAge BY <1>n, <1>r DEF TInv, TypeOK
<1>o. Active(t) => p <= Stall + b BY DEF WatchInv
<1>1. CASE ~Tick
  <2>1. q = 0 \/ (Active(t) /\ q = p /\ c = b)
    <3>1. ASSUME NEW s \in Threads, Works(s) PROVE q = 0 \/ (q = p /\ c = b)
      BY <3>1 DEF Works
    <3>2. ASSUME NEW s \in Threads, Stick(s) \/ ComeLoose(s) \/ Fails(s) PROVE q = p /\ c = b
      BY <3>2, FailsFacts DEF Stick, ComeLoose, threadVars, watches
    <3>3. ASSUME NEW s \in Roles, Restart(s) PROVE q = 0 \/ (q = p /\ c = b)
      <4>1. CASE r = s BY <3>3, <4>1, RestartFacts
      <4>2. CASE r # s BY <1>r, <3>3, <4>2, RestartFacts
      <4> QED BY <4>1, <4>2
    <3>4. UNCHANGED <<progress, beat>> => q = p /\ c = b OBVIOUS
    <3>5. q = 0 \/ (q = p /\ c = b) BY <1>1, <3>1, <3>2, <3>3, <3>4, WorkStep
    <3> QED BY <1>1, <3>5, ActiveStep
  <2> HIDE DEF p, q, b, c
  <2>2. q <= Stall + c BY <1>o, <1>t, <1>u, <2>1
  <2> QED BY <2>2 DEF q, c
<1>2. CASE Tick
  <2>1. Active(t) BY <1>2, TickFacts DEF Active
  <2>2. CASE c = 0 /\ Healthy(r, progress')
    <3>1. progress'[t] <= Stall BY <2>1, <2>2, <1>2, TickFacts DEF Healthy
    <3> HIDE DEF c
    <3>2. progress'[t] <= Stall + c BY <1>u, <2>2, <3>1
    <3> QED BY <3>2 DEF c
  <2>3. CASE c = Older(b)
    <3>1. q = 0 \/ q = Older(p) BY <1>2, TickFacts
    <3>2. p <= Stall + b BY <1>o, <2>1
    <3> HIDE DEF p, q, b, c
    <3>3. q <= Stall + c BY <1>t, <1>u, <2>3, <3>1, <3>2 DEF Older
    <3> QED BY <3>3 DEF q, c
  <2> QED BY <1>2, <1>r, <2>2, <2>3, TickFacts
<1> QED BY <1>1, <1>2

\* The inductive invariant behind RelayInv.
LEMMA SilentStep == SilentInv /\ [Next]_vars => SilentInv'
BY TStep, BeatBoundStep, WatchStep DEF SilentInv

\* A thread and its role are watched in turn for Repair ticks at most.
LEMMA SilentBound == SilentInv => NoSilentThread
<1> SUFFICES ASSUME SilentInv PROVE NoSilentThread OBVIOUS
<1> USE ConstantFacts
<1>t. phase \in 0..Second - 1 BY DEF SilentInv, TInv, TypeOK
<1>1. ASSUME NEW r \in Roles PROVE beat[r] <= BeatTimeout + Second /\ beat[r] \in Nat
  <2> DEFINE b == beat[r]
  <2>1. b \in 0..MaxAge BY DEF SilentInv, TInv, TypeOK
  <2>2. b <= BeatTimeout + (IF phase = 0 THEN Second ELSE phase) BY DEF SilentInv, BeatBound
  <2> HIDE DEF b
  <2>3. b <= BeatTimeout + Second /\ b \in Nat BY <1>t, <2>1, <2>2
  <2> QED BY <2>3 DEF b
<1>2. ASSUME NEW t \in Threads, Active(t) PROVE progress[t] <= Repair
  <2> DEFINE p == progress[t]
             b == beat[RoleOf[t]]
  <2>1. p \in 0..MaxAge BY DEF SilentInv, TInv, TypeOK
  <2>2. p <= Stall + b BY <1>2 DEF SilentInv, WatchInv
  <2>3. b <= BeatTimeout + Second /\ b \in Nat BY <1>1, ThreadFacts
  <2> HIDE DEF p, b
  <2>4. p <= Repair BY <2>1, <2>2, <2>3 DEF Repair
  <2> QED BY <2>4 DEF p
<1> QED BY <1>2 DEF NoSilentThread

\* The same, after a step.
LEMMA SilentBoundNext == SilentInv' => NoSilentThread'
BY SilentBound, PTL

\* At the start every watch is fresh.
LEMMA SilentInit == Init => SilentInv
<1> SUFFICES ASSUME Init PROVE SilentInv OBVIOUS
<1>1. TInv BY TInit
<1>2. BeatBound BY ConstantFacts DEF Init, BeatBound
<1>3. WatchInv BY ConstantFacts, ThreadFacts DEF Init, WatchInv
<1> QED BY <1>1, <1>2, <1>3 DEF SilentInv

\* Whatever threads get stuck or get errors, however often, the sockets keep to their backlogs and no
\* watched thread is silent for longer than Stall + BeatTimeout + Second: a heartbeat
\* stops with the thread's watch, and FDIR does not miss a heartbeat that stopped
\* (obc_progress.c, the roles' heartbeat.c, obc_ipc.c, watchdog.c).
THEOREM RelayTheorem == Spec => []RelayInv
<1>1. SilentInv => RelayInv BY SilentBound DEF SilentInv, TInv, RelayInv
<1> QED BY <1>1, SilentInit, SilentStep, PTL DEF Spec

-----------------------------------------------------------------------------
\* Heartbeats come at most every other tick, and a watch and FDIR both wait for more than a
\* second (1 s against time-outs of 3 and 5 s in the code).
Pace == Second >= 2 /\ Second + 1 <= Stall /\ Second + 1 <= BeatTimeout

\* The ticks since the role's heartbeat thread was last awake.
Missed(r) == IF phase >= beat_phase[r] THEN phase - beat_phase[r]
             ELSE (phase + Second) - beat_phase[r]

\* A stuck thread makes its role suspect, but for the tick in which the role has just beaten.
StuckInv ==
    \A t \in stuck :
       /\ Active(t)
       /\ RoleOf[t] \notin suspect =>
             beat[RoleOf[t]] = 0 /\ phase = beat_phase[RoleOf[t]]

\* The thread has touched its watch in the last second, or is about to.
Punctual(t) ==
    /\ progress[t] <= Second
    /\ t = "autonomy" /\ pc[t] = "idle" /\ progress[t] = Second => last_fired >= SunInterval

\* Autonomy came loose when it was due: it fires before it touches its watch.
Firing(t) ==
    /\ t = "autonomy" /\ beat[RoleOf[t]] <= 1
    /\ pc[t] = "idle" => last_fired >= SunInterval

\* The thread waits for a suspect role, since a tick at most.
Behind(t) ==
    /\ pc[t] = "send" /\ out[t].to \in suspect
    /\ progress[t] <= Second + 1 \/ beat[RoleOf[t]] <= 2

\* Where the threads of a role are that is not suspect.
Free(t) == \/ beat[RoleOf[t]] = 0 \/ pc[t] = "refused"
           \/ Punctual(t) \/ Firing(t) \/ Behind(t)
FreeInv == \A t \in Threads : RoleOf[t] \notin suspect /\ Active(t) => Free(t)

\* A role that is not suspect misses two ticks at most beyond its phase.
BeatInv == \A r \in Roles \ suspect : beat[r] <= Missed(r) + 2

\* The inductive invariant behind OnlyHeldRolesRestarted.
HeldInv == TInv /\ StuckInv /\ FreeInv /\ BeatInv

\* Threads and roles do not change.
LEMMA Rigid ==
  /\ Threads' = Threads /\ RoleOf' = RoleOf /\ Roles' = Roles
  /\ Second \in Nat /\ MaxAge \in Nat /\ MaxAge > 0
BY ConstantFacts DEF Threads, RoleOf, Roles

\* Who is not suspect after a tick without a heartbeat was not, and was not held.
LEMMA SuspectTick ==
  ASSUME Tick, NEW r \in Roles
  PROVE  r \in suspect' <=> beat'[r] # 0 /\ (r \in suspect \/ Held(r))
BY DEF Tick

\* A stuck thread is suspected from the tick after the heartbeat on.
LEMMA StuckStep ==
  ASSUME TInv, StuckInv, [Next]_vars
  PROVE  StuckInv'
<1> SUFFICES ASSUME NEW t \in stuck'
             PROVE  /\ Active(t)'
                    /\ RoleOf[t] \notin suspect' =>
                         beat'[RoleOf[t]] = 0 /\ phase' = beat_phase'[RoleOf[t]]
  BY Rigid DEF StuckInv
<1> DEFINE r == RoleOf[t]
<1>t. stuck \subseteq Threads /\ beat \in [Roles -> 0..MaxAge] BY DEF TInv, TypeOK
<1>s. t \in stuck => Active(t) /\ (r \notin suspect => beat[r] = 0 /\ phase = beat_phase[r])
  BY DEF StuckInv
<1>1. ASSUME NEW s \in Threads, Works(s)
      PROVE  t \in stuck /\ pc'[t] = pc[t] /\ UNCHANGED <<phase, beat_phase, beat, suspect>>
  <2>1. s \notin stuck /\ stuck' = stuck BY <1>1 DEF Works
  <2>2. t \in Threads \ {s} BY <1>t, <2>1
  <2> QED BY <1>1, <2>1, <2>2 DEF Works
<1>2. ASSUME NEW s \in Threads, Works(s) PROVE Active(t)' /\ (r \notin suspect' =>
             beat'[r] = 0 /\ phase' = beat_phase'[r])
  BY <1>1, <1>2, <1>s DEF Active
<1>3. ASSUME NEW s \in Threads, Stick(s) PROVE Active(t)' /\ (r \notin suspect' =>
             beat'[r] = 0 /\ phase' = beat_phase'[r])
  <2>1. /\ stuck' = stuck \cup {s} /\ suspect' = suspect \cup {RoleOf[s]} /\ Active(s)
        /\ UNCHANGED <<phase, beat_phase, pc, beat>>
    BY <1>3 DEF Stick, threadVars
  <2>2. CASE t = s BY <2>1, <2>2 DEF Active
  <2>3. CASE t \in stuck BY <1>s, <2>1, <2>3 DEF Active
  <2> QED BY <2>1, <2>2, <2>3
<1>4. ASSUME NEW s \in Threads, ComeLoose(s) PROVE Active(t)' /\ (r \notin suspect' =>
             beat'[r] = 0 /\ phase' = beat_phase'[r])
  <2>1. t \in stuck /\ UNCHANGED <<phase, beat_phase, pc, beat, suspect>>
    BY <1>4 DEF ComeLoose, threadVars
  <2> QED BY <1>s, <2>1 DEF Active
<1>5. ASSUME NEW q \in Roles, Restart(q) PROVE Active(t)' /\ (r \notin suspect' =>
             beat'[r] = 0 /\ phase' = beat_phase'[r])
  <2>0. t \in Threads BY <1>5, <1>t DEF Restart
  <2>1. r # q BY <1>5, <2>0, RestartFacts
  <2>2. r \in Roles BY <2>0, ThreadFacts
  <2>3. /\ t \in stuck /\ beat'[r] = beat[r] /\ UNCHANGED <<phase, beat_phase, suspect>>
        /\ pc'[t] = "idle" => pc[t] = "idle"
    BY <1>5, <2>0, <2>1, <2>2, RestartFacts
  <2> QED BY <1>s, <2>3 DEF Active
<1>6. CASE Tick
  <2>1. t \in stuck /\ UNCHANGED <<beat_phase, pc, stuck>> BY <1>6, TickFacts
  <2>2. t \in Threads /\ r \in Roles BY <1>t, <2>1, ThreadFacts
  <2>3. Active(t)' BY <1>s, <2>1 DEF Active
  <2>4. ASSUME r \notin suspect' PROVE beat'[r] = 0 /\ phase' = beat_phase'[r]
    <3>1. Held(r) BY <2>1, <2>2 DEF Held
    <3>2. beat'[r] = 0 BY <1>6, <2>2, <2>4, <3>1, SuspectTick
    <3>3. Older(beat[r]) # 0
      <4>1. beat[r] \in 0..MaxAge BY <1>t, <2>2
      <4> QED BY <4>1, Rigid DEF Older
    <3>4. beat_phase[r] = phase' BY <1>6, <2>2, <3>2, <3>3, TickFacts
    <3> QED BY <2>1, <3>2, <3>4
  <2> QED BY <2>3, <2>4
<1>7. CASE UNCHANGED <<phase, beat_phase, pc, beat, stuck, suspect>>
  BY <1>s, <1>7 DEF Active
<1>8. ASSUME NEW s \in Threads, Fails(s) PROVE Active(t)' /\ (r \notin suspect' =>
             beat'[r] = 0 /\ phase' = beat_phase'[r])
  <2>1. /\ t \in stuck /\ suspect \subseteq suspect'
        /\ UNCHANGED <<phase, beat_phase, pc, beat>>
    BY <1>8, FailsFacts
  <2> QED BY <1>s, <2>1 DEF Active
<1> QED BY <1>2, <1>3, <1>4, <1>5, <1>6, <1>7, <1>8, WorkStep

\* A thread that is blocked when a tick begins waits for a role that is suspect after it.
LEMMA BlockedTick ==
  ASSUME TInv, StuckInv, Pace, Tick, NEW t \in Threads, pc[t] = "send", t \notin stuck,
         ~Held(RoleOf[t]), out[t].to \notin suspect
  PROVE  out[t].to \in suspect'
<1> USE ConstantFacts
<1> DEFINE q == out[t].to
           Full(r) == inbox[r] # <<>>
<1>q. \A s \in Threads : ~Ready(s) BY TickFacts DEF Quiet
<1>t. /\ inbox \in [Roles -> Seq(Messages)] /\ pc \in [Threads -> {"idle", "send", "refused"}]
      /\ \A s \in Threads : pc[s] # "idle" => out[s].to \in Goals(s)
      /\ beat \in [Roles -> 0..MaxAge] /\ phase \in 0..Second - 1
  BY DEF TInv, TypeOK
<1>g. q \in Goals(t) BY <1>t
<1>1. \A s \in Threads : s \notin stuck /\ pc[s] = "send" /\ out[s].to \in Roles => Full(out[s].to)
  <2> SUFFICES ASSUME NEW s \in Threads, s \notin stuck, pc[s] = "send", out[s].to \in Roles,
                      ~Full(out[s].to)
               PROVE  FALSE
    OBVIOUS
  <2>1. Len(inbox[out[s].to]) = 0 OBVIOUS
  <2>2. Room(s) BY <2>1 DEF Room
  <2> QED BY <1>q, <2>2 DEF Ready
<1>2. \A s \in {"relay", "request", "storage"} :
        s \notin stuck /\ pc[s] = "idle" => ~Full(RoleOf[s])
  <2> SUFFICES ASSUME NEW s \in {"relay", "request", "storage"}, s \notin stuck, pc[s] = "idle",
                      Full(RoleOf[s])
               PROVE  FALSE
    OBVIOUS
  <2>1. s \in Threads /\ s \notin {"ingest", "broadcast", "autonomy"} BY ThreadFacts
  <2>2. Ready(s) BY <2>1 DEF Ready
  <2> QED BY <1>q, <2>1, <2>2
<1>3. pc["relay"] = "idle" /\ pc["storage"] = "idle" BY <1>t, ThreadFacts DEF Goals
<1>4. q \in Roles /\ Full(q) BY <1>1, <1>g, ThreadFacts DEF Goals, Roles
<1> HIDE DEF Full
<1>5. \E x \in stuck : x \in Threads /\ RoleOf[x] = q
  <2>1. CASE q = "data" BY <1>2, <1>3, <1>4, <2>1, ThreadFacts
  <2>2. CASE q = "commands" BY <1>2, <1>3, <1>4, <2>2, ThreadFacts
  <2>3. CASE q = "time"
    <3>1. t = "ingest" BY <1>g, <2>3 DEF Goals
    <3>2. "relay" \notin stuck BY <3>1, ThreadFacts DEF Held
    <3>3. ~Full("commands") BY <1>2, <1>3, <3>2, ThreadFacts
    <3>4. "request" \in stuck
      <4> SUFFICES ASSUME "request" \notin stuck PROVE FALSE OBVIOUS
      <4>1. pc["request"] # "idle" BY <1>2, <1>4, <2>3, ThreadFacts
      <4>2. pc["request"] # "refused" BY <1>q, ThreadFacts DEF Ready
      <4>3. pc["request"] = "send" /\ out["request"].to = "commands"
        BY <1>t, <4>1, <4>2, ThreadFacts DEF Goals
      <4> QED BY <1>1, <3>3, <4>3, ThreadFacts DEF Roles
    <3> QED BY <2>3, <3>4, ThreadFacts
  <2> QED BY <1>g, <2>1, <2>2, <2>3 DEF Goals
<1>6. Held(q) /\ beat[q] = 0 /\ phase = beat_phase[q]
  BY <1>5 DEF StuckInv, Held
<1>7. beat_phase[q] # phase'
  <2>1. IF phase = Second - 1 THEN phase' = 0 ELSE phase' = phase + 1 BY TickFacts
  <2> QED BY <1>6, <1>t, <2>1 DEF Pace
<1>8. beat'[q] # 0
  <2>1. beat'[q] = Older(beat[q]) BY <1>4, <1>7, TickFacts
  <2> QED BY <1>6, <2>1 DEF Older
<1> QED BY <1>4, <1>6, <1>8, SuspectTick

\* A thread that has just touched its watch is punctual.
LEMMA TouchedIsPunctual ==
  ASSUME NEW t, progress'[t] = 0
  PROVE  Punctual(t)'
BY ConstantFacts DEF Punctual

\* No step but a tick takes a thread of an unsuspected role out of its place.
LEMMA FreeWork ==
  ASSUME TInv, FreeInv, [Next]_vars, ~Tick
  PROVE  FreeInv'
<1> SUFFICES ASSUME NEW t \in Threads, RoleOf[t] \notin suspect', Active(t)',
                    progress'[t] # 0
             PROVE  Free(t)'
  BY Rigid, TouchedIsPunctual DEF FreeInv, Free
<1> DEFINE r == RoleOf[t]
<1>r. r \in Roles BY ThreadFacts
<1>a. Active(t) BY ActiveStep
<1>1. ASSUME NEW s \in Threads, Works(s) PROVE Free(t)'
  <2>1. /\ UNCHANGED <<beat, suspect>> /\ progress'[t] = progress[t]
        /\ t = "autonomy" => last_fired' = last_fired
        /\ \/ t # s /\ pc'[t] = pc[t] /\ out'[t] = out[t]
           \/ pc[t] = "idle" /\ pc'[t] = "send"
    BY <1>1 DEF Works
  <2>2. Free(t) BY <1>a, <2>1 DEF FreeInv
  <2>3. CASE pc'[t] = pc[t] /\ out'[t] = out[t]
    BY <2>1, <2>2, <2>3, Rigid DEF Free, Punctual, Firing, Behind
  <2>4. CASE pc[t] = "idle" /\ pc'[t] = "send"
    BY <2>1, <2>2, <2>4, Rigid DEF Free, Punctual, Firing, Behind
  <2> QED BY <2>1, <2>3, <2>4
<1>2. ASSUME NEW s \in Threads, Stick(s) \/ ComeLoose(s) \/ Fails(s) PROVE Free(t)'
  <2>1. /\ UNCHANGED <<pc, out, progress, beat, last_fired>> /\ suspect \subseteq suspect'
    BY <1>2, FailsFacts DEF Stick, ComeLoose, threadVars, watches, timers
  <2>2. Free(t) BY <1>a, <2>1 DEF FreeInv
  <2> QED BY <2>1, <2>2, Rigid DEF Free, Punctual, Firing, Behind
<1>3. ASSUME NEW q \in Roles, Restart(q) PROVE Free(t)'
  <2>1. r # q BY <1>3, RestartFacts
  <2>2. /\ UNCHANGED suspect /\ beat'[r] = beat[r] /\ out'[t] = out[t]
        /\ progress'[t] = progress[t]
        /\ IF pc[t] = "send" /\ out[t].to = q THEN pc'[t] = "refused" ELSE pc'[t] = pc[t]
        /\ q # "mission" => last_fired' = last_fired
    BY <1>3, <1>r, <2>1, RestartFacts
  <2>3. t = "autonomy" => last_fired' = last_fired BY <2>1, <2>2, ThreadFacts
  <2>4. Free(t) BY <1>a, <2>2 DEF FreeInv
  <2>5. CASE pc'[t] = "refused" BY <2>5 DEF Free
  <2>6. CASE pc'[t] = pc[t]
    BY <2>2, <2>3, <2>4, <2>6, Rigid DEF Free, Punctual, Firing, Behind
  <2> QED BY <2>2, <2>5, <2>6
<1>4. CASE UNCHANGED <<pc, out, progress, beat, suspect, last_fired>>
  <2>1. Free(t) BY <1>a, <1>4 DEF FreeInv
  <2> QED BY <1>4, <2>1, Rigid DEF Free, Punctual, Firing, Behind
<1> QED BY <1>1, <1>2, <1>3, <1>4, WorkStep

\* A tick leaves the threads of an unsuspected role punctual, but for one that waits.
LEMMA FreeTick ==
  ASSUME Pace, TInv, StuckInv, FreeInv, Tick
  PROVE  FreeInv'
<1> USE ConstantFacts
<1> SUFFICES ASSUME NEW t \in Threads, RoleOf[t] \notin suspect', Active(t)',
                    beat'[RoleOf[t]] # 0
             PROVE  Free(t)'
  BY Rigid DEF FreeInv, Free
<1> DEFINE r == RoleOf[t]
           p == progress[t]
           q == progress'[t]
           b == beat[r]
           c == beat'[r]
<1>r. r \in Roles BY ThreadFacts
<1>h. r \notin suspect /\ ~Held(r) BY <1>r, SuspectTick
<1>s. t \notin stuck /\ t \notin failing BY <1>h DEF Held
<1>v. Waited(t) = p BY <1>s DEF TInv, WatchOK, Waited
<1>u. UNCHANGED pc /\ ~Ready(t) BY TickFacts DEF Quiet
<1>a. Active(t) BY <1>u DEF Active
<1>f. Free(t) BY <1>a, <1>h DEF FreeInv
<1>t. /\ p \in 0..MaxAge /\ b \in 0..MaxAge /\ last_fired \in 0..SunInterval
      /\ pc[t] \in {"idle", "send", "refused"} /\ out \in [Threads -> Messages]
  BY <1>r DEF TInv, TypeOK
<1>b. c = Older(b) /\ c <= b + 1 /\ c \in 0..MaxAge
  <2>1. c = Older(b) BY <1>r, TickFacts
  <2> QED BY <1>t, <2>1, OlderFacts
<1>p. IF TouchesIdly(t) THEN q = 0 ELSE q = Older(p) BY TickFacts
<1>o. Older(p) <= p + 1 /\ Older(p) \in 0..MaxAge BY <1>t, OlderFacts
<1>l. last_fired' = IF last_fired < SunInterval THEN last_fired + 1 ELSE last_fired
  BY DEF Tick
<1>1. CASE pc[t] = "refused" BY <1>1, <1>s, <1>u DEF Ready
<1>2. CASE pc[t] = "send"
  <2>1. out[t].to \notin suspect BY <1>2, <1>h DEF Held
  <2>2. out[t].to \in suspect' BY <1>2, <1>h, <1>s, <2>1, BlockedTick
  <2>3. out'[t].to = out[t].to
    <3>1. out'[t] = Aged(out[t]) BY DEF Tick
    <3> QED BY <1>t, <3>1, AgedFacts
  <2>4. q \in 0..MaxAge /\ q <= p + 1
    <3> HIDE DEF p, q
    <3> QED BY <1>o, <1>p, <1>t
  <2>5. p <= Second \/ b <= 1
    <3>1. ~Behind(t) /\ pc[t] # "refused" BY <1>2, <2>1 DEF Behind
    <3> QED BY <1>f, <3>1 DEF Free, Punctual, Firing
  <2>6. q <= Second + 1 \/ c <= 2
    <3> HIDE DEF p, q, b, c
    <3> QED BY <1>b, <1>t, <2>4, <2>5
  <2>7. Behind(t)' BY <1>2, <1>u, <2>2, <2>3, <2>6, Rigid DEF Behind
  <2> QED BY <2>7 DEF Free
<1>3. CASE pc[t] = "idle" /\ t # "autonomy"
  <2>1. TouchesIdly(t) <=> p + 1 >= Second
    BY <1>3, <1>a, <1>s, <1>v DEF TouchesIdly, Idle, Active
  <2>2. q <= Second
    <3> HIDE DEF p, q
    <3> QED BY <1>o, <1>p, <1>t, <2>1
  <2>3. Punctual(t)' BY <1>3, <2>2 DEF Punctual
  <2> QED BY <2>3 DEF Free
<1>4. CASE pc[t] = "idle" /\ t = "autonomy"
  <2>1. TouchesIdly(t) <=> p + 1 >= Second /\ last_fired + 1 < SunInterval
    BY <1>4, <1>s, <1>v DEF TouchesIdly, Idle
  <2>2. CASE last_fired >= SunInterval
    <3>1. ~(p >= Second) BY <1>4, <1>s, <1>u, <2>2 DEF Ready, Slept
    <3>2. last_fired' >= SunInterval BY <1>l, <1>t, <2>2
    <3>3. q <= Second
      <4> HIDE DEF p, q
      <4> QED BY <1>o, <1>p, <1>t, <3>1
    <3>4. Punctual(t)' BY <3>2, <3>3 DEF Punctual
    <3> QED BY <3>4 DEF Free
  <2>3. CASE last_fired + 1 < SunInterval
    <3>1. q < Second
      <4> HIDE DEF p, q
      <4> QED BY <1>o, <1>p, <1>t, <2>1, <2>3
    <3>2. q <= Second /\ q # Second
      <4>1. q \in Int BY <1>p, <1>o
      <4> HIDE DEF q
      <4> QED BY <3>1, <4>1
    <3>3. Punctual(t)' BY <3>2 DEF Punctual
    <3> QED BY <3>3 DEF Free
  <2>4. CASE last_fired + 1 = SunInterval
    <3>1. last_fired' >= SunInterval /\ ~(last_fired >= SunInterval) BY <1>l, <1>t, <2>4
    <3>2. CASE p < Second
      <4>1. q <= Second
        <5> HIDE DEF p, q
        <5> QED BY <1>o, <1>p, <1>t, <3>2
      <4>2. Punctual(t)' BY <3>1, <4>1 DEF Punctual
      <4> QED BY <4>2 DEF Free
    <3>3. CASE ~(p < Second)
      <4>1. ~Punctual(t)
        <5>1. p <= Second => p = Second
          <6> HIDE DEF p
          <6> QED BY <1>t, <3>3
        <5> QED BY <1>4, <3>1, <5>1 DEF Punctual
      <4>2. b = 0 BY <1>4, <1>f, <3>1, <4>1 DEF Free, Firing, Behind
      <4>3. c <= 1
        <5> HIDE DEF b, c
        <5> QED BY <1>b, <4>2
      <4>4. Firing(t)' BY <1>4, <3>1, <4>3, Rigid DEF Firing
      <4> QED BY <4>4 DEF Free
    <3> QED BY <3>2, <3>3
  <2> QED BY <1>t, <2>2, <2>3, <2>4
<1> QED BY <1>1, <1>2, <1>3, <1>4, <1>t

\* The heartbeat thread is awake once a second.
LEMMA MissedFacts ==
  ASSUME TInv, NEW r \in Roles
  PROVE  Missed(r) \in 0..Second - 1
<1>1. phase \in 0..Second - 1 /\ beat_phase[r] \in 0..Second - 1 BY DEF TInv, TypeOK
<1> QED BY <1>1, ConstantFacts DEF Missed

\* A role that is not suspect beats when its heartbeat thread is awake.
LEMMA BeatStep ==
  ASSUME Pace, HeldInv, FreeInv', [Next]_vars
  PROVE  BeatInv'
<1> USE ConstantFacts
<1>t. TInv /\ phase \in 0..Second - 1 /\ beat \in [Roles -> 0..MaxAge] BY DEF HeldInv, TInv, TypeOK
<1> SUFFICES ASSUME NEW r \in Roles, r \notin suspect'
             PROVE  beat'[r] <= Missed(r)' + 2
  BY Rigid DEF BeatInv
<1>o. r \notin suspect => beat[r] <= Missed(r) + 2 BY DEF HeldInv, BeatInv
<1>m. Missed(r) \in 0..Second - 1 BY <1>t, MissedFacts
<1>1. ASSUME NEW s \in Threads, Works(s) \/ Stick(s) \/ ComeLoose(s) \/ Fails(s)
      PROVE  beat'[r] <= Missed(r)' + 2
  <2>1. suspect \subseteq suspect' /\ UNCHANGED <<phase, beat_phase, beat>>
    BY <1>1, FailsFacts DEF Works, Stick, ComeLoose
  <2> QED BY <1>o, <2>1 DEF Missed
<1>2. ASSUME NEW q \in Roles, Restart(q) PROVE beat'[r] <= Missed(r)' + 2
  <2>1. /\ UNCHANGED <<phase, beat_phase, suspect>> /\ beat'[q] = 0
        /\ r # q => beat'[r] = beat[r]
    BY <1>2, <1>t, RestartFacts
  <2>2. Missed(r)' = Missed(r) BY <2>1 DEF Missed
  <2> QED BY <1>m, <1>o, <2>1, <2>2
<1>3. CASE UNCHANGED <<phase, beat_phase, beat, suspect>> BY <1>3, <1>o DEF Missed
<1>4. CASE Tick
  <2> DEFINE b == beat[r]
             c == beat'[r]
             d == Missed(r)
             e == Missed(r)'
  <2>p. /\ UNCHANGED beat_phase /\ phase' \in 0..Second - 1
        /\ IF phase = Second - 1 THEN phase' = 0 ELSE phase' = phase + 1
    BY <1>4, <1>t, TickFacts
  <2>q. beat_phase[r] \in 0..Second - 1 BY <1>t DEF TInv, TypeOK
  <2>e. e \in Nat /\ (beat_phase[r] # phase' => e = d + 1)
    BY <1>t, <2>p, <2>q DEF Missed
  <2>b. b \in 0..MaxAge /\ Older(b) <= b + 1 /\ Older(b) \in 0..MaxAge
    BY <1>t, OlderFacts
  <2>c. IF beat_phase[r] = phase' /\ Healthy(r, progress') THEN c = 0 ELSE c = Older(b)
    BY <1>4, <1>t, TickFacts
  <2>1. CASE c = 0
    <3> HIDE DEF c, e
    <3>1. c <= e + 2 BY <2>1, <2>e
    <3> QED BY <3>1 DEF c, e
  <2>2. CASE c # 0 /\ beat_phase[r] # phase'
    <3>1. b <= d + 2 BY <1>4, <1>o, <2>2, SuspectTick
    <3> HIDE DEF b, c, d, e
    <3>2. c <= e + 2 BY <1>m, <2>2, <2>b, <2>c, <2>e, <3>1 DEF d
    <3> QED BY <3>2 DEF c, e
  <2>3. CASE c # 0 /\ beat_phase[r] = phase'
    <3>1. ~Healthy(r, progress') BY <2>2, <2>3, <2>c
    <3>2. PICK t \in Threads : RoleOf[t] = r /\ Active(t) /\ ~(progress'[t] <= Stall)
      BY <3>1 DEF Healthy
    <3>3. Active(t)' BY <1>4, <1>t, <3>2, TickFacts DEF Active
    <3>4. Free(t)' BY <3>2, <3>3, Rigid DEF FreeInv
    <3>5. pc'[t] # "refused"
      <4>1. pc' = pc /\ ~Ready(t) BY <1>4, <1>t, TickFacts DEF Quiet
      <4>2. t \notin stuck
        <5>1. ~Held(r) BY <1>4, <2>3, SuspectTick
        <5> QED BY <3>2, <5>1 DEF Held
      <4> QED BY <4>1, <4>2 DEF Ready
    <3>6. progress'[t] \in 0..MaxAge
      <4>1. TInv' BY <1>t, TStep
      <4> QED BY <4>1, Rigid DEF TInv, TypeOK
    <3>7. ~(progress'[t] <= Second) /\ ~(progress'[t] <= Second + 1)
      <4> DEFINE q == progress'[t]
      <4>1. q \in 0..MaxAge /\ ~(q <= Stall) BY <3>2, <3>6
      <4> HIDE DEF q
      <4>2. ~(q <= Second) /\ ~(q <= Second + 1) BY <4>1 DEF Pace
      <4> QED BY <4>2 DEF q
    <3>8. c <= 2
      <4>1. ~Punctual(t)' BY <3>7 DEF Punctual
      <4>2. c = 0 \/ c <= 1 \/ c <= 2
        BY <3>2, <3>4, <3>5, <3>7, <4>1, Rigid DEF Free, Firing, Behind
      <4>3. c \in Int BY <2>b, <2>c
      <4> HIDE DEF c
      <4> QED BY <4>2, <4>3
    <3> HIDE DEF c, e
    <3>9. c <= e + 2
      <4>1. c \in Int BY <2>b, <2>c
      <4> QED BY <2>e, <3>8, <4>1
    <3> QED BY <3>9 DEF c, e
  <2> QED BY <2>1, <2>2, <2>3
<1> QED BY <1>1, <1>2, <1>3, <1>4, <1>t, WorkStep

\* The inductive invariant behind OnlyHeldRolesRestarted.
LEMMA HeldStep ==
  ASSUME Pace
  PROVE  HeldInv /\ [Next]_vars => HeldInv'
<1> SUFFICES ASSUME HeldInv, [Next]_vars PROVE HeldInv' OBVIOUS
<1>1. TInv' /\ StuckInv' BY TStep, StuckStep DEF HeldInv
<1>2. FreeInv' BY FreeWork, FreeTick DEF HeldInv
<1>3. BeatInv' BY <1>2, BeatStep
<1> QED BY <1>1, <1>2, <1>3 DEF HeldInv

\* At the start nobody is stuck.
LEMMA HeldInit == Init => HeldInv
<1> SUFFICES ASSUME Init PROVE HeldInv OBVIOUS
<1>1. TInv BY TInit
<1>2. StuckInv BY DEF Init, StuckInv
<1>3. FreeInv BY ThreadFacts DEF Init, FreeInv, Free
<1>4. BeatInv
  <2>1. \A r \in Roles : beat[r] = 0 BY DEF Init
  <2>2. \A r \in Roles : Missed(r) \in 0..Second - 1 BY <1>1, MissedFacts
  <2> QED BY <2>1, <2>2, ConstantFacts DEF BeatInv
<1> QED BY <1>1, <1>2, <1>3, <1>4 DEF HeldInv

\* A role whose heartbeat is too old when FDIR looks is suspect.
LEMMA StaleIsSuspect ==
  ASSUME Pace
  PROVE  HeldInv => OnlyHeldRolesRestarted
<1> SUFFICES ASSUME HeldInv, NEW r \in Roles, phase = 0, Stale(r), r \notin suspect PROVE FALSE
  BY DEF OnlyHeldRolesRestarted
<1> DEFINE b == beat[r]
           d == Missed(r)
<1>1. b \in 0..MaxAge /\ b > BeatTimeout /\ b <= d + 2
  BY DEF HeldInv, TInv, TypeOK, BeatInv, Stale
<1>2. d \in 0..Second - 1 BY MissedFacts DEF HeldInv
<1> HIDE DEF b, d
<1> QED BY <1>1, <1>2, ConstantFacts DEF Pace

\* When a second is at least two ticks and shorter than the time-outs, FDIR restarts a role
\* only if since its last heartbeat one of its threads was stuck or got an error from
\* IPC_receive_timeout, or waited for a role of which this is true: a slow but working peer
\* never costs a role its life, however many threads get stuck and however the sockets
\* fill.  Errors do (time_sync.c, relay.c and storage.c do not touch the watch then), so
\* they are among the reasons (watchdog.c, heartbeat.c, obc_ipc.c).
THEOREM HeldTheorem ==
  ASSUME Pace
  PROVE  Spec => []OnlyHeldRolesRestarted
BY HeldInit, HeldStep, StaleIsSuspect, PTL DEF Spec

-----------------------------------------------------------------------------
\* Faults keep to their bounds, and a thread is stuck or failing because of one.
FaultInv ==
    /\ faults.stuck <= MaxStuck /\ faults.event <= MaxEvents
    /\ stuck \cup failing # {} => faults.stuck > 0

\* A thread gets stuck, or begins to get errors.
Strikes == \E t \in Threads : Stick(t) \/ (Fails(t) /\ t \notin failing)

\* What a step does to the count of faults.
LEMMA FaultStep ==
  ASSUME TInv, [Next]_vars
  PROVE  /\ faults.stuck \in Nat /\ faults.event \in Nat
         /\ Strikes =>
              /\ faults'.stuck = faults.stuck + 1 /\ faults'.event = faults.event
              /\ faults.stuck < MaxStuck
         /\ Strikes \/ faults'.stuck = faults.stuck
         /\ \/ faults'.event = faults.event
            \/ faults.event < MaxEvents /\ faults'.event = faults.event + 1
<1>t. faults \in [stuck : Nat, event : Nat] BY DEF TInv
<1>1. ASSUME Strikes
      PROVE  /\ faults'.stuck = faults.stuck + 1 /\ faults'.event = faults.event
             /\ faults.stuck < MaxStuck
  <2>1. faults' = [faults EXCEPT !.stuck = @ + 1] /\ faults.stuck < MaxStuck
    BY <1>1 DEF Strikes, Stick, Fails, ReceiveFails
  <2> QED BY <1>t, <2>1
<1>2. ASSUME ~Strikes
      PROVE  \/ faults' = faults
             \/ faults.event < MaxEvents /\ faults' = [faults EXCEPT !.event = @ + 1]
  <2>1. ASSUME NEW s \in Readers, ReceiveFails(s) PROVE faults' = faults
    <3>1. s \in failing BY <1>2, <2>1, ThreadFacts DEF Strikes, Fails
    <3> QED BY <2>1, <3>1 DEF ReceiveFails
  <2>2. \A s \in Threads : ~Stick(s) BY <1>2 DEF Strikes
  <2> QED BY <2>1, <2>2 DEF Next, Deliver, Refuse, Returned, ComeLoose, Ingest, Relay, Request, Storage,
     Broadcast, Autonomy, Restart, BoardSends, Tick, vars
<1>3. ASSUME faults' = [faults EXCEPT !.event = @ + 1]
      PROVE  faults'.event = faults.event + 1 /\ faults'.stuck = faults.stuck
  BY <1>t, <1>3
<1> QED BY <1>t, <1>1, <1>2, <1>3

\* Faults are counted up to their bounds.
LEMMA FaultInvStep ==
  ASSUME TInv, FaultInv, [Next]_vars
  PROVE  FaultInv'
<1>f. /\ faults.stuck \in Nat /\ faults.event \in Nat
      /\ Strikes =>
           /\ faults'.stuck = faults.stuck + 1 /\ faults'.event = faults.event
           /\ faults.stuck < MaxStuck
      /\ Strikes \/ faults'.stuck = faults.stuck
      /\ \/ faults'.event = faults.event
         \/ faults.event < MaxEvents /\ faults'.event = faults.event + 1
  BY FaultStep
<1>1. CASE Strikes BY <1>1, <1>f, ConstantFacts DEF FaultInv
<1>2. CASE ~Strikes
  <2>1. stuck' \subseteq stuck
    <3>1. \A s \in Threads : ~Stick(s) BY <1>2 DEF Strikes
    <3> QED BY <3>1, FailsFacts, WorkStep DEF Works, ComeLoose, Restart, Tick
  <2>2. failing' \subseteq failing
    <3>1. \A s \in Threads : Fails(s) => s \in failing BY <1>2 DEF Strikes
    <3>2. \A s \in Threads : Fails(s) => failing' = failing \cup {s} BY FailsFacts
    <3> QED BY <3>1, <3>2, WorkStep DEF Works, Stick, ComeLoose, Restart, Tick, threadVars, watches
  <2> QED BY <1>2, <1>f, <2>1, <2>2, ConstantFacts DEF FaultInv
<1> QED BY <1>1, <1>2

\* The time that n repairs take, one after the other.
Repairs(n) == n * Repair

\* Products of natural numbers.
LEMMA Products ==
  /\ \A a, b \in Nat : a * b \in Nat
  /\ \A a, b, c \in Nat : (a + b) * c = a * c + b * c
  /\ \A a, b, c \in Nat : a <= b => a * c <= b * c
<1>1. \A a, b \in Nat : a * b \in Nat OBVIOUS
<1>2. \A a, b, c \in Nat : (a + b) * c = a * c + b * c OBVIOUS
<1>3. ASSUME NEW a \in Nat, NEW b \in Nat, NEW c \in Nat, a <= b PROVE a * c <= b * c
  <2>1. PICK d \in Nat : b = a + d
    <3>1. b - a \in Nat /\ b = a + (b - a) BY <1>3
    <3> QED BY <3>1
  <2>2. b * c = a * c + d * c BY <1>2, <2>1
  <2>3. a * c \in Nat /\ d * c \in Nat BY <1>1
  <2> QED BY <2>2, <2>3
<1> QED BY <1>1, <1>2, <1>3

\* Every stuck thread adds a repair.
LEMMA RepairFacts ==
  /\ Repair \in Nat /\ Repairs(0) = 0 /\ Repairs(1) = Repair
  /\ \A n \in Nat : Repairs(n) \in Nat /\ Repairs(n + 1) = Repairs(n) + Repair
  /\ \A m, n \in Nat : m <= n => Repairs(m) <= Repairs(n)
<1>1. Repair \in Nat BY ConstantFacts DEF Repair
<1>2. \A n \in Nat : n * Repair \in Nat /\ (n + 1) * Repair = n * Repair + Repair
  BY <1>1
<1>3. \A m, n \in Nat : m <= n => m * Repair <= n * Repair BY <1>1, Products
<1>4. 0 * Repair = 0 /\ 1 * Repair = Repair BY <1>1
<1> QED BY <1>1, <1>2, <1>3, <1>4 DEF Repairs

\* The time in a message is as old as the repairs so far, and what a stuck thread has
\* still before it, its repair less its silence, is not among them.
Young(m) ==
    m.kind = "sync" =>
       /\ m.age <= Repairs(faults.stuck)
       /\ \A x \in stuck : m.age + Repair <= Repairs(faults.stuck) + progress[x]

\* Every message on its way is young, and times are on their way to commands only.
FlightInv ==
    /\ \A t \in Threads : Young(out[t])
    /\ out["ingest"].kind # "sync"
    /\ \A r \in Roles : \A i \in 1..Len(inbox[r]) :
          Young(inbox[r][i]) /\ (r # "commands" => inbox[r][i].kind # "sync")
    /\ \A b \in Boards : late[b] <= Repairs(faults.stuck)

\* The inductive invariant behind SyncIsRecent.
RecentInv == SilentInv /\ StuckInv /\ FaultInv /\ FlightInv

\* Where the messages come from in a step that is not a tick: they are old ones in their
\* old or in the receiver's place, or new ones.
Flow ==
    /\ \A t \in Threads : \/ out'[t] = out[t]
                          \/ out'[t].age = 0 /\ (t = "ingest" => out'[t].kind # "sync")
    /\ \A r \in Roles : \A i \in 1..Len(inbox'[r]) :
          \/ \E j \in 1..Len(inbox[r]) : inbox'[r][i] = inbox[r][j]
          \/ \E t \in Threads : pc[t] = "send" /\ out[t].to = r /\ inbox'[r][i] = out[t]
    /\ \A b \in Boards :
          \/ late'[b] = late[b]
          \/ \E i \in 1..Len(inbox["commands"]) :
                inbox["commands"][i].kind = "sync" /\ late'[b] = inbox["commands"][i].age

\* A socket gives its oldest message.
LEMMA ReceiveFlow ==
  ASSUME TInv, NEW t \in Threads, Receive(t)
  PROVE  /\ \A r \in Roles : \A i \in 1..Len(inbox'[r]) :
              \E j \in 1..Len(inbox[r]) : inbox'[r][i] = inbox[r][j]
         /\ 1 \in 1..Len(inbox[RoleOf[t]]) /\ Head(inbox[RoleOf[t]]) = inbox[RoleOf[t]][1]
<1> DEFINE q == RoleOf[t]
<1>1. q \in Roles /\ inbox[q] # <<>> /\ inbox' = [inbox EXCEPT ![q] = Tail(inbox[q])]
  BY ThreadFacts DEF Receive
<1>2. inbox \in [Roles -> Seq(Messages)] BY DEF TInv
<1> HIDE DEF q
<1>3. /\ Len(inbox[q]) \in Nat /\ 1 \in 1..Len(inbox[q]) /\ Head(inbox[q]) = inbox[q][1]
      /\ \A i \in 1..Len(Tail(inbox[q])) :
           i + 1 \in 1..Len(inbox[q]) /\ Tail(inbox[q])[i] = inbox[q][i + 1]
  <2>1. inbox[q] \in Seq(Messages) /\ inbox[q] # <<>> BY <1>1, <1>2
  <2> QED BY <2>1
<1>4. ASSUME NEW r \in Roles, NEW i \in 1..Len(inbox'[r])
      PROVE  \E j \in 1..Len(inbox[r]) : inbox'[r][i] = inbox[r][j]
  <2>1. CASE r = q
    <3>1. inbox'[r] = Tail(inbox[q]) BY <1>1, <1>2, <2>1
    <3> QED BY <1>3, <2>1, <3>1
  <2>2. CASE r # q
    <3>1. inbox'[r] = inbox[r] BY <1>1, <1>2, <2>2
    <3> QED BY <3>1
  <2> QED BY <2>1, <2>2
<1> QED BY <1>3, <1>4 DEF q

\* When IPC_send returns, its thread has no message or a new one.
LEMMA ReturnedFlow ==
  ASSUME TInv, NEW t \in Threads, NEW ok \in BOOLEAN, Returned(t, ok), NEW s \in Threads
  PROVE  \/ out'[s] = out[s]
         \/ out'[s].age = 0 /\ (s = "ingest" => out'[s].kind # "sync")
<1>1. out \in [Threads -> Messages] BY DEF TInv
<1>2. CASE t = "broadcast" /\ todo # <<>>
  <2>1. Head(todo) \in Boards BY <1>2 DEF TInv
  <2>2. out' = [out EXCEPT ![t] = Msg("commands", "sync", Head(todo))] BY <1>2 DEF Returned
  <2>3. Msg("commands", "sync", Head(todo)).age = 0 BY <2>1, MsgFacts DEF Roles
  <2>4. CASE s = t BY <1>1, <1>2, <2>2, <2>3, <2>4
  <2>5. CASE s # t BY <1>1, <2>2, <2>5
  <2> QED BY <2>4, <2>5
<1>3. CASE ~(t = "broadcast" /\ todo # <<>>)
  <2>1. out' = [out EXCEPT ![t] = Nothing] BY <1>3 DEF Returned
  <2>2. Nothing.age = 0 /\ Nothing.kind # "sync" BY DEF Nothing
  <2>3. CASE s = t BY <1>1, <2>1, <2>2, <2>3
  <2>4. CASE s # t BY <1>1, <2>1, <2>4
  <2> QED BY <2>3, <2>4
<1> QED BY <1>2, <1>3

\* A thread that starts a send has a new message.
LEMMA StartFlow ==
  ASSUME TInv, NEW t \in Threads, NEW q \in Roles,
         NEW k \in {"telemetry", "request", "other", "sync", "sun"},
         NEW b \in Boards \cup {"stranger"}, StartSend(t, Msg(q, k, b)),
         t = "ingest" => k # "sync", NEW s \in Threads
  PROVE  \/ out'[s] = out[s]
         \/ out'[s].age = 0 /\ (s = "ingest" => out'[s].kind # "sync")
<1>1. out \in [Threads -> Messages] BY DEF TInv
<1>2. out' = [out EXCEPT ![t] = Msg(q, k, b)] BY DEF StartSend
<1>3. Msg(q, k, b).age = 0 /\ Msg(q, k, b).kind = k BY MsgFacts
<1>4. CASE s = t BY <1>1, <1>2, <1>3, <1>4
<1>5. CASE s # t BY <1>1, <1>2, <1>5
<1> QED BY <1>4, <1>5

\* Where the messages come from.
LEMMA FlowStep ==
  ASSUME TInv, [Next]_vars, ~Tick
  PROVE  Flow
<1>t. /\ inbox \in [Roles -> Seq(Messages)] /\ out \in [Threads -> Messages]
      /\ late \in [Boards -> Nat]
  BY DEF TInv
<1>1. ASSUME NEW t \in Threads, Deliver(t) PROVE Flow
  <2> DEFINE q == out[t].to
  <2>1. /\ inbox' = [inbox EXCEPT ![q] = Append(inbox[q], out[t])] /\ Returned(t, TRUE)
        /\ pc[t] = "send" /\ UNCHANGED late
    BY <1>1 DEF Deliver, Returned, boards
  <2>2. q \in Roles BY <2>1, ThreadFacts DEF TInv, Goals, Roles
  <2>3. ASSUME NEW r \in Roles, NEW i \in 1..Len(inbox'[r])
        PROVE  \/ \E j \in 1..Len(inbox[r]) : inbox'[r][i] = inbox[r][j]
               \/ \E s \in Threads : pc[s] = "send" /\ out[s].to = r /\ inbox'[r][i] = out[s]
    <3>1. CASE r = q
      <4>1. inbox'[r] = Append(inbox[r], out[t]) /\ inbox[r] \in Seq(Messages)
        BY <1>t, <2>1, <3>1
      <4>2. (i \in 1..Len(inbox[r]) /\ inbox'[r][i] = inbox[r][i]) \/ inbox'[r][i] = out[t]
        BY <1>t, <4>1
      <4> QED BY <2>1, <3>1, <4>2
    <3>2. CASE r # q BY <1>t, <2>1, <3>2
    <3> QED BY <3>1, <3>2
  <2> QED BY <2>1, <2>3, ReturnedFlow DEF Flow
<1>2. ASSUME NEW t \in Threads, Refuse(t) PROVE Flow
  <2>1. Returned(t, FALSE) /\ UNCHANGED <<inbox, late>> BY <1>2 DEF Refuse, Returned, boards
  <2> QED BY <2>1, ReturnedFlow DEF Flow
<1>3. CASE Ingest
  <2>1. UNCHANGED <<inbox, late>> BY <1>3 DEF Ingest, boards
  <2>2. Head(wire).board \in Boards \cup {"stranger"}
    <3>1. wire # <<>> /\ wire \in Seq(Messages) BY <1>3 DEF Ingest, TInv
    <3>2. 1 \in 1..Len(wire) /\ Head(wire) = wire[1] BY <3>1
    <3> QED BY <3>2 DEF TInv
  <2>3. \/ StartSend("ingest", Msg("data", "telemetry", Head(wire).board))
        \/ StartSend("ingest", Msg("time", "request", Head(wire).board))
        \/ UNCHANGED out
    BY <1>3 DEF Ingest
  <2>4. ASSUME NEW s \in Threads
        PROVE  \/ out'[s] = out[s]
               \/ out'[s].age = 0 /\ (s = "ingest" => out'[s].kind # "sync")
    <3>1. "ingest" \in Threads /\ "data" \in Roles /\ "time" \in Roles BY ThreadFacts DEF Roles
    <3>2. CASE StartSend("ingest", Msg("data", "telemetry", Head(wire).board))
      BY <2>2, <3>1, <3>2, StartFlow
    <3>3. CASE StartSend("ingest", Msg("time", "request", Head(wire).board))
      BY <2>2, <3>1, <3>3, StartFlow
    <3> QED BY <2>3, <3>2, <3>3
  <2> QED BY <2>1, <2>4 DEF Flow
<1>4. CASE Relay
  <2> DEFINE m == Head(inbox["commands"])
  <2>1. Receive("relay") /\ UNCHANGED out BY <1>4 DEF Relay
  <2>2. (m.kind = "sync" /\ late' = [late EXCEPT ![m.board] = m.age]) \/ UNCHANGED late
    BY <1>4 DEF Relay, boards
  <2>3. /\ \A r \in Roles : \A i \in 1..Len(inbox'[r]) :
             \E j \in 1..Len(inbox[r]) : inbox'[r][i] = inbox[r][j]
        /\ 1 \in 1..Len(inbox["commands"]) /\ m = inbox["commands"][1]
    BY <2>1, ReceiveFlow, ThreadFacts
  <2>4. \A b \in Boards :
          \/ late'[b] = late[b]
          \/ \E i \in 1..Len(inbox["commands"]) :
                inbox["commands"][i].kind = "sync" /\ late'[b] = inbox["commands"][i].age
    <3> HIDE DEF m
    <3>1. \A b \in Boards : late'[b] = late[b] \/ (m.kind = "sync" /\ late'[b] = m.age)
      BY <1>t, <2>2
    <3> QED BY <2>3, <3>1
  <2> QED BY <2>1, <2>3, <2>4 DEF Flow
<1>5. CASE Request
  <2> DEFINE b == Head(inbox["time"]).board
  <2>1. Receive("request") /\ UNCHANGED late BY <1>5 DEF Request, boards
  <2>2. \/ b \in Boards /\ StartSend("request", Msg("commands", "sync", b))
        \/ UNCHANGED out
    BY <1>5 DEF Request
  <2>3. \A r \in Roles : \A i \in 1..Len(inbox'[r]) :
          \E j \in 1..Len(inbox[r]) : inbox'[r][i] = inbox[r][j]
    BY <2>1, ReceiveFlow, ThreadFacts
  <2> HIDE DEF b
  <2>4. ASSUME NEW s \in Threads
        PROVE  \/ out'[s] = out[s]
               \/ out'[s].age = 0 /\ (s = "ingest" => out'[s].kind # "sync")
    <3>1. "request" \in Threads /\ "commands" \in Roles BY ThreadFacts DEF Roles
    <3> QED BY <2>2, <3>1, StartFlow
  <2> QED BY <2>1, <2>3, <2>4 DEF Flow
<1>6. CASE Storage
  <2>1. Receive("storage") /\ UNCHANGED <<out, late>> BY <1>6 DEF Storage, boards
  <2>2. \A r \in Roles : \A i \in 1..Len(inbox'[r]) :
          \E j \in 1..Len(inbox[r]) : inbox'[r][i] = inbox[r][j]
    BY <2>1, ReceiveFlow, ThreadFacts
  <2> QED BY <2>1, <2>2 DEF Flow
<1>7. CASE Broadcast \/ Autonomy
  <2>1. UNCHANGED <<inbox, late>> BY <1>7 DEF Broadcast, Autonomy, boards
  <2>2. \/ StartSend("broadcast", Msg("commands", "sync", Head(Targets)))
        \/ StartSend("autonomy", Msg("commands", "sun", "ADCS"))
    BY <1>7 DEF Broadcast, Autonomy
  <2>3. ASSUME NEW s \in Threads
        PROVE  \/ out'[s] = out[s]
               \/ out'[s].age = 0 /\ (s = "ingest" => out'[s].kind # "sync")
    <3>1. /\ "broadcast" \in Threads /\ "autonomy" \in Threads /\ "commands" \in Roles
          /\ Head(Targets) \in Boards /\ "ADCS" \in Boards
      BY ThreadFacts, BoardFacts DEF Roles
    <3>2. CASE StartSend("broadcast", Msg("commands", "sync", Head(Targets)))
      BY <3>1, <3>2, StartFlow
    <3>3. CASE StartSend("autonomy", Msg("commands", "sun", "ADCS"))
      BY <3>1, <3>3, StartFlow
    <3> QED BY <2>2, <3>2, <3>3
  <2> QED BY <2>1, <2>3 DEF Flow
<1>8. ASSUME NEW q \in Roles, Restart(q) PROVE Flow
  <2>1. inbox' = [inbox EXCEPT ![q] = <<>>] /\ UNCHANGED late BY <1>8 DEF Restart, boards
  <2>2. ASSUME NEW r \in Roles, NEW i \in 1..Len(inbox'[r])
        PROVE  \E j \in 1..Len(inbox[r]) : inbox'[r][i] = inbox[r][j]
    <3>1. CASE r = q BY <1>t, <2>1, <3>1
    <3>2. CASE r # q BY <1>t, <2>1, <3>2
    <3> QED BY <3>1, <3>2
  <2>3. \A s \in Threads : out'[s] = out[s] \/ out'[s] = Nothing BY <1>8, RestartFacts
  <2>4. Nothing.age = 0 /\ Nothing.kind # "sync" BY DEF Nothing
  <2> QED BY <2>1, <2>2, <2>3, <2>4 DEF Flow
<1>9. CASE UNCHANGED <<inbox, out, late>> BY <1>9 DEF Flow
<1>10. ASSUME NEW t \in Readers, ReceiveFails(t) PROVE Flow
  <2>1. Receive(t) /\ UNCHANGED <<out, late>> BY <1>10 DEF ReceiveFails, boards
  <2>2. \A r \in Roles : \A i \in 1..Len(inbox'[r]) :
          \E j \in 1..Len(inbox[r]) : inbox'[r][i] = inbox[r][j]
    BY <2>1, ReceiveFlow, ThreadFacts
  <2> QED BY <2>1, <2>2 DEF Flow
<1> QED BY <1>1, <1>2, <1>3, <1>4, <1>5, <1>6, <1>7, <1>8, <1>9, <1>10
        DEF Next, Stick, ComeLoose, BoardSends, vars, threadVars, boards

\* An age within the repairs so far stays so until the next tick.
LEMMA YoungKeeps ==
  ASSUME RecentInv, [Next]_vars, ~Tick, NEW a \in Nat, a <= Repairs(faults.stuck),
         \A x \in stuck : a + Repair <= Repairs(faults.stuck) + progress[x]
  PROVE  /\ a <= Repairs(faults'.stuck)
         /\ \A x \in stuck' : a + Repair <= Repairs(faults'.stuck) + progress'[x]
<1>t. TInv /\ progress \in [Threads -> 0..MaxAge] /\ stuck \subseteq Threads
  BY DEF RecentInv, SilentInv, TInv, TypeOK
<1>f. /\ faults.stuck \in Nat
      /\ Strikes => faults'.stuck = faults.stuck + 1
      /\ Strikes \/ faults'.stuck = faults.stuck
  BY <1>t, FaultStep
<1>r. /\ Repair \in Nat /\ Repairs(faults.stuck) \in Nat
      /\ Repairs(faults.stuck + 1) = Repairs(faults.stuck) + Repair
  BY <1>f, RepairFacts
<1>1. CASE Strikes
  <2>0. PICK s \in Threads : Stick(s) \/ Fails(s) BY <1>1 DEF Strikes
  <2>1. progress' = progress /\ stuck' \subseteq stuck \cup {s}
    BY <2>0, FailsFacts DEF Stick, threadVars, watches
  <2>2. \A x \in stuck' : progress'[x] \in 0..MaxAge BY <1>t, <2>1
  <2>3. \A p \in 0..MaxAge : a + Repair <= (Repairs(faults.stuck) + Repair) + p BY <1>r, Rigid
  <2>4. Repairs(faults'.stuck) = Repairs(faults.stuck) + Repair BY <1>1, <1>f, <1>r
  <2> QED BY <1>r, <2>2, <2>3, <2>4
<1>2. CASE ~Strikes
  <2>1. ASSUME NEW x \in stuck' PROVE x \in stuck /\ progress'[x] = progress[x]
    <3>1. ASSUME NEW s \in Threads, Works(s) PROVE x \in stuck /\ progress'[x] = progress[x]
      <4>1. x \in stuck /\ s \notin stuck BY <3>1 DEF Works
      <4>2. x \in Threads \ {s} BY <1>t, <4>1
      <4> QED BY <3>1, <4>1, <4>2 DEF Works
    <3>2. ASSUME NEW s \in Threads, ComeLoose(s) \/ Fails(s)
          PROVE  x \in stuck /\ progress'[x] = progress[x]
      BY <3>2, FailsFacts DEF ComeLoose, threadVars, watches
    <3>3. ASSUME NEW q \in Roles, Restart(q) PROVE x \in stuck /\ progress'[x] = progress[x]
      <4>1. x \in Threads BY <1>t, <3>3 DEF Restart
      <4> QED BY <1>t, <3>3, <4>1, RestartFacts
    <3>4. UNCHANGED <<progress, stuck>> => x \in stuck /\ progress'[x] = progress[x] OBVIOUS
    <3>5. \A s \in Threads : ~Stick(s) BY <1>2 DEF Strikes
    <3> QED BY <1>t, <3>1, <3>2, <3>3, <3>4, <3>5, WorkStep
  <2> QED BY <1>2, <1>f, <2>1
<1> QED BY <1>1, <1>2

\* Nothing but a tick makes a message older.
LEMMA FlightWork ==
  ASSUME RecentInv, [Next]_vars, ~Tick
  PROVE  FlightInv'
<1>t. /\ TInv /\ inbox \in [Roles -> Seq(Messages)] /\ out \in [Threads -> Messages]
      /\ FlightInv /\ FaultInv
  BY DEF RecentInv, SilentInv, TInv
<1>n. /\ TInv' /\ progress' \in [Threads -> 0..MaxAge] /\ stuck' \subseteq Threads
      /\ out' \in [Threads -> Messages]
  BY <1>t, TStep DEF TInv, TypeOK
<1>f. Flow BY <1>t, FlowStep
<1>g. FaultInv' BY <1>t, FaultInvStep
<1>s. faults.stuck \in Nat /\ faults'.stuck \in Nat /\ faults.stuck <= faults'.stuck
  <2>1. /\ faults.stuck \in Nat
        /\ Strikes => faults'.stuck = faults.stuck + 1
        /\ Strikes \/ faults'.stuck = faults.stuck
    BY <1>t, FaultStep
  <2> QED BY <2>1
<1>r. /\ Repair \in Nat /\ Repairs(faults'.stuck) \in Nat /\ Repairs(faults.stuck) \in Nat
      /\ Repairs(faults.stuck) <= Repairs(faults'.stuck)
      /\ faults'.stuck > 0 => Repair <= Repairs(faults'.stuck)
  <2>1. faults'.stuck > 0 => 1 <= faults'.stuck BY <1>s
  <2> QED BY <1>s, <2>1, RepairFacts
<1> DEFINE Ok(a) == /\ a <= Repairs(faults'.stuck)
                    /\ \A x \in stuck' : a + Repair <= Repairs(faults'.stuck) + progress'[x]
<1>0. Ok(0)
  <2>1. \A x \in stuck' : progress'[x] \in 0..MaxAge /\ Repair <= Repairs(faults'.stuck)
    BY <1>g, <1>n, <1>r DEF FaultInv
  <2>2. \A p \in 0..MaxAge, k \in Nat : Repair <= k => 0 + Repair <= k + p BY <1>r, Rigid
  <2>3. 0 <= Repairs(faults'.stuck) BY <1>r
  <2> QED BY <1>r, <2>1, <2>2, <2>3
<1>k. ASSUME NEW a \in Nat, a <= Repairs(faults.stuck),
             \A x \in stuck : a + Repair <= Repairs(faults.stuck) + progress[x]
      PROVE  Ok(a)
  BY <1>k, YoungKeeps
<1>a. \A t \in Threads : out[t].age \in Nat BY <1>t DEF Messages
<1>b. \A r \in Roles : \A i \in 1..Len(inbox[r]) : inbox[r][i].age \in Nat
  <2>1. \A r \in Roles : \A i \in 1..Len(inbox[r]) : inbox[r][i] \in Messages BY <1>t
  <2> QED BY <2>1 DEF Messages
<1>c. \A t \in Threads : out[t].kind = "sync" => Ok(out[t].age)
  BY <1>a, <1>k, <1>t DEF FlightInv, Young
<1>d. \A r \in Roles : \A i \in 1..Len(inbox[r]) :
        inbox[r][i].kind = "sync" => Ok(inbox[r][i].age)
  BY <1>b, <1>k, <1>t DEF FlightInv, Young
<1> HIDE DEF Ok
<1>1. \A t \in Threads : out'[t].kind = "sync" => Ok(out'[t].age)
  BY <1>0, <1>c, <1>f DEF Flow
<1>2. out'["ingest"].kind # "sync" BY <1>f, <1>t, ThreadFacts DEF Flow, FlightInv
<1>3. \A r \in Roles : \A i \in 1..Len(inbox'[r]) :
        /\ inbox'[r][i].kind = "sync" => Ok(inbox'[r][i].age)
        /\ r # "commands" => inbox'[r][i].kind # "sync"
  <2> SUFFICES ASSUME NEW r \in Roles, NEW i \in 1..Len(inbox'[r])
               PROVE  /\ inbox'[r][i].kind = "sync" => Ok(inbox'[r][i].age)
                      /\ r # "commands" => inbox'[r][i].kind # "sync"
    OBVIOUS
  <2>1. CASE \E j \in 1..Len(inbox[r]) : inbox'[r][i] = inbox[r][j]
    BY <1>d, <1>t, <2>1 DEF FlightInv
  <2>2. CASE \E t \in Threads : pc[t] = "send" /\ out[t].to = r /\ inbox'[r][i] = out[t]
    <3>1. PICK t \in Threads : pc[t] = "send" /\ out[t].to = r /\ inbox'[r][i] = out[t]
      BY <2>2
    <3>2. r \in Goals(t) BY <1>t, <3>1 DEF TInv
    <3>3. r # "commands" => t = "ingest" BY <3>2 DEF Goals
    <3> QED BY <1>c, <1>t, <3>1, <3>3 DEF FlightInv
  <2> QED BY <1>f, <2>1, <2>2 DEF Flow
<1>4. \A b \in Boards : late'[b] <= Repairs(faults'.stuck)
  <2> SUFFICES ASSUME NEW b \in Boards PROVE late'[b] <= Repairs(faults'.stuck) OBVIOUS
  <2>1. late'[b] \in Nat BY <1>n DEF TInv
  <2>2. late'[b] <= Repairs(faults.stuck)
    <3>1. CASE late'[b] = late[b] BY <1>t, <3>1 DEF FlightInv
    <3>2. CASE \E i \in 1..Len(inbox["commands"]) :
                 inbox["commands"][i].kind = "sync" /\ late'[b] = inbox["commands"][i].age
      BY <1>t, <3>2 DEF FlightInv, Young, Roles
    <3> QED BY <1>f, <3>1, <3>2 DEF Flow
  <2> DEFINE l == late'[b]
  <2> HIDE DEF l
  <2>3. l <= Repairs(faults'.stuck) BY <1>r, <2>1, <2>2 DEF l
  <2> QED BY <2>3 DEF l
<1> QED BY <1>1, <1>2, <1>3, <1>4, Rigid DEF FlightInv, Young, Ok

\* When nobody is stuck as a tick begins, nobody waits.
LEMMA QuietIdle ==
  ASSUME TInv, Tick, stuck = {}
  PROVE  (\A t \in Threads : pc[t] = "idle") /\ inbox["commands"] = <<>>
<1>t. /\ pc \in [Threads -> {"idle", "send", "refused"}]
      /\ inbox \in [Roles -> Seq(Messages)]
      /\ \A s \in Threads : pc[s] # "idle" => out[s].to \in Goals(s)
  BY DEF TInv, TypeOK
<1>q. \A s \in Threads : ~Ready(s) BY TickFacts DEF Quiet
<1>0. \A s \in Threads : pc[s] # "refused" BY <1>q DEF Ready
<1>1. ASSUME NEW s \in Threads, pc[s] = "send", inbox[out[s].to] = <<>> PROVE FALSE
  <2>1. Len(inbox[out[s].to]) = 0 BY <1>1
  <2>2. Room(s) BY <2>1, ConstantFacts DEF Room
  <2> QED BY <1>1, <1>q, <2>2 DEF Ready
<1>2. pc["relay"] = "idle" /\ pc["storage"] = "idle" BY <1>t, ThreadFacts DEF Goals
<1>3. inbox["commands"] = <<>> /\ inbox["data"] = <<>>
  BY <1>2, <1>q, ThreadFacts DEF Ready
<1>4. \A s \in {"broadcast", "request", "autonomy"} : pc[s] = "idle"
  BY <1>0, <1>1, <1>3, <1>t, ThreadFacts DEF Goals
<1>5. inbox["time"] = <<>> BY <1>4, <1>q, ThreadFacts DEF Ready
<1>6. pc["ingest"] = "idle" BY <1>0, <1>1, <1>3, <1>5, <1>t, ThreadFacts DEF Goals
<1> QED BY <1>2, <1>3, <1>4, <1>6, ThreadFacts

\* While nobody is stuck, no time is on its way when a tick begins.
LEMMA NothingWaits ==
  ASSUME RecentInv, Tick, stuck = {}
  PROVE  /\ \A t \in Threads : out[t].kind # "sync"
         /\ \A r \in Roles : \A i \in 1..Len(inbox[r]) : inbox[r][i].kind # "sync"
<1>t. TInv /\ FlightInv /\ \A t \in Threads : pc[t] = "idle" => out[t] = Nothing
  BY DEF RecentInv, SilentInv, TInv, TypeOK
<1>1. (\A t \in Threads : pc[t] = "idle") /\ inbox["commands"] = <<>> BY <1>t, QuietIdle
<1>2. \A t \in Threads : out[t].kind # "sync" BY <1>1, <1>t DEF Nothing
<1>3. ASSUME NEW r \in Roles, NEW i \in 1..Len(inbox[r]), inbox[r][i].kind = "sync" PROVE FALSE
  <2>1. r = "commands" BY <1>3, <1>t DEF FlightInv
  <2> QED BY <1>1, <2>1
<1> QED BY <1>2, <1>3

\* A tick makes the messages older, and with them the silence of the thread that holds
\* them up, which ends within a repair.
LEMMA FlightTick ==
  ASSUME RecentInv, SilentInv', Tick
  PROVE  FlightInv'
<1> USE ConstantFacts
<1>t. /\ TInv /\ inbox \in [Roles -> Seq(Messages)] /\ out \in [Threads -> Messages]
      /\ FlightInv /\ progress \in [Threads -> 0..MaxAge] /\ stuck \subseteq Threads
  BY DEF RecentInv, SilentInv, TInv, TypeOK
<1>u. /\ UNCHANGED <<stuck, late, faults, pc>>
      /\ out' = [t \in Threads |-> Aged(out[t])]
      /\ inbox' = [r \in Roles |-> [i \in DOMAIN inbox[r] |-> Aged(inbox[r][i])]]
  BY DEF Tick
<1> DEFINE R == Repairs(faults.stuck)
           Ok(a) == a <= R /\ \A x \in stuck : a + Repair <= R + progress'[x]
<1>r. Repair \in Nat /\ R \in Nat BY <1>t, RepairFacts DEF TInv
<1>s. stuck # {} => Repair <= R
  <2>1. stuck # {} => faults.stuck \in Nat /\ 1 <= faults.stuck
    BY <1>t DEF RecentInv, FaultInv, TInv
  <2> QED BY <2>1, RepairFacts
<1>1. ASSUME NEW m \in Messages, m.kind = "sync", stuck # {},
             \A x \in stuck : m.age + Repair <= R + progress[x]
      PROVE  Ok(Older(m.age))
  <2> DEFINE a == m.age
  <2>1. a \in 0..MaxAge BY DEF Messages
  <2>2. ASSUME NEW x \in stuck
        PROVE  Older(a) + Repair <= R + progress'[x] /\ Older(a) <= R
    <3> DEFINE p == progress[x]
               q == progress'[x]
    <3>1. ~TouchesIdly(x) BY DEF TouchesIdly, Idle
    <3>2. x \in Threads BY <1>t
    <3>3. q = Older(p) BY <1>t, <3>1, <3>2, TickFacts
    <3>4. a + Repair <= R + p /\ p \in 0..MaxAge BY <1>1, <1>t, <3>2
    <3>5. Active(x)' BY <1>u DEF RecentInv, StuckInv, Active
    <3>6. q <= Repair
      <4>1. NoSilentThread' BY SilentBoundNext
      <4> QED BY <3>2, <3>5, <4>1, Rigid DEF NoSilentThread, Repair
    <3> HIDE DEF a, p, q, R
    <3>7. Older(a) + Repair <= R + q BY <1>1, <1>r, <1>s, <2>1, <3>3, <3>4 DEF Older
    <3>8. q \in Nat /\ Older(a) \in Nat BY <2>1, <3>3, <3>4 DEF Older
    <3>9. Older(a) <= R BY <1>r, <3>6, <3>7, <3>8
    <3> QED BY <3>7, <3>9 DEF q
  <2>3. PICK x \in stuck : TRUE BY <1>1
  <2> HIDE DEF a, R
  <2>4. Ok(Older(a)) BY <2>2, <2>3
  <2> QED BY <2>4 DEF a
<1> HIDE DEF Ok
<1>2. ASSUME NEW t \in Threads PROVE out'[t].kind = "sync" => Ok(out'[t].age)
  <2>1. out[t] \in Messages /\ out'[t] = Aged(out[t]) BY <1>t, <1>u
  <2>2. /\ out'[t].kind = out[t].kind
        /\ out[t].kind = "sync" => out'[t].age = Older(out[t].age)
    BY <2>1, AgedFacts
  <2>3. CASE stuck = {} BY <2>2, <2>3, NothingWaits
  <2>4. CASE stuck # {}
    <3>1. out[t].kind = "sync" => \A x \in stuck : out[t].age + Repair <= R + progress[x]
      BY <1>t DEF FlightInv, Young
    <3> QED BY <1>1, <2>1, <2>2, <2>4, <3>1
  <2> QED BY <2>3, <2>4
<1>3. ASSUME NEW r \in Roles, NEW i \in 1..Len(inbox'[r])
      PROVE  /\ inbox'[r][i].kind = "sync" => Ok(inbox'[r][i].age)
             /\ r # "commands" => inbox'[r][i].kind # "sync"
  <2>1. /\ i \in 1..Len(inbox[r]) /\ inbox'[r][i] = Aged(inbox[r][i])
        /\ inbox[r][i] \in Messages
    <3>1. inbox[r] \in Seq(Messages) /\ DOMAIN inbox[r] = 1..Len(inbox[r]) BY <1>t
    <3>2. inbox'[r] = [j \in DOMAIN inbox[r] |-> Aged(inbox[r][j])] BY <1>u
    <3>3. Len(inbox'[r]) = Len(inbox[r]) BY <3>1, <3>2, AgedQueue
    <3> QED BY <3>1, <3>2, <3>3
  <2>2. /\ inbox'[r][i].kind = inbox[r][i].kind
        /\ inbox[r][i].kind = "sync" => inbox'[r][i].age = Older(inbox[r][i].age)
    BY <2>1, AgedFacts
  <2>3. CASE stuck = {} BY <2>1, <2>2, <2>3, NothingWaits
  <2>4. CASE stuck # {}
    <3>1. inbox[r][i].kind = "sync" => \A x \in stuck : inbox[r][i].age + Repair <= R + progress[x]
      BY <1>t, <2>1 DEF FlightInv, Young
    <3>2. inbox'[r][i].kind = "sync" => Ok(inbox'[r][i].age) BY <1>1, <2>1, <2>2, <2>4, <3>1
    <3> QED BY <1>t, <2>1, <2>2, <3>2 DEF FlightInv
  <2> QED BY <2>3, <2>4
<1>4. out'["ingest"].kind # "sync"
  <2>1. out["ingest"] \in Messages /\ out'["ingest"] = Aged(out["ingest"])
    BY <1>t, <1>u, ThreadFacts
  <2> QED BY <1>t, <2>1, AgedFacts DEF FlightInv
<1>5. \A b \in Boards : late'[b] <= Repairs(faults'.stuck) BY <1>t, <1>u DEF FlightInv
<1> QED BY <1>2, <1>3, <1>4, <1>5, <1>u, Rigid DEF FlightInv, Young, Ok, R

\* The inductive invariant behind SyncIsRecent.
LEMMA RecentStep ==
  RecentInv /\ [Next]_vars => RecentInv'
<1> SUFFICES ASSUME RecentInv, [Next]_vars PROVE RecentInv' OBVIOUS
<1>1. SilentInv' BY SilentStep DEF RecentInv
<1>2. StuckInv' BY StuckStep DEF RecentInv, SilentInv
<1>3. FaultInv' BY FaultInvStep DEF RecentInv, SilentInv
<1>4. FlightInv' BY <1>1, FlightWork, FlightTick
<1> QED BY <1>1, <1>2, <1>3, <1>4 DEF RecentInv

\* At the start nothing is on its way.
LEMMA RecentInit == Init => RecentInv
<1> SUFFICES ASSUME Init PROVE RecentInv OBVIOUS
<1>1. SilentInv BY SilentInit
<1>2. StuckInv BY DEF Init, StuckInv
<1>3. FlightInv
  <2>1. Nothing.kind # "sync" BY DEF Nothing
  <2>2. \A t \in Threads : out[t] = Nothing BY DEF Init
  <2>3. \A r \in Roles : inbox[r] = <<>> /\ Len(inbox[r]) = 0 BY DEF Init
  <2>4. faults.stuck = 0 /\ \A b \in Boards : late[b] = 0 BY DEF Init
  <2>5. 0 <= Repairs(0) BY RepairFacts
  <2> QED BY <2>1, <2>2, <2>3, <2>4, <2>5, ThreadFacts DEF FlightInv, Young
<1>4. FaultInv BY ConstantFacts DEF Init, FaultInv
<1> QED BY <1>1, <1>2, <1>3, <1>4 DEF RecentInv

\* However many threads get stuck, the time a board is set to is never older than their
\* repairs together, although it was read before the message waited in connect and at
\* the socket: what waits is freed with the stuck thread (time_sync.c, obc_ipc.c, relay.c).
THEOREM RecentTheorem == Spec => []SyncIsRecent
<1>1. RecentInv => SyncIsRecent
  <2> SUFFICES ASSUME RecentInv, NEW b \in Boards PROVE late[b] <= MaxStuck * Repair
    BY DEF SyncIsRecent
  <2>1. /\ faults.stuck \in Nat /\ faults.stuck <= MaxStuck /\ late[b] \in Nat
        /\ late[b] <= Repairs(faults.stuck)
    BY DEF RecentInv, FaultInv, FlightInv, SilentInv, TInv
  <2>2. /\ Repairs(faults.stuck) \in Nat /\ Repairs(MaxStuck) \in Nat
        /\ Repairs(faults.stuck) <= Repairs(MaxStuck)
    BY <2>1, RepairFacts, ConstantFacts
  <2>3. late[b] <= Repairs(MaxStuck) BY <2>1, <2>2
  <2> QED BY <2>3 DEF Repairs
<1> QED BY <1>1, RecentInit, RecentStep, PTL DEF Spec

-----------------------------------------------------------------------------
\* The ticks until the role's heartbeat thread is awake again.
ToBeat(r) == IF beat_phase[r] > phase THEN beat_phase[r] - phase
             ELSE (beat_phase[r] + Second) - phase

\* Autonomy has slept no longer than it should, or is about to fire.
Composed == progress["autonomy"] <= Second \/ pc["autonomy"] # "idle" \/ last_fired >= SunInterval

\* A thread does not know yet that its receiver is gone.
Refused == \E t \in Threads : pc[t] = "refused"

\* Nobody is stuck or fails, and nobody suffers from a thread that did.
Calm == stuck \cup failing = {} /\ suspect = {} /\ ~Refused

\* Unless there is another fault, it is calm in w ticks at the latest: a stuck or failing
\* thread is repaired when its silence is over, then all roles have to send a heartbeat once.
Ends(w) ==
    /\ \A t \in stuck \cup failing : Disturbance <= w + progress[t]
    /\ stuck = {} /\ suspect # {} /\ ~Composed => Second + 1 <= w
    /\ \A r \in suspect : ToBeat(r) <= w
    /\ Refused => 1 <= w

\* The heartbeat thread is awake within a second.
LEMMA ToBeatFacts ==
  ASSUME TInv, NEW r \in Roles
  PROVE  ToBeat(r) \in 1..Second
<1>1. phase \in 0..Second - 1 /\ beat_phase[r] \in 0..Second - 1 BY DEF TInv, TypeOK
<1> QED BY <1>1, ConstantFacts DEF ToBeat

\* A tick brings the next heartbeat nearer.
LEMMA ToBeatTick ==
  ASSUME TInv, Tick, NEW r \in Roles
  PROVE  IF beat_phase[r] = phase' THEN ToBeat(r)' = Second ELSE ToBeat(r) = ToBeat(r)' + 1
<1>1. phase \in 0..Second - 1 /\ beat_phase[r] \in 0..Second - 1 BY DEF TInv, TypeOK
<1>2. /\ phase' \in 0..Second - 1 /\ beat_phase' = beat_phase
      /\ IF phase = Second - 1 THEN phase' = 0 ELSE phase' = phase + 1
  BY TickFacts
<1> QED BY <1>1, <1>2, ConstantFacts DEF ToBeat

\* What a tick does to autonomy when nobody is stuck.
LEMMA ComposedTick ==
  ASSUME TInv, Tick, stuck = {}
  PROVE  /\ Composed'
         /\ Composed => progress'["autonomy"] <= Second + 1
<1> USE ConstantFacts
<1> DEFINE p == progress["autonomy"]
           q == progress'["autonomy"]
<1>t. p \in 0..MaxAge /\ last_fired \in 0..SunInterval BY ThreadFacts DEF TInv, TypeOK
<1>i. pc["autonomy"] = "idle" /\ pc' = pc BY QuietIdle, ThreadFacts, TickFacts
<1>r. ~(p >= Second /\ last_fired >= SunInterval)
  <2>1. ~Ready("autonomy") BY TickFacts, ThreadFacts DEF Quiet
  <2> QED BY <1>i, <2>1 DEF Ready, Slept
<1>l. last_fired' = IF last_fired < SunInterval THEN last_fired + 1 ELSE last_fired
  BY DEF Tick
<1>p. IF p + 1 >= Second /\ last_fired + 1 < SunInterval THEN q = 0 ELSE q = Older(p)
  <2>1. TouchesIdly("autonomy") <=> p + 1 >= Second /\ last_fired + 1 < SunInterval
    BY <1>i, ThreadFacts DEF TouchesIdly, Idle, Waited
  <2> QED BY <2>1, TickFacts, ThreadFacts
<1>o. Older(p) <= p + 1 /\ Older(p) \in 0..MaxAge BY <1>t, OlderFacts
<1>c. Composed => p <= Second
  <2>1. last_fired >= SunInterval => p <= Second
    <3> HIDE DEF p
    <3> QED BY <1>r, <1>t
  <2> QED BY <1>i, <2>1 DEF Composed
<1>1. q <= Second \/ last_fired' >= SunInterval
  <2> HIDE DEF p, q
  <2> QED BY <1>l, <1>o, <1>p, <1>r, <1>t
<1>2. p <= Second => q <= Second + 1
  <2> HIDE DEF p, q
  <2> QED BY <1>o, <1>p, <1>t
<1> QED BY <1>1, <1>2, <1>c DEF Composed

\* When nobody is stuck or fails and autonomy is not late, a role beats when its phase comes.
LEMMA HealthyTick ==
  ASSUME Pace, TInv, Tick, stuck \cup failing = {}, Composed, NEW r \in Roles, beat_phase[r] = phase'
  PROVE  beat'[r] = 0
<1> USE ConstantFacts
<1> SUFFICES ASSUME NEW t \in Threads, Active(t) PROVE progress'[t] <= Stall
  BY TickFacts DEF Healthy
<1> DEFINE p == progress[t]
           q == progress'[t]
<1>t. p \in 0..MaxAge BY DEF TInv, TypeOK
<1>i. pc[t] = "idle" BY QuietIdle
<1>o. Older(p) <= p + 1 /\ Older(p) \in 0..MaxAge BY <1>t, OlderFacts
<1>p. IF TouchesIdly(t) THEN q = 0 ELSE q = Older(p) BY TickFacts
<1>1. CASE t = "autonomy"
  <2>1. q <= Second + 1 BY <1>1, ComposedTick
  <2> HIDE DEF p, q
  <2>2. q <= Stall BY <1>o, <1>p, <2>1 DEF Pace
  <2> QED BY <2>2 DEF q
<1>2. CASE t # "autonomy"
  <2>0. Waited(t) = p BY DEF TInv, WatchOK, Waited
  <2>1. TouchesIdly(t) <=> p + 1 >= Second BY <1>2, <1>i, <2>0 DEF TouchesIdly, Idle, Active
  <2> HIDE DEF p, q
  <2>2. q <= Stall BY <1>o, <1>p, <1>t, <2>1 DEF Pace
  <2> QED BY <2>2 DEF q
<1> QED BY <1>1, <1>2

\* The silence of a stuck thread is seen as long as it lasts.
Ample == MaxAge > Repair \/ MaxStuck = 0

\* A failing thread receives, so that its watch is active.
LEMMA FailingFacts ==
  ASSUME TInv, StuckInv, NEW x \in stuck \cup failing
  PROVE  x \in Threads /\ Active(x)
<1>1. CASE x \in stuck BY <1>1 DEF StuckInv, TInv, TypeOK
<1>2. CASE x \in failing BY <1>2, ThreadFacts DEF TInv, TypeOK, Active
<1> QED BY <1>1, <1>2

\* While a thread is stuck or fails it is not calm for more than a second.
LEMMA StuckLasts ==
  ASSUME SilentInv, StuckInv, NEW w \in Nat, Ends(w), stuck \cup failing # {}
  PROVE  Second + 1 <= w
<1>1. PICK x \in stuck \cup failing : TRUE OBVIOUS
<1>2. Active(x) /\ x \in Threads BY FailingFacts DEF SilentInv
<1> DEFINE p == progress[x]
<1>3. p <= Repair BY <1>2, SilentBound DEF NoSilentThread
<1>4. p \in 0..MaxAge BY <1>2 DEF SilentInv, TInv, TypeOK
<1>5. Disturbance <= w + p BY DEF Ends
<1>6. Repair \in Nat BY RepairFacts
<1> HIDE DEF p
<1> QED BY <1>3, <1>4, <1>5, <1>6, ConstantFacts DEF Disturbance

\* A tick brings the calm nearer.
LEMMA EndsTick ==
  ASSUME Pace, Ample, SilentInv, SilentInv', StuckInv, FaultInv, Tick,
         NEW w \in Nat, Ends(w), ~Calm
  PROVE  1 <= w /\ Ends(w - 1)'
<1> USE ConstantFacts
<1>t. TInv /\ progress \in [Threads -> 0..MaxAge] /\ stuck \subseteq Threads
      /\ suspect \subseteq Roles
  BY DEF SilentInv, TInv, TypeOK
<1>u. /\ UNCHANGED <<pc, stuck>> /\ \A s \in Threads : ~Ready(s)
      /\ failing' = {t \in failing : ~TouchesIdly(t)}
  BY <1>t, TickFacts DEF Quiet
<1>s. stuck \cup failing # {} => Second + 1 <= w BY StuckLasts
<1>i. stuck = {} => \A t \in Threads : pc[t] = "idle" BY <1>t, QuietIdle
<1>1. 1 <= w
  <2>1. CASE stuck \cup failing # {} BY <1>s, <2>1
  <2>2. CASE suspect # {}
    <3>1. PICK r \in suspect : TRUE BY <2>2
    <3>2. ToBeat(r) \in 1..Second /\ ToBeat(r) <= w BY <1>t, <3>1, ToBeatFacts DEF Ends
    <3> QED BY <3>2
  <2>3. CASE Refused BY <2>3 DEF Ends
  <2> QED BY <2>1, <2>2, <2>3 DEF Calm
<1>2. ASSUME NEW x \in stuck' \cup failing' PROVE Disturbance <= (w - 1) + progress'[x]
  <2> DEFINE p == progress[x]
             q == progress'[x]
  <2>x. x \in stuck \cup failing BY <1>u
  <2>0. x \in Threads /\ Active(x) BY <1>t, <2>x, FailingFacts
  <2>1. ~TouchesIdly(x) BY <1>u DEF TouchesIdly, Idle
  <2>2. q = Older(p) /\ p \in 0..MaxAge BY <1>t, <2>0, <2>1, TickFacts
  <2>3. Active(x)' BY <1>u, <2>0 DEF Active
  <2>4. q <= Repair
    <3>1. NoSilentThread' BY SilentBoundNext
    <3> QED BY <2>0, <2>3, <3>1, Rigid DEF NoSilentThread, Repair
  <2>5. MaxAge > Repair
    <3>1. faults.stuck \in Nat BY <1>t DEF TInv
    <3> QED BY <2>x, <3>1 DEF FaultInv, Ample
  <2>6. Disturbance <= w + p BY <2>x DEF Ends
  <2>7. Repair \in Nat BY RepairFacts
  <2> HIDE DEF p, q
  <2>8. q = p + 1 BY <2>2, <2>4, <2>5, <2>7 DEF Older
  <2>9. Disturbance <= (w - 1) + q BY <1>1, <2>2, <2>6, <2>7, <2>8 DEF Disturbance
  <2> QED BY <2>9 DEF q
<1>3. stuck = {} => Composed' BY <1>t, ComposedTick
<1>4. ASSUME NEW r \in suspect' PROVE ToBeat(r)' <= w - 1
  <2>r. r \in Roles BY DEF Tick
  <2>h. beat'[r] # 0 /\ (r \in suspect \/ Held(r)) BY <2>r, SuspectTick
  <2>s. stuck \cup failing = {} => r \in suspect BY <1>i, <2>h DEF Held
  <2>w. r \in suspect => ToBeat(r) <= w BY DEF Ends
  <2>b. ToBeat(r) \in 1..Second BY <1>t, <2>r, ToBeatFacts
  <2>1. CASE beat_phase[r] = phase'
    <3>1. ToBeat(r)' = Second BY <1>t, <2>1, <2>r, ToBeatTick
    <3>2. Second + 1 <= w
      <4>1. CASE stuck \cup failing = {}
        <5>1. ~Composed BY <1>t, <2>1, <2>h, <2>r, <4>1, HealthyTick
        <5> QED BY <2>s, <4>1, <5>1 DEF Ends
      <4> QED BY <1>s, <4>1
    <3> QED BY <3>1, <3>2
  <2>2. CASE beat_phase[r] # phase'
    <3>1. ToBeat(r) = ToBeat(r)' + 1 BY <1>t, <2>2, <2>r, ToBeatTick
    <3>2. SilentInv' => ToBeat(r)' \in Int
      <4>1. SilentInv' => phase' \in 0..Second - 1 /\ beat_phase' \in [Roles -> 0..Second - 1]
        BY Rigid DEF SilentInv, TInv, TypeOK
      <4> QED BY <2>r, <4>1 DEF ToBeat
    <3>3. ToBeat(r)' = ToBeat(r) - 1 BY <2>b, <3>1, <3>2
    <3>4. ToBeat(r) <= w \/ Second + 1 <= w BY <1>s, <2>s, <2>w
    <3> QED BY <2>b, <3>3, <3>4
  <2> QED BY <2>1, <2>2
<1>5. Refused' => 1 <= w - 1
  <2>1. Refused' => stuck # {} BY <1>u, Rigid DEF Refused, Ready
  <2> QED BY <1>s, <2>1
<1>6. Disturbance' = Disturbance BY DEF Disturbance, Repair
<1>7. stuck' = {} => Composed' BY <1>3, <1>u
<1> QED BY <1>1, <1>2, <1>4, <1>5, <1>6, <1>7 DEF Ends

\* A send is refused only by a restart.
LEMMA RefusedStep ==
  ASSUME TInv, [Next]_vars, \A r \in Roles : ~Restart(r), NEW t \in Threads, pc'[t] = "refused"
  PROVE  pc[t] = "refused"
<1>t. pc \in [Threads -> {"idle", "send", "refused"}] BY DEF TInv, TypeOK
<1>1. ASSUME NEW s, NEW x \in {"idle", "send"}, pc' = [pc EXCEPT ![s] = x] PROVE pc[t] = "refused"
  BY <1>1, <1>t
<1>2. \/ UNCHANGED pc
      \/ \E s, x : x \in {"idle", "send"} /\ pc' = [pc EXCEPT ![s] = x]
  BY DEF Next, Deliver, Refuse, Returned, Stick, ComeLoose, Ingest, Relay, Request, Storage,
     Broadcast, Autonomy, StartSend, BoardSends, Tick, ReceiveFails, vars, threadVars
<1> QED BY <1>1, <1>2

\* Without another fault, the calm is put off by no step.
LEMMA EndsWork ==
  ASSUME Pace, SilentInv, HeldInv, [Next]_vars, ~Tick, ~Strikes,
         NEW w \in Nat, Ends(w)
  PROVE  Ends(w)'
<1> USE ConstantFacts
<1>t. /\ TInv /\ StuckInv /\ stuck \subseteq Threads /\ suspect \subseteq Roles
      /\ pc \in [Threads -> {"idle", "send", "refused"}]
  BY DEF HeldInv, TInv, TypeOK
<1>s. stuck \cup failing # {} => Second + 1 <= w BY <1>t, StuckLasts
<1>d. Disturbance' = Disturbance BY DEF Disturbance, Repair
<1>a. "autonomy" \in Threads BY ThreadFacts
<1>f. failing \subseteq Threads BY <1>t, ThreadFacts DEF TInv, WatchOK
<1>1. ASSUME NEW s \in Threads, Works(s) PROVE Ends(w)'
  <2>1. s \notin stuck /\ UNCHANGED <<phase, beat_phase, stuck, suspect>> BY <1>1 DEF Works
  <2>2. \A x \in stuck \cup failing' : x \in stuck \cup failing /\ progress'[x] = progress[x]
    BY <1>1, <1>f, <1>t, <2>1 DEF Works
  <2>3. Composed => Composed'
    <3>1. \/ progress'["autonomy"] = 0
          \/ pc'["autonomy"] = "send"
          \/ /\ progress'["autonomy"] = progress["autonomy"] /\ pc'["autonomy"] = pc["autonomy"]
             /\ last_fired' = last_fired
      BY <1>1, <1>a DEF Works
    <3>2. progress'["autonomy"] = 0 => progress'["autonomy"] <= Second OBVIOUS
    <3> QED BY <3>1, <3>2 DEF Composed
  <2>4. \A r \in Roles : ~Restart(r) \/ suspect # {}
    BY StaleIsSuspect DEF Restart, OnlyHeldRolesRestarted
  <2>5. Refused' => Refused \/ suspect # {} BY <1>t, <2>4, RefusedStep, Rigid DEF Refused
  <2>6. suspect # {} => 1 <= w
    <3>1. \A r \in suspect : ToBeat(r) \in 1..Second /\ ToBeat(r) <= w
      BY <1>t, ToBeatFacts DEF Ends
    <3>2. \A n \in 1..Second : n <= w => 1 <= w OBVIOUS
    <3> QED BY <3>1, <3>2
  <2> QED BY <1>d, <2>1, <2>2, <2>3, <2>5, <2>6 DEF Ends, ToBeat
<1>2. ASSUME NEW s \in Threads, ComeLoose(s) PROVE Ends(w)'
  <2>1. /\ s \in stuck /\ stuck' = stuck \ {s}
        /\ UNCHANGED <<phase, beat_phase, suspect, pc, progress, failing, last_fired>>
    BY <1>2 DEF ComeLoose, threadVars, watches, timers
  <2>2. Refused' = Refused BY <2>1, Rigid DEF Refused
  <2> QED BY <1>d, <1>s, <2>1, <2>2 DEF Ends, ToBeat
<1>3. ASSUME NEW r \in Roles, Restart(r) PROVE Ends(w)'
  <2>1. /\ phase = 0 /\ UNCHANGED <<phase, beat_phase, suspect>>
        /\ \A x \in Threads : RoleOf[x] = r => progress'[x] = 0 /\ x \notin stuck' \cup failing'
        /\ \A x \in Threads : RoleOf[x] # r =>
             /\ progress'[x] = progress[x] /\ (x \in stuck' <=> x \in stuck)
             /\ pc'[x] = "refused" \/ pc'[x] = pc[x]
        /\ r # "mission" => last_fired' = last_fired
    BY <1>3, <1>t, RestartFacts
  <2>2. stuck' \subseteq stuck /\ failing' \subseteq failing BY <1>3 DEF Restart
  <2>3. \A x \in stuck' \cup failing' : progress'[x] = progress[x] BY <1>f, <1>t, <2>1, <2>2
  <2>4. r \in suspect BY <1>3, StaleIsSuspect DEF Restart, OnlyHeldRolesRestarted
  <2>5. 1 <= w
    <3>1. ToBeat(r) \in 1..Second /\ ToBeat(r) <= w BY <1>t, <2>4, ToBeatFacts DEF Ends
    <3> QED BY <3>1
  <2>6. Composed => Composed'
    <3>1. CASE r = "mission"
      <4>1. progress'["autonomy"] = 0 BY <1>a, <2>1, <3>1, ThreadFacts
      <4>2. progress'["autonomy"] <= Second BY <4>1
      <4> QED BY <4>2 DEF Composed
    <3>2. CASE r # "mission"
      <4>1. /\ progress'["autonomy"] = progress["autonomy"] /\ last_fired' = last_fired
            /\ pc'["autonomy"] = "refused" \/ pc'["autonomy"] = pc["autonomy"]
        BY <1>a, <2>1, <3>2, ThreadFacts
      <4> QED BY <4>1 DEF Composed
    <3> QED BY <3>1, <3>2
  <2>7. stuck' = {} => stuck = {} \/ Second + 1 <= w BY <1>s
  <2> QED BY <1>d, <2>1, <2>2, <2>3, <2>5, <2>6, <2>7 DEF Ends, ToBeat
<1>4. CASE UNCHANGED <<phase, beat_phase, pc, progress, failing, stuck, suspect, last_fired>>
  BY <1>4, <1>d, Rigid DEF Ends, ToBeat, Composed, Refused
<1>5. ASSUME NEW s \in Threads, Fails(s) PROVE Ends(w)'
  <2>1. s \in failing BY <1>5 DEF Strikes
  <2>2. /\ suspect' = suspect \cup {RoleOf[s]} /\ failing' = failing
        /\ UNCHANGED <<phase, beat_phase, pc, progress, stuck, last_fired>>
    BY <1>5, <2>1, FailsFacts
  <2>3. RoleOf[s] \in Roles BY ThreadFacts
  <2>4. ToBeat(RoleOf[s]) \in 1..Second BY <1>t, <2>3, ToBeatFacts
  <2>5. Second + 1 <= w BY <1>s, <2>1
  <2>6. ToBeat(RoleOf[s]) <= w BY <2>4, <2>5
  <2>7. \A r \in suspect' : ToBeat(r)' <= w BY <2>2, <2>6 DEF Ends, ToBeat
  <2>8. Refused' = Refused BY <2>2, Rigid DEF Refused
  <2> QED BY <1>d, <2>2, <2>5, <2>7, <2>8 DEF Ends
<1>6. \A s \in Threads : ~Stick(s) BY DEF Strikes
<1> QED BY <1>1, <1>2, <1>3, <1>4, <1>5, <1>6, <1>t, WorkStep

\* A disturbance lasts no longer than its name says.
LEMMA EndsAll == TInv => Ends(Disturbance)
<1> SUFFICES ASSUME TInv PROVE Ends(Disturbance) OBVIOUS
<1> USE ConstantFacts
<1>1. Disturbance \in Nat /\ Second + 1 <= Disturbance
  BY RepairFacts DEF Disturbance
<1>2. \A x \in stuck \cup failing : progress[x] \in 0..MaxAge BY ThreadFacts DEF TInv, TypeOK
<1>3. \A p \in 0..MaxAge : Disturbance <= Disturbance + p BY <1>1
<1>4. \A r \in suspect : ToBeat(r) \in 1..Second BY ToBeatFacts DEF TInv, TypeOK
<1>5. \A n \in 1..Second : n <= Disturbance BY <1>1
<1>6. 1 <= Disturbance BY <1>1
<1> QED BY <1>1, <1>2, <1>3, <1>4, <1>5, <1>6 DEF Ends

\* The same, after a step.
LEMMA EndsAllNext == TInv' => Ends(Disturbance)'
BY EndsAll, PTL

\* Only a fault ends the calm.
LEMMA CalmStep ==
  ASSUME Pace, HeldInv, Calm, [Next]_vars, ~Strikes
  PROVE  Calm' /\ \A r \in Roles : ~Restart(r)
<1>t. TInv BY DEF HeldInv
<1>1. \A r \in Roles : ~Restart(r)
  BY StaleIsSuspect DEF Calm, Restart, OnlyHeldRolesRestarted
<1>2. ~Refused' BY <1>1, <1>t, RefusedStep, Rigid DEF Calm, Refused
<1>3. CASE Tick
  <2>1. \A r \in Roles : ~Held(r) BY DEF Calm, Held
  <2>2. suspect' = {} BY <1>3, <2>1 DEF Tick, Calm
  <2>3. stuck' = stuck /\ failing' \subseteq failing BY <1>3 DEF Tick
  <2> QED BY <1>1, <1>2, <2>2, <2>3 DEF Calm
<1>4. CASE ~Tick
  <2>1. UNCHANGED <<stuck, suspect>> /\ failing' \subseteq failing
    <3>1. ~\E s \in Threads : Stick(s) \/ ComeLoose(s) \/ Fails(s)
      BY DEF Calm, ComeLoose, Strikes
    <3> QED BY <1>1, <1>4, <1>t, <3>1, WorkStep DEF Works
  <2> QED BY <1>1, <1>2, <2>1 DEF Calm
<1> QED BY <1>3, <1>4

\* What e lost messages and s stuck threads may cost a board that hears every i ticks.
Budget(e, s, i) == (1 + e) * i + s * (i + Disturbance)
Allow(i) == Budget(faults.event, faults.stuck, i)

\* Each fault adds its share.
LEMMA BudgetFacts ==
  /\ Disturbance \in Nat
  /\ \A e, s, i \in Nat :
       /\ Budget(e, s, i) \in Nat /\ i <= Budget(e, s, i)
       /\ Budget(e + 1, s, i) = Budget(e, s, i) + i
       /\ Budget(e, s + 1, i) = Budget(e, s, i) + i + Disturbance
<1>1. Disturbance \in Nat BY RepairFacts, ConstantFacts DEF Disturbance
<1>2. ASSUME NEW e \in Nat, NEW s \in Nat, NEW i \in Nat
      PROVE  /\ Budget(e, s, i) \in Nat /\ i <= Budget(e, s, i)
             /\ Budget(e + 1, s, i) = Budget(e, s, i) + i
             /\ Budget(e, s + 1, i) = Budget(e, s, i) + i + Disturbance
  <2> DEFINE j == i + Disturbance
  <2>0. j \in Nat BY <1>1
  <2>1. (1 + e) * i = 1 * i + e * i /\ e * i \in Nat /\ s * j \in Nat /\ 1 * i = i
    BY <2>0, Products
  <2>2. (1 + (e + 1)) * i = (1 + e) * i + 1 * i
    <3>1. 1 + (e + 1) = (1 + e) + 1 /\ 1 + e \in Nat OBVIOUS
    <3> QED BY <3>1, Products
  <2>3. (s + 1) * j = s * j + 1 * j /\ 1 * j = j BY <2>0, Products
  <2>4. Budget(e, s, i) = (1 + e) * i + s * j /\ Budget(e + 1, s, i) = (1 + (e + 1)) * i + s * j
        /\ Budget(e, s + 1, i) = (1 + e) * i + (s + 1) * j
    BY DEF Budget
  <2> HIDE DEF j
  <2>5. (1 + e) * i \in Nat /\ i <= (1 + e) * i BY <2>1
  <2>6. Budget(e, s, i) \in Nat /\ i <= Budget(e, s, i) BY <2>1, <2>4, <2>5
  <2>7. Budget(e + 1, s, i) = Budget(e, s, i) + i BY <2>1, <2>2, <2>4, <2>5
  <2>8. Budget(e, s + 1, i) = Budget(e, s, i) + j BY <2>0, <2>1, <2>3, <2>4, <2>5
  <2> QED BY <1>1, <2>6, <2>7, <2>8 DEF j
<1> QED BY <1>1, <1>2

\* More faults never cost less.
LEMMA BudgetGrows ==
  ASSUME NEW e \in Nat, NEW s \in Nat, NEW i \in Nat, NEW f \in Nat, NEW q \in Nat,
         e <= f, s <= q
  PROVE  Budget(e, s, i) <= Budget(f, q, i)
<1> DEFINE j == i + Disturbance
<1>1. j \in Nat /\ 1 + e <= 1 + f /\ 1 + e \in Nat /\ 1 + f \in Nat BY BudgetFacts
<1>2. (1 + e) * i <= (1 + f) * i /\ s * j <= q * j BY <1>1, Products
<1>3. /\ (1 + e) * i \in Nat /\ (1 + f) * i \in Nat /\ s * j \in Nat /\ q * j \in Nat
  BY <1>1, Products
<1>4. Budget(e, s, i) = (1 + e) * i + s * j /\ Budget(f, q, i) = (1 + f) * i + q * j
  BY DEF Budget
<1> HIDE DEF j
<1> QED BY <1>2, <1>3, <1>4

-----------------------------------------------------------------------------
\* A time for board b is on its way from the broadcast thread, or waits for the relay.
SyncOnWay(b) ==
    \/ \E i \in 1..Len(inbox["commands"]) :
          inbox["commands"][i].kind = "sync" /\ inbox["commands"][i].board = b
    \/ pc["broadcast"] # "idle" /\ out["broadcast"].board = b
    \/ pc["broadcast"] # "idle" /\ \E i \in 1..Len(todo) : todo[i] = b

\* A sun command is on its way, or waits for the relay.
SunOnWay ==
    \/ \E i \in 1..Len(inbox["commands"]) : inbox["commands"][i].kind = "sun"
    \/ pc["autonomy"] # "idle"

\* The ticks until autonomy fires, at the latest.
ToFire == IF last_fired < SunInterval THEN (SunInterval - last_fired) + Second
          ELSE IF progress["autonomy"] < Second THEN Second - progress["autonomy"] ELSE 0

\* A board that last heard from the OBC since ticks ago, and hears from it every i ticks,
\* waits within its allowance: in calm for the next message or for one on its way, else
\* for the calm and an interval more.
Kept(since, i, next, onWay) ==
    IF Calm THEN since <= Allow(i) /\ (since + next <= Allow(i) \/ onWay)
    ELSE \E w \in 0..Disturbance : Ends(w) /\ since + w + i <= Allow(i)

\* Boards and ADCS wait within their allowances.
KeepInv ==
    /\ \A b \in Boards : Kept(since_sync[b], SyncInterval, next_sync, SyncOnWay(b))
    /\ Kept(since_sun, SunInterval + Second, ToFire, SunOnWay)

\* Broadcast and autonomy send what their names say.
KindInv ==
    /\ pc["broadcast"] # "idle" => out["broadcast"].kind = "sync"
    /\ pc["autonomy"] # "idle" => out["autonomy"].kind = "sun"

\* Ages saturate.
SinceInv == since_sync \in [Boards -> 0..MaxAge] /\ since_sun \in 0..MaxAge

\* What a fault adds to the allowance.
LEMMA AllowStep ==
  ASSUME TInv, [Next]_vars, NEW i \in Nat
  PROVE  /\ Allow(i) \in Nat /\ Allow(i)' \in Nat /\ i <= Allow(i) /\ Allow(i) <= Allow(i)'
         /\ Strikes => Allow(i)' = Allow(i) + i + Disturbance
         /\ faults'.event = faults.event + 1 => Allow(i) + i <= Allow(i)'
<1> DEFINE e == faults.event
           s == faults.stuck
           f == faults'.event
           t == faults'.stuck
<1>1. /\ e \in Nat /\ s \in Nat
      /\ Strikes => t = s + 1 /\ f = e
      /\ Strikes \/ t = s
      /\ f = e \/ f = e + 1
  BY FaultStep
<1>2. Allow(i) = Budget(e, s, i) /\ Allow(i)' = Budget(f, t, i)
  BY DEF Allow, Budget, Disturbance, Repair
<1> HIDE DEF e, s, f, t
<1>3. f \in Nat /\ t \in Nat /\ e <= f /\ s <= t BY <1>1
<1>4. /\ Budget(e, s, i) \in Nat /\ i <= Budget(e, s, i) /\ Budget(f, t, i) \in Nat
      /\ Budget(e, s, i) <= Budget(f, t, i)
      /\ Budget(e, s + 1, i) = Budget(e, s, i) + i + Disturbance
  <2>1. /\ Budget(e, s, i) \in Nat /\ i <= Budget(e, s, i)
        /\ Budget(e, s + 1, i) = Budget(e, s, i) + i + Disturbance
    BY <1>1, BudgetFacts
  <2>2. Budget(f, t, i) \in Nat BY <1>3, BudgetFacts
  <2>3. Budget(e, s, i) <= Budget(f, t, i) BY <1>1, <1>3, BudgetGrows
  <2> QED BY <2>1, <2>2, <2>3
<1>5. f = e + 1 => Budget(e, s, i) + i <= Budget(f, t, i)
  <2>1. Budget(e + 1, s, i) = Budget(e, s, i) + i BY <1>1, BudgetFacts
  <2>2. Budget(f, s, i) <= Budget(f, t, i)
    <3>1. f <= f BY <1>3
    <3> QED BY <1>1, <1>3, <3>1, BudgetGrows
  <2> QED BY <2>1, <2>2
<1> QED BY <1>1, <1>2, <1>4, <1>5 DEF e, f

\* A wait stays within its allowance when in calm a tick brings the next message nearer,
\* and another step brings it, puts it on its way, loses it as one of the events, or leaves
\* it where it is.
LEMMA KeepStep ==
  ASSUME Pace, Ample, SilentInv, SilentInv', HeldInv, FaultInv, [Next]_vars,
         NEW i \in Nat, NEW s \in Nat, NEW s2 \in Nat, NEW n \in Nat, NEW n2 \in 0..i,
         NEW way \in BOOLEAN, NEW way2 \in BOOLEAN,
         Kept(s, i, n, way), s2 <= s + 1, Tick \/ s2 <= s,
         Calm /\ Tick => ~way /\ n2 + 1 <= n,
         Calm /\ ~Tick /\ ~Strikes =>
            s2 = 0 \/ way2 \/ (~way /\ n2 <= n) \/ faults'.event = faults.event + 1
  PROVE  Kept(s2, i, n2, way2)'
<1> USE ConstantFacts
<1>t. TInv /\ TInv' /\ StuckInv BY DEF SilentInv, HeldInv
<1>d. Disturbance \in Nat /\ Disturbance' = Disturbance
  BY BudgetFacts DEF Disturbance, Repair
<1> DEFINE a == Allow(i)
           b == Allow(i)'
<1>a. /\ a \in Nat /\ b \in Nat /\ i <= a /\ a <= b
      /\ Strikes => b = a + i + Disturbance
      /\ faults'.event = faults.event + 1 => a + i <= b
  BY <1>t, AllowStep
<1>k. \/ Calm /\ s <= a /\ (s + n <= a \/ way)
      \/ ~Calm /\ \E w \in 0..Disturbance : Ends(w) /\ s + w + i <= a
  BY DEF Kept
<1>s. s <= a
  <2> HIDE DEF a
  <2>1. \A w \in 0..Disturbance : s + w + i <= a => s <= a BY <1>a, <1>d
  <2> QED BY <1>k, <2>1
<1> SUFFICES IF Calm' THEN s2 <= b /\ (s2 + n2 <= b \/ way2)
             ELSE \E w \in 0..Disturbance : Ends(w)' /\ s2 + w + i <= b
  BY <1>d DEF Kept
<1>1. ASSUME Strikes
      PROVE  ~Calm' /\ \E w \in 0..Disturbance : Ends(w)' /\ s2 + w + i <= b
  <2>1. stuck' \cup failing' # {} /\ ~Tick
    BY <1>1, FailsFacts DEF Strikes, Stick, Tick
  <2>2. ~Calm' BY <2>1 DEF Calm
  <2>4. Ends(Disturbance)' BY <1>t, EndsAllNext
  <2>5. \A w : w = Disturbance => (Ends(w)' <=> Ends(Disturbance)')
    BY <1>d DEF Ends
  <2> HIDE DEF a, b
  <2>6. s2 + Disturbance + i <= b BY <1>1, <1>a, <1>d, <1>s, <2>1
  <2> QED BY <1>d, <2>2, <2>4, <2>5, <2>6
<1>2. CASE ~Strikes /\ Calm
  <2>1. Calm' BY <1>2, CalmStep
  <2> HIDE DEF a, b
  <2>2. CASE Tick
    <3>1. s + n <= a BY <1>2, <1>k, <2>2
    <3> QED BY <1>2, <1>a, <2>1, <2>2, <3>1
  <2>3. CASE ~Tick
    <3>1. s2 <= b BY <1>a, <1>s, <2>3
    <3>2. CASE s2 = 0 BY <1>a, <2>1, <3>2
    <3>3. CASE way2 BY <2>1, <3>1, <3>3
    <3>4. CASE ~way /\ n2 <= n
      <4>1. s + n <= a BY <1>2, <1>k, <3>4
      <4> QED BY <1>a, <2>1, <2>3, <3>1, <3>4, <4>1
    <3>5. CASE faults'.event = faults.event + 1 BY <1>a, <1>s, <2>1, <2>3, <3>1, <3>5
    <3> QED BY <1>2, <2>3, <3>2, <3>3, <3>4, <3>5
  <2> QED BY <2>2, <2>3
<1>3. CASE ~Strikes /\ ~Calm
  <2>1. PICK w \in 0..Disturbance : Ends(w) /\ s + w + i <= a BY <1>3, <1>k
  <2>w. w \in Nat BY <1>d
  <2>2. CASE Tick
    <3>1. 1 <= w /\ Ends(w - 1)' BY <1>3, <1>t, <2>1, <2>2, <2>w, EndsTick
    <3> HIDE DEF a, b
    <3>2. w - 1 \in 0..Disturbance /\ s2 + (w - 1) + i <= b /\ s2 + n2 <= b /\ s2 <= b
      BY <1>a, <1>d, <2>1, <2>w, <3>1
    <3> QED BY <3>1, <3>2
  <2>3. CASE ~Tick
    <3>1. Ends(w)' BY <1>3, <2>1, <2>3, <2>w, EndsWork
    <3> HIDE DEF a, b
    <3>2. s2 + w + i <= b /\ s2 + n2 <= b /\ s2 <= b BY <1>a, <1>d, <2>1, <2>3, <2>w
    <3> QED BY <3>1, <3>2
  <2> QED BY <2>2, <2>3
<1> QED BY <1>1, <1>2, <1>3

\* What IPC_send does for its thread and for those who wait at the commands role's socket.
LEMMA DeliverFacts ==
  ASSUME TInv, NEW t \in Threads, Deliver(t)
  PROVE  /\ \A i \in 1..Len(inbox["commands"]) :
              i \in 1..Len(inbox'["commands"]) /\ inbox'["commands"][i] = inbox["commands"][i]
         /\ out[t].to = "commands" =>
              \E i \in 1..Len(inbox'["commands"]) : inbox'["commands"][i] = out[t]
         /\ \A s \in Threads \ {t} :
              pc'[s] = pc[s] /\ out'[s] = out[s] /\ progress'[s] = progress[s]
         /\ t # "broadcast" => todo' = todo
         /\ t # "autonomy" => last_fired' = last_fired
         /\ next_sync' = next_sync
<1>t. /\ inbox \in [Roles -> Seq(Messages)] /\ out \in [Threads -> Messages]
      /\ "commands" \in Roles
  BY DEF TInv, Roles
<1> DEFINE q == out[t].to
           c == inbox["commands"]
<1>1. /\ inbox' = [inbox EXCEPT ![q] = Append(inbox[q], out[t])] /\ Returned(t, TRUE)
      /\ t \notin stuck
  BY DEF Deliver
<1>2. /\ \A s \in Threads \ {t} : pc'[s] = pc[s] /\ out'[s] = out[s] /\ progress'[s] = progress[s]
  <2>1. /\ pc \in [Threads -> {"idle", "send", "refused"}] /\ progress \in [Threads -> 0..MaxAge]
    BY DEF TInv, TypeOK
  <2>2. progress' = [progress EXCEPT ![t] = 0] BY <1>1 DEF Returned, Touch
  <2>3. \E m, x : out' = [out EXCEPT ![t] = m] /\ pc' = [pc EXCEPT ![t] = x]
    BY <1>1 DEF Returned
  <2> QED BY <1>t, <2>1, <2>2, <2>3
<1>3. /\ t # "broadcast" => todo' = todo
      /\ t # "autonomy" => last_fired' = last_fired
      /\ next_sync' = next_sync
  BY <1>1 DEF Returned
<1>4. IF q = "commands" THEN inbox'["commands"] = Append(c, out[t]) ELSE inbox'["commands"] = c
  BY <1>1, <1>t
<1>5. c \in Seq(Messages) /\ out[t] \in Messages BY <1>t
<1> HIDE DEF c, q
<1>6. /\ \A i \in 1..Len(c) : i \in 1..Len(inbox'["commands"]) /\ inbox'["commands"][i] = c[i]
      /\ q = "commands" => \E i \in 1..Len(inbox'["commands"]) : inbox'["commands"][i] = out[t]
  <2>1. CASE q # "commands" BY <1>4, <2>1
  <2>2. CASE q = "commands"
    <3>1. inbox'["commands"] = Append(c, out[t]) BY <1>4, <2>2
    <3>2. /\ Len(c) \in Nat /\ Len(inbox'["commands"]) = Len(c) + 1
          /\ inbox'["commands"][Len(c) + 1] = out[t]
          /\ \A i \in 1..Len(c) : inbox'["commands"][i] = c[i]
      BY <1>5, <3>1
    <3>3. Len(c) + 1 \in 1..Len(inbox'["commands"]) BY <3>2
    <3> QED BY <3>2, <3>3
  <2> QED BY <2>1, <2>2
<1> QED BY <1>2, <1>3, <1>6 DEF c, q

\* The relay takes the first message; the others move up.
LEMMA RelayFacts ==
  ASSUME TInv, Relay
  PROVE  /\ \A i \in 1..Len(inbox["commands"]) :
              \/ inbox["commands"][i] = Head(inbox["commands"])
              \/ \E j \in 1..Len(inbox'["commands"]) : inbox'["commands"][j] = inbox["commands"][i]
         /\ Head(inbox["commands"]) \in Messages
         /\ UNCHANGED <<pc, out, todo, next_sync, last_fired>>
         /\ progress'["autonomy"] = progress["autonomy"]
<1> DEFINE c == inbox["commands"]
<1>1. /\ c # <<>> /\ inbox' = [inbox EXCEPT !["commands"] = Tail(c)]
      /\ progress' = [progress EXCEPT !["relay"] = 0]
      /\ UNCHANGED <<pc, out, todo, next_sync, last_fired>>
  BY ThreadFacts DEF Relay, Receive, Touch, timers
<1>2. inbox \in [Roles -> Seq(Messages)] /\ "commands" \in Roles BY DEF TInv, Roles
<1>3. inbox'["commands"] = Tail(c) /\ c \in Seq(Messages) BY <1>1, <1>2
<1>4. progress'["autonomy"] = progress["autonomy"] BY <1>1, ThreadFacts DEF TInv, TypeOK
<1> HIDE DEF c
<1>5. /\ Len(c) \in Nat /\ Head(c) = c[1] /\ Head(c) \in Messages /\ Len(Tail(c)) = Len(c) - 1
      /\ \A j \in 1..Len(c) - 1 : Tail(c)[j] = c[j + 1]
  BY <1>1, <1>3
<1>6. ASSUME NEW i \in 1..Len(c), i # 1 PROVE \E j \in 1..Len(Tail(c)) : Tail(c)[j] = c[i]
  <2>1. i - 1 \in 1..Len(Tail(c)) /\ (i - 1) + 1 = i BY <1>5, <1>6
  <2> QED BY <1>5, <2>1
<1> QED BY <1>1, <1>3, <1>4, <1>5, <1>6 DEF c

\* What may happen in calm between two ticks.
LEMMA CalmCases ==
  ASSUME Pace, HeldInv, Calm, [Next]_vars, ~Tick, ~Strikes
  PROVE  \/ \E t \in Threads : Deliver(t)
         \/ Relay \/ Broadcast \/ Autonomy
         \/ /\ inbox'["commands"] = inbox["commands"] /\ UNCHANGED <<todo, next_sync, last_fired>>
            /\ progress'["autonomy"] = progress["autonomy"]
            /\ \A t \in {"broadcast", "autonomy"} : pc'[t] = pc[t] /\ out'[t] = out[t]
<1>t. /\ TInv /\ inbox \in [Roles -> Seq(Messages)] /\ out \in [Threads -> Messages]
      /\ pc \in [Threads -> {"idle", "send", "refused"}] /\ progress \in [Threads -> 0..MaxAge]
  BY DEF HeldInv, TInv, TypeOK
<1>r. \A r \in Roles : ~Restart(r) BY CalmStep
<1>c. \A t \in Threads : ~Refuse(t) /\ ~ComeLoose(t) /\ ~Stick(t)
  BY DEF Calm, Refused, Refuse, ComeLoose, Strikes
<1>f. \A t \in Readers : ~ReceiveFails(t)
  BY ThreadFacts DEF Calm, Strikes, Fails
<1>n. {"time", "data"} \subseteq Roles \ {"commands"} /\ "commands" \in Roles BY DEF Roles
<1>1. ASSUME NEW s \in Threads \ {"broadcast", "autonomy"}, NEW r \in {"time", "data"}, NEW q,
             inbox' = inbox \/ inbox' = [inbox EXCEPT ![r] = q],
             UNCHANGED pc \/ \E x : pc' = [pc EXCEPT ![s] = x],
             UNCHANGED out \/ \E m : out' = [out EXCEPT ![s] = m],
             UNCHANGED progress \/ progress' = [progress EXCEPT ![s] = 0]
      PROVE  /\ inbox'["commands"] = inbox["commands"]
             /\ progress'["autonomy"] = progress["autonomy"]
             /\ \A t \in {"broadcast", "autonomy"} : pc'[t] = pc[t] /\ out'[t] = out[t]
  <2>1. inbox'["commands"] = inbox["commands"] BY <1>1, <1>n, <1>t
  <2>2. progress'["autonomy"] = progress["autonomy"] BY <1>1, <1>t, ThreadFacts
  <2>3. ASSUME NEW t \in {"broadcast", "autonomy"} PROVE pc'[t] = pc[t] /\ out'[t] = out[t]
    <3>1. t \in Threads /\ t # s BY ThreadFacts
    <3>2. pc'[t] = pc[t] BY <1>1, <1>t, <3>1
    <3>3. out'[t] = out[t] BY <1>1, <1>t, <3>1
    <3> QED BY <3>2, <3>3
  <2> QED BY <2>1, <2>2, <2>3
<1>2. CASE Ingest
  <2>1. /\ inbox' = inbox /\ UNCHANGED <<todo, next_sync, last_fired>>
        /\ UNCHANGED pc \/ \E x : pc' = [pc EXCEPT !["ingest"] = x]
        /\ UNCHANGED out \/ \E m : out' = [out EXCEPT !["ingest"] = m]
        /\ UNCHANGED progress \/ progress' = [progress EXCEPT !["ingest"] = 0]
    BY <1>2 DEF Ingest, StartSend, Touch, watches, timers
  <2>2. "ingest" \in Threads \ {"broadcast", "autonomy"} BY ThreadFacts
  <2> QED BY <1>1, <2>1, <2>2
<1>3. CASE Request
  <2>1. /\ \E q : inbox' = [inbox EXCEPT !["time"] = q]
        /\ UNCHANGED <<todo, next_sync, last_fired>>
        /\ UNCHANGED pc \/ \E x : pc' = [pc EXCEPT !["request"] = x]
        /\ UNCHANGED out \/ \E m : out' = [out EXCEPT !["request"] = m]
        /\ UNCHANGED progress \/ progress' = [progress EXCEPT !["request"] = 0]
    BY <1>3, ThreadFacts DEF Request, Receive, StartSend, Touch, watches, timers
  <2>2. "request" \in Threads \ {"broadcast", "autonomy"} BY ThreadFacts
  <2> QED BY <1>1, <2>1, <2>2
<1>4. CASE Storage
  <2>1. /\ \E q : inbox' = [inbox EXCEPT !["data"] = q]
        /\ UNCHANGED <<todo, next_sync, last_fired, pc, out>>
        /\ progress' = [progress EXCEPT !["storage"] = 0]
    BY <1>4, ThreadFacts DEF Storage, Receive, Touch, timers
  <2>2. "storage" \in Threads \ {"broadcast", "autonomy"} BY ThreadFacts
  <2> QED BY <1>1, <2>1, <2>2
<1>5. CASE BoardSends \/ UNCHANGED vars
  BY <1>5 DEF BoardSends, vars, threadVars, watches, timers
<1> QED BY <1>2, <1>3, <1>4, <1>5, <1>c, <1>f, <1>r DEF Next

\* Boards do not forget when they heard last.
LEMMA SinceStep ==
  ASSUME TInv, SinceInv, [Next]_vars
  PROVE  /\ SinceInv'
         /\ \A b \in Boards : /\ since_sync'[b] <= since_sync[b] + 1
                              /\ Tick \/ since_sync'[b] <= since_sync[b]
         /\ since_sun' <= since_sun + 1 /\ (Tick \/ since_sun' <= since_sun)
<1> USE ConstantFacts
<1>t. since_sync \in [Boards -> 0..MaxAge] /\ since_sun \in 0..MaxAge BY DEF SinceInv
<1>1. CASE Tick
  <2>1. /\ since_sync' = [b \in Boards |-> Older(since_sync[b])] /\ since_sun' = Older(since_sun)
    BY <1>1 DEF Tick
  <2>2. \A n \in 0..MaxAge : Older(n) \in 0..MaxAge /\ Older(n) <= n + 1 BY OlderFacts
  <2>3. \A b \in Boards : since_sync'[b] \in 0..MaxAge /\ since_sync'[b] <= since_sync[b] + 1
    BY <1>t, <2>1, <2>2
  <2>4. since_sync' \in [Boards -> 0..MaxAge] BY <2>1, <2>3
  <2>5. since_sun' \in 0..MaxAge /\ since_sun' <= since_sun + 1 BY <1>t, <2>1, <2>2
  <2> QED BY <1>1, <2>3, <2>4, <2>5 DEF SinceInv
<1>2. CASE Relay
  <2>1. \/ \E b : since_sync' = [since_sync EXCEPT ![b] = 0] /\ UNCHANGED since_sun
        \/ since_sun' = 0 /\ UNCHANGED since_sync
        \/ UNCHANGED <<since_sync, since_sun>>
    BY <1>2 DEF Relay, boards
  <2>2. \A b \in Boards : since_sync'[b] = since_sync[b] \/ since_sync'[b] = 0
    BY <1>t, <2>1
  <2>3. since_sync' \in [Boards -> 0..MaxAge]
    <3>1. 0 \in 0..MaxAge OBVIOUS
    <3> QED BY <1>t, <2>1, <3>1
  <2>4. \A b \in Boards : /\ since_sync'[b] <= since_sync[b] + 1
                          /\ since_sync'[b] <= since_sync[b]
    <3>1. \A n \in 0..MaxAge : 0 <= n + 1 /\ 0 <= n /\ n <= n + 1 /\ n <= n OBVIOUS
    <3> QED BY <1>t, <2>2, <3>1
  <2>5. since_sun' \in 0..MaxAge /\ since_sun' <= since_sun BY <1>t, <2>1
  <2> QED BY <1>t, <2>3, <2>4, <2>5 DEF SinceInv
<1>3. CASE UNCHANGED <<since_sync, since_sun>>
  <2>1. \A n \in 0..MaxAge : n <= n + 1 /\ n <= n OBVIOUS
  <2>2. \A b \in Boards : since_sync[b] \in 0..MaxAge BY <1>t
  <2> QED BY <1>3, <1>t, <2>1, <2>2 DEF SinceInv
<1> QED BY <1>1, <1>2, <1>3 DEF Next, Deliver, Refuse, Returned, Stick, ComeLoose, Ingest, Request,
      Storage, Broadcast, Autonomy, Restart, BoardSends, ReceiveFails, vars, boards

\* Broadcast and autonomy keep to what they send.
LEMMA KindStep ==
  ASSUME TInv, KindInv, [Next]_vars
  PROVE  KindInv'
<1>t. /\ pc \in [Threads -> {"idle", "send", "refused"}] /\ out \in [Threads -> Messages]
      /\ \A t \in Threads : pc[t] = "idle" <=> out[t] = Nothing
  BY DEF TInv, TypeOK
<1>a. "broadcast" \in Threads /\ "autonomy" \in Threads BY ThreadFacts
<1>2. ASSUME NEW t \in Threads, NEW ok \in BOOLEAN, Returned(t, ok) PROVE KindInv'
  <2>1. CASE t = "broadcast" /\ todo # <<>>
    <3>1. /\ out' = [out EXCEPT !["broadcast"] = Msg("commands", "sync", Head(todo))]
          /\ pc' = [pc EXCEPT !["broadcast"] = "send"]
      BY <1>2, <2>1 DEF Returned
    <3>2. Head(todo) \in Boards BY <2>1 DEF TInv
    <3>3. Msg("commands", "sync", Head(todo)).kind = "sync" BY <3>2, MsgFacts DEF Roles
    <3> QED BY <1>a, <1>t, <3>1, <3>3 DEF KindInv
  <2>2. CASE ~(t = "broadcast" /\ todo # <<>>)
    <3>1. out' = [out EXCEPT ![t] = Nothing] /\ pc' = [pc EXCEPT ![t] = "idle"]
      BY <1>2, <2>2 DEF Returned
    <3> QED BY <1>a, <1>t, <3>1 DEF KindInv
  <2> QED BY <2>1, <2>2
<1>3. ASSUME NEW t \in Threads \ {"broadcast", "autonomy"},
             UNCHANGED <<pc, out>> \/ \E m : StartSend(t, m)
      PROVE  KindInv'
  BY <1>3, <1>a, <1>t DEF StartSend, KindInv
<1>4. CASE Ingest
  <2>1. UNCHANGED <<pc, out>> \/ \E m : StartSend("ingest", m) BY <1>4 DEF Ingest
  <2> QED BY <1>3, <2>1, ThreadFacts
<1>5. CASE Request
  <2>1. UNCHANGED <<pc, out>> \/ \E m : StartSend("request", m) BY <1>5 DEF Request
  <2> QED BY <1>3, <2>1, ThreadFacts
<1>6. CASE Broadcast
  <2>1. StartSend("broadcast", Msg("commands", "sync", Head(Targets))) BY <1>6 DEF Broadcast
  <2>2. Msg("commands", "sync", Head(Targets)).kind = "sync" BY BoardFacts, MsgFacts DEF Roles
  <2> QED BY <1>a, <1>t, <2>1, <2>2 DEF StartSend, KindInv
<1>7. CASE Autonomy
  <2>1. StartSend("autonomy", Msg("commands", "sun", "ADCS")) BY <1>7 DEF Autonomy
  <2>2. Msg("commands", "sun", "ADCS").kind = "sun" BY BoardFacts, MsgFacts DEF Roles
  <2> QED BY <1>a, <1>t, <2>1, <2>2 DEF StartSend, KindInv
<1>8. ASSUME NEW r \in Roles, Restart(r) PROVE KindInv'
  <2>1. \A t \in Threads : \/ pc'[t] = "idle"
                           \/ out'[t] = out[t] /\ (pc[t] = "idle" => pc'[t] = "idle")
    BY <1>8, RestartFacts
  <2> QED BY <1>a, <2>1 DEF KindInv
<1>9. CASE Tick
  <2>1. pc' = pc /\ out' = [t \in Threads |-> Aged(out[t])] BY <1>9 DEF Tick
  <2>2. \A t \in Threads : out'[t].kind = out[t].kind BY <1>t, <2>1, AgedFacts
  <2> QED BY <1>a, <2>1, <2>2 DEF KindInv
<1>10. CASE UNCHANGED <<pc, out>> BY <1>10 DEF KindInv
<1> QED BY <1>2, <1>4, <1>5, <1>6, <1>7, <1>8, <1>9, <1>10
        DEF Next, Deliver, Refuse, Stick, ComeLoose, Relay, Storage, BoardSends, ReceiveFails, vars,
            threadVars

\* In calm the next broadcast comes nearer with every tick, and what it sends arrives.
LEMMA SyncCalm ==
  ASSUME Pace, HeldInv, KindInv, SinceInv, Calm, [Next]_vars, NEW b \in Boards
  PROVE  /\ Tick => ~SyncOnWay(b) /\ next_sync' + 1 <= next_sync
         /\ ~Tick /\ ~Strikes =>
              \/ since_sync'[b] = 0 \/ SyncOnWay(b)'
              \/ ~SyncOnWay(b) /\ next_sync' <= next_sync
              \/ faults'.event = faults.event + 1
<1> USE ConstantFacts
<1>t. /\ TInv /\ inbox \in [Roles -> Seq(Messages)] /\ next_sync \in 0..SyncInterval
      /\ pc \in [Threads -> {"idle", "send", "refused"}] /\ out \in [Threads -> Messages]
      /\ todo \in Seq(Boards)
  BY DEF HeldInv, TInv, TypeOK
<1>a. "broadcast" \in Threads BY ThreadFacts
<1> DEFINE Goal == \/ since_sync'[b] = 0 \/ SyncOnWay(b)'
                   \/ ~SyncOnWay(b) /\ next_sync' <= next_sync
                   \/ faults'.event = faults.event + 1
<1>1. ASSUME Tick PROVE ~SyncOnWay(b) /\ next_sync' + 1 <= next_sync
  <2>1. pc["broadcast"] = "idle" /\ inbox["commands"] = <<>> /\ stuck = {}
    BY <1>1, <1>a, <1>t, QuietIdle DEF Calm
  <2>2. ~SyncOnWay(b)
    <3>1. Len(inbox["commands"]) = 0 BY <2>1
    <3> QED BY <2>1, <3>1 DEF SyncOnWay
  <2>3. next_sync # 0
    <3>1. ~Ready("broadcast") BY <1>1, <1>a, <1>t, TickFacts DEF Quiet
    <3> QED BY <2>1, <3>1 DEF Ready
  <2>4. next_sync' = IF next_sync > 0 THEN next_sync - 1 ELSE 0 BY <1>1 DEF Tick
  <2> QED BY <1>t, <2>2, <2>3, <2>4
<1>2. ASSUME next_sync' = next_sync, SyncOnWay(b) => SyncOnWay(b)' PROVE Goal
  BY <1>2, <1>t
<1>3. ASSUME NEW t \in Threads, Deliver(t) PROVE Goal
  <2>d. /\ \A i \in 1..Len(inbox["commands"]) :
             i \in 1..Len(inbox'["commands"]) /\ inbox'["commands"][i] = inbox["commands"][i]
        /\ out[t].to = "commands" =>
             \E i \in 1..Len(inbox'["commands"]) : inbox'["commands"][i] = out[t]
        /\ \A s \in Threads \ {t} : pc'[s] = pc[s] /\ out'[s] = out[s]
        /\ t # "broadcast" => todo' = todo
        /\ next_sync' = next_sync
    BY <1>3, <1>t, DeliverFacts
  <2> SUFFICES ASSUME SyncOnWay(b) PROVE SyncOnWay(b)' BY <1>2, <2>d
  <2>1. CASE \E i \in 1..Len(inbox["commands"]) :
               inbox["commands"][i].kind = "sync" /\ inbox["commands"][i].board = b
    BY <2>1, <2>d DEF SyncOnWay
  <2>2. CASE t # "broadcast" /\ pc["broadcast"] # "idle"
               /\ (out["broadcast"].board = b \/ \E i \in 1..Len(todo) : todo[i] = b)
    <3>1. pc'["broadcast"] # "idle" /\ out'["broadcast"] = out["broadcast"] /\ todo' = todo
      BY <1>a, <2>2, <2>d
    <3> QED BY <2>2, <3>1 DEF SyncOnWay
  <2>3. CASE t = "broadcast" /\ out[t].board = b
    <3>1. pc[t] # "idle" BY <1>3 DEF Deliver
    <3>2. out[t].kind = "sync" /\ out[t].to = "commands"
      BY <1>t, <2>3, <3>1 DEF KindInv, TInv, Goals
    <3> QED BY <2>3, <2>d, <3>2 DEF SyncOnWay
  <2>4. CASE t = "broadcast" /\ \E i \in 1..Len(todo) : todo[i] = b
    <3>1. PICK i \in 1..Len(todo) : todo[i] = b BY <2>4
    <3>2. todo # <<>> /\ Returned(t, TRUE)
      <4>1. todo # <<>> BY <1>t, <3>1
      <4> QED BY <1>3, <4>1 DEF Deliver
    <3>3. /\ out' = [out EXCEPT !["broadcast"] = Msg("commands", "sync", Head(todo))]
          /\ pc' = [pc EXCEPT !["broadcast"] = "send"] /\ todo' = Tail(todo)
      BY <2>4, <3>2 DEF Returned
    <3>4. /\ Head(todo) = todo[1] /\ Head(todo) \in Boards /\ Len(todo) \in Nat
          /\ Len(Tail(todo)) = Len(todo) - 1
          /\ \A j \in 1..Len(todo) - 1 : Tail(todo)[j] = todo[j + 1]
      BY <1>t, <3>2
    <3>5. pc'["broadcast"] = "send" /\ out'["broadcast"].board = Head(todo)
      BY <1>a, <1>t, <3>3, <3>4, MsgFacts DEF Roles
    <3>6. CASE i = 1 BY <3>1, <3>4, <3>5, <3>6 DEF SyncOnWay
    <3>7. CASE i # 1
      <4>1. i - 1 \in 1..Len(todo) - 1 /\ (i - 1) + 1 = i BY <3>4, <3>7
      <4>2. i - 1 \in 1..Len(todo') /\ todo'[i - 1] = b BY <3>1, <3>3, <3>4, <4>1
      <4> QED BY <3>5, <4>2 DEF SyncOnWay
    <3> QED BY <3>6, <3>7
  <2> QED BY <2>1, <2>2, <2>3, <2>4 DEF SyncOnWay
<1>4. ASSUME Relay PROVE Goal
  <2> DEFINE m == Head(inbox["commands"])
  <2>r. /\ \A i \in 1..Len(inbox["commands"]) :
             \/ inbox["commands"][i] = m
             \/ \E j \in 1..Len(inbox'["commands"]) : inbox'["commands"][j] = inbox["commands"][i]
        /\ m \in Messages /\ UNCHANGED <<pc, out, todo, next_sync>>
    BY <1>4, <1>t, RelayFacts
  <2>e. \/ m.kind = "sync" /\ since_sync' = [since_sync EXCEPT ![m.board] = 0]
        \/ m.kind = "sun"
        \/ faults' = [faults EXCEPT !.event = @ + 1]
    BY <1>4 DEF Relay
  <2>f. faults' = [faults EXCEPT !.event = @ + 1] => faults'.event = faults.event + 1
    BY <1>t DEF TInv
  <2> HIDE DEF m
  <2>1. CASE m.kind = "sync" /\ m.board = b
    <3>1. CASE since_sync' = [since_sync EXCEPT ![m.board] = 0] BY <2>1, <3>1 DEF SinceInv
    <3> QED BY <2>1, <2>e, <2>f, <3>1
  <2>2. CASE ~(m.kind = "sync" /\ m.board = b)
    <3>1. SyncOnWay(b) => SyncOnWay(b)'
      <4>1. CASE \E i \in 1..Len(inbox["commands"]) :
                   inbox["commands"][i].kind = "sync" /\ inbox["commands"][i].board = b
        BY <2>2, <2>r, <4>1 DEF SyncOnWay
      <4>2. CASE pc["broadcast"] # "idle"
                   /\ (out["broadcast"].board = b \/ \E i \in 1..Len(todo) : todo[i] = b)
        BY <2>r, <4>2 DEF SyncOnWay
      <4> QED BY <4>1, <4>2 DEF SyncOnWay
    <3> QED BY <1>2, <2>r, <3>1
  <2> QED BY <2>1, <2>2
<1>5. ASSUME Broadcast PROVE Goal
  <2>1. /\ StartSend("broadcast", Msg("commands", "sync", Head(Targets)))
        /\ todo' = Tail(Targets)
    BY <1>5 DEF Broadcast
  <2>2. /\ pc'["broadcast"] = "send" /\ out'["broadcast"].board = Head(Targets)
    BY <1>a, <1>t, <2>1, BoardFacts, MsgFacts DEF StartSend, Roles
  <2>3. Head(Targets) = "ADCS" /\ Len(Tail(Targets)) = 1 /\ Tail(Targets)[1] = "EPS"
    BY DEF Targets
  <2>4. b = "ADCS" \/ b = "EPS" BY BoardFacts
  <2>5. CASE b = "ADCS" BY <2>2, <2>3, <2>5 DEF SyncOnWay
  <2>6. CASE b = "EPS"
    <3>1. 1 \in 1..Len(todo') /\ todo'[1] = b BY <2>1, <2>3, <2>6
    <3> QED BY <2>2, <3>1 DEF SyncOnWay
  <2> QED BY <2>4, <2>5, <2>6
<1>6. ASSUME Autonomy PROVE Goal
  <2>1. /\ UNCHANGED <<inbox, todo, next_sync>> /\ \E m : StartSend("autonomy", m)
    BY <1>6 DEF Autonomy, timers
  <2>2. pc'["broadcast"] = pc["broadcast"] /\ out'["broadcast"] = out["broadcast"]
    BY <1>a, <1>t, <2>1 DEF StartSend
  <2>3. SyncOnWay(b) => SyncOnWay(b)' BY <2>1, <2>2 DEF SyncOnWay
  <2> QED BY <1>2, <2>1, <2>3
<1>7. ASSUME inbox'["commands"] = inbox["commands"], UNCHANGED <<todo, next_sync>>,
             pc'["broadcast"] = pc["broadcast"], out'["broadcast"] = out["broadcast"]
      PROVE  Goal
  <2>1. SyncOnWay(b) => SyncOnWay(b)' BY <1>7 DEF SyncOnWay
  <2> QED BY <1>2, <1>7, <2>1
<1>8. ASSUME ~Tick, ~Strikes PROVE Goal
  <2> HIDE DEF Goal
  <2> QED BY <1>3, <1>4, <1>5, <1>6, <1>7, <1>8, CalmCases
<1> QED BY <1>1, <1>8

\* Autonomy fires within its interval and a second.
LEMMA ToFireFacts == TInv => ToFire \in 0..SunInterval + Second
<1> SUFFICES ASSUME TInv PROVE ToFire \in 0..SunInterval + Second OBVIOUS
<1>1. last_fired \in 0..SunInterval /\ progress["autonomy"] \in 0..MaxAge
  BY ThreadFacts DEF TInv, TypeOK
<1> QED BY <1>1, ConstantFacts DEF ToFire

\* The same, after a step.
LEMMA ToFireFactsNext == TInv' => (ToFire \in 0..SunInterval + Second)'
BY ToFireFacts, PTL

\* In calm autonomy comes nearer to its next command with every tick, and the command arrives.
LEMMA SunCalm ==
  ASSUME Pace, HeldInv, KindInv, Calm, [Next]_vars
  PROVE  /\ Tick => ~SunOnWay /\ ToFire' + 1 <= ToFire
         /\ ~Tick /\ ~Strikes =>
              \/ since_sun' = 0 \/ SunOnWay'
              \/ ~SunOnWay /\ ToFire' <= ToFire
              \/ faults'.event = faults.event + 1
<1> USE ConstantFacts
<1>t. /\ TInv /\ inbox \in [Roles -> Seq(Messages)] /\ last_fired \in 0..SunInterval
      /\ pc \in [Threads -> {"idle", "send", "refused"}] /\ out \in [Threads -> Messages]
      /\ progress \in [Threads -> 0..MaxAge]
  BY DEF HeldInv, TInv, TypeOK
<1>a. "autonomy" \in Threads BY ThreadFacts
<1> DEFINE Goal == \/ since_sun' = 0 \/ SunOnWay'
                   \/ ~SunOnWay /\ ToFire' <= ToFire
                   \/ faults'.event = faults.event + 1
<1>1. ASSUME Tick PROVE ~SunOnWay /\ ToFire' + 1 <= ToFire
  <2>1. pc["autonomy"] = "idle" /\ inbox["commands"] = <<>> /\ stuck = {}
    BY <1>1, <1>a, <1>t, QuietIdle DEF Calm
  <2>2. ~SunOnWay
    <3>1. Len(inbox["commands"]) = 0 BY <2>1
    <3> QED BY <2>1, <3>1 DEF SunOnWay
  <2> DEFINE p == progress["autonomy"]
             q == progress'["autonomy"]
  <2>3. ~(p >= Second /\ last_fired >= SunInterval)
    <3>1. ~Ready("autonomy") BY <1>1, <1>a, <1>t, TickFacts DEF Quiet
    <3> QED BY <2>1, <3>1 DEF Ready, Slept
  <2>4. last_fired' = IF last_fired < SunInterval THEN last_fired + 1 ELSE last_fired
    BY <1>1 DEF Tick
  <2>5. IF p + 1 >= Second /\ last_fired + 1 < SunInterval THEN q = 0 ELSE q = Older(p)
    <3>1. TouchesIdly("autonomy") <=> p + 1 >= Second /\ last_fired + 1 < SunInterval
      BY <2>1, ThreadFacts DEF TouchesIdly, Idle, Waited
    <3> QED BY <1>1, <1>a, <1>t, <3>1, TickFacts
  <2>6. p \in 0..MaxAge /\ Older(p) \in 0..MaxAge /\ (p < MaxAge => Older(p) = p + 1)
    BY <1>a, <1>t, OlderFacts
  <2>7. /\ ToFire = IF last_fired < SunInterval THEN (SunInterval - last_fired) + Second
                    ELSE IF p < Second THEN Second - p ELSE 0
        /\ ToFire' = IF last_fired' < SunInterval THEN (SunInterval - last_fired') + Second
                     ELSE IF q < Second THEN Second - q ELSE 0
    BY DEF ToFire
  <2>8. q \in Nat BY <2>5, <2>6
  <2> HIDE DEF p, q
  <2>9. CASE last_fired < SunInterval BY <1>t, <2>2, <2>4, <2>7, <2>8, <2>9
  <2>10. CASE ~(last_fired < SunInterval)
    <3>1. q = p + 1 /\ p < Second BY <1>t, <2>10, <2>3, <2>5, <2>6 DEF Pace
    <3> QED BY <1>t, <2>2, <2>10, <2>4, <2>6, <2>7, <3>1
  <2> QED BY <2>9, <2>10
<1>2. ASSUME last_fired' = last_fired, progress'["autonomy"] = progress["autonomy"],
             SunOnWay => SunOnWay'
      PROVE  Goal
  <2>1. ToFire \in 0..SunInterval + Second BY <1>t, ToFireFacts
  <2>2. ToFire' = ToFire BY <1>2 DEF ToFire
  <2> QED BY <1>2, <2>1, <2>2
<1>3. ASSUME NEW t \in Threads, Deliver(t) PROVE Goal
  <2>d. /\ \A i \in 1..Len(inbox["commands"]) :
             i \in 1..Len(inbox'["commands"]) /\ inbox'["commands"][i] = inbox["commands"][i]
        /\ out[t].to = "commands" =>
             \E i \in 1..Len(inbox'["commands"]) : inbox'["commands"][i] = out[t]
        /\ \A s \in Threads \ {t} : pc'[s] = pc[s] /\ progress'[s] = progress[s]
        /\ t # "autonomy" => last_fired' = last_fired
    BY <1>3, <1>t, DeliverFacts
  <2>1. CASE t = "autonomy"
    <3>1. pc[t] # "idle" BY <1>3 DEF Deliver
    <3>2. out[t].kind = "sun" /\ out[t].to = "commands"
      BY <1>t, <2>1, <3>1 DEF KindInv, TInv, Goals
    <3> QED BY <2>d, <3>2 DEF SunOnWay
  <2>2. CASE t # "autonomy"
    <3>1. /\ last_fired' = last_fired /\ progress'["autonomy"] = progress["autonomy"]
          /\ pc'["autonomy"] = pc["autonomy"]
      BY <1>a, <2>2, <2>d
    <3>2. SunOnWay => SunOnWay' BY <2>d, <3>1 DEF SunOnWay
    <3> QED BY <1>2, <3>1, <3>2
  <2> QED BY <2>1, <2>2
<1>4. ASSUME Relay PROVE Goal
  <2> DEFINE m == Head(inbox["commands"])
  <2>r. /\ \A i \in 1..Len(inbox["commands"]) :
             \/ inbox["commands"][i] = m
             \/ \E j \in 1..Len(inbox'["commands"]) : inbox'["commands"][j] = inbox["commands"][i]
        /\ UNCHANGED <<pc, last_fired>> /\ progress'["autonomy"] = progress["autonomy"]
    BY <1>4, <1>t, RelayFacts
  <2>e. \/ m.kind = "sync"
        \/ m.kind = "sun" /\ since_sun' = 0
        \/ faults' = [faults EXCEPT !.event = @ + 1]
    BY <1>4 DEF Relay
  <2>f. faults' = [faults EXCEPT !.event = @ + 1] => faults'.event = faults.event + 1
    BY <1>t DEF TInv
  <2> HIDE DEF m
  <2>1. CASE m.kind = "sun" BY <2>1, <2>e, <2>f
  <2>2. CASE m.kind # "sun"
    <3>1. SunOnWay => SunOnWay' BY <2>2, <2>r DEF SunOnWay
    <3> QED BY <1>2, <2>r, <3>1
  <2> QED BY <2>1, <2>2
<1>5. ASSUME Broadcast PROVE Goal
  <2>1. /\ UNCHANGED <<inbox, last_fired>> /\ \E m : StartSend("broadcast", m)
        /\ Touch("broadcast")
    BY <1>5 DEF Broadcast
  <2>2. pc'["autonomy"] = pc["autonomy"] /\ progress'["autonomy"] = progress["autonomy"]
    BY <1>a, <1>t, <2>1 DEF StartSend, Touch
  <2>3. SunOnWay => SunOnWay' BY <2>1, <2>2 DEF SunOnWay
  <2> QED BY <1>2, <2>1, <2>2, <2>3
<1>6. ASSUME Autonomy PROVE Goal
  <2>1. pc'["autonomy"] = "send" BY <1>6, <1>a, <1>t DEF Autonomy, StartSend
  <2> QED BY <2>1 DEF SunOnWay
<1>7. ASSUME inbox'["commands"] = inbox["commands"], UNCHANGED last_fired,
             progress'["autonomy"] = progress["autonomy"], pc'["autonomy"] = pc["autonomy"]
      PROVE  Goal
  <2>1. SunOnWay => SunOnWay' BY <1>7 DEF SunOnWay
  <2> QED BY <1>2, <1>7, <2>1
<1>8. ASSUME ~Tick, ~Strikes PROVE Goal
  <2> HIDE DEF Goal
  <2> QED BY <1>3, <1>4, <1>5, <1>6, <1>7, <1>8, CalmCases
<1> QED BY <1>1, <1>8

\* A step keeps every wait within its allowance.
LEMMA KeepInvStep ==
  ASSUME Pace, Ample, SilentInv, SilentInv', HeldInv, FaultInv, KindInv, SinceInv, KeepInv,
         [Next]_vars
  PROVE  KeepInv'
<1> USE ConstantFacts
<1>t. /\ TInv /\ TInv' /\ next_sync \in 0..SyncInterval /\ next_sync' \in 0..SyncInterval
  BY Rigid DEF SilentInv, TInv, TypeOK
<1>s. /\ SinceInv'
      /\ \A b \in Boards : /\ since_sync'[b] <= since_sync[b] + 1
                           /\ Tick \/ since_sync'[b] <= since_sync[b]
      /\ since_sun' <= since_sun + 1 /\ (Tick \/ since_sun' <= since_sun)
  BY <1>t, SinceStep
<1>1. ASSUME NEW b \in Boards
      PROVE  Kept(since_sync[b], SyncInterval, next_sync, SyncOnWay(b))'
  <2> DEFINE s == since_sync[b]
             s2 == since_sync'[b]
             n == next_sync
             n2 == next_sync'
             way == SyncOnWay(b)
             way2 == SyncOnWay(b)'
  <2>1. s \in Nat /\ s2 \in Nat /\ n \in Nat /\ n2 \in 0..SyncInterval
    BY <1>s, <1>t, Rigid DEF SinceInv
  <2>2. way \in BOOLEAN /\ way2 \in BOOLEAN BY DEF SyncOnWay
  <2>3. Kept(s, SyncInterval, n, way) BY DEF KeepInv
  <2>4. s2 <= s + 1 /\ (Tick \/ s2 <= s) BY <1>s
  <2>5. /\ Calm /\ Tick => ~way /\ n2 + 1 <= n
        /\ Calm /\ ~Tick /\ ~Strikes =>
             s2 = 0 \/ way2 \/ (~way /\ n2 <= n) \/ faults'.event = faults.event + 1
    BY SyncCalm
  <2>6. (Kept(s, SyncInterval, n, way))' <=>
          IF Calm' THEN s2 <= Allow(SyncInterval)' /\ (s2 + n2 <= Allow(SyncInterval)' \/ way2)
          ELSE \E w \in 0..Disturbance' : Ends(w)' /\ s2 + w + SyncInterval <= Allow(SyncInterval)'
    BY Rigid DEF Kept
  <2> HIDE DEF s, s2, n, n2, way, way2
  <2>7. IF Calm' THEN s2 <= Allow(SyncInterval)' /\ (s2 + n2 <= Allow(SyncInterval)' \/ way2)
        ELSE \E w \in 0..Disturbance' : Ends(w)' /\ s2 + w + SyncInterval <= Allow(SyncInterval)'
    BY <2>1, <2>2, <2>3, <2>4, <2>5, KeepStep DEF Kept
  <2> QED BY <2>6, <2>7 DEF s, n, way
<1>2. Kept(since_sun, SunInterval + Second, ToFire, SunOnWay)'
  <2> DEFINE i == SunInterval + Second
             s == since_sun
             s2 == since_sun'
             n == ToFire
             n2 == ToFire'
             way == SunOnWay
             way2 == SunOnWay'
  <2>1. s \in Nat /\ s2 \in Nat /\ n \in Nat /\ n2 \in 0..i /\ i \in Nat
    <3>1. ToFire \in 0..i /\ ToFire' \in 0..i BY <1>t, ToFireFacts, ToFireFactsNext
    <3> QED BY <1>s, <3>1 DEF SinceInv
  <2>2. way \in BOOLEAN /\ way2 \in BOOLEAN BY DEF SunOnWay
  <2>3. Kept(s, i, n, way) BY DEF KeepInv
  <2>4. s2 <= s + 1 /\ (Tick \/ s2 <= s) BY <1>s
  <2>5. /\ Calm /\ Tick => ~way /\ n2 + 1 <= n
        /\ Calm /\ ~Tick /\ ~Strikes =>
             s2 = 0 \/ way2 \/ (~way /\ n2 <= n) \/ faults'.event = faults.event + 1
    BY SunCalm
  <2>6. (Kept(s, i, n, way))' <=>
          IF Calm' THEN s2 <= Allow(i)' /\ (s2 + n2 <= Allow(i)' \/ way2)
          ELSE \E w \in 0..Disturbance' : Ends(w)' /\ s2 + w + i <= Allow(i)'
    BY DEF Kept
  <2> HIDE DEF i, s, s2, n, n2, way, way2
  <2>7. IF Calm' THEN s2 <= Allow(i)' /\ (s2 + n2 <= Allow(i)' \/ way2)
        ELSE \E w \in 0..Disturbance' : Ends(w)' /\ s2 + w + i <= Allow(i)'
    BY <2>1, <2>2, <2>3, <2>4, <2>5, KeepStep DEF Kept
  <2> QED BY <2>6, <2>7 DEF s, n, way, i
<1> QED BY <1>1, <1>2, Rigid DEF KeepInv

\* The inductive invariant behind CommandsKeepComing.
ComingInv == SilentInv /\ HeldInv /\ FaultInv /\ KindInv /\ SinceInv /\ (Ample => KeepInv)

\* Every step keeps it.
LEMMA ComingStep ==
  ASSUME Pace
  PROVE  ComingInv /\ [Next]_vars => ComingInv'
<1> SUFFICES ASSUME ComingInv, [Next]_vars PROVE ComingInv' OBVIOUS
<1>1. TInv BY DEF ComingInv, SilentInv
<1>2. SilentInv' /\ HeldInv' BY SilentStep, HeldStep DEF ComingInv
<1>3. FaultInv' /\ KindInv' /\ SinceInv'
  BY <1>1, FaultInvStep, KindStep, SinceStep DEF ComingInv
<1>4. Ample => KeepInv' BY <1>2, KeepInvStep DEF ComingInv
<1>5. Ample' <=> Ample BY DEF Ample, Repair
<1> QED BY <1>2, <1>3, <1>4, <1>5 DEF ComingInv

\* At the start nobody has waited.
LEMMA ComingInit == Init => ComingInv
<1> SUFFICES ASSUME Init PROVE ComingInv OBVIOUS
<1> USE ConstantFacts
<1>1. SilentInv /\ HeldInv /\ TInv BY SilentInit, HeldInit, TInit
<1>2. FaultInv BY DEF Init, FaultInv
<1>3. KindInv BY ThreadFacts DEF Init, KindInv
<1>4. SinceInv BY DEF Init, SinceInv
<1>5. Calm BY DEF Init, Calm, Refused
<1>6. \A i \in Nat : Allow(i) \in Nat /\ i <= Allow(i)
  BY BudgetFacts DEF Init, Allow
<1>7. \A i \in Nat : \A n \in 0..i : \A way : Kept(0, i, n, way) BY <1>5, <1>6 DEF Kept
<1>8. /\ \A b \in Boards : since_sync[b] = 0
      /\ next_sync \in 0..SyncInterval /\ since_sun = 0
      /\ ToFire \in 0..SunInterval + Second /\ SunInterval + Second \in Nat
  BY <1>1, ToFireFacts DEF Init
<1>9. KeepInv BY <1>7, <1>8 DEF KeepInv
<1> QED BY <1>1, <1>2, <1>3, <1>4, <1>9 DEF ComingInv

\* Nobody waits longer than the faults that there may be allow.
LEMMA ComingBound == ComingInv => CommandsKeepComing
<1> SUFFICES ASSUME ComingInv PROVE CommandsKeepComing OBVIOUS
<1> USE ConstantFacts
<1>t. SinceInv /\ faults.event \in Nat /\ faults.stuck \in Nat
      /\ faults.event <= MaxEvents /\ faults.stuck <= MaxStuck
  BY DEF ComingInv, SilentInv, TInv, FaultInv
<1>b. \A i \in Nat : Overdue(i) = Budget(MaxEvents, MaxStuck, i) BY DEF Overdue, Budget
<1>o. \A i \in Nat : Allow(i) \in Nat /\ Overdue(i) \in Nat /\ Allow(i) <= Overdue(i)
  <2> SUFFICES ASSUME NEW i \in Nat
               PROVE  Allow(i) \in Nat /\ Overdue(i) \in Nat /\ Allow(i) <= Overdue(i)
    OBVIOUS
  <2>1. /\ Budget(faults.event, faults.stuck, i) \in Nat
        /\ Budget(MaxEvents, MaxStuck, i) \in Nat
    BY <1>t, BudgetFacts
  <2>2. Budget(faults.event, faults.stuck, i) <= Budget(MaxEvents, MaxStuck, i)
    BY <1>t, BudgetGrows
  <2> QED BY <1>b, <2>1, <2>2 DEF Allow
<1>i. SyncInterval \in Nat /\ SunInterval + Second \in Nat OBVIOUS
<1>1. CASE Ample
  <2>1. ASSUME NEW s \in Nat, NEW i \in Nat, NEW n \in Nat, NEW way, Kept(s, i, n, way)
        PROVE  s <= Overdue(i)
    <3>1. Disturbance \in Nat BY BudgetFacts
    <3>2. s <= Allow(i)
      <4>1. CASE Calm BY <2>1, <4>1 DEF Kept
      <4>2. CASE ~Calm
        <5>1. PICK w \in 0..Disturbance : s + w + i <= Allow(i) BY <2>1, <4>2 DEF Kept
        <5>2. Allow(i) \in Nat BY <1>o
        <5> QED BY <3>1, <5>1, <5>2
      <4> QED BY <4>1, <4>2
    <3>3. Allow(i) \in Nat /\ Overdue(i) \in Nat /\ Allow(i) <= Overdue(i) BY <1>o
    <3> QED BY <3>2, <3>3
  <2>2. /\ next_sync \in Nat /\ ToFire \in Nat /\ since_sun \in Nat
        /\ \A b \in Boards : since_sync[b] \in Nat
    <3>1. TInv BY DEF ComingInv, SilentInv
    <3>2. next_sync \in 0..SyncInterval /\ ToFire \in 0..SunInterval + Second
      BY <3>1, ToFireFacts DEF TInv, TypeOK
    <3> QED BY <1>t, <3>2 DEF SinceInv
  <2>3. KeepInv BY <1>1 DEF ComingInv
  <2> QED BY <1>i, <2>1, <2>2, <2>3 DEF KeepInv, CommandsKeepComing
<1>2. CASE ~Ample
  <2>1. MaxAge <= Repair /\ 1 <= MaxStuck BY <1>2, RepairFacts DEF Ample
  <2>2. ASSUME NEW i \in Nat PROVE Overdue(i) \in Nat /\ MaxAge <= Overdue(i)
    <3>1. Budget(0, 1, i) = Budget(0, 0, i) + i + Disturbance /\ Budget(0, 0, i) \in Nat
      <4>1. 0 \in Nat /\ 0 + 1 = 1 OBVIOUS
      <4> QED BY <4>1, BudgetFacts
    <3>2. Budget(0, 1, i) <= Overdue(i)
      <4>1. 0 \in Nat /\ 1 \in Nat /\ 0 <= MaxEvents OBVIOUS
      <4>2. Budget(0, 1, i) <= Budget(MaxEvents, MaxStuck, i) BY <2>1, <4>1, BudgetGrows
      <4> QED BY <1>b, <4>2
    <3>3. MaxAge <= Disturbance /\ Disturbance \in Nat BY <2>1, RepairFacts DEF Disturbance
    <3>4. Overdue(i) \in Nat BY <1>o
    <3> QED BY <3>1, <3>2, <3>3, <3>4
  <2>3. /\ \A b \in Boards : since_sync[b] \in 0..MaxAge
        /\ since_sun \in 0..MaxAge
    BY <1>t DEF SinceInv
  <2>4. \A i, s \in Nat : s <= MaxAge => s <= Overdue(i) BY <2>2
  <2> QED BY <1>i, <2>3, <2>4 DEF CommandsKeepComing
<1> QED BY <1>1, <1>2

\* When a second is at least two ticks and shorter than the time-outs, every board's clock
\* is set again and sun commands reach ADCS within the interval, one more for each event,
\* and for each stuck or failing thread one more after the time until everybody works again.  It
\* holds for any number of faults, any intervals and any backlog, although a restart drops
\* what waited at the role's socket and autonomy counts it as sent (relay.c, time_sync.c,
\* autonomy.c, obc_ipc.c).
THEOREM KeepTheorem ==
  ASSUME Pace
  PROVE  Spec => []CommandsKeepComing
BY ComingInit, ComingStep, ComingBound, PTL DEF Spec
=============================================================================
