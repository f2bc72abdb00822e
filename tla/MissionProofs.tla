----------------------------- MODULE MissionProofs -----------------------------
(***************************************************************************)
(* Proofs about Mission, for any sizes of the photo, its buffer, the       *)
(* batches and the sockets, and any number of records, cycles and faults.  *)
(***************************************************************************)
EXTENDS Mission, FiniteSetTheorems, TLAPS

-----------------------------------------------------------------------------
(***************************************************************************)
(* Constants and sequences.                                                *)
(***************************************************************************)
\* The sizes and bounds are numbers, and a length is never that of a torn record.
LEMMA LimitFacts ==
  /\ PhotoChunks \in Nat /\ PhotoCap \in Nat /\ RetryLimit \in Nat /\ BatchLimit \in Nat
  /\ Backlog \in Nat /\ PhotoChunks > 0 /\ PhotoCap > 0 /\ RetryLimit > 0
  /\ BatchLimit > 0 /\ Backlog > 0
  /\ MaxRecords \in Nat /\ MaxCycles \in Nat /\ MaxFaults \in Nat
  /\ Lost \in Nat /\ Lost = MaxRecords + 1 /\ Inside \in Nat /\ Inside = MaxRecords + 2
  /\ Lengths \subseteq Nat \ {0} /\ Torn = 0 /\ Torn \notin Lengths
  BY LimitsAssumption, BoundsAssumption DEF Lost, Inside, Torn

\* The head and the rest of a sequence.
LEMMA TailFacts ==
  ASSUME NEW S, NEW q \in Seq(S), q # <<>>
  PROVE  /\ Head(q) \in S /\ Head(q) = q[1] /\ Tail(q) \in Seq(S)
         /\ Len(q) \in Nat /\ Len(q) > 0 /\ Len(Tail(q)) = Len(q) - 1
         /\ \A i \in 1..Len(Tail(q)) : Tail(q)[i] = q[i + 1] /\ i + 1 \in 1..Len(q)
  OBVIOUS

\* A sequence and one element more.
LEMMA AppendFacts ==
  ASSUME NEW S, NEW q \in Seq(S), NEW x \in S
  PROVE  /\ Append(q, x) \in Seq(S) /\ Len(q) \in Nat /\ Len(Append(q, x)) = Len(q) + 1
         /\ \A i \in 1..Len(q) : Append(q, x)[i] = q[i]
         /\ Append(q, x)[Len(q) + 1] = x
         /\ \A i \in 1..Len(Append(q, x)) : i \in 1..Len(q) \/ i = Len(q) + 1
  OBVIOUS

\* The fields of a message.
LEMMA MessageFacts ==
  ASSUME NEW m \in Message
  PROVE  /\ m.kind \in {"result", "chunk", "record"} /\ m.id \in Nat /\ m.n \in Nat
         /\ m.of \in Nat /\ m.next \in Nat /\ m.end \in BOOLEAN /\ m # Nothing
  BY DEF Message, Nothing

\* A job that compute answered is no longer among its jobs.
LEMMA RemoveFacts ==
  ASSUME NEW q \in Seq(Nat), NEW i \in 1..Len(q)
  PROVE  RemoveAt(q, i) \in Seq(Nat)
<1>1. SubSeq(q, 1, i - 1) \in Seq(Nat) OBVIOUS
<1>2. SubSeq(q, i + 1, Len(q)) \in Seq(Nat) OBVIOUS
<1> QED BY <1>1, <1>2 DEF RemoveAt

-----------------------------------------------------------------------------
(***************************************************************************)
(* The types.  A batch goes on only below its limit; an answer about a     *)
(* record names a record of the log, and where the next one begins; and    *)
(* the log and the records on their way to it are no more than arrived.    *)
(***************************************************************************)
BelowLimit == mpc \in {"request", "record"} => sentInBatch < BatchLimit

Appends(q) == {i \in 1..Len(q) : q[i].kind = "append"}

LogInv == Len(log) + Cardinality(Appends(dataInbox)) <= arrived

RequestInv ==
  \A i \in 1..Len(dataInbox) :
    /\ dataInbox[i].kind = "append" => dataInbox[i].id \in Lengths
    /\ dataInbox[i].kind = "record" => dataInbox[i].id \in 0..Inside

\* An answer with a part of a record: its length and the next offset are those of
\* the log, unless the record was cut off.
GenuineIn(m, l) ==
  m.kind = "record" /\ m.n > 0 =>
    /\ m.id < Len(l) /\ m.n <= m.of
    /\ m.next \in Nat /\ m.id < m.next /\ m.next <= Lost
    /\ l[m.id + 1] # Torn => m.of = l[m.id + 1] /\ m.next = m.id + 1

AnswerInv == /\ GenuineIn(stream, log)
             /\ \A i \in 1..Len(inbox) : GenuineIn(inbox[i], log)

TInv == TypeOK /\ BelowLimit /\ LogInv /\ RequestInv /\ AnswerInv

\* What the types say of the scheduler's numbers.
LEMMA SchedulerFacts ==
  ASSUME TypeOK
  PROVE  /\ telemetry_cursor \in Nat /\ telemetry_cursor <= Inside
         /\ sentInBatch \in Nat /\ retry_count \in Nat /\ retry_count < RetryLimit
         /\ inbox \in Seq(Message) /\ got \in Seq(Message) /\ dataInbox \in Seq(Request)
         /\ log \in Seq(Lengths \cup {Torn}) /\ Len(log) \in Nat /\ Len(got) \in Nat
         /\ Len(inbox) \in Nat /\ Len(dataInbox) \in Nat
         /\ radio \in Seq(Seq(Message)) /\ Len(radio) \in Nat
         /\ faults \in Nat /\ arrived \in Nat /\ arrived <= MaxRecords
         /\ stream = Nothing \/ stream \in Message
  BY LimitFacts DEF TypeOK, TypeScheduler, TypeAnswers, TypeData

\* The message the scheduler thread receives, and what is left.
LEMMA InboxFacts ==
  ASSUME TInv, inbox # <<>>
  PROVE  /\ Head(inbox) \in Message /\ GenuineIn(Head(inbox), log)
         /\ Tail(inbox) \in Seq(Message) /\ Len(Tail(inbox)) <= Backlog
         /\ \A i \in 1..Len(Tail(inbox)) : GenuineIn(Tail(inbox)[i], log)
<1>1. inbox \in Seq(Message) /\ Len(inbox) <= Backlog /\ Backlog \in Nat
  BY LimitFacts DEF TInv, TypeOK, TypeAnswers
<1>2. /\ Head(inbox) \in Message /\ Head(inbox) = inbox[1]
      /\ Tail(inbox) \in Seq(Message)
      /\ Len(inbox) \in Nat /\ Len(inbox) > 0 /\ Len(Tail(inbox)) = Len(inbox) - 1
      /\ \A i \in 1..Len(Tail(inbox)) : Tail(inbox)[i] = inbox[i + 1] /\ i + 1 \in 1..Len(inbox)
  BY <1>1, TailFacts
<1>3. GenuineIn(inbox[1], log) BY <1>2 DEF TInv, AnswerInv
<1> QED BY <1>1, <1>2, <1>3 DEF TInv, AnswerInv

\* Who counts.
LEMMA CountsFrame ==
  [Next]_vars =>
    UNCHANGED counts \/ Fault \/ (AnyFault /\ cuts' = cuts + 1) \/ AwaitCycle \/
    ForwardTelemetry
  BY DEF Next, MissionStep, DataStep, vars, statics, answer, batch, data, counts,
    Load, Save, TakePhoto, RequestCompression, ReceiveResult, RequestPhoto,
    ReceiveChunk, NotDue, BeginBatch, RequestRecord, ReceiveRecord, TimesOut, Restart,
    DataReceive, DataSend, DataGivesUp, DataRestarts, DataDies, NewData, ComputeAnswers, Transmit

\* Only ReceiveRecord hands a record to the radio.
LEMMA RadioFrame ==
  [Next]_vars =>
    UNCHANGED <<radio, sentInBatch, telemetry_cursor>> \/ ReceiveRecord \/ Load \/
    BeginBatch \/ Restart
  BY DEF Next, MissionStep, DataStep, vars, statics, answer, batch, data, counts,
    Save, AwaitCycle, TakePhoto, RequestCompression, ReceiveResult, RequestPhoto,
    ReceiveChunk, NotDue, RequestRecord, TimesOut, DataReceive, DataSend, DataGivesUp,
    DataRestarts, DataDies, NewData, ComputeAnswers, ForwardTelemetry, SetState, StepFails

\* Only data writes the log.
LEMMA LogFrame ==
  [Next]_vars =>
    UNCHANGED log \/ DataReceive
  BY DEF Next, MissionStep, DataStep, vars, statics, answer, batch, data, counts,
    Load, Save, AwaitCycle, TakePhoto, RequestCompression, ReceiveResult,
    RequestPhoto, ReceiveChunk, NotDue, BeginBatch, RequestRecord, ReceiveRecord,
    TimesOut, Restart, DataSend, DataGivesUp, DataRestarts, DataDies, NewData, ComputeAnswers,
    ForwardTelemetry

\* Who sends data a request, and who takes it.
LEMMA RequestsFrame ==
  [Next]_vars =>
    UNCHANGED dataInbox \/ RequestPhoto \/ RequestRecord \/ DataReceive \/
    DataRestarts \/ DataDies \/ ForwardTelemetry
  BY DEF Next, MissionStep, DataStep, vars, statics, answer, batch, data, counts,
    Load, Save, AwaitCycle, TakePhoto, RequestCompression, ReceiveResult,
    ReceiveChunk, NotDue, BeginBatch, ReceiveRecord, TimesOut, Restart, DataSend,
    DataGivesUp, ComputeAnswers

\* Only data has the next message of an answer.
LEMMA StreamFrame ==
  [Next]_vars =>
    UNCHANGED stream \/ DataReceive \/ DataSend \/ DataGivesUp \/ DataRestarts \/ DataDies
  BY DEF Next, MissionStep, DataStep, vars, statics, answer, batch, data, counts,
    Load, Save, AwaitCycle, TakePhoto, RequestCompression, ReceiveResult,
    RequestPhoto, ReceiveChunk, NotDue, BeginBatch, RequestRecord, ReceiveRecord,
    TimesOut, Restart, ComputeAnswers, ForwardTelemetry

\* Who writes and who reads mission's socket.
LEMMA InboxFrame ==
  [Next]_vars =>
    UNCHANGED inbox \/ ReceiveResult \/ ReceiveChunk \/ ReceiveRecord \/ Restart \/
    DataSend \/ ComputeAnswers
  BY DEF Next, MissionStep, DataStep, vars, statics, answer, batch, data, counts,
    Load, Save, AwaitCycle, TakePhoto, RequestCompression, RequestPhoto, NotDue,
    BeginBatch, RequestRecord, TimesOut, DataReceive, DataGivesUp, DataRestarts, DataDies, NewData,
    ForwardTelemetry

\* Who changes what was received.
LEMMA GotFrame ==
  [Next]_vars =>
    UNCHANGED <<got, mpc>> \/ Load \/ Save \/ AwaitCycle \/ TakePhoto \/
    RequestCompression \/ ReceiveResult \/ RequestPhoto \/ ReceiveChunk \/ NotDue \/
    BeginBatch \/ RequestRecord \/ ReceiveRecord \/ TimesOut \/ Restart
  BY DEF Next, MissionStep, DataStep, vars, statics, answer, batch, data, counts,
    DataReceive, DataSend, DataGivesUp, DataRestarts, DataDies, NewData, ComputeAnswers, ForwardTelemetry

\* Only Save writes the state file.
LEMMA FileFrame ==
  [Next]_vars =>
    UNCHANGED state_file \/ Save
  BY DEF Next, MissionStep, DataStep, vars, statics, answer, batch, data, counts,
    Load, AwaitCycle, TakePhoto, RequestCompression, ReceiveResult, RequestPhoto,
    ReceiveChunk, NotDue, BeginBatch, RequestRecord, ReceiveRecord, TimesOut, Restart,
    DataReceive, DataSend, DataGivesUp, DataRestarts, DataDies, NewData, ComputeAnswers, ForwardTelemetry

\* The end of a phase step, failed or not.
LEMMA PhaseFacts ==
  ASSUME TypeOK, StepFails \/ (\E p \in Phases : SetState(p))
  PROVE  /\ phase' \in Phases /\ retry_count' \in 0..(RetryLimit - 1)
         /\ telemetry_cursor' = telemetry_cursor /\ mpc' \in {"savePhase", "telemetry"}
<1> USE LimitFacts DEF TypeOK, TypeScheduler
<1>1. CASE \E p \in Phases : SetState(p) BY <1>1 DEF SetState
<1>2. CASE retry_count + 1 >= RetryLimit /\ SetState("cooldown")
  BY <1>2 DEF SetState, Phases
<1>3. CASE /\ retry_count + 1 < RetryLimit
           /\ retry_count' = retry_count + 1 /\ mpc' = "telemetry"
           /\ UNCHANGED <<phase, telemetry_cursor>>
  BY <1>3
<1> QED BY <1>1, <1>2, <1>3 DEF StepFails

\* What a received message does to the batch.
LEMMA RecordFacts ==
  ASSUME TInv, ReceiveRecord
  PROVE  /\ telemetry_cursor' \in 0..Inside /\ sentInBatch' \in 0..BatchLimit
         /\ mpc' \in {"record", "saveBatch", "phase", "request"}
         /\ mpc' \in {"record", "request"} => sentInBatch' < BatchLimit
<1> DEFINE m == Head(inbox)
<1> USE SchedulerFacts, LimitFacts DEF TInv
<1>1. m \in Message /\ GenuineIn(m, log) BY InboxFacts DEF ReceiveRecord
<1>2. sentInBatch < BatchLimit BY DEF ReceiveRecord, BelowLimit
<1>3. \/ m.kind = "record" /\ m.n > 0 /\ Transmit(m)
      \/ /\ UNCHANGED <<telemetry_cursor, sentInBatch>>
         /\ mpc' = mpc \/ EndBatch(telemetry_cursor)
  BY DEF ReceiveRecord
<1>4. CASE /\ UNCHANGED <<telemetry_cursor, sentInBatch>>
           /\ mpc' = mpc \/ EndBatch(telemetry_cursor)
  BY <1>2, <1>4 DEF ReceiveRecord, EndBatch, TypeOK, TypeScheduler
<1>5. CASE m.kind = "record" /\ m.n > 0 /\ Transmit(m)
  <2>1. m.next \in 0..Inside BY <1>1, <1>5 DEF GenuineIn
  <2>2. CASE /\ telemetry_cursor' = m.next /\ sentInBatch' = sentInBatch + 1
             /\ IF m.end \/ sentInBatch + 1 = BatchLimit
                THEN EndBatch(m.next) ELSE mpc' = "request"
    BY <1>2, <2>1, <2>2, SMTT(30) DEF EndBatch
  <2>3. CASE /\ EndBatch(telemetry_cursor)
             /\ UNCHANGED <<telemetry_cursor, sentInBatch>>
    BY <1>2, <2>3 DEF EndBatch, TypeOK, TypeScheduler
  <2> QED BY <1>5, <2>2, <2>3 DEF Transmit
<1> QED BY <1>3, <1>4, <1>5

\* A file that was cut short is not valid, or has the phase and a cursor that is
\* missing, points to an earlier record or into one.
LEMMA CutFacts ==
  ASSUME TypeOK, NEW f \in CutShort
  PROVE  \/ f = NoFile
         \/ /\ f \in [phase : Phases, cursor : -1..Inside]
            /\ \/ f.cursor \in {-1, Inside}
               \/ f.cursor <= telemetry_cursor /\ telemetry_cursor # Inside
<1>1. telemetry_cursor \in 0..Inside /\ phase \in Phases /\ Inside \in Nat /\ NoCursor = -1
  BY LimitFacts DEF TypeOK, TypeScheduler, NoCursor
<1>2. CASE telemetry_cursor = Inside BY <1>1, <1>2 DEF CutShort
<1>3. CASE telemetry_cursor # Inside BY <1>1, <1>3 DEF CutShort
<1> QED BY <1>2, <1>3

\* The scheduler keeps its types.
LEMMA SchedulerStep == TInv /\ [Next]_vars => TypeScheduler'
<1> SUFFICES ASSUME TInv, [Next]_vars PROVE TypeScheduler'
  OBVIOUS
<1> USE SchedulerFacts, LimitFacts DEF TInv
<1>1. CASE Load
  BY <1>1 DEF Load, answer, batch, data, counts, TypeOK, TypeScheduler, Phases, Waits,
     Saves, NoFile, NoCursor
<1>2. CASE Save
  <2>1. state_file' = NoFile \/ state_file' \in [phase : Phases, cursor : -1..Inside]
    BY <1>2, CutFacts DEF Save, TypeOK, TypeScheduler
  <2> QED BY <1>2, <2>1 DEF Save, AfterSave, statics, batch, TypeOK, TypeScheduler, Waits,
        Saves
<1>3. CASE AwaitCycle
  BY <1>3 DEF AwaitCycle, SetState, statics, answer, batch, data, counts, TypeOK,
     TypeScheduler, Phases, Waits, Saves
<1>4. CASE TakePhoto
  BY <1>4 DEF TakePhoto, SetState, StepFails, answer, batch, data, counts, TypeOK,
     TypeScheduler, Phases, Waits, Saves
<1>5. CASE RequestCompression
  BY <1>5 DEF RequestCompression, Fault, AnyFault, statics, answer, batch, data, counts, TypeOK,
     TypeScheduler, Phases, Waits, Saves
<1>6. CASE ReceiveResult
  <2>1. UNCHANGED <<state_file, next_job_id, sentInBatch, cursor_before_batch>>
    BY <1>6 DEF ReceiveResult, batch
  <2>2. UNCHANGED <<statics, mpc>> \/ StepFails \/ (\E p \in Phases : SetState(p))
    BY <1>6 DEF ReceiveResult, Phases
  <2> QED BY <2>1, <2>2, PhaseFacts DEF statics, TypeOK, TypeScheduler, Waits, Saves
<1>7. CASE RequestPhoto
  BY <1>7 DEF RequestPhoto, Fault, AnyFault, statics, batch, counts, TypeOK, TypeScheduler,
     Phases, Waits, Saves
<1>8. CASE ReceiveChunk
  <2>1. UNCHANGED <<state_file, next_job_id, sentInBatch, cursor_before_batch>>
    BY <1>8 DEF ReceiveChunk, batch
  <2>2. UNCHANGED <<statics, mpc>> \/ StepFails \/ (\E p \in Phases : SetState(p))
    BY <1>8 DEF ReceiveChunk, Phases
  <2> QED BY <2>1, <2>2, PhaseFacts DEF statics, TypeOK, TypeScheduler, Waits, Saves
<1>9. CASE NotDue
  BY <1>9 DEF NotDue, statics, answer, batch, data, counts, TypeOK, TypeScheduler,
     Phases, Waits, Saves
<1>10. CASE BeginBatch
  BY <1>10 DEF BeginBatch, statics, answer, data, counts, TypeOK, TypeScheduler,
     Phases, Waits, Saves
<1>11. CASE RequestRecord
  BY <1>11 DEF RequestRecord, EndBatch, Fault, AnyFault, statics, batch, counts, TypeOK,
     TypeScheduler, Phases, Waits, Saves
<1>12. CASE ReceiveRecord
  BY <1>12, RecordFacts DEF ReceiveRecord, TypeOK, TypeScheduler, Waits, Saves
<1>13. CASE TimesOut
  BY <1>13, SMTT(30) DEF TimesOut, EndBatch, StepFails, SetState, Fault, AnyFault, statics, answer, batch,
     data, counts, TypeOK, TypeScheduler, Phases, Waits, Saves
<1>14. CASE Restart
  BY <1>14 DEF Restart, Fault, AnyFault, data, TypeOK, TypeScheduler, Phases, Waits, Saves
<1>15. CASE DataReceive
  BY <1>15 DEF DataReceive, Fault, AnyFault, statics, answer, batch, counts, TypeOK,
     TypeScheduler, Phases, Waits, Saves
<1>16. CASE DataSend
  BY <1>16 DEF DataSend, statics, batch, counts, TypeOK, TypeScheduler, Phases, Waits,
     Saves
<1>17. CASE DataGivesUp
  BY <1>17 DEF DataGivesUp, Fault, AnyFault, statics, answer, batch, TypeOK, TypeScheduler,
     Phases, Waits, Saves
<1>18. CASE DataRestarts \/ DataDies
  BY <1>18 DEF DataRestarts, DataDies, NewData, Fault, AnyFault, statics, answer, batch, counts, TypeOK,
     TypeScheduler, Phases, Waits, Saves
<1>19. CASE ComputeAnswers
  BY <1>19 DEF ComputeAnswers, statics, batch, data, counts, TypeOK, TypeScheduler,
     Phases, Waits, Saves
<1>20. CASE ForwardTelemetry
  BY <1>20 DEF ForwardTelemetry, statics, answer, batch, TypeOK, TypeScheduler,
     Phases, Waits, Saves
<1>21. CASE UNCHANGED vars
  BY <1>21 DEF vars, statics, answer, batch, data, counts, TypeOK, TypeScheduler,
     Phases, Waits, Saves
<1> QED BY <1>1, <1>2, <1>3, <1>4, <1>5, <1>6, <1>7, <1>8, <1>9, <1>10, <1>11, <1>12,
        <1>13, <1>14, <1>15, <1>16, <1>17, <1>18, <1>19, <1>20, <1>21 DEF Next,
        MissionStep, DataStep


\* What was received keeps its type.
LEMMA GotStep ==
  TInv /\ [Next]_vars =>
    got' \in Seq(Message) /\ (mpc' = "chunks" => Len(got') <= PhotoCap)
<1> SUFFICES ASSUME TInv, [Next]_vars
             PROVE  /\ got' \in Seq(Message)
                    /\ mpc' = "chunks" => Len(got') <= PhotoCap
  OBVIOUS
<1> USE SchedulerFacts, LimitFacts DEF TInv
<1>1. CASE UNCHANGED <<got, mpc>> BY <1>1 DEF TypeOK, TypeAnswers
<1>2. CASE Load \/ Save \/ AwaitCycle \/ TakePhoto \/ RequestCompression \/ NotDue
           \/ BeginBatch
  BY <1>2 DEF Load, Save, AfterSave, AwaitCycle, TakePhoto, RequestCompression, NotDue,
              BeginBatch, SetState, StepFails, answer
<1>3. CASE ReceiveResult \/ TimesOut
  BY <1>3 DEF ReceiveResult, TimesOut, SetState, StepFails, EndBatch, answer,
              TypeOK, TypeAnswers
<1>4. CASE RequestPhoto \/ RequestRecord \/ Restart
  <2>1. got' = <<>> BY <1>4 DEF RequestPhoto, RequestRecord, Restart
  <2> QED BY <2>1
<1>5. CASE ReceiveChunk
  <2>1. Head(inbox) \in Message BY <1>5, InboxFacts DEF ReceiveChunk
  <2>2. CASE UNCHANGED got /\ mpc' \in {"chunks", "savePhase", "telemetry"}
    BY <1>5, <2>2 DEF ReceiveChunk, TypeOK, TypeAnswers
  <2>3. CASE got' = Append(got, Head(inbox)) /\ Len(got) < PhotoCap
    <3>1. Append(got, Head(inbox)) \in Seq(Message)
          /\ Len(Append(got, Head(inbox))) = Len(got) + 1
      BY <2>1, AppendFacts
    <3> QED BY <2>3, <3>1
  <2> QED BY <1>5, <2>2, <2>3 DEF ReceiveChunk, StepFails, SetState
<1>6. CASE ReceiveRecord
  <2>1. Head(inbox) \in Message BY <1>6, InboxFacts DEF ReceiveRecord
  <2>2. mpc' # "chunks" BY <1>6, RecordFacts
  <2>3. got' = got \/ got' = Append(got, Head(inbox)) BY <1>6 DEF ReceiveRecord
  <2>4. Append(got, Head(inbox)) \in Seq(Message) BY <2>1, AppendFacts
  <2> QED BY <2>2, <2>3, <2>4
<1> QED BY <1>1, <1>2, <1>3, <1>4, <1>5, <1>6, GotFrame

\* A message that data or compute sends fits into mission's socket.
LEMMA InboxPush ==
  ASSUME TInv, NEW m \in Message, GenuineIn(m, log), Room(inbox), inbox' = Append(inbox, m)
  PROVE  /\ inbox' \in Seq(Message) /\ Len(inbox') <= Backlog
         /\ \A i \in 1..Len(inbox') : GenuineIn(inbox'[i], log)
<1> USE SchedulerFacts, LimitFacts DEF TInv
<1>1. /\ Append(inbox, m) \in Seq(Message) /\ Len(Append(inbox, m)) = Len(inbox) + 1
      /\ \A i \in 1..Len(inbox) : Append(inbox, m)[i] = inbox[i]
      /\ Append(inbox, m)[Len(inbox) + 1] = m
      /\ \A i \in 1..Len(Append(inbox, m)) : i \in 1..Len(inbox) \/ i = Len(inbox) + 1
  BY AppendFacts
<1>2. Len(inbox) + 1 <= Backlog BY DEF Room
<1>3. ASSUME NEW i \in 1..Len(inbox') PROVE GenuineIn(inbox'[i], log)
  <2>1. CASE i \in 1..Len(inbox) BY <1>1, <2>1 DEF AnswerInv
  <2>2. CASE i = Len(inbox) + 1 BY <1>1, <2>2
  <2> QED BY <1>1, <1>3, <2>1, <2>2
<1> QED BY <1>1, <1>2, <1>3

\* Data's message, as it is sent.
LEMMA ReplyFacts ==
  ASSUME TInv, stream # Nothing
  PROVE  /\ Reply \in Message /\ GenuineIn(Reply, log)
         /\ stream \in Message
<1>1. stream \in Message BY DEF TInv, TypeOK, TypeData
<1> DEFINE e == stream.end /\ stream.n \in {0, stream.of}
<1>2. e \in BOOLEAN OBVIOUS
<1>3. Reply = [stream EXCEPT !.end = e] BY <1>1 DEF Reply, Message
<1> HIDE DEF e
<1>4. Reply \in Message BY <1>1, <1>2, <1>3 DEF Message
<1>5. /\ Reply.kind = stream.kind /\ Reply.id = stream.id /\ Reply.n = stream.n
      /\ Reply.of = stream.of /\ Reply.next = stream.next
  BY <1>1, <1>3 DEF Message
<1>6. GenuineIn(stream, log) BY DEF TInv, AnswerInv
<1> QED BY <1>1, <1>4, <1>5, <1>6 DEF GenuineIn

\* Compute's answer.
LEMMA ResultFacts ==
  ASSUME TInv, NEW id \in Nat, NEW ok \in {0, 1}
  PROVE  LET m == [Nothing EXCEPT !.kind = "result", !.id = id, !.n = ok] IN
         m \in Message /\ GenuineIn(m, log)
<1> DEFINE m == [Nothing EXCEPT !.kind = "result", !.id = id, !.n = ok]
<1>1. ok \in Nat OBVIOUS
<1>2. \A x, y \in Nat :
        [Nothing EXCEPT !.kind = "result", !.id = x, !.n = y] \in Message
  BY DEF Message, Nothing
<1>3. m \in Message BY <1>1, <1>2
<1>4. m.kind = "result" BY DEF Nothing
<1> QED BY <1>3, <1>4 DEF GenuineIn

\* Mission's socket keeps its types, and every answer on it is genuine.
LEMMA InboxStep ==
  TInv /\ [Next]_vars => /\ inbox' \in Seq(Message) /\ Len(inbox') <= Backlog
                         /\ \A i \in 1..Len(inbox') : GenuineIn(inbox'[i], log)
<1> SUFFICES ASSUME TInv, [Next]_vars
             PROVE  /\ inbox' \in Seq(Message) /\ Len(inbox') <= Backlog
                    /\ \A i \in 1..Len(inbox') : GenuineIn(inbox'[i], log)
  OBVIOUS
<1> USE SchedulerFacts, LimitFacts DEF TInv
<1>1. CASE UNCHANGED inbox BY <1>1 DEF TypeOK, TypeAnswers, AnswerInv
<1>2. CASE ReceiveResult \/ ReceiveChunk \/ ReceiveRecord
  <2>1. inbox # <<>> /\ inbox' = Tail(inbox)
    BY <1>2 DEF ReceiveResult, ReceiveChunk, ReceiveRecord
  <2> QED BY <2>1, InboxFacts
<1>3. CASE Restart
  <2>1. inbox' = <<>> BY <1>3 DEF Restart
  <2> QED BY <2>1
<1>4. CASE DataSend BY <1>4, ReplyFacts, InboxPush DEF DataSend
<1>5. CASE ComputeAnswers
  <2>1. PICK i \in 1..Len(compute) : \E ok \in {0, 1} :
          inbox' = Append(inbox, [Nothing EXCEPT !.kind = "result",
                                                 !.id = compute[i], !.n = ok])
    BY <1>5 DEF ComputeAnswers
  <2>2. PICK ok \in {0, 1} :
          inbox' = Append(inbox, [Nothing EXCEPT !.kind = "result",
                                                 !.id = compute[i], !.n = ok])
    BY <2>1
  <2>3. compute[i] \in Nat
    <3>1. compute \in Seq(Nat) BY DEF TypeOK, TypeAnswers
    <3> QED BY <3>1, SMTT(30)
  <2> DEFINE m == [Nothing EXCEPT !.kind = "result", !.id = compute[i], !.n = ok]
  <2>4. m \in Message /\ GenuineIn(m, log) BY <2>3, ResultFacts
  <2>5. Room(inbox) BY <1>5 DEF ComputeAnswers
  <2> HIDE DEF m
  <2> QED BY <2>2, <2>4, <2>5, InboxPush DEF m
<1> QED BY <1>1, <1>2, <1>3, <1>4, <1>5, InboxFrame

\* Compute's jobs keep their type.
LEMMA ComputeStep == TInv /\ [Next]_vars => compute' \in Seq(Nat)
<1> SUFFICES ASSUME TInv, [Next]_vars PROVE compute' \in Seq(Nat) OBVIOUS
<1>1. compute \in Seq(Nat) /\ next_job_id \in Nat
  BY DEF TInv, TypeOK, TypeAnswers, TypeScheduler
<1>2. CASE RequestCompression BY <1>1, <1>2, AppendFacts DEF RequestCompression
<1>3. CASE ComputeAnswers BY <1>1, <1>3, RemoveFacts DEF ComputeAnswers
<1>4. CASE UNCHANGED compute BY <1>1, <1>4
<1>5. UNCHANGED compute \/ RequestCompression \/ ComputeAnswers
  BY DEF Next, MissionStep, DataStep, vars, Load, Save, AwaitCycle, TakePhoto,
         ReceiveResult, RequestPhoto, ReceiveChunk, NotDue, BeginBatch, RequestRecord,
         ReceiveRecord, TimesOut, Restart, DataReceive, DataSend, DataGivesUp,
         DataRestarts, DataDies, NewData, ForwardTelemetry
<1> QED BY <1>2, <1>3, <1>4, <1>5

\* The requests for the log among data's requests, counted.
LEMMA AppendsFinite ==
  ASSUME NEW q \in Seq(Request)
  PROVE  IsFiniteSet(Appends(q)) /\ Cardinality(Appends(q)) \in Nat
<1>1. IsFiniteSet(1..Len(q)) BY FS_Interval
<1>2. Appends(q) \subseteq 1..Len(q) BY DEF Appends
<1> QED BY <1>1, <1>2, FS_Subset, FS_CardinalityType

\* One request more.
LEMMA AppendsPush ==
  ASSUME NEW q \in Seq(Request), NEW r \in Request
  PROVE  /\ r.kind # "append" =>
              Cardinality(Appends(Append(q, r))) = Cardinality(Appends(q))
         /\ Cardinality(Appends(Append(q, r))) <= Cardinality(Appends(q)) + 1
<1> DEFINE A == Appends(q)
           B == Appends(Append(q, r))
<1>1. IsFiniteSet(A) /\ Cardinality(A) \in Nat BY AppendsFinite
<1>2. /\ Len(q) \in Nat /\ Len(Append(q, r)) = Len(q) + 1
      /\ \A i \in 1..Len(q) : Append(q, r)[i] = q[i]
      /\ Append(q, r)[Len(q) + 1] = r
  BY AppendFacts
<1>3. r.kind = "append" => B = A \cup {Len(q) + 1} BY <1>2 DEF Appends
<1>4. r.kind # "append" => B = A BY <1>2 DEF Appends
<1> HIDE DEF A, B
<1> DEFINE x == Len(q) + 1
<1> HIDE DEF x
<1>5. Cardinality(A \cup {x}) = IF x \in A THEN Cardinality(A) ELSE Cardinality(A) + 1
  BY <1>1, FS_AddElement
<1>6. Cardinality(A \cup {x}) <= Cardinality(A) + 1 BY <1>1, <1>5
<1>7. CASE r.kind = "append" BY <1>3, <1>6, <1>7 DEF A, B, x
<1>8. CASE r.kind # "append"
  <2>1. Cardinality(B) = Cardinality(A) BY <1>4, <1>8
  <2>2. Cardinality(B) <= Cardinality(A) + 1 BY <1>1, <2>1
  <2> QED BY <2>1, <2>2 DEF A, B
<1> QED BY <1>7, <1>8

\* One request less.
LEMMA AppendsTail ==
  ASSUME NEW q \in Seq(Request), q # <<>>
  PROVE  /\ Cardinality(Appends(Tail(q))) <= Cardinality(Appends(q))
         /\ Head(q).kind = "append" =>
              Cardinality(Appends(Tail(q))) <= Cardinality(Appends(q)) - 1
<1> DEFINE A == Appends(q)
           B == Appends(Tail(q))
           f == [i \in B |-> i + 1]
<1>1. IsFiniteSet(A) /\ Cardinality(A) \in Nat BY AppendsFinite
<1>2. /\ Head(q) = q[1] /\ Len(q) \in Nat /\ Len(q) > 0 /\ Len(Tail(q)) = Len(q) - 1
      /\ \A i \in 1..Len(Tail(q)) : Tail(q)[i] = q[i + 1] /\ i + 1 \in 1..Len(q)
  BY TailFacts
<1>3. \A i \in B : i \in Nat /\ i # 0 /\ i + 1 \in A \ {1} BY <1>2 DEF Appends
<1>4. f \in Injection(B, A \ {1})
  <2>1. f \in [B -> A \ {1}] BY <1>3
  <2>2. \A i, j \in B : f[i] = f[j] => i = j BY <1>3
  <2> HIDE DEF f
  <2> QED BY <2>1, <2>2 DEF Injection, IsInjective
<1>5. Head(q).kind = "append" => 1 \in A BY <1>2 DEF Appends
<1> HIDE DEF A, B, f
<1>6. /\ IsFiniteSet(A \ {1})
      /\ Cardinality(A \ {1}) = IF 1 \in A THEN Cardinality(A) - 1 ELSE Cardinality(A)
  BY <1>1, FS_RemoveElement
<1>7. Cardinality(B) <= Cardinality(A \ {1}) /\ IsFiniteSet(B) BY <1>4, <1>6, FS_Injection
<1>8. Cardinality(B) \in Nat BY <1>7, FS_CardinalityType
<1> QED BY <1>1, <1>5, <1>6, <1>7, <1>8 DEF A, B

\* The request that data takes.
LEMMA RequestFacts ==
  ASSUME TInv, dataInbox # <<>>
  PROVE  /\ Head(dataInbox) \in Request
         /\ Head(dataInbox).kind = "append" => Head(dataInbox).id \in Lengths
         /\ Head(dataInbox).kind = "record" => Head(dataInbox).id \in 0..Inside
<1>1. dataInbox \in Seq(Request) BY DEF TInv, TypeOK, TypeData
<1>2. Head(dataInbox) \in Request /\ Head(dataInbox) = dataInbox[1] /\ 1 \in 1..Len(dataInbox)
  BY <1>1, TailFacts
<1> QED BY <1>2 DEF TInv, RequestInv

\* The log only grows, by a record or by what was left of one.
LEMMA LogStep ==
  TInv /\ [Next]_vars =>
    /\ log' \in Seq(Lengths \cup {Torn}) /\ Len(log) <= Len(log')
    /\ \A i \in 1..Len(log) : log'[i] = log[i]
<1> SUFFICES ASSUME TInv, [Next]_vars
             PROVE  /\ log' \in Seq(Lengths \cup {Torn}) /\ Len(log) <= Len(log')
                    /\ \A i \in 1..Len(log) : log'[i] = log[i]
  OBVIOUS
<1> USE SchedulerFacts, LimitFacts DEF TInv
<1>1. CASE UNCHANGED log BY <1>1
<1>2. CASE DataReceive
  <2>1. \/ UNCHANGED log \/ log' = Append(log, Torn)
        \/ /\ Head(dataInbox).kind = "append"
           /\ log' = Append(log, Head(dataInbox).id)
    BY <1>2 DEF DataReceive
  <2>2. dataInbox # <<>> BY <1>2 DEF DataReceive
  <2>3. \A x \in Lengths \cup {Torn} :
          /\ Append(log, x) \in Seq(Lengths \cup {Torn})
          /\ Len(Append(log, x)) = Len(log) + 1
          /\ \A i \in 1..Len(log) : Append(log, x)[i] = log[i]
    BY AppendFacts
  <2>4. CASE UNCHANGED log BY <2>4
  <2>5. CASE log' = Append(log, Torn) BY <2>3, <2>5
  <2>6. CASE Head(dataInbox).kind = "append" /\ log' = Append(log, Head(dataInbox).id)
    <3>1. Head(dataInbox).id \in Lengths \cup {Torn} BY <2>2, <2>6, RequestFacts
    <3> QED BY <2>3, <2>6, <3>1
  <2> QED BY <2>1, <2>4, <2>5, <2>6
<1> QED BY <1>1, <1>2, LogFrame

\* An answer stays genuine while the log grows.
LEMMA GenuineGrows ==
  ASSUME TInv, [Next]_vars, NEW m, m.id \in Nat, GenuineIn(m, log)
  PROVE  GenuineIn(m, log')
<1>1. /\ Len(log) \in Nat /\ Len(log') \in Nat /\ Len(log) <= Len(log')
      /\ \A i \in 1..Len(log) : log'[i] = log[i]
  BY LogStep, SchedulerFacts DEF TInv
<1> SUFFICES ASSUME m.kind = "record" /\ m.n > 0
             PROVE  /\ m.id < Len(log') /\ m.n <= m.of
                    /\ m.next \in Nat /\ m.id < m.next /\ m.next <= Lost
                    /\ log'[m.id + 1] # Torn => m.of = log'[m.id + 1] /\ m.next = m.id + 1
  BY DEF GenuineIn
<1>2. /\ m.id < Len(log) /\ m.n <= m.of
      /\ m.next \in Nat /\ m.id < m.next /\ m.next <= Lost
      /\ log[m.id + 1] # Torn => m.of = log[m.id + 1] /\ m.next = m.id + 1
  BY DEF GenuineIn
<1>3. log'[m.id + 1] = log[m.id + 1] BY <1>1, <1>2
<1> QED BY <1>1, <1>2, <1>3

\* Data's requests keep their types.
LEMMA RequestsStep ==
  TInv /\ [Next]_vars => /\ dataInbox' \in Seq(Request) /\ Len(dataInbox') <= Backlog
                         /\ RequestInv'
<1> SUFFICES ASSUME TInv, [Next]_vars
             PROVE  /\ dataInbox' \in Seq(Request) /\ Len(dataInbox') <= Backlog
                    /\ RequestInv'
  OBVIOUS
<1> USE SchedulerFacts, LimitFacts DEF TInv
<1>1. CASE UNCHANGED dataInbox BY <1>1 DEF TypeOK, TypeData, RequestInv
<1>2. ASSUME NEW r \in Request, dataInbox' = Append(dataInbox, r), Room(dataInbox),
             r.kind = "append" => r.id \in Lengths, r.kind = "record" => r.id \in 0..Inside
      PROVE  dataInbox' \in Seq(Request) /\ Len(dataInbox') <= Backlog /\ RequestInv'
  <2>1. /\ dataInbox' \in Seq(Request) /\ Len(dataInbox') = Len(dataInbox) + 1
        /\ \A i \in 1..Len(dataInbox) : dataInbox'[i] = dataInbox[i]
        /\ dataInbox'[Len(dataInbox) + 1] = r
        /\ \A i \in 1..Len(dataInbox') : i \in 1..Len(dataInbox) \/ i = Len(dataInbox) + 1
    BY <1>2, AppendFacts
  <2>2. Len(dataInbox') <= Backlog BY <1>2, <2>1 DEF Room
  <2>3. ASSUME NEW i \in 1..Len(dataInbox')
        PROVE  /\ dataInbox'[i].kind = "append" => dataInbox'[i].id \in Lengths
               /\ dataInbox'[i].kind = "record" => dataInbox'[i].id \in 0..Inside
    <3>1. CASE i \in 1..Len(dataInbox) BY <2>1, <3>1 DEF RequestInv
    <3>2. CASE i = Len(dataInbox) + 1 BY <1>2, <2>1, <3>2
    <3> QED BY <2>1, <2>3, <3>1, <3>2
  <2> QED BY <2>1, <2>2, <2>3 DEF RequestInv
<1>3. CASE RequestPhoto
  <2>1. [kind |-> "photo", id |-> 0] \in Request BY DEF Request
  <2> QED BY <1>1, <1>2, <1>3, <2>1 DEF RequestPhoto
<1>4. CASE RequestRecord
  <2> DEFINE r == [kind |-> "record", id |-> telemetry_cursor]
  <2>1. r \in Request /\ r.kind = "record" /\ r.id \in 0..Inside
    BY DEF Request
  <2>2. Room(dataInbox) /\ (dataInbox' = Append(dataInbox, r) \/ UNCHANGED dataInbox)
    BY <1>4 DEF RequestRecord
  <2> HIDE DEF r
  <2> QED BY <1>1, <1>2, <2>1, <2>2
<1>5. CASE DataReceive
  <2>1. dataInbox # <<>> /\ dataInbox' = Tail(dataInbox) BY <1>5 DEF DataReceive
  <2>2. /\ dataInbox' \in Seq(Request) /\ Len(dataInbox') = Len(dataInbox) - 1
        /\ \A i \in 1..Len(dataInbox') : /\ dataInbox'[i] = dataInbox[i + 1]
                                        /\ i + 1 \in 1..Len(dataInbox)
    BY <2>1, TailFacts
  <2>3. Len(dataInbox) <= Backlog BY DEF TypeOK, TypeData
  <2>4. Len(dataInbox') <= Backlog BY <2>2, <2>3
  <2>5. RequestInv' BY <2>2 DEF RequestInv
  <2> QED BY <2>2, <2>4, <2>5
<1>6. CASE DataRestarts \/ DataDies
  <2>1. dataInbox' = <<>> BY <1>6 DEF DataRestarts, DataDies, NewData
  <2> QED BY <2>1 DEF RequestInv
<1>7. CASE ForwardTelemetry
  <2>1. PICK of \in Lengths :
          dataInbox' = Append(dataInbox, [kind |-> "append", id |-> of])
    BY <1>7 DEF ForwardTelemetry
  <2> DEFINE r == [kind |-> "append", id |-> of]
  <2>2. r \in Request /\ r.kind = "append" /\ r.id \in Lengths BY DEF Request
  <2>3. Room(dataInbox) /\ dataInbox' = Append(dataInbox, r)
    BY <1>7, <2>1 DEF ForwardTelemetry
  <2> HIDE DEF r
  <2> QED BY <1>2, <2>2, <2>3
<1> QED BY <1>1, <1>3, <1>4, <1>5, <1>6, <1>7, RequestsFrame

\* The counters keep to their bounds.
LEMMA CountsStep ==
  TInv /\ [Next]_vars =>
    /\ arrived' \in 0..MaxRecords /\ cycles' \in 0..MaxCycles /\ faults' \in 0..MaxFaults
    /\ cuts' \in 0..faults' /\ arrived <= arrived' /\ faults <= faults'
<1> SUFFICES ASSUME TInv, [Next]_vars
             PROVE  /\ arrived' \in 0..MaxRecords /\ cycles' \in 0..MaxCycles
                    /\ faults' \in 0..MaxFaults /\ cuts' \in 0..faults'
                    /\ arrived <= arrived' /\ faults <= faults'
  OBVIOUS
<1> USE LimitFacts DEF TInv, TypeOK, TypeData
<1>1. CASE UNCHANGED counts BY <1>1 DEF counts
<1>2. CASE Fault \/ (AnyFault /\ cuts' = cuts + 1) BY <1>2 DEF Fault, AnyFault
<1>3. CASE AwaitCycle BY <1>3 DEF AwaitCycle, counts
<1>4. CASE ForwardTelemetry BY <1>4 DEF ForwardTelemetry
<1> QED BY <1>1, <1>2, <1>3, <1>4, CountsFrame

\* No more records are in the log, or on their way to it, than arrived.
LEMMA LogInvStep == TInv /\ [Next]_vars => LogInv'
<1> SUFFICES ASSUME TInv, [Next]_vars PROVE LogInv' OBVIOUS
<1> USE SchedulerFacts, LimitFacts DEF TInv
<1> DEFINE n == Cardinality(Appends(dataInbox))
           k == Cardinality(Appends(dataInbox'))
<1>1. n \in Nat /\ Len(log) + n <= arrived BY AppendsFinite DEF LogInv
<1>2. arrived' \in Nat /\ arrived <= arrived' BY CountsStep
<1>3. SUFFICES Len(log') + k <= arrived' BY DEF LogInv, Appends
<1>4. Len(log') \in Nat /\ k \in Nat BY LogStep, RequestsStep, AppendsFinite
<1>5. CASE DataReceive
  <2>1. dataInbox # <<>> /\ dataInbox' = Tail(dataInbox) BY <1>5 DEF DataReceive
  <2>2. k <= n /\ (Head(dataInbox).kind = "append" => k <= n - 1)
    BY <2>1, AppendsTail
  <2>3. UNCHANGED log \/ (Len(log') = Len(log) + 1 /\ Head(dataInbox).kind = "append")
    <3>1. \/ UNCHANGED log
          \/ /\ Head(dataInbox).kind = "append"
             /\ \E x \in Lengths \cup {Torn} : log' = Append(log, x)
      BY <1>5, <2>1, RequestFacts DEF DataReceive
    <3> QED BY <3>1, AppendFacts
  <2> HIDE DEF n, k
  <2>4. CASE UNCHANGED log BY <1>1, <1>2, <1>4, <2>2, <2>4, SMTT(30)
  <2>5. CASE Len(log') = Len(log) + 1 /\ Head(dataInbox).kind = "append"
    BY <1>1, <1>2, <1>4, <2>2, <2>5, SMTT(30)
  <2> QED BY <2>3, <2>4, <2>5
<1>6. CASE UNCHANGED log /\ UNCHANGED dataInbox
  BY <1>1, <1>2, <1>6
<1>7. CASE UNCHANGED log /\ dataInbox' = <<>>
  <2>1. Appends(dataInbox') = {} BY <1>7 DEF Appends
  <2>2. Cardinality(Appends(dataInbox')) = 0 BY <2>1, FS_EmptySet
  <2> QED BY <1>1, <1>2, <1>7, <2>2
<1>8. CASE RequestPhoto \/ RequestRecord
  <2> DEFINE p == [kind |-> "photo", id |-> 0]
             c == [kind |-> "record", id |-> telemetry_cursor]
  <2>0. p \in Request /\ p.kind # "append" /\ c \in Request /\ c.kind # "append"
    BY DEF Request
  <2>1. PICK r \in Request : /\ r.kind # "append" /\ UNCHANGED log
                             /\ dataInbox' = Append(dataInbox, r) \/ UNCHANGED dataInbox
    <3>1. UNCHANGED log /\ \/ dataInbox' = Append(dataInbox, p)
                           \/ dataInbox' = Append(dataInbox, c)
                           \/ UNCHANGED dataInbox
      BY <1>8 DEF RequestPhoto, RequestRecord
    <3> HIDE DEF p, c
    <3> QED BY <2>0, <3>1
  <2>2. CASE dataInbox' = Append(dataInbox, r)
    <3>1. k = n BY <2>1, <2>2, AppendsPush
    <3> QED BY <1>1, <1>2, <2>1, <3>1
  <2> QED BY <1>6, <2>1, <2>2
<1>9. CASE ForwardTelemetry
  <2>1. PICK r \in Request : UNCHANGED log /\ dataInbox' = Append(dataInbox, r)
    BY <1>9 DEF ForwardTelemetry, Request
  <2>2. k <= n + 1 BY <2>1, AppendsPush
  <2>3. arrived' = arrived + 1 BY <1>9 DEF ForwardTelemetry
  <2> HIDE DEF n, k
  <2> QED BY <1>1, <1>4, <2>1, <2>2, <2>3, SMTT(30)
<1>10. CASE DataRestarts \/ DataDies BY <1>7, <1>10 DEF DataRestarts, DataDies, NewData
<1> QED BY <1>5, <1>6, <1>8, <1>9, <1>10, RequestsFrame, LogFrame
        DEF RequestPhoto, RequestRecord, ForwardTelemetry, DataRestarts, DataDies, NewData

\* A message about a record has the fields it was made with.
LEMMA RecordMessageFacts ==
  ASSUME NEW off \in Nat, NEW n \in Nat, NEW of \in Nat, NEW next \in Nat,
         NEW end \in BOOLEAN, NEW m, m = RecordMessage(off, n, of, next, end)
  PROVE  /\ m \in Message /\ m.kind = "record" /\ m.id = off /\ m.n = n /\ m.of = of
         /\ m.next = next
  BY DEF RecordMessage, Message

\* What reading the log at an offset can give.
LEMMA ReadCases ==
  ASSUME NEW off, NEW m \in ReadRecord(off)
  PROVE  \/ \E e \in BOOLEAN : m = RecordMessage(off, 0, 0, off, e)
         \/ /\ ~(off >= Lost) /\ ~(off >= Len(log)) /\ log[off + 1] # Torn
            /\ m = RecordMessage(off, 1, log[off + 1], off + 1, off + 1 = Len(log))
         \/ /\ ~(off >= Lost) /\ ~(off >= Len(log)) /\ log[off + 1] = Torn
            /\ \E n \in Lengths : \E next \in ((off + 2)..Len(log)) \cup {Lost} :
                 m = RecordMessage(off, 1, n, next, next = Len(log))
<1>1. CASE off >= Lost
  <2>1. m = RecordMessage(off, 0, 0, off, FALSE) BY <1>1 DEF ReadRecord
  <2> QED BY <2>1
<1>2. CASE ~(off >= Lost) /\ off >= Len(log)
  <2>1. m = RecordMessage(off, 0, 0, off, TRUE) BY <1>2 DEF ReadRecord
  <2> QED BY <2>1
<1>3. CASE ~(off >= Lost) /\ ~(off >= Len(log)) /\ log[off + 1] # Torn
  BY <1>3 DEF ReadRecord
<1>4. CASE ~(off >= Lost) /\ ~(off >= Len(log)) /\ log[off + 1] = Torn
  <2>1. m \in ReadTorn(off) BY <1>4 DEF ReadRecord
  <2>2. \/ m = RecordMessage(off, 0, 0, off, FALSE)
        \/ \E n \in Lengths : \E next \in ((off + 2)..Len(log)) \cup {Lost} :
             m = RecordMessage(off, 1, n, next, next = Len(log))
    <3> DEFINE ends == IF off + 1 = Len(log) THEN {} ELSE ((off + 2)..Len(log)) \cup {Lost}
               part(n, next) == RecordMessage(off, 1, n, next, next = Len(log))
               cut == RecordMessage(off, 0, 0, off, FALSE)
    <3>1. ends \subseteq ((off + 2)..Len(log)) \cup {Lost} OBVIOUS
    <3>2. ReadTorn(off) = {cut}
            \cup {part(n, next) : n \in Lengths, next \in ends}
      BY DEF ReadTorn
    <3> HIDE DEF ends, part, cut
    <3>3. \/ m = cut
          \/ \E n \in Lengths : \E next \in ends : m = part(n, next)
      BY <2>1, <3>2
    <3> QED BY <3>1, <3>3 DEF part, cut
  <2>3. CASE m = RecordMessage(off, 0, 0, off, FALSE) BY <2>3
  <2> QED BY <1>4, <2>2, <2>3
<1> QED BY <1>1, <1>2, <1>3, <1>4

\* The log has no more records than arrive.
LEMMA LogBound ==
  ASSUME TInv
  PROVE  Len(log) \in Nat /\ Len(log) <= MaxRecords
<1>1. TypeOK /\ Len(log) \in Nat BY SchedulerFacts DEF TInv
<1>2. Cardinality(Appends(dataInbox)) \in Nat BY <1>1, SchedulerFacts, AppendsFinite
<1>3. arrived \in Nat /\ arrived <= MaxRecords BY <1>1, SchedulerFacts
<1> QED BY <1>1, <1>2, <1>3, LimitFacts DEF LogInv, TInv

\* What is read from the log is genuine: a length that is not torn is the record's.
LEMMA ReadFacts ==
  ASSUME TInv, NEW off \in 0..Inside, NEW m \in ReadRecord(off)
  PROVE  m \in Message /\ GenuineIn(m, log)
<1>0. /\ TypeOK /\ off \in Nat /\ Lost \in Nat /\ Lost = MaxRecords + 1 /\ MaxRecords \in Nat
      /\ Len(log) \in Nat /\ log \in Seq(Lengths \cup {Torn})
      /\ Lengths \subseteq Nat \ {0}
  BY SchedulerFacts, LimitFacts DEF TInv
<1>1. Len(log) <= MaxRecords BY LogBound
<1>2. ASSUME NEW e \in BOOLEAN, m = RecordMessage(off, 0, 0, off, e)
      PROVE  m \in Message /\ GenuineIn(m, log)
  <2>1. 0 \in Nat OBVIOUS
  <2>2. m \in Message /\ m.n = 0 BY <1>0, <1>2, <2>1, RecordMessageFacts
  <2> QED BY <2>2 DEF GenuineIn
<1>3. CASE /\ ~(off >= Lost) /\ ~(off >= Len(log)) /\ log[off + 1] # Torn
           /\ m = RecordMessage(off, 1, log[off + 1], off + 1, off + 1 = Len(log))
  <2> DEFINE of == log[off + 1]
  <2>1. off < Len(log) BY <1>0, <1>3
  <2>2. of \in Lengths /\ off + 1 \in Nat /\ 1 \in Nat BY <1>0, <1>3, <2>1
  <2>3. PICK e \in BOOLEAN : m = RecordMessage(off, 1, of, off + 1, e) BY <1>3
  <2> HIDE DEF of
  <2>6. of \in Nat /\ of >= 1 BY <1>0, <2>2
  <2>4. /\ m \in Message /\ m.kind = "record" /\ m.id = off /\ m.n = 1 /\ m.of = of
        /\ m.next = off + 1
    BY <1>0, <2>2, <2>3, <2>6 DEF RecordMessage, Message
  <2>5. off + 1 <= Lost BY <1>0, <1>1, <2>1
  <2> QED BY <1>0, <2>1, <2>6, <2>4, <2>5 DEF GenuineIn, of
<1>4. CASE /\ ~(off >= Lost) /\ ~(off >= Len(log)) /\ log[off + 1] = Torn
           /\ \E n \in Lengths : \E next \in ((off + 2)..Len(log)) \cup {Lost} :
                m = RecordMessage(off, 1, n, next, next = Len(log))
  <2>1. PICK n \in Lengths : \E next \in ((off + 2)..Len(log)) \cup {Lost} :
                m = RecordMessage(off, 1, n, next, next = Len(log))
    BY <1>4
  <2>2. PICK next \in ((off + 2)..Len(log)) \cup {Lost} :
                m = RecordMessage(off, 1, n, next, next = Len(log))
    BY <2>1
  <2>3. off < Len(log) BY <1>0, <1>4
  <2>4. n \in Nat /\ n >= 1 /\ next \in Nat /\ off < next /\ next <= Lost /\ 1 \in Nat
    BY <1>0, <1>1, <2>3
  <2>5. PICK e \in BOOLEAN : m = RecordMessage(off, 1, n, next, e) BY <2>2
  <2>6. /\ m \in Message /\ m.kind = "record" /\ m.id = off /\ m.n = 1 /\ m.of = n
        /\ m.next = next
    BY <1>0, <2>4, <2>5 DEF RecordMessage, Message
  <2> QED BY <1>0, <1>4, <2>3, <2>4, <2>6 DEF GenuineIn
<1> QED BY <1>2, <1>3, <1>4, ReadCases

\* The next message of data's answer is genuine.
LEMMA StreamStep ==
  TInv /\ [Next]_vars => stream' \in Message \cup {Nothing} /\ GenuineIn(stream', log)
<1> SUFFICES ASSUME TInv, [Next]_vars
             PROVE  stream' \in Message \cup {Nothing} /\ GenuineIn(stream', log)
  OBVIOUS
<1> USE SchedulerFacts, LimitFacts DEF TInv
<1>1. GenuineIn(Nothing, log) BY DEF GenuineIn, Nothing
<1>2. CASE UNCHANGED stream BY <1>2 DEF AnswerInv
<1>3. CASE stream' = Nothing BY <1>1, <1>3
<1>4. CASE DataReceive
  <2>1. \/ UNCHANGED stream \/ \E n \in {0, 1} : stream' = ChunkMessage(n)
        \/ /\ dataInbox # <<>> /\ Head(dataInbox).kind = "record"
           /\ stream' \in ReadRecord(Head(dataInbox).id)
    BY <1>4 DEF DataReceive
  <2>2. ASSUME NEW n \in {0, 1}
        PROVE  ChunkMessage(n) \in Message /\ GenuineIn(ChunkMessage(n), log)
    BY DEF ChunkMessage, Message, GenuineIn
  <2>3. CASE /\ dataInbox # <<>> /\ Head(dataInbox).kind = "record"
             /\ stream' \in ReadRecord(Head(dataInbox).id)
    BY <2>3, RequestFacts, ReadFacts
  <2> QED BY <1>2, <2>1, <2>2, <2>3
<1>5. CASE DataSend
  <2>1. stream # Nothing /\ stream \in Message BY <1>5, ReplyFacts DEF DataSend
  <2>2. CASE stream.n \in {0, stream.of} BY <1>3, <1>5, <2>2 DEF DataSend
  <2>3. CASE stream.n \notin {0, stream.of}
    <3>1. stream' = [stream EXCEPT !.n = stream.n + 1]
      BY <1>5, <2>1, <2>3 DEF DataSend, Message
    <3>2. stream.n \in Nat /\ stream.of \in Nat BY <2>1, MessageFacts
    <3>3. \A k \in Nat : [stream EXCEPT !.n = k] \in Message BY <2>1 DEF Message
    <3>4. /\ stream'.kind = stream.kind /\ stream'.id = stream.id
          /\ stream'.n = stream.n + 1
          /\ stream'.of = stream.of /\ stream'.next = stream.next
      BY <2>1, <3>1 DEF Message
    <3>5. GenuineIn(stream, log) BY DEF AnswerInv
    <3>6. stream' \in Message
      <4>1. stream.n + 1 \in Nat BY <3>2
      <4> QED BY ONLY <3>1, <3>3, <4>1
    <3>7. stream.n > 0 /\ stream.n # stream.of BY <2>3, <3>2
    <3>8. GenuineIn(stream', log)
      BY ONLY <3>2, <3>4, <3>5, <3>7 DEF GenuineIn
    <3> QED BY <3>6, <3>8
  <2> QED BY <2>2, <2>3
<1>6. CASE DataGivesUp \/ DataRestarts \/ DataDies
  BY <1>3, <1>6 DEF DataGivesUp, DataRestarts, DataDies, NewData
<1> QED BY <1>2, <1>4, <1>5, <1>6, StreamFrame

\* A complete record is what was received and the last message.
LEMMA RadioStep ==
  ASSUME TInv, [Next]_vars
  PROVE  \/ UNCHANGED radio
         \/ /\ ReceiveRecord
            /\ LET m == Head(inbox) IN
               /\ m \in Message /\ m.kind = "record" /\ m.n > 0 /\ Fits(m) /\ m.n = m.of
               /\ GenuineIn(m, log)
               /\ radio' = Append(radio, Append(got, m)) /\ Append(got, m) \in Seq(Message)
               /\ telemetry_cursor' = m.next /\ sentInBatch' = sentInBatch + 1
               /\ IF m.end \/ sentInBatch + 1 = BatchLimit
                  THEN EndBatch(m.next) ELSE mpc' = "request"
               /\ UNCHANGED counts
<1> USE SchedulerFacts, LimitFacts DEF TInv
<1>1. CASE Load \/ BeginBatch \/ Restart BY <1>1 DEF Load, BeginBatch, Restart
<1>2. CASE ReceiveRecord
  <2> DEFINE m == Head(inbox)
  <2>1. m \in Message /\ GenuineIn(m, log) BY <1>2, InboxFacts DEF ReceiveRecord
  <2>2. Append(got, m) \in Seq(Message) BY <2>1, AppendFacts
  <2> QED BY <1>2, <2>1, <2>2 DEF ReceiveRecord, Transmit
<1> QED BY <1>1, <1>2, RadioFrame

\* The types are an invariant of a step.
LEMMA TypeInductive == TInv /\ [Next]_vars => TInv'
<1> SUFFICES ASSUME TInv, [Next]_vars PROVE TInv' OBVIOUS
<1>1. TypeScheduler' BY SchedulerStep
<1>2. TypeAnswers' BY GotStep, InboxStep, ComputeStep DEF TypeAnswers
<1>3. radio' \in Seq(Seq(Message))
  <2>1. radio \in Seq(Seq(Message)) BY SchedulerFacts DEF TInv
  <2>2. CASE UNCHANGED radio BY <2>1, <2>2
  <2>3. CASE radio' = Append(radio, Append(got, Head(inbox)))
             /\ Append(got, Head(inbox)) \in Seq(Message)
    BY <2>1, <2>3, AppendFacts
  <2> QED BY <2>2, <2>3, RadioStep
<1>4. TypeData' BY <1>3, RequestsStep, StreamStep, LogStep, CountsStep DEF TypeData
<1>5. AnswerInv'
  <2>1. GenuineIn(stream', log) /\ stream'.id \in Nat
    <3>1. Nothing.id = 0 BY DEF Nothing
    <3> QED BY <3>1, StreamStep, MessageFacts
  <2>2. \A i \in 1..Len(inbox') : GenuineIn(inbox'[i], log) /\ inbox'[i].id \in Nat
    <3>1. \A i \in 1..Len(inbox') : inbox'[i] \in Message BY InboxStep
    <3> QED BY <3>1, InboxStep, MessageFacts
  <2>3. GenuineIn(stream', log') BY <2>1, GenuineGrows
  <2>4. \A i \in 1..Len(inbox') : GenuineIn(inbox'[i], log') BY <2>2, GenuineGrows
  <2> QED BY <2>3, <2>4 DEF AnswerInv, GenuineIn
<1>6. BelowLimit'
  <2> USE LimitFacts, SchedulerFacts DEF TInv
  <2>1. CASE UNCHANGED <<radio, sentInBatch, telemetry_cursor>>
    <3>1. CASE UNCHANGED mpc BY <2>1, <3>1 DEF BelowLimit
    <3>2. CASE ReceiveRecord BY <3>2, RecordFacts DEF BelowLimit
    <3>3. CASE RequestRecord BY <2>1, <3>3 DEF RequestRecord, BelowLimit
    <3>4. CASE BeginBatch BY <3>4 DEF BeginBatch, BelowLimit
    <3>5. CASE Load \/ Save \/ AwaitCycle \/ TakePhoto \/ RequestCompression
               \/ RequestPhoto \/ NotDue \/ Restart
      BY <3>5 DEF Load, Save, AfterSave, AwaitCycle, TakePhoto, RequestCompression,
                  RequestPhoto, NotDue, Restart, SetState, StepFails, BelowLimit
    <3>6. CASE ReceiveResult \/ ReceiveChunk \/ TimesOut
      BY <3>6, <2>1 DEF ReceiveResult, ReceiveChunk, TimesOut, SetState, StepFails,
                  EndBatch, BelowLimit
    <3> QED BY <3>1, <3>2, <3>3, <3>4, <3>5, <3>6, GotFrame
  <2>2. CASE ReceiveRecord BY <2>2, RecordFacts DEF BelowLimit
  <2>3. CASE Load \/ BeginBatch \/ Restart
    BY <2>3 DEF Load, BeginBatch, Restart, BelowLimit
  <2> QED BY <2>1, <2>2, <2>3, RadioFrame
<1> QED BY <1>1, <1>2, <1>4, <1>5, <1>6, RequestsStep, LogInvStep DEF TInv, TypeOK

\* The first state has its types.
LEMMA InitTypes == Init => TInv
<1> SUFFICES ASSUME Init PROVE TInv OBVIOUS
<1> USE LimitFacts DEF Init
<1>1. TypeScheduler BY DEF TypeScheduler, Phases, Waits, Saves, NoFile, NoCursor
<1>2. TypeAnswers BY DEF TypeAnswers
<1>3. TypeData BY DEF TypeData
<1>4. BelowLimit /\ RequestInv BY DEF BelowLimit, RequestInv
<1>5. LogInv
  <2>1. Appends(dataInbox) = {} BY DEF Appends
  <2>2. Cardinality({}) = 0 BY FS_EmptySet
  <2>3. Cardinality(Appends(dataInbox)) = 0 /\ Len(log) = 0 /\ arrived = 0 BY <2>1, <2>2
  <2> QED BY ONLY <2>3 DEF LogInv
<1>6. AnswerInv BY DEF AnswerInv, GenuineIn, Nothing
<1> QED BY <1>1, <1>2, <1>3, <1>4, <1>5, <1>6 DEF TInv, TypeOK

-----------------------------------------------------------------------------
(***************************************************************************)
(* Whole records.  What was received of the current record are its first   *)
(* chunks, in order; what the radio has of a record is all of it.          *)
(***************************************************************************)
PartInv == mpc = "record" =>
             \A i \in 1..Len(got) : got[i].id = telemetry_cursor /\ got[i].n = i

WholeIn(s, l) ==
  /\ s # <<>> /\ Head(s).id \in Nat /\ Head(s).id < Len(l)
  /\ l[Head(s).id + 1] # Torn =>
       /\ Len(s) = l[Head(s).id + 1]
       /\ \A n \in 1..Len(s) : s[n].id = Head(s).id /\ s[n].n = n

RadioInv == \A i \in 1..Len(radio) : WholeIn(radio[i], log)

\* The chunks of the current record stay in order.
LEMMA PartStep == TInv /\ PartInv /\ [Next]_vars => PartInv'
<1> SUFFICES ASSUME TInv, PartInv, [Next]_vars, mpc' = "record"
             PROVE  \A i \in 1..Len(got') : got'[i].id = telemetry_cursor' /\ got'[i].n = i
  BY DEF PartInv
<1>0. /\ got \in Seq(Message) /\ Len(got) \in Nat
  BY SchedulerFacts DEF TInv
<1>1. CASE UNCHANGED <<got, mpc>> /\ UNCHANGED telemetry_cursor BY <1>1 DEF PartInv
<1>2. CASE Load \/ Save \/ AwaitCycle \/ TakePhoto \/ RequestCompression
           \/ RequestPhoto \/ NotDue \/ Restart \/ BeginBatch
  BY <1>2 DEF Load, Save, AfterSave, AwaitCycle, TakePhoto, RequestCompression,
              RequestPhoto, NotDue, Restart, BeginBatch, SetState, StepFails
<1>3. CASE ReceiveResult \/ ReceiveChunk \/ TimesOut
  BY <1>3 DEF ReceiveResult, ReceiveChunk, TimesOut, SetState, StepFails, EndBatch
<1>4. CASE RequestRecord
  <2>1. got' = <<>> BY <1>4 DEF RequestRecord
  <2> QED BY <2>1
<1>5. CASE ReceiveRecord
  <2> DEFINE m == Head(inbox)
  <2>1. m \in Message BY <1>5, InboxFacts DEF ReceiveRecord
  <2>2. /\ mpc = "record" /\ UNCHANGED telemetry_cursor
        /\ UNCHANGED got \/ (got' = Append(got, m) /\ Fits(m))
    BY <1>5 DEF ReceiveRecord, Transmit, EndBatch
  <2>3. CASE UNCHANGED got BY <2>2, <2>3 DEF PartInv
  <2>4. CASE got' = Append(got, m) /\ Fits(m)
    <3>1. m.id = telemetry_cursor /\ m.n = Len(got) + 1 BY <2>4 DEF Fits
    <3> HIDE DEF m
    <3>2. /\ Len(Append(got, m)) = Len(got) + 1
          /\ \A i \in 1..Len(got) : Append(got, m)[i] = got[i]
          /\ Append(got, m)[Len(got) + 1] = m
          /\ \A i \in 1..Len(Append(got, m)) : i \in 1..Len(got) \/ i = Len(got) + 1
      BY <1>0, <2>1, AppendFacts
    <3>3. ASSUME NEW i \in 1..Len(got')
          PROVE  got'[i].id = telemetry_cursor' /\ got'[i].n = i
      <4>1. CASE i \in 1..Len(got) BY <2>2, <2>4, <3>2, <4>1 DEF PartInv
      <4>2. CASE i = Len(got) + 1 BY <2>2, <2>4, <3>1, <3>2, <4>2
      <4> QED BY <2>4, <3>2, <3>3, <4>1, <4>2
    <3> QED BY <3>3
  <2> QED BY <2>2, <2>3, <2>4
<1> QED BY <1>1, <1>2, <1>3, <1>4, <1>5, GotFrame, RadioFrame

\* The record that is handed to the radio begins at the cursor.
LEMMA SentFacts ==
  ASSUME TInv, PartInv, mpc = "record", NEW m \in Message, Fits(m), m.n > 0, m.n = m.of,
         m.kind = "record", GenuineIn(m, log)
  PROVE  LET s == Append(got, m) IN
         /\ WholeIn(s, log) /\ Head(s).id = telemetry_cursor /\ m.id = telemetry_cursor
<1>0. /\ got \in Seq(Message) /\ Len(got) \in Nat /\ telemetry_cursor \in Nat
      /\ Len(log) \in Nat
  BY SchedulerFacts DEF TInv
<1>1. m.id = telemetry_cursor /\ m.n = Len(got) + 1 BY DEF Fits
<1> DEFINE s == Append(got, m)
<1>2. /\ s \in Seq(Message) /\ Len(s) = Len(got) + 1
      /\ \A i \in 1..Len(got) : s[i] = got[i]
      /\ s[Len(got) + 1] = m
      /\ \A i \in 1..Len(s) : i \in 1..Len(got) \/ i = Len(got) + 1
  BY <1>0, AppendFacts
<1> HIDE DEF s
<1>3. ASSUME NEW n \in 1..Len(s) PROVE s[n].id = telemetry_cursor /\ s[n].n = n
  <2>1. CASE n \in 1..Len(got) BY <1>2, <2>1 DEF PartInv
  <2>2. CASE n = Len(got) + 1 BY <1>1, <1>2, <2>2
  <2> QED BY <1>2, <1>3, <2>1, <2>2
<1>4. s # <<>> /\ Head(s) = s[1] /\ 1 \in 1..Len(s) BY <1>0, <1>2
<1>5. Head(s).id = telemetry_cursor BY <1>3, <1>4
<1>6. /\ telemetry_cursor < Len(log)
      /\ log[telemetry_cursor + 1] # Torn => Len(s) = log[telemetry_cursor + 1]
  BY <1>1, <1>2 DEF GenuineIn
<1>7. WholeIn(s, log) BY <1>0, <1>3, <1>4, <1>5, <1>6 DEF WholeIn
<1> QED BY <1>1, <1>5, <1>7 DEF s

\* A record that was sent whole stays so while the log grows.
LEMMA WholeGrows ==
  ASSUME TInv, [Next]_vars, NEW s, WholeIn(s, log)
  PROVE  WholeIn(s, log')
<1>1. /\ Len(log) \in Nat /\ Len(log') \in Nat /\ Len(log) <= Len(log')
      /\ \A i \in 1..Len(log) : log'[i] = log[i]
  BY LogStep, SchedulerFacts DEF TInv
<1>2. Head(s).id \in Nat /\ Head(s).id < Len(log) BY DEF WholeIn
<1>3. Head(s).id < Len(log') /\ log'[Head(s).id + 1] = log[Head(s).id + 1]
  BY <1>1, <1>2
<1> QED BY <1>3 DEF WholeIn

\* The radio gets whole records only.
LEMMA WholeStep == TInv /\ PartInv /\ RadioInv /\ [Next]_vars => RadioInv'
<1> SUFFICES ASSUME TInv, PartInv, RadioInv, [Next]_vars,
                    NEW i \in 1..Len(radio')
             PROVE  WholeIn(radio'[i], log')
  BY DEF RadioInv, WholeIn
<1>1. radio \in Seq(Seq(Message)) BY SchedulerFacts DEF TInv
<1>2. CASE UNCHANGED radio
  <2>1. WholeIn(radio[i], log) BY <1>2 DEF RadioInv
  <2> QED BY <1>2, <2>1, WholeGrows
<1>3. CASE ~UNCHANGED radio
  <2> DEFINE m == Head(inbox)
             s == Append(got, m)
  <2>1. /\ ReceiveRecord /\ m \in Message /\ m.kind = "record" /\ m.n > 0 /\ Fits(m)
        /\ m.n = m.of /\ GenuineIn(m, log) /\ radio' = Append(radio, s)
        /\ s \in Seq(Message)
    BY <1>3, RadioStep
  <2>2. mpc = "record" BY <2>1 DEF ReceiveRecord
  <2>3. WholeIn(s, log)
    <3> HIDE DEF m
    <3> QED BY <2>1, <2>2, SentFacts
  <2> HIDE DEF s, m
  <2>4. \/ i \in 1..Len(radio) /\ radio'[i] = radio[i]
        \/ radio'[i] = s
    BY <1>1, <2>1, AppendFacts
  <2>5. WholeIn(radio'[i], log) BY <2>3, <2>4 DEF RadioInv
  <2> QED BY <2>5, WholeGrows
<1> QED BY <1>2, <1>3

\* Only whole records leave, and every variable keeps its type: the scheduler's
\* attempts, the photo's buffer, the batch and the sockets stay within their limits,
\* whatever late chunks, retries, restarts and torn writes do.
THEOREM MissionTheorem == Spec => []MissionInv
<1> DEFINE I == TInv /\ PartInv /\ RadioInv
<1>1. Init => I BY InitTypes DEF Init, PartInv, RadioInv
<1>2. I /\ [Next]_vars => I' BY TypeInductive, PartStep, WholeStep
<1>3. I => MissionInv
  <2> SUFFICES ASSUME I PROVE RecordIsWhole BY DEF MissionInv, TInv
  <2> QED BY DEF RadioInv, WholeIn, RecordIsWhole
<1> QED BY <1>1, <1>2, <1>3, PTL DEF Spec

-----------------------------------------------------------------------------
(***************************************************************************)
(* The cursor.                                                             *)
(***************************************************************************)
\* What was sent stays sent, and what was cut off stays so.
LEMMA SentStays ==
  ASSUME TInv, [Next]_vars, NEW off \in Nat
  PROVE  /\ Sent(off) => Sent(off)'
         /\ TornUpTo(off) => TornUpTo(off)'
<1>1. radio \in Seq(Seq(Message)) BY SchedulerFacts DEF TInv
<1>2. ASSUME NEW i \in 1..Len(radio)
      PROVE  i \in 1..Len(radio') /\ radio'[i] = radio[i]
  <2>1. CASE UNCHANGED radio BY <2>1
  <2> DEFINE s == Append(got, Head(inbox))
  <2>2. CASE radio' = Append(radio, s) /\ s \in Seq(Message)
    <3> HIDE DEF s
    <3> QED BY <1>1, <2>2, AppendFacts
  <2> QED BY <2>1, <2>2, RadioStep
<1>3. Sent(off) => Sent(off)' BY <1>2 DEF Sent
<1>4. /\ Len(log) \in Nat /\ Len(log') \in Nat /\ Len(log) <= Len(log')
      /\ \A i \in 1..Len(log) : log'[i] = log[i]
  BY LogStep, SchedulerFacts DEF TInv
<1>5. TornUpTo(off) => TornUpTo(off)' BY <1>4 DEF TornUpTo
<1> QED BY <1>3, <1>5

\* All is sent before the cursor after it moved, too.
LEMMA CursorStep ==
  TInv /\ PartInv /\ CursorIsSent /\ [Next]_vars => CursorIsSent'
<1> SUFFICES ASSUME TInv, PartInv, CursorIsSent, [Next]_vars PROVE CursorIsSent' OBVIOUS
<1> DEFINE Done(off) == Sent(off) \/ TornUpTo(off)
           DoneNext(off) == Sent(off)' \/ TornUpTo(off)'
           All(c) == c # Inside => \A off \in 0..(c - 1) : Done(off)
           AllNext(c) == c # Inside => \A off \in 0..(c - 1) : DoneNext(off)
<1>0. All(telemetry_cursor) /\ All(state_file.cursor)
  BY DEF CursorIsSent, AllSentBefore
<1>1. SUFFICES AllNext(telemetry_cursor') /\ AllNext(state_file'.cursor)
  BY DEF CursorIsSent, AllSentBefore
<1>2. /\ telemetry_cursor \in Nat /\ Len(log) \in Nat /\ radio \in Seq(Seq(Message))
      /\ log \in Seq(Lengths \cup {Torn})
      /\ state_file.cursor \in Int
  BY SchedulerFacts, LimitFacts DEF TInv, TypeOK, TypeScheduler, NoFile
<1>3. \A off \in Nat : Done(off) => DoneNext(off) BY SentStays
<1>5. AllNext(telemetry_cursor) /\ AllNext(state_file.cursor)
  <2>1. \A off \in 0..(telemetry_cursor - 1) : off \in Nat BY <1>2
  <2>2. \A off \in 0..(state_file.cursor - 1) : off \in Nat BY <1>2
  <2> HIDE DEF Done, DoneNext
  <2> QED BY <1>0, <1>3, <2>1, <2>2
<1>6. AllNext(state_file'.cursor)
  <2>1. CASE UNCHANGED state_file BY <1>5, <2>1
  <2>2. CASE Save
    <3>1. \/ UNCHANGED state_file \/ state_file'.cursor = telemetry_cursor
          \/ state_file' \in CutShort
      BY <2>2 DEF Save
    <3>2. CASE state_file' \in CutShort
      <4>1. \/ state_file'.cursor \in {-1, 0, Inside}
            \/ /\ state_file'.cursor \in Int /\ state_file'.cursor <= telemetry_cursor
               /\ telemetry_cursor # Inside
        BY <3>2, CutFacts, LimitFacts DEF TInv, NoFile
      <4>2. CASE state_file'.cursor \in {-1, 0, Inside} BY <4>2
      <4>3. CASE /\ state_file'.cursor \in Int /\ state_file'.cursor <= telemetry_cursor
                 /\ telemetry_cursor # Inside
        <5>1. \A off \in 0..(state_file'.cursor - 1) : off \in 0..(telemetry_cursor - 1)
          BY <1>2, <4>3
        <5> HIDE DEF DoneNext
        <5> QED BY <1>5, <4>3, <5>1
      <4> QED BY <4>1, <4>2, <4>3
    <3> HIDE DEF AllNext
    <3> QED BY <1>5, <3>1, <3>2
  <2> QED BY <2>1, <2>2, FileFrame
<1>7. AllNext(telemetry_cursor')
  <2>1. CASE UNCHANGED telemetry_cursor BY <1>5, <2>1
  <2>2. CASE telemetry_cursor' = 0 BY <2>2
  <2>3. CASE Load
    <3>1. telemetry_cursor' = 0 \/ telemetry_cursor' = state_file.cursor
      BY <2>3 DEF Load
    <3> HIDE DEF AllNext
    <3> QED BY <1>5, <2>2, <3>1
  <2>4. CASE Restart BY <2>2, <2>4 DEF Restart
  <2>5. CASE BeginBatch BY <2>1, <2>5 DEF BeginBatch, statics
  <2>6. CASE ReceiveRecord
    <3>1. CASE UNCHANGED radio
      <4>1. Len(Append(radio, Append(got, Head(inbox)))) # Len(radio)
        <5>1. Append(got, Head(inbox)) \in Seq(Message)
          BY <2>6, InboxFacts, AppendFacts, SchedulerFacts DEF ReceiveRecord, TInv
        <5> HIDE DEF AllNext
        <5> QED BY <1>2, <5>1, AppendFacts
      <4>2. UNCHANGED telemetry_cursor
        BY <2>6, <3>1, <4>1 DEF ReceiveRecord, Transmit
      <4> QED BY <2>1, <4>2
    <3>2. CASE ~UNCHANGED radio
      <4> DEFINE m == Head(inbox)
                 s == Append(got, m)
      <4>1. /\ m \in Message /\ m.kind = "record" /\ m.n > 0 /\ Fits(m) /\ m.n = m.of
            /\ GenuineIn(m, log) /\ radio' = Append(radio, s) /\ s \in Seq(Message)
            /\ telemetry_cursor' = m.next
        BY <3>2, RadioStep
      <4>2. mpc = "record" BY <2>6 DEF ReceiveRecord
      <4>3. Head(s).id = telemetry_cursor /\ m.id = telemetry_cursor
        <5> HIDE DEF m
        <5> QED BY <4>1, <4>2, SentFacts
      <4> HIDE DEF s, m
      <4>4. \A off \in Nat : off = telemetry_cursor => Sent(off)'
        <5>1. Len(radio) + 1 \in 1..Len(radio') /\ radio'[Len(radio) + 1] = s
          BY <1>2, <4>1, AppendFacts
        <5>2. \E i \in 1..Len(radio') : Head(radio'[i]).id = telemetry_cursor
          BY <4>3, <5>1
        <5> QED BY <5>2 DEF Sent
      <4>5. /\ m.next \in Nat /\ telemetry_cursor < Len(log)
            /\ log[telemetry_cursor + 1] # Torn => m.next = telemetry_cursor + 1
        BY <4>1, <4>3 DEF GenuineIn
      <4>6. ASSUME NEW off \in 0..(m.next - 1) PROVE DoneNext(off)
        <5>1. off \in Nat BY <4>5
        <5>2. CASE off < telemetry_cursor
          <6>1. off \in 0..(telemetry_cursor - 1) BY <1>2, <5>1, <5>2
          <6>2. telemetry_cursor # Inside
            BY <1>2, <4>5, LimitFacts, LogBound
          <6> HIDE DEF DoneNext
          <6> QED BY <1>5, <6>1, <6>2
        <5>3. CASE off = telemetry_cursor BY <4>4, <5>1, <5>3
        <5>4. CASE off > telemetry_cursor
          <6>1. log[telemetry_cursor + 1] = Torn BY <1>2, <4>5, <4>6, <5>1, <5>4
          <6>2. telemetry_cursor + 1 \in 1..Len(log) /\ telemetry_cursor + 1 <= off + 1
            BY <1>2, <4>5, <5>1, <5>4
          <6>3. TornUpTo(off) BY <6>1, <6>2 DEF TornUpTo
          <6> QED BY <1>3, <5>1, <6>3
        <5> QED BY <1>2, <5>1, <5>2, <5>3, <5>4
      <4> QED BY <4>1, <4>6
    <3> QED BY <3>1, <3>2
  <2> QED BY <2>1, <2>3, <2>4, <2>5, <2>6, RadioFrame
<1> QED BY <1>6, <1>7

\* Every record before the cursor, in memory and in the state file, was handed to the
\* radio, whenever mission dies and whether or not the radio and the state file
\* worked; only a record that was cut off in the log may be passed over.
THEOREM CursorTheorem == Spec => []CursorIsSent
<1> DEFINE I == TInv /\ PartInv /\ CursorIsSent
<1>1. Init => I
  <2> SUFFICES ASSUME Init PROVE PartInv /\ CursorIsSent BY InitTypes
  <2> QED BY DEF Init, PartInv, CursorIsSent, AllSentBefore, NoFile, NoCursor
<1>2. I /\ [Next]_vars => I' BY TypeInductive, PartStep, CursorStep
<1>3. I => CursorIsSent OBVIOUS
<1> QED BY <1>1, <1>2, <1>3, PTL DEF Spec

-----------------------------------------------------------------------------
(***************************************************************************)
(* Resends.  A record that is sent again lies behind the cursor that       *)
(* mission started from, and the distance between what was sent and a      *)
(* cursor pays for it in advance: the repetitions so far, and the records  *)
(* sent that lie at or behind the cursor, are within the faults' budget.   *)
(* The saved cursor may lag by the batch under way; a file that was cut    *)
(* short may lag by all the records of the log.                            *)
(***************************************************************************)
IdsOf(r)       == {Head(r[i]).id : i \in 1..Len(r)}
FromIn(r, c)   == {d \in IdsOf(r) : d >= c}
Ahead(r, c)    == Len(r) - Cardinality(IdsOf(r)) + Cardinality(FromIn(r, c))

InBatch == mpc \in {"request", "record", "saveBatch"}
Unsaved == IF InBatch THEN sentInBatch ELSE 0

BatchInv == InBatch => /\ cursor_before_batch <= telemetry_cursor
                       /\ sentInBatch > 0 => cursor_before_batch < telemetry_cursor

Budget == (faults - cuts) * BatchLimit + cuts * MaxRecords

ResendInv ==
  /\ mpc # "load" => Ahead(radio, telemetry_cursor) <= Budget
  /\ Ahead(radio, state_file.cursor) <= Budget + Unsaved

\* The records sent can be counted.
LEMMA IdsFacts ==
  ASSUME NEW r \in Seq(Seq(Message)), \A i \in 1..Len(r) : Head(r[i]).id \in Nat
  PROVE  /\ IsFiniteSet(IdsOf(r)) /\ Cardinality(IdsOf(r)) \in Nat /\ IdsOf(r) \subseteq Nat
         /\ \A c \in Int : /\ IsFiniteSet(FromIn(r, c)) /\ Cardinality(FromIn(r, c)) \in Nat
                           /\ Ahead(r, c) \in Int
                           /\ Len(r) - Cardinality(IdsOf(r)) <= Ahead(r, c)
         /\ Ahead(r, -1) = Ahead(r, 0)
<1> DEFINE f == [i \in 1..Len(r) |-> Head(r[i]).id]
<1>1. Len(r) \in Nat /\ IsFiniteSet(1..Len(r)) BY FS_Interval
<1>2. f \in Surjection(1..Len(r), IdsOf(r)) BY DEF Surjection, IdsOf
<1> HIDE DEF f
<1>3. IsFiniteSet(IdsOf(r)) BY <1>1, <1>2, FS_Surjection
<1>4. Cardinality(IdsOf(r)) \in Nat BY <1>3, FS_CardinalityType
<1>5. IdsOf(r) \subseteq Nat BY DEF IdsOf
<1>6. ASSUME NEW c \in Int
      PROVE  /\ IsFiniteSet(FromIn(r, c)) /\ Cardinality(FromIn(r, c)) \in Nat
             /\ Ahead(r, c) \in Int
             /\ Len(r) - Cardinality(IdsOf(r)) <= Ahead(r, c)
  <2>1. FromIn(r, c) \subseteq IdsOf(r) BY DEF FromIn
  <2>2. IsFiniteSet(FromIn(r, c)) BY <1>3, <2>1, FS_Subset
  <2>3. Cardinality(FromIn(r, c)) \in Nat BY <2>2, FS_CardinalityType
  <2> QED BY <1>1, <1>4, <2>2, <2>3 DEF Ahead
<1>7. FromIn(r, -1) = FromIn(r, 0) BY <1>5 DEF FromIn
<1>8. Ahead(r, -1) = Ahead(r, 0) BY <1>7 DEF Ahead
<1> QED BY <1>3, <1>4, <1>5, <1>6, <1>8

\* One record more: at the cursor it was asked for, the budget pays for it.
LEMMA AheadPush ==
  ASSUME NEW r \in Seq(Seq(Message)), \A i \in 1..Len(r) : Head(r[i]).id \in Nat,
         NEW s \in Seq(Message), NEW c \in Nat, Head(s).id = c, NEW next \in Nat, c < next
  PROVE  /\ Ahead(Append(r, s), next) <= Ahead(r, c)
         /\ \A x \in Int : Ahead(Append(r, s), x) <= Ahead(r, x) + 1
<1> DEFINE q == Append(r, s)
           I == IdsOf(r)
           J == IdsOf(q)
<1>1. /\ q \in Seq(Seq(Message)) /\ Len(r) \in Nat /\ Len(q) = Len(r) + 1
      /\ \A i \in 1..Len(r) : q[i] = r[i]
      /\ q[Len(r) + 1] = s
      /\ \A i \in 1..Len(q) : i \in 1..Len(r) \/ i = Len(r) + 1
  BY AppendFacts
<1> HIDE DEF q
<1>2. J = I \cup {c}
  <2>1. \A d \in J : d \in I \cup {c} BY <1>1 DEF IdsOf
  <2>2. c \in J
    <3>1. Len(r) + 1 \in 1..Len(q) /\ Head(q[Len(r) + 1]).id = c BY <1>1
    <3> QED BY <3>1 DEF IdsOf
  <2>3. \A d \in I : d \in J
    <3>1. ASSUME NEW i \in 1..Len(r) PROVE Head(r[i]).id \in J
      <4>1. i \in 1..Len(q) /\ q[i] = r[i] BY <1>1
      <4> QED BY <4>1 DEF IdsOf
    <3> QED BY <3>1 DEF IdsOf
  <2> HIDE DEF I, J
  <2> QED BY <2>1, <2>2, <2>3
<1>3. /\ IsFiniteSet(I) /\ Cardinality(I) \in Nat /\ I \subseteq Nat
      /\ \A x \in Int : IsFiniteSet(FromIn(r, x)) /\ Cardinality(FromIn(r, x)) \in Nat
  BY IdsFacts
<1>4. \A x \in Int : FromIn(q, x) = {d \in J : d >= x} /\ FromIn(r, x) = {d \in I : d >= x}
  BY DEF FromIn
<1>5. ASSUME NEW x \in Int
      PROVE  /\ Ahead(q, x) = (Len(r) + 1) - Cardinality(J) + Cardinality(FromIn(q, x))
             /\ Ahead(r, x) = Len(r) - Cardinality(I) + Cardinality(FromIn(r, x))
  <2>1. Ahead(q, x) = Len(q) - Cardinality(J) + Cardinality(FromIn(q, x)) BY DEF Ahead
  <2>2. Len(q) = Len(r) + 1 BY <1>1
  <2>3. Ahead(r, x) = Len(r) - Cardinality(I) + Cardinality(FromIn(r, x)) BY DEF Ahead
  <2> HIDE DEF I, J
  <2> QED BY <2>1, <2>2, <2>3
<1> HIDE DEF I, J
<1>6. Cardinality(J) = IF c \in I THEN Cardinality(I) ELSE Cardinality(I) + 1
  BY <1>2, <1>3, FS_AddElement
<1> DEFINE l == Len(r)
           ci == Cardinality(I)
           cj == Cardinality(J)
<1>9. l \in Nat /\ ci \in Nat BY <1>1, <1>3
<1>7. Ahead(q, next) <= Ahead(r, c)
  <2> DEFINE F == FromIn(r, c)
             G == FromIn(q, next)
  <2>1. G \subseteq F \ {c}
    <3>1. ASSUME NEW d \in G PROVE d \in F \ {c}
      <4>1. d \in J /\ d >= next BY <1>4
      <4>2. d \in Nat /\ d > c BY <1>2, <1>3, <4>1
      <4>3. d \in I BY <1>2, <4>1, <4>2
      <4> QED BY <1>4, <4>2, <4>3
    <3> HIDE DEF F, G
    <3> QED BY <3>1
  <2>2. c \in I => c \in F BY <1>4
  <2>3. IsFiniteSet(F) /\ Cardinality(F) \in Nat
    <3>1. c \in Int OBVIOUS
    <3> QED BY ONLY <1>3, <3>1, Zenon
  <2>4. /\ Ahead(q, next) = (Len(r) + 1) - Cardinality(J) + Cardinality(G)
        /\ Ahead(r, c) = Len(r) - Cardinality(I) + Cardinality(F)
    BY <1>5
  <2> HIDE DEF F, G
  <2>5. /\ IsFiniteSet(F \ {c})
        /\ Cardinality(F \ {c}) = IF c \in F THEN Cardinality(F) - 1 ELSE Cardinality(F)
    BY <2>3, FS_RemoveElement
  <2>6. Cardinality(G) <= Cardinality(F \ {c}) /\ IsFiniteSet(G) BY <2>1, <2>5, FS_Subset
  <2>7. Cardinality(G) \in Nat BY <2>6, FS_CardinalityType
  <2>10. (\/ Cardinality(G) <= Cardinality(F) - 1 /\ cj = ci
          \/ Cardinality(G) <= Cardinality(F) /\ cj = ci + 1)
         => Ahead(q, next) <= Ahead(r, c)
    <3> DEFINE f == Cardinality(F)
               g == Cardinality(G)
    <3>1. f \in Nat /\ g \in Nat BY <2>3, <2>7
    <3>2. Ahead(q, next) = (l + 1) - cj + g /\ Ahead(r, c) = l - ci + f BY <2>4
    <3> HIDE DEF f, g, l, ci, cj
    <3>3. (g <= f - 1 /\ cj = ci) \/ (g <= f /\ cj = ci + 1)
          => Ahead(q, next) <= Ahead(r, c)
      BY ONLY <1>9, <3>1, <3>2
    <3> QED BY <3>3 DEF f, g
  <2>8. CASE c \in I
    <3>1. Cardinality(G) <= Cardinality(F) - 1 /\ Cardinality(J) = Cardinality(I)
      BY <1>6, <2>2, <2>5, <2>6, <2>8
    <3> QED BY <3>1, <2>10
  <2>9. CASE c \notin I
    <3>1. Cardinality(G) <= Cardinality(F) BY <2>3, <2>5, <2>6, <2>7
    <3>2. Cardinality(J) = Cardinality(I) + 1 BY <1>6, <2>9
    <3> QED BY <3>1, <3>2, <2>10
  <2> QED BY <2>8, <2>9
<1>8. ASSUME NEW x \in Int PROVE Ahead(q, x) <= Ahead(r, x) + 1
  <2> DEFINE F == FromIn(r, x)
             G == FromIn(q, x)
  <2>1. G \subseteq F \cup {c} BY <1>2, <1>4
  <2>2. c \in I => G \subseteq F BY <1>2, <1>4
  <2>3. IsFiniteSet(F) /\ Cardinality(F) \in Nat BY ONLY <1>3, <1>8, x \in Int, Zenon
  <2>4. /\ Ahead(q, x) = (Len(r) + 1) - Cardinality(J) + Cardinality(G)
        /\ Ahead(r, x) = Len(r) - Cardinality(I) + Cardinality(F)
    BY <1>5
  <2> HIDE DEF F, G
  <2>5. IsFiniteSet(F \cup {c}) /\ Cardinality(F \cup {c}) <= Cardinality(F) + 1
    <3>1. Cardinality(F \cup {c}) = IF c \in F THEN Cardinality(F) ELSE Cardinality(F) + 1
      BY <2>3, FS_AddElement
    <3>2. IsFiniteSet(F \cup {c}) BY <2>3, FS_AddElement
    <3> QED BY <2>3, <3>1, <3>2
  <2>6. IsFiniteSet(G) /\ Cardinality(G) <= Cardinality(F \cup {c})
    BY <2>1, <2>5, FS_Subset
  <2>7. Cardinality(G) \in Nat /\ Cardinality(F \cup {c}) \in Nat
    BY <2>5, <2>6, FS_CardinalityType
  <2>10. (\/ Cardinality(G) <= Cardinality(F) /\ cj = ci
          \/ Cardinality(G) <= Cardinality(F) + 1 /\ cj = ci + 1)
         => Ahead(q, x) <= Ahead(r, x) + 1
    <3> DEFINE f == Cardinality(F)
               g == Cardinality(G)
    <3>1. f \in Nat /\ g \in Nat BY <2>3, <2>7
    <3>2. Ahead(q, x) = (l + 1) - cj + g /\ Ahead(r, x) = l - ci + f BY <2>4
    <3> HIDE DEF f, g, l, ci, cj
    <3>3. (g <= f /\ cj = ci) \/ (g <= f + 1 /\ cj = ci + 1)
          => Ahead(q, x) <= Ahead(r, x) + 1
      BY ONLY <1>9, <3>1, <3>2
    <3> QED BY <3>3 DEF f, g
  <2>8. CASE c \in I
    <3>1. Cardinality(G) <= Cardinality(F) BY <2>2, <2>3, <2>8, FS_Subset
    <3>2. Cardinality(J) = Cardinality(I) BY <1>6, <2>8
    <3> QED BY <3>1, <3>2, <2>10
  <2>9. CASE c \notin I
    <3>1. Cardinality(G) <= Cardinality(F) + 1 BY <2>3, <2>5, <2>6, <2>7
    <3>2. Cardinality(J) = Cardinality(I) + 1 BY <1>6, <2>9
    <3> QED BY <3>1, <3>2, <2>10
  <2> QED BY <2>8, <2>9
<1> QED BY <1>7, <1>8 DEF q

\* A batch ends, having sent nothing since the last record.
LEMMA EndFacts ==
  ASSUME TInv, BatchInv, mpc \in {"request", "record"},
         EndBatch(telemetry_cursor) \/ mpc' \in {"request", "record"},
         UNCHANGED <<telemetry_cursor, sentInBatch, cursor_before_batch>>
  PROVE  BatchInv' /\ Unsaved' = Unsaved /\ mpc' # "load"
<1>1. /\ sentInBatch \in Nat /\ telemetry_cursor \in Nat /\ cursor_before_batch \in Nat
  BY LimitFacts DEF TInv, TypeOK, TypeScheduler
<1>2. CASE mpc' \in {"request", "record", "saveBatch"}
  BY <1>2 DEF BatchInv, InBatch, Unsaved
<1>3. CASE mpc' = "phase" /\ telemetry_cursor = cursor_before_batch
  <2>1. InBatch /\ ~InBatch' BY <1>3 DEF InBatch
  <2>2. sentInBatch = 0 BY <1>1, <1>3, <2>1 DEF BatchInv
  <2> QED BY <1>3, <2>1, <2>2 DEF BatchInv, Unsaved
<1> QED BY <1>2, <1>3 DEF EndBatch

\* Who moves the batch: a step sends a record, saves or loads the cursor, is a
\* restart, or leaves all of this as it was.
LEMMA BatchStep ==
  ASSUME TInv, BatchInv, [Next]_vars
  PROVE  /\ BatchInv'
         /\ \/ ReceiveRecord /\ ~UNCHANGED radio
            \/ Save \/ Load \/ Restart
            \/ /\ UNCHANGED <<radio, telemetry_cursor, state_file>> /\ Unsaved' = Unsaved
               /\ mpc' # "load" => mpc # "load"
<1>1. /\ sentInBatch \in Nat /\ telemetry_cursor \in Nat /\ cursor_before_batch \in Nat
      /\ radio \in Seq(Seq(Message)) /\ got \in Seq(Message)
  BY SchedulerFacts, LimitFacts DEF TInv, TypeOK, TypeScheduler
<1>2. CASE Save \/ Load \/ Restart
  BY <1>2 DEF Save, AfterSave, Load, Restart, BatchInv, InBatch
<1>3. CASE BeginBatch
  <2>1. /\ mpc = "telemetry" /\ mpc' = "request" /\ sentInBatch' = 0
        /\ cursor_before_batch' = telemetry_cursor
        /\ UNCHANGED <<radio, telemetry_cursor, state_file>>
    BY <1>3 DEF BeginBatch, statics
  <2> QED BY <1>1, <2>1 DEF BatchInv, InBatch, Unsaved
<1>4. CASE AwaitCycle \/ TakePhoto \/ RequestCompression \/ NotDue \/ RequestPhoto
           \/ ReceiveResult \/ ReceiveChunk
  <2>1. /\ ~InBatch /\ ~InBatch' /\ mpc # "load"
        /\ UNCHANGED <<radio, telemetry_cursor, state_file>>
    BY <1>4 DEF AwaitCycle, TakePhoto, RequestCompression, NotDue, RequestPhoto,
                ReceiveResult, ReceiveChunk, SetState, StepFails, statics, InBatch
  <2> QED BY <2>1 DEF BatchInv, Unsaved
<1>5. CASE RequestRecord
  <2>1. /\ mpc = "request" /\ (EndBatch(telemetry_cursor) \/ mpc' \in {"request", "record"})
        /\ UNCHANGED <<telemetry_cursor, sentInBatch, cursor_before_batch>>
        /\ UNCHANGED <<radio, state_file>>
    BY <1>5 DEF RequestRecord, statics, batch
  <2> QED BY <2>1, EndFacts
<1>6. CASE TimesOut
  <2>1. CASE mpc = "record"
    <3>1. /\ EndBatch(telemetry_cursor)
          /\ UNCHANGED <<telemetry_cursor, sentInBatch, cursor_before_batch>>
          /\ UNCHANGED <<radio, state_file>>
      BY <1>6, <2>1 DEF TimesOut, statics, batch
    <3> QED BY <2>1, <3>1, EndFacts
  <2>2. CASE mpc # "record"
    <3>1. /\ ~InBatch /\ ~InBatch' /\ mpc # "load"
          /\ UNCHANGED <<radio, telemetry_cursor, state_file>>
      BY <1>6, <2>2 DEF TimesOut, Waits, SetState, StepFails, InBatch
    <3> QED BY <3>1 DEF BatchInv, Unsaved
  <2> QED BY <2>1, <2>2
<1>7. CASE ReceiveRecord /\ UNCHANGED radio
  <2> DEFINE s == Append(got, Head(inbox))
  <2>1. radio' # Append(radio, s)
    <3>1. s \in Seq(Message) BY <1>1, <1>7, InboxFacts, AppendFacts DEF ReceiveRecord
    <3> HIDE DEF s
    <3>2. Len(Append(radio, s)) # Len(radio) BY <1>1, <3>1, AppendFacts
    <3> QED BY <1>7, <3>2
  <2>2. /\ mpc = "record" /\ (EndBatch(telemetry_cursor) \/ mpc' \in {"request", "record"})
        /\ UNCHANGED <<telemetry_cursor, sentInBatch, cursor_before_batch>>
        /\ UNCHANGED <<state_file>>
    BY <1>7, <2>1 DEF ReceiveRecord, Transmit
  <2> QED BY <1>7, <2>2, EndFacts
<1>8. CASE ReceiveRecord /\ ~UNCHANGED radio
  <2> DEFINE m == Head(inbox)
  <2>1. /\ m \in Message /\ m.kind = "record" /\ m.n > 0 /\ Fits(m) /\ GenuineIn(m, log)
        /\ telemetry_cursor' = m.next /\ sentInBatch' = sentInBatch + 1
    BY <1>8, RadioStep
  <2>2. mpc = "record" /\ UNCHANGED cursor_before_batch BY <1>8 DEF ReceiveRecord
  <2>3. m.id = telemetry_cursor BY <2>1 DEF Fits
  <2>4. telemetry_cursor' \in Nat /\ telemetry_cursor < telemetry_cursor'
    BY <2>1, <2>3 DEF GenuineIn
  <2>5. cursor_before_batch <= telemetry_cursor BY <2>2 DEF BatchInv, InBatch
  <2>6. cursor_before_batch' < telemetry_cursor' BY <1>1, <2>2, <2>4, <2>5
  <2>7. cursor_before_batch' <= telemetry_cursor' BY <1>1, <2>2, <2>4, <2>6
  <2> QED BY <1>8, <2>6, <2>7 DEF BatchInv
<1>9. CASE UNCHANGED mpc /\ UNCHANGED <<radio, sentInBatch, telemetry_cursor>>
           /\ UNCHANGED <<cursor_before_batch, state_file>>
  BY <1>9 DEF BatchInv, InBatch, Unsaved
<1>10. UNCHANGED cursor_before_batch \/ BeginBatch \/ Restart
  BY DEF Next, MissionStep, DataStep, vars, batch, Load, Save, AwaitCycle, TakePhoto,
         RequestCompression, ReceiveResult, RequestPhoto, ReceiveChunk, NotDue,
         RequestRecord, ReceiveRecord, TimesOut, DataReceive, DataSend, DataGivesUp,
         DataRestarts, DataDies, NewData, ComputeAnswers, ForwardTelemetry
<1>11. \/ Save \/ Load \/ Restart \/ BeginBatch \/ AwaitCycle \/ TakePhoto
       \/ RequestCompression \/ NotDue \/ RequestPhoto \/ ReceiveResult \/ ReceiveChunk
       \/ RequestRecord \/ TimesOut \/ ReceiveRecord
       \/ /\ UNCHANGED mpc /\ UNCHANGED <<radio, sentInBatch, telemetry_cursor>>
          /\ UNCHANGED <<cursor_before_batch, state_file>>
  BY <1>10, GotFrame, RadioFrame, FileFrame
<1> QED BY <1>2, <1>3, <1>4, <1>5, <1>6, <1>7, <1>8, <1>9, <1>11

\* Another fault adds a batch to the budget, and one that cuts the file short a log.
LEMMA BudgetFacts ==
  ASSUME TInv, [Next]_vars
  PROVE  /\ Budget \in Nat /\ Budget' \in Nat /\ Budget <= Budget'
         /\ Fault => Budget' = Budget + BatchLimit
         /\ AnyFault /\ cuts' = cuts + 1 => Budget' = Budget + MaxRecords
         /\ Unsaved \in Nat /\ Unsaved <= BatchLimit
<1> DEFINE x == faults - cuts
           y == cuts
<1>1. /\ BatchLimit \in Nat /\ MaxRecords \in Nat /\ x \in Nat /\ y \in Nat
      /\ faults \in Nat /\ cuts \in Nat
  BY LimitFacts DEF TInv, TypeOK, TypeData
<1>2. Unsaved \in Nat /\ Unsaved <= BatchLimit
  BY LimitFacts DEF TInv, TypeOK, TypeScheduler, Unsaved
<1>3. \/ x' = x /\ y' = y
      \/ x' = x + 1 /\ y' = y
      \/ x' = x /\ y' = y + 1
  BY <1>1, CountsFrame DEF counts, Fault, AnyFault, AwaitCycle, ForwardTelemetry
<1>4. /\ Fault => x' = x + 1 /\ y' = y
      /\ AnyFault /\ cuts' = cuts + 1 => x' = x /\ y' = y + 1
  BY <1>1 DEF Fault, AnyFault
<1>5. Budget = x * BatchLimit + y * MaxRecords /\ Budget' = x' * BatchLimit + y' * MaxRecords
  BY DEF Budget
<1> HIDE DEF x, y
<1>6. (x + 1) * BatchLimit = x * BatchLimit + BatchLimit /\ x * BatchLimit \in Nat BY <1>1
<1>7. (y + 1) * MaxRecords = y * MaxRecords + MaxRecords /\ y * MaxRecords \in Nat BY <1>1
<1> DEFINE u == x * BatchLimit
           v == y * MaxRecords
<1>8. /\ Budget = u + v /\ u \in Nat /\ v \in Nat
      /\ x' = x + 1 /\ y' = y => Budget' = u + BatchLimit + v
      /\ x' = x /\ y' = y + 1 => Budget' = u + v + MaxRecords
      /\ x' = x /\ y' = y => Budget' = u + v
  <2>1. x' = x + 1 /\ y' = y => Budget' = u + BatchLimit + v BY <1>1, <1>5, <1>6, <1>7
  <2>2. x' = x /\ y' = y + 1 => Budget' = u + (v + MaxRecords) BY <1>1, <1>5, <1>6, <1>7
  <2>3. x' = x /\ y' = y => Budget' = u + v BY <1>5
  <2>4. u \in Nat /\ v \in Nat BY <1>6, <1>7
  <2>5. Budget = u + v BY <1>5
  <2> HIDE DEF u, v
  <2> QED BY <1>1, <2>1, <2>2, <2>3, <2>4, <2>5
<1> HIDE DEF u, v
<1>9. /\ Budget \in Nat /\ Budget' \in Nat /\ Budget <= Budget'
      /\ x' = x + 1 /\ y' = y => Budget' = Budget + BatchLimit
      /\ x' = x /\ y' = y + 1 => Budget' = Budget + MaxRecords
  BY <1>1, <1>3, <1>8
<1> QED BY <1>2, <1>4, <1>9

\* No cursor lies behind more than all the records of the log.
LEMMA AheadBound ==
  ASSUME TInv, RadioInv, NEW c \in Int, NEW d \in Int
  PROVE  Ahead(radio, d) <= Ahead(radio, c) + MaxRecords
<1>1. /\ radio \in Seq(Seq(Message)) /\ Len(radio) \in Nat /\ MaxRecords \in Nat
      /\ \A i \in 1..Len(radio) : Head(radio[i]).id \in Nat
  BY SchedulerFacts, LimitFacts DEF TInv, RadioInv, WholeIn
<1>2. /\ Ahead(radio, c) \in Int /\ Ahead(radio, d) \in Int
      /\ Len(radio) - Cardinality(IdsOf(radio)) <= Ahead(radio, c)
      /\ Cardinality(IdsOf(radio)) \in Nat /\ Cardinality(FromIn(radio, d)) \in Nat
  BY ONLY <1>1, IdsFacts
<1>3. FromIn(radio, d) \subseteq 0..(MaxRecords - 1)
  BY <1>1, LogBound DEF FromIn, IdsOf, RadioInv, WholeIn
<1>4. IsFiniteSet(0..(MaxRecords - 1)) /\ Cardinality(0..(MaxRecords - 1)) = MaxRecords
  <2>1. 0 \in Int /\ MaxRecords - 1 \in Int BY <1>1
  <2>2. IsFiniteSet(0..(MaxRecords - 1)) BY <2>1, FS_Interval
  <2>3. Cardinality(0..(MaxRecords - 1)) =
          IF 0 > MaxRecords - 1 THEN 0 ELSE (MaxRecords - 1) - 0 + 1
    BY <2>1, FS_Interval
  <2> QED BY <1>1, <2>2, <2>3
<1>5. Cardinality(FromIn(radio, d)) <= MaxRecords BY <1>3, <1>4, FS_Subset
<1> QED BY <1>1, <1>2, <1>5 DEF Ahead

\* The budget pays for every record that is sent again.
LEMMA ResendStep ==
  TInv /\ PartInv /\ RadioInv /\ BatchInv /\ ResendInv /\ [Next]_vars => ResendInv'
<1> SUFFICES ASSUME TInv, PartInv, RadioInv, BatchInv, ResendInv, [Next]_vars
             PROVE  ResendInv'
  OBVIOUS
<1> DEFINE B == Budget
           C == Budget'
<1>1. /\ B \in Nat /\ C \in Nat /\ B <= C
      /\ Fault => C = B + BatchLimit
      /\ AnyFault /\ cuts' = cuts + 1 => C = B + MaxRecords
      /\ Unsaved \in Nat /\ Unsaved <= BatchLimit /\ BatchLimit \in Nat /\ MaxRecords \in Nat
  BY BudgetFacts, LimitFacts
<1>2. /\ mpc # "load" => Ahead(radio, telemetry_cursor) <= B
      /\ Ahead(radio, state_file.cursor) <= B + Unsaved
  BY DEF ResendInv
<1>3. SUFFICES /\ mpc' # "load" => Ahead(radio', telemetry_cursor') <= C
               /\ Ahead(radio', state_file'.cursor) <= C + Unsaved'
  BY DEF ResendInv, Ahead, IdsOf, FromIn
<1>4. /\ radio \in Seq(Seq(Message)) /\ telemetry_cursor \in Nat
      /\ state_file.cursor \in Int
      /\ \A i \in 1..Len(radio) : Head(radio[i]).id \in Nat
  BY SchedulerFacts, LimitFacts
     DEF TInv, TypeOK, TypeScheduler, NoFile, RadioInv, WholeIn
<1>5. /\ Ahead(radio, telemetry_cursor) \in Int /\ Ahead(radio, state_file.cursor) \in Int
      /\ Ahead(radio, -1) = Ahead(radio, 0)
  <2>1. /\ \A c \in Int : Ahead(radio, c) \in Int
        /\ Ahead(radio, -1) = Ahead(radio, 0)
    BY ONLY <1>4, IdsFacts
  <2>2. telemetry_cursor \in Int BY <1>4
  <2> QED BY <1>4, <2>1, <2>2
<1> HIDE DEF B, C
<1>6. CASE /\ UNCHANGED <<radio, telemetry_cursor, state_file>> /\ Unsaved' = Unsaved
           /\ mpc' # "load" => mpc # "load"
  BY <1>1, <1>2, <1>5, <1>6
<1>7. CASE Load
  <2>1. /\ mpc = "load" /\ Unsaved = 0 /\ Unsaved' = 0
        /\ UNCHANGED <<radio, state_file>>
    BY <1>7 DEF Load, Unsaved, InBatch
  <2>2. Ahead(radio, telemetry_cursor') = Ahead(radio, state_file.cursor)
    <3>1. \/ telemetry_cursor' = state_file.cursor
          \/ telemetry_cursor' = 0 /\ state_file.cursor = -1
      BY <1>7 DEF Load, NoFile, NoCursor
    <3> QED BY <1>5, <3>1
  <2> QED BY <1>1, <1>2, <1>5, <2>1, <2>2
<1>8. CASE Restart
  <2>1. /\ mpc' = "load" /\ Unsaved' = 0 /\ Fault
        /\ UNCHANGED <<radio, state_file>>
    BY <1>8 DEF Restart, Unsaved, InBatch
  <2> QED BY <1>1, <1>2, <1>5, <2>1
<1>9. CASE Save
  <2>1. /\ mpc # "load" /\ Unsaved' = 0 /\ UNCHANGED <<radio, telemetry_cursor>>
    BY <1>9 DEF Save, Saves, AfterSave, Unsaved, InBatch, statics
  <2>2. \/ state_file'.cursor = telemetry_cursor
        \/ Fault /\ UNCHANGED state_file
        \/ AnyFault /\ cuts' = cuts + 1 /\ state_file' \in CutShort
    BY <1>9 DEF Save
  <2>3. Ahead(radio, telemetry_cursor) <= C BY <1>1, <1>2, <1>5, <2>1
  <2>4. CASE state_file'.cursor = telemetry_cursor BY <1>1, <1>5, <2>1, <2>3, <2>4
  <2>5. CASE Fault /\ UNCHANGED state_file
    <3>1. Ahead(radio, state_file.cursor) <= C BY <1>1, <1>2, <1>5, <2>5
    <3> QED BY <1>1, <1>5, <2>1, <2>3, <2>5, <3>1
  <2>6. CASE AnyFault /\ cuts' = cuts + 1 /\ state_file' \in CutShort
    <3>1. state_file'.cursor \in Int BY <2>6, CutFacts, LimitFacts DEF TInv, NoFile
    <3>2. /\ Ahead(radio, state_file'.cursor) <= Ahead(radio, telemetry_cursor) + MaxRecords
          /\ Ahead(radio, state_file'.cursor) \in Int
      <4>1. telemetry_cursor \in Int BY <1>4
      <4>2. \A c \in Int : Ahead(radio, c) \in Int BY ONLY <1>4, IdsFacts
      <4> QED BY <3>1, <4>1, <4>2, AheadBound
    <3>3. C = B + MaxRecords /\ Ahead(radio, telemetry_cursor) <= B BY <1>1, <1>2, <2>1, <2>6
    <3>4. Ahead(radio, state_file'.cursor) <= C BY <1>1, <1>5, <3>2, <3>3
    <3> QED BY <1>1, <2>1, <2>3, <3>2, <3>4
  <2> QED BY <2>2, <2>4, <2>5, <2>6
<1>10. CASE ReceiveRecord /\ ~UNCHANGED radio
  <2> DEFINE m == Head(inbox)
             s == Append(got, m)
  <2>1. /\ m \in Message /\ m.kind = "record" /\ m.n > 0 /\ Fits(m) /\ m.n = m.of
        /\ GenuineIn(m, log) /\ radio' = Append(radio, s) /\ s \in Seq(Message)
        /\ telemetry_cursor' = m.next /\ sentInBatch' = sentInBatch + 1
        /\ (IF m.end \/ sentInBatch + 1 = BatchLimit
            THEN EndBatch(m.next) ELSE mpc' = "request")
    BY <1>10, RadioStep
  <2>2. mpc = "record" /\ UNCHANGED <<cursor_before_batch, state_file>>
    BY <1>10 DEF ReceiveRecord
  <2>3. Head(s).id = telemetry_cursor /\ m.id = telemetry_cursor
    <3> HIDE DEF m
    <3> QED BY <2>1, <2>2, SentFacts
  <2>4. m.next \in Nat /\ telemetry_cursor < m.next BY <2>1, <2>3 DEF GenuineIn
  <2>5. mpc' \in {"request", "saveBatch"}
    <3>1. cursor_before_batch \in Nat /\ cursor_before_batch <= telemetry_cursor
      BY <2>2, LimitFacts DEF BatchInv, InBatch, TInv, TypeOK, TypeScheduler
    <3>2. m.next # cursor_before_batch BY <1>4, <2>4, <3>1
    <3> QED BY <2>1, <3>2 DEF EndBatch
  <2>6. Unsaved' = Unsaved + 1 BY <2>1, <2>2, <2>5 DEF Unsaved, InBatch
  <2> HIDE DEF m, s
  <2>7. /\ Ahead(Append(radio, s), m.next) <= Ahead(radio, telemetry_cursor)
        /\ \A x \in Int : Ahead(Append(radio, s), x) <= Ahead(radio, x) + 1
    BY <1>4, <2>1, <2>3, <2>4, AheadPush
  <2>8. \A x \in Int : Ahead(Append(radio, s), x) \in Int
    <3>1. Append(radio, s) \in Seq(Seq(Message))
          /\ \A i \in 1..Len(Append(radio, s)) : Head(Append(radio, s)[i]).id \in Nat
      BY <1>4, <2>1, <2>3, AppendFacts
    <3> QED BY <3>1, IdsFacts
  <2>9. Ahead(radio', telemetry_cursor') <= C
    <3>1. Ahead(radio', telemetry_cursor') <= Ahead(radio, telemetry_cursor)
          /\ Ahead(radio', telemetry_cursor') \in Int
      <4>1. m.next \in Int BY <2>4
      <4> QED BY <2>1, <2>7, <2>8, <4>1
    <3>2. Ahead(radio, telemetry_cursor) <= B BY <1>2, <2>2
    <3> QED BY <1>1, <1>5, <3>1, <3>2
  <2>10. Ahead(radio', state_file'.cursor) <= C + Unsaved'
    <3>1. Ahead(radio', state_file'.cursor) \in Int
          /\ Ahead(radio', state_file'.cursor) <= Ahead(radio, state_file.cursor) + 1
      BY <1>4, <2>1, <2>2, <2>7, <2>8
    <3> QED BY <1>1, <1>2, <1>5, <2>6, <3>1
  <2> QED BY <2>9, <2>10
<1> QED BY <1>6, <1>7, <1>8, <1>9, <1>10, BatchStep

\* A record is sent again only because mission died or could not save its cursor: the
\* radio never has more repeated records than one batch for every fault, and the log
\* for every fault that cut the state file short.
THEOREM ResendTheorem == Spec => []ResendsBounded
<1> DEFINE I == TInv /\ PartInv /\ RadioInv /\ BatchInv /\ ResendInv
<1>1. Init => I
  <2> SUFFICES ASSUME Init PROVE PartInv /\ RadioInv /\ BatchInv /\ ResendInv
    BY InitTypes
  <2>1. PartInv /\ RadioInv /\ BatchInv
    BY DEF Init, PartInv, RadioInv, BatchInv, InBatch
  <2>2. /\ Len(radio) = 0 /\ radio = <<>> /\ mpc = "load" /\ faults = 0
        /\ cuts = 0 /\ Unsaved = 0
    BY DEF Init, Unsaved, InBatch
  <2>3. IdsOf(radio) = {} BY <2>2 DEF IdsOf
  <2>4. FromIn(radio, state_file.cursor) = {} BY <2>3 DEF FromIn
  <2>5. Cardinality({}) = 0 BY FS_EmptySet
  <2>6. Ahead(radio, state_file.cursor) = 0
    <3>1. Ahead(radio, state_file.cursor) = 0 - 0 + 0 BY <2>2, <2>3, <2>4, <2>5 DEF Ahead
    <3> QED BY <3>1
  <2>7. (0 - 0) * BatchLimit = 0 /\ 0 * MaxRecords = 0 BY LimitFacts
  <2>9. Budget = 0 BY <2>2, <2>7 DEF Budget
  <2>8. Ahead(radio, state_file.cursor) <= Budget + Unsaved
    BY <2>2, <2>6, <2>9
  <2> QED BY <2>1, <2>2, <2>8 DEF ResendInv
<1>2. I /\ [Next]_vars => I'
  BY TypeInductive, PartStep, WholeStep, BatchStep, ResendStep
<1>3. I => ResendsBounded
  <2> SUFFICES ASSUME I PROVE Len(radio) - Cardinality(IdsOf(radio)) <= Budget
    BY DEF ResendsBounded, IdsOf, Budget
  <2> DEFINE R == Len(radio) - Cardinality(IdsOf(radio))
             B == Budget
  <2>1. /\ radio \in Seq(Seq(Message)) /\ telemetry_cursor \in Int
        /\ state_file.cursor \in Int
        /\ \A i \in 1..Len(radio) : Head(radio[i]).id \in Nat
    BY SchedulerFacts, LimitFacts
       DEF TInv, TypeOK, TypeScheduler, NoFile, RadioInv, WholeIn
  <2>2. /\ R <= Ahead(radio, telemetry_cursor) /\ R <= Ahead(radio, state_file.cursor)
        /\ Ahead(radio, telemetry_cursor) \in Int /\ Ahead(radio, state_file.cursor) \in Int
        /\ R \in Int
    <3>1. /\ Cardinality(IdsOf(radio)) \in Nat
          /\ \A c \in Int : Ahead(radio, c) \in Int /\ R <= Ahead(radio, c)
      BY ONLY <2>1, IdsFacts
    <3>2. Len(radio) \in Nat BY <2>1
    <3>3. R \in Int BY <3>1, <3>2
    <3> HIDE DEF R
    <3> QED BY <2>1, <3>1, <3>3
  <2>3. B \in Int
    <3>1. /\ faults \in Nat /\ cuts \in Nat /\ BatchLimit \in Nat /\ MaxRecords \in Nat
      BY LimitFacts DEF TInv, TypeOK, TypeData
    <3>2. (faults - cuts) * BatchLimit \in Int /\ cuts * MaxRecords \in Int BY <3>1
    <3> QED BY <3>2 DEF Budget
  <2>4. CASE mpc # "load"
    <3>1. Ahead(radio, telemetry_cursor) <= B BY <2>4 DEF ResendInv
    <3> HIDE DEF R, B
    <3>2. R <= B BY <2>2, <2>3, <3>1
    <3> QED BY <3>2 DEF R, B
  <2>5. CASE mpc = "load"
    <3>1. Unsaved = 0 BY <2>5 DEF Unsaved, InBatch
    <3>2. Ahead(radio, state_file.cursor) <= B + 0 BY <3>1 DEF ResendInv
    <3> HIDE DEF R, B
    <3>3. R <= B BY <2>2, <2>3, <3>2
    <3> QED BY <3>3 DEF R, B
  <2> QED BY <2>4, <2>5
<1> QED BY <1>1, <1>2, <1>3, PTL DEF Spec


=============================================================================
