------------------------------ MODULE Mission ------------------------------
(***************************************************************************)
(* The mission role: the scripted timeline (scheduler.c) and what it asks  *)
(* of the other roles (payload_commander.c), with the data role's storage  *)
(* thread (storage.c, telemetry_store.c) and compute as its peers.         *)
(*                                                                         *)
(* One thread walks through the phases of a photo cycle and, between two   *)
(* phase steps, downlinks a batch of telemetry records.  All answers come  *)
(* through mission's one socket: results of compute, chunks of a file and  *)
(* chunks of telemetry records.  An answer that comes after its wait ended *)
(* stays on the socket and meets the next wait.                            *)
(*                                                                         *)
(* The phase and the telemetry cursor survive a restart in a state file.   *)
(* A byte offset of the log is the number of the records before it.  Time  *)
(* is abstract: an interval elapses at any moment, and a wait for an       *)
(* answer that is under way may end first (a fault).                       *)
(***************************************************************************)
EXTENDS Integers, FiniteSets, Sequences, SequencesExt

CONSTANTS
  PhotoChunks,    \* chunks of the compressed photo
  PhotoCap,       \* chunks that fit into photo_buf
  RetryLimit,     \* STEP_RETRY_LIMIT
  BatchLimit,     \* TELEMETRY_BATCH_LIMIT
  Backlog,        \* IPC_BACKLOG
  Lengths,        \* chunks a telemetry record may take
  MaxRecords,     \* bound: telemetry records that arrive
  MaxCycles,      \* bound: photo cycles begun
  MaxFaults       \* bound: faults of any kind

ASSUME LimitsAssumption ==
  /\ {PhotoChunks, PhotoCap, RetryLimit, BatchLimit, Backlog} \subseteq Nat \ {0}
  /\ PhotoCap >= PhotoChunks
  /\ Lengths \subseteq Nat \ {0}
ASSUME BoundsAssumption == {MaxRecords, MaxCycles, MaxFaults} \subseteq Nat

Phases    == {"ascent", "photo", "compress", "downlink", "cooldown"}
CyclePhases == {"photo", "compress", "downlink"}
Torn      == 0                \* length of a record that was cut off
Lost      == MaxRecords + 1   \* an offset behind a torn record, inside a later one
Inside    == MaxRecords + 2   \* an offset inside a record that was sent
Nothing   == [kind |-> "nothing", id |-> 0, n |-> 0, of |-> 0, next |-> 0,
              end |-> FALSE]
NoFile    == [phase |-> "none", cursor |-> 0]   \* none, or one that is not valid
NoCursor  == -1               \* a state file from before the cursor

VARIABLES
  phase, retry_count, telemetry_cursor,   \* scheduler.c's statics
  state_file,
  mpc,             \* where the scheduler thread is
  next_job_id,
  got,             \* what photo_buf or encoded holds of the current answer
  sentInBatch, cursor_before_batch,
  inbox,           \* mission's socket
  compute,         \* job ids compute has not answered
  dataInbox, stream,   \* data: requests; the next message of its answer
  log,             \* the telemetry log: the length of each record
  radio,           \* the records handed to the radio
  arrived, cycles, faults,
  cuts             \* the faults that cut the state file short

statics == <<phase, retry_count, telemetry_cursor>>
answer  == <<got, inbox>>
batch   == <<sentInBatch, cursor_before_batch>>
data    == <<dataInbox, stream>>
counts  == <<arrived, cycles, faults, cuts>>
vars    == <<statics, state_file, mpc, next_job_id, answer, batch, compute, data,
             log, radio, counts>>

Waits == {"result", "chunks", "record"}
Saves == {"saveFresh", "savePhase", "saveBatch"}

Message ==
  [kind : {"result", "chunk", "record"}, id : Nat, n : Nat, of : Nat,
   next : Nat, end : BOOLEAN]
Request == [kind : {"photo", "record", "append"}, id : Nat]

TypeScheduler ==
  /\ phase \in Phases /\ retry_count \in 0..(RetryLimit - 1)
  /\ telemetry_cursor \in 0..Inside
  /\ state_file = NoFile \/ state_file \in [phase : Phases, cursor : -1..Inside]
  /\ mpc \in {"load", "phase", "telemetry", "request"} \cup Waits \cup Saves
  /\ next_job_id \in Nat \ {0}
  /\ sentInBatch \in 0..BatchLimit /\ cursor_before_batch \in 0..Inside

TypeAnswers ==
  /\ got \in Seq(Message) /\ (mpc = "chunks" => Len(got) <= PhotoCap)
  /\ inbox \in Seq(Message) /\ Len(inbox) <= Backlog
  /\ compute \in Seq(Nat)

TypeData ==
  /\ dataInbox \in Seq(Request) /\ Len(dataInbox) <= Backlog
  /\ stream \in Message \cup {Nothing}
  /\ log \in Seq(Lengths \cup {Torn})
  /\ radio \in Seq(Seq(Message))
  /\ arrived \in 0..MaxRecords /\ cycles \in 0..MaxCycles /\ faults \in 0..MaxFaults
  /\ cuts \in 0..faults

\* Every variable has its type; no step is tried more often than the limit and the
\* photo never outgrows its buffer.
TypeOK == TypeScheduler /\ TypeAnswers /\ TypeData

Init ==
  /\ phase = "ascent" /\ retry_count = 0 /\ telemetry_cursor = 0
  /\ state_file \in {NoFile, [phase |-> "ascent", cursor |-> NoCursor]}
  /\ mpc = "load" /\ next_job_id = 1
  /\ got = <<>> /\ inbox = <<>>
  /\ sentInBatch = 0 /\ cursor_before_batch = 0
  /\ compute = <<>> /\ dataInbox = <<>> /\ stream = Nothing
  /\ log = <<>> /\ radio = <<>>
  /\ arrived = 0 /\ cycles = 0 /\ faults = 0 /\ cuts = 0

AnyFault == faults < MaxFaults /\ faults' = faults + 1 /\ UNCHANGED <<arrived, cycles>>
Fault == AnyFault /\ UNCHANGED cuts

Room(q) == Len(q) < Backlog

-----------------------------------------------------------------------------
(***************************************************************************)
(* The state file.                                                         *)
(***************************************************************************)
\* mission_state_load
Load ==
  /\ mpc = "load"
  /\ \/ /\ state_file # NoFile
        /\ phase' = state_file.phase
        /\ telemetry_cursor' =
             IF state_file.cursor = NoCursor THEN 0 ELSE state_file.cursor
        /\ mpc' = "phase"
     \/ /\ state_file = NoFile
        /\ phase' = "ascent" /\ telemetry_cursor' = 0
        /\ mpc' = "saveFresh"
  /\ UNCHANGED <<retry_count, state_file, next_job_id, answer, batch, compute,
                 data, log, radio, counts>>

AfterSave == IF mpc = "savePhase" THEN "telemetry" ELSE "phase"

\* What a prefix of the line says when it is read: nothing valid, no cursor, or a
\* cursor that lacks its last digits and is the offset of an earlier record or of
\* a byte inside one.
CutShort ==
  {NoFile}
  \cup [phase : {phase},
        cursor : IF telemetry_cursor = Inside THEN {NoCursor, Inside}
                 ELSE (NoCursor..telemetry_cursor) \cup {Inside}]

\* mission_state_save: the rename replaces the whole file, or nothing when the
\* temporary file cannot be opened or renamed.  Whether the line was written is
\* not looked at: the rename puts a file that was cut short in the place of the
\* good one.
Save ==
  /\ mpc \in Saves
  /\ mpc' = AfterSave
  /\ \/ /\ state_file' = [phase |-> phase, cursor |-> telemetry_cursor]
        /\ UNCHANGED counts
     \/ Fault /\ UNCHANGED state_file
     \/ AnyFault /\ cuts' = cuts + 1 /\ state_file' \in CutShort
  /\ UNCHANGED <<statics, next_job_id, answer, batch, compute, data, log,
                 radio>>

\* set_state, up to the save.
SetState(next) ==
  /\ phase' = next /\ retry_count' = 0 /\ mpc' = "savePhase"
  /\ UNCHANGED telemetry_cursor

\* Mutant of StepFails: a failed attempt is not counted.
StepFailsUncounted ==
  /\ mpc' = "telemetry"
  /\ UNCHANGED <<phase, retry_count, telemetry_cursor>>

\* The current phase's step returned -1.
StepFails ==
  \/ retry_count + 1 >= RetryLimit /\ SetState("cooldown")
  \/ /\ retry_count + 1 < RetryLimit
     /\ retry_count' = retry_count + 1 /\ mpc' = "telemetry"
     /\ UNCHANGED <<phase, telemetry_cursor>>

-----------------------------------------------------------------------------
(***************************************************************************)
(* The phases: the switch of scheduler_thread.                             *)
(***************************************************************************)
\* MISSION_WAITING_FOR_ASCENT and MISSION_COOLDOWN: has the time elapsed?
AwaitCycle ==
  /\ mpc = "phase" /\ phase \in {"ascent", "cooldown"}
  /\ \/ /\ cycles < MaxCycles
        /\ cycles' = cycles + 1
        /\ SetState("photo")
        /\ UNCHANGED <<arrived, faults, cuts>>
     \/ mpc' = "telemetry" /\ UNCHANGED <<statics, counts>>
  /\ UNCHANGED <<state_file, next_job_id, answer, batch, compute, data, log,
                 radio>>

TakePhoto ==
  /\ mpc = "phase" /\ phase = "photo"
  /\ SetState("compress") \/ StepFails
  /\ UNCHANGED <<state_file, next_job_id, answer, batch, compute, data, log,
                 radio, counts>>

\* payload_commander_compress_photo does not look at IPC_send's result.
RequestCompression ==
  /\ mpc = "phase" /\ phase = "compress"
  /\ mpc' = "result"
  /\ next_job_id' = next_job_id + 1
  /\ \/ compute' = Append(compute, next_job_id) /\ UNCHANGED counts
     \/ Fault /\ UNCHANGED compute
  /\ UNCHANGED <<statics, state_file, answer, batch, data, log, radio>>

ReceiveResult ==
  /\ mpc = "result" /\ inbox # <<>>
  /\ inbox' = Tail(inbox)
  /\ LET m    == Head(inbox)
         ours == m.kind = "result" /\ m.id = next_job_id - 1
     IN  \/ ~ours /\ UNCHANGED <<statics, mpc>>
         \/ ours /\ m.n = 1 /\ SetState("downlink")
         \/ ours /\ m.n = 0 /\ StepFails
  /\ UNCHANGED <<state_file, next_job_id, got, batch, compute, data, log,
                 radio, counts>>

RequestPhoto ==
  /\ mpc = "phase" /\ phase = "downlink"
  /\ Room(dataInbox)
  /\ mpc' = "chunks" /\ got' = <<>>
  /\ \/ dataInbox' = Append(dataInbox, [kind |-> "photo", id |-> 0])
        /\ UNCHANGED counts
     \/ Fault /\ UNCHANGED dataInbox
  /\ UNCHANGED <<statics, state_file, next_job_id, inbox, batch, compute, stream,
                 log, radio>>

\* The loop of payload_commander_downlink_photo; after the last chunk the radio
\* takes the photo or refuses it.
ReceiveChunk ==
  /\ mpc = "chunks" /\ inbox # <<>>
  /\ inbox' = Tail(inbox)
  /\ LET m == Head(inbox) IN
       \/ m.kind # "chunk" /\ UNCHANGED <<statics, mpc, got, counts>>
       \/ /\ m.kind = "chunk" /\ (m.n = 0 \/ Len(got) = PhotoCap)
          /\ StepFails /\ UNCHANGED <<got, counts>>
       \/ /\ m.kind = "chunk" /\ m.n > 0 /\ Len(got) < PhotoCap
          /\ got' = Append(got, m)
          /\ \/ ~m.end /\ UNCHANGED <<statics, mpc, counts>>
             \/ m.end /\ SetState("cooldown") /\ UNCHANGED counts
             \/ m.end /\ Fault /\ StepFails
  /\ UNCHANGED <<state_file, next_job_id, batch, compute, data, log, radio>>

-----------------------------------------------------------------------------
(***************************************************************************)
(* Telemetry: run_telemetry_downlink_batch.                                *)
(***************************************************************************)
NotDue ==
  /\ mpc = "telemetry"
  /\ mpc' = "phase"
  /\ UNCHANGED <<statics, state_file, next_job_id, answer, batch, compute, data,
                 log, radio, counts>>

BeginBatch ==
  /\ mpc = "telemetry"
  /\ mpc' = "request"
  /\ sentInBatch' = 0 /\ cursor_before_batch' = telemetry_cursor
  /\ UNCHANGED <<statics, state_file, next_job_id, answer, compute, data, log,
                 radio, counts>>

\* Mutant of EndBatch: the cursor is kept in memory only.
EndBatchNeverSaves(cursor) == mpc' = "phase"

\* The batch ends at this cursor: any transmitted prefix is saved.
EndBatch(cursor) ==
  mpc' = IF cursor # cursor_before_batch THEN "saveBatch" ELSE "phase"

RequestRecord ==
  /\ mpc = "request" /\ Room(dataInbox)
  /\ got' = <<>>
  /\ \/ /\ dataInbox' = Append(dataInbox,
                               [kind |-> "record", id |-> telemetry_cursor])
        /\ mpc' = "record"
        /\ UNCHANGED counts
     \/ Fault /\ EndBatch(telemetry_cursor) /\ UNCHANGED dataInbox
  /\ UNCHANGED <<statics, state_file, next_job_id, inbox, batch, compute, stream,
                 log, radio>>

\* Mutant of Fits: a chunk's place in the record is not looked at.
FitsAnywhere(m) ==
  /\ m.id = telemetry_cursor
  /\ got # <<>> => m.of = Head(got).of /\ m.next = Head(got).next

\* The chunk continues the record that was asked for.
Fits(m) ==
  /\ m.id = telemetry_cursor
  /\ m.n = Len(got) + 1
  /\ got # <<>> => m.of = Head(got).of /\ m.next = Head(got).next

\* Mutant of Transmit: the cursor moves although the radio refused the record.
TransmitAlwaysMoves(m) ==
  /\ telemetry_cursor' = m.next
  /\ sentInBatch' = sentInBatch + 1
  /\ \/ radio' = Append(radio, Append(got, m)) /\ UNCHANGED counts
     \/ Fault /\ UNCHANGED radio
  /\ IF m.end \/ sentInBatch + 1 = BatchLimit
     THEN EndBatch(m.next) ELSE mpc' = "request"

\* The record is complete: the cursor moves if the radio takes it.
Transmit(m) ==
  \/ /\ radio' = Append(radio, Append(got, m))
     /\ telemetry_cursor' = m.next
     /\ sentInBatch' = sentInBatch + 1
     /\ IF m.end \/ sentInBatch + 1 = BatchLimit
        THEN EndBatch(m.next) ELSE mpc' = "request"
     /\ UNCHANGED counts
  \/ /\ Fault /\ EndBatch(telemetry_cursor)
     /\ UNCHANGED <<radio, telemetry_cursor, sentInBatch>>

\* The loop of payload_commander_downlink_telemetry_record.  The end of the
\* log, an error status and a chunk that does not fit end the batch.
ReceiveRecord ==
  /\ mpc = "record" /\ inbox # <<>>
  /\ inbox' = Tail(inbox)
  /\ LET m == Head(inbox) IN
       \/ /\ m.kind # "record"
          /\ UNCHANGED <<mpc, got, telemetry_cursor, sentInBatch, radio, counts>>
       \/ /\ m.kind = "record" /\ (m.n = 0 \/ ~Fits(m))
          /\ EndBatch(telemetry_cursor)
          /\ UNCHANGED <<got, telemetry_cursor, sentInBatch, radio, counts>>
       \/ /\ m.kind = "record" /\ m.n > 0 /\ Fits(m) /\ m.n < m.of
          /\ got' = Append(got, m)
          /\ UNCHANGED <<mpc, telemetry_cursor, sentInBatch, radio, counts>>
       \/ /\ m.kind = "record" /\ m.n > 0 /\ Fits(m) /\ m.n = m.of
          /\ Transmit(m)
          /\ UNCHANGED got
  /\ UNCHANGED <<phase, retry_count, state_file, next_job_id,
                 cursor_before_batch, compute, data, log>>

-----------------------------------------------------------------------------
\* The answer mission waits for is still under way.
UnderWay == IF mpc = "result" THEN compute # <<>>
            ELSE \/ stream # Nothing
                 \/ \E i \in 1..Len(dataInbox) : dataInbox[i].kind # "append"

\* The wait ends without an answer.
TimesOut ==
  /\ mpc \in Waits /\ inbox = <<>>
  /\ Fault \/ (~UnderWay /\ UNCHANGED counts)
  /\ \/ mpc = "record" /\ EndBatch(telemetry_cursor) /\ UNCHANGED statics
     \/ mpc # "record" /\ StepFails
  /\ UNCHANGED <<state_file, next_job_id, answer, batch, compute, data, log,
                 radio>>

\* Mission dies and is started again: only the state file is left, and nothing
\* waits on the new socket.
Restart ==
  /\ Fault
  /\ mpc' = "load" /\ next_job_id' = 1 /\ retry_count' = 0
  /\ phase' = "ascent" /\ telemetry_cursor' = 0
  /\ got' = <<>> /\ inbox' = <<>>
  /\ sentInBatch' = 0 /\ cursor_before_batch' = 0
  /\ UNCHANGED <<state_file, compute, data, log, radio>>

-----------------------------------------------------------------------------
(***************************************************************************)
(* The data role: storage_thread.                                          *)
(***************************************************************************)
RecordMessage(off, n, of, next, end) ==
  [kind |-> "record", id |-> off, n |-> n, of |-> of, next |-> next, end |-> end]
ChunkMessage(n) ==
  [kind |-> "chunk", id |-> 0, n |-> n, of |-> PhotoChunks, next |-> 0,
   end |-> TRUE]

\* Mutant of ReadRecord: the last record is taken for the end of the log.
ReadRecordOffByOne(off) ==
  IF off + 1 >= Len(log) THEN {RecordMessage(off, 0, 0, off, TRUE)}
  ELSE IF log[off + 1] = Torn THEN {RecordMessage(off, 0, 0, off, FALSE)}
  ELSE {RecordMessage(off, 1, log[off + 1], off + 1, FALSE)}

\* A record that was cut off: it is not valid while nothing follows it; later its
\* length takes in what follows, and the offset behind it is the end of a later
\* record or points into one.
ReadTorn(off) ==
  {RecordMessage(off, 0, 0, off, FALSE)}
  \cup {RecordMessage(off, 1, n, next, next = Len(log)) : n \in Lengths,
          next \in IF off + 1 = Len(log) THEN {} ELSE ((off + 2)..Len(log)) \cup {Lost}}

\* telemetry_store_read_record, as the first reply that handle_telemetry_read
\* sends.
ReadRecord(off) ==
  IF off >= Lost THEN {RecordMessage(off, 0, 0, off, FALSE)}
  ELSE IF off >= Len(log) THEN {RecordMessage(off, 0, 0, off, TRUE)}
  ELSE IF log[off + 1] = Torn THEN ReadTorn(off)
  ELSE {RecordMessage(off, 1, log[off + 1], off + 1, off + 1 = Len(log))}

DataReceive ==
  /\ stream = Nothing /\ dataInbox # <<>>
  /\ dataInbox' = Tail(dataInbox)
  /\ LET q == Head(dataInbox) IN
       \/ /\ q.kind = "photo"
          /\ \/ stream' = ChunkMessage(1) /\ UNCHANGED counts
             \/ Fault /\ stream' = ChunkMessage(0)
          /\ UNCHANGED log
       \/ /\ q.kind = "record"
          /\ stream' \in ReadRecord(q.id)
          /\ UNCHANGED <<log, counts>>
       \/ /\ q.kind = "append"
          /\ \/ log' = Append(log, q.id) /\ UNCHANGED counts
             \/ Fault /\ log' \in {log, Append(log, Torn)}
          /\ UNCHANGED stream
  /\ UNCHANGED <<statics, state_file, mpc, next_job_id, answer, batch, compute,
                 radio>>

\* Only the last message of an answer says that the file or the log ended.
Reply == [stream EXCEPT !.end = @ /\ stream.n \in {0, stream.of}]

DataSend ==
  /\ stream # Nothing /\ Room(inbox)
  /\ inbox' = Append(inbox, Reply)
  /\ stream' = IF stream.n \in {0, stream.of} THEN Nothing
               ELSE [stream EXCEPT !.n = @ + 1]
  /\ UNCHANGED <<statics, state_file, mpc, next_job_id, got, batch, compute,
                 dataInbox, log, radio, counts>>

\* The send failed for good, and with it the rest of the answer.
DataGivesUp ==
  /\ stream # Nothing /\ Fault
  /\ stream' = Nothing
  /\ UNCHANGED <<statics, state_file, mpc, next_job_id, answer, batch, compute,
                 dataInbox, log, radio>>

\* Data is started again: its socket is new and its answer forgotten.
NewData ==
  /\ stream' = Nothing /\ dataInbox' = <<>>
  /\ UNCHANGED <<statics, state_file, mpc, next_job_id, answer, batch, compute,
                 log, radio>>

DataDies == Fault /\ NewData

\* FDIR restarts a storage thread that waits for room on mission's socket while
\* mission does not read it.
DataRestarts ==
  /\ stream # Nothing /\ ~Room(inbox) /\ mpc \notin Waits
  /\ NewData /\ UNCHANGED counts

-----------------------------------------------------------------------------
(***************************************************************************)
(* compute and commands.                                                   *)
(***************************************************************************)
\* Job ids are answered in any order: BUSY overtakes the running job.
ComputeAnswers ==
  /\ Room(inbox)
  /\ \E i \in 1..Len(compute) : \E ok \in {0, 1} :
       /\ compute' = RemoveAt(compute, i)
       /\ inbox' = Append(inbox, [Nothing EXCEPT !.kind = "result",
                                                 !.id = compute[i], !.n = ok])
  /\ UNCHANGED <<statics, state_file, mpc, next_job_id, got, batch, data, log,
                 radio, counts>>

\* forward_telemetry: a board's packet, encoded, for the log.
ForwardTelemetry ==
  /\ arrived < MaxRecords /\ Room(dataInbox)
  /\ arrived' = arrived + 1
  /\ \E of \in Lengths :
       dataInbox' = Append(dataInbox, [kind |-> "append", id |-> of])
  /\ UNCHANGED <<statics, state_file, mpc, next_job_id, answer, batch, compute,
                 stream, log, radio, cycles, faults, cuts>>

-----------------------------------------------------------------------------
MissionStep ==
  \/ Load \/ Save
  \/ AwaitCycle \/ TakePhoto \/ RequestCompression \/ ReceiveResult
  \/ RequestPhoto \/ ReceiveChunk
  \/ NotDue \/ BeginBatch \/ RequestRecord \/ ReceiveRecord
  \/ TimesOut
DataStep == DataReceive \/ DataSend

Next == \/ MissionStep \/ Restart
        \/ DataStep \/ DataGivesUp \/ DataDies \/ DataRestarts
        \/ ComputeAnswers \/ ForwardTelemetry

Spec == Init /\ [][Next]_vars

(***************************************************************************)
(* Fairness.  Mission's and data's threads run, compute answers (see       *)
(* EveryRequestAnswered in ComputeJobs), the downlink interval elapses     *)
(* again and again, and FDIR restarts a storage thread that hangs.         *)
(***************************************************************************)
FairSpec == Spec /\ WF_vars(MissionStep) /\ SF_vars(BeginBatch)
                 /\ WF_vars(DataStep) /\ WF_vars(DataRestarts)
                 /\ WF_vars(ComputeAnswers)

-----------------------------------------------------------------------------
Sent(off)    == \E i \in 1..Len(radio) : Head(radio[i]).id = off
TornUpTo(off) == \E i \in 1..Len(log) : i <= off + 1 /\ log[i] = Torn

\* A record handed to the radio consists of all the chunks of one record, in
\* order, although chunks that came too late for an earlier request are on the
\* same socket; only a record that was cut off in the log may be a mixture.
RecordIsWhole ==
  \A i \in 1..Len(radio) :
    LET s == radio[i]  off == Head(s).id IN
      \/ /\ Len(s) = log[off + 1]
         /\ \A n \in 1..Len(s) : s[n].id = off /\ s[n].n = n
      \/ log[off + 1] = Torn

\* Only whole records leave, and the sockets and counters keep to their bounds, with
\* late chunks and retries in any order (payload_commander.c, scheduler.c).
MissionInv == TypeOK /\ RecordIsWhole

\* "Byte offset of the first telemetry record that has not yet been
\* successfully radio": every record before the cursor, in memory and in
\* the state file, was handed to the radio, whenever mission dies and whether
\* or not the radio and the state file worked.
AllSentBefore(cursor) ==
  cursor # Inside => \A off \in 0..(cursor - 1) : Sent(off) \/ TornUpTo(off)
CursorIsSent == AllSentBefore(telemetry_cursor) /\ AllSentBefore(state_file.cursor)

\* A record is sent again only because mission died or could not save its
\* cursor: each such fault costs at most one batch, or, when it cut the state file
\* short, at most the log.
ResendsBounded ==
  Len(radio) - Cardinality({Head(radio[i]).id : i \in 1..Len(radio)})
    <= (faults - cuts) * BatchLimit + cuts * MaxRecords

\* A photo cycle always ends, in the cooldown or with the process: no phase is
\* retried for ever, and no answer is awaited for ever.
CycleEnds == phase \in CyclePhases ~> phase \notin CyclePhases

\* Data's answers find room on mission's socket from some time on.
SocketKeepsUp == <>[](stream # Nothing => Room(inbox))

\* Every record of an undamaged log reaches the radio, although stale answers make
\* requests fail, as long as they do not fill the socket again and again and the
\* state file did not leave the cursor inside a record, where every read fails.
RecordsReachRadio ==
  SocketKeepsUp =>
    \A off \in 0..(MaxRecords - 1) :
      Len(log) > off ~> Sent(off) \/ TornUpTo(off) \/ telemetry_cursor = Inside

=============================================================================
