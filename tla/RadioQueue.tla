----------------------------- MODULE RadioQueue -----------------------------
(***************************************************************************)
(* The radio's transmit queue: platform/common/radio_queue.c.              *)
(*                                                                         *)
(* Users push messages into a ring of bytes under a mutex; a thread takes  *)
(* one packet's worth of bytes at a time, sends it outside the mutex with  *)
(* retries, and remembers what it sent so that the ground can ask for it   *)
(* again.  One action is one section under the mutex or one call of the    *)
(* driver.  A byte is a cell: <<"type", c>> and <<"length", n>> are the    *)
(* message header, which may be cut by the end of the ring, and            *)
(* <<"data", m, i>> is byte i of the m-th accepted message.  A packet is   *)
(* one cell <<"frame", apid, count>> for its overhead, then its payload.   *)
(* An APID is named by its content type (route_for_content is injective).  *)
(* The statistics counters are left out.                                   *)
(***************************************************************************)
EXTENDS Naturals, Sequences

CONSTANTS Contents,        \* LG_CCSDS_CONTENT_..., the types a user may send
          Ssdv,            \* the type whose messages are whole SSDV packets
          Compressed,      \* the type that needs a parameter the queue never gives
          RawFrame,        \* RAW_FRAME
          Lengths,         \* the lengths users pass
          QueueSize,       \* RADIO_QUEUE_SIZE
          MaxPayload,      \* RADIO_MAX_PAYLOAD, also LG_CCSDS_SSDV_PACKET_SIZE
          SequenceCounts,  \* CCSDS_SPACE_PACKET_MAX_SEQUENCE_COUNT + 1
          HistorySize,     \* HISTORY_SIZE
          SendAttempts,    \* SEND_ATTEMPTS
          MaxMessages      \* bound: messages accepted in a behaviour

\* The header takes two cells: one for the type, one for the four length bytes.
MessageHeader == 2

ASSUME RadioAssumption ==
    /\ RawFrame \notin Contents /\ {Ssdv, Compressed} \subseteq Contents
    /\ Lengths \subseteq Nat
    /\ QueueSize \in Nat \ {0}
    /\ MaxPayload \in Nat \ {0}
    /\ SequenceCounts \in Nat \ {0}
    /\ HistorySize \in Nat \ {0}
    /\ SendAttempts \in Nat \ {0}
    /\ MaxMessages \in Nat

VARIABLES
    buffer, head, count,     \* the ring
    in_flight,               \* bytes taken out and not yet sent
    thread_started,          \* the tx thread exists
    accepted,                \* messages accepted so far (their names)
    tx,                      \* "waiting" for the lock and data, or "sending"
    content, message_left,   \* tx thread: the message being sent
    sequence,                \* tx thread: next count per content type
    packet, framed,          \* tx thread: what goes out; did framing work?
    attempts, sent,          \* tx thread: calls of the driver, the last result
    history, history_next,   \* the packets sent, oldest overwritten first
    waiting,                 \* history variable: messages accepted and not begun
    latest                   \* history variable: last packet sent per number

ring == <<buffer, head, count, waiting>>
sender == <<tx, content, message_left, sequence, packet, framed, attempts, sent, in_flight>>
memory == <<history, history_next, latest>>
vars == <<ring, thread_started, accepted, sender, memory>>

Indices == 0 .. QueueSize - 1
Numbers == Contents \X (0 .. SequenceCounts - 1)
Never == <<>>     \* a history slot that was never used

Init ==
    /\ buffer = [i \in Indices |-> <<"empty">>]
    /\ head = 0 /\ count = 0 /\ in_flight = 0 /\ waiting = <<>>
    /\ thread_started = FALSE
    /\ accepted = 0
    /\ tx = "waiting" /\ content = RawFrame /\ message_left = 0
    /\ sequence = [c \in Contents |-> 0]
    /\ packet = <<>> /\ framed = FALSE /\ attempts = 0 /\ sent = FALSE
    /\ history = [i \in 0 .. HistorySize - 1 |-> Never]
    /\ history_next = 0
    /\ latest = [k \in Numbers |-> Never]

-----------------------------------------------------------------------------
\* The n bytes at the head of the ring, from the k-th on.
ring_read(k, n) == [i \in 1 .. n |-> buffer[(head + k + i - 1) % QueueSize]]

\* Mutant: what does not fit before the end of the buffer is not copied.
ring_write_cut(src) ==
    LET tail == (head + count) % QueueSize
    IN  [p \in Indices |->
            IF p \in tail .. tail + Len(src) - 1 THEN src[p - tail + 1] ELSE buffer[p]]

\* The ring with src behind what it holds.
ring_write(src) ==
    LET tail == (head + count) % QueueSize
    IN  [p \in Indices |->
            LET i == ((p + QueueSize - tail) % QueueSize) + 1
            IN  IF i <= Len(src) THEN src[i] ELSE buffer[p]]

Message(c, data) == [content |-> c, data |-> data]

\* The bytes of a message in the ring: its header, then its data.
Encode(m) == <<<<"type", m.content>>, <<"length", Len(m.data)>>>> \o m.data

Fits(length) == length + MessageHeader <= QueueSize - count

\* All or nothing: the header and the data, or a ring that stays as it is.
push_locked(c, data) ==
    /\ Fits(Len(data))
    /\ buffer' = ring_write(Encode(Message(c, data)))
    /\ count' = count + MessageHeader + Len(data)
    /\ waiting' = Append(waiting, Message(c, data))
    /\ UNCHANGED head

bad_args(c, length) == length = 0 \/ (c = Ssdv /\ length % MaxPayload # 0)

\* radio_queue_push with good arguments.  The first call starts the thread, even
\* when the message then finds no room.  A call with bad arguments, and one
\* whose pthread_create fails, leave everything as it is.
Push(c, length) ==
    /\ ~bad_args(c, length)
    /\ accepted < MaxMessages
    /\ thread_started' = TRUE
    /\ \/ /\ push_locked(c, [i \in 1 .. length |-> <<"data", accepted + 1, i>>])
          /\ accepted' = accepted + 1
       \/ /\ ~Fits(length)
          /\ UNCHANGED <<ring, accepted>>
    /\ UNCHANGED <<sender, memory>>

\* The newest of the packets in the history that were sent under a number.
Matches(c, s) ==
    {i \in 0 .. HistorySize - 1 : history[i] # Never /\ history[i][1] = <<"frame", c, s>>}

Age(i) == (history_next + HistorySize - 1 - i) % HistorySize

Newest(c, s) == CHOOSE i \in Matches(c, s) : \A j \in Matches(c, s) : Age(i) <= Age(j)

\* radio_resend; without a match, or without room, nothing happens.
Resend(c, s) ==
    /\ Matches(c, s) # {}
    /\ thread_started
    /\ push_locked(RawFrame, history[Newest(c, s)])
    /\ UNCHANGED <<thread_started, accepted, sender, memory>>

-----------------------------------------------------------------------------
\* lg_ccsds_profile_build without a compression parameter.
profile_build_ok(c, chunk) ==
    /\ c # Compressed
    /\ c = Ssdv => Len(chunk) = MaxPayload

Chunk(left) == IF left < MaxPayload THEN left ELSE MaxPayload

\* The thread takes the next packet's bytes and numbers it, under the lock.
\* begun: is it inside a message?  Otherwise a header comes first.
Take ==
    LET begun == message_left # 0
        header == ring_read(0, MessageHeader)
        skip == IF begun THEN 0 ELSE MessageHeader
        c == IF begun THEN content ELSE header[1][2]
        left == IF begun THEN message_left ELSE header[2][2]
        n == IF c = RawFrame THEN left ELSE Chunk(left)
        bytes == ring_read(skip, n)
    IN  /\ tx = "waiting" /\ thread_started /\ count # 0
        /\ head' = (head + skip + n) % QueueSize
        /\ count' = count - skip - n
        /\ waiting' = IF begun THEN waiting ELSE Tail(waiting)
        /\ content' = c
        /\ message_left' = left - n
        /\ in_flight' = n
        /\ \/ /\ c = RawFrame
              /\ packet' = bytes
              /\ framed' = TRUE
              /\ UNCHANGED sequence
           \/ /\ c # RawFrame
              /\ packet' = <<<<"frame", c, sequence[c]>>>> \o bytes
              /\ framed' = profile_build_ok(c, bytes)
              /\ sequence' = [sequence EXCEPT ![c] = (@ + 1) % SequenceCounts]
        /\ tx' = "sending" /\ attempts' = 0 /\ sent' = FALSE
        /\ UNCHANGED <<buffer, thread_started, accepted, memory>>

\* Mutant: the count of attempts starts over instead of reaching its limit.
AttemptForever ==
    /\ tx = "sending"
    /\ framed /\ ~sent /\ attempts < SendAttempts
    /\ attempts' = (attempts + 1) % SendAttempts
    /\ sent' \in BOOLEAN
    /\ UNCHANGED <<ring, thread_started, accepted, memory, tx, content, message_left,
                   sequence, packet, framed, in_flight>>

\* One call of the driver, which works or fails.
Attempt ==
    /\ tx = "sending"
    /\ framed /\ ~sent /\ attempts < SendAttempts
    /\ attempts' = attempts + 1
    /\ sent' \in BOOLEAN
    /\ UNCHANGED <<ring, thread_started, accepted, memory, tx, content, message_left,
                   sequence, packet, framed, in_flight>>

\* A packet that was sent, and is not itself a resend, is remembered.
remember ==
    /\ history' = [history EXCEPT ![history_next] = packet]
    /\ history_next' = (history_next + 1) % HistorySize
    /\ latest' = [latest EXCEPT ![<<packet[1][2], packet[1][3]>>] = packet]

\* Mutant: a resend is remembered like a packet sent for the first time.
FinishRemembersResend ==
    /\ tx = "sending"
    /\ ~framed \/ sent \/ attempts = SendAttempts
    /\ in_flight' = 0
    /\ IF sent THEN remember ELSE UNCHANGED memory
    /\ tx' = "waiting"
    /\ packet' = <<>> /\ framed' = FALSE /\ attempts' = 0 /\ sent' = FALSE
    /\ UNCHANGED <<ring, thread_started, accepted, content, message_left, sequence>>

\* The packet is done, sent or not; locals that are not read again are reset.
Finish ==
    /\ tx = "sending"
    /\ ~framed \/ sent \/ attempts = SendAttempts
    /\ in_flight' = 0
    /\ IF sent /\ content # RawFrame THEN remember ELSE UNCHANGED memory
    /\ tx' = "waiting"
    /\ packet' = <<>> /\ framed' = FALSE /\ attempts' = 0 /\ sent' = FALSE
    /\ UNCHANGED <<ring, thread_started, accepted, content, message_left, sequence>>

radio_queue_pending == count + in_flight

tx_thread == Take \/ Attempt \/ Finish

Next ==
    \/ \E c \in Contents, length \in Lengths : Push(c, length)
    \/ \E c \in Contents, s \in 0 .. SequenceCounts - 1 : Resend(c, s)
    \/ tx_thread

Spec == Init /\ [][Next]_vars

\* The thread is scheduled and a call of the driver returns.  Nothing is assumed
\* of the users, nor of the radio working.
FairSpec == Spec /\ WF_vars(tx_thread)

-----------------------------------------------------------------------------
Cells ==
    {<<"empty">>}
    \cup {<<"type", c>> : c \in Contents \cup {RawFrame}}
    \cup {<<"length", n>> : n \in 0 .. QueueSize}
    \cup {<<"data", m, i>> : m \in 1 .. MaxMessages, i \in 1 .. QueueSize}
    \cup {<<"frame", c, s>> : c \in Contents, s \in 0 .. SequenceCounts - 1}

\* Every variable has its type; the ring never holds, and the thread never takes
\* or keeps, more bytes than there is room for.
TypeOK ==
    /\ buffer \in [Indices -> Cells]
    /\ head \in Indices
    /\ count \in 0 .. QueueSize
    /\ in_flight \in 0 .. MaxPayload + 1
    /\ thread_started \in BOOLEAN
    /\ accepted \in 0 .. MaxMessages
    /\ tx \in {"waiting", "sending"}
    /\ content \in Contents \cup {RawFrame}
    /\ message_left \in 0 .. count
    /\ sequence \in [Contents -> 0 .. SequenceCounts - 1]
    /\ Len(packet) <= MaxPayload + 1
    /\ framed \in BOOLEAN /\ sent \in BOOLEAN
    /\ attempts \in 0 .. SendAttempts
    /\ \A i \in 0 .. HistorySize - 1 : Len(history[i]) <= MaxPayload + 1
    /\ history_next \in 0 .. HistorySize - 1

\* Behind the rest of the message being sent, the ring holds the bytes of the
\* messages accepted since, in order and nothing else, wherever the end of the
\* buffer cuts them: the thread finds a header where it looks for one.
RingHoldsQueue ==
    LET at[k \in 0 .. Len(waiting)] ==
            IF k = 0 THEN message_left ELSE at[k - 1] + Len(Encode(waiting[k]))
    IN  /\ at[Len(waiting)] = count
        /\ \A k \in 1 .. Len(waiting) :
            ring_read(at[k - 1], Len(Encode(waiting[k]))) = Encode(waiting[k])

Fifo == INSTANCE RadioFifo WITH
    Payloads <- {[i \in 1 .. n |-> <<"data", m, i>>] : n \in Lengths \ {0},
                                                       m \in 1 .. MaxMessages},
    queue <- waiting,
    rest <- IF message_left = 0 THEN <<>>
            ELSE <<[content |-> content, data |-> ring_read(0, message_left)]>>,
    out <- IF tx = "waiting" THEN <<>> ELSE <<[content |-> content, data |-> packet]>>,
    number <- sequence,
    archive <- latest

\* The byte ring, its two cursors and the thread's locals implement a queue of
\* whole messages: they leave in order, in packets numbered without gaps, and a
\* resend repeats the last packet that was sent under the number asked for.
ImplementsFifo == Fifo!Spec

\* radio_queue_pending is 0 exactly when everything accepted has left, the packet
\* that the thread took out of the ring included.
PendingIsHonest ==
    radio_queue_pending = 0 <=> waiting = <<>> /\ message_left = 0 /\ tx = "waiting"

\* A message that was accepted can be framed, to its last chunk: an SSDV message is
\* cut into whole SSDV packets, and only the type that needs a compression
\* parameter is ever given up without an attempt.
AcceptedIsFramed == tx = "sending" /\ ~framed => content = Compressed

\* A packet that was sent can be asked for until HISTORY_SIZE others have been
\* sent: as long as it is in the history, the newest match is the last packet
\* sent under that number, however often the count has wrapped.
ResendIsLatest ==
    \A k \in Numbers : Matches(k[1], k[2]) # {} => history[Newest(k[1], k[2])] = latest[k]

\* Ring, history and counters agree with what was accepted, at any moment of the
\* thread's work outside the lock (radio_queue.c).
QueueInv == TypeOK /\ RingHoldsQueue /\ PendingIsHonest /\ AcceptedIsFramed /\ ResendIsLatest

\* Bytes of user message m are in the ring, or going out for the first time.
Unsent(m) ==
    \/ \E k \in DOMAIN waiting : waiting[k].content # RawFrame /\ waiting[k].data[1][2] = m
    \/ content # RawFrame /\ message_left # 0 /\ buffer[head][2] = m
    \/ content # RawFrame /\ tx = "sending" /\ packet[2][2] = m

\* Every message accepted leaves the queue, sent or given up, whatever the users
\* and the radio do: retries end, and nothing overtakes it, however many resends
\* the ground asks for.
MessagesLeave == \A m \in 1 .. MaxMessages : Unsent(m) ~> ~Unsent(m)
=============================================================================
