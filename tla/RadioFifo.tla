------------------------------ MODULE RadioFifo ------------------------------
(***************************************************************************)
(* What the radio's transmit queue promises its users (radio.h,            *)
(* radio_queue.h): messages are accepted whole or not at all and leave in  *)
(* the order of acceptance, cut into numbered packets; each packet is put  *)
(* on the air or given up, one at a time; a resend repeats, bit for bit,   *)
(* the last packet sent under the number that the ground asks for.         *)
(***************************************************************************)
EXTENDS Naturals, Sequences

CONSTANTS Contents,        \* the content types a user may send
          RawFrame,        \* the type of a message that is already a packet
          Payloads,        \* the byte strings a user may send
          MaxPayload,      \* payload of one packet
          SequenceCounts   \* packets are numbered modulo this

VARIABLES queue,     \* accepted messages of which nothing has been taken
          rest,      \* what is left of the message being sent
          out,       \* the packet going out with its type, <<>> when there is none
          number,    \* the next sequence count of each content type
          archive    \* the last packet sent under each content and count

vars == <<queue, rest, out, number, archive>>

Message(c, d) == [content |-> c, data |-> d]

\* A packet: the primary header, with its APID and count, then the payload.
Packet(c, s, d) == <<<<"frame", c, s>>>> \o d

Init ==
    /\ queue = <<>>
    /\ rest = <<>>
    /\ out = <<>>
    /\ number = [c \in Contents |-> 0]
    /\ archive = [k \in Contents \X (0 .. SequenceCounts - 1) |-> <<>>]

\* A user's message joins the queue, whole.
Accept ==
    /\ \E c \in Contents, d \in Payloads : queue' = Append(queue, Message(c, d))
    /\ UNCHANGED <<rest, out, number, archive>>

\* The packet last sent under some number joins the queue.
Repeat ==
    /\ \E k \in DOMAIN archive :
        /\ archive[k] # <<>>
        /\ queue' = Append(queue, Message(RawFrame, archive[k]))
    /\ UNCHANGED <<rest, out, number, archive>>

\* The next packet of message m; tail is the queue behind m.
CutFrom(m, tail) ==
    /\ queue' = tail
    /\ \/ /\ m.content = RawFrame
          /\ out' = <<m>>
          /\ rest' = <<>>
          /\ UNCHANGED number
       \/ /\ m.content # RawFrame
          /\ \E n \in 1 .. MaxPayload :
              /\ n <= Len(m.data)
              /\ out' = <<Message(m.content, Packet(m.content, number[m.content],
                                                     SubSeq(m.data, 1, n)))>>
              /\ rest' = IF n = Len(m.data) THEN <<>>
                         ELSE <<Message(m.content, SubSeq(m.data, n + 1, Len(m.data)))>>
          /\ number' = [number EXCEPT ![m.content] = (@ + 1) % SequenceCounts]
    /\ UNCHANGED archive

\* The message begun is finished before the next one is begun.
Take ==
    /\ out = <<>>
    /\ IF rest # <<>> THEN CutFrom(rest[1], queue)
       ELSE queue # <<>> /\ CutFrom(Head(queue), Tail(queue))

\* The packet is on the air, or given up; only the first is remembered, and
\* repeating a packet does not change what is remembered.
Leave ==
    /\ out # <<>>
    /\ out' = <<>>
    /\ \/ UNCHANGED archive
       \/ /\ out[1].content # RawFrame
          /\ LET packet == out[1].data
             IN  archive' = [archive EXCEPT ![<<packet[1][2], packet[1][3]>>] = packet]
    /\ UNCHANGED <<queue, rest, number>>

Next == Accept \/ Repeat \/ Take \/ Leave

Spec == Init /\ [][Next]_vars
=============================================================================
