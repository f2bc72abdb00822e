--------------------------- MODULE ComputeProofs ---------------------------
(***************************************************************************)
(* Proofs about the compute role, for any number of jobs, chunks, blocks,  *)
(* cancels, losses and faults, and any length of the queues.               *)
(*                                                                         *)
(* JobInv is not inductive: it says nothing of the moments between the     *)
(* taking of job_busy and the start of the worker, nor of the requests     *)
(* that still wait in the inbox.  The other parts of IInv say it.          *)
(***************************************************************************)
EXTENDS ComputeJobs, TLAPS

\* job_busy has one holder: the dispatch thread that is about to launch the job
\* that job_id_running names, or that job's worker.
LockInv ==
  /\ \A j \in Jobs : Active(j) => job_busy /\ job_id_running = j
  /\ dpc \in {"begin", "launch"} =>
       job_busy /\ job_id_running \in Jobs /\ \A j \in Jobs : ~Active(j)
  /\ dpc = "begin" => held.job = job_id_running
  /\ dpc = "launch" => current_job.job = job_id_running

\* From the launch until dispatch_job_end the open epoch is that of the job.
MailInv ==
  /\ dpc = "launch" => epoch_open /\ reply_epoch = current_job.epoch
  /\ \A j \in Jobs :
       /\ pc[j] = "start" => epoch_open /\ reply_epoch = current_job.epoch
       /\ pc[j] \in (Working \ {"start"}) \cup {"result", "close"} =>
            epoch_open /\ reply_epoch = epoch[j]

\* The watch is on from the launch until compute_health_worker_end, and off
\* before job_busy is given back.
WatchInv ==
  /\ \A j \in Jobs :
       /\ pc[j] \in Working \cup {"result", "close"} => worker_watch
       /\ pc[j] = "release" => ~worker_watch
  /\ ~job_busy => ~worker_watch

\* The job that is to be launched or is at work.
InCharge ==
  {j \in Jobs : \/ dpc \in {"begin", "launch"} /\ job_id_running = j
                \/ pc[j] \in Working \cup {"result"}}

\* Where the requests are that the dispatch thread has not seen.
Waiting == {p \in 1..Len(inbox) : inbox[p].kind = "compress"}

\* A job that was not requested, waits in the inbox, is in charge or is about to be
\* told BUSY has no result, and is in only one of these places.
AnswerInv ==
  /\ \A j \in Jobs : Len(results[j]) <= 1 /\ (j > requested => results[j] = <<>>)
  /\ \A j \in InCharge : results[j] = <<>> /\ j <= requested
  /\ \A p \in Waiting :
       /\ inbox[p].job <= requested /\ inbox[p].job \notin InCharge
       /\ results[inbox[p].job] = <<>>
  /\ \A p, q \in Waiting : inbox[p].job = inbox[q].job => p = q
  /\ dpc = "busy" =>
       /\ held.job \in Jobs \ InCharge /\ held.job <= requested
       /\ results[held.job] = <<>> /\ \A p \in Waiting : inbox[p].job # held.job

\* A block is only written while one is left.
BlockInv == \A j \in Jobs : pc[j] \in {"write", "ack"} => written[j] < Blocks

\* A job whose buffer was overrun reads no more.
RoomInv ==
  \A j \in Jobs : Len(input[j]) > Cap => pc[j] = "result" \/ results[j] # <<>>

IInv ==
  TypeOK /\ LockInv /\ MailInv /\ WatchInv /\ AnswerInv /\ BlockInv /\ RoomInv

\* A cancel that waits or is armed, and whatever it led to, is for a job it was
\* sent for.
CancelWaits ==
  \A p \in 1..Len(inbox) : inbox[p].kind = "cancel" => inbox[p].job \in cancelled
CancelArmed == job_busy /\ job_cancel_requested => job_id_running \in cancelled
CancelEnds == \A j \in Jobs : status[j] = "CANCELLED" => j \in cancelled
CancelSent ==
  \A j \in Jobs : \A p \in 1..Len(results[j]) :
    results[j][p] = "CANCELLED" => j \in cancelled
CancelInv == CancelWaits /\ CancelArmed /\ CancelEnds /\ CancelSent

\* A chunk of the file of job j, as opposed to an error message.
IsChunk(m, j) == m.kind \in {"chunk", "cut"} /\ m.job = j /\ m.n # 0

\* The way of a message from data to the worker: the inbox, the dispatch thread's
\* hands (place 0) and the slot (place -1).
Places == (-1)..Len(inbox)
At == [p \in Places |->
         IF p = -1 THEN IF reply_ready THEN reply_buf ELSE Nothing
         ELSE IF p = 0 THEN IF dpc = "deliver" THEN held ELSE Nothing
         ELSE inbox[p]]
Chunk(j) == {p \in Places : IsChunk(At[p], j)}

\* Data has not yet sent a chunk for job j.
Untouched(j) ==
  /\ Chunk(j) = {} /\ ~IsChunk(stream, j)
  /\ \A i \in 1..Len(input[j]) : input[j][i].job # j

\* Data is asked at most once for a job's file, when its worker starts.
ReadsOf(j) == {p \in 1..Len(requests) : requests[p] = [kind |-> "read", job |-> j]}
Fresh(j) == results[j] = <<>> /\ pc[j] \in {"idle", "start"}
AskInv ==
  \A j \in Jobs :
    /\ Fresh(j) => Untouched(j) /\ ReadsOf(j) = {} /\ written[j] = 0
    /\ ReadsOf(j) # {} => Untouched(j)
    /\ \A p, q \in ReadsOf(j) : p = q
    /\ pc[j] \in {"close", "unwatch", "release"} => results[j] # <<>>
    /\ pc[j] \in {"read", "readCancel"} => written[j] = 0

\* Nothing but its own chunks has reached job j, and none was dropped.
Clean(j) == ~dropped /\ OwnInput(j)

\* The chunks on their way to a worker that reads are in order, and follow on from
\* each other and from what it has; none comes to the slot too late.
InOrder(j) == \A p, q \in Chunk(j) : p < q => At[p].n < At[q].n
NoGap(j) ==
  \A p \in Chunk(j) : At[p].n = Len(input[j]) + 1
                      \/ \E q \in Chunk(j) : At[q].n = At[p].n - 1
StreamNext(j) ==
  IsChunk(stream, j) =>
    /\ \A p \in Chunk(j) : At[p].n < stream.n
    /\ stream.n = Len(input[j]) + 1 \/ \E q \in Chunk(j) : At[q].n = stream.n - 1
HeldInTime(j) == dpc = "deliver" /\ IsChunk(held, j) => entry_epoch = epoch[j]
FlowInv ==
  \A j \in Jobs : Clean(j) /\ pc[j] \in {"read", "readCancel"} =>
    InOrder(j) /\ NoGap(j) /\ StreamNext(j) /\ HeldInTime(j)

\* A job past the read phase, or that ended well.
Complete ==
  {j \in Jobs : \/ pc[j] \in {"encode", "encodeCancel", "write", "ack", "writeCancel"}
                \/ pc[j] = "result" /\ status[j] = "OK"
                \/ \E i \in 1..Len(results[j]) : results[j][i] = "OK"}

\* What a job has read are the first chunks, in order; after the last one, be it cut
\* or not, it reads no more, and without it it does not get past the read phase.
Reading(j) == pc[j] \in {"read", "readCancel"}
InputInv ==
  \A j \in Jobs : Clean(j) =>
    /\ \A i \in 1..Len(input[j]) :
         /\ input[j][i].kind \in {"chunk", "cut"}
         /\ input[j][i].job = j /\ input[j][i].n = i
    /\ \A i \in 1..Len(input[j]) :
         IsLast(input[j][i]) => i = Len(input[j]) /\ ~Reading(j)
    /\ j \in Complete => Len(input[j]) # 0 /\ IsLast(input[j][Len(input[j])])

-----------------------------------------------------------------------------
\* The places of a worker.
LEMMA PCFacts ==
  LET PCs == {"idle"} \cup Working \cup Finishing IN
  /\ "idle" \in PCs /\ "start" \in PCs /\ "read" \in PCs /\ "readCancel" \in PCs
  /\ "encode" \in PCs /\ "encodeCancel" \in PCs /\ "write" \in PCs /\ "ack" \in PCs
  /\ "writeCancel" \in PCs /\ "result" \in PCs /\ "close" \in PCs
  /\ "unwatch" \in PCs /\ "release" \in PCs
BY DEF Working, Finishing

\* What the dispatch thread takes from the inbox, and what it leaves there.
LEMMA InboxHead ==
  ASSUME inbox \in Seq(Message), inbox # <<>>
  PROVE  /\ Head(inbox) \in Message /\ Head(inbox).job \in Jobs
         /\ Head(inbox) = inbox[1] /\ 1 \in 1..Len(inbox)
         /\ Tail(inbox) \in Seq(Message) /\ Len(inbox) \in Nat
         /\ Len(Tail(inbox)) = Len(inbox) - 1
         /\ \A p \in 1..Len(Tail(inbox)) :
              p + 1 \in 1..Len(inbox) /\ Tail(inbox)[p] = inbox[p + 1]
<1>1. Head(inbox) \in Message /\ Head(inbox) = inbox[1]
  OBVIOUS
<1>2. Head(inbox).job \in Jobs
  BY <1>1 DEF Message
<1>3. /\ Tail(inbox) \in Seq(Message) /\ Len(inbox) \in Nat /\ 1 \in 1..Len(inbox)
      /\ Len(Tail(inbox)) = Len(inbox) - 1
  OBVIOUS
<1>4. ASSUME NEW p \in 1..Len(Tail(inbox))
      PROVE  p + 1 \in 1..Len(inbox) /\ Tail(inbox)[p] = inbox[p + 1]
  BY <1>3
<1> QED BY <1>1, <1>2, <1>3, <1>4

\* A message sent to compute is the last of the inbox, behind the others.
LEMMA InboxPush ==
  ASSUME inbox \in Seq(Message), NEW m \in Message
  PROVE  /\ Len(inbox) \in Nat /\ Len(Append(inbox, m)) = Len(inbox) + 1
         /\ Append(inbox, m)[Len(inbox) + 1] = m
         /\ \A p \in 1..(Len(inbox) + 1) : p \in 1..Len(inbox) \/ p = Len(inbox) + 1
         /\ \A p \in 1..Len(inbox) : Append(inbox, m)[p] = inbox[p]
OBVIOUS

\* A message to data is queued whole or not at all.
LEMMA SendTyped ==
  ASSUME TypeQueues, NEW q \in Request, SendToData(q), UNCHANGED <<inbox, stream>>
  PROVE  TypeQueues'
<1>1. requests' \in Seq(Request)
  BY DEF TypeQueues, SendToData
<1>2. Len(requests') <= Backlog
  BY SizesAssumption, SMTT(20) DEF TypeQueues, SendToData
<1> QED BY <1>1, <1>2 DEF TypeQueues

\* Data sends what it has to send next, or a cut form of it that ends the file.
DataSends(m) ==
  /\ inbox' = Append(inbox, m)
  /\ m.job = stream.job /\ m.n = stream.n
  /\ \/ m = stream /\ stream' = AfterSent
     \/ m.kind = "cut" /\ stream.kind = "chunk" /\ m.n # 0 /\ stream' = Nothing

LEMMA DataSendForm ==
  ASSUME TypeQueues, DataSend
  PROVE  \E m \in Message :
           DataSends(m) /\ m.kind # "compress" /\ m.kind # "cancel"
<1>1. stream \in Message /\ stream.kind \in {"chunk", "ack"}
  BY DEF DataSend, TypeQueues, Nothing, Message
<1>2. CASE inbox' = Append(inbox, stream) /\ stream' = AfterSent
  BY <1>1, <1>2 DEF DataSends
<1>3. CASE /\ stream.kind = "chunk" /\ stream.n > 0
           /\ inbox' = Append(inbox, [stream EXCEPT !.kind = "cut"])
           /\ stream' = Nothing
  <2> DEFINE m == [stream EXCEPT !.kind = "cut"]
  <2>1. /\ m \in Message /\ m.kind = "cut" /\ m.job = stream.job /\ m.n = stream.n
        /\ m.n # 0
    BY <1>1, <1>3 DEF Message
  <2> QED BY <1>3, <2>1 DEF DataSends
<1> QED BY <1>2, <1>3 DEF DataSend

\* A result is added to those of its job.
LEMMA ResultTyped ==
  ASSUME NEW f \in [Jobs -> Seq(Outcomes)], NEW j \in Jobs, NEW s \in Outcomes
  PROVE  /\ [f EXCEPT ![j] = Append(@, s)] \in [Jobs -> Seq(Outcomes)]
         /\ [f EXCEPT ![j] = Append(@, s)][j] = Append(f[j], s)
OBVIOUS

\* What a send to the requester adds to the results of the job.
LEMMA Sent ==
  ASSUME TypeClients, NEW j \in Jobs, NEW s \in Statuses, SendToRequester(j, s)
  PROVE  /\ \E o \in {s, Unheard} : results' = [results EXCEPT ![j] = Append(@, o)]
         /\ results' \in [Jobs -> Seq(Outcomes)]
         /\ mail' \in 0..Backlog /\ losses' \in Nat
         /\ \A k \in Jobs : k # j => results'[k] = results[k]
         /\ results'[j] # <<>> /\ (results[j] = <<>> => Len(results'[j]) <= 1)
<1>1. PICK o \in {s, Unheard} : results' = [results EXCEPT ![j] = Append(@, o)]
  BY DEF SendToRequester
<1>2. o \in Outcomes /\ results \in [Jobs -> Seq(Outcomes)]
  BY DEF Outcomes, TypeClients
<1>3. results' \in [Jobs -> Seq(Outcomes)] /\ results'[j] = Append(results[j], o)
  BY <1>1, <1>2, ResultTyped
<1>4. \A k \in Jobs : k # j => results'[k] = results[k]
  BY <1>1, <1>2
<1>5. results'[j] # <<>> /\ (results[j] = <<>> => Len(results'[j]) <= 1)
  <2>1. results[j] \in Seq(Outcomes)
    BY <1>2
  <2>2. /\ Append(results[j], o) # <<>>
        /\ results[j] = <<>> => Len(Append(results[j], o)) <= 1
    BY <1>2, <2>1, SMTT(20)
  <2> QED BY <1>3, <2>2
<1>6. mail' \in 0..Backlog /\ losses' \in Nat
  BY SizesAssumption, SMTT(20) DEF SendToRequester, TypeClients
<1> QED BY <1>1, <1>3, <1>4, <1>5, <1>6

\* Each step keeps every variable in its type; a block is only counted while one
\* is left, and a chunk only copied by a job whose buffer was not overrun.
LEMMA TypeStep == TypeOK /\ AnswerInv /\ BlockInv /\ RoomInv /\ [Next]_vars => TypeOK'
<1> SUFFICES ASSUME TypeOK, AnswerInv, BlockInv, RoomInv, [Next]_vars PROVE TypeOK'
  OBVIOUS
<1>a. TypeShared /\ TypeThreads /\ TypeFiles /\ TypeQueues /\ TypeClients
  BY DEF TypeOK
<1>1. CASE Receive
  <2>a. inbox \in Seq(Message) /\ inbox # <<>>
    BY <1>a, <1>1 DEF Receive, TypeQueues
  <2>b. Head(inbox) \in Message /\ Tail(inbox) \in Seq(Message)
        /\ Len(Tail(inbox)) = Len(inbox) - 1 /\ Len(inbox) \in Nat
    BY <2>a, InboxHead
  <2>c. Head(inbox).job \in Jobs
    BY <2>a, InboxHead
  <2>1. TypeShared'
    BY <1>a, <1>1, <2>c
       DEF Receive, HandleCompress, HandleCancel, TypeShared, jobLock, mailbox
  <2>2. TypeThreads'
    BY <1>a, <1>1, <2>b
       DEF Receive, HandleCompress, HandleCancel, TypeShared, TypeThreads,
           dispatch, worker
  <2>3. TypeQueues'
    BY <1>a, <1>1, <2>b, SizesAssumption DEF Receive, TypeQueues, data
  <2>4. TypeClients'
    BY <1>a, <1>1 DEF Receive, TypeClients, clients, answers, events
  <2>5. TypeFiles'
    BY <1>a, <1>1
       DEF Receive, HandleCompress, HandleCancel, TypeFiles, jobLock, mailbox,
           dispatch, worker, data, clients, answers, events, compute
  <2> QED BY <2>1, <2>2, <2>3, <2>4, <2>5 DEF TypeOK
<1>2. CASE Begin
  <2>1. TypeShared'
    <3>1. held.job \in Jobs \cup {NoJob}
      BY <1>a DEF TypeThreads, Message, Nothing
    <3>2. reply_epoch + 1 \in Nat
      BY <1>a DEF TypeShared
    <3> QED BY <1>a, <1>2, <3>1, <3>2 DEF Begin, TypeShared, jobLock
  <2>2. TypeThreads'
    BY <1>a, <1>2
       DEF Begin, TypeThreads, jobLock, mailbox, dispatch, worker, data,
           clients, answers, events
  <2>3. TypeFiles' /\ TypeQueues' /\ TypeClients'
    BY <1>a, <1>2
       DEF Begin, TypeFiles, TypeQueues, TypeClients, jobLock, mailbox,
           dispatch, worker, data, clients, answers, events, compute
  <2> QED BY <2>1, <2>2, <2>3 DEF TypeOK
<1>3. CASE Launch
  <2>1. TypeShared'
    BY <1>a, <1>3
       DEF Launch, TypeShared, jobLock, mailbox, dispatch, worker, data,
           clients, answers, events
  <2>2. TypeThreads'
    BY <1>a, <1>3, PCFacts
       DEF Launch, TypeThreads, TypeShared, Statuses, jobLock, mailbox,
           dispatch, worker, data, clients, answers, events
  <2>3. TypeClients'
    BY <1>a, <1>3
       DEF Launch, TypeClients, jobLock, mailbox, dispatch, worker, data,
           clients, answers, events
  <2>4. TypeFiles' /\ TypeQueues'
    BY <1>a, <1>3
       DEF Launch, TypeFiles, TypeQueues, jobLock, mailbox, dispatch, worker,
           data, clients, answers, events, compute
  <2> QED BY <2>1, <2>2, <2>3, <2>4 DEF TypeOK
<1>4. CASE Deliver
  <2>1. TypeShared'
    BY <1>a, <1>4
       DEF Deliver, TypeShared, TypeThreads, jobLock, mailbox, dispatch,
           worker, data, clients, answers, events
  <2>2. TypeThreads'
    BY <1>a, <1>4
       DEF Deliver, TypeThreads, jobLock, mailbox, dispatch, worker, data,
           clients, answers, events
  <2>3. TypeFiles' /\ TypeQueues' /\ TypeClients'
    BY <1>a, <1>4
       DEF Deliver, TypeFiles, TypeQueues, TypeClients, jobLock, mailbox,
           dispatch, worker, data, clients, answers, events, compute
  <2> QED BY <2>1, <2>2, <2>3 DEF TypeOK
<1>5. CASE DeliverTimesOut
  <2>1. TypeThreads'
    BY <1>a, <1>5
       DEF DeliverTimesOut, TypeThreads, jobLock, mailbox, dispatch, worker,
           data, clients, answers, events
  <2>2. TypeClients'
    BY <1>a, <1>5
       DEF DeliverTimesOut, TypeClients, jobLock, mailbox, dispatch, worker,
           data, clients, answers, events
  <2>3. TypeShared' /\ TypeFiles' /\ TypeQueues'
    BY <1>a, <1>5
       DEF DeliverTimesOut, TypeShared, TypeFiles, TypeQueues, jobLock,
           mailbox, dispatch, worker, data, clients, answers, events, compute
  <2> QED BY <2>1, <2>2, <2>3 DEF TypeOK
<1>6. ASSUME NEW j \in Jobs, Start(j) PROVE TypeOK'
  <2>1. TypeThreads'
    BY <1>a, <1>6, PCFacts
       DEF Start, SendToData, Goto, TypeThreads, TypeShared, jobLock, mailbox,
           dispatch, worker, data, clients, answers, events
  <2>2. TypeQueues'
    <3>1. [kind |-> "read", job |-> j] \in Request
      BY DEF Request
    <3> QED BY <1>a, <1>6, <3>1, SendTyped DEF Start
  <2>3. TypeClients'
    BY <1>a, <1>6
       DEF Start, SendToData, Goto, TypeClients, jobLock, mailbox, dispatch,
           worker, data, clients, answers, events
  <2>4. TypeShared' /\ TypeFiles'
    BY <1>a, <1>6
       DEF Start, SendToData, Goto, TypeShared, TypeFiles, jobLock, mailbox,
           dispatch, worker, data, clients, answers, events, compute
  <2> QED BY <2>1, <2>2, <2>3, <2>4 DEF TypeOK
<1>7. ASSUME NEW j \in Jobs, Read(j) PROVE TypeOK'
  <2>1. TypeShared'
    BY <1>a, <1>7
       DEF Read, TakeReply, Ends, Goto, TypeShared, jobLock, mailbox,
           dispatch, worker, data, clients, answers, events
  <2>2. TypeThreads'
    BY <1>a, <1>7, PCFacts
       DEF Read, TakeReply, Ends, Goto, TypeThreads, Statuses, jobLock,
           mailbox, dispatch, worker, data, clients, answers, events
  <2>3. TypeFiles'
    <3>1. reply_buf.n # 0 => reply_buf \in Message
      BY <1>a DEF TypeShared, Nothing
    <3>2. Len(input[j]) <= Cap /\ Len(input[j]) \in Nat
      <4>1. results[j] = <<>> /\ pc[j] # "result"
        BY <1>7 DEF Read, AnswerInv, InCharge, Working
      <4> QED BY <1>a, <4>1, SizesAssumption DEF RoomInv, TypeFiles
    <3>3. ASSUME reply_buf \in Message,
                 input' = [input EXCEPT ![j] = Append(@, reply_buf)]
          PROVE  /\ input' \in [Jobs -> Seq(Message)]
                 /\ \A k \in Jobs : Len(input'[k]) <= Cap + 1
      BY <1>a, <3>2, <3>3, SizesAssumption DEF TypeFiles
    <3>4. written' = written
      BY <1>7 DEF Read
    <3> QED BY <1>a, <1>7, <3>1, <3>3, <3>4 DEF Read, TypeFiles
  <2>4. TypeQueues' /\ TypeClients'
    BY <1>a, <1>7
       DEF Read, TakeReply, Ends, Goto, TypeQueues, TypeClients, jobLock,
           mailbox, dispatch, worker, data, clients, answers, events, compute
  <2> QED BY <2>1, <2>2, <2>3, <2>4 DEF TypeOK
<1>8. ASSUME NEW j \in Jobs, GivesUp(j) PROVE TypeOK'
  <2>1. TypeThreads'
    BY <1>a, <1>8, PCFacts
       DEF GivesUp, Ends, Goto, TypeThreads, Statuses, jobLock, mailbox,
           dispatch, worker, data, clients, answers, events
  <2>2. TypeShared' /\ TypeFiles' /\ TypeQueues' /\ TypeClients'
    BY <1>a, <1>8, SMTT(20)
       DEF GivesUp, Ends, Goto, TypeShared, TypeFiles, TypeQueues,
           TypeClients, jobLock, mailbox, dispatch, worker, data, clients, answers,
           events, compute
  <2> QED BY <2>1, <2>2 DEF TypeOK
<1>9. ASSUME NEW j \in Jobs, Encode(j) PROVE TypeOK'
  <2>1. TypeThreads'
    BY <1>a, <1>9, PCFacts
       DEF Encode, Ends, Goto, TypeThreads, Statuses, jobLock, mailbox,
           dispatch, worker, data, clients, answers, events
  <2>2. TypeClients'
    BY <1>a, <1>9
       DEF Encode, Ends, Goto, TypeClients, jobLock, mailbox, dispatch,
           worker, data, clients, answers, events
  <2>3. TypeShared' /\ TypeFiles' /\ TypeQueues'
    BY <1>a, <1>9
       DEF Encode, Ends, Goto, TypeShared, TypeFiles, TypeQueues, jobLock,
           mailbox, dispatch, worker, data, clients, answers, events, compute
  <2> QED BY <2>1, <2>2, <2>3 DEF TypeOK
<1>10. ASSUME NEW j \in Jobs, CheckCancelled(j) PROVE TypeOK'
  <2>1. TypeThreads'
    BY <1>a, <1>10, PCFacts
       DEF CheckCancelled, Ends, Goto, TypeThreads, Statuses, jobLock,
           mailbox, dispatch, worker, data, clients, answers, events
  <2>2. TypeShared' /\ TypeFiles' /\ TypeQueues' /\ TypeClients'
    BY <1>a, <1>10, ZenonT(40)
       DEF CheckCancelled, Ends, Goto, TypeShared, TypeFiles, TypeQueues,
           TypeClients, jobLock, mailbox, dispatch, worker, data, clients, answers,
           events, compute
  <2> QED BY <2>1, <2>2 DEF TypeOK
<1>11. ASSUME NEW j \in Jobs, Write(j) PROVE TypeOK'
  <2>1. TypeThreads'
    BY <1>a, <1>11, PCFacts
       DEF Write, SendToData, Goto, TypeThreads, jobLock, mailbox, dispatch,
           worker, data, clients, answers, events
  <2>2. TypeQueues'
    <3>1. [kind |-> "write", job |-> j] \in Request
      BY DEF Request
    <3> QED BY <1>a, <1>11, <3>1, SendTyped DEF Write
  <2>3. TypeClients'
    BY <1>a, <1>11
       DEF Write, SendToData, Goto, TypeClients, jobLock, mailbox, dispatch,
           worker, data, clients, answers, events
  <2>4. TypeShared' /\ TypeFiles'
    BY <1>a, <1>11
       DEF Write, SendToData, Goto, TypeShared, TypeFiles, jobLock, mailbox,
           dispatch, worker, data, clients, answers, events, compute
  <2> QED BY <2>1, <2>2, <2>3, <2>4 DEF TypeOK
<1>12. ASSUME NEW j \in Jobs, Ack(j) PROVE TypeOK'
  <2>1. TypeShared'
    BY <1>a, <1>12
       DEF Ack, TakeReply, Ends, Goto, TypeShared, jobLock, mailbox, dispatch,
           worker, data, clients, answers, events
  <2>2. TypeThreads'
    BY <1>a, <1>12, PCFacts
       DEF Ack, TakeReply, Ends, Goto, TypeThreads, Statuses, jobLock,
           mailbox, dispatch, worker, data, clients, answers, events
  <2>3. TypeFiles'
    <3>1. written[j] \in 0..Blocks /\ written[j] < Blocks
      BY <1>a, <1>12 DEF Ack, TypeFiles, BlockInv
    <3>2. written[j] + 1 \in 0..Blocks
      BY <3>1, SizesAssumption
    <3> QED BY <1>a, <1>12, <3>2 DEF Ack, TypeFiles
  <2>4. TypeQueues' /\ TypeClients'
    BY <1>a, <1>12
       DEF Ack, TakeReply, Ends, Goto, TypeQueues, TypeClients, jobLock,
           mailbox, dispatch, worker, data, clients, answers, events, compute
  <2> QED BY <2>1, <2>2, <2>3, <2>4 DEF TypeOK
<1>13. ASSUME NEW j \in Jobs, SendResult(j) PROVE TypeOK'
  <2>1. TypeThreads'
    BY <1>a, <1>13, PCFacts
       DEF SendResult, Goto, TypeThreads, jobLock, mailbox, dispatch, worker,
           data, clients, answers, events
  <2>2. TypeClients'
    <3>1. status[j] \in Statuses /\ SendToRequester(j, status[j])
      BY <1>a, <1>13 DEF SendResult, TypeThreads
    <3>2. results' \in [Jobs -> Seq(Outcomes)] /\ mail' \in 0..Backlog /\ losses' \in Nat
      BY <1>a, <3>1, Sent
    <3> QED BY <1>a, <1>13, <3>2 DEF SendResult, TypeClients, clients
  <2>3. TypeShared' /\ TypeFiles' /\ TypeQueues'
    BY <1>a, <1>13
       DEF SendResult, Goto, TypeShared, TypeFiles, TypeQueues, jobLock,
           mailbox, dispatch, worker, data, clients, answers, events, compute
  <2> QED BY <2>1, <2>2, <2>3 DEF TypeOK
<1>14. ASSUME NEW j \in Jobs, JobEnd(j) PROVE TypeOK'
  <2>1. TypeShared'
    BY <1>a, <1>14
       DEF JobEnd, Goto, TypeShared, jobLock, mailbox, dispatch, worker, data,
           clients, answers, events
  <2>2. TypeThreads'
    BY <1>a, <1>14, PCFacts
       DEF JobEnd, Goto, TypeThreads, jobLock, mailbox, dispatch, worker,
           data, clients, answers, events
  <2>3. TypeFiles' /\ TypeQueues' /\ TypeClients'
    BY <1>a, <1>14
       DEF JobEnd, Goto, TypeFiles, TypeQueues, TypeClients, jobLock, mailbox,
           dispatch, worker, data, clients, answers, events, compute
  <2> QED BY <2>1, <2>2, <2>3 DEF TypeOK
<1>15. ASSUME NEW j \in Jobs, Unwatch(j) PROVE TypeOK'
  <2>1. TypeShared'
    BY <1>a, <1>15
       DEF Unwatch, Goto, TypeShared, jobLock, mailbox, dispatch, worker,
           data, clients, answers, events
  <2>2. TypeThreads'
    BY <1>a, <1>15, PCFacts
       DEF Unwatch, Goto, TypeThreads, jobLock, mailbox, dispatch, worker,
           data, clients, answers, events
  <2>3. TypeFiles' /\ TypeQueues' /\ TypeClients'
    BY <1>a, <1>15
       DEF Unwatch, Goto, TypeFiles, TypeQueues, TypeClients, jobLock,
           mailbox, dispatch, worker, data, clients, answers, events, compute
  <2> QED BY <2>1, <2>2, <2>3 DEF TypeOK
<1>16. ASSUME NEW j \in Jobs, Release(j) PROVE TypeOK'
  <2>1. TypeShared'
    BY <1>a, <1>16
       DEF Release, Goto, TypeShared, jobLock, mailbox, dispatch, worker,
           data, clients, answers, events
  <2>2. TypeThreads'
    BY <1>a, <1>16, PCFacts
       DEF Release, Goto, TypeThreads, jobLock, mailbox, dispatch, worker,
           data, clients, answers, events
  <2>3. TypeFiles' /\ TypeQueues' /\ TypeClients'
    BY <1>a, <1>16
       DEF Release, Goto, TypeFiles, TypeQueues, TypeClients, jobLock,
           mailbox, dispatch, worker, data, clients, answers, events, compute
  <2> QED BY <2>1, <2>2, <2>3 DEF TypeOK
<1>17. CASE DataReceive
  <2>1. TypeQueues'
    <3>1. Head(requests) \in Request /\ Tail(requests) \in Seq(Request)
          /\ Len(Tail(requests)) = Len(requests) - 1 /\ Len(requests) \in Nat
      BY <1>a, <1>17 DEF DataReceive, TypeQueues
    <3>2. stream' \in Message
      BY <1>17, <3>1 DEF DataReceive, Message, Request
    <3> QED BY <1>a, <1>17, <3>1, <3>2, SizesAssumption DEF DataReceive, TypeQueues
  <2>2. TypeClients'
    BY <1>a, <1>17
       DEF DataReceive, TypeClients, jobLock, mailbox, dispatch, worker, data,
           clients, answers, events
  <2>3. TypeShared' /\ TypeThreads' /\ TypeFiles'
    BY <1>a, <1>17
       DEF DataReceive, TypeShared, TypeThreads, TypeFiles, jobLock, mailbox,
           dispatch, worker, data, clients, answers, events, compute
  <2> QED BY <2>1, <2>2, <2>3 DEF TypeOK
<1>18. CASE DataSend
  <2>1. TypeQueues'
    <3>1. PICK m \in Message : DataSends(m)
      BY <1>a, <1>18, DataSendForm
    <3>2. stream \in Message
      BY <1>a, <1>18 DEF DataSend, TypeQueues
    <3>3. stream' \in Message \cup {Nothing}
      BY <3>1, <3>2 DEF DataSends, AfterSent, Message
    <3>4. stream'.kind \in {"chunk", "ack", "none"}
      BY <1>a, <3>1, <3>2 DEF DataSends, AfterSent, TypeQueues, Nothing, Message
    <3> QED BY <1>a, <1>18, <3>1, <3>3, <3>4, SizesAssumption
            DEF DataSend, DataSends, TypeQueues
  <2>2. TypeClients'
    BY <1>a, <1>18 DEF DataSend, TypeClients, clients, answers
  <2>3. TypeShared' /\ TypeThreads' /\ TypeFiles'
    BY <1>a, <1>18, ZenonT(40)
       DEF DataSend, TypeShared, TypeThreads, TypeFiles, jobLock, mailbox, dispatch,
           worker, compute
  <2> QED BY <2>1, <2>2, <2>3 DEF TypeOK
<1>19. CASE DataGivesUp
  <2>1. TypeQueues'
    BY <1>a, <1>19
       DEF DataGivesUp, TypeQueues, Nothing, jobLock, mailbox, dispatch, worker, data,
           clients, answers, events
  <2>2. TypeClients'
    BY <1>a, <1>19
       DEF DataGivesUp, TypeClients, jobLock, mailbox, dispatch, worker, data,
           clients, answers, events
  <2>3. TypeShared' /\ TypeThreads' /\ TypeFiles'
    BY <1>a, <1>19
       DEF DataGivesUp, TypeShared, TypeThreads, TypeFiles, jobLock, mailbox,
           dispatch, worker, data, clients, answers, events, compute
  <2> QED BY <2>1, <2>2, <2>3 DEF TypeOK
<1>20. CASE DataCrashes
  <2>1. TypeQueues'
    BY <1>a, <1>20, SizesAssumption
       DEF DataCrashes, TypeQueues, Nothing, jobLock, mailbox, dispatch, worker, data,
           clients, answers, events
  <2>2. TypeClients'
    BY <1>a, <1>20
       DEF DataCrashes, TypeClients, jobLock, mailbox, dispatch, worker, data,
           clients, answers, events
  <2>3. TypeShared' /\ TypeThreads' /\ TypeFiles'
    BY <1>a, <1>20
       DEF DataCrashes, TypeShared, TypeThreads, TypeFiles, jobLock, mailbox,
           dispatch, worker, data, clients, answers, events, compute
  <2> QED BY <2>1, <2>2, <2>3 DEF TypeOK
<1>21. CASE Compress
  <2>1. TypeQueues'
    BY <1>a, <1>21, SizesAssumption
       DEF Compress, TypeQueues, Message, Jobs, TypeClients, jobLock, mailbox,
           dispatch, worker, data, clients, answers, events
  <2>2. TypeClients'
    BY <1>a, <1>21, SizesAssumption
       DEF Compress, TypeClients, Jobs, jobLock, mailbox, dispatch, worker,
           data, clients, answers, events
  <2>3. TypeShared' /\ TypeThreads' /\ TypeFiles'
    BY <1>a, <1>21
       DEF Compress, TypeShared, TypeThreads, TypeFiles, jobLock, mailbox,
           dispatch, worker, data, clients, answers, events, compute
  <2> QED BY <2>1, <2>2, <2>3 DEF TypeOK
<1>22. ASSUME NEW j \in Jobs, Cancel(j) PROVE TypeOK'
  <2>1. TypeQueues'
    BY <1>a, <1>22, SizesAssumption
       DEF Cancel, TypeQueues, Message, jobLock, mailbox, dispatch, worker,
           data, clients, answers, events
  <2>2. TypeClients'
    BY <1>a, <1>22
       DEF Cancel, TypeClients, jobLock, mailbox, dispatch, worker, data,
           clients, answers, events
  <2>3. TypeShared' /\ TypeThreads' /\ TypeFiles'
    BY <1>a, <1>22, ZenonT(40)
       DEF Cancel, TypeShared, TypeThreads, TypeFiles, jobLock, mailbox,
           dispatch, worker, data, clients, answers, events, compute
  <2> QED BY <2>1, <2>2, <2>3 DEF TypeOK
<1>23. CASE UNCHANGED vars
  BY <1>a, <1>23, SMTT(30)
     DEF vars, TypeOK, TypeShared, TypeThreads, TypeFiles, TypeQueues,
         TypeClients, jobLock, mailbox, dispatch, worker, data, clients, answers,
         events
<1>24. CASE SendBusy
  <2>1. held.job \in Jobs /\ "BUSY" \in Statuses
    BY <1>24 DEF SendBusy, AnswerInv, Statuses
  <2>2. results' \in [Jobs -> Seq(Outcomes)] /\ mail' \in 0..Backlog /\ losses' \in Nat
    BY <1>a, <1>24, <2>1, Sent DEF SendBusy
  <2>3. TypeClients'
    BY <1>a, <1>24, <2>2 DEF SendBusy, TypeClients, clients
  <2>4. TypeThreads'
    BY <1>a, <1>24 DEF SendBusy, TypeThreads, worker
  <2>5. TypeShared' /\ TypeFiles' /\ TypeQueues'
    BY <1>a, <1>24
       DEF SendBusy, TypeShared, TypeFiles, TypeQueues, jobLock, mailbox, worker, data
  <2> QED BY <2>3, <2>4, <2>5 DEF TypeOK
<1>25. CASE RequesterReads
  <2>1. TypeClients'
    BY <1>a, <1>25, SizesAssumption DEF RequesterReads, TypeClients, clients, events
  <2>2. TypeShared' /\ TypeThreads'
    BY <1>a, <1>25
       DEF RequesterReads, TypeShared, TypeThreads, jobLock, mailbox, dispatch, worker,
           compute
  <2>3. TypeFiles' /\ TypeQueues'
    BY <1>a, <1>25 DEF RequesterReads, TypeFiles, TypeQueues, worker, data, compute
  <2> QED BY <2>1, <2>2, <2>3 DEF TypeOK
<1> QED BY <1>1, <1>2, <1>3, <1>4, <1>5, <1>6, <1>7, <1>8, <1>9, <1>10, <1>11, <1>12,
   <1>13, <1>14, <1>15, <1>16, <1>17, <1>18, <1>19, <1>20, <1>21, <1>22, <1>23, <1>24,
   <1>25
   DEF Next, DispatchStep, WorkerStep, DataStep, DataServes, ClientStep, Quiescent

\* Each step keeps job_busy with one holder, the mailbox and the watch with the job
\* that is in charge, and the block count below its limit.
LEMMA ControlStep ==
  TypeOK /\ LockInv /\ MailInv /\ WatchInv /\ BlockInv /\ [Next]_vars
    => LockInv' /\ MailInv' /\ WatchInv' /\ BlockInv'
<1> SUFFICES ASSUME TypeOK, LockInv, MailInv, WatchInv, BlockInv, [Next]_vars
             PROVE  LockInv' /\ MailInv' /\ WatchInv' /\ BlockInv'
  OBVIOUS
<1>a. TypeShared /\ TypeThreads /\ TypeFiles /\ TypeQueues
  BY DEF TypeOK
<1>1. CASE Receive
  <2>1. LockInv'
    <3>1. Head(inbox).job \in Jobs
      BY <1>a, <1>1, InboxHead DEF Receive, TypeQueues
    <3> QED BY <1>a, <1>1, <3>1
            DEF Receive, HandleCompress, HandleCancel, LockInv, Active, TypeThreads,
                jobLock, dispatch, worker
  <2>2. MailInv'
    BY <1>a, <1>1
       DEF Receive, HandleCompress, HandleCancel, LockInv, MailInv, Active,
           TypeThreads, Working, jobLock, mailbox, dispatch, worker
  <2>3. WatchInv'
    BY <1>a, <1>1
       DEF Receive, HandleCompress, HandleCancel, LockInv, WatchInv, Active,
           TypeThreads, Working, jobLock, mailbox, dispatch, worker
  <2>4. BlockInv'
    BY <1>a, <1>1
       DEF Receive, HandleCompress, HandleCancel, BlockInv, TypeThreads,
           TypeFiles, worker
  <2> QED BY <2>1, <2>2, <2>3, <2>4
<1>2. CASE Begin
  <2>1. LockInv'
    BY <1>a, <1>2
       DEF Begin, LockInv, Active, TypeThreads, jobLock, dispatch, worker
  <2>2. MailInv'
    BY <1>a, <1>2
       DEF Begin, LockInv, MailInv, Active, TypeThreads, Working, jobLock,
           mailbox, dispatch, worker
  <2>3. WatchInv'
    BY <1>a, <1>2
       DEF Begin, LockInv, WatchInv, Active, TypeThreads, Working, jobLock,
           mailbox, dispatch, worker
  <2>4. BlockInv'
    BY <1>a, <1>2
       DEF Begin, BlockInv, TypeThreads, TypeFiles, worker
  <2> QED BY <2>1, <2>2, <2>3, <2>4
<1>3. CASE Launch
  <2>1. LockInv'
    BY <1>a, <1>3
       DEF Launch, LockInv, Active, TypeThreads, jobLock, dispatch, worker
  <2>2. MailInv'
    BY <1>a, <1>3
       DEF Launch, LockInv, MailInv, Active, TypeThreads, Working, jobLock,
           mailbox, dispatch, worker
  <2>3. WatchInv'
    BY <1>a, <1>3
       DEF Launch, LockInv, WatchInv, Active, TypeThreads, Working, jobLock,
           mailbox, dispatch, worker
  <2>4. BlockInv'
    BY <1>a, <1>3
       DEF Launch, BlockInv, TypeThreads, TypeFiles, worker
  <2> QED BY <2>1, <2>2, <2>3, <2>4
<1>4. CASE Deliver
  <2>1. LockInv'
    BY <1>a, <1>4
       DEF Deliver, LockInv, Active, TypeThreads, jobLock, dispatch, worker
  <2>2. MailInv'
    BY <1>a, <1>4
       DEF Deliver, LockInv, MailInv, Active, TypeThreads, Working, jobLock,
           mailbox, dispatch, worker
  <2>3. WatchInv'
    BY <1>a, <1>4
       DEF Deliver, LockInv, WatchInv, Active, TypeThreads, Working, jobLock,
           mailbox, dispatch, worker
  <2>4. BlockInv'
    BY <1>a, <1>4
       DEF Deliver, BlockInv, TypeThreads, TypeFiles, worker
  <2> QED BY <2>1, <2>2, <2>3, <2>4
<1>5. CASE DeliverTimesOut
  <2>1. LockInv'
    BY <1>a, <1>5
       DEF DeliverTimesOut, LockInv, Active, TypeThreads, jobLock, dispatch,
           worker
  <2>2. MailInv'
    BY <1>a, <1>5
       DEF DeliverTimesOut, LockInv, MailInv, Active, TypeThreads, Working,
           jobLock, mailbox, dispatch, worker
  <2>3. WatchInv'
    BY <1>a, <1>5
       DEF DeliverTimesOut, LockInv, WatchInv, Active, TypeThreads, Working,
           jobLock, mailbox, dispatch, worker
  <2>4. BlockInv'
    BY <1>a, <1>5
       DEF DeliverTimesOut, BlockInv, TypeThreads, TypeFiles, worker
  <2> QED BY <2>1, <2>2, <2>3, <2>4
<1>6. ASSUME NEW j \in Jobs, Start(j)
      PROVE  LockInv' /\ MailInv' /\ WatchInv' /\ BlockInv'
  <2>1. LockInv'
    BY <1>a, <1>6
       DEF Start, Goto, LockInv, Active, TypeThreads, jobLock, dispatch,
           worker
  <2>2. MailInv'
    BY <1>a, <1>6
       DEF Start, Goto, LockInv, MailInv, Active, TypeThreads, Working,
           jobLock, mailbox, dispatch, worker
  <2>3. WatchInv'
    BY <1>a, <1>6
       DEF Start, Goto, LockInv, WatchInv, Active, TypeThreads, Working,
           jobLock, mailbox, dispatch, worker
  <2>4. BlockInv'
    BY <1>a, <1>6
       DEF Start, Goto, BlockInv, TypeThreads, TypeFiles, worker
  <2> QED BY <2>1, <2>2, <2>3, <2>4
<1>7. ASSUME NEW j \in Jobs, Read(j)
      PROVE  LockInv' /\ MailInv' /\ WatchInv' /\ BlockInv'
  <2>1. LockInv'
    BY <1>a, <1>7
       DEF Read, TakeReply, Ends, Goto, LockInv, Active, TypeThreads, jobLock,
           dispatch, worker
  <2>2. MailInv'
    BY <1>a, <1>7
       DEF Read, TakeReply, Ends, Goto, LockInv, MailInv, Active, TypeThreads,
           Working, jobLock, mailbox, dispatch, worker
  <2>3. WatchInv'
    BY <1>a, <1>7
       DEF Read, TakeReply, Ends, Goto, LockInv, WatchInv, Active,
           TypeThreads, Working, jobLock, mailbox, dispatch, worker
  <2>4. BlockInv'
    BY <1>a, <1>7
       DEF Read, TakeReply, Ends, Goto, BlockInv, TypeThreads, TypeFiles,
           worker
  <2> QED BY <2>1, <2>2, <2>3, <2>4
<1>8. ASSUME NEW j \in Jobs, GivesUp(j)
      PROVE  LockInv' /\ MailInv' /\ WatchInv' /\ BlockInv'
  <2>1. LockInv'
    BY <1>a, <1>8
       DEF GivesUp, Ends, Goto, LockInv, Active, TypeThreads, jobLock,
           dispatch, worker
  <2>2. MailInv'
    BY <1>a, <1>8
       DEF GivesUp, Ends, Goto, LockInv, MailInv, Active, TypeThreads,
           Working, jobLock, mailbox, dispatch, worker
  <2>3. WatchInv'
    BY <1>a, <1>8
       DEF GivesUp, Ends, Goto, LockInv, WatchInv, Active, TypeThreads,
           Working, jobLock, mailbox, dispatch, worker
  <2>4. BlockInv'
    BY <1>a, <1>8
       DEF GivesUp, Ends, Goto, BlockInv, TypeThreads, TypeFiles, worker
  <2> QED BY <2>1, <2>2, <2>3, <2>4
<1>9. ASSUME NEW j \in Jobs, Encode(j)
      PROVE  LockInv' /\ MailInv' /\ WatchInv' /\ BlockInv'
  <2>1. LockInv'
    BY <1>a, <1>9
       DEF Encode, Ends, Goto, LockInv, Active, TypeThreads, jobLock,
           dispatch, worker
  <2>2. MailInv'
    BY <1>a, <1>9
       DEF Encode, Ends, Goto, LockInv, MailInv, Active, TypeThreads, Working,
           jobLock, mailbox, dispatch, worker
  <2>3. WatchInv'
    BY <1>a, <1>9
       DEF Encode, Ends, Goto, LockInv, WatchInv, Active, TypeThreads,
           Working, jobLock, mailbox, dispatch, worker
  <2>4. BlockInv'
    BY <1>a, <1>9
       DEF Encode, Ends, Goto, BlockInv, TypeThreads, TypeFiles, worker
  <2> QED BY <2>1, <2>2, <2>3, <2>4
<1>10. ASSUME NEW j \in Jobs, CheckCancelled(j)
      PROVE  LockInv' /\ MailInv' /\ WatchInv' /\ BlockInv'
  <2>1. LockInv'
    BY <1>a, <1>10
       DEF CheckCancelled, Ends, Goto, LockInv, Active, TypeThreads, jobLock,
           dispatch, worker
  <2>2. MailInv'
    BY <1>a, <1>10
       DEF CheckCancelled, Ends, Goto, LockInv, MailInv, Active, TypeThreads,
           Working, jobLock, mailbox, dispatch, worker
  <2>3. WatchInv'
    BY <1>a, <1>10
       DEF CheckCancelled, Ends, Goto, LockInv, WatchInv, Active, TypeThreads,
           Working, jobLock, mailbox, dispatch, worker
  <2>4. BlockInv'
    BY <1>a, <1>10
       DEF CheckCancelled, Ends, Goto, BlockInv, TypeThreads, TypeFiles,
           worker
  <2> QED BY <2>1, <2>2, <2>3, <2>4
<1>11. ASSUME NEW j \in Jobs, Write(j)
      PROVE  LockInv' /\ MailInv' /\ WatchInv' /\ BlockInv'
  <2>1. LockInv'
    BY <1>a, <1>11
       DEF Write, Goto, LockInv, Active, TypeThreads, jobLock, dispatch,
           worker
  <2>2. MailInv'
    BY <1>a, <1>11
       DEF Write, Goto, LockInv, MailInv, Active, TypeThreads, Working,
           jobLock, mailbox, dispatch, worker
  <2>3. WatchInv'
    BY <1>a, <1>11
       DEF Write, Goto, LockInv, WatchInv, Active, TypeThreads, Working,
           jobLock, mailbox, dispatch, worker
  <2>4. BlockInv'
    BY <1>a, <1>11
       DEF Write, Goto, BlockInv, TypeThreads, TypeFiles, worker
  <2> QED BY <2>1, <2>2, <2>3, <2>4
<1>12. ASSUME NEW j \in Jobs, Ack(j)
      PROVE  LockInv' /\ MailInv' /\ WatchInv' /\ BlockInv'
  <2>1. LockInv'
    BY <1>a, <1>12
       DEF Ack, TakeReply, Ends, Goto, LockInv, Active, TypeThreads, jobLock,
           dispatch, worker
  <2>2. MailInv'
    BY <1>a, <1>12
       DEF Ack, TakeReply, Ends, Goto, LockInv, MailInv, Active, TypeThreads,
           Working, jobLock, mailbox, dispatch, worker
  <2>3. WatchInv'
    BY <1>a, <1>12
       DEF Ack, TakeReply, Ends, Goto, LockInv, WatchInv, Active, TypeThreads,
           Working, jobLock, mailbox, dispatch, worker
  <2>4. BlockInv'
    BY <1>a, <1>12
       DEF Ack, TakeReply, Ends, Goto, BlockInv, TypeThreads, TypeFiles,
           worker
  <2> QED BY <2>1, <2>2, <2>3, <2>4
<1>13. ASSUME NEW j \in Jobs, SendResult(j)
      PROVE  LockInv' /\ MailInv' /\ WatchInv' /\ BlockInv'
  <2>1. LockInv'
    BY <1>a, <1>13
       DEF SendResult, Goto, LockInv, Active, TypeThreads, jobLock, dispatch,
           worker
  <2>2. MailInv'
    BY <1>a, <1>13
       DEF SendResult, Goto, LockInv, MailInv, Active, TypeThreads, Working,
           jobLock, mailbox, dispatch, worker
  <2>3. WatchInv'
    BY <1>a, <1>13
       DEF SendResult, Goto, LockInv, WatchInv, Active, TypeThreads, Working,
           jobLock, mailbox, dispatch, worker
  <2>4. BlockInv'
    BY <1>a, <1>13
       DEF SendResult, Goto, BlockInv, TypeThreads, TypeFiles, worker
  <2> QED BY <2>1, <2>2, <2>3, <2>4
<1>14. ASSUME NEW j \in Jobs, JobEnd(j)
      PROVE  LockInv' /\ MailInv' /\ WatchInv' /\ BlockInv'
  <2>1. LockInv'
    BY <1>a, <1>14
       DEF JobEnd, Goto, LockInv, Active, TypeThreads, jobLock, dispatch,
           worker
  <2>2. MailInv'
    BY <1>a, <1>14
       DEF JobEnd, Goto, LockInv, MailInv, Active, TypeThreads, Working,
           jobLock, mailbox, dispatch, worker
  <2>3. WatchInv'
    BY <1>a, <1>14
       DEF JobEnd, Goto, LockInv, WatchInv, Active, TypeThreads, Working,
           jobLock, mailbox, dispatch, worker
  <2>4. BlockInv'
    BY <1>a, <1>14
       DEF JobEnd, Goto, BlockInv, TypeThreads, TypeFiles, worker
  <2> QED BY <2>1, <2>2, <2>3, <2>4
<1>15. ASSUME NEW j \in Jobs, Unwatch(j)
      PROVE  LockInv' /\ MailInv' /\ WatchInv' /\ BlockInv'
  <2>1. LockInv'
    BY <1>a, <1>15
       DEF Unwatch, Goto, LockInv, Active, TypeThreads, jobLock, dispatch,
           worker
  <2>2. MailInv'
    BY <1>a, <1>15
       DEF Unwatch, Goto, LockInv, MailInv, Active, TypeThreads, Working,
           jobLock, mailbox, dispatch, worker
  <2>3. WatchInv'
    BY <1>a, <1>15
       DEF Unwatch, Goto, LockInv, WatchInv, Active, TypeThreads, Working,
           jobLock, mailbox, dispatch, worker
  <2>4. BlockInv'
    BY <1>a, <1>15
       DEF Unwatch, Goto, BlockInv, TypeThreads, TypeFiles, worker
  <2> QED BY <2>1, <2>2, <2>3, <2>4
<1>16. ASSUME NEW j \in Jobs, Release(j)
      PROVE  LockInv' /\ MailInv' /\ WatchInv' /\ BlockInv'
  <2>1. LockInv'
    BY <1>a, <1>16
       DEF Release, Goto, LockInv, Active, TypeThreads, jobLock, dispatch,
           worker
  <2>2. MailInv'
    BY <1>a, <1>16
       DEF Release, Goto, LockInv, MailInv, Active, TypeThreads, Working,
           jobLock, mailbox, dispatch, worker
  <2>3. WatchInv'
    BY <1>a, <1>16
       DEF Release, Goto, LockInv, WatchInv, Active, TypeThreads, Working,
           jobLock, mailbox, dispatch, worker
  <2>4. BlockInv'
    BY <1>a, <1>16
       DEF Release, Goto, BlockInv, TypeThreads, TypeFiles, worker
  <2> QED BY <2>1, <2>2, <2>3, <2>4
<1>17. CASE DataReceive
  BY <1>17
     DEF DataReceive, LockInv, MailInv, WatchInv, BlockInv, Active, compute,
         jobLock, mailbox, dispatch, worker
<1>18. CASE DataSend
  BY <1>18
     DEF DataSend, LockInv, MailInv, WatchInv, BlockInv, Active, compute,
         jobLock, mailbox, dispatch, worker
<1>19. CASE DataGivesUp
  BY <1>19
     DEF DataGivesUp, LockInv, MailInv, WatchInv, BlockInv, Active, compute,
         jobLock, mailbox, dispatch, worker
<1>20. CASE DataCrashes
  BY <1>20
     DEF DataCrashes, LockInv, MailInv, WatchInv, BlockInv, Active, compute,
         jobLock, mailbox, dispatch, worker
<1>21. CASE Compress
  BY <1>21
     DEF Compress, LockInv, MailInv, WatchInv, BlockInv, Active, compute,
         jobLock, mailbox, dispatch, worker
<1>22. ASSUME NEW j \in Jobs, Cancel(j) PROVE  LockInv' /\ MailInv' /\ WatchInv' /\ BlockInv'
  BY <1>22
     DEF Cancel, LockInv, MailInv, WatchInv, BlockInv, Active, compute,
         jobLock, mailbox, dispatch, worker
<1>23. CASE UNCHANGED vars
  BY <1>23
     DEF vars, LockInv, MailInv, WatchInv, BlockInv, Active, jobLock, mailbox,
         dispatch, worker
<1>24. CASE SendBusy
  BY <1>24
     DEF SendBusy, LockInv, MailInv, WatchInv, BlockInv, Active, jobLock, mailbox,
         worker
<1>25. CASE RequesterReads
  BY <1>25
     DEF RequesterReads, LockInv, MailInv, WatchInv, BlockInv, Active, compute,
         jobLock, mailbox, dispatch, worker
<1> QED BY <1>1, <1>2, <1>3, <1>4, <1>5, <1>6, <1>7, <1>8, <1>9, <1>10, <1>11, <1>12,
   <1>13, <1>14, <1>15, <1>16, <1>17, <1>18, <1>19, <1>20, <1>21, <1>22, <1>23, <1>24,
   <1>25
   DEF Next, DispatchStep, WorkerStep, DataStep, DataServes, ClientStep, Quiescent

\* Every message in the inbox names a job.
LEMMA InboxJobs ==
  ASSUME inbox \in Seq(Message)
  PROVE  \A p \in 1..Len(inbox) : inbox[p] \in Message /\ inbox[p].job \in Jobs
<1>1. \A p \in 1..Len(inbox) : inbox[p] \in Message
  OBVIOUS
<1> QED BY <1>1 DEF Message

\* A step that brings no job into charge and touches neither the requests nor the
\* results keeps them apart.
LEMMA AnswerFrame ==
  ASSUME AnswerInv, UNCHANGED <<inbox, results, requested>>,
         InCharge' \subseteq InCharge, dpc' = "busy" => dpc = "busy" /\ held' = held
  PROVE  AnswerInv'
BY DEF AnswerInv, Waiting

\* Nor does a message that is not a request bring a job into charge.
LEMMA AnswerPush ==
  ASSUME inbox \in Seq(Message), AnswerInv, NEW m \in Message, m.kind # "compress",
         inbox' = Append(inbox, m), UNCHANGED <<results, requested>>,
         InCharge' \subseteq InCharge, UNCHANGED <<dpc, held>>
  PROVE  AnswerInv'
<1>1. /\ Waiting' \subseteq Waiting
      /\ \A p \in Waiting' : inbox'[p] = inbox[p]
  BY InboxPush DEF Waiting
<1>2. \A j \in InCharge' : results'[j] = <<>> /\ j <= requested'
  BY DEF AnswerInv
<1>3. \A p \in Waiting' :
        /\ inbox'[p].job <= requested' /\ inbox'[p].job \notin InCharge'
        /\ results'[inbox'[p].job] = <<>>
  BY <1>1 DEF AnswerInv
<1>4. ASSUME NEW p \in Waiting', NEW q \in Waiting', inbox'[p].job = inbox'[q].job
      PROVE  p = q
  <2>1. /\ p \in Waiting /\ q \in Waiting
        /\ inbox'[p] = inbox[p] /\ inbox'[q] = inbox[q]
    BY <1>1
  <2> QED BY <1>4, <2>1 DEF AnswerInv
<1>5. dpc' = "busy" =>
        /\ held'.job \in Jobs \ InCharge' /\ held'.job <= requested'
        /\ results'[held'.job] = <<>>
        /\ \A p \in Waiting' : inbox'[p].job # held'.job
  BY <1>1 DEF AnswerInv
<1> QED BY <1>2, <1>3, <1>4, <1>5 DEF AnswerInv

\* Each step keeps the jobs that wait for an answer apart from those that have one.
LEMMA AnswerStep ==
  TypeOK /\ LockInv /\ AnswerInv /\ [Next]_vars => AnswerInv'
<1> SUFFICES ASSUME TypeOK, LockInv, AnswerInv, [Next]_vars
             PROVE  AnswerInv'
  OBVIOUS
<1>a. TypeShared /\ TypeThreads /\ TypeQueues /\ TypeClients
  BY DEF TypeOK
<1>b. \A p \in 1..Len(inbox) : inbox[p] \in Message /\ inbox[p].job \in Jobs
  BY <1>a, InboxJobs DEF TypeQueues
<1>1. CASE Receive
  <2> DEFINE m == Head(inbox)
  <2>a. /\ m = inbox[1] /\ m.job \in Jobs /\ 1 \in 1..Len(inbox) /\ Len(inbox) \in Nat
        /\ Len(Tail(inbox)) = Len(inbox) - 1
        /\ \A p \in 1..Len(Tail(inbox)) :
             p + 1 \in 1..Len(inbox) /\ Tail(inbox)[p] = inbox[p + 1]
    BY <1>a, <1>1, InboxHead DEF Receive, TypeQueues
  <2>b. /\ requested' = requested /\ inbox' = Tail(inbox)
        /\ dpc = "receive" /\ pc' = pc
    BY <1>1 DEF Receive, clients, answers, worker
  <2>c. \A p \in Waiting' :
          /\ p + 1 \in Waiting /\ p + 1 # 1
          /\ inbox'[p] = inbox[p + 1] /\ inbox'[p].job \in Jobs
    BY <1>b, <2>a, <2>b DEF Waiting
  <2>d. \A p, q \in Waiting' : p + 1 = q + 1 => p = q
    BY <2>a, <2>b DEF Waiting
  <2>e. \A p, q \in Waiting' : inbox'[p].job = inbox'[q].job => p = q
    BY <2>c, <2>d DEF AnswerInv
  <2>i. \A p \in Waiting' :
          /\ inbox'[p].job <= requested /\ inbox'[p].job \notin InCharge
          /\ results[inbox'[p].job] = <<>>
    BY <2>c DEF AnswerInv
  <2>f. m.kind = "compress" => 1 \in Waiting
    BY <2>a DEF Waiting
  <2>g. m.kind = "compress" =>
          /\ m.job <= requested /\ results[m.job] = <<>> /\ m.job \notin InCharge
          /\ \A p \in Waiting' : inbox'[p].job # m.job
    BY <2>a, <2>c, <2>f DEF AnswerInv
  <2>1. CASE m.kind # "compress"
    <3>1. results' = results /\ InCharge' \subseteq InCharge /\ dpc' # "busy"
      BY <1>1, <2>1, <2>b
         DEF Receive, HandleCancel, InCharge, jobLock, dispatch, answers
    <3> QED BY <2>b, <2>i, <2>e, <3>1 DEF AnswerInv
  <2>2. CASE m.kind = "compress" /\ job_busy
    <3>1. results' = results /\ held' = m /\ dpc' = "busy" /\ UNCHANGED jobLock
      BY <1>1, <2>2 DEF Receive, HandleCompress, answers
    <3>2. InCharge' = InCharge
      BY <2>b, <3>1 DEF InCharge, jobLock
    <3> QED BY <2>a, <2>b, <2>e, <2>g, <2>i, <2>2, <3>1, <3>2 DEF AnswerInv
  <2>3. CASE m.kind = "compress" /\ ~job_busy
    <3>1. results' = results /\ job_id_running' = m.job /\ dpc' = "begin"
      BY <1>1, <2>3 DEF Receive, HandleCompress, answers
    <3>2. InCharge' \subseteq {m.job}
      BY <2>b, <2>3, <3>1 DEF InCharge, LockInv, Active, Working
    <3> QED BY <2>b, <2>i, <2>e, <2>g, <2>3, <3>1, <3>2 DEF AnswerInv
  <2> QED BY <2>1, <2>2, <2>3
<1>2. CASE Begin
  <2>1. InCharge' \subseteq InCharge
    BY <1>a, <1>2
       DEF Begin, InCharge, TypeThreads, Working, Finishing, LockInv, Active,
           jobLock, dispatch, worker
  <2>2. /\ UNCHANGED <<inbox, results, requested>>
        /\ dpc' = "busy" => dpc = "busy" /\ held' = held
    BY <1>2
       DEF Begin, clients, answers, compute, dispatch
  <2> QED BY <2>1, <2>2, AnswerFrame
<1>3. CASE Launch
  <2>1. InCharge' \subseteq InCharge
    BY <1>a, <1>3
       DEF Launch, InCharge, TypeThreads, Working, Finishing, LockInv, Active,
           jobLock, dispatch, worker
  <2>2. /\ UNCHANGED <<inbox, results, requested>>
        /\ dpc' = "busy" => dpc = "busy" /\ held' = held
    BY <1>3
       DEF Launch, clients, answers, compute, dispatch
  <2> QED BY <2>1, <2>2, AnswerFrame
<1>4. CASE Deliver
  <2>1. InCharge' \subseteq InCharge
    BY <1>a, <1>4
       DEF Deliver, InCharge, TypeThreads, Working, Finishing, jobLock,
           dispatch, worker
  <2>2. /\ UNCHANGED <<inbox, results, requested>>
        /\ dpc' = "busy" => dpc = "busy" /\ held' = held
    BY <1>4
       DEF Deliver, clients, answers, compute, dispatch
  <2> QED BY <2>1, <2>2, AnswerFrame
<1>5. CASE DeliverTimesOut
  <2>1. InCharge' \subseteq InCharge
    BY <1>a, <1>5
       DEF DeliverTimesOut, InCharge, TypeThreads, Working, Finishing,
           jobLock, dispatch, worker
  <2>2. /\ UNCHANGED <<inbox, results, requested>>
        /\ dpc' = "busy" => dpc = "busy" /\ held' = held
    BY <1>5
       DEF DeliverTimesOut, clients, answers, compute, dispatch
  <2> QED BY <2>1, <2>2, AnswerFrame
<1>6. ASSUME NEW j \in Jobs, Start(j) PROVE AnswerInv'
  <2>1. InCharge' \subseteq InCharge
    BY <1>a, <1>6
       DEF Start, Goto, InCharge, TypeThreads, Working, Finishing, jobLock,
           dispatch, worker
  <2>2. /\ UNCHANGED <<inbox, results, requested>>
        /\ dpc' = "busy" => dpc = "busy" /\ held' = held
    BY <1>6
       DEF Start, clients, answers, compute, dispatch
  <2> QED BY <2>1, <2>2, AnswerFrame
<1>7. ASSUME NEW j \in Jobs, Read(j) PROVE AnswerInv'
  <2>1. InCharge' \subseteq InCharge
    BY <1>a, <1>7
       DEF Read, TakeReply, Ends, Goto, InCharge, TypeThreads, Working,
           Finishing, jobLock, dispatch, worker
  <2>2. /\ UNCHANGED <<inbox, results, requested>>
        /\ dpc' = "busy" => dpc = "busy" /\ held' = held
    BY <1>7
       DEF Read, clients, answers, compute, dispatch
  <2> QED BY <2>1, <2>2, AnswerFrame
<1>8. ASSUME NEW j \in Jobs, GivesUp(j) PROVE AnswerInv'
  <2>1. InCharge' \subseteq InCharge
    BY <1>a, <1>8
       DEF GivesUp, Ends, Goto, InCharge, TypeThreads, Working, Finishing,
           jobLock, dispatch, worker
  <2>2. /\ UNCHANGED <<inbox, results, requested>>
        /\ dpc' = "busy" => dpc = "busy" /\ held' = held
    BY <1>8
       DEF GivesUp, clients, answers, compute, dispatch
  <2> QED BY <2>1, <2>2, AnswerFrame
<1>9. ASSUME NEW j \in Jobs, Encode(j) PROVE AnswerInv'
  <2>1. InCharge' \subseteq InCharge
    BY <1>a, <1>9
       DEF Encode, Ends, Goto, InCharge, TypeThreads, Working, Finishing,
           jobLock, dispatch, worker
  <2>2. /\ UNCHANGED <<inbox, results, requested>>
        /\ dpc' = "busy" => dpc = "busy" /\ held' = held
    BY <1>9
       DEF Encode, clients, answers, compute, dispatch
  <2> QED BY <2>1, <2>2, AnswerFrame
<1>10. ASSUME NEW j \in Jobs, CheckCancelled(j) PROVE AnswerInv'
  <2>1. InCharge' \subseteq InCharge
    BY <1>a, <1>10
       DEF CheckCancelled, Ends, Goto, InCharge, TypeThreads, Working,
           Finishing, jobLock, dispatch, worker
  <2>2. /\ UNCHANGED <<inbox, results, requested>>
        /\ dpc' = "busy" => dpc = "busy" /\ held' = held
    BY <1>10
       DEF CheckCancelled, clients, answers, compute, dispatch
  <2> QED BY <2>1, <2>2, AnswerFrame
<1>11. ASSUME NEW j \in Jobs, Write(j) PROVE AnswerInv'
  <2>1. InCharge' \subseteq InCharge
    BY <1>a, <1>11
       DEF Write, Goto, InCharge, TypeThreads, Working, Finishing, jobLock,
           dispatch, worker
  <2>2. /\ UNCHANGED <<inbox, results, requested>>
        /\ dpc' = "busy" => dpc = "busy" /\ held' = held
    BY <1>11
       DEF Write, clients, answers, compute, dispatch
  <2> QED BY <2>1, <2>2, AnswerFrame
<1>12. ASSUME NEW j \in Jobs, Ack(j) PROVE AnswerInv'
  <2>1. InCharge' \subseteq InCharge
    BY <1>a, <1>12
       DEF Ack, TakeReply, Ends, Goto, InCharge, TypeThreads, Working,
           Finishing, jobLock, dispatch, worker
  <2>2. /\ UNCHANGED <<inbox, results, requested>>
        /\ dpc' = "busy" => dpc = "busy" /\ held' = held
    BY <1>12
       DEF Ack, clients, answers, compute, dispatch
  <2> QED BY <2>1, <2>2, AnswerFrame
<1>13. ASSUME NEW j \in Jobs, SendResult(j) PROVE AnswerInv'
  <2>1. /\ UNCHANGED <<inbox, requested, dpc, held>> /\ status[j] \in Statuses
        /\ SendToRequester(j, status[j])
    BY <1>a, <1>13 DEF SendResult, clients, dispatch, TypeThreads
  <2>2. j \in InCharge /\ InCharge' \subseteq InCharge \ {j}
    BY <1>a, <1>13
       DEF SendResult, Goto, InCharge, LockInv, Active, Working, TypeThreads,
           jobLock, dispatch
  <2>3. results[j] = <<>> /\ j <= requested /\ \A p \in Waiting : inbox[p].job # j
    BY <2>2 DEF AnswerInv
  <2>4. Len(results'[j]) <= 1 /\ \A k \in Jobs : k # j => results'[k] = results[k]
    BY <1>a, <2>1, <2>3, Sent
  <2>5. \A k \in Jobs : Len(results'[k]) <= 1 /\ (k > requested' => results'[k] = <<>>)
    BY <1>a, <2>1, <2>3, <2>4 DEF AnswerInv, Jobs, TypeClients
  <2>6. \A k \in InCharge' : results'[k] = <<>> /\ k <= requested'
    BY <2>1, <2>2, <2>4 DEF AnswerInv, InCharge
  <2>7. Waiting' = Waiting
    BY <2>1 DEF Waiting
  <2>8. \A p \in Waiting : inbox[p].job \in Jobs
    BY <1>b DEF Waiting
  <2>9. \A p \in Waiting' :
          /\ inbox'[p].job <= requested' /\ inbox'[p].job \notin InCharge'
          /\ results'[inbox'[p].job] = <<>>
    BY <2>1, <2>2, <2>3, <2>4, <2>7, <2>8 DEF AnswerInv
  <2>10. dpc = "busy" => held.job # j /\ results'[held.job] = <<>>
    BY <2>2, <2>4 DEF AnswerInv
  <2> QED BY <2>1, <2>2, <2>5, <2>6, <2>7, <2>9, <2>10 DEF AnswerInv
<1>14. ASSUME NEW j \in Jobs, JobEnd(j) PROVE AnswerInv'
  <2>1. InCharge' \subseteq InCharge
    BY <1>a, <1>14
       DEF JobEnd, Goto, InCharge, TypeThreads, Working, Finishing, jobLock,
           dispatch, worker
  <2>2. /\ UNCHANGED <<inbox, results, requested>>
        /\ dpc' = "busy" => dpc = "busy" /\ held' = held
    BY <1>14
       DEF JobEnd, clients, answers, compute, dispatch
  <2> QED BY <2>1, <2>2, AnswerFrame
<1>15. ASSUME NEW j \in Jobs, Unwatch(j) PROVE AnswerInv'
  <2>1. InCharge' \subseteq InCharge
    BY <1>a, <1>15
       DEF Unwatch, Goto, InCharge, TypeThreads, Working, Finishing, jobLock,
           dispatch, worker
  <2>2. /\ UNCHANGED <<inbox, results, requested>>
        /\ dpc' = "busy" => dpc = "busy" /\ held' = held
    BY <1>15
       DEF Unwatch, clients, answers, compute, dispatch
  <2> QED BY <2>1, <2>2, AnswerFrame
<1>16. ASSUME NEW j \in Jobs, Release(j) PROVE AnswerInv'
  <2>1. InCharge' \subseteq InCharge
    BY <1>a, <1>16
       DEF Release, Goto, InCharge, TypeThreads, Working, Finishing, jobLock,
           dispatch, worker
  <2>2. /\ UNCHANGED <<inbox, results, requested>>
        /\ dpc' = "busy" => dpc = "busy" /\ held' = held
    BY <1>16
       DEF Release, clients, answers, compute, dispatch
  <2> QED BY <2>1, <2>2, AnswerFrame
<1>17. CASE DataReceive
  <2>1. InCharge' \subseteq InCharge
    BY <1>a, <1>17
       DEF DataReceive, InCharge, compute, jobLock, dispatch, worker
  <2>2. /\ UNCHANGED <<inbox, results, requested>>
        /\ dpc' = "busy" => dpc = "busy" /\ held' = held
    BY <1>17
       DEF DataReceive, clients, answers, compute, dispatch
  <2> QED BY <2>1, <2>2, AnswerFrame
<1>18. CASE DataSend
  <2>1. PICK m \in Message : DataSends(m) /\ m.kind # "compress"
    BY <1>a, <1>18, DataSendForm
  <2>2. InCharge' \subseteq InCharge /\ UNCHANGED <<dpc, held, results, requested>>
    BY <1>18
       DEF DataSend, InCharge, compute, jobLock, dispatch, worker, clients, answers
  <2> QED BY <1>a, <2>1, <2>2, AnswerPush DEF DataSends, TypeQueues
<1>19. CASE DataGivesUp
  <2>1. InCharge' \subseteq InCharge
    BY <1>a, <1>19
       DEF DataGivesUp, InCharge, compute, jobLock, dispatch, worker
  <2>2. /\ UNCHANGED <<inbox, results, requested>>
        /\ dpc' = "busy" => dpc = "busy" /\ held' = held
    BY <1>19
       DEF DataGivesUp, clients, answers, compute, dispatch
  <2> QED BY <2>1, <2>2, AnswerFrame
<1>20. CASE DataCrashes
  <2>1. InCharge' \subseteq InCharge
    BY <1>a, <1>20
       DEF DataCrashes, InCharge, compute, jobLock, dispatch, worker
  <2>2. /\ UNCHANGED <<inbox, results, requested>>
        /\ dpc' = "busy" => dpc = "busy" /\ held' = held
    BY <1>20
       DEF DataCrashes, clients, answers, compute, dispatch
  <2> QED BY <2>1, <2>2, AnswerFrame
<1>21. CASE Compress
  <2> DEFINE m == [kind |-> "compress", job |-> requested + 1, n |-> 0]
             last == Len(inbox) + 1
  <2>1. /\ requested' = requested + 1 /\ inbox' = Append(inbox, m)
        /\ results' = results /\ requested + 1 \in Jobs /\ requested \in Nat
        /\ UNCHANGED <<dpc, held>>
    BY <1>a, <1>21, SizesAssumption
       DEF Compress, Jobs, TypeClients, answers, compute, dispatch
  <2>2. m \in Message /\ m.job = requested + 1
    BY <2>1 DEF Message
  <2>3. InCharge' = InCharge
    BY <1>21 DEF Compress, InCharge, compute, jobLock, dispatch, worker
  <2>4. /\ Waiting' \subseteq Waiting \cup {last} /\ inbox'[last] = m
        /\ \A p \in Waiting : p # last /\ inbox'[p] = inbox[p] /\ inbox[p].job \in Jobs
    BY <1>a, <1>b, <2>1, <2>2, InboxPush DEF Waiting, TypeQueues
  <2>5. /\ results[requested + 1] = <<>> /\ requested + 1 \notin InCharge
        /\ \A p \in Waiting : inbox[p].job # requested + 1
    BY <2>1, <2>4 DEF AnswerInv, InCharge, Jobs
  <2>6. \A k \in Jobs : Len(results'[k]) <= 1 /\ (k > requested' => results'[k] = <<>>)
    BY <2>1 DEF AnswerInv, Jobs
  <2>7. \A k \in InCharge' : results'[k] = <<>> /\ k <= requested'
    BY <2>1, <2>3 DEF AnswerInv, InCharge, Jobs
  <2>8. ASSUME NEW p \in Waiting'
        PROVE  /\ inbox'[p].job <= requested' /\ inbox'[p].job \notin InCharge'
               /\ results'[inbox'[p].job] = <<>>
    <3>1. CASE p = last
      BY <2>1, <2>2, <2>3, <2>4, <2>5, <3>1
    <3>2. CASE p \in Waiting
      <4>1. inbox'[p] = inbox[p] /\ inbox[p].job \in Jobs
        BY <2>4, <3>2
      <4>2. /\ inbox[p].job <= requested /\ inbox[p].job \notin InCharge
            /\ results[inbox[p].job] = <<>>
        BY <3>2 DEF AnswerInv
      <4>3. inbox[p].job <= requested + 1
        BY <2>1, <4>1, <4>2 DEF Jobs
      <4> QED BY <2>1, <2>3, <4>1, <4>2, <4>3
    <3> QED BY <2>4, <3>1, <3>2
  <2>9. \A p, q \in Waiting' : inbox'[p].job = inbox'[q].job => p = q
    BY <2>2, <2>4, <2>5 DEF AnswerInv
  <2>10. dpc = "busy" =>
           /\ held.job \in Jobs \ InCharge /\ held.job <= requested + 1
           /\ held.job # requested + 1 /\ results[held.job] = <<>>
           /\ \A p \in Waiting' : inbox'[p].job # held.job
    <3>1. dpc = "busy" => held.job \in Jobs /\ held.job <= requested
      BY DEF AnswerInv
    <3>2. dpc = "busy" => held.job <= requested + 1 /\ held.job # requested + 1
      BY <2>1, <3>1 DEF Jobs
    <3> QED BY <2>2, <2>4, <3>2 DEF AnswerInv
  <2> QED BY <2>1, <2>3, <2>6, <2>7, <2>8, <2>9, <2>10 DEF AnswerInv
<1>22. ASSUME NEW j \in Jobs, Cancel(j) PROVE AnswerInv'
  <2>1. [kind |-> "cancel", job |-> j, n |-> 0] \in Message
    BY DEF Message
  <2>2. InCharge' \subseteq InCharge
    BY <1>22 DEF Cancel, InCharge, compute, jobLock, dispatch, worker
  <2> QED BY <1>a, <1>22, <2>1, <2>2, AnswerPush
          DEF Cancel, TypeQueues, compute, dispatch, answers
<1>23. CASE UNCHANGED vars
  <2>1. InCharge' \subseteq InCharge
    BY <1>23
       DEF vars, InCharge, jobLock, dispatch, worker
  <2>2. /\ UNCHANGED <<inbox, results, requested>>
        /\ dpc' = "busy" => dpc = "busy" /\ held' = held
    BY <1>23
       DEF vars, clients, answers, compute, dispatch
  <2> QED BY <2>1, <2>2, AnswerFrame
<1>24. CASE SendBusy
  <2> DEFINE j == held.job
  <2>1. /\ UNCHANGED <<inbox, requested>> /\ "BUSY" \in Statuses /\ dpc' # "busy"
        /\ SendToRequester(j, "BUSY")
    BY <1>24 DEF SendBusy, clients, Statuses
  <2>2. /\ j \in Jobs /\ j \notin InCharge /\ j <= requested /\ results[j] = <<>>
        /\ \A p \in Waiting : inbox[p].job # j
    BY <1>24 DEF SendBusy, AnswerInv
  <2>3. InCharge' \subseteq InCharge /\ Waiting' = Waiting
    BY <1>24, <2>1 DEF SendBusy, InCharge, Waiting, jobLock, worker
  <2> HIDE DEF j
  <2>4. Len(results'[j]) <= 1 /\ \A k \in Jobs : k # j => results'[k] = results[k]
    BY <1>a, <2>1, <2>2, Sent
  <2>5. \A k \in Jobs : Len(results'[k]) <= 1 /\ (k > requested' => results'[k] = <<>>)
    BY <1>a, <2>1, <2>2, <2>4 DEF AnswerInv, Jobs, TypeClients
  <2>6. \A k \in InCharge' : results'[k] = <<>> /\ k <= requested'
    BY <2>1, <2>2, <2>3, <2>4 DEF AnswerInv, InCharge
  <2>7. \A p \in Waiting : inbox[p].job \in Jobs
    BY <1>b DEF Waiting
  <2>8. \A p \in Waiting' :
          /\ inbox'[p].job <= requested' /\ inbox'[p].job \notin InCharge'
          /\ results'[inbox'[p].job] = <<>>
    BY <2>1, <2>2, <2>3, <2>4, <2>7 DEF AnswerInv
  <2> QED BY <2>1, <2>3, <2>5, <2>6, <2>8 DEF AnswerInv
<1>25. CASE RequesterReads
  <2>1. InCharge' \subseteq InCharge
    BY <1>25 DEF RequesterReads, InCharge, compute, jobLock, dispatch, worker
  <2>2. UNCHANGED <<inbox, results, requested, dpc, held>>
    BY <1>25 DEF RequesterReads, clients, compute, dispatch
  <2> QED BY <2>1, <2>2, AnswerFrame
<1> QED BY <1>1, <1>2, <1>3, <1>4, <1>5, <1>6, <1>7, <1>8, <1>9, <1>10, <1>11, <1>12,
   <1>13, <1>14, <1>15, <1>16, <1>17, <1>18, <1>19, <1>20, <1>21, <1>22, <1>23, <1>24,
   <1>25
   DEF Next, DispatchStep, WorkerStep, DataStep, DataServes, ClientStep, Quiescent

\* Only reading the input changes what a worker has of it.
LEMMA InputFrame ==
  [Next]_vars => input' = input \/ \E j \in Jobs : Read(j)
BY DEF Next, DispatchStep, WorkerStep, DataStep, DataServes, ClientStep, Quiescent, vars, Receive,
       SendBusy, Begin, Launch, Deliver, DeliverTimesOut, Start, GivesUp, Encode,
       CheckCancelled, Write, Ack, SendResult, JobEnd, Unwatch, Release, DataReceive,
       DataSend, DataGivesUp, DataCrashes, RequesterReads, Compress, Cancel, compute, worker

\* Only its own steps and its launch move a worker.
LEMMA PcFrame ==
  ASSUME TypeOK, [Next]_vars, NEW j \in Jobs
  PROVE  pc'[j] = pc[j] \/ Launch \/ WorkerStep(j)
<1>1. pc \in [Jobs -> {"idle"} \cup Working \cup Finishing]
  BY DEF TypeOK, TypeThreads
<1>2. ASSUME NEW k \in Jobs, WorkerStep(k), k # j PROVE pc'[j] = pc[j]
  BY <1>1, <1>2
     DEF WorkerStep, Start, Read, GivesUp, Encode, CheckCancelled, Write, Ack,
         SendResult, JobEnd, Unwatch, Release, Ends, Goto
<1> QED BY <1>2
        DEF Next, DispatchStep, DataStep, DataServes, ClientStep, Quiescent, vars, Receive,
            SendBusy, Begin, Deliver, DeliverTimesOut, DataReceive, DataSend, DataGivesUp, DataCrashes,
            RequesterReads, Compress, Cancel, compute, worker

\* A job that has a result keeps it.
LEMMA ResultsFrame ==
  ASSUME TypeOK, AnswerInv, [Next]_vars, NEW j \in Jobs
  PROVE  results'[j] = results[j] \/ results'[j] # <<>>
<1>1. TypeClients /\ results \in [Jobs -> Seq(Outcomes)] /\ "BUSY" \in Statuses
      /\ \A k \in Jobs : status[k] \in Statuses
  BY DEF TypeOK, TypeClients, TypeThreads, Statuses
<1>2. ASSUME NEW k \in Jobs, NEW st \in Statuses, SendToRequester(k, st)
      PROVE  results'[j] = results[j] \/ results'[j] # <<>>
  BY <1>1, <1>2, Sent
<1>3. CASE SendBusy
  <2>1. held.job \in Jobs
    BY <1>3 DEF SendBusy, AnswerInv
  <2> QED BY <1>1, <1>2, <1>3, <2>1 DEF SendBusy
<1>4. CASE \E k \in Jobs : SendResult(k)
  BY <1>1, <1>2, <1>4 DEF SendResult
<1> QED BY <1>3, <1>4
        DEF Next, DispatchStep, WorkerStep, DataStep, DataServes, ClientStep, Quiescent,
            vars, answers, Receive, Begin, Launch, Deliver, DeliverTimesOut, Start, Read,
            GivesUp, Encode, CheckCancelled, Write, Ack, JobEnd, Unwatch, Release,
            DataReceive, DataSend, DataGivesUp, DataCrashes, RequesterReads, Compress,
            Cancel

\* What Read does to the input of its worker.
LEMMA ReadInput ==
  ASSUME TypeOK, NEW j \in Jobs, Read(j)
  PROVE  /\ \A k \in Jobs : k # j => input'[k] = input[k]
         /\ \/ input'[j] = input[j] /\ reply_buf.kind \notin {"chunk", "cut"}
            \/ input'[j] = input[j] /\ pc'[j] = "result"
            \/ /\ input'[j] = Append(input[j], reply_buf)
               /\ reply_buf \in Message
               /\ reply_buf.kind \in {"chunk", "cut"} /\ reply_buf.n # 0
               /\ \/ pc'[j] = "result" /\ status'[j] = "FAILED"
                  \/ pc'[j] = IF IsLast(reply_buf) THEN "encode" ELSE "readCancel"
<1>1. input \in [Jobs -> Seq(Message)] /\ status \in [Jobs -> Statuses]
      /\ pc \in [Jobs -> {"idle"} \cup Working \cup Finishing]
  BY DEF TypeOK, TypeFiles, TypeThreads
<1>2. reply_buf.n # 0 => reply_buf \in Message
  BY DEF TypeOK, TypeShared, Nothing
<1>3. \A k \in Jobs : k # j => input'[k] = input[k]
  BY <1>1 DEF Read
<1> QED BY <1>1, <1>2, <1>3 DEF Read, Ends, Goto

\* Each step keeps a job whose buffer was overrun from reading on.
LEMMA RoomStep ==
  TypeOK /\ LockInv /\ AnswerInv /\ RoomInv /\ [Next]_vars => RoomInv'
<1> SUFFICES ASSUME TypeOK, LockInv, AnswerInv, RoomInv, [Next]_vars, NEW j \in Jobs,
                    Len(input'[j]) > Cap
             PROVE  pc'[j] = "result" \/ results'[j] # <<>>
  BY DEF RoomInv
<1>a. /\ input \in [Jobs -> Seq(Message)] /\ TypeClients /\ status[j] \in Statuses
      /\ pc \in [Jobs -> {"idle"} \cup Working \cup Finishing]
  BY DEF TypeOK, TypeFiles, TypeThreads
<1>1. CASE Read(j)
  <2>1. input'[j] = input[j] => pc[j] = "result" \/ results[j] # <<>>
    BY DEF RoomInv
  <2>2. results[j] = <<>> /\ pc[j] # "result"
    BY <1>1 DEF Read, AnswerInv, InCharge, Working
  <2>3. input' = [input EXCEPT ![j] = Append(@, reply_buf)]
    BY <1>1, <2>1, <2>2 DEF Read
  <2>4. Len(input'[j]) = Len(input[j]) + 1 /\ Len(input[j]) \in Nat
    <3>1. reply_buf \in Message \cup {Nothing}
      BY DEF TypeOK, TypeShared
    <3> QED BY <1>a, <2>3, <3>1
  <2>5. ~(Len(input[j]) < Cap)
    BY <2>4, SizesAssumption
  <2> QED BY <1>1, <1>a, <2>1, <2>2, <2>5 DEF Read, Ends, Goto
<1>2. CASE ~Read(j)
  <2>1. input'[j] = input[j]
    BY <1>2, <1>a, ReadInput, InputFrame
  <2>2. pc[j] = "result" \/ results[j] # <<>>
    BY <2>1 DEF RoomInv
  <2>3. results[j] # <<>> => results'[j] # <<>>
    BY ResultsFrame
  <2>4. CASE pc[j] = "result"
    <3>1. CASE SendResult(j)
      BY <1>a, <3>1, Sent DEF SendResult
    <3>2. CASE Launch
      BY <2>4, <3>2 DEF Launch, LockInv, Active
    <3>3. CASE WorkerStep(j)
      BY <2>4, <3>1, <3>3
         DEF WorkerStep, Start, Read, GivesUp, Encode, CheckCancelled, Write, Ack,
             JobEnd, Unwatch, Release
    <3> QED BY <2>4, <3>2, <3>3, PcFrame
  <2> QED BY <2>2, <2>3, <2>4
<1> QED BY <1>1, <1>2

\* The inductive invariant, for every number of jobs.
LEMMA Inductive == Spec => []IInv
<1>1. Init => IInv
  <2> SUFFICES ASSUME Init PROVE IInv
    OBVIOUS
  <2>1. TypeShared /\ TypeThreads
    BY DEF Init, TypeShared, TypeThreads, Statuses
  <2>2. TypeFiles /\ TypeQueues
    BY SizesAssumption DEF Init, TypeFiles, TypeQueues, Nothing
  <2>6. TypeClients
    <3>1. 0 \in 0..Backlog /\ 0 \in 0..MaxJobs
      BY SizesAssumption
    <3>2. <<>> \in Seq(Outcomes)
      OBVIOUS
    <3> QED BY <3>1, <3>2 DEF Init, TypeClients
  <2>3. LockInv /\ MailInv /\ WatchInv /\ BlockInv /\ RoomInv
    BY SizesAssumption
       DEF Init, LockInv, MailInv, WatchInv, BlockInv, RoomInv, Active, Working
  <2>4. InCharge = {} /\ Waiting = {}
    BY DEF Init, InCharge, Waiting, Working
  <2>5. AnswerInv
    BY <2>4 DEF Init, AnswerInv
  <2> QED BY <2>1, <2>2, <2>3, <2>5, <2>6 DEF IInv, TypeOK
<1>2. IInv /\ [Next]_vars => IInv'
  BY TypeStep, ControlStep, AnswerStep, RoomStep DEF IInv
<1> QED BY <1>1, <1>2, PTL DEF Spec

\* What the threads of compute share stays in order for any number of jobs: one
\* worker, which owns the mailbox and is watched, and one result for each request
\* (dispatch.c, worker.c).
THEOREM JobTheorem == Spec => []JobInv
<1>1. IInv => JobInv
  <2> SUFFICES ASSUME IInv PROVE JobInv
    OBVIOUS
  <2>1. OneWorker
    BY DEF IInv, LockInv, OneWorker
  <2>2. MailboxIsMine
    BY DEF IInv, MailInv, MailboxIsMine
  <2>3. WatchFollowsJob
    BY DEF IInv, WatchInv, WatchFollowsJob
  <2>4. OneResult
    BY DEF IInv, AnswerInv, OneResult
  <2> QED BY <2>1, <2>2, <2>3, <2>4 DEF IInv, JobInv
<1> QED BY <1>1, Inductive, PTL

-----------------------------------------------------------------------------
\* A message that is not a cancel changes nothing about the cancels that wait.
LEMMA CancelPush ==
  ASSUME inbox \in Seq(Message), CancelWaits, NEW m \in Message, m.kind # "cancel",
         inbox' = Append(inbox, m), UNCHANGED cancelled
  PROVE  CancelWaits'
BY InboxPush DEF CancelWaits

\* A result that is CANCELLED only for a job that was cancelled may be added.
LEMMA SentStep ==
  ASSUME TypeClients, CancelSent, NEW j \in Jobs, NEW s \in Statuses,
         s = "CANCELLED" => j \in cancelled, UNCHANGED cancelled, SendToRequester(j, s)
  PROVE  CancelSent'
<1>1. PICK o \in {s, Unheard} : results' = [results EXCEPT ![j] = Append(@, o)]
  BY Sent
<1>2. o \in Outcomes /\ (o = "CANCELLED" => j \in cancelled)
  BY DEF Outcomes, Unheard
<1>3. /\ results'[j] = Append(results[j], o) /\ results[j] \in Seq(Outcomes)
      /\ \A k \in Jobs : k # j => results'[k] = results[k]
  BY <1>1 DEF TypeClients
<1>4. \A p \in 1..Len(results'[j]) : results'[j][p] = "CANCELLED" => j \in cancelled'
  BY <1>2, <1>3 DEF CancelSent
<1> QED BY <1>3, <1>4 DEF CancelSent

\* Each step keeps the cancels with the jobs they were sent for.
LEMMA CancelStep == TypeOK /\ AnswerInv /\ CancelInv /\ [Next]_vars => CancelInv'
<1> SUFFICES ASSUME TypeOK, AnswerInv, CancelInv, [Next]_vars PROVE CancelInv'
  OBVIOUS
<1>a. TypeShared /\ TypeThreads /\ TypeQueues /\ TypeClients
  BY DEF TypeOK
<1>b. CancelWaits /\ CancelArmed /\ CancelEnds /\ CancelSent
  BY DEF CancelInv
<1>1. CASE Receive
  <2>a. /\ Head(inbox) = inbox[1] /\ Head(inbox).job \in Jobs /\ 1 \in 1..Len(inbox)
        /\ \A p \in 1..Len(Tail(inbox)) :
             p + 1 \in 1..Len(inbox) /\ Tail(inbox)[p] = inbox[p + 1]
    BY <1>a, <1>1, InboxHead DEF Receive, TypeQueues
  <2>b. inbox' = Tail(inbox) /\ UNCHANGED <<cancelled, status>>
    BY <1>1 DEF Receive, clients, answers, worker
  <2>1. CancelWaits'
    BY <1>b, <2>a, <2>b DEF CancelWaits
  <2>2. CancelArmed'
    BY <1>1, <1>b, <2>a, <2>b
       DEF Receive, HandleCompress, HandleCancel, CancelWaits, CancelArmed, jobLock
  <2>3. CancelEnds'
    BY <1>b, <2>b DEF CancelEnds
  <2>4. CancelSent'
    BY <1>1, <1>b, <2>b DEF Receive, CancelSent, answers
  <2> QED BY <2>1, <2>2, <2>3, <2>4 DEF CancelInv
<1>2. CASE Begin
  BY <1>b, <1>2
     DEF Begin, CancelInv, CancelWaits, CancelArmed, CancelEnds, CancelSent,
         jobLock, clients, answers, worker
<1>3. CASE Launch
  BY <1>a, <1>b, <1>3
     DEF Launch, CancelInv, CancelWaits, CancelArmed, CancelEnds, CancelSent,
         TypeThreads, jobLock, clients, answers
<1>4. CASE Deliver
  BY <1>b, <1>4
     DEF Deliver, CancelInv, CancelWaits, CancelArmed, CancelEnds, CancelSent,
         jobLock, clients, answers, worker
<1>5. CASE DeliverTimesOut
  BY <1>b, <1>5
     DEF DeliverTimesOut, CancelInv, CancelWaits, CancelArmed, CancelEnds,
         CancelSent, jobLock, clients, answers, worker
<1>6. ASSUME NEW j \in Jobs, Start(j) PROVE CancelInv'
  BY <1>b, <1>6
     DEF Start, Goto, CancelInv, CancelWaits, CancelArmed, CancelEnds,
         CancelSent, jobLock, clients, answers
<1>7. ASSUME NEW j \in Jobs, Read(j) PROVE CancelInv'
  BY <1>a, <1>b, <1>7
     DEF Read, Ends, Goto, CancelInv, CancelWaits, CancelArmed, CancelEnds,
         CancelSent, TypeThreads, jobLock, clients, answers
<1>8. ASSUME NEW j \in Jobs, GivesUp(j) PROVE CancelInv'
  BY <1>a, <1>b, <1>8
     DEF GivesUp, Ends, Goto, CancelInv, CancelWaits, CancelArmed, CancelEnds,
         CancelSent, TypeThreads, jobLock, clients, answers
<1>9. ASSUME NEW j \in Jobs, Encode(j) PROVE CancelInv'
  BY <1>a, <1>b, <1>9
     DEF Encode, Ends, Goto, CancelInv, CancelWaits, CancelArmed, CancelEnds,
         CancelSent, TypeThreads, jobLock, clients, answers
<1>10. ASSUME NEW j \in Jobs, CheckCancelled(j) PROVE CancelInv'
  BY <1>a, <1>b, <1>10
     DEF CheckCancelled, Ends, Goto, Cancelled, CancelInv, CancelWaits,
         CancelArmed, CancelEnds, CancelSent, TypeThreads, jobLock, clients, answers
<1>11. ASSUME NEW j \in Jobs, Write(j) PROVE CancelInv'
  BY <1>b, <1>11
     DEF Write, Goto, CancelInv, CancelWaits, CancelArmed, CancelEnds,
         CancelSent, jobLock, clients, answers
<1>12. ASSUME NEW j \in Jobs, Ack(j) PROVE CancelInv'
  BY <1>a, <1>b, <1>12
     DEF Ack, Ends, Goto, CancelInv, CancelWaits, CancelArmed, CancelEnds,
         CancelSent, TypeThreads, jobLock, clients, answers
<1>13. ASSUME NEW j \in Jobs, SendResult(j) PROVE CancelInv'
  <2>1. CancelWaits' /\ CancelArmed' /\ CancelEnds'
    BY <1>13, <1>b
       DEF SendResult, CancelWaits, CancelArmed, CancelEnds, jobLock, clients, answers
  <2>2. /\ SendToRequester(j, status[j])
        /\ UNCHANGED cancelled /\ status[j] \in Statuses
        /\ status[j] = "CANCELLED" => j \in cancelled
    BY <1>13, <1>a, <1>b DEF SendResult, CancelEnds, TypeThreads, clients, answers
  <2>3. CancelSent'
    BY <1>a, <1>b, <2>2, SentStep
  <2> QED BY <2>1, <2>3 DEF CancelInv
<1>14. ASSUME NEW j \in Jobs, JobEnd(j) PROVE CancelInv'
  BY <1>b, <1>14
     DEF JobEnd, Goto, CancelInv, CancelWaits, CancelArmed, CancelEnds,
         CancelSent, jobLock, clients, answers
<1>15. ASSUME NEW j \in Jobs, Unwatch(j) PROVE CancelInv'
  BY <1>b, <1>15
     DEF Unwatch, Goto, CancelInv, CancelWaits, CancelArmed, CancelEnds,
         CancelSent, jobLock, clients, answers
<1>16. ASSUME NEW j \in Jobs, Release(j) PROVE CancelInv'
  BY <1>b, <1>16
     DEF Release, Goto, CancelInv, CancelWaits, CancelArmed, CancelEnds,
         CancelSent, jobLock, clients, answers
<1>17. CASE DataReceive
  BY <1>b, <1>17
     DEF DataReceive, CancelInv, CancelWaits, CancelArmed, CancelEnds,
         CancelSent, compute, jobLock, worker, clients, answers
<1>18. CASE DataSend
  <2>1. PICK m \in Message : DataSends(m) /\ m.kind # "cancel"
    BY <1>a, <1>18, DataSendForm
  <2>2. CancelWaits'
    BY <1>a, <1>b, <1>18, <2>1, CancelPush DEF DataSend, DataSends, TypeQueues, clients
  <2>3. CancelArmed' /\ CancelEnds' /\ CancelSent'
    BY <1>b, <1>18
       DEF DataSend, CancelArmed, CancelEnds, CancelSent, compute, jobLock, worker,
           clients, answers
  <2> QED BY <2>2, <2>3 DEF CancelInv
<1>19. CASE DataGivesUp
  BY <1>b, <1>19
     DEF DataGivesUp, CancelInv, CancelWaits, CancelArmed, CancelEnds,
         CancelSent, compute, jobLock, worker, clients, answers
<1>20. CASE DataCrashes
  BY <1>b, <1>20
     DEF DataCrashes, CancelInv, CancelWaits, CancelArmed, CancelEnds,
         CancelSent, compute, jobLock, worker, clients, answers
<1>21. CASE Compress
  <2> DEFINE m == [kind |-> "compress", job |-> requested + 1, n |-> 0]
  <2>1. m \in Message /\ m.kind # "cancel"
    BY <1>a, <1>21, SizesAssumption DEF Compress, TypeClients, Message, Jobs
  <2>2. CancelWaits'
    BY <1>a, <1>b, <1>21, <2>1, CancelPush DEF Compress, TypeQueues
  <2>3. CancelArmed' /\ CancelEnds' /\ CancelSent'
    BY <1>b, <1>21
       DEF Compress, CancelArmed, CancelEnds, CancelSent, compute, jobLock, worker,
           answers
  <2> QED BY <2>2, <2>3 DEF CancelInv
<1>22. ASSUME NEW j \in Jobs, Cancel(j) PROVE CancelInv'
  <2> DEFINE m == [kind |-> "cancel", job |-> j, n |-> 0]
  <2>1. m \in Message /\ m.job = j /\ cancelled' = cancelled \cup {j}
        /\ inbox' = Append(inbox, m)
    BY <1>22 DEF Cancel, Message
  <2>2. CancelWaits'
    BY <1>a, <1>b, <2>1, InboxPush DEF CancelWaits, TypeQueues
  <2>3. CancelArmed' /\ CancelEnds' /\ CancelSent'
    BY <1>b, <1>22, <2>1
       DEF Cancel, CancelArmed, CancelEnds, CancelSent, compute, jobLock, worker,
           answers
  <2> QED BY <2>2, <2>3 DEF CancelInv
<1>23. CASE UNCHANGED vars
  BY <1>b, <1>23
     DEF vars, CancelInv, CancelWaits, CancelArmed, CancelEnds, CancelSent,
         jobLock, worker, clients, answers
<1>24. CASE SendBusy
  <2>1. CancelWaits' /\ CancelArmed' /\ CancelEnds'
    BY <1>24, <1>b
       DEF SendBusy, CancelWaits, CancelArmed, CancelEnds, jobLock, worker, clients
  <2>2. /\ SendToRequester(held.job, "BUSY") /\ held.job \in Jobs
        /\ UNCHANGED cancelled /\ "BUSY" \in Statuses /\ "BUSY" # "CANCELLED"
    BY <1>24 DEF SendBusy, AnswerInv, Statuses, clients
  <2>3. CancelSent'
    BY <1>a, <1>b, <2>2, SentStep
  <2> QED BY <2>1, <2>3 DEF CancelInv
<1>25. CASE RequesterReads
  BY <1>b, <1>25
     DEF RequesterReads, CancelInv, CancelWaits, CancelArmed, CancelEnds, CancelSent,
         compute, jobLock, worker, clients
<1> QED BY <1>1, <1>2, <1>3, <1>4, <1>5, <1>6, <1>7, <1>8, <1>9, <1>10, <1>11, <1>12,
   <1>13, <1>14, <1>15, <1>16, <1>17, <1>18, <1>19, <1>20, <1>21, <1>22, <1>23, <1>24,
   <1>25
   DEF Next, DispatchStep, WorkerStep, DataStep, DataServes, ClientStep, Quiescent

\* A cancel that came too late for its job never hits the next one: whatever is
\* reported as cancelled was cancelled (worker.c, handle_cancel_request).
THEOREM CancelTheorem == Spec => []CancelHitsItsJob
<1>1. Init => CancelInv
  BY DEF Init, CancelInv, CancelWaits, CancelArmed, CancelEnds, CancelSent
<1>2. IInv /\ CancelInv /\ [Next]_vars => CancelInv'
  BY CancelStep DEF IInv
<1>3. CancelInv => CancelHitsItsJob
  BY DEF CancelInv, CancelSent, CancelHitsItsJob
<1> QED BY <1>1, <1>2, <1>3, Inductive, PTL DEF Spec

-----------------------------------------------------------------------------
(***************************************************************************)
(* The way of the chunks.                                                  *)
(***************************************************************************)
\* There is a message, or nothing, at every place.
LEMMA AtTyped ==
  ASSUME TypeOK, NEW p \in Places
  PROVE  /\ At[p] \in Message \cup {Nothing} /\ At[p].n \in Nat /\ p \in Int
         /\ p = -1 \/ p = 0 \/ p \in 1..Len(inbox)
<1>1. inbox \in Seq(Message) /\ Len(inbox) \in Nat
      /\ held \in Message \cup {Nothing} /\ reply_buf \in Message \cup {Nothing}
  BY DEF TypeOK, TypeQueues, TypeThreads, TypeShared
<1>2. p = -1 \/ p = 0 \/ p \in 1..Len(inbox)
  BY <1>1 DEF Places
<1>3. At[p] \in Message \cup {Nothing}
  BY <1>1, <1>2 DEF At
<1>4. At[p].n \in Nat
  BY <1>3 DEF Message, Nothing
<1> QED BY <1>2, <1>3, <1>4 DEF Places

\* Nothing moves when the inbox, the slot and the dispatch thread's hands stay.
LEMMA AtSame ==
  ASSUME UNCHANGED <<inbox, reply_ready, reply_buf, held>>,
         dpc' = "deliver" <=> dpc = "deliver"
  PROVE  /\ Places' = Places /\ At' = At
         /\ \A j \in Jobs : Chunk(j)' = Chunk(j)
<1>1. Places' = Places
  BY DEF Places
<1>2. At' = At
  BY <1>1 DEF At
<1> QED BY <1>1, <1>2 DEF Chunk, IsChunk

\* Receive moves the messages up by one place and takes no chunk away.
LEMMA AtReceive ==
  ASSUME TypeOK, Receive, NEW j \in Jobs
  PROVE  /\ \A p \in Chunk(j)' :
              \/ p = -1 /\ -1 \in Chunk(j) /\ At'[p] = At[-1]
              \/ p \in Int /\ p >= 0 /\ p + 1 \in Chunk(j) /\ At'[p] = At[p + 1]
         /\ \A q \in Chunk(j) : \E p \in Chunk(j)' : At'[p] = At[q]
<1>1. inbox \in Seq(Message) /\ inbox # <<>>
  BY DEF TypeOK, TypeQueues, Receive
<1>2. /\ Head(inbox) = inbox[1] /\ 1 \in 1..Len(inbox) /\ Len(inbox) \in Nat
      /\ Len(Tail(inbox)) = Len(inbox) - 1
      /\ \A p \in 1..Len(Tail(inbox)) :
           p + 1 \in 1..Len(inbox) /\ Tail(inbox)[p] = inbox[p + 1]
  BY <1>1, InboxHead
<1>3. /\ inbox' = Tail(inbox) /\ dpc = "receive" /\ UNCHANGED <<reply_ready, reply_buf>>
      /\ \/ dpc' = "deliver" /\ held' = Head(inbox)
         \/ dpc' # "deliver" /\ Head(inbox).kind \in {"compress", "cancel"}
  BY DEF Receive, HandleCompress, HandleCancel, mailbox, dispatch
<1>4. Places' = (-1)..(Len(inbox) - 1) /\ Places = (-1)..Len(inbox)
  BY <1>2, <1>3 DEF Places
<1>5. /\ At'[-1] = At[-1] /\ At[0] = Nothing /\ At[1] = inbox[1]
      /\ At'[0] = IF dpc' = "deliver" THEN inbox[1] ELSE Nothing
  BY <1>2, <1>3, <1>4 DEF At
<1>6. \A p \in Places' : p >= 1 => p + 1 \in Places /\ At'[p] = At[p + 1]
  BY <1>2, <1>3, <1>4 DEF At
<1>7. ~IsChunk(Nothing, j)
  BY DEF IsChunk, Nothing
<1>8. \A p \in Chunk(j)' :
        \/ p = -1 /\ -1 \in Chunk(j) /\ At'[p] = At[-1]
        \/ p \in Int /\ p >= 0 /\ p + 1 \in Chunk(j) /\ At'[p] = At[p + 1]
  <2> SUFFICES ASSUME NEW p \in Places', IsChunk(At'[p], j)
               PROVE  \/ p = -1 /\ -1 \in Chunk(j) /\ At'[p] = At[-1]
                      \/ p \in Int /\ p >= 0 /\ p + 1 \in Chunk(j) /\ At'[p] = At[p + 1]
    BY DEF Chunk, IsChunk
  <2>1. CASE p = -1
    BY <1>4, <1>2, <1>5, <2>1 DEF Chunk
  <2>2. CASE p = 0
    BY <1>2, <1>4, <1>5, <1>7, <2>2 DEF Chunk
  <2>3. CASE p >= 1
    BY <1>4, <1>6, <2>3 DEF Chunk
  <2> QED BY <1>4, <2>1, <2>2, <2>3
<1>9. ASSUME NEW q \in Chunk(j) PROVE \E p \in Chunk(j)' : At'[p] = At[q]
  <2>1. q \in Places /\ IsChunk(At[q], j)
    BY DEF Chunk
  <2>2. CASE q = -1
    <3>1. -1 \in Chunk(j)'
      BY <1>2, <1>4, <1>5, <2>1, <2>2 DEF Chunk, IsChunk
    <3> QED BY <1>5, <2>2, <3>1
  <2>3. CASE q = 0
    BY <1>5, <1>7, <2>1, <2>3
  <2>4. CASE q = 1
    <3>1. dpc' = "deliver"
      BY <1>2, <1>3, <1>5, <2>1, <2>4 DEF IsChunk
    <3>2. 0 \in Chunk(j)'
      BY <1>2, <1>4, <1>5, <2>1, <2>4, <3>1 DEF Chunk, IsChunk
    <3> QED BY <1>5, <2>4, <3>1, <3>2
  <2>5. CASE q > 1
    <3>1. q - 1 \in Places' /\ q - 1 >= 1 /\ (q - 1) + 1 = q
      BY <1>2, <1>4, <2>1, <2>5
    <3>2. At'[q - 1] = At[q]
      BY <1>6, <3>1
    <3>3. q - 1 \in Chunk(j)'
      BY <2>1, <3>1, <3>2 DEF Chunk, IsChunk
    <3> QED BY <3>2, <3>3
  <2> QED BY <1>4, <2>1, <2>2, <2>3, <2>4, <2>5
<1> QED BY <1>8, <1>9

\* A reply that is stored goes from the dispatch thread's hands into the slot, which
\* was empty.
LEMMA AtStored ==
  ASSUME TypeOK, Deliver, epoch_open, reply_epoch = entry_epoch, NEW j \in Jobs
  PROVE  /\ \A p \in Chunk(j)' :
              \/ p = -1 /\ 0 \in Chunk(j) /\ At'[p] = At[0]
              \/ p \in Int /\ p >= 1 /\ p \in Chunk(j) /\ At'[p] = At[p]
         /\ \A q \in Chunk(j) : \E p \in Chunk(j)' : At'[p] = At[q]
<1>1. /\ dpc = "deliver" /\ ~reply_ready /\ dpc' = "receive" /\ inbox' = inbox
      /\ reply_buf' = held /\ reply_ready' /\ Len(inbox) \in Nat
  BY DEF Deliver, SlotTaken, TypeOK, TypeQueues
<1>2. Places' = Places /\ Places = (-1)..Len(inbox)
  BY <1>1 DEF Places
<1>3. /\ At[-1] = Nothing /\ At[0] = held /\ At'[-1] = held /\ At'[0] = Nothing
      /\ \A p \in Places : p >= 1 => At'[p] = At[p]
  BY <1>1, <1>2 DEF At
<1>4. ~IsChunk(Nothing, j)
  BY DEF IsChunk, Nothing
<1>5. ASSUME NEW p \in Chunk(j)'
      PROVE  \/ p = -1 /\ 0 \in Chunk(j) /\ At'[p] = At[0]
             \/ p \in Int /\ p >= 1 /\ p \in Chunk(j) /\ At'[p] = At[p]
  <2>1. p \in Places /\ IsChunk(At'[p], j)
    BY <1>2, <1>5 DEF Chunk, IsChunk
  <2> QED BY <1>1, <1>2, <1>3, <1>4, <2>1 DEF Chunk
<1>6. ASSUME NEW q \in Chunk(j) PROVE \E p \in Chunk(j)' : At'[p] = At[q]
  <2>1. q \in Places /\ IsChunk(At[q], j)
    BY DEF Chunk
  <2>2. CASE q = 0
    <3>1. -1 \in Chunk(j)'
      BY <1>1, <1>2, <1>3, <2>1, <2>2 DEF Chunk, IsChunk
    <3> QED BY <1>3, <2>2, <3>1
  <2>3. CASE q >= 1
    <3>1. q \in Chunk(j)'
      BY <1>2, <1>3, <2>1, <2>3 DEF Chunk, IsChunk
    <3> QED BY <1>3, <2>1, <2>3, <3>1
  <2> QED BY <1>1, <1>2, <1>3, <1>4, <2>1, <2>2, <2>3
<1> QED BY <1>5, <1>6

\* A reply that is dropped leaves the dispatch thread's hands.
LEMMA AtDropped ==
  ASSUME TypeOK, dpc = "deliver", dpc' # "deliver",
         UNCHANGED <<inbox, reply_ready, reply_buf, held>>, NEW j \in Jobs
  PROVE  Chunk(j)' = Chunk(j) \ {0} /\ \A p \in Chunk(j)' : At'[p] = At[p]
<1>1. Places' = Places
  BY DEF Places
<1>2. At'[0] = Nothing /\ \A p \in Places : p # 0 => At'[p] = At[p]
  <2>1. 0 \in Places
    BY DEF Places, TypeOK, TypeQueues
  <2> QED BY <1>1, <2>1 DEF At
<1>3. ~IsChunk(Nothing, j)
  BY DEF IsChunk, Nothing
<1> QED BY <1>1, <1>2, <1>3 DEF Chunk, IsChunk

\* A reply that is taken, or thrown away with its epoch, leaves the slot.
LEMMA AtEmptied ==
  ASSUME TypeOK, ~reply_ready', UNCHANGED <<inbox, reply_buf, held>>,
         dpc' = "deliver" <=> dpc = "deliver", NEW j \in Jobs
  PROVE  Chunk(j)' = Chunk(j) \ {-1} /\ \A p \in Chunk(j)' : At'[p] = At[p]
<1>1. Places' = Places
  BY DEF Places
<1>2. At'[-1] = Nothing /\ \A p \in Places : p # -1 => At'[p] = At[p]
  <2>1. -1 \in Places
    BY DEF Places, TypeOK, TypeQueues
  <2> QED BY <1>1, <2>1 DEF At
<1>3. ~IsChunk(Nothing, j)
  BY DEF IsChunk, Nothing
<1> QED BY <1>1, <1>2, <1>3 DEF Chunk, IsChunk

\* A message that is sent comes last.
LEMMA AtPush ==
  ASSUME TypeOK, NEW m \in Message, inbox' = Append(inbox, m),
         UNCHANGED <<reply_ready, reply_buf, held, dpc>>, NEW j \in Jobs
  PROVE  /\ Chunk(j) \subseteq Chunk(j)'
         /\ \A p \in Chunk(j) : At'[p] = At[p] /\ p < Len(inbox) + 1
         /\ At'[Len(inbox) + 1] = m /\ Len(inbox) \in Nat
         /\ \A p \in Chunk(j)' :
              p \in Chunk(j) \/ (p = Len(inbox) + 1 /\ IsChunk(m, j))
         /\ IsChunk(m, j) => Len(inbox) + 1 \in Chunk(j)'
<1>1. /\ inbox \in Seq(Message) /\ Len(inbox) \in Nat
      /\ Len(inbox') = Len(inbox) + 1 /\ inbox'[Len(inbox) + 1] = m
      /\ \A p \in 1..Len(inbox) : inbox'[p] = inbox[p]
  BY InboxPush DEF TypeOK, TypeQueues
<1>2. /\ Places = (-1)..Len(inbox) /\ Places' = (-1)..(Len(inbox) + 1)
      /\ Len(inbox) + 1 \in Places' /\ \A p \in Places : p \in Places' /\ p < Len(inbox) + 1
      /\ \A p \in Places' : p \in Places \/ p = Len(inbox) + 1
  BY <1>1 DEF Places
<1>3. At'[Len(inbox) + 1] = m
  BY <1>1, <1>2 DEF At
<1>4. \A p \in Places : At'[p] = At[p]
  BY <1>1, <1>2, AtTyped DEF At
<1> QED BY <1>1, <1>2, <1>3, <1>4 DEF Chunk, IsChunk

\* A chunk never comes from anywhere but data: after a step it is on its way that
\* was so before, or the one data has just sent.
LEMMA PipeStep ==
  ASSUME TypeOK, LockInv, [Next]_vars, NEW j \in Jobs
  PROVE  \A p \in Chunk(j)' :
           (\E q \in Chunk(j) : At'[p] = At[q]) \/ (DataSend /\ IsChunk(stream, j))
<1> DEFINE Goal == \A p \in Chunk(j)' :
             (\E q \in Chunk(j) : At'[p] = At[q]) \/ (DataSend /\ IsChunk(stream, j))
<1>a. ASSUME UNCHANGED <<inbox, reply_ready, reply_buf, held>>,
             dpc' = "deliver" <=> dpc = "deliver"
      PROVE  Goal
  <2>1. At' = At /\ Chunk(j)' = Chunk(j)
    BY <1>a, AtSame
  <2> QED BY <2>1
<1>1. CASE Receive
  BY <1>1, AtReceive
<1>2. CASE Begin
  <2>1. ~reply_ready' /\ UNCHANGED <<inbox, reply_buf, held>>
        /\ (dpc' = "deliver" <=> dpc = "deliver")
    BY <1>2
       DEF Begin
  <2>2. Chunk(j)' = Chunk(j) \ {-1} /\ \A p \in Chunk(j)' : At'[p] = At[p]
    BY <2>1, AtEmptied
  <2> QED BY <2>2
<1>3. CASE Launch
  <2>1. UNCHANGED <<inbox, reply_ready, reply_buf, held>>
        /\ (dpc' = "deliver" <=> dpc = "deliver")
    BY <1>3
       DEF Launch, mailbox, dispatch
  <2> QED BY <1>a, <2>1
<1>4. CASE Deliver
  <2>1. CASE epoch_open /\ reply_epoch = entry_epoch
    BY <1>4, <2>1, AtStored
  <2>2. CASE ~(epoch_open /\ reply_epoch = entry_epoch)
    <3>1. dpc = "deliver" /\ dpc' # "deliver"
          /\ UNCHANGED <<inbox, reply_ready, reply_buf, held>>
      BY <1>4, <2>2 DEF Deliver
    <3> QED BY <3>1, AtDropped
  <2> QED BY <2>1, <2>2
<1>5. CASE DeliverTimesOut
  <2>1. dpc = "deliver" /\ dpc' # "deliver"
        /\ UNCHANGED <<inbox, reply_ready, reply_buf, held>>
    BY <1>5 DEF DeliverTimesOut, mailbox
  <2> QED BY <2>1, AtDropped
<1>6. ASSUME NEW k \in Jobs, Start(k) PROVE Goal
  <2>1. UNCHANGED <<inbox, reply_ready, reply_buf, held>>
        /\ (dpc' = "deliver" <=> dpc = "deliver")
    BY <1>6
       DEF Start, mailbox, dispatch
  <2> QED BY <1>a, <2>1
<1>7. ASSUME NEW k \in Jobs, Read(k) PROVE Goal
  <2>1. ~reply_ready' /\ UNCHANGED <<inbox, reply_buf, held>>
        /\ (dpc' = "deliver" <=> dpc = "deliver")
    BY <1>7
       DEF Read, TakeReply, dispatch
  <2>2. Chunk(j)' = Chunk(j) \ {-1} /\ \A p \in Chunk(j)' : At'[p] = At[p]
    BY <2>1, AtEmptied
  <2> QED BY <2>2
<1>8. ASSUME NEW k \in Jobs, GivesUp(k) PROVE Goal
  <2>1. UNCHANGED <<inbox, reply_ready, reply_buf, held>>
        /\ (dpc' = "deliver" <=> dpc = "deliver")
    BY <1>8
       DEF GivesUp, mailbox, dispatch
  <2> QED BY <1>a, <2>1
<1>9. ASSUME NEW k \in Jobs, Encode(k) PROVE Goal
  <2>1. UNCHANGED <<inbox, reply_ready, reply_buf, held>>
        /\ (dpc' = "deliver" <=> dpc = "deliver")
    BY <1>9
       DEF Encode, mailbox, dispatch
  <2> QED BY <1>a, <2>1
<1>10. ASSUME NEW k \in Jobs, CheckCancelled(k) PROVE Goal
  <2>1. UNCHANGED <<inbox, reply_ready, reply_buf, held>>
        /\ (dpc' = "deliver" <=> dpc = "deliver")
    BY <1>10
       DEF CheckCancelled, mailbox, dispatch
  <2> QED BY <1>a, <2>1
<1>11. ASSUME NEW k \in Jobs, Write(k) PROVE Goal
  <2>1. UNCHANGED <<inbox, reply_ready, reply_buf, held>>
        /\ (dpc' = "deliver" <=> dpc = "deliver")
    BY <1>11
       DEF Write, mailbox, dispatch
  <2> QED BY <1>a, <2>1
<1>12. ASSUME NEW k \in Jobs, Ack(k) PROVE Goal
  <2>1. ~reply_ready' /\ UNCHANGED <<inbox, reply_buf, held>>
        /\ (dpc' = "deliver" <=> dpc = "deliver")
    BY <1>12
       DEF Ack, TakeReply, dispatch
  <2>2. Chunk(j)' = Chunk(j) \ {-1} /\ \A p \in Chunk(j)' : At'[p] = At[p]
    BY <2>1, AtEmptied
  <2> QED BY <2>2
<1>13. ASSUME NEW k \in Jobs, SendResult(k) PROVE Goal
  <2>1. UNCHANGED <<inbox, reply_ready, reply_buf, held>>
        /\ (dpc' = "deliver" <=> dpc = "deliver")
    BY <1>13
       DEF SendResult, mailbox, dispatch
  <2> QED BY <1>a, <2>1
<1>14. ASSUME NEW k \in Jobs, JobEnd(k) PROVE Goal
  <2>1. UNCHANGED <<inbox, reply_buf, held, dpc>> /\ (reply_ready' => reply_ready)
        /\ reply_ready \in BOOLEAN /\ reply_ready' \in BOOLEAN
    BY <1>14 DEF JobEnd, dispatch, TypeOK, TypeShared
  <2>2. CASE reply_ready' = reply_ready
    BY <1>a, <2>1, <2>2
  <2>3. CASE ~reply_ready'
    <3>1. Chunk(j)' = Chunk(j) \ {-1} /\ \A p \in Chunk(j)' : At'[p] = At[p]
      BY <2>1, <2>3, AtEmptied
    <3> QED BY <3>1
  <2> QED BY <2>1, <2>2, <2>3
<1>15. ASSUME NEW k \in Jobs, Unwatch(k) PROVE Goal
  <2>1. UNCHANGED <<inbox, reply_ready, reply_buf, held>>
        /\ (dpc' = "deliver" <=> dpc = "deliver")
    BY <1>15
       DEF Unwatch, mailbox, dispatch
  <2> QED BY <1>a, <2>1
<1>16. ASSUME NEW k \in Jobs, Release(k) PROVE Goal
  <2>1. UNCHANGED <<inbox, reply_ready, reply_buf, held>>
        /\ (dpc' = "deliver" <=> dpc = "deliver")
    BY <1>16
       DEF Release, mailbox, dispatch
  <2> QED BY <1>a, <2>1
<1>17. CASE DataReceive
  <2>1. UNCHANGED <<inbox, reply_ready, reply_buf, held>>
        /\ (dpc' = "deliver" <=> dpc = "deliver")
    BY <1>17
       DEF DataReceive, compute, mailbox, dispatch
  <2> QED BY <1>a, <2>1
<1>18. CASE DataSend
  <2>1. PICK m \in Message : DataSends(m)
    BY <1>18, DataSendForm DEF TypeOK
  <2>2. inbox' = Append(inbox, m) /\ UNCHANGED <<reply_ready, reply_buf, held, dpc>>
    BY <1>18, <2>1 DEF DataSend, DataSends, compute, mailbox, dispatch
  <2>3. IsChunk(m, j) => IsChunk(stream, j)
    BY <2>1 DEF DataSends, IsChunk
  <2>4. \A p \in Chunk(j)' : (p \in Chunk(j) /\ At'[p] = At[p]) \/ IsChunk(m, j)
    BY <2>2, AtPush
  <2> QED BY <1>18, <2>3, <2>4
<1>19. CASE DataGivesUp
  <2>1. UNCHANGED <<inbox, reply_ready, reply_buf, held>>
        /\ (dpc' = "deliver" <=> dpc = "deliver")
    BY <1>19
       DEF DataGivesUp, compute, mailbox, dispatch
  <2> QED BY <1>a, <2>1
<1>20. CASE DataCrashes
  <2>1. UNCHANGED <<inbox, reply_ready, reply_buf, held>>
        /\ (dpc' = "deliver" <=> dpc = "deliver")
    BY <1>20
       DEF DataCrashes, compute, mailbox, dispatch
  <2> QED BY <1>a, <2>1
<1>21. CASE Compress
  <2> DEFINE m == [kind |-> "compress", job |-> requested + 1, n |-> 0]
  <2>1. m \in Message /\ ~IsChunk(m, j) /\ inbox' = Append(inbox, m)
        /\ UNCHANGED <<reply_ready, reply_buf, held, dpc>>
    BY <1>21, SizesAssumption
       DEF Compress, compute, mailbox, dispatch, TypeOK, TypeClients, Message, Jobs,
           IsChunk
  <2> QED BY <2>1, AtPush
<1>22. ASSUME NEW k \in Jobs, Cancel(k) PROVE Goal
  <2> DEFINE m == [kind |-> "cancel", job |-> k, n |-> 0]
  <2>1. m \in Message /\ ~IsChunk(m, j) /\ inbox' = Append(inbox, m)
        /\ UNCHANGED <<reply_ready, reply_buf, held, dpc>>
    BY <1>22 DEF Cancel, compute, mailbox, dispatch, Message, IsChunk
  <2>2. \A p \in Chunk(j)' : p \in Chunk(j) /\ At'[p] = At[p]
    BY <2>1, AtPush
  <2> QED BY <2>2
<1>23. CASE UNCHANGED vars
  BY <1>a, <1>23 DEF vars, mailbox, dispatch
<1>24. CASE SendBusy
  <2>1. UNCHANGED <<inbox, reply_ready, reply_buf, held>>
        /\ (dpc' = "deliver" <=> dpc = "deliver")
    BY <1>24 DEF SendBusy, mailbox
  <2> QED BY <1>a, <2>1
<1>25. CASE RequesterReads
  BY <1>a, <1>25 DEF RequesterReads, compute, mailbox, dispatch
<1> QED BY <1>1, <1>2, <1>3, <1>4, <1>5, <1>6, <1>7, <1>8, <1>9, <1>10, <1>11, <1>12,
   <1>13, <1>14, <1>15, <1>16, <1>17, <1>18, <1>19, <1>20, <1>21, <1>22, <1>23, <1>24,
   <1>25
   DEF Next, DispatchStep, WorkerStep, DataStep, DataServes, ClientStep, Quiescent

\* Only data's steps change what it is sending, only Read what a worker has.
LEMMA StreamFrame ==
  [Next]_vars => stream' = stream \/ stream' = Nothing \/ DataReceive \/ DataSend
BY DEF Next, DispatchStep, WorkerStep, DataStep, DataServes, ClientStep, Quiescent, vars, Receive,
       SendBusy, Begin, Launch, Deliver, DeliverTimesOut, Start, Read, GivesUp, Encode,
       CheckCancelled, Write, Ack, SendResult, JobEnd, Unwatch, Release, DataGivesUp,
       DataCrashes, RequesterReads, Compress, Cancel, data

\* A request reaches data when a worker starts or writes.
LEMMA RequestsFrame ==
  [Next]_vars => \/ requests' = requests \/ requests' = <<>> \/ DataReceive
                 \/ \E j \in Jobs : (Start(j) \/ Write(j))
                                    /\ SendToData([kind |-> IF pc[j] = "start" THEN "read" ELSE "write",
                                                   job |-> j])
BY DEF Next, DispatchStep, WorkerStep, DataStep, DataServes, ClientStep, Quiescent, vars, Receive,
       SendBusy, Begin, Launch, Deliver, DeliverTimesOut, Start, Read, GivesUp, Encode,
       CheckCancelled, Write, Ack, SendResult, JobEnd, Unwatch, Release,
       DataSend, DataGivesUp, DataCrashes, RequesterReads, Compress, Cancel, data

\* Only an ack changes the number of blocks written.
LEMMA WrittenFrame ==
  ASSUME TypeOK, [Next]_vars, NEW j \in Jobs
  PROVE  written'[j] = written[j] \/ pc[j] = "ack"
<1>1. written \in [Jobs -> 0..Blocks]
  BY DEF TypeOK, TypeFiles
<1>2. ASSUME NEW k \in Jobs, Ack(k), k # j PROVE written'[j] = written[j]
  BY <1>1, <1>2 DEF Ack
<1>3. \A k \in Jobs : Ack(k) => pc[k] = "ack"
  BY DEF Ack
<1>4. written' = written \/ \E k \in Jobs : Ack(k)
  BY DEF Next, DispatchStep, WorkerStep, DataStep, DataServes, ClientStep, Quiescent, vars, Receive,
         SendBusy, Begin, Launch, Deliver, DeliverTimesOut, Start, Read, GivesUp, Encode,
         CheckCancelled, Write, SendResult, JobEnd, Unwatch, Release, DataReceive,
         DataSend, DataGivesUp, DataCrashes, RequesterReads, Compress, Cancel, compute, worker
<1> QED BY <1>2, <1>3, <1>4

\* Data goes on with the next chunk of the same file.
LEMMA SentNext ==
  ASSUME TypeOK, DataSend, NEW j \in Jobs, IsChunk(stream', j)
  PROVE  IsChunk(stream, j) /\ stream'.n = stream.n + 1
<1>1. stream \in Message
  BY DEF DataSend, TypeOK, TypeQueues
<1>2. stream' = AfterSent /\ stream.kind = "chunk" /\ stream.n \in 1..(Chunks - 1)
  BY DEF DataSend, AfterSent, IsChunk, Nothing
<1>3. stream.n # 0 /\ stream'.job = stream.job /\ stream'.n = stream.n + 1
  BY <1>1, <1>2, SizesAssumption DEF AfterSent, Message
<1> QED BY <1>2, <1>3 DEF IsChunk

\* While data is not asked for the file of job j, nothing of it is under way.
LEMMA TouchStep ==
  ASSUME TypeOK, LockInv, [Next]_vars, NEW j \in Jobs, Untouched(j),
         ~(DataReceive /\ Head(requests) = [kind |-> "read", job |-> j])
  PROVE  Untouched(j)'
<1>1. Chunk(j)' = {}
  <2> SUFFICES ASSUME NEW p \in Chunk(j)' PROVE FALSE
    OBVIOUS
  <2>1. IsChunk(At'[p], j)
    BY DEF Chunk, IsChunk
  <2>2. ~\E q \in Chunk(j) : At'[p] = At[q]
    BY DEF Untouched
  <2> QED BY <2>1, <2>2, PipeStep DEF Untouched
<1>2. ~IsChunk(stream, j)'
  <2>1. CASE stream' = stream \/ stream' = Nothing
    BY <2>1 DEF Untouched, IsChunk, Nothing
  <2>2. CASE DataSend
    BY <2>2, SentNext DEF Untouched, IsChunk
  <2>3. CASE DataReceive
    <3>1. Head(requests) \in Request
      BY <2>3 DEF DataReceive, TypeOK, TypeQueues
    <3>2. IsChunk(stream, j)' => Head(requests).kind = "read" /\ Head(requests).job = j
      BY <2>3, <3>1 DEF DataReceive, IsChunk
    <3>3. Head(requests).kind = "read" /\ Head(requests).job = j =>
            Head(requests) = [kind |-> "read", job |-> j]
      BY <3>1 DEF Request
    <3> QED BY <2>3, <3>2, <3>3
  <2> QED BY <2>1, <2>2, <2>3, StreamFrame
<1>3. \A i \in 1..Len(input'[j]) : input'[j][i].job # j
  <2>1. CASE input' = input
    BY <2>1 DEF Untouched
  <2>2. ASSUME NEW k \in Jobs, Read(k)
        PROVE  \A i \in 1..Len(input'[j]) : input'[j][i].job # j
    <3>1. input \in [Jobs -> Seq(Message)] /\ Len(inbox) \in Nat
      BY DEF TypeOK, TypeFiles, TypeQueues
    <3>2. -1 \in Places /\ At[-1] = reply_buf
      BY <2>2, <3>1 DEF Read, TakeReply, Places, At
    <3>3. ~IsChunk(reply_buf, j)
      BY <3>2 DEF Untouched, Chunk
    <3>4. \/ input'[j] = input[j]
          \/ /\ input'[j] = Append(input[j], reply_buf) /\ reply_buf.job # j
             /\ reply_buf \in Message
      BY <2>2, <3>3, ReadInput DEF IsChunk
    <3>5. CASE input'[j] = input[j]
      BY <3>5 DEF Untouched
    <3>6. CASE /\ input'[j] = Append(input[j], reply_buf) /\ reply_buf.job # j
               /\ reply_buf \in Message
      <4>1. \A i \in 1..Len(input'[j]) :
              \/ i \in 1..Len(input[j]) /\ input'[j][i] = input[j][i]
              \/ input'[j][i] = reply_buf
        BY <3>1, <3>6
      <4> QED BY <3>6, <4>1 DEF Untouched
    <3> QED BY <3>4, <3>5, <3>6
  <2> QED BY <2>1, <2>2, InputFrame
<1> QED BY <1>1, <1>2, <1>3 DEF Untouched

\* A read request for job j reaches data only when its worker starts, and leaves
\* only when data takes it.
LEMMA ReadsStep ==
  ASSUME TypeOK, [Next]_vars, NEW j \in Jobs
  PROVE  /\ ReadsOf(j)' = {} \/ ReadsOf(j) # {} \/ Start(j)
         /\ ReadsOf(j) = {} => \A p, q \in ReadsOf(j)' : p = q
         /\ (\A p, q \in ReadsOf(j) : p = q) /\ ~(Start(j) /\ ReadsOf(j) # {}) =>
              /\ \A p, q \in ReadsOf(j)' : p = q
              /\ DataReceive /\ ReadsOf(j)' # {} =>
                   Head(requests) # [kind |-> "read", job |-> j]
<1> DEFINE r == [kind |-> "read", job |-> j]
<1>1. requests \in Seq(Request) /\ Len(requests) \in Nat
  BY DEF TypeOK, TypeQueues
<1>2. CASE requests' = requests
  <2>1. ReadsOf(j)' = ReadsOf(j)
    BY <1>2 DEF ReadsOf
  <2>2. ~DataReceive
    BY <1>1, <1>2 DEF DataReceive
  <2> QED BY <2>1, <2>2
<1>3. CASE requests' = <<>>
  BY <1>3 DEF ReadsOf
<1>4. CASE DataReceive
  <2>1. /\ requests # <<>> /\ requests' = Tail(requests)
        /\ Len(requests') = Len(requests) - 1 /\ Head(requests) = requests[1]
        /\ \A p \in 1..Len(requests') : requests'[p] = requests[p + 1]
    BY <1>1, <1>4 DEF DataReceive
  <2>2. \A p \in ReadsOf(j)' : p + 1 \in ReadsOf(j) /\ p \in Nat /\ p # 0
    BY <1>1, <2>1 DEF ReadsOf
  <2>3. Head(requests) = r => 1 \in ReadsOf(j)
    BY <1>1, <2>1 DEF ReadsOf
  <2> QED BY <2>2, <2>3
<1>5. ASSUME NEW k \in Jobs, Start(k) \/ Write(k),
             SendToData([kind |-> IF pc[k] = "start" THEN "read" ELSE "write",
                         job |-> k]),
             requests' # requests
      PROVE  /\ ReadsOf(j)' = {} \/ ReadsOf(j) # {} \/ Start(j)
             /\ ReadsOf(j) = {} => \A p, q \in ReadsOf(j)' : p = q
             /\ (\A p, q \in ReadsOf(j) : p = q) /\ ~(Start(j) /\ ReadsOf(j) # {}) =>
                  \A p, q \in ReadsOf(j)' : p = q
  <2> DEFINE m == [kind |-> IF pc[k] = "start" THEN "read" ELSE "write", job |-> k]
  <2>1. m \in Request /\ requests' = Append(requests, m)
    BY <1>5 DEF SendToData, Request
  <2>2. /\ Len(requests') = Len(requests) + 1 /\ requests'[Len(requests) + 1] = m
        /\ \A p \in 1..Len(requests) : requests'[p] = requests[p]
    BY <1>1, <2>1
  <2>3. \A p \in ReadsOf(j)' : p \in ReadsOf(j) \/ (p = Len(requests) + 1 /\ m = r)
    <3> SUFFICES ASSUME NEW p \in 1..Len(requests'), requests'[p] = r
                 PROVE  p \in ReadsOf(j) \/ (p = Len(requests) + 1 /\ m = r)
      BY DEF ReadsOf
    <3>1. CASE p \in 1..Len(requests)
      <4>1. requests[p] = r
        BY <2>2, <3>1
      <4>2. p \in ReadsOf(j)
        BY <3>1, <4>1 DEF ReadsOf
      <4> QED BY <4>2
    <3>2. CASE p = Len(requests) + 1
      BY <2>2, <3>2
    <3> QED BY <1>1, <2>2, <3>1, <3>2
  <2>4. CASE k = j /\ Start(j)
    BY <2>3, <2>4
  <2>5. CASE ~(k = j /\ Start(j))
    <3>1. Write(k) => pc[k] = "write"
      BY DEF Write
    <3>2. m = r => k = j /\ pc[k] = "start"
      OBVIOUS
    <3>3. m # r
      <4> SUFFICES ASSUME m = r PROVE FALSE
        OBVIOUS
      <4>1. Start(k) /\ k = j
        BY <1>5, <3>1, <3>2
      <4>2. Start(j)
        BY <4>1
      <4> QED BY <2>5, <4>1, <4>2
    <3> QED BY <2>3, <3>3
  <2> QED BY <2>4, <2>5
<1>7. CASE \E k \in Jobs : (Start(k) \/ Write(k))
             /\ SendToData([kind |-> IF pc[k] = "start" THEN "read" ELSE "write",
                            job |-> k])
  BY <1>2, <1>4, <1>5, <1>7
<1> QED BY <1>2, <1>3, <1>4, <1>7, RequestsFrame

\* A job that has left the start has a result or a worker, and its worker keeps its
\* count of blocks at 0 until it writes.
LEMMA FreshStep ==
  ASSUME TypeOK, LockInv, AnswerInv, AskInv, [Next]_vars, NEW j \in Jobs, Fresh(j)'
  PROVE  Fresh(j) /\ written'[j] = written[j]
<1>1. results[j] = <<>>
  BY ResultsFrame DEF Fresh
<1>2. pc'[j] \in {"idle", "start"}
  BY DEF Fresh
<1>3. CASE pc'[j] = pc[j]
  BY <1>1, <1>2, <1>3, WrittenFrame DEF Fresh
<1>4. CASE Launch
  <2>1. pc[j] = "idle"
    BY <1>4 DEF Launch, LockInv, Active
  <2> QED BY <1>1, <2>1, WrittenFrame DEF Fresh
<1>5. CASE WorkerStep(j)
  <2>1. pc[j] = "release"
    BY <1>2, <1>5
       DEF WorkerStep, Start, Read, GivesUp, Encode, CheckCancelled, Write, Ack,
           SendResult, JobEnd, Unwatch, Release, Ends, Goto, TypeOK, TypeThreads
  <2> QED BY <1>1, <2>1 DEF AskInv
<1> QED BY <1>3, <1>4, <1>5, PcFrame

\* Each step keeps data from being asked twice, or before the worker starts.
LEMMA AskStep == IInv /\ AskInv /\ [Next]_vars => AskInv'
<1> SUFFICES ASSUME IInv, AskInv, [Next]_vars, NEW j \in Jobs
             PROVE  (/\ Fresh(j) => Untouched(j) /\ ReadsOf(j) = {} /\ written[j] = 0
                     /\ ReadsOf(j) # {} => Untouched(j)
                     /\ \A p, q \in ReadsOf(j) : p = q
                     /\ pc[j] \in {"close", "unwatch", "release"} => results[j] # <<>>
                     /\ pc[j] \in {"read", "readCancel"} => written[j] = 0)'
  BY DEF AskInv
<1>a. TypeOK /\ LockInv /\ AnswerInv
  BY DEF IInv
<1>b. pc \in [Jobs -> {"idle"} \cup Working \cup Finishing]
  BY <1>a DEF TypeOK, TypeThreads
<1>1. Start(j) => Fresh(j) /\ Untouched(j) /\ ReadsOf(j) = {} /\ written[j] = 0
  <2> SUFFICES ASSUME Start(j) PROVE Fresh(j)
    BY DEF AskInv
  <2>1. pc[j] = "start" /\ j \in InCharge
    BY DEF Start, InCharge, Working
  <2> QED BY <1>a, <2>1 DEF AnswerInv, Fresh
<1>2. ReadsOf(j)' = {} \/ ReadsOf(j) # {} \/ Start(j)
  BY <1>a, ReadsStep
<1>3. /\ \A p, q \in ReadsOf(j)' : p = q
      /\ DataReceive /\ ReadsOf(j)' # {} =>
           Head(requests) # [kind |-> "read", job |-> j]
  BY <1>a, <1>1, ReadsStep DEF AskInv
<1>4. ReadsOf(j)' # {} => Untouched(j)'
  BY <1>a, <1>1, <1>2, <1>3, TouchStep DEF AskInv
<1>5. ASSUME Fresh(j)'
      PROVE  Untouched(j)' /\ ReadsOf(j)' = {} /\ written'[j] = 0
  <2>1. Fresh(j) /\ written'[j] = written[j]
    BY <1>a, <1>5, FreshStep
  <2>2. Untouched(j) /\ ReadsOf(j) = {} /\ written[j] = 0
    BY <2>1 DEF AskInv
  <2>3. ~Start(j)
    BY <1>b, <1>5 DEF Start, Goto, Fresh
  <2>4. ReadsOf(j)' = {}
    BY <1>2, <2>2, <2>3
  <2>5. ~(DataReceive /\ Head(requests) = [kind |-> "read", job |-> j])
    <3> SUFFICES ASSUME DataReceive, Head(requests) = [kind |-> "read", job |-> j]
                 PROVE  FALSE
      OBVIOUS
    <3>1. requests \in Seq(Request) /\ requests # <<>>
      BY <1>a DEF DataReceive, TypeOK, TypeQueues
    <3>2. 1 \in ReadsOf(j)
      BY <3>1 DEF ReadsOf
    <3> QED BY <2>2, <3>2
  <2>6. Untouched(j)'
    BY <1>a, <2>2, <2>5, TouchStep
  <2> QED BY <2>1, <2>2, <2>4, <2>6
<1>6. pc'[j] \in {"close", "unwatch", "release"} => results'[j] # <<>>
  <2> SUFFICES ASSUME pc'[j] \in {"close", "unwatch", "release"} PROVE results'[j] # <<>>
    OBVIOUS
  <2>1. CASE pc[j] \in {"close", "unwatch", "release"}
    BY <1>a, <2>1, ResultsFrame DEF AskInv
  <2>2. CASE SendResult(j)
    BY <1>a, <2>2, Sent DEF SendResult, TypeOK, TypeThreads
  <2>3. CASE Launch
    BY <1>b, <2>1, <2>3 DEF Launch
  <2>4. CASE WorkerStep(j)
    BY <1>b, <2>1, <2>2, <2>4
       DEF WorkerStep, Start, Read, GivesUp, Encode, CheckCancelled, Write, Ack,
           JobEnd, Unwatch, Release, Ends, Goto
  <2> QED BY <1>a, <2>1, <2>3, <2>4, PcFrame
<1>7. pc'[j] \in {"read", "readCancel"} => written'[j] = 0
  <2> SUFFICES ASSUME pc'[j] \in {"read", "readCancel"} PROVE written'[j] = 0
    OBVIOUS
  <2>1. CASE pc[j] \in {"read", "readCancel"}
    BY <1>a, <2>1, WrittenFrame DEF AskInv
  <2>2. CASE Start(j)
    BY <1>1, <2>2 DEF Start
  <2>3. CASE Launch
    BY <1>b, <2>1, <2>3 DEF Launch
  <2>4. CASE WorkerStep(j)
    BY <1>b, <2>1, <2>2, <2>4
       DEF WorkerStep, Read, GivesUp, Encode, CheckCancelled, Write, Ack, SendResult,
           JobEnd, Unwatch, Release, Ends, Goto
  <2> QED BY <1>a, <2>1, <2>3, <2>4, PcFrame
<1> QED BY <1>3, <1>4, <1>5, <1>6, <1>7

\* The message that Read takes was in the slot.
LEMMA ReadSlot ==
  ASSUME TypeOK, NEW j \in Jobs, Read(j)
  PROVE  -1 \in Places /\ At[-1] = reply_buf
BY DEF TypeOK, TypeQueues, Read, TakeReply, Places, At

\* A job whose input is clean after a step had a clean input before it.
LEMMA CleanBack ==
  ASSUME TypeOK, [Next]_vars, NEW j \in Jobs, Clean(j)'
  PROVE  Clean(j) /\ ~dropped'
<1>1. input \in [Jobs -> Seq(Message)]
  BY DEF TypeOK, TypeFiles
<1>2. dropped' = dropped \/ dropped'
  BY DEF Next, DispatchStep, WorkerStep, DataStep, DataServes, ClientStep, Quiescent, vars, Receive,
         SendBusy, Begin, Launch, Deliver, DeliverTimesOut, Start, Read, GivesUp, Encode,
         CheckCancelled, Write, Ack, SendResult, JobEnd, Unwatch, Release, DataReceive,
         DataSend, DataGivesUp, DataCrashes, RequesterReads, Compress, Cancel, events
<1>3. ~dropped /\ ~dropped'
  BY <1>2 DEF Clean
<1>4. OwnInput(j)'
  BY DEF Clean
<1>5. ASSUME NEW k \in Jobs, Read(k) PROVE OwnInput(j)
  <2>1. input'[j] = input[j] \/ \E m \in Message : input'[j] = Append(input[j], m)
    BY <1>5, ReadInput
  <2>2. CASE input'[j] = input[j]
    BY <1>4, <2>2 DEF OwnInput
  <2>3. ASSUME NEW m \in Message, input'[j] = Append(input[j], m) PROVE OwnInput(j)
    <3>1. \A i \in 1..Len(input[j]) : i \in 1..Len(input'[j]) /\ input'[j][i] = input[j][i]
      BY <1>1, <2>3
    <3> QED BY <1>4, <3>1 DEF OwnInput
  <2> QED BY <2>1, <2>2, <2>3
<1>6. OwnInput(j)
  BY <1>4, <1>5, InputFrame DEF OwnInput
<1> QED BY <1>3, <1>6 DEF Clean

\* Chunks that move up without overtaking each other keep their order.
LEMMA FlowMoves ==
  ASSUME NEW j \in Jobs, NEW g,
         \A p \in Chunk(j)' : g[p] \in Chunk(j) /\ At'[p] = At[g[p]],
         \A p, q \in Chunk(j)' : p < q => g[p] < g[q],
         \A q \in Chunk(j) : \E p \in Chunk(j)' : At'[p] = At[q],
         input'[j] = input[j], stream' = stream \/ stream' = Nothing,
         InOrder(j), NoGap(j), StreamNext(j)
  PROVE  InOrder(j)' /\ NoGap(j)' /\ StreamNext(j)'
<1>1. InOrder(j)'
  BY DEF InOrder
<1>2. NoGap(j)'
  <2> SUFFICES ASSUME NEW p \in Chunk(j)'
               PROVE  \/ At'[p].n = Len(input'[j]) + 1
                      \/ \E q \in Chunk(j)' : At'[q].n = At'[p].n - 1
    BY DEF NoGap
  <2> QED BY DEF NoGap
<1>3. StreamNext(j)'
  <2>1. CASE stream' = Nothing
    BY <2>1 DEF StreamNext, IsChunk, Nothing
  <2>2. CASE stream' = stream
    BY <2>2 DEF StreamNext, IsChunk
  <2> QED BY <2>1, <2>2
<1> QED BY <1>1, <1>2, <1>3

\* The chunk in the slot is the first of those under way, and the next of its file.
LEMMA NextChunk ==
  ASSUME TypeOK, NEW j \in Jobs, Read(j), InOrder(j), NoGap(j), OwnInput(j)',
         input'[j] = Append(input[j], reply_buf),
         reply_buf \in Message, reply_buf.kind \in {"chunk", "cut"}, reply_buf.n # 0
  PROVE  /\ reply_buf.job = j /\ -1 \in Chunk(j) /\ At[-1].n = Len(input[j]) + 1
         /\ \A p \in Chunk(j) : p # -1 => -1 < p /\ At[-1].n < At[p].n
<1>a. input \in [Jobs -> Seq(Message)] /\ Len(inbox) \in Nat
  BY DEF TypeOK, TypeFiles, TypeQueues
<1>b. \A p \in Chunk(j) : p \in Int /\ At[p].n \in Nat
  <2>1. ~IsChunk(Nothing, j)
    BY DEF IsChunk, Nothing
  <2> QED BY <2>1, AtTyped DEF Chunk
<1>1. /\ input'[j][Len(input[j]) + 1] = reply_buf
      /\ Len(input[j]) + 1 \in 1..Len(input'[j])
  BY <1>a
<1>2. reply_buf.job = j
  BY <1>1 DEF OwnInput
<1>3. -1 \in Chunk(j)
  <2>1. -1 \in Places /\ At[-1] = reply_buf
    BY ReadSlot
  <2> QED BY <1>2, <2>1 DEF Chunk, IsChunk
<1>4. \A p \in Chunk(j) : p # -1 => -1 < p /\ At[-1].n < At[p].n
  <2>1. \A p \in Chunk(j) : p >= -1
    BY <1>a DEF Chunk, Places
  <2> QED BY <1>b, <1>3, <2>1 DEF InOrder
<1>5. At[-1].n = Len(input[j]) + 1
  <2>1. \A q \in Chunk(j) : At[q].n # At[-1].n - 1
    BY <1>b, <1>3, <1>4
  <2> QED BY <1>3, <2>1 DEF NoGap
<1> QED BY <1>2, <1>3, <1>4, <1>5

\* Each step keeps the chunks on their way to a worker in order and without a gap.
LEMMA FlowStep == IInv /\ AskInv /\ FlowInv /\ [Next]_vars => FlowInv'
<1> SUFFICES ASSUME IInv, AskInv, FlowInv, [Next]_vars, NEW j \in Jobs, Clean(j)',
                    pc'[j] \in {"read", "readCancel"}
             PROVE  InOrder(j)' /\ NoGap(j)' /\ StreamNext(j)' /\ HeldInTime(j)'
  BY DEF FlowInv
<1> DEFINE Goal == InOrder(j)' /\ NoGap(j)' /\ StreamNext(j)' /\ HeldInTime(j)'
<1>a. TypeOK /\ LockInv /\ MailInv /\ AnswerInv
  BY DEF IInv
<1>b. /\ pc \in [Jobs -> {"idle"} \cup Working \cup Finishing]
      /\ input \in [Jobs -> Seq(Message)] /\ inbox \in Seq(Message)
      /\ epoch \in [Jobs -> Nat] /\ Len(inbox) \in Nat
  BY <1>a DEF TypeOK, TypeThreads, TypeFiles, TypeQueues
<1>c. Clean(j) /\ ~dropped'
  BY <1>a, CleanBack
<1>d. pc[j] \in {"read", "readCancel"} \/ Start(j)
  <2>1. CASE Launch
    BY <1>b, <2>1 DEF Launch
  <2>2. CASE WorkerStep(j)
    BY <1>b, <2>2
       DEF WorkerStep, Read, GivesUp, Encode, CheckCancelled, Write, Ack, SendResult,
           JobEnd, Unwatch, Release, Ends, Goto
  <2> QED BY <1>a, <2>1, <2>2, PcFrame
<1>e. \A p \in Chunk(j) : p \in Int /\ At[p].n \in Nat /\ At[p] # Nothing
  <2>1. ~IsChunk(Nothing, j)
    BY DEF IsChunk, Nothing
  <2> QED BY <1>a, <2>1, AtTyped DEF Chunk
<1>f. Untouched(j) => Len(input[j]) = 0
  <2>1. Len(input[j]) \in Nat /\ (Len(input[j]) # 0 => 1 \in 1..Len(input[j]))
    BY <1>b
  <2> QED BY <1>c, <2>1 DEF Untouched, Clean, OwnInput
<1>1. CASE Start(j)
  <2>1. Untouched(j)
    <3>1. pc[j] = "start" /\ j \in InCharge
      BY <1>1 DEF Start, InCharge, Working
    <3> QED BY <1>a, <3>1 DEF AnswerInv, AskInv, Fresh
  <2>2. ~(DataReceive /\ Head(requests) = [kind |-> "read", job |-> j])
    BY <1>1, <1>b DEF Start, DataReceive, compute, worker, Goto
  <2>3. Untouched(j)'
    BY <1>a, <2>1, <2>2, TouchStep
  <2>4. HeldInTime(j)'
    <3>1. dpc' = "deliver" => 0 \in Places' /\ At'[0] = held'
      <4>1. inbox' = inbox
        BY <1>1 DEF Start
      <4> QED BY <1>b, <4>1 DEF At, Places
    <3> QED BY <2>3, <3>1 DEF HeldInTime, Untouched, Chunk, IsChunk
  <2> QED BY <2>3, <2>4 DEF Untouched, InOrder, NoGap, StreamNext
<1>2. ASSUME pc[j] \in {"read", "readCancel"} PROVE Goal
  <2>a. InOrder(j) /\ NoGap(j) /\ StreamNext(j) /\ HeldInTime(j)
    BY <1>2, <1>c DEF FlowInv
  <2>b. /\ Active(j) /\ epoch_open /\ reply_epoch = epoch[j]
        /\ \A k \in Jobs : Active(k) => k = j
        /\ dpc \notin {"begin", "launch"}
    BY <1>2, <1>a DEF Active, LockInv, MailInv, Working
  <2>c. ASSUME Chunk(j)' = Chunk(j), \A p \in Chunk(j) : At'[p] = At[p],
               input'[j] = input[j], stream' = stream \/ stream' = Nothing,
               HeldInTime(j)'
        PROVE  Goal
    <3> DEFINE g == [p \in Chunk(j) |-> p]
    <3>1. \A p \in Chunk(j)' : g[p] \in Chunk(j) /\ At'[p] = At[g[p]]
      BY <2>c
    <3>2. \A p, q \in Chunk(j)' : p < q => g[p] < g[q]
      BY <2>c
    <3>3. \A q \in Chunk(j) : \E p \in Chunk(j)' : At'[p] = At[q]
      BY <2>c
    <3> HIDE DEF g
    <3> QED BY <2>a, <2>c, <3>1, <3>2, <3>3, FlowMoves
  <2>d. ASSUME UNCHANGED <<inbox, reply_ready, reply_buf, held, dpc, entry_epoch>>,
               epoch'[j] = epoch[j], input'[j] = input[j],
               stream' = stream \/ stream' = Nothing
        PROVE  Goal
    <3>1. At' = At /\ Chunk(j)' = Chunk(j)
      BY <2>d, AtSame
    <3>2. HeldInTime(j)'
      BY <2>a, <2>d DEF HeldInTime, IsChunk
    <3> QED BY <2>c, <2>d, <3>1, <3>2
  <2>1. CASE Receive
    <3> DEFINE g == [p \in Chunk(j)' |-> IF p = -1 THEN -1 ELSE p + 1]
    <3>1. /\ \A p \in Chunk(j)' :
               \/ p = -1 /\ -1 \in Chunk(j) /\ At'[p] = At[-1]
               \/ p \in Int /\ p >= 0 /\ p + 1 \in Chunk(j) /\ At'[p] = At[p + 1]
          /\ \A q \in Chunk(j) : \E p \in Chunk(j)' : At'[p] = At[q]
      BY <1>a, <2>1, AtReceive
    <3>2. \A p \in Chunk(j)' : g[p] \in Chunk(j) /\ At'[p] = At[g[p]]
      BY <3>1
    <3>3. \A p, q \in Chunk(j)' : p < q => g[p] < g[q]
      BY <3>1
    <3>4. input'[j] = input[j] /\ stream' = stream /\ UNCHANGED <<epoch, reply_epoch>>
      BY <2>1 DEF Receive, worker, data, mailbox
    <3> HIDE DEF g
    <3>5. InOrder(j)' /\ NoGap(j)' /\ StreamNext(j)'
      BY <2>a, <3>1, <3>2, <3>3, <3>4, FlowMoves
    <3>6. HeldInTime(j)'
      BY <2>1, <2>b, <3>4
         DEF Receive, HandleCompress, HandleCancel, HeldInTime, dispatch
    <3> QED BY <3>5, <3>6
  <2>2. CASE Deliver
    <3>1. UNCHANGED <<inbox, held, epoch, stream, input>> /\ dpc' # "deliver"
          /\ dpc = "deliver"
      BY <2>2 DEF Deliver, worker, data
    <3>2. HeldInTime(j)'
      BY <3>1 DEF HeldInTime
    <3>3. CASE epoch_open /\ reply_epoch = entry_epoch
      <4> DEFINE g == [p \in Chunk(j)' |-> IF p = -1 THEN 0 ELSE p]
      <4>1. /\ \A p \in Chunk(j)' :
                 \/ p = -1 /\ 0 \in Chunk(j) /\ At'[p] = At[0]
                 \/ p \in Int /\ p >= 1 /\ p \in Chunk(j) /\ At'[p] = At[p]
            /\ \A q \in Chunk(j) : \E p \in Chunk(j)' : At'[p] = At[q]
        BY <1>a, <2>2, <3>3, AtStored
      <4>2. \A p \in Chunk(j)' : g[p] \in Chunk(j) /\ At'[p] = At[g[p]]
        BY <4>1
      <4>a. \A p \in Chunk(j)' : (p = -1 /\ g[p] = 0) \/ (p \in Int /\ p >= 1 /\ g[p] = p)
        BY <4>1
      <4> HIDE DEF g
      <4>3. \A p, q \in Chunk(j)' : p < q => g[p] < g[q]
        BY <4>a
      <4>4. InOrder(j)' /\ NoGap(j)' /\ StreamNext(j)'
        BY <2>a, <3>1, <4>1, <4>2, <4>3, FlowMoves
      <4> QED BY <3>2, <4>4
    <3>4. CASE ~(epoch_open /\ reply_epoch = entry_epoch)
      <4>1. UNCHANGED <<reply_ready, reply_buf>>
        BY <2>2, <3>4 DEF Deliver
      <4>2. Chunk(j)' = Chunk(j) \ {0} /\ \A p \in Chunk(j)' : At'[p] = At[p]
        BY <1>a, <3>1, <4>1, AtDropped
      <4>3. 0 \in Places /\ At[0] = held
        BY <1>b, <3>1 DEF Places, At
      <4>4. 0 \notin Chunk(j)
        BY <2>a, <2>b, <3>1, <3>4, <4>3 DEF HeldInTime, Chunk
      <4> QED BY <2>c, <3>1, <3>2, <4>2, <4>4
    <3> QED BY <3>3, <3>4
  <2>3. CASE Begin \/ Launch
    BY <2>b, <2>3 DEF Begin, Launch
  <2>4. CASE DeliverTimesOut
    BY <1>c, <2>4 DEF DeliverTimesOut
  <2>5. ASSUME NEW k \in Jobs, Read(k) PROVE Goal
    <3>a. k = j
      BY <2>b, <2>5 DEF Read, Active
    <3>b. /\ ~reply_ready' /\ UNCHANGED <<inbox, reply_buf, held, dpc, entry_epoch>>
          /\ UNCHANGED <<epoch, stream>>
      BY <2>5 DEF Read, TakeReply, dispatch, data
    <3>c. Chunk(j)' = Chunk(j) \ {-1} /\ \A p \in Chunk(j)' : At'[p] = At[p]
      BY <1>a, <3>b, AtEmptied
    <3>d. HeldInTime(j)'
      BY <2>a, <3>b DEF HeldInTime, IsChunk
    <3>e. -1 \in Places /\ At[-1] = reply_buf
      BY <1>a, <2>5, ReadSlot
    <3>1. CASE input'[k] = input[k] /\ reply_buf.kind \notin {"chunk", "cut"}
      <4>1. -1 \notin Chunk(j)
        BY <3>e, <3>1 DEF Chunk, IsChunk
      <4> QED BY <2>c, <3>1, <3>a, <3>b, <3>c, <3>d, <4>1
    <3>2. CASE pc'[k] = "result"
      BY <3>2, <3>a
    <3>3. CASE /\ input'[k] = Append(input[k], reply_buf)
               /\ reply_buf \in Message
               /\ reply_buf.kind \in {"chunk", "cut"} /\ reply_buf.n # 0
      <4>1. /\ input'[j] = Append(input[j], reply_buf)
            /\ Len(input'[j]) = Len(input[j]) + 1 /\ Len(input[j]) \in Nat
        BY <1>b, <3>3, <3>a
      <4>2. OwnInput(j)'
        BY DEF Clean
      <4>3. Read(j)
        BY <2>5, <3>a
      <4>4. /\ -1 \in Chunk(j) /\ At[-1].n = Len(input[j]) + 1
            /\ \A p \in Chunk(j) : p # -1 => -1 < p /\ At[-1].n < At[p].n
        BY <1>a, <2>a, <3>3, <4>1, <4>2, <4>3, NextChunk
      <4>6. InOrder(j)'
        BY <2>a, <3>c DEF InOrder
      <4>7. ASSUME NEW x \in Nat, x > At[-1].n,
                   x = Len(input[j]) + 1 \/ \E q \in Chunk(j) : At[q].n = x - 1
            PROVE  x = Len(input'[j]) + 1 \/ \E q \in Chunk(j)' : At'[q].n = x - 1
        <5>1. PICK q \in Chunk(j) : At[q].n = x - 1
          BY <4>1, <4>4, <4>7
        <5>2. CASE q = -1
          BY <4>1, <4>4, <4>7, <5>1, <5>2
        <5>3. CASE q # -1
          <6>1. q \in Chunk(j)' /\ At'[q].n = x - 1
            BY <3>c, <5>1, <5>3
          <6> QED BY <6>1
        <5> QED BY <5>2, <5>3
      <4>8. NoGap(j)'
        <5> SUFFICES ASSUME NEW p \in Chunk(j)'
                     PROVE  \/ At'[p].n = Len(input'[j]) + 1
                            \/ \E q \in Chunk(j)' : At'[q].n = At'[p].n - 1
          BY DEF NoGap
        <5>1. p \in Chunk(j) /\ p # -1 /\ At'[p] = At[p] /\ At[p].n \in Nat
          BY <1>e, <3>c
        <5>2. At[p].n = Len(input[j]) + 1 \/ \E q \in Chunk(j) : At[q].n = At[p].n - 1
          BY <2>a, <5>1 DEF NoGap
        <5>3. At[p].n > At[-1].n
          BY <1>e, <4>4, <5>1
        <5> QED BY <4>7, <5>1, <5>2, <5>3
      <4>9. StreamNext(j)'
        <5> SUFFICES ASSUME IsChunk(stream, j)
                     PROVE  /\ \A p \in Chunk(j)' : At'[p].n < stream.n
                            /\ \/ stream.n = Len(input'[j]) + 1
                               \/ \E q \in Chunk(j)' : At'[q].n = stream.n - 1
          BY <3>b DEF StreamNext, IsChunk
        <5>1. stream.n \in Nat
          BY <1>a DEF TypeOK, TypeQueues, Message, Nothing
        <5>2. /\ \A p \in Chunk(j) : At[p].n < stream.n
              /\ stream.n = Len(input[j]) + 1 \/ \E q \in Chunk(j) : At[q].n = stream.n - 1
          BY <2>a DEF StreamNext
        <5>3. stream.n > At[-1].n
          BY <1>e, <4>4, <5>1, <5>2
        <5>4. \A p \in Chunk(j)' : At'[p].n < stream.n
          BY <3>c, <5>2
        <5> QED BY <4>7, <5>1, <5>2, <5>3, <5>4
      <4> QED BY <3>d, <4>6, <4>8, <4>9
    <3> QED BY <1>a, <2>5, <3>1, <3>2, <3>3, ReadInput
  <2>6. ASSUME NEW k \in Jobs, CheckCancelled(k) PROVE Goal
    BY <2>d, <2>6 DEF CheckCancelled, mailbox, dispatch, data
  <2>7. ASSUME NEW k \in Jobs, WorkerStep(k), ~Read(k), ~CheckCancelled(k) PROVE Goal
    <3>1. Active(k)
      BY <2>7
         DEF WorkerStep, Start, GivesUp, Encode, Write, Ack, SendResult, JobEnd,
             Unwatch, Release, Active
    <3>2. k = j
      BY <2>b, <3>1
    <3>3. pc'[k] \notin {"read", "readCancel"} \/ pc[k] = "start"
      BY <1>b, <2>7
         DEF WorkerStep, Start, GivesUp, Encode, Write, Ack, SendResult, JobEnd,
             Unwatch, Release, Ends, Goto
    <3> QED BY <1>2, <3>2, <3>3
  <2>8. CASE DataReceive
    <3>1. /\ UNCHANGED <<inbox, reply_ready, reply_buf, held, dpc, entry_epoch>>
          /\ UNCHANGED <<epoch, input>>
      BY <2>8 DEF DataReceive, compute, mailbox, dispatch, worker
    <3>2. At' = At /\ Chunk(j)' = Chunk(j)
      BY <3>1, AtSame
    <3>3. HeldInTime(j)'
      BY <2>a, <3>1 DEF HeldInTime, IsChunk
    <3>4. InOrder(j)' /\ NoGap(j)'
      BY <2>a, <3>1, <3>2 DEF InOrder, NoGap
    <3>5. StreamNext(j)'
      <4> SUFFICES ASSUME IsChunk(stream', j)
                   PROVE  Chunk(j) = {} /\ stream'.n = Len(input[j]) + 1
        BY <3>1, <3>2 DEF StreamNext, IsChunk
      <4>1. requests \in Seq(Request) /\ requests # <<>> /\ Head(requests) \in Request
        BY <1>a, <2>8 DEF DataReceive, TypeOK, TypeQueues
      <4>2. Head(requests).kind = "read" /\ Head(requests).job = j /\ stream'.n = 1
        BY <2>8, <4>1 DEF DataReceive, IsChunk
      <4>3. Head(requests) = [kind |-> "read", job |-> j]
        BY <4>1, <4>2 DEF Request
      <4>4. 1 \in ReadsOf(j)
        BY <4>1, <4>3 DEF ReadsOf
      <4>5. Untouched(j)
        BY <4>4 DEF AskInv
      <4> QED BY <1>f, <4>2, <4>5 DEF Untouched
    <3> QED BY <3>3, <3>4, <3>5
  <2>9. CASE DataSend
    <3> DEFINE last == Len(inbox) + 1
    <3>a. PICK m \in Message : DataSends(m)
      BY <1>a, <2>9, DataSendForm DEF TypeOK
    <3>1. /\ inbox' = Append(inbox, m) /\ m.n = stream.n /\ stream.n \in Nat
          /\ IsChunk(m, j) <=> IsChunk(stream, j)
          /\ UNCHANGED <<reply_ready, reply_buf, held, dpc, entry_epoch, epoch, input>>
      <4>1. UNCHANGED <<reply_ready, reply_buf, held, dpc, entry_epoch, epoch, input>>
        BY <2>9 DEF DataSend, compute, mailbox, dispatch, worker
      <4>2. IsChunk(m, j) <=> IsChunk(stream, j)
        BY <3>a DEF DataSends, IsChunk
      <4> QED BY <3>a, <4>1, <4>2 DEF DataSends, Message
    <3>2. /\ Chunk(j) \subseteq Chunk(j)'
          /\ \A p \in Chunk(j) : At'[p] = At[p] /\ p < last
          /\ At'[last].n = stream.n /\ last \in Int
          /\ \A p \in Chunk(j)' : p \in Chunk(j) \/ (p = last /\ IsChunk(stream, j))
          /\ IsChunk(stream, j) => last \in Chunk(j)'
      BY <1>a, <3>1, AtPush
    <3>3. HeldInTime(j)'
      BY <2>a, <3>1 DEF HeldInTime, IsChunk
    <3>4. IsChunk(stream', j) => IsChunk(stream, j) /\ stream'.n = stream.n + 1
      BY <1>a, <2>9, SentNext
    <3> HIDE DEF last
    <3>5. InOrder(j)'
      <4> SUFFICES ASSUME NEW p \in Chunk(j)', NEW q \in Chunk(j)', p < q
                   PROVE  At'[p].n < At'[q].n
        BY DEF InOrder
      <4>1. p \in Chunk(j)
        BY <1>e, <3>2
      <4>2. CASE q \in Chunk(j)
        BY <2>a, <3>2, <4>1, <4>2 DEF InOrder
      <4>3. CASE q = last /\ IsChunk(stream, j)
        BY <2>a, <3>2, <4>1, <4>3 DEF StreamNext
      <4> QED BY <3>2, <4>2, <4>3
    <3>6. NoGap(j)'
      <4> SUFFICES ASSUME NEW p \in Chunk(j)'
                   PROVE  \/ At'[p].n = Len(input[j]) + 1
                          \/ \E q \in Chunk(j)' : At'[q].n = At'[p].n - 1
        BY <3>1 DEF NoGap
      <4>1. CASE p \in Chunk(j)
        BY <2>a, <3>2, <4>1 DEF NoGap
      <4>2. CASE p = last /\ IsChunk(stream, j)
        BY <2>a, <3>2, <4>2 DEF StreamNext
      <4> QED BY <3>2, <4>1, <4>2
    <3>7. StreamNext(j)'
      <4> SUFFICES ASSUME IsChunk(stream', j)
                   PROVE  /\ \A p \in Chunk(j)' : At'[p].n < stream'.n
                          /\ \E q \in Chunk(j)' : At'[q].n = stream'.n - 1
        BY DEF StreamNext, IsChunk
      <4>1. IsChunk(stream, j) /\ stream'.n = stream.n + 1
        BY <3>4
      <4>2. \A p \in Chunk(j) : At'[p].n < stream.n /\ At'[p].n \in Nat
        BY <1>e, <2>a, <3>2, <4>1 DEF StreamNext
      <4>3. last \in Chunk(j)' /\ At'[last].n = stream.n
        BY <3>2, <4>1
      <4>4. \A p \in Chunk(j)' : At'[p].n < stream'.n
        BY <3>1, <3>2, <4>1, <4>2, <4>3
      <4>5. At'[last].n = stream'.n - 1
        BY <3>1, <4>1, <4>3
      <4> QED BY <4>3, <4>4, <4>5
    <3> QED BY <3>3, <3>5, <3>6, <3>7
  <2>10. CASE DataGivesUp \/ DataCrashes \/ RequesterReads \/ UNCHANGED vars
    BY <2>d, <2>10
       DEF DataGivesUp, DataCrashes, RequesterReads, vars, compute, mailbox, dispatch,
           worker, data
  <2>14. CASE SendBusy
    <3>1. /\ UNCHANGED <<inbox, reply_ready, reply_buf, held, epoch, input, stream>>
          /\ dpc # "deliver" /\ dpc' # "deliver"
      BY <2>14 DEF SendBusy, mailbox, worker, data
    <3>2. At' = At /\ Chunk(j)' = Chunk(j)
      BY <3>1, AtSame
    <3>3. HeldInTime(j)'
      BY <3>1 DEF HeldInTime
    <3> QED BY <2>c, <3>1, <3>2, <3>3
  <2>11. ASSUME NEW m \in Message, inbox' = Append(inbox, m),
                m.kind \in {"compress", "cancel"},
                UNCHANGED <<compute, stream>>
         PROVE  Goal
    <3>1. UNCHANGED <<reply_ready, reply_buf, held, dpc, entry_epoch, epoch, input>>
      BY <2>11 DEF compute, mailbox, dispatch, worker
    <3>2. Chunk(j)' = Chunk(j) /\ \A p \in Chunk(j) : At'[p] = At[p]
      BY <1>a, <2>11, <3>1, AtPush, ZenonT(40) DEF IsChunk
    <3>3. HeldInTime(j)'
      BY <2>a, <3>1 DEF HeldInTime, IsChunk
    <3> QED BY <2>c, <2>11, <3>1, <3>2, <3>3
  <2>12. CASE Compress
    <3>1. [kind |-> "compress", job |-> requested + 1, n |-> 0] \in Message
      BY <1>a, <2>12, SizesAssumption DEF Compress, TypeOK, TypeClients, Message, Jobs
    <3> QED BY <2>11, <2>12, <3>1 DEF Compress, data
  <2>13. ASSUME NEW k \in Jobs, Cancel(k) PROVE Goal
    <3>1. [kind |-> "cancel", job |-> k, n |-> 0] \in Message
      BY DEF Message
    <3> QED BY <2>11, <2>13, <3>1 DEF Cancel, data
  <2> QED
    BY <2>1, <2>2, <2>3, <2>4, <2>5, <2>6, <2>7, <2>8, <2>9, <2>10, <2>12, <2>13,
       <2>14
       DEF Next, DispatchStep, DataStep, DataServes, ClientStep, Quiescent
<1> QED BY <1>1, <1>2, <1>d

\* Only the last chunk takes a job past the read phase, and only a job past the read
\* phase is reported OK.
LEMMA CompleteBack ==
  ASSUME IInv, AskInv, [Next]_vars, NEW j \in Jobs, j \in Complete'
  PROVE  j \in Complete \/ (Read(j) /\ pc'[j] = "encode")
<1>a. /\ TypeOK /\ pc \in [Jobs -> {"idle"} \cup Working \cup Finishing]
      /\ status \in [Jobs -> Statuses] /\ results \in [Jobs -> Seq(Outcomes)]
      /\ written \in [Jobs -> 0..Blocks]
  BY DEF IInv, TypeOK, TypeThreads, TypeClients, TypeFiles
<1>b. /\ TypeClients /\ AnswerInv /\ "BUSY" \in Statuses
      /\ results[j] \in Seq(Outcomes)
      /\ \A k \in Jobs : status[k] \in Statuses
  BY <1>a DEF IInv, TypeOK, Statuses
<1>1. ASSUME NEW k \in Jobs, NEW s \in Statuses, SendToRequester(k, s),
             s # "OK" \/ k # j, \E i \in 1..Len(results'[j]) : results'[j][i] = "OK"
      PROVE  j \in Complete
  <2>1. CASE k # j
    <3>1. results'[j] = results[j]
      BY <1>1, <1>b, <2>1, Sent
    <3> QED BY <1>1, <3>1 DEF Complete
  <2>2. CASE k = j
    <3>1. PICK o \in {s, Unheard} : results' = [results EXCEPT ![j] = Append(@, o)]
      BY <1>1, <1>b, <2>2, Sent
    <3>2. o # "OK" /\ o \in Outcomes /\ results'[j] = Append(results[j], o)
      BY <1>1, <1>a, <2>2, <3>1 DEF Unheard, Outcomes
    <3>3. PICK i \in 1..Len(results'[j]) : results'[j][i] = "OK"
      BY <1>1
    <3>4. i \in 1..Len(results[j]) /\ results[j][i] = "OK"
      BY <1>b, <3>2, <3>3
    <3> QED BY <3>4 DEF Complete
  <2> QED BY <2>1, <2>2
<1>2. CASE SendBusy
  <2>1. UNCHANGED <<pc, status>> /\ SendToRequester(held.job, "BUSY") /\ held.job \in Jobs
    BY <1>2, <1>b DEF SendBusy, worker, AnswerInv
  <2>2. CASE \E i \in 1..Len(results'[j]) : results'[j][i] = "OK"
    BY <1>1, <1>b, <2>1, <2>2
  <2>3. CASE ~ \E i \in 1..Len(results'[j]) : results'[j][i] = "OK"
    BY <2>1, <2>3 DEF Complete
  <2> QED BY <2>2, <2>3
<1>3. CASE Launch
  <2>1. results' = results
    BY <1>3 DEF Launch, answers
  <2>2. pc'[j] = pc[j] \/ pc'[j] = "start" \/ pc'[j] = "result"
    BY <1>3, <1>a DEF Launch
  <2>3. \/ pc'[j] = pc[j] /\ status'[j] = status[j]
        \/ pc'[j] = "start"
        \/ pc'[j] = "result" /\ status'[j] = "FAILED"
    BY <1>3, <1>a DEF Launch
  <2> QED BY <2>1, <2>3 DEF Complete
<1>4. ASSUME NEW k \in Jobs, SendResult(k) PROVE j \in Complete
  <2>1. UNCHANGED status /\ pc'[j] \in {pc[j], "close"}
    BY <1>4, <1>a DEF SendResult, Goto
  <2>2. SendToRequester(k, status[k]) /\ pc[k] = "result"
    BY <1>4 DEF SendResult
  <2>3. CASE \E i \in 1..Len(results'[j]) : results'[j][i] = "OK"
    <3>1. CASE k = j /\ status[j] = "OK"
      BY <2>2, <3>1 DEF Complete
    <3> QED BY <1>1, <1>b, <2>2, <2>3, <3>1
  <2>4. CASE ~ \E i \in 1..Len(results'[j]) : results'[j][i] = "OK"
    BY <2>1, <2>4 DEF Complete
  <2> QED BY <2>3, <2>4
<1>5. CASE UNCHANGED <<pc, status, results>>
  BY <1>5 DEF Complete
<1>6. ASSUME NEW k \in Jobs, WorkerStep(k), ~SendResult(k), k # j PROVE j \in Complete
  <2>1. pc'[j] = pc[j] /\ status'[j] = status[j] /\ results' = results
    BY <1>6, <1>a
       DEF WorkerStep, Start, Read, GivesUp, Encode, CheckCancelled, Write, Ack,
           JobEnd, Unwatch, Release, Ends, Goto, worker, answers
  <2> QED BY <2>1 DEF Complete
<1>7. ASSUME WorkerStep(j), ~SendResult(j)
      PROVE  j \in Complete \/ (Read(j) /\ pc'[j] = "encode")
  <2>1. results' = results
    BY <1>7
       DEF WorkerStep, Start, Read, GivesUp, Encode, CheckCancelled, Write, Ack,
           JobEnd, Unwatch, Release, answers
  <2>2. CASE CheckCancelled(j)
    <3>1. pc[j] = "readCancel" => written[j] = 0 /\ Blocks # 0
      BY SizesAssumption DEF AskInv
    <3>2. \/ pc'[j] = "result" /\ status'[j] = "CANCELLED"
          \/ pc'[j] = "read" \/ pc[j] \in {"encodeCancel", "writeCancel"}
      BY <2>2, <1>a, <3>1 DEF CheckCancelled, Ends, Goto
    <3> QED BY <2>1, <3>2 DEF Complete
  <2>3. CASE Read(j)
    <3>1. \/ pc'[j] = pc[j] /\ status'[j] = status[j]
          \/ pc'[j] = "result" /\ status'[j] = "FAILED"
          \/ pc'[j] \in {"encode", "readCancel"}
      BY <2>3, <1>a DEF Read, Ends, Goto
    <3> QED BY <2>1, <2>3, <3>1 DEF Complete
  <2>4. CASE ~CheckCancelled(j) /\ ~Read(j)
    <3>1. \/ pc[j] \in {"encode", "encodeCancel", "write", "ack", "writeCancel"}
          \/ pc'[j] \in {"read", "close", "unwatch", "release", "idle"}
          \/ pc'[j] = "result" /\ status'[j] = "TIMEOUT"
      BY <1>7, <2>4, <1>a
         DEF WorkerStep, Start, GivesUp, Encode, Write, Ack, JobEnd, Unwatch, Release,
             Ends, Goto
    <3> QED BY <2>1, <3>1 DEF Complete
  <2> QED BY <2>2, <2>3, <2>4
<1>8. \/ SendBusy \/ Launch \/ UNCHANGED <<pc, status, results>>
      \/ \E k \in Jobs : WorkerStep(k)
  BY DEF Next, DispatchStep, DataStep, DataServes, ClientStep, Quiescent, vars, Receive, Begin, Deliver,
         DeliverTimesOut, DataReceive, DataSend, DataGivesUp, DataCrashes, Compress,
         Cancel, RequesterReads, compute, worker, answers
<1> QED BY <1>2, <1>3, <1>4, <1>5, <1>6, <1>7, <1>8

\* Each step keeps what a job has read, and with the last chunk it has all of them.
LEMMA InputStep == IInv /\ AskInv /\ FlowInv /\ InputInv /\ [Next]_vars => InputInv'
<1> SUFFICES ASSUME IInv, AskInv, FlowInv, InputInv, [Next]_vars, NEW j \in Jobs, Clean(j)'
             PROVE  /\ \A i \in 1..Len(input'[j]) :
                         /\ input'[j][i].kind \in {"chunk", "cut"}
                         /\ input'[j][i].job = j /\ input'[j][i].n = i
                    /\ \A i \in 1..Len(input'[j]) :
                         IsLast(input'[j][i]) => i = Len(input'[j]) /\ ~Reading(j)'
                    /\ j \in Complete' =>
                         Len(input'[j]) # 0 /\ IsLast(input'[j][Len(input'[j])])
  BY DEF InputInv, IsLast
<1> DEFINE Kinds == \A i \in 1..Len(input'[j]) :
                      /\ input'[j][i].kind \in {"chunk", "cut"}
                      /\ input'[j][i].job = j /\ input'[j][i].n = i
           Stops == \A i \in 1..Len(input'[j]) :
                      IsLast(input'[j][i]) => i = Len(input'[j]) /\ ~Reading(j)'
           Ended == j \in Complete' =>
                      Len(input'[j]) # 0 /\ IsLast(input'[j][Len(input'[j])])
<1>a. /\ TypeOK /\ LockInv /\ AnswerInv /\ input \in [Jobs -> Seq(Message)]
      /\ pc \in [Jobs -> {"idle"} \cup Working \cup Finishing]
  BY DEF IInv, TypeOK, TypeFiles, TypeThreads
<1>b. Clean(j)
  BY <1>a, CleanBack
<1>c. /\ \A i \in 1..Len(input[j]) : /\ input[j][i].kind \in {"chunk", "cut"}
                                     /\ input[j][i].job = j /\ input[j][i].n = i
      /\ \A i \in 1..Len(input[j]) :
           IsLast(input[j][i]) => i = Len(input[j]) /\ ~Reading(j)
      /\ j \in Complete => Len(input[j]) # 0 /\ IsLast(input[j][Len(input[j])])
  BY <1>b DEF InputInv
<1>d. j \in Complete' => j \in Complete \/ (Read(j) /\ pc'[j] = "encode")
  BY CompleteBack
<1>e. Reading(j)' => Reading(j) \/ Len(input[j]) = 0
  <2> SUFFICES ASSUME Reading(j)', ~Reading(j) PROVE Len(input[j]) = 0
    OBVIOUS
  <2>1. Start(j)
    <3>1. CASE Launch
      BY <1>a, <3>1 DEF Launch, Reading
    <3>2. CASE WorkerStep(j)
      BY <1>a, <3>2
         DEF WorkerStep, Read, GivesUp, Encode, CheckCancelled, Write, Ack, SendResult,
             JobEnd, Unwatch, Release, Ends, Goto, Reading
    <3> QED BY <1>a, <3>1, <3>2, PcFrame DEF Reading
  <2>2. pc[j] = "start" /\ results[j] = <<>>
    BY <1>a, <2>1 DEF Start, AnswerInv, InCharge, Working
  <2>3. Untouched(j)
    BY <2>2 DEF AskInv, Fresh
  <2>4. Len(input[j]) \in Nat /\ (Len(input[j]) # 0 => 1 \in 1..Len(input[j]))
    BY <1>a
  <2> QED BY <1>b, <2>3, <2>4 DEF Untouched, Clean, OwnInput
<1>1. ASSUME input'[j] = input[j], ~(Read(j) /\ pc'[j] = "encode")
      PROVE  Kinds /\ Stops /\ Ended
  <2>1. Kinds /\ Ended
    BY <1>1, <1>c, <1>d
  <2>2. Stops
    BY <1>1, <1>c, <1>e
  <2> QED BY <2>1, <2>2
<1>2. ASSUME NEW k \in Jobs, Read(k), k # j
      PROVE  input'[j] = input[j] /\ ~Read(j)
  <2>1. input'[j] = input[j]
    BY <1>2, <1>a, ReadInput
  <2>2. ~Read(j)
    BY <1>2, <1>a DEF Read, LockInv, Active
  <2> QED BY <2>1, <2>2
<1>3. ASSUME Read(j) PROVE Kinds /\ Stops /\ Ended
  <2>1. CASE /\ input'[j] = input[j]
             /\ reply_buf.kind \notin {"chunk", "cut"} \/ pc'[j] = "result"
    <3>1. pc'[j] # "encode"
      BY <1>3, <1>a, <2>1 DEF Read, Ends, Goto
    <3> QED BY <1>1, <2>1, <3>1
  <2>2. CASE /\ input'[j] = Append(input[j], reply_buf)
             /\ reply_buf \in Message
             /\ reply_buf.kind \in {"chunk", "cut"} /\ reply_buf.n # 0
             /\ \/ pc'[j] = "result"
                \/ pc'[j] = IF IsLast(reply_buf) THEN "encode" ELSE "readCancel"
    <3>1. InOrder(j) /\ NoGap(j) /\ OwnInput(j)' /\ Reading(j)
      BY <1>3, <1>b DEF FlowInv, Read, Clean, Reading
    <3>2. reply_buf.job = j /\ At[-1].n = Len(input[j]) + 1 /\ At[-1] = reply_buf
      BY <1>3, <1>a, <2>2, <3>1, NextChunk, ReadSlot
    <3>3. /\ Len(input[j]) \in Nat /\ Len(input'[j]) = Len(input[j]) + 1
          /\ \A i \in 1..Len(input[j]) : input'[j][i] = input[j][i]
          /\ input'[j][Len(input[j]) + 1] = reply_buf
      BY <1>a, <2>2
    <3>4. \A i \in 1..Len(input'[j]) : i \in 1..Len(input[j]) \/ i = Len(input[j]) + 1
      BY <3>3
    <3>5. Kinds
      BY <1>c, <2>2, <3>2, <3>3, <3>4
    <3>6. Stops
      <4>1. \A i \in 1..Len(input[j]) : ~IsLast(input'[j][i])
        BY <1>c, <3>1, <3>3
      <4>2. IsLast(reply_buf) => ~Reading(j)'
        BY <2>2 DEF Reading
      <4> QED BY <3>3, <3>4, <4>1, <4>2
    <3>7. j \notin Complete
      <4>1. results[j] = <<>> /\ pc[j] = "read"
        BY <1>3, <1>a DEF Read, AnswerInv, InCharge, Working
      <4>2. Len(results[j]) = 0
        BY <4>1
      <4> QED BY <4>1, <4>2 DEF Complete
    <3>8. pc'[j] = "encode" => IsLast(reply_buf)
      BY <2>2
    <3>9. Ended
      BY <1>d, <3>3, <3>7, <3>8
    <3> QED BY <3>5, <3>6, <3>9
  <2> QED BY <1>3, <1>a, <2>1, <2>2, ReadInput
<1>4. CASE input' = input /\ ~Read(j)
  BY <1>1, <1>4
<1> QED BY <1>1, <1>2, <1>3, <1>4, InputFrame

\* The first states: nothing is asked, nothing is under way, nothing is read.
LEMMA FlowInit == Init => AskInv /\ FlowInv /\ InputInv
<1> SUFFICES ASSUME Init, NEW j \in Jobs
             PROVE  /\ Untouched(j) /\ ReadsOf(j) = {} /\ written[j] = 0
                    /\ pc[j] = "idle" /\ j \notin Complete /\ Len(input[j]) = 0
  <2>1. ASSUME NEW k \in Jobs, Init
        PROVE  \A i \in 1..Len(input[k]) : FALSE
    BY <2>1 DEF Init
  <2> QED BY <2>1 DEF AskInv, FlowInv, InputInv, Fresh
<1>1. inbox = <<>> /\ requests = <<>> /\ input[j] = <<>> /\ results[j] = <<>>
      /\ pc[j] = "idle" /\ written[j] = 0 /\ ~reply_ready /\ dpc # "deliver"
      /\ stream = Nothing
  BY DEF Init
<1>2. Len(inbox) = 0 /\ Len(requests) = 0 /\ Len(input[j]) = 0 /\ Len(results[j]) = 0
  BY <1>1
<1>3. ~IsChunk(Nothing, j)
  BY DEF IsChunk, Nothing
<1>4. \A p \in Places : At[p] = Nothing
  BY <1>1, <1>2 DEF Places, At
<1>5. Chunk(j) = {} /\ ~IsChunk(stream, j)
  BY <1>1, <1>3, <1>4 DEF Chunk
<1>6. ReadsOf(j) = {}
  BY <1>2 DEF ReadsOf
<1> QED BY <1>1, <1>2, <1>5, <1>6 DEF Untouched, Complete

\* A job that compute reports as OK has read its file from the start, each chunk once
\* and in order, to its end or to where data's fread failed, whatever data loses or
\* forgets in a crash, as long as no leftover of another job reached it and no reply
\* was dropped (worker.c, dispatch.c, filesystem.c).
THEOREM OrderTheorem == Spec => []OkMeansInOrder
<1>1. Init => AskInv /\ FlowInv /\ InputInv
  BY FlowInit
<1>2. IInv /\ AskInv /\ FlowInv /\ InputInv /\ [Next]_vars => (AskInv /\ FlowInv /\ InputInv)'
  BY AskStep, FlowStep, InputStep
<1>3. IInv /\ InputInv => OkMeansInOrder
  <2> SUFFICES ASSUME IInv, InputInv, NEW j \in Jobs, results[j] = <<"OK">>, Clean(j)
               PROVE  \/ input[j] = FirstChunks(j, Chunks)
                      \/ \E k \in 1..Chunks :
                           input[j] = Append(FirstChunks(j, k - 1),
                                             [kind |-> "cut", job |-> j, n |-> k])
    BY DEF OkMeansInOrder, Clean
  <2> DEFINE l == Len(input[j])
  <2>1. 1 \in 1..Len(results[j]) /\ results[j][1] = "OK"
    OBVIOUS
  <2>2. j \in Complete
    BY <2>1 DEF Complete
  <2>3. input[j] \in Seq(Message) /\ l \in Nat
    BY DEF IInv, TypeOK, TypeFiles
  <2>4. /\ l # 0 /\ IsLast(input[j][l])
        /\ \A i \in 1..l : /\ input[j][i].kind \in {"chunk", "cut"}
                           /\ input[j][i].job = j /\ input[j][i].n = i
        /\ \A i \in 1..l : IsLast(input[j][i]) => i = l
    BY <2>2 DEF InputInv
  <2>5. input[j] = [i \in 1..l |-> input[j][i]] /\ \A i \in 1..l : input[j][i] \in Message
    BY <2>3
  <2>6. \A i \in 1..l : input[j][i] = [kind |-> input[j][i].kind, job |-> j, n |-> i]
    BY <2>4, <2>5 DEF Message
  <2>7. \A i \in 1..l : i # l => input[j][i].kind = "chunk" /\ i # Chunks
    BY <2>4 DEF IsLast
  <2>8. l <= Chunks /\ l \in 1..l
    BY <2>3, <2>4, <2>7, SizesAssumption
  <2>9. CASE input[j][l].kind = "chunk"
    <3>1. l = Chunks
      BY <2>4, <2>8, <2>9 DEF IsLast
    <3>2. \A i \in 1..l : input[j][i] = [kind |-> "chunk", job |-> j, n |-> i]
      BY <2>6, <2>7, <2>9
    <3> QED BY <2>5, <3>1, <3>2 DEF FirstChunks
  <2>10. CASE input[j][l].kind = "cut"
    <3> DEFINE f == FirstChunks(j, l - 1)
               m == [kind |-> "cut", job |-> j, n |-> l]
    <3>1. m \in Message /\ input[j][l] = m
      BY <2>3, <2>6, <2>8, <2>10 DEF Message
    <3>2. /\ f \in Seq(Message) /\ Len(f) = l - 1
          /\ \A i \in 1..(l - 1) : f[i] = [kind |-> "chunk", job |-> j, n |-> i]
      <4>1. l - 1 \in Nat
        BY <2>3, <2>4
      <4>2. f = [i \in 1..(l - 1) |-> [kind |-> "chunk", job |-> j, n |-> i]]
        BY DEF FirstChunks
      <4>3. \A i \in 1..(l - 1) : [kind |-> "chunk", job |-> j, n |-> i] \in Message
        BY <4>1 DEF Message
      <4> HIDE DEF f
      <4>4. f \in [1..(l - 1) -> Message]
        BY <4>2, <4>3
      <4> HIDE DEF l
      <4> QED BY <4>1, <4>2, <4>4
    <3> HIDE DEF f, m
    <3>3. ASSUME NEW i \in 1..l, i # l
          PROVE  i \in 1..(l - 1) /\ input[j][i] = f[i]
      <4>1. i \in 1..(l - 1)
        BY <2>3, <3>3
      <4>2. input[j][i] = [kind |-> "chunk", job |-> j, n |-> i]
        BY <2>6, <2>7, <3>3
      <4> QED BY <3>2, <4>1, <4>2
    <3>4. /\ Append(f, m) \in Seq(Message) /\ Len(Append(f, m)) = l
          /\ \A i \in 1..(l - 1) : Append(f, m)[i] = f[i]
          /\ Append(f, m)[l] = m
      BY <2>3, <3>1, <3>2
    <3>5. \A i \in 1..l : Append(f, m)[i] = input[j][i]
      BY <3>1, <3>3, <3>4
    <3>6. input[j] = Append(f, m)
      BY <2>3, <3>4, <3>5
    <3> QED BY <2>3, <2>4, <2>8, <3>6 DEF f, m
  <2> QED BY <2>4, <2>8, <2>9, <2>10
<1> QED BY <1>1, <1>2, <1>3, Inductive, PTL DEF Spec

=============================================================================
