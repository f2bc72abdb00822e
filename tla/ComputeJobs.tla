---------------------------- MODULE ComputeJobs ----------------------------
(***************************************************************************)
(* The OBC compute role (src/apps/obc/compute) with the data role          *)
(* (src/apps/obc/data) as its file server.                                 *)
(*                                                                         *)
(* The dispatch thread receives everything sent to compute: compress and   *)
(* cancel requests, and data's replies, which it hands to the worker       *)
(* through a mailbox of one slot.  Each accepted request gets a worker     *)
(* thread of its own: it reads the input file in chunks, encodes it and    *)
(* writes the output in blocks, each acknowledged.  job_busy admits one    *)
(* job at a time, reply_epoch tells the jobs' use of the mailbox apart.    *)
(*                                                                         *)
(* A message is [kind, job, n].  For a chunk or an ack, job is the job     *)
(* whose request data answers; the wire format has no such field, and no   *)
(* step of compute reads it.  A cut chunk is one that data could not read  *)
(* to its end: like the last chunk of a file it is short and is_last.      *)
(***************************************************************************)
EXTENDS Integers, Sequences

CONSTANTS
  MaxJobs,         \* bound: compress requests sent, with job ids 1, 2, ...
  Chunks,          \* data_read_reply_t messages a file takes
  Blocks,          \* data_write_chunk_t messages an encoded file takes
  Cap,             \* chunks that fit into input_buf
  Backlog,         \* IPC_BACKLOG
  MaxCancels,      \* bound: cancel requests sent
  MaxLosses,       \* bound: IPC sends that fail
  MaxDataFaults,   \* bound: errors and crashes of the data role
  MaxLocalFaults   \* bound: failures of pthread_create and the encoder

ASSUME SizesAssumption ==
  {MaxJobs, Chunks, Blocks, Cap, Backlog} \subseteq Nat \ {0}
ASSUME EventsAssumption ==
  {MaxCancels, MaxLosses, MaxDataFaults, MaxLocalFaults} \subseteq Nat

Jobs    == 1..MaxJobs
NoJob   == 0
Message == [kind : {"compress", "cancel", "chunk", "cut", "ack"}, job : Jobs,
            n : Nat]
Request == [kind : {"read", "write"}, job : Jobs]
Nothing == [kind |-> "none", job |-> NoJob, n |-> 0]

Statuses == {"OK", "FAILED", "CANCELLED", "TIMEOUT", "BUSY"}
Unheard  == "UNHEARD"   \* a result whose IPC_send failed
Outcomes == Statuses \cup {Unheard}

VARIABLES
  job_busy, job_id_running, job_cancel_requested,        \* under job_lock
  reply_epoch, epoch_open, reply_ready, reply_buf,       \* under reply_lock
  current_job,     \* what a starting worker reads
  worker_watch,    \* worker_watch.active
  dpc, held, entry_epoch,   \* the dispatch thread: place, message, local
  pc,              \* the place of each job's worker
  epoch, input, written, status,   \* the workers' locals
  inbox,           \* messages waiting on compute's socket
  requests,        \* messages waiting on data's socket
  stream,          \* the request data is serving: next message to send
  mail,            \* how many messages wait on the requester's socket
  results,         \* the results sent for each job
  requested, cancelled,            \* jobs requested; jobs a cancel was sent for
  cancels, losses, dataFaults, localFaults,  \* events so far
  dropped          \* a reply was dropped when REPLY_SLOT_GRACE_MS ran out

jobLock  == <<job_busy, job_id_running, job_cancel_requested>>
mailbox  == <<reply_epoch, epoch_open, reply_ready, reply_buf>>
dispatch == <<dpc, held, entry_epoch>>
worker   == <<pc, epoch, input, written, status>>
data     == <<requests, stream>>
answers  == <<results, mail>>
clients  == <<requested, cancelled, cancels>>
events   == <<losses, dataFaults, localFaults, dropped>>
vars     == <<jobLock, mailbox, current_job, worker_watch, dispatch, worker,
              inbox, data, answers, clients, events>>

Finishing == {"result", "close", "unwatch", "release"}
Working   == {"start", "read", "readCancel", "encode", "encodeCancel",
              "write", "ack", "writeCancel"}

\* What dispatch.c keeps under job_lock and reply_lock, and next to them.
TypeShared ==
  /\ job_busy \in BOOLEAN /\ job_cancel_requested \in BOOLEAN
  /\ job_id_running \in Jobs \cup {NoJob}
  /\ reply_epoch \in Nat /\ epoch_open \in BOOLEAN /\ reply_ready \in BOOLEAN
  /\ reply_buf \in Message \cup {Nothing}
  /\ current_job \in [job : Jobs \cup {NoJob}, epoch : Nat]
  /\ worker_watch \in BOOLEAN

TypeThreads ==
  /\ dpc \in {"receive", "deliver", "busy", "begin", "launch", "tail"}
  /\ held \in Message \cup {Nothing} /\ entry_epoch \in Nat
  /\ pc \in [Jobs -> {"idle"} \cup Working \cup Finishing]
  /\ epoch \in [Jobs -> Nat] /\ status \in [Jobs -> Statuses]

TypeFiles ==
  /\ input \in [Jobs -> Seq(Message)] /\ \A j \in Jobs : Len(input[j]) <= Cap + 1
  /\ written \in [Jobs -> 0..Blocks]

TypeQueues ==
  /\ inbox \in Seq(Message) /\ Len(inbox) <= Backlog
  /\ requests \in Seq(Request) /\ Len(requests) <= Backlog
  /\ stream \in Message \cup {Nothing} /\ stream.kind \in {"chunk", "ack", "none"}

TypeClients ==
  /\ results \in [Jobs -> Seq(Outcomes)] /\ mail \in 0..Backlog
  /\ requested \in 0..MaxJobs /\ cancelled \subseteq Jobs
  /\ cancels \in Nat /\ losses \in Nat /\ dataFaults \in Nat
  /\ localFaults \in Nat /\ dropped \in BOOLEAN

\* Every variable has its type; a worker copies at most one chunk more than fit into
\* its buffer, as it looks at the size after the copy.
TypeOK == TypeShared /\ TypeThreads /\ TypeFiles /\ TypeQueues /\ TypeClients

Init ==
  /\ job_busy = FALSE /\ job_id_running = NoJob /\ job_cancel_requested = FALSE
  /\ reply_epoch = 0 /\ epoch_open = FALSE
  /\ reply_ready = FALSE /\ reply_buf = Nothing
  /\ current_job = [job |-> NoJob, epoch |-> 0]
  /\ worker_watch = FALSE
  /\ dpc = "receive" /\ held = Nothing /\ entry_epoch = 0
  /\ pc = [j \in Jobs |-> "idle"]
  /\ epoch = [j \in Jobs |-> 0]
  /\ input = [j \in Jobs |-> <<>>]
  /\ written = [j \in Jobs |-> 0]
  /\ status = [j \in Jobs |-> "OK"]
  /\ inbox = <<>> /\ requests = <<>> /\ stream = Nothing
  /\ results = [j \in Jobs |-> <<>>]
  /\ requested = 0 /\ cancelled = {} /\ cancels = 0
  /\ losses = 0 /\ dataFaults = 0 /\ localFaults = 0
  /\ dropped = FALSE /\ mail = 0

-----------------------------------------------------------------------------
(***************************************************************************)
(* dispatch_thread.                                                        *)
(***************************************************************************)
\* Mutant of HandleCompress: a cancel of the previous job stays armed.
HandleCompressStaleCancel(m) ==
  /\ held' = m
  /\ \/ job_busy /\ dpc' = "busy" /\ UNCHANGED jobLock
     \/ /\ ~job_busy /\ dpc' = "begin"
        /\ job_busy' = TRUE /\ job_id_running' = m.job
        /\ UNCHANGED job_cancel_requested
  /\ UNCHANGED entry_epoch

\* Mutant of HandleCompress: a request is taken while a job is running.
HandleCompressAlways(m) ==
  /\ held' = m /\ dpc' = "begin"
  /\ job_busy' = TRUE /\ job_id_running' = m.job
  /\ job_cancel_requested' = FALSE
  /\ UNCHANGED entry_epoch

\* handle_compress_request up to the unlock: a running job makes it BUSY.
HandleCompress(m) ==
  /\ held' = m
  /\ \/ job_busy /\ dpc' = "busy" /\ UNCHANGED jobLock
     \/ /\ ~job_busy /\ dpc' = "begin"
        /\ job_busy' = TRUE /\ job_id_running' = m.job
        /\ job_cancel_requested' = FALSE
  /\ UNCHANGED entry_epoch

\* handle_cancel_request: only the running job can be cancelled.
HandleCancel(m) ==
  /\ job_cancel_requested' =
       (job_cancel_requested \/ (job_busy /\ job_id_running = m.job))
  /\ UNCHANGED <<job_busy, job_id_running, dispatch>>

\* One message per iteration; what comes from data is a reply, whatever it is.
Receive ==
  /\ dpc = "receive"
  /\ inbox # <<>>
  /\ inbox' = Tail(inbox)
  /\ LET m == Head(inbox) IN
       \/ /\ m.kind \in {"chunk", "cut", "ack"}
          /\ held' = m /\ dpc' = "deliver" /\ entry_epoch' = reply_epoch
          /\ UNCHANGED jobLock
       \/ m.kind = "compress" /\ HandleCompress(m)
       \/ m.kind = "cancel" /\ HandleCancel(m)
  /\ UNCHANGED <<mailbox, current_job, worker_watch, worker, data, answers,
                 clients, events>>

\* IPC_send of a result, which nobody looks at: it waits while the requester's
\* socket is full, or fails.
SendToRequester(j, s) ==
  \/ /\ mail < Backlog
     /\ mail' = mail + 1
     /\ results' = [results EXCEPT ![j] = Append(@, s)]
     /\ UNCHANGED losses
  \/ /\ losses < MaxLosses
     /\ losses' = losses + 1
     /\ results' = [results EXCEPT ![j] = Append(@, Unheard)]
     /\ UNCHANGED mail

\* The end of a request that found a job running.
SendBusy ==
  /\ dpc = "busy"
  /\ SendToRequester(held.job, "BUSY")
  /\ dpc' = "receive"
  /\ UNCHANGED <<jobLock, mailbox, current_job, worker_watch, held, entry_epoch,
                 worker, inbox, data, clients, dataFaults, localFaults,
                 dropped>>

\* Rest of handle_compress_request: fill current_job, open a new epoch.
Begin ==
  /\ dpc = "begin"
  /\ reply_epoch' = reply_epoch + 1
  /\ epoch_open' = TRUE
  /\ reply_ready' = FALSE
  /\ current_job' = [job |-> held.job, epoch |-> reply_epoch + 1]
  /\ dpc' = "launch"
  /\ UNCHANGED <<jobLock, reply_buf, worker_watch, held, entry_epoch, worker,
                 inbox, data, answers, clients, events>>

\* compute_health_worker_begin and pthread_create; when that fails the
\* dispatch thread runs send_result itself.
Launch ==
  /\ dpc = "launch"
  /\ worker_watch' = TRUE
  /\ LET j == current_job.job IN
       \/ /\ pc' = [pc EXCEPT ![j] = "start"]
          /\ dpc' = "receive"
          /\ UNCHANGED <<epoch, status, localFaults>>
       \/ /\ localFaults < MaxLocalFaults
          /\ localFaults' = localFaults + 1
          /\ pc' = [pc EXCEPT ![j] = "result"]
          /\ epoch' = [epoch EXCEPT ![j] = current_job.epoch]
          /\ status' = [status EXCEPT ![j] = "FAILED"]
          /\ dpc' = "tail"
  /\ UNCHANGED <<jobLock, mailbox, current_job, held, entry_epoch, input,
                 written, inbox, data, answers, clients, losses, dataFaults,
                 dropped>>

\* deliver_reply waits while the current job has not emptied the slot.
SlotTaken == reply_ready /\ epoch_open /\ reply_epoch = entry_epoch

\* Mutant of Deliver: the slot is not waited for.
DeliverAtOnce ==
  /\ dpc = "deliver"
  /\ dpc' = "receive"
  /\ \/ /\ epoch_open /\ reply_epoch = entry_epoch
        /\ reply_buf' = held /\ reply_ready' = TRUE
     \/ /\ ~(epoch_open /\ reply_epoch = entry_epoch)
        /\ UNCHANGED <<reply_buf, reply_ready>>
  /\ UNCHANGED <<jobLock, reply_epoch, epoch_open, current_job, worker_watch,
                 held, entry_epoch, worker, inbox, data, answers, clients,
                 events>>

\* The wait is over: store the reply, or drop it when its job has ended.
Deliver ==
  /\ dpc = "deliver"
  /\ ~SlotTaken
  /\ dpc' = "receive"
  /\ \/ /\ epoch_open /\ reply_epoch = entry_epoch
        /\ reply_buf' = held /\ reply_ready' = TRUE
     \/ /\ ~(epoch_open /\ reply_epoch = entry_epoch)
        /\ UNCHANGED <<reply_buf, reply_ready>>
  /\ UNCHANGED <<jobLock, reply_epoch, epoch_open, current_job, worker_watch,
                 held, entry_epoch, worker, inbox, data, answers, clients,
                 events>>

\* The worker did not empty the slot in time: the reply is dropped.
DeliverTimesOut ==
  /\ dpc = "deliver"
  /\ SlotTaken
  /\ dropped' = TRUE
  /\ dpc' = "receive"
  /\ UNCHANGED <<jobLock, mailbox, current_job, worker_watch, held, entry_epoch,
                 worker, inbox, data, answers, clients, losses, dataFaults, localFaults>>

-----------------------------------------------------------------------------
(***************************************************************************)
(* worker_thread of job j.                                                 *)
(***************************************************************************)
Goto(j, l) == pc' = [pc EXCEPT ![j] = l]

\* The job is over with this status; send_result follows.
Ends(j, s) == Goto(j, "result") /\ status' = [status EXCEPT ![j] = s]

\* IPC_send to data, whose result the worker does not look at.
SendToData(q) ==
  \/ /\ Len(requests) < Backlog
     /\ requests' = Append(requests, q)
     /\ UNCHANGED losses
  \/ /\ losses < MaxLosses
     /\ losses' = losses + 1
     /\ UNCHANGED requests

\* check_cancelled
Cancelled(j) == job_busy /\ job_id_running = j /\ job_cancel_requested

Start(j) ==
  /\ pc[j] = "start"
  /\ epoch' = [epoch EXCEPT ![j] = current_job.epoch]
  /\ SendToData([kind |-> "read", job |-> j])
  /\ Goto(j, "read")
  /\ UNCHANGED <<jobLock, mailbox, current_job, worker_watch, dispatch, input,
                 written, status, inbox, stream, answers, clients, dataFaults,
                 localFaults, dropped>>

\* A successful wait_for_reply empties the slot.
TakeReply == reply_ready /\ reply_ready' = FALSE

\* reply.is_last
IsLast(m) == m.kind = "cut" \/ m.n = Chunks

\* A reply in the read phase: an ack has the wrong size and is skipped.  The
\* payload is copied before its size is looked at.
Read(j) ==
  /\ pc[j] = "read"
  /\ TakeReply
  /\ LET m == reply_buf IN
       \/ /\ m.kind = "ack"
          /\ UNCHANGED <<pc, input, status>>
       \/ /\ m.kind \in {"chunk", "cut"} /\ m.n = 0
          /\ Ends(j, "FAILED")
          /\ UNCHANGED input
       \/ /\ m.kind \in {"chunk", "cut"} /\ m.n # 0
          /\ input' = [input EXCEPT ![j] = Append(@, m)]
          /\ \/ Len(input[j]) >= Cap /\ Ends(j, "FAILED")
             \/ /\ Len(input[j]) < Cap
                /\ Goto(j, IF IsLast(m) THEN "encode" ELSE "readCancel")
                /\ UNCHANGED status
  /\ UNCHANGED <<jobLock, reply_epoch, epoch_open, reply_buf, current_job,
                 worker_watch, dispatch, epoch, written, inbox, data, answers,
                 clients, events>>

\* Mutant of GivesUp: wait_for_reply has no deadline.
GivesUpNever(j) ==
  /\ pc[j] \in {"read", "ack"}
  /\ ~reply_ready
  /\ ~(epoch_open /\ reply_epoch = epoch[j])
  /\ Ends(j, "TIMEOUT")
  /\ UNCHANGED <<jobLock, mailbox, current_job, worker_watch, dispatch, epoch,
                 input, written, inbox, data, answers, clients, events>>

\* wait_for_reply returns without a reply: its deadline passed or its epoch
\* is closed.  Both end the job with the same status.
GivesUp(j) ==
  /\ pc[j] \in {"read", "ack"}
  /\ ~reply_ready
  /\ Ends(j, "TIMEOUT")
  /\ UNCHANGED <<jobLock, mailbox, current_job, worker_watch, dispatch, epoch,
                 input, written, inbox, data, answers, clients, events>>

\* ssdv_encode_image
Encode(j) ==
  /\ pc[j] = "encode"
  /\ \/ Goto(j, "encodeCancel") /\ UNCHANGED <<status, localFaults>>
     \/ /\ localFaults < MaxLocalFaults
        /\ localFaults' = localFaults + 1
        /\ Ends(j, "FAILED")
  /\ UNCHANGED <<jobLock, mailbox, current_job, worker_watch, dispatch, epoch,
                 input, written, inbox, data, answers, clients, losses,
                 dataFaults, dropped>>

\* The three cancellation blocks; after the last block the job is done.
CheckCancelled(j) ==
  /\ pc[j] \in {"readCancel", "encodeCancel", "writeCancel"}
  /\ \/ Cancelled(j) /\ Ends(j, "CANCELLED")
     \/ /\ ~Cancelled(j) /\ pc[j] = "readCancel"
        /\ Goto(j, "read")
        /\ UNCHANGED status
     \/ /\ ~Cancelled(j) /\ pc[j] # "readCancel" /\ written[j] < Blocks
        /\ Goto(j, "write")
        /\ UNCHANGED status
     \/ /\ ~Cancelled(j) /\ written[j] = Blocks
        /\ Ends(j, "OK")
  /\ UNCHANGED <<jobLock, mailbox, current_job, worker_watch, dispatch, epoch,
                 input, written, inbox, data, answers, clients, events>>

Write(j) ==
  /\ pc[j] = "write"
  /\ SendToData([kind |-> "write", job |-> j])
  /\ Goto(j, "ack")
  /\ UNCHANGED <<jobLock, mailbox, current_job, worker_watch, dispatch, epoch,
                 input, written, status, inbox, stream, answers, clients,
                 dataFaults, localFaults, dropped>>

\* A reply while an ack is due: a chunk does not fit into ack_buf.
Ack(j) ==
  /\ pc[j] = "ack"
  /\ TakeReply
  /\ LET m == reply_buf IN
       \/ m.kind # "ack" /\ Ends(j, "TIMEOUT") /\ UNCHANGED written
       \/ m.kind = "ack" /\ m.n = 0 /\ Ends(j, "FAILED") /\ UNCHANGED written
       \/ /\ m.kind = "ack" /\ m.n # 0
          /\ written' = [written EXCEPT ![j] = @ + 1]
          /\ Goto(j, "writeCancel")
          /\ UNCHANGED status
  /\ UNCHANGED <<jobLock, reply_epoch, epoch_open, reply_buf, current_job,
                 worker_watch, dispatch, epoch, input, inbox, data, answers,
                 clients, events>>

(***************************************************************************)
(* send_result: the result, dispatch_job_end, compute_health_worker_end,   *)
(* job_busy = 0; each under its own lock.                                  *)
(***************************************************************************)
SendResult(j) ==
  /\ pc[j] = "result"
  /\ SendToRequester(j, status[j])
  /\ Goto(j, "close")
  /\ UNCHANGED <<jobLock, mailbox, current_job, worker_watch, dispatch, epoch,
                 input, written, status, inbox, data, clients, dataFaults, localFaults, dropped>>

\* dispatch_job_end closes the epoch only if it is still this job's.
JobEnd(j) ==
  /\ pc[j] = "close"
  /\ epoch_open' = (epoch_open /\ reply_epoch # epoch[j])
  /\ reply_ready' = (reply_ready /\ (reply_epoch # epoch[j] \/ ~epoch_open))
  /\ Goto(j, "unwatch")
  /\ UNCHANGED <<jobLock, reply_epoch, reply_buf, current_job, worker_watch,
                 dispatch, epoch, input, written, status, inbox, data, answers,
                 clients, events>>

Unwatch(j) ==
  /\ pc[j] = "unwatch"
  /\ worker_watch' = FALSE
  /\ Goto(j, "release")
  /\ UNCHANGED <<jobLock, mailbox, current_job, dispatch, epoch, input, written,
                 status, inbox, data, answers, clients, events>>

\* The worker exits, or the dispatch thread goes on after a failed launch.
Release(j) ==
  /\ pc[j] = "release"
  /\ job_busy' = FALSE
  /\ Goto(j, "idle")
  /\ dpc' = IF dpc = "tail" THEN "receive" ELSE dpc
  /\ UNCHANGED <<job_id_running, job_cancel_requested, mailbox, current_job,
                 worker_watch, held, entry_epoch, epoch, input, written, status,
                 inbox, data, answers, clients, events>>

-----------------------------------------------------------------------------
(***************************************************************************)
(* The data role: storage_thread serves one request at a time.  stream is  *)
(* the next message it will send.                                          *)
(***************************************************************************)
compute == <<jobLock, mailbox, current_job, worker_watch, dispatch, worker>>

\* A file that cannot be opened is reported with one error message; a block
\* that cannot be written with a negative ack.
DataReceive ==
  /\ stream = Nothing
  /\ requests # <<>>
  /\ requests' = Tail(requests)
  /\ LET q    == Head(requests)
         kind == IF q.kind = "read" THEN "chunk" ELSE "ack"
     IN  \/ /\ stream' = [kind |-> kind, job |-> q.job, n |-> 1]
            /\ UNCHANGED dataFaults
         \/ /\ dataFaults < MaxDataFaults
            /\ dataFaults' = dataFaults + 1
            /\ stream' = [kind |-> kind, job |-> q.job, n |-> 0]
  /\ UNCHANGED <<compute, inbox, answers, clients, losses, localFaults, dropped>>

\* What filesystem_stream_file sends next; an ack and the last chunk are alone.
AfterSent == IF stream.kind = "chunk" /\ stream.n \in 1..(Chunks - 1)
             THEN [stream EXCEPT !.n = @ + 1] ELSE Nothing

\* When fread fails in the middle of a file, what it gave goes out as the last chunk.
DataSend ==
  /\ stream # Nothing
  /\ Len(inbox) < Backlog
  /\ \/ /\ inbox' = Append(inbox, stream)
        /\ stream' = AfterSent
        /\ UNCHANGED dataFaults
     \/ /\ stream.kind = "chunk" /\ stream.n > 0
        /\ dataFaults < MaxDataFaults
        /\ dataFaults' = dataFaults + 1
        /\ inbox' = Append(inbox, [stream EXCEPT !.kind = "cut"])
        /\ stream' = Nothing
  /\ UNCHANGED <<compute, requests, answers, clients, losses, localFaults,
                 dropped>>

\* ipc_send_retrying ran out of retries: the rest of the stream is abandoned.
DataGivesUp ==
  /\ stream # Nothing
  /\ losses < MaxLosses
  /\ losses' = losses + 1
  /\ stream' = Nothing
  /\ UNCHANGED <<compute, inbox, requests, answers, clients, dataFaults,
                 localFaults, dropped>>

\* The data role dies and is started again with an empty socket.
DataCrashes ==
  /\ dataFaults < MaxDataFaults
  /\ dataFaults' = dataFaults + 1
  /\ stream' = Nothing /\ requests' = <<>>
  /\ UNCHANGED <<compute, inbox, answers, clients, losses, localFaults, dropped>>

\* The requester takes a message from its socket.
RequesterReads ==
  /\ mail > 0 /\ mail' = mail - 1
  /\ UNCHANGED <<compute, inbox, data, results, clients, events>>

-----------------------------------------------------------------------------
(***************************************************************************)
(* The clients: compress requests and cancels, in any order.               *)
(***************************************************************************)
Compress ==
  /\ requested < MaxJobs
  /\ Len(inbox) < Backlog
  /\ requested' = requested + 1
  /\ inbox' = Append(inbox, [kind |-> "compress", job |-> requested + 1, n |-> 0])
  /\ UNCHANGED <<compute, data, answers, cancelled, cancels, events>>

Cancel(j) ==
  /\ j <= requested
  /\ cancels < MaxCancels
  /\ Len(inbox) < Backlog
  /\ cancels' = cancels + 1
  /\ cancelled' = cancelled \cup {j}
  /\ inbox' = Append(inbox, [kind |-> "cancel", job |-> j, n |-> 0])
  /\ UNCHANGED <<compute, data, answers, requested, events>>

-----------------------------------------------------------------------------
DispatchStep  == Receive \/ SendBusy \/ Begin \/ Launch \/ Deliver \/ DeliverTimesOut
WorkerStep(j) ==
  \/ Start(j) \/ Read(j) \/ GivesUp(j) \/ Encode(j) \/ CheckCancelled(j)
  \/ Write(j) \/ Ack(j) \/ SendResult(j) \/ JobEnd(j) \/ Unwatch(j) \/ Release(j)
DataServes    == DataReceive \/ DataSend
DataStep      == DataServes \/ DataGivesUp \/ DataCrashes
ClientStep    == Compress \/ RequesterReads \/ \E j \in Jobs : Cancel(j)

\* Nothing is left to do until another request comes.
Quiescent ==
  /\ requested = MaxJobs
  /\ dpc = "receive" /\ inbox = <<>> /\ ~job_busy
  /\ requests = <<>> /\ stream = Nothing
  /\ UNCHANGED vars

Next == \/ DispatchStep
        \/ \E j \in Jobs : WorkerStep(j)
        \/ DataStep
        \/ ClientStep
        \/ Quiescent

Spec == Init /\ [][Next]_vars

(***************************************************************************)
(* compute's threads keep running; a worker that waits is woken by a reply *)
(* or by its deadline.  A send blocks while the socket it is for is full:  *)
(* data serves its requests and the requester reads its messages.          *)
(***************************************************************************)
FairSpec == Spec /\ WF_vars(DispatchStep)
                 /\ \A j \in Jobs : WF_vars(WorkerStep(j))
                 /\ WF_vars(DataServes) /\ WF_vars(RequesterReads)

-----------------------------------------------------------------------------
\* The job's worker (or the dispatch thread for it) is between the launch and
\* the end of send_result.
Active(j) == pc[j] # "idle"

\* The static buffers, current_job and the mailbox are shared by all workers:
\* at most one is ever active, and it is the job that job_id_running names, so
\* that a cancel reaches it.
OneWorker ==
  \A j \in Jobs : Active(j) =>
    /\ job_busy /\ job_id_running = j
    /\ \A k \in Jobs : Active(k) => k = j

\* wait_for_reply never aborts: while a worker waits, the open epoch is its
\* own, whatever the previous job's send_result and the next request do.
MailboxIsMine ==
  \A j \in Jobs : pc[j] \in Working \ {"start"} =>
    epoch_open /\ reply_epoch = epoch[j]

\* A job in progress is under the progress watch, and a compute without a job
\* is not: a stale begin or end would hide a stalled worker or report an idle
\* role as stalled.
WatchFollowsJob ==
  /\ \A j \in Jobs : pc[j] \in Working \cup {"result", "close"} => worker_watch
  /\ ~job_busy => ~worker_watch

\* "Sends the job's one and only result": no request is answered twice.
OneResult == \A j \in Jobs : Len(results[j]) <= 1

\* What the threads of compute share stays in order, however a worker that ends
\* and the request that follows it interleave (dispatch.c, worker.c).
JobInv == TypeOK /\ OneWorker /\ MailboxIsMine /\ WatchFollowsJob /\ OneResult

\* Only a job for which a cancel was sent is reported as cancelled; a cancel
\* that came too late for its job does not hit the next one.
CancelHitsItsJob ==
  \A j \in Jobs : results[j] = <<"CANCELLED">> => j \in cancelled

\* What the worker of job j has read was sent for its own read request.
OwnInput(j) == \A i \in 1..Len(input[j]) : input[j][i].job = j

\* The first k chunks of job j's file.
FirstChunks(j, k) == [i \in 1..k |-> [kind |-> "chunk", job |-> j, n |-> i]]

\* A job reported OK has read its file from the start, each chunk once and in
\* order, up to its end or to the place where data's fread failed: lost messages,
\* a crash of data and a slow worker show up as a failure, a failed fread does not.
\* Left out are the two ways the code hands over a file with wrong chunks: a leftover
\* of an earlier job, and a reply dropped when the slot's grace period ends.
OkMeansInOrder ==
  \A j \in Jobs :
    results[j] = <<"OK">> /\ ~dropped /\ OwnInput(j) =>
      \/ input[j] = FirstChunks(j, Chunks)
      \/ \E k \in 1..Chunks :
           input[j] = Append(FirstChunks(j, k - 1),
                             [kind |-> "cut", job |-> j, n |-> k])

\* Every request is answered, or the send of its answer has failed, although the
\* dispatch thread, the worker and data wait for each other's full sockets and for
\* the reply slot.
EveryRequestAnswered ==
  \A j \in Jobs : requested >= j ~> results[j] # <<>>

=============================================================================
