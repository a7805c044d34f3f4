---------------------------- MODULE LiveCapture ----------------------------
(***************************************************************************)
(* One proxied connection: two pumps copy bytes between client and printer *)
(* and hand a copy of every chunk to the recorder, which queues it for a   *)
(* worker that writes the live spool directory in a thread.  The session   *)
(* cancels pumps, seals the recorder and never waits for the disk.         *)
(*                                                                         *)
(* Source: proxy/streams.py (pump), proxy/session.py (run, from the pumps' *)
(* start), capture/recorder.py, capture/jobs.py, storage/spool.py          *)
(* (LiveSpoolCapture).                                                     *)
(*                                                                         *)
(* Coroutines of one event loop interleave only where one of them          *)
(* suspends: an action runs from one suspension point to the next.  Under  *)
(* the policy "continue" nothing suspends while it holds the recorder's    *)
(* lock, so a chunk is forwarded, recorded and queued in one step; under   *)
(* "abort" a full queue suspends the pump with the lock in its hands.      *)
(*                                                                         *)
(* A byte is its position in its direction's stream.                       *)
(***************************************************************************)
EXTENDS Integers, Sequences

CONSTANTS
  Asyncio,      \* asyncio of Python "3.11", or of "3.12" and later
  ClientToRch, RchToClient,  \* the two directions
  Free,         \* the lock's value when nobody holds it
  Policies,     \* values of STORAGE_FAILURE_POLICY to explore
  QueueSize,    \* commands the live spool queue holds
  MaxPayload,   \* MAX_PAYLOAD_BYTES
  MaxEvents,    \* MAX_CAPTURE_EVENTS
  Sizes,        \* bytes a read may return
  MaxChunks,    \* bound: chunks read over the connection
  MaxFaults     \* bound: storage errors

Directions == {ClientToRch, RchToClient}

ASSUME LiveCaptureAssumption ==
  /\ Asyncio \in {"3.11", "3.12"}
  /\ ClientToRch # RchToClient /\ Free \notin Directions
  /\ Policies \subseteq {"continue", "abort"}
  /\ QueueSize \in Nat \ {0}
  /\ MaxPayload \in Nat
  /\ MaxEvents \in Nat
  /\ Sizes \subseteq Nat \ {0}
  /\ MaxChunks \in Nat
  /\ MaxFaults \in Nat

VARIABLES
  policy,      \* config.storage_failure_policy of this process
  \* the session and its pumps
  phase,       \* forwarding, tail, closing, unwinding, unsealed, ended
  pc,          \* where each pump is suspended, or how it ended
  shutdown,    \* has ProxyServer.close cancelled the session's task?
  cancel,      \* has the session cancelled the pump's task?
  after,       \* where the pump goes once its drain is marked
  chunk,       \* the chunk each pump is handling
  sent,        \* bytes handed to the peer's writer, per direction
  chunks,      \* chunks read so far
  \* the recorder and its job
  lock,        \* holder of JobCaptureManager._lock across a suspension
  held,        \* the command the lock's holder waits to queue
  active,      \* does _active hold a job?
  seq,         \* _event_sequence
  job,         \* [stored, events, capture_complete, timeline_complete]
  drained,     \* local_write_drain_completed of every recorded chunk
  degraded,    \* _capture_degraded
  errors,      \* is _persist_errors non-empty?
  queue,       \* _stream_queue
  finalizing,  \* _stream_finalize_requested
  \* the worker and the spool directory
  wpc,         \* where the worker is
  cmd,         \* the command its thread is executing
  raw,         \* bytes in request_raw and response_raw
  maximum,     \* _maximum_sequence
  pending,     \* _pending: drain state of each event not yet in the timeline
  skipped,     \* _skipped
  next,        \* _next_timeline_sequence
  timeline,    \* drain state written for each event in the timeline file
  published,   \* status in the manifest of the published job, or "no"
  faults

pumpVars  == <<pc, cancel, after, chunk>>
sentVars  == <<sent, chunks>>
jobVars   == <<active, seq, job, drained>>
queueVars == <<degraded, queue>>
diskVars  == <<raw, maximum, pending, skipped, next, timeline>>
vars == <<policy, phase, shutdown, pumpVars, sentVars, lock, held, jobVars, queueVars, errors, finalizing,
          wpc, cmd, diskVars, published, faults>>

Ended    == {"eof", "error", "raised", "cancelled"}
Blocked  == {"lock", "put", "mark_lock", "mark_put"}
Drain    == {"unknown", "completed", "failed"}
Seqs     == 1..MaxChunks
NoChunk  == [seq |-> 0, from |-> 0, len |-> 0]
Chunk    == [seq : 0..MaxChunks, from : Nat, len : Nat]
AppendCommand == [op : {"append"}, seq : Seqs, dir : Directions, from : Nat, len : Nat,
                  listed : BOOLEAN]
DrainCommand  == [op : {"drain"}, seq : Seqs, completed : BOOLEAN]
Command       == AppendCommand \cup DrainCommand
NoCommand     == [op |-> "none"]

\* A function on some of the sequence numbers.
Events == UNION {[S -> Drain] : S \in SUBSET Seqs}

TypeOK ==
  /\ policy \in Policies
  /\ phase \in {"forwarding", "tail", "closing", "unwinding", "unsealed", "ended"}
  /\ pc \in [Directions -> {"read", "drain"} \cup Blocked \cup Ended]
  /\ shutdown \in BOOLEAN
  /\ cancel \in [Directions -> BOOLEAN]
  /\ after \in [Directions -> {"read", "error", "cancelled"}]
  /\ chunk \in [Directions -> Chunk]
  /\ sent \in [Directions -> Nat] /\ chunks \in 0..MaxChunks
  /\ lock \in Directions \cup {Free} /\ held \in Command \cup {NoCommand}
  /\ active \in BOOLEAN /\ seq \in 0..MaxChunks
  /\ job \in [stored : 0..MaxPayload, events : 0..MaxEvents,
              capture_complete : BOOLEAN, timeline_complete : BOOLEAN]
  /\ drained \in [Seqs -> Drain]
  /\ degraded \in BOOLEAN /\ errors \in BOOLEAN /\ finalizing \in BOOLEAN
  /\ queue \in Seq(Command) /\ Len(queue) <= QueueSize
  /\ wpc \in {"none", "begin", "wait", "busy", "publish", "abandon", "cleanup",
              "published", "incomplete", "failed", "cancelled"}
  /\ cmd \in Command \cup {NoCommand}
  /\ raw \in [Directions -> Seq(Nat)]
  /\ maximum \in 0..MaxChunks /\ next \in 1..(MaxChunks + 1)
  /\ pending \in Events /\ timeline \in Events /\ skipped \subseteq Seqs
  /\ published \in {"no", "ready", "ready_capture_incomplete"}
  /\ faults \in 0..MaxFaults

NoEvents == [n \in {} |-> "unknown"]

Init ==
  /\ policy \in Policies
  /\ phase = "forwarding"
  /\ pc = [d \in Directions |-> "read"]
  /\ shutdown = FALSE
  /\ cancel = [d \in Directions |-> FALSE]
  /\ after = [d \in Directions |-> "read"]
  /\ chunk = [d \in Directions |-> NoChunk]
  /\ sent = [d \in Directions |-> 0] /\ chunks = 0
  /\ lock = Free /\ held = NoCommand
  /\ active = FALSE /\ seq = 0
  /\ job = [stored |-> 0, events |-> 0, capture_complete |-> TRUE, timeline_complete |-> TRUE]
  /\ drained = [n \in Seqs |-> "unknown"]
  /\ degraded = FALSE /\ errors = FALSE /\ finalizing = FALSE
  /\ queue = <<>>
  /\ wpc = "none" /\ cmd = NoCommand
  /\ raw = [d \in Directions |-> <<>>]
  /\ maximum = 0 /\ next = 1
  /\ pending = NoEvents /\ timeline = NoEvents /\ skipped = {}
  /\ published = "no"
  /\ faults = 0

-----------------------------------------------------------------------------
(* The recorder.  Every operator below runs with its lock held. *)

AbortOnError == policy = "abort" /\ errors

Incomplete(j) == [j EXCEPT !.capture_complete = FALSE, !.timeline_complete = FALSE]

\* Mutant: the payload limit does not cut a chunk.
KeptWhole(n) == n

\* CapturedJob.append: both directions share MAX_PAYLOAD_BYTES, and a stored chunk
\* gets a timeline entry while there is room for one.
Kept(n)   == IF n <= MaxPayload - job.stored THEN n ELSE MaxPayload - job.stored
Listed(n) == Kept(n) > 0 /\ job.events < MaxEvents
Captured(n) ==
  [stored |-> job.stored + Kept(n),
   events |-> IF Listed(n) THEN job.events + 1 ELSE job.events,
   capture_complete |-> job.capture_complete /\ Kept(n) = n,
   timeline_complete |-> job.timeline_complete /\ (Kept(n) > 0 => Listed(n))]

\* Mutant: a full queue drops the command and says nothing.
EnqueueOrDrop(d, j, command, onward, blocked) ==
  /\ job' = j /\ pc' = [pc EXCEPT ![d] = onward]
  /\ queue' = IF errors \/ Len(queue) >= QueueSize THEN queue ELSE Append(queue, command)
  /\ UNCHANGED <<degraded, lock, held>>

\* Mutant: a full queue suspends the caller under every policy.
EnqueueOrWait(d, j, command, onward, blocked) ==
  /\ job' = j
  /\ IF ~errors /\ Len(queue) >= QueueSize
     THEN /\ lock' = d /\ held' = command /\ pc' = [pc EXCEPT ![d] = blocked]
          /\ UNCHANGED queue
     ELSE /\ pc' = [pc EXCEPT ![d] = onward]
          /\ queue' = IF errors THEN queue ELSE Append(queue, command)
          /\ UNCHANGED <<lock, held>>
  /\ UNCHANGED degraded

\* _enqueue_stream, and the test before it: j is the job as the caller leaves it.  A
\* full queue degrades the capture for good, or suspends the caller at `blocked`.
Enqueue(d, j, command, onward, blocked) ==
  LET open == ~errors /\ ~degraded
      full == Len(queue) >= QueueSize
  IN  \/ /\ ~open
         /\ job' = j /\ pc' = [pc EXCEPT ![d] = onward]
         /\ UNCHANGED <<queue, degraded, lock, held>>
      \/ /\ open /\ ~full
         /\ queue' = Append(queue, command)
         /\ job' = j /\ pc' = [pc EXCEPT ![d] = onward]
         /\ UNCHANGED <<degraded, lock, held>>
      \/ /\ open /\ full /\ policy = "continue"
         /\ degraded' = TRUE
         /\ job' = Incomplete(j) /\ pc' = [pc EXCEPT ![d] = onward]
         /\ UNCHANGED <<queue, lock, held>>
      \/ /\ open /\ full /\ policy = "abort"
         /\ lock' = d /\ held' = command
         /\ job' = j /\ pc' = [pc EXCEPT ![d] = blocked]
         /\ UNCHANGED <<queue, degraded>>

\* record: the first chunk opens the job and starts the worker; under "abort" a
\* storage error raises before the chunk is numbered.
Record(d, from, n) ==
  \/ /\ AbortOnError
     /\ pc' = [pc EXCEPT ![d] = "raised"]
     /\ chunk' = [chunk EXCEPT ![d] = NoChunk]
     /\ UNCHANGED <<jobVars, queueVars, lock, held, wpc>>
  \/ /\ ~AbortOnError
     /\ active' = TRUE
     /\ wpc' = IF active THEN wpc ELSE "begin"
     /\ seq' = seq + 1
     /\ chunk' = [chunk EXCEPT ![d] = [seq |-> seq + 1, from |-> from, len |-> n]]
     /\ Enqueue(d, Captured(n),
                [op |-> "append", seq |-> seq + 1, dir |-> d, from |-> from,
                 len |-> Kept(n), listed |-> Listed(n)],
                "drain", "put")
     /\ UNCHANGED drained

\* mark_local_write_drain: the job's own chunk, the queue, then the abort test.
Mark(d, completed, onward) ==
  /\ drained' = [drained EXCEPT ![chunk[d].seq] = IF completed THEN "completed" ELSE "failed"]
  /\ Enqueue(d, job, [op |-> "drain", seq |-> chunk[d].seq, completed |-> completed],
             IF AbortOnError THEN "raised" ELSE onward, "mark_put")
  /\ UNCHANGED <<active, seq>>

\* asyncio.Lock is first come, first served.
CanLock(d) == lock = Free /\ \A e \in Directions \ {d} : pc[e] \notin {"lock", "mark_lock"}

-----------------------------------------------------------------------------
(* pump *)

\* Read, write to the peer, then record: one step unless the lock is taken.
Forward(d) ==
  /\ pc[d] = "read" /\ ~cancel[d] /\ chunks < MaxChunks
  /\ chunks' = chunks + 1
  /\ \E n \in Sizes :
       /\ sent' = [sent EXCEPT ![d] = @ + n]
       /\ \/ CanLock(d) /\ Record(d, sent[d], n)
          \/ /\ ~CanLock(d)
             /\ pc' = [pc EXCEPT ![d] = "lock"]
             /\ chunk' = [chunk EXCEPT ![d] = [seq |-> 0, from |-> sent[d], len |-> n]]
             /\ UNCHANGED <<jobVars, queueVars, lock, held, wpc>>
  /\ UNCHANGED <<policy, phase, shutdown, cancel, after, errors, finalizing, cmd, diskVars, published,
                 faults>>

LockForRecord(d) ==
  /\ pc[d] = "lock" /\ ~cancel[d] /\ CanLock(d)
  /\ Record(d, chunk[d].from, chunk[d].len)
  /\ UNCHANGED <<policy, phase, shutdown, cancel, after, sentVars, errors, finalizing, cmd, diskVars,
                 published, faults>>

\* writer.drain() returns, fails, times out or is cancelled; `finally` marks it.
EndDrain(d, onward) ==
  /\ pc[d] = "drain"
  /\ after' = [after EXCEPT ![d] = onward]
  /\ \/ CanLock(d) /\ Mark(d, onward = "read", onward)
     \/ /\ ~CanLock(d)
        /\ pc' = [pc EXCEPT ![d] = "mark_lock"]
        /\ UNCHANGED <<jobVars, queueVars, lock, held>>
  /\ UNCHANGED <<policy, phase, shutdown, chunk, sentVars, errors, finalizing, wpc, cmd, diskVars,
                 published, faults>>

DrainEnds(d) ==
  /\ ~cancel[d]
  /\ \E onward \in {"read", "error"} : EndDrain(d, onward)
  /\ UNCHANGED cancel

LockForMark(d) ==
  /\ pc[d] = "mark_lock" /\ ~cancel[d] /\ CanLock(d)
  /\ Mark(d, after[d] = "read", after[d])
  /\ UNCHANGED <<policy, phase, shutdown, cancel, after, chunk, sentVars, errors, finalizing, wpc, cmd,
                 diskVars, published, faults>>

\* The queue has room again: the suspended put completes and the lock is released.
PutAccepted(d) ==
  /\ pc[d] \in {"put", "mark_put"} /\ ~cancel[d] /\ Len(queue) < QueueSize
  /\ queue' = Append(queue, held)
  /\ lock' = Free /\ held' = NoCommand
  /\ pc' = [pc EXCEPT ![d] = IF pc[d] = "put" THEN "drain"
                             ELSE IF AbortOnError THEN "raised" ELSE after[d]]
  /\ UNCHANGED <<policy, phase, shutdown, cancel, after, chunk, sentVars, jobVars, degraded, errors,
                 finalizing, wpc, cmd, diskVars, published, faults>>

\* End of stream with its half-close, or a transport error.
StreamEnds(d) ==
  /\ pc[d] = "read" /\ ~cancel[d]
  /\ \E end \in {"eof", "error"} : pc' = [pc EXCEPT ![d] = end]
  /\ UNCHANGED <<policy, phase, shutdown, cancel, after, chunk, sentVars, lock, held, jobVars, queueVars,
                 errors, finalizing, wpc, cmd, diskVars, published, faults>>

\* Until 3.11 a cancellation that finds the drain done is lost: asyncio.wait_for returns,
\* or raises, what the drain did.
WaitForOutcomes == {"cancelled"} \cup (IF Asyncio = "3.11" THEN {"read", "error"} ELSE {})

\* CancelledError: raised at the pump's suspension point; a drain is still marked.
Cancelled(d) ==
  /\ cancel[d]
  /\ cancel' = [cancel EXCEPT ![d] = FALSE]
  /\ \/ \E onward \in WaitForOutcomes : EndDrain(d, onward)
     \/ /\ pc[d] \in {"read"} \cup Blocked
        /\ pc' = [pc EXCEPT ![d] = "cancelled"]
        /\ lock' = IF lock = d THEN Free ELSE lock
        /\ held' = IF lock = d THEN NoCommand ELSE held
        /\ UNCHANGED <<policy, phase, shutdown, after, chunk, sentVars, jobVars, queueVars, errors,
                       finalizing, wpc, cmd, diskVars, published, faults>>

-----------------------------------------------------------------------------
(* ProxySession.run, from the start of the pumps *)

AllEnded == \A d \in Directions : pc[d] \in Ended

CancelPumps(to) ==
  /\ cancel' = [d \in Directions |-> pc[d] \notin Ended]
  /\ phase' = to

sessionFrame == <<policy, pc, after, chunk, sentVars, lock, held, seq, job, drained, queueVars,
                  errors, wpc, cmd, diskVars, published, faults>>

\* asyncio.wait(FIRST_COMPLETED): an error cancels the opposite pump, an end of
\* stream leaves it response_timeout_sec; an exception reaches run's finally clause,
\* which cancels and gathers it there.
FirstPumpEnds ==
  /\ phase = "forwarding"
  /\ \E d \in Directions : pc[d] \in Ended
  /\ \/ /\ \E d \in Directions : pc[d] = "raised"
        /\ CancelPumps(IF AllEnded THEN "closing" ELSE "unwinding")
     \/ /\ \E d \in Directions : pc[d] = "error"
        /\ \A d \in Directions : pc[d] # "raised"
        /\ CancelPumps("closing")
     \/ /\ \A d \in Directions : pc[d] \notin {"error", "raised"}
        /\ phase' = "tail" /\ UNCHANGED cancel
  /\ UNCHANGED <<sessionFrame, shutdown, active, finalizing>>

TailTimeout ==
  /\ phase = "tail" /\ ~AllEnded
  /\ CancelPumps("closing")
  /\ UNCHANGED <<sessionFrame, shutdown, active, finalizing>>

\* ProxyServer.close cancels the session's task, once; a session that is already
\* waiting for cancelled pumps passes it on to them, and if it waits in its finally
\* clause the rest of that, recorder.finalize included, is skipped.
Shutdown ==
  /\ phase # "ended" /\ ~shutdown
  /\ shutdown' = TRUE
  /\ CancelPumps(IF phase = "unwinding" THEN "unsealed" ELSE "closing")
  /\ UNCHANGED <<sessionFrame, active, finalizing>>

\* Mutant: the seal needs room in the data queue.
FinalizeThroughQueue ==
  /\ phase \in {"tail", "closing", "unwinding"} /\ AllEnded
  /\ phase' = "ended"
  /\ active' = FALSE
  /\ finalizing' = (active /\ Len(queue) < QueueSize)
  /\ UNCHANGED <<sessionFrame, shutdown, cancel>>

\* recorder.finalize: the segment is sealed and the worker told so, out of band.
Finalize ==
  /\ phase \in {"tail", "closing", "unwinding"} /\ AllEnded
  /\ phase' = "ended"
  /\ active' = FALSE
  /\ finalizing' = active
  /\ UNCHANGED <<sessionFrame, shutdown, cancel>>

EndUnsealed ==
  /\ phase = "unsealed" /\ AllEnded
  /\ phase' = "ended"
  /\ UNCHANGED <<sessionFrame, shutdown, cancel, active, finalizing>>

-----------------------------------------------------------------------------
(* _live_worker and LiveSpoolCapture *)

workerFrame == <<policy, phase, shutdown, pumpVars, sentVars, lock, held, active, seq, drained, degraded,
                 finalizing>>

Fault == faults < MaxFaults /\ faults' = faults + 1

\* _record_storage_failure, up to its await of close_incomplete.
StorageFails ==
  /\ errors' = TRUE
  /\ job' = Incomplete(job)
  /\ cmd' = NoCommand

BeginLive ==
  /\ wpc = "begin"
  /\ \/ wpc' = "wait" /\ UNCHANGED <<errors, job, cmd, faults>>
     \/ wpc' = "failed" /\ Fault /\ StorageFails
  /\ UNCHANGED <<workerFrame, queue, diskVars, published>>

\* _next_stream_command: commands accepted before the seal come out first.
NextCommand ==
  /\ wpc = "wait" /\ queue # <<>>
  /\ wpc' = "busy"
  /\ cmd' = Head(queue) /\ queue' = Tail(queue)
  /\ UNCHANGED <<workerFrame, errors, job, diskVars, published, faults>>

\* Mutant: every event whose drain is known leaves at once.
FlushUnordered(maxi, pend, skip, force) ==
  LET out == {n \in DOMAIN pend : force \/ pend[n] # "unknown"}
  IN  /\ pending' = [n \in DOMAIN pend \ out |-> pend[n]]
      /\ timeline' = [n \in DOMAIN timeline \cup out |->
                        IF n \in out THEN pend[n] ELSE timeline[n]]
      /\ maximum' = maxi /\ skipped' = {} /\ UNCHANGED next

\* _flush_ready_timeline over the given state: events leave in sequence order, up
\* to the first whose drain is still unknown (unless forced).
Flush(maxi, pend, skip, force) ==
  LET Ready(n) == n \in skip \/ (n \in DOMAIN pend /\ (force \/ pend[n] # "unknown"))
      stop == CHOOSE n \in next..(maxi + 1) :
                /\ \A k \in next..(n - 1) : Ready(k)
                /\ n = maxi + 1 \/ ~Ready(n)
      out  == {n \in DOMAIN pend : n < stop}
  IN  /\ next' = stop
      /\ skipped' = {n \in skip : n >= stop}
      /\ pending' = [n \in DOMAIN pend \ out |-> pend[n]]
      /\ timeline' = [n \in DOMAIN timeline \cup out |->
                        IF n \in out THEN pend[n] ELSE timeline[n]]
      /\ maximum' = maxi

Written(c, n) == [i \in 1..n |-> c.from + i]

\* LiveSpoolCapture.append.  The chunk object is shared with the job: a drain marked
\* meanwhile is already in it.
AppendRaw ==
  /\ wpc = "busy" /\ cmd.op = "append" /\ cmd.seq = maximum + 1
  /\ raw' = [raw EXCEPT ![cmd.dir] = @ \o Written(cmd, cmd.len)]
  /\ \/ /\ cmd.listed
        /\ Flush(cmd.seq,
                 [n \in DOMAIN pending \cup {cmd.seq} |->
                    IF n = cmd.seq THEN drained[n] ELSE pending[n]],
                 skipped, FALSE)
     \/ ~cmd.listed /\ Flush(cmd.seq, pending, skipped \cup {cmd.seq}, FALSE)
  /\ wpc' = "wait" /\ cmd' = NoCommand
  /\ UNCHANGED <<workerFrame, errors, job, queue, published, faults>>

\* LiveSpoolCapture.mark_local_write_drain; an event already written or never listed
\* is left alone.
MarkDrain ==
  /\ wpc = "busy" /\ cmd.op = "drain"
  /\ \/ /\ cmd.seq \in DOMAIN pending
        /\ Flush(maximum,
                 [pending EXCEPT ![cmd.seq] = IF cmd.completed THEN "completed" ELSE "failed"],
                 skipped, FALSE)
     \/ cmd.seq \notin DOMAIN pending /\ UNCHANGED <<maximum, pending, skipped, next, timeline>>
  /\ wpc' = "wait" /\ cmd' = NoCommand
  /\ UNCHANGED <<workerFrame, errors, job, queue, raw, published, faults>>

\* Mutant: a write that failed is tried again from its first byte.
CommandFailsRetried ==
  /\ wpc = "busy" /\ cmd.op = "append" /\ cmd.seq = maximum + 1 /\ Fault
  /\ \E n \in 0..cmd.len : raw' = [raw EXCEPT ![cmd.dir] = @ \o Written(cmd, n)]
  /\ UNCHANGED <<workerFrame, errors, job, wpc, cmd, queue, maximum, pending, skipped, next,
                 timeline, published>>

\* A gap in the sequence, or a write that fails after some of its bytes.
CommandFails ==
  /\ wpc = "busy"
  /\ \/ /\ cmd.op = "append" /\ cmd.seq # maximum + 1
        /\ UNCHANGED <<raw, faults>>
     \/ /\ cmd.op = "append" /\ cmd.seq = maximum + 1 /\ Fault
        /\ \E n \in 0..cmd.len : raw' = [raw EXCEPT ![cmd.dir] = @ \o Written(cmd, n)]
     \/ /\ cmd.op = "drain" /\ Fault
        /\ UNCHANGED raw
  /\ StorageFails
  /\ wpc' = "cleanup"
  /\ UNCHANGED <<workerFrame, queue, maximum, pending, skipped, next, timeline, published>>

\* Mutant: a degraded capture is published like any other.
SealAnyway ==
  /\ wpc = "wait" /\ finalizing /\ queue = <<>>
  /\ wpc' = "publish"
  /\ UNCHANGED <<workerFrame, queue, errors, job, cmd, diskVars, published, faults>>

\* The queue is sealed and empty: a degraded capture is closed, never published.
Seal ==
  /\ wpc = "wait" /\ finalizing /\ queue = <<>>
  /\ wpc' = IF degraded THEN "abandon" ELSE "publish"
  /\ UNCHANGED <<workerFrame, queue, errors, job, cmd, diskVars, published, faults>>

Status == IF job.capture_complete /\ job.timeline_complete
          THEN "ready" ELSE "ready_capture_incomplete"

\* LiveSpoolCapture.finalize: the rename of the directory publishes it.
Publish ==
  /\ wpc = "publish"
  /\ Flush(maximum, pending, skipped, TRUE)
  /\ published' = Status
  /\ wpc' = "published"
  /\ UNCHANGED <<workerFrame, queue, errors, job, cmd, raw, faults>>

\* It raises before the rename, or in the fsync after it.
PublishFails ==
  /\ wpc = "publish" /\ Fault
  /\ Flush(maximum, pending, skipped, TRUE)
  /\ published' \in {"no", Status}
  /\ StorageFails
  /\ wpc' = "cleanup"
  /\ UNCHANGED <<workerFrame, queue, raw>>

\* close_incomplete writes no manifest and no .ready.
CloseIncomplete ==
  /\ wpc \in {"abandon", "cleanup"}
  /\ wpc' = IF wpc = "abandon" THEN "incomplete" ELSE "failed"
  /\ UNCHANGED <<workerFrame, queue, errors, job, cmd, diskVars, published, faults>>

\* close()'s second grace is over: the persistence task is cancelled and the worker with
\* it, which closes nothing.  A call that its thread has begun still runs to its end,
\* here before the cancellation; one that waits for a thread is dropped.
WorkerCancelled ==
  /\ phase = "ended"
  /\ wpc \in {"begin", "wait", "busy", "publish", "abandon", "cleanup"}
  /\ wpc' = "cancelled" /\ cmd' = NoCommand
  /\ UNCHANGED <<workerFrame, queue, errors, job, diskVars, published, faults>>

-----------------------------------------------------------------------------
\* What the event loop runs whatever the disk does.
Relay(d) == DrainEnds(d) \/ LockForRecord(d) \/ LockForMark(d) \/ PutAccepted(d) \/ Cancelled(d)

Session == FirstPumpEnds \/ TailTimeout \/ Finalize \/ EndUnsealed

\* The worker's steps wait for a thread, hence for the disk.
Worker ==
  \/ BeginLive \/ NextCommand \/ AppendRaw \/ MarkDrain \/ CommandFails
  \/ Seal \/ Publish \/ PublishFails \/ CloseIncomplete

Next ==
  \/ \E d \in Directions : Forward(d) \/ StreamEnds(d) \/ Relay(d)
  \/ Session
  \/ Shutdown
  \/ Worker \/ WorkerCancelled

Spec == Init /\ [][Next]_vars

\* The event loop runs every task that can run; a drain ends within
\* connection_timeout_sec and a tail within response_timeout_sec.  Peers need not
\* send or close, and nothing is assumed of the disk.
Fairness == (\A d \in Directions : WF_vars(Relay(d))) /\ WF_vars(Session)
FairSpec == Spec /\ Fairness

DiskWorks == WF_vars(Worker)

-----------------------------------------------------------------------------
(* Properties *)

Bytes(n) == [i \in 1..n |-> i]

\* A capture published as "ready" is the whole conversation: each RAW file holds
\* every byte that was written to the peer, in order, and the timeline every chunk
\* with the outcome of its drain, although chunks, drains, cancellations, queue
\* overflow and storage errors interleave (record, mark_local_write_drain,
\* LiveSpoolCapture.finalize).  ARCHITECTURE.md: "Neither policy permits truncated
\* bytes to be presented as complete evidence."
EvidenceComplete ==
  published = "ready" =>
    /\ \A d \in Directions : raw[d] = Bytes(sent[d])
    /\ timeline = [n \in 1..seq |-> drained[n]]

\* It is so under the default policy.
ReadyIsComplete == policy = "continue" => EvidenceComplete

\* Whatever was lost, the RAW files are prefixes of what was forwarded: after an
\* evidence gap nothing later is stored (CapturedJob.append, _mark_capture_degraded,
\* the contiguity test of LiveSpoolCapture.append).
RawIsPrefix ==
  \A d \in Directions : Len(raw[d]) <= sent[d] /\ raw[d] = Bytes(Len(raw[d]))

\* A published capture, "ready_capture_incomplete" included, lacks only the bytes
\* beyond MAX_PAYLOAD_BYTES: one degraded by a full queue or hit by a storage error
\* is never published (_live_worker, close_incomplete).  Default policy.
PublishedLacksOnlyOverflow ==
  LET stored == Len(raw[ClientToRch]) + Len(raw[RchToClient])
      total  == sent[ClientToRch] + sent[RchToClient]
  IN  published # "no" /\ policy = "continue" =>
        stored = IF total < MaxPayload THEN total ELSE MaxPayload

\* Events enter the timeline in the order of their reception, although the drains
\* of the two directions complete in any order (_flush_ready_timeline).
TimelineInOrder == \A n \in DOMAIN timeline, m \in DOMAIN pending : n < m

\* A pump goes on although the session has cancelled it and gathers it, without a timeout.
CancellationLost ==
  phase = "closing" /\ \E d \in Directions : pc[d] \in {"read", "drain"} /\ ~cancel[d]

\* Under the default policy, once a pump has ended or was cancelled the session ends,
\* sockets closed and device released, even if the disk hangs for ever
\* (_enqueue_stream: "without adding storage latency"; finalize: "cannot hold
\* connection teardown").  The peers need do nothing for it, unless asyncio lost the
\* cancellation of a pump: then the session ends when that pump's peer leaves.
TeardownNeedsNoDisk ==
  []<>~CancellationLost =>
    (policy = "continue" /\ (phase = "closing" \/ \E d \in Directions : pc[d] \in Ended)
       ~> phase = "ended")

\* Under the default policy, when the disk does answer, the capture of an ended
\* session is published or closed as incomplete, a full queue and a seal racing the
\* last command included (finalize, _next_stream_command), unless close() gives up on
\* it after its second grace.
EventuallyStored ==
  DiskWorks =>
    (policy = "continue" /\ phase = "ended" /\ wpc # "none"
       ~> wpc \in {"published", "incomplete", "failed", "cancelled"})

\* Under "abort" a storage failure reaches a session that is waiting for the spool
\* (_enqueue_stream: "``abort`` is intentionally allowed to apply backpressure and
\* stop the session").
StorageFailureStopsSession ==
  errors /\ (\E d \in Directions : pc[d] \in Blocked) ~> phase = "ended"

-----------------------------------------------------------------------------
(* The inductive invariant behind RawIsPrefix, TimelineInOrder,            *)
(* ReadyIsComplete and PublishedLacksOnlyOverflow.                         *)

\* Commands between the recorder and the end of their execution.
InFlight == {c \in {queue[i] : i \in 1..Len(queue)} \cup {cmd, held} : c.op # "none"}
Appends  == {c \in InFlight : c.op = "append"}
Drains   == {c \in InFlight : c.op = "drain"}

\* The recorder's lock is held across a suspended put, and only "abort" suspends.
LockInv ==
  /\ \A d \in Directions : lock = d <=> pc[d] \in {"put", "mark_put"}
  /\ lock = Free <=> held = NoCommand
  /\ policy = "continue" => \A d \in Directions : pc[d] \notin Blocked \cup {"raised"}

\* A chunk is marked once: until then its drain is unknown, and it is one pump's.
Unmarked(d) == pc[d] \in {"put", "drain", "mark_lock"}
ChunkInv ==
  /\ \A d \in Directions :
       Unmarked(d) => chunk[d].seq \in 1..seq /\ drained[chunk[d].seq] = "unknown"
  /\ \A d, e \in Directions :
       d # e /\ Unmarked(d) /\ Unmarked(e) => chunk[d].seq # chunk[e].seq
  /\ \A n \in Seqs : n > seq => drained[n] = "unknown"
  /\ \A d \in Directions : pc[d] = "lock" => chunk[d].len > 0

\* Every numbered chunk was read; one that waits for the lock has no number yet.
Waiting(d) == IF pc[d] = "lock" THEN 1 ELSE 0
CountInv == seq + Waiting(ClientToRch) + Waiting(RchToClient) <= chunks

\* One job per connection: nothing is recorded after the seal.
SealInv ==
  /\ phase = "ended" => AllEnded
  /\ phase # "ended" => ~finalizing /\ (active \/ wpc = "none")

\* The worker holds a command while its thread executes it, stops at the first error,
\* and publishes only what is sealed, drained and not degraded.
WorkerInv ==
  /\ cmd = NoCommand <=> wpc # "busy"
  /\ wpc \in {"cleanup", "failed"} => errors
  /\ errors => wpc \in {"cleanup", "failed", "cancelled"}
  /\ wpc = "cancelled" => phase = "ended"
  /\ wpc \in {"publish", "abandon", "published", "incomplete"} \/ published # "no" => finalizing
  /\ wpc \in {"publish", "published"} => ~degraded /\ queue = <<>>
  /\ published # "no" => wpc \in {"published", "cleanup", "failed", "cancelled"}

\* Every appended chunk is in the timeline file, or skipped, or pending behind those.
TimelineInv ==
  /\ maximum <= seq /\ next <= maximum + 1
  /\ \A n \in DOMAIN timeline : n < next
  /\ DOMAIN pending \cup skipped = next..maximum /\ DOMAIN pending \cap skipped = {}

\* The spool has the outcome of a drain from the chunk or from its command, and writes an
\* event without one only when it publishes.
Outcome(c) == IF c.completed THEN "completed" ELSE "failed"
DrainInv ==
  /\ \A n \in DOMAIN pending : pending[n] \in {"unknown", drained[n]}
  /\ wpc \in {"none", "begin", "wait", "busy", "publish"} =>
       \A n \in DOMAIN timeline : timeline[n] = drained[n] /\ timeline[n] # "unknown"
  /\ \A c \in Drains : c.seq \in 1..seq /\ drained[c.seq] = Outcome(c)

\* By default nothing is lost on the way to the spool, unless the capture says so.
NothingLost ==
  policy = "continue" /\ ~degraded /\ ~errors /\ wpc # "cancelled" =>
    /\ \A n \in (maximum + 1)..seq : \E c \in Appends : c.seq = n
    /\ \A n \in DOMAIN pending :
         pending[n] # drained[n] => \E c \in Drains : c.seq = n

\* While the job calls itself complete, every chunk has its event.
ListedInv ==
  job.capture_complete /\ job.timeline_complete =>
    /\ \A c \in Appends : c.listed
    /\ skipped = {} /\ DOMAIN timeline = 1..(next - 1)

Total(f) == f[ClientToRch] + f[RchToClient]
Size     == [d \in Directions |-> Len(raw[d])]

\* pos[n][d] bytes of direction d were recorded up to chunk n, and the chunks up to
\* `full` were kept whole; the next one was cut at MAX_PAYLOAD_BYTES.
Kind(pos, full) ==
  /\ pos \in [0..seq -> [Directions -> Nat]] /\ full \in 0..seq
  /\ \A d \in Directions : pos[0][d] = 0
  /\ \A n \in 0..seq : \A m \in 0..n : \A d \in Directions : pos[m][d] <= pos[n][d]

CommandsFit(pos, full) ==
  \A c \in Appends :
    /\ c.seq \in 1..seq
    /\ c.from = pos[c.seq - 1][c.dir] /\ c.from + c.len <= pos[c.seq][c.dir]
    /\ \A e \in Directions \ {c.dir} : pos[c.seq][e] = pos[c.seq - 1][e]
    /\ c.seq <= full => c.from + c.len = pos[c.seq][c.dir]
    /\ c.seq = full + 1 => c.len = MaxPayload - Total(pos[full])
    /\ c.seq > full + 1 => c.len = 0

JobFits(pos, full) ==
  /\ full = seq => job.stored = Total(pos[seq])
  /\ full < seq => job.stored = MaxPayload /\ ~job.capture_complete /\ MaxPayload <= Total(pos[seq])

PumpsFit(pos) ==
  \A d \in Directions :
    /\ pos[seq][d] <= sent[d]
    /\ pc[d] = "lock" => chunk[d].from = pos[seq][d] /\ sent[d] = pos[seq][d] + chunk[d].len
    /\ policy = "continue" \/ pc[d] \notin {"lock", "raised", "cancelled"} => sent[d] = pos[seq][d]

RawFits(pos, full) ==
  /\ \A d \in Directions : Len(raw[d]) <= pos[seq][d] /\ raw[d] = Bytes(Len(raw[d]))
  /\ ~errors => IF maximum <= full THEN \A d \in Directions : Len(raw[d]) = pos[maximum][d]
                ELSE Total(Size) = MaxPayload

History(pos, full) ==
  Kind(pos, full) /\ CommandsFit(pos, full) /\ JobFits(pos, full) /\ PumpsFit(pos) /\ RawFits(pos, full)

HistoryInv == \E pos, full : History(pos, full)

ControlInv == LockInv /\ ChunkInv /\ CountInv /\ SealInv /\ WorkerInv
SpoolInv   == TimelineInv /\ DrainInv /\ NothingLost /\ ListedInv

Inv ==
  /\ TypeOK /\ ControlInv /\ SpoolInv /\ HistoryInv
  /\ ReadyIsComplete /\ PublishedLacksOnlyOverflow
=============================================================================
