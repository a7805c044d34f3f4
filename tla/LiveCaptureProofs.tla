------------------------- MODULE LiveCaptureProofs -------------------------
(***************************************************************************)
(* What a live capture stores is what was forwarded, in order, and what it *)
(* publishes as complete is complete: for any number of chunks, any sizes, *)
(* any queue and any limits.                                               *)
(***************************************************************************)
EXTENDS LiveCapture, SequenceTheorems, WellFoundedInduction, TLAPS

Below == {ss \in Nat \X Nat : ss[1] < ss[2]}

\* A nonempty set of sequence numbers has a least element.
LEMMA LeastNumber ==
  ASSUME NEW S \in SUBSET Nat, S # {} PROVE \E x \in S : \A y \in S : x <= y
<1>1. IsWellFoundedOn(Below, Nat) BY NatLessThanWellFounded, Zenon DEF OpToRel, Below
<1>2. \E x \in S : \A y \in S : ~(<<y, x>> \in Below) BY <1>1, WFMin, Zenon
<1>3. PICK x \in S : \A y \in S : ~(<<y, x>> \in Below) BY <1>2
<1>4. ASSUME NEW y \in S PROVE x <= y
  <2>1. x \in Nat /\ y \in Nat /\ <<y, x>> \notin Below BY <1>3
  <2> QED BY <2>1 DEF Below
<1> QED BY <1>4

FlushReady(pend, skip, force, n) ==
  n \in skip \/ (n \in DOMAIN pend /\ (force \/ pend[n] # "unknown"))

LEMMA InFlightIs ==
  ASSUME NEW c
  PROVE  c \in InFlight <=>
           c.op # "none" /\ (c = cmd \/ c = held \/ \E i \in 1..Len(queue) : queue[i] = c)
BY DEF InFlight

\* A command appended to the queue joins those in flight.
LEMMA AppendCommandEffect ==
  ASSUME TypeOK, NEW c \in Command
  PROVE  /\ Append(queue, c) \in Seq(Command) /\ Len(Append(queue, c)) = Len(queue) + 1
         /\ \A x : (\E i \in 1..Len(Append(queue, c)) : Append(queue, c)[i] = x)
                     <=> x = c \/ \E i \in 1..Len(queue) : queue[i] = x
<1>1. queue \in Seq(Command) BY DEF TypeOK
<1> HIDE DEF Command
<1>2. Append(queue, c) \in Seq(Command) /\ Len(Append(queue, c)) = Len(queue) + 1 /\ Len(queue) \in Nat
  BY <1>1
<1>3. \A i \in 1..(Len(queue) + 1) :
        Append(queue, c)[i] = IF i <= Len(queue) THEN queue[i] ELSE c
  BY <1>1
<1>4. Append(queue, c)[Len(queue) + 1] = c /\ Len(queue) + 1 \in 1..(Len(queue) + 1) BY <1>2, <1>3
<1>5. \A i \in 1..Len(queue) : i \in 1..(Len(queue) + 1) /\ Append(queue, c)[i] = queue[i]
  BY <1>2, <1>3
<1>6. \A i \in 1..(Len(queue) + 1) : i \in 1..Len(queue) \/ i = Len(queue) + 1 BY <1>2
<1> QED BY <1>2, <1>4, <1>5, <1>6

LEMMA CommandOp == \A c \in Command : c.op \in {"append", "drain"} /\ c # NoCommand
<1>1. NoCommand.op = "none" BY DEF NoCommand
<1> QED BY <1>1 DEF Command, AppendCommand, DrainCommand

\* _enqueue_stream: the command is queued, or dropped with a trace, or waits in the
\* hands of the lock's holder.
LEMMA EnqueueEffect ==
  ASSUME TypeOK, NEW d \in Directions, NEW j, NEW command \in Command, NEW onward, NEW blocked,
         held = NoCommand, cmd' = cmd, policy \in {"continue", "abort"},
         Enqueue(d, j, command, onward, blocked)
  PROVE  /\ queue' \in Seq(Command) /\ Len(queue') <= QueueSize
         /\ InFlight \subseteq InFlight' /\ InFlight' \subseteq InFlight \cup {command}
         /\ policy = "continue" /\ ~degraded' /\ ~errors => command \in InFlight'
         /\ job' = j \/ job' = Incomplete(j)
         /\ degraded' \in BOOLEAN /\ (degraded => degraded')
         /\ \/ pc' = [pc EXCEPT ![d] = onward] /\ lock' = lock /\ held' = held
            \/ /\ pc' = [pc EXCEPT ![d] = blocked] /\ lock' = d /\ held' = command
               /\ policy = "abort"
<1> USE LiveCaptureAssumption
<1>0. Len(queue) \in Nat /\ Len(queue) <= QueueSize /\ queue \in Seq(Command) BY DEF TypeOK
<1>1. CASE errors \/ degraded
  <2>1. /\ job' = j /\ pc' = [pc EXCEPT ![d] = onward] /\ UNCHANGED <<queue, degraded, lock, held>>
    BY <1>1 DEF Enqueue
  <2>2. InFlight' = InFlight BY <2>1 DEF InFlight
  <2> QED BY <1>0, <1>1, <2>1, <2>2 DEF TypeOK
<1>2. CASE ~errors /\ ~degraded /\ ~(Len(queue) >= QueueSize)
  <2>1. /\ queue' = Append(queue, command) /\ job' = j /\ pc' = [pc EXCEPT ![d] = onward]
        /\ UNCHANGED <<degraded, lock, held>>
    BY <1>2 DEF Enqueue
  <2>2. /\ queue' \in Seq(Command) /\ Len(queue') = Len(queue) + 1
        /\ \A x : (\E i \in 1..Len(queue') : queue'[i] = x)
                    <=> x = command \/ \E i \in 1..Len(queue) : queue[i] = x
    BY <2>1, AppendCommandEffect
  <2>3. Len(queue') <= QueueSize BY <1>0, <1>2, <2>2
  <2>4. \A x : x \in InFlight' <=>
          x.op # "none" /\ (x = cmd \/ x = held \/ \E i \in 1..Len(queue') : queue'[i] = x)
    BY <2>1 DEF InFlight
  <2>5. \A x : x \in InFlight' <=> x \in InFlight \/ (x.op # "none" /\ x = command)
    BY <2>2, <2>4, InFlightIs
  <2>6. command \in InFlight' /\ InFlight \subseteq InFlight' /\ InFlight' \subseteq InFlight \cup {command}
    BY <2>5, CommandOp
  <2> QED BY <1>2, <2>1, <2>2, <2>3, <2>6 DEF TypeOK
<1>3. CASE ~errors /\ ~degraded /\ Len(queue) >= QueueSize /\ policy = "continue"
  <2>1. /\ job' = Incomplete(j) /\ pc' = [pc EXCEPT ![d] = onward] /\ degraded' = TRUE
        /\ UNCHANGED <<queue, lock, held>>
    BY <1>3 DEF Enqueue
  <2>2. InFlight' = InFlight BY <2>1 DEF InFlight
  <2> QED BY <1>0, <2>1, <2>2
<1>4. CASE ~errors /\ ~degraded /\ Len(queue) >= QueueSize /\ policy = "abort"
  <2>1. /\ job' = j /\ pc' = [pc EXCEPT ![d] = blocked] /\ lock' = d /\ held' = command
        /\ UNCHANGED <<queue, degraded>>
    BY <1>4 DEF Enqueue
  <2>2. \A x : x \in InFlight' <=>
          x.op # "none" /\ (x = cmd \/ x = command \/ \E i \in 1..Len(queue) : queue[i] = x)
    BY <2>1 DEF InFlight
  <2>3. NoCommand.op = "none" BY DEF NoCommand
  <2>4. InFlight \subseteq InFlight' /\ InFlight' \subseteq InFlight \cup {command}
    BY <2>2, <2>3, InFlightIs
  <2> QED BY <1>0, <1>4, <2>1, <2>4 DEF TypeOK
<1> QED BY <1>1, <1>2, <1>3, <1>4

-----------------------------------------------------------------------------
(* The steps of a pump, by what they do to the recorder.                   *)

pumpFrame == <<policy, phase, shutdown, errors, finalizing, cmd, diskVars, published, faults>>
DrainNext == {"read", "error", "cancelled"}
ReadBytes(d, n) ==
  n \in Sizes /\ chunks < MaxChunks /\ chunks' = chunks + 1 /\ sent' = [sent EXCEPT ![d] = sent[d] + n]

From(d) == IF pc[d] = "lock" THEN chunk[d].from ELSE sent[d]
AppendOf(d, n) ==
  [op |-> "append", seq |-> seq + 1, dir |-> d, from |-> From(d), len |-> Kept(n), listed |-> Listed(n)]
DrainOf(d, completed) == [op |-> "drain", seq |-> chunk[d].seq, completed |-> completed]

\* A chunk is numbered, counted and queued.
RecordStep(d, n) ==
  /\ lock = Free
  /\ \/ pc[d] = "read" /\ ReadBytes(d, n)
     \/ pc[d] = "lock" /\ n = chunk[d].len /\ UNCHANGED sentVars
  /\ active' = TRUE /\ wpc' = (IF active THEN wpc ELSE "begin") /\ seq' = seq + 1
  /\ chunk' = [chunk EXCEPT ![d] = [seq |-> seq + 1, from |-> From(d), len |-> n]]
  /\ Enqueue(d, Captured(n), AppendOf(d, n), "drain", "put")
  /\ UNCHANGED <<drained, cancel, after>>

\* The outcome of its drain is marked and queued.
MarkStep(d, completed, onward) ==
  /\ lock = Free /\ pc[d] \in {"drain", "mark_lock"}
  /\ onward \in DrainNext \/ (onward = "raised" /\ policy = "abort")
  /\ drained' = [drained EXCEPT ![chunk[d].seq] = IF completed THEN "completed" ELSE "failed"]
  /\ Enqueue(d, job, DrainOf(d, completed), onward, "mark_put")
  /\ cancel' \in [Directions -> BOOLEAN] /\ after' \in [Directions -> DrainNext]
  /\ UNCHANGED <<active, seq, chunk, sentVars, wpc>>

\* The pump moves on and the recorder is not involved, or loses what it waited to queue.
MoveStep(d, l) ==
  /\ pc' = [pc EXCEPT ![d] = l]
  /\ cancel' \in [Directions -> BOOLEAN] /\ after' \in [Directions -> DrainNext]
  /\ \/ /\ pc[d] = "read" /\ l = "lock" /\ policy = "abort" /\ UNCHANGED <<lock, held>>
        /\ \E n \in Sizes : /\ ReadBytes(d, n)
                            /\ chunk' = [chunk EXCEPT ![d] = [seq |-> 0, from |-> sent[d], len |-> n]]
     \/ /\ pc[d] \in {"read", "lock"} /\ l = "raised" /\ policy = "abort" /\ UNCHANGED <<lock, held>>
        /\ chunk' = [chunk EXCEPT ![d] = NoChunk]
        /\ UNCHANGED sentVars \/ \E n \in Sizes : ReadBytes(d, n)
     \/ /\ pc[d] = "drain" /\ l = "mark_lock" /\ policy = "abort"
        /\ UNCHANGED <<chunk, sentVars, lock, held>>
     \/ /\ pc[d] = "read" /\ l \in {"eof", "error"} /\ UNCHANGED <<chunk, sentVars, lock, held>>
     \/ /\ pc[d] \in {"read"} \cup Blocked /\ l = "cancelled"
        /\ lock' = (IF lock = d THEN Free ELSE lock) /\ held' = (IF lock = d THEN NoCommand ELSE held)
        /\ UNCHANGED <<chunk, sentVars>>
  /\ UNCHANGED <<jobVars, queueVars, wpc>>

PumpStep(d) ==
  \/ \E n \in Nat : RecordStep(d, n)
  \/ \E completed \in BOOLEAN, onward \in DrainNext \cup {"raised"} : MarkStep(d, completed, onward)
  \/ PutAccepted(d)
  \/ \E l \in {"lock", "raised", "mark_lock", "eof", "error", "cancelled"} : MoveStep(d, l)

LEMMA Policy == ASSUME TypeOK PROVE policy \in {"continue", "abort"}
BY LiveCaptureAssumption DEF TypeOK

\* By default the lock is never held across a suspension, so it can always be taken.
LEMMA DefaultLocks ==
  ASSUME TypeOK, LockInv, NEW d \in Directions, ~CanLock(d) PROVE policy = "abort"
BY Policy, LiveCaptureAssumption DEF LockInv, CanLock, Blocked, TypeOK

MarkOnward(onward) == IF AbortOnError THEN "raised" ELSE onward

LEMMA MarkForm ==
  ASSUME NEW d \in Directions, NEW completed \in BOOLEAN, NEW onward \in DrainNext,
         CanLock(d), Mark(d, completed, onward), pc[d] \in {"drain", "mark_lock"},
         cancel' \in [Directions -> BOOLEAN], after' \in [Directions -> DrainNext],
         UNCHANGED <<chunk, sentVars, wpc>>
  PROVE  MarkStep(d, completed, MarkOnward(onward))
<1>1. MarkOnward(onward) \in DrainNext \/ (MarkOnward(onward) = "raised" /\ policy = "abort")
  BY DEF MarkOnward, AbortOnError
<1>2. Enqueue(d, job, DrainOf(d, completed), MarkOnward(onward), "mark_put")
  BY DEF Mark, DrainOf, MarkOnward
<1>3. drained' = [drained EXCEPT ![chunk[d].seq] = IF completed THEN "completed" ELSE "failed"]
  BY DEF Mark
<1> QED BY <1>1, <1>2, <1>3 DEF Mark, MarkStep, CanLock

\* Every step of a pump is one of these.
LEMMA PumpCases ==
  ASSUME TypeOK, LockInv, NEW d \in Directions, Forward(d) \/ StreamEnds(d) \/ Relay(d)
  PROVE  PumpStep(d) /\ UNCHANGED pumpFrame
<1> USE DEF pumpFrame
<1>0. \A n \in Sizes : n \in Nat BY LiveCaptureAssumption
<1>1. CASE Forward(d)
  <2>1. PICK n \in Sizes :
          /\ ReadBytes(d, n) /\ pc[d] = "read"
          /\ \/ CanLock(d) /\ Record(d, sent[d], n)
             \/ /\ ~CanLock(d)
                /\ pc' = [pc EXCEPT ![d] = "lock"]
                /\ chunk' = [chunk EXCEPT ![d] = [seq |-> 0, from |-> sent[d], len |-> n]]
                /\ UNCHANGED <<jobVars, queueVars, lock, held, wpc>>
    BY <1>1 DEF Forward, ReadBytes
  <2>2. cancel' \in [Directions -> BOOLEAN] /\ after' \in [Directions -> DrainNext] /\ UNCHANGED <<cancel, after>>
    BY <1>1 DEF Forward, TypeOK, DrainNext
  <2>3. UNCHANGED pumpFrame BY <1>1 DEF Forward
  <2>4. CASE CanLock(d) /\ AbortOnError
    <3>1. MoveStep(d, "raised")
      BY <2>1, <2>2, <2>4 DEF Record, MoveStep, AbortOnError
    <3> QED BY <2>3, <3>1 DEF PumpStep
  <2>5. CASE CanLock(d) /\ ~AbortOnError
    <3>0. From(d) = sent[d] BY <2>1 DEF From
    <3>1. RecordStep(d, n)
      BY <2>1, <2>2, <2>5, <3>0 DEF Record, RecordStep, CanLock, AppendOf
    <3> QED BY <1>0, <2>3, <3>1 DEF PumpStep
  <2>6. CASE ~CanLock(d)
    <3>1. MoveStep(d, "lock") BY <2>1, <2>2, <2>6, DefaultLocks DEF MoveStep
    <3> QED BY <2>3, <3>1 DEF PumpStep
  <2> QED BY <2>4, <2>5, <2>6
<1>2. CASE LockForRecord(d)
  <2>1. /\ pc[d] = "lock" /\ CanLock(d) /\ Record(d, chunk[d].from, chunk[d].len)
        /\ UNCHANGED <<cancel, after, sentVars>>
    BY <1>2 DEF LockForRecord
  <2>2. cancel' \in [Directions -> BOOLEAN] /\ after' \in [Directions -> DrainNext] /\ chunk[d].len \in Nat
    BY <2>1 DEF TypeOK, DrainNext, Chunk
  <2>3. UNCHANGED pumpFrame BY <1>2 DEF LockForRecord
  <2>4. CASE AbortOnError
    <3>1. MoveStep(d, "raised")
      BY <2>1, <2>2, <2>4 DEF Record, MoveStep, AbortOnError
    <3> QED BY <2>3, <3>1 DEF PumpStep
  <2>5. CASE ~AbortOnError
    <3>0. From(d) = chunk[d].from BY <2>1 DEF From
    <3>1. RecordStep(d, chunk[d].len)
      BY <2>1, <2>5, <3>0 DEF Record, RecordStep, CanLock, AppendOf
    <3> QED BY <2>2, <2>3, <3>1 DEF PumpStep
  <2> QED BY <2>4, <2>5
<1>3. ASSUME NEW onward \in DrainNext, EndDrain(d, onward), cancel' \in [Directions -> BOOLEAN]
      PROVE  PumpStep(d) /\ UNCHANGED pumpFrame
  <2>1. /\ pc[d] = "drain" /\ after' \in [Directions -> DrainNext]
        /\ UNCHANGED <<chunk, sentVars, wpc>> /\ UNCHANGED pumpFrame
    BY <1>3 DEF EndDrain, TypeOK, DrainNext
  <2>2. CASE CanLock(d)
    <3>0. Mark(d, onward = "read", onward) BY <1>3, <2>2 DEF EndDrain
    <3>1. MarkStep(d, onward = "read", MarkOnward(onward))
      BY <1>3, <2>1, <2>2, <3>0, MarkForm
    <3> QED BY <2>1, <3>1 DEF PumpStep, MarkOnward
  <2>3. CASE ~CanLock(d)
    <3>1. MoveStep(d, "mark_lock")
      BY <1>3, <2>1, <2>3, DefaultLocks DEF EndDrain, MoveStep
    <3> QED BY <2>1, <3>1 DEF PumpStep
  <2> QED BY <2>2, <2>3
<1>4. CASE DrainEnds(d) BY <1>3, <1>4 DEF DrainEnds, TypeOK, DrainNext
<1>5. CASE LockForMark(d)
  <2>1. /\ pc[d] = "mark_lock" /\ CanLock(d) /\ Mark(d, after[d] = "read", after[d])
        /\ UNCHANGED <<chunk, sentVars, wpc>> /\ UNCHANGED pumpFrame
    BY <1>5 DEF LockForMark
  <2>2. cancel' \in [Directions -> BOOLEAN] /\ after' \in [Directions -> DrainNext] /\ after[d] \in DrainNext
    BY <1>5 DEF LockForMark, TypeOK, DrainNext
  <2>3. MarkStep(d, after[d] = "read", MarkOnward(after[d]))
    BY <2>1, <2>2, MarkForm
  <2> QED BY <2>1, <2>2, <2>3 DEF PumpStep, MarkOnward
<1>6. CASE PutAccepted(d) BY <1>6 DEF PutAccepted, PumpStep
<1>7. CASE StreamEnds(d)
  <2>1. \E l \in {"eof", "error"} : MoveStep(d, l)
    BY <1>7 DEF StreamEnds, MoveStep, TypeOK, DrainNext
  <2>2. UNCHANGED pumpFrame BY <1>7 DEF StreamEnds
  <2> QED BY <2>1, <2>2 DEF PumpStep
<1>8. CASE Cancelled(d)
  <2>1. cancel' \in [Directions -> BOOLEAN] BY <1>8 DEF Cancelled, TypeOK
  <2>2. CASE \E onward \in WaitForOutcomes : EndDrain(d, onward)
    BY <1>3, <2>1, <2>2 DEF DrainNext, WaitForOutcomes
  <2>3. CASE ~\E onward \in WaitForOutcomes : EndDrain(d, onward)
    <3>1. MoveStep(d, "cancelled")
      BY <1>8, <2>1, <2>3 DEF Cancelled, MoveStep, TypeOK, DrainNext
    <3>2. UNCHANGED pumpFrame BY <1>8, <2>3 DEF Cancelled
    <3> QED BY <3>1, <3>2 DEF PumpStep
  <2> QED BY <2>2, <2>3
<1> QED BY <1>1, <1>2, <1>4, <1>5, <1>6, <1>7, <1>8 DEF Relay

-----------------------------------------------------------------------------
(* Types and control.                                                      *)

JobType == [stored : 0..MaxPayload, events : 0..MaxEvents,
            capture_complete : BOOLEAN, timeline_complete : BOOLEAN]

LEMMA IncompleteType ==
  ASSUME NEW j \in JobType
  PROVE  /\ Incomplete(j) \in JobType /\ ~Incomplete(j).capture_complete
         /\ Incomplete(j).stored = j.stored
BY DEF Incomplete, JobType

\* CapturedJob.append keeps the job within its limits.
LEMMA CapturedType ==
  ASSUME TypeOK, NEW n \in Nat
  PROVE  /\ Captured(n) \in JobType /\ Kept(n) \in 0..n /\ Listed(n) \in BOOLEAN
         /\ job.stored \in 0..MaxPayload
         /\ Captured(n).stored = job.stored + Kept(n)
         /\ Captured(n).capture_complete = (job.capture_complete /\ Kept(n) = n)
         /\ Captured(n).timeline_complete = (job.timeline_complete /\ (Kept(n) > 0 => Listed(n)))
<1> USE LiveCaptureAssumption
<1>1. /\ job.stored \in 0..MaxPayload /\ job.events \in 0..MaxEvents
      /\ job.capture_complete \in BOOLEAN /\ job.timeline_complete \in BOOLEAN
  BY DEF TypeOK
<1>2. Kept(n) \in 0..n /\ job.stored + Kept(n) \in 0..MaxPayload BY <1>1 DEF Kept
<1>3. Listed(n) \in BOOLEAN BY DEF Listed
<1>4. (IF Listed(n) THEN job.events + 1 ELSE job.events) \in 0..MaxEvents
  BY <1>1 DEF Listed
<1>5. (job.capture_complete /\ Kept(n) = n) \in BOOLEAN
      /\ (job.timeline_complete /\ (Kept(n) > 0 => Listed(n))) \in BOOLEAN
  BY <1>1
<1>6. /\ Captured(n).stored = job.stored + Kept(n)
      /\ Captured(n).capture_complete = (job.capture_complete /\ Kept(n) = n)
      /\ Captured(n).timeline_complete = (job.timeline_complete /\ (Kept(n) > 0 => Listed(n)))
  BY DEF Captured
<1>7. Captured(n) \in JobType BY <1>2, <1>4, <1>5 DEF Captured, JobType
<1> QED BY <1>1, <1>2, <1>3, <1>6, <1>7

\* A chunk that is recorded still has a number.
LEMMA NumberLeft ==
  ASSUME TypeOK, CountInv, NEW d \in Directions, NEW n \in Nat, RecordStep(d, n)
  PROVE  seq + 1 \in Seqs /\ seq + 1 \in 0..MaxChunks /\ CountInv'
<1> USE LiveCaptureAssumption
<1>0. seq \in Nat /\ chunks \in 0..MaxChunks BY DEF TypeOK
<1>1. \/ pc' = [pc EXCEPT ![d] = "drain"] \/ pc' = [pc EXCEPT ![d] = "put"]
  BY DEF RecordStep, Enqueue
<1>2. seq' = seq + 1 BY DEF RecordStep
<1>3. /\ Waiting(ClientToRch) \in {0, 1} /\ Waiting(RchToClient) \in {0, 1}
      /\ Waiting(ClientToRch)' \in {0, 1} /\ Waiting(RchToClient)' \in {0, 1}
  BY DEF Waiting
<1>4. Waiting(d)' = 0 /\ \A e \in Directions \ {d} : Waiting(e)' = Waiting(e)
  BY <1>1 DEF Waiting, TypeOK
<1>5. CASE pc[d] = "read"
  <2>1. chunks < MaxChunks /\ chunks' = chunks + 1 BY <1>5 DEF RecordStep, ReadBytes
  <2>2. Waiting(d) = 0 BY <1>5 DEF Waiting
  <2>3. seq + 1 + Waiting(ClientToRch)' + Waiting(RchToClient)' <= chunks + 1
    BY <1>0, <1>3, <1>4, <2>2 DEF CountInv, Directions
  <2>4. CountInv' BY <1>2, <2>1, <2>3 DEF CountInv
  <2>5. seq + 1 <= MaxChunks BY <1>0, <1>3, <2>1 DEF CountInv
  <2> QED BY <1>0, <2>4, <2>5 DEF Seqs
<1>6. CASE pc[d] = "lock"
  <2>1. chunks' = chunks BY <1>6 DEF RecordStep, sentVars
  <2>2. Waiting(d) = 1 BY <1>6 DEF Waiting
  <2>3. seq + 1 + Waiting(ClientToRch)' + Waiting(RchToClient)' <= chunks
    BY <1>0, <1>3, <1>4, <2>2 DEF CountInv, Directions
  <2>4. CountInv' BY <1>2, <2>1, <2>3 DEF CountInv
  <2>5. seq + 1 <= MaxChunks BY <1>0, <1>3, <2>3
  <2> QED BY <1>0, <2>4, <2>5 DEF Seqs
<1> QED BY <1>5, <1>6 DEF RecordStep

\* The command that records a chunk.
LEMMA AppendOfType ==
  ASSUME TypeOK, CountInv, NEW d \in Directions, NEW n \in Nat, RecordStep(d, n)
  PROVE  AppendOf(d, n) \in Command /\ From(d) \in Nat
<1>1. From(d) \in Nat BY DEF From, TypeOK, Chunk
<1>2. seq + 1 \in Seqs BY NumberLeft
<1>3. Kept(n) \in Nat /\ Listed(n) \in BOOLEAN BY CapturedType
<1> QED BY <1>1, <1>2, <1>3 DEF AppendOf, Command, AppendCommand

LEMMA DrainOfType ==
  ASSUME TypeOK, ChunkInv, NEW d \in Directions, NEW completed \in BOOLEAN,
         pc[d] \in {"drain", "mark_lock"}
  PROVE  DrainOf(d, completed) \in Command /\ chunk[d].seq \in Seqs
<1>1. chunk[d].seq \in 1..seq /\ seq \in 0..MaxChunks BY DEF ChunkInv, Unmarked, TypeOK
<1>2. chunk[d].seq \in Seqs BY <1>1, LiveCaptureAssumption DEF Seqs
<1> QED BY <1>2 DEF DrainOf, Command, DrainCommand

\* What PumpStep leaves alone keeps its type.
LEMMA FrameType ==
  ASSUME TypeOK, UNCHANGED pumpFrame, NEW d \in Directions,
         pc' \in [Directions -> {"read", "drain"} \cup Blocked \cup Ended],
         cancel' \in [Directions -> BOOLEAN], after' \in [Directions -> DrainNext],
         chunk' \in [Directions -> Chunk], sent' \in [Directions -> Nat], chunks' \in 0..MaxChunks,
         lock' \in Directions \cup {Free}, held' \in Command \cup {NoCommand},
         active' \in BOOLEAN, seq' \in 0..MaxChunks, job' \in JobType, drained' \in [Seqs -> Drain],
         degraded' \in BOOLEAN, queue' \in Seq(Command), Len(queue') <= QueueSize,
         wpc' \in {"none", "begin", "wait", "busy", "publish", "abandon", "cleanup",
                   "published", "incomplete", "failed", "cancelled"}
  PROVE  TypeOK'
BY DEF TypeOK, pumpFrame, diskVars, DrainNext, JobType

LEMMA ReadType ==
  ASSUME TypeOK, NEW d \in Directions, NEW n, ReadBytes(d, n)
  PROVE  sent' \in [Directions -> Nat] /\ chunks' \in 0..MaxChunks /\ n \in Nat \ {0}
<1>1. n \in Nat \ {0} BY LiveCaptureAssumption DEF ReadBytes
<1>2. chunks' \in 0..MaxChunks BY LiveCaptureAssumption DEF ReadBytes, TypeOK
<1>3. sent[d] + n \in Nat BY <1>1 DEF TypeOK
<1> QED BY <1>1, <1>2, <1>3 DEF ReadBytes, TypeOK

\* A chunk on its way is in its type.
LEMMA ChunkType ==
  ASSUME TypeOK, NEW d \in Directions, NEW s \in 0..MaxChunks, NEW f \in Nat, NEW n \in Nat
  PROVE  [chunk EXCEPT ![d] = [seq |-> s, from |-> f, len |-> n]] \in [Directions -> Chunk]
<1>1. [seq |-> s, from |-> f, len |-> n] \in Chunk BY DEF Chunk
<1> QED BY <1>1 DEF TypeOK

LEMMA RecordType ==
  ASSUME TypeOK, LockInv, CountInv, NEW d \in Directions, NEW n \in Nat, RecordStep(d, n),
         UNCHANGED pumpFrame
  PROVE  TypeOK'
<1> DEFINE c == AppendOf(d, n)
<1>1. c \in Command /\ From(d) \in Nat BY AppendOfType
<1>2. held = NoCommand /\ cmd' = cmd BY DEF RecordStep, LockInv, pumpFrame
<1>3. Enqueue(d, Captured(n), c, "drain", "put") BY DEF RecordStep
<1> HIDE DEF c
<1>4. /\ queue' \in Seq(Command) /\ Len(queue') <= QueueSize /\ degraded' \in BOOLEAN
      /\ job' = Captured(n) \/ job' = Incomplete(Captured(n))
      /\ \/ pc' = [pc EXCEPT ![d] = "drain"] /\ lock' = lock /\ held' = held
         \/ pc' = [pc EXCEPT ![d] = "put"] /\ lock' = d /\ held' = c
  BY <1>1, <1>2, <1>3, EnqueueEffect, Policy
<1>5. job' \in JobType BY <1>4, CapturedType, IncompleteType
<1>6. seq' \in 0..MaxChunks /\ active' \in BOOLEAN BY NumberLeft DEF RecordStep
<1>7. pc' \in [Directions -> {"read", "drain"} \cup Blocked \cup Ended]
  BY <1>4 DEF TypeOK, Blocked
<1>8. lock' \in Directions \cup {Free} /\ held' \in Command \cup {NoCommand}
  BY <1>1, <1>4 DEF TypeOK
<1>9. chunk' \in [Directions -> Chunk]
  BY <1>1, NumberLeft, ChunkType DEF RecordStep
<1>10. sent' \in [Directions -> Nat] /\ chunks' \in 0..MaxChunks
  BY ReadType DEF RecordStep, TypeOK, sentVars
<1>11. /\ cancel' \in [Directions -> BOOLEAN] /\ after' \in [Directions -> DrainNext]
       /\ drained' \in [Seqs -> Drain]
       /\ wpc' \in {"none", "begin", "wait", "busy", "publish", "abandon", "cleanup",
                    "published", "incomplete", "failed", "cancelled"}
  BY DEF RecordStep, TypeOK, DrainNext
<1> QED BY <1>4, <1>5, <1>6, <1>7, <1>8, <1>9, <1>10, <1>11, FrameType

LEMMA MarkType ==
  ASSUME TypeOK, LockInv, ChunkInv, NEW d \in Directions, NEW completed \in BOOLEAN,
         NEW onward \in DrainNext \cup {"raised"}, MarkStep(d, completed, onward), UNCHANGED pumpFrame
  PROVE  TypeOK'
<1> DEFINE c == DrainOf(d, completed)
<1>1. c \in Command /\ chunk[d].seq \in Seqs BY DrainOfType DEF MarkStep
<1>2. held = NoCommand /\ cmd' = cmd BY DEF MarkStep, LockInv, pumpFrame
<1>3. Enqueue(d, job, c, onward, "mark_put") BY DEF MarkStep
<1> HIDE DEF c
<1>4. /\ queue' \in Seq(Command) /\ Len(queue') <= QueueSize /\ degraded' \in BOOLEAN
      /\ job' = job \/ job' = Incomplete(job)
      /\ \/ pc' = [pc EXCEPT ![d] = onward] /\ lock' = lock /\ held' = held
         \/ pc' = [pc EXCEPT ![d] = "mark_put"] /\ lock' = d /\ held' = c
  BY <1>1, <1>2, <1>3, EnqueueEffect, Policy
<1>5. job' \in JobType BY <1>4, IncompleteType DEF TypeOK, JobType
<1>6. onward \in {"read", "drain"} \cup Blocked \cup Ended BY DEF DrainNext, Ended
<1>7. pc' \in [Directions -> {"read", "drain"} \cup Blocked \cup Ended]
  BY <1>4, <1>6 DEF TypeOK, Blocked
<1>8. lock' \in Directions \cup {Free} /\ held' \in Command \cup {NoCommand}
  BY <1>1, <1>4 DEF TypeOK
<1>9. drained' \in [Seqs -> Drain] BY DEF MarkStep, TypeOK, Drain
<1>10. /\ cancel' \in [Directions -> BOOLEAN] /\ after' \in [Directions -> DrainNext]
       /\ chunk' \in [Directions -> Chunk] /\ sent' \in [Directions -> Nat] /\ chunks' \in 0..MaxChunks
       /\ active' \in BOOLEAN /\ seq' \in 0..MaxChunks
       /\ wpc' \in {"none", "begin", "wait", "busy", "publish", "abandon", "cleanup",
                    "published", "incomplete", "failed", "cancelled"}
  BY DEF MarkStep, TypeOK, sentVars
<1> QED BY <1>4, <1>5, <1>7, <1>8, <1>9, <1>10, FrameType

LEMMA PutType ==
  ASSUME TypeOK, LockInv, NEW d \in Directions, PutAccepted(d) PROVE TypeOK'
<1>1. lock = d /\ held \in Command
  BY LiveCaptureAssumption DEF PutAccepted, LockInv, TypeOK
<1>2. queue' \in Seq(Command) /\ Len(queue') = Len(queue) + 1 /\ Len(queue) \in Nat
  BY <1>1, AppendCommandEffect DEF PutAccepted, TypeOK
<1>3. Len(queue') <= QueueSize BY <1>2, LiveCaptureAssumption DEF PutAccepted
<1>4. pc' \in [Directions -> {"read", "drain"} \cup Blocked \cup Ended]
  BY DEF PutAccepted, TypeOK, Ended
<1> QED BY <1>2, <1>3, <1>4 DEF TypeOK, PutAccepted, sentVars, jobVars, diskVars

LEMMA MoveType ==
  ASSUME TypeOK, NEW d \in Directions, NEW l, MoveStep(d, l), UNCHANGED pumpFrame
  PROVE  TypeOK'
<1>1. l \in {"lock", "mark_lock"} \cup Ended BY DEF MoveStep, Ended
<1>2. pc' \in [Directions -> {"read", "drain"} \cup Blocked \cup Ended]
  BY <1>1 DEF MoveStep, TypeOK, Blocked
<1>3. /\ UNCHANGED <<active, seq, job, drained, degraded, queue, wpc>>
      /\ cancel' \in [Directions -> BOOLEAN] /\ after' \in [Directions -> DrainNext]
  BY DEF MoveStep, jobVars, queueVars
<1>4. lock' \in Directions \cup {Free} /\ held' \in Command \cup {NoCommand}
  BY DEF MoveStep, TypeOK
<1>5. sent' \in [Directions -> Nat] /\ chunks' \in 0..MaxChunks
  BY ReadType DEF MoveStep, TypeOK, sentVars
<1>6. chunk' \in [Directions -> Chunk]
  <2>1. ASSUME NEW n \in Sizes, ReadBytes(d, n),
               chunk' = [chunk EXCEPT ![d] = [seq |-> 0, from |-> sent[d], len |-> n]]
        PROVE  chunk' \in [Directions -> Chunk]
    BY <2>1, ReadType, ChunkType, LiveCaptureAssumption DEF TypeOK
  <2>2. ASSUME chunk' = [chunk EXCEPT ![d] = NoChunk] PROVE chunk' \in [Directions -> Chunk]
    BY <2>2, ChunkType, LiveCaptureAssumption DEF NoChunk
  <2> QED BY <2>1, <2>2 DEF MoveStep, TypeOK
<1>7. job' \in JobType /\ drained' \in [Seqs -> Drain] BY <1>3 DEF TypeOK, JobType
<1>8. /\ active' \in BOOLEAN /\ seq' \in 0..MaxChunks /\ degraded' \in BOOLEAN
      /\ queue' \in Seq(Command) /\ Len(queue') <= QueueSize
      /\ wpc' \in {"none", "begin", "wait", "busy", "publish", "abandon", "cleanup",
                   "published", "incomplete", "failed", "cancelled"}
  BY <1>3 DEF TypeOK
<1> QED BY <1>2, <1>3, <1>4, <1>5, <1>6, <1>7, <1>8, FrameType

\* A pump steps only before the seal, when nothing is being published.
LEMMA PumpsBeforeSeal ==
  ASSUME TypeOK, SealInv, WorkerInv, NEW d \in Directions, PumpStep(d)
  PROVE  /\ phase # "ended" /\ ~finalizing /\ (active \/ wpc = "none")
         /\ wpc \notin {"publish", "abandon", "published", "incomplete", "cancelled"}
         /\ published = "no"
<1>1. pc[d] \notin Ended
  BY DEF PumpStep, RecordStep, MarkStep, PutAccepted, MoveStep, Ended, Blocked
<1> QED BY <1>1 DEF SealInv, WorkerInv, AllEnded

LEMMA PumpWorkerInv ==
  ASSUME TypeOK, SealInv, WorkerInv, NEW d \in Directions, PumpStep(d), UNCHANGED pumpFrame
  PROVE  SealInv' /\ WorkerInv'
<1>1. /\ phase # "ended" /\ ~finalizing /\ (active \/ wpc = "none")
      /\ wpc \notin {"publish", "abandon", "published", "incomplete", "cancelled"}
      /\ published = "no"
  BY PumpsBeforeSeal
<1>2. UNCHANGED <<phase, finalizing, errors, cmd, published>> BY DEF pumpFrame
<1>3. \/ UNCHANGED <<active, wpc>>
      \/ active' = TRUE /\ wpc' = IF active THEN wpc ELSE "begin"
  BY DEF PumpStep, RecordStep, MarkStep, PutAccepted, MoveStep, jobVars
<1>4. CASE UNCHANGED <<active, wpc>>
  BY <1>1, <1>2, <1>4 DEF SealInv, WorkerInv
<1>5. CASE active' = TRUE /\ wpc' = IF active THEN wpc ELSE "begin"
  BY <1>1, <1>2, <1>5 DEF SealInv, WorkerInv
<1> QED BY <1>3, <1>4, <1>5

\* The lock's holder is the pump whose put is suspended.
LEMMA PumpLockInv ==
  ASSUME TypeOK, LockInv, CountInv, ChunkInv, NEW d \in Directions, PumpStep(d), UNCHANGED pumpFrame
  PROVE  LockInv'
<1>0. policy' = policy /\ cmd' = cmd BY DEF pumpFrame
<1>1. ASSUME NEW c \in Command, NEW j, NEW onward \in {"drain"} \cup DrainNext \cup {"raised"},
             NEW blocked \in {"put", "mark_put"}, lock = Free, pc[d] \notin {"put", "mark_put"},
             onward = "raised" => policy = "abort", Enqueue(d, j, c, onward, blocked)
      PROVE  LockInv'
  <2>1. held = NoCommand /\ c # NoCommand /\ Free # d
    BY <1>1, CommandOp, LiveCaptureAssumption DEF LockInv
  <2>2. \/ pc' = [pc EXCEPT ![d] = onward] /\ lock' = lock /\ held' = held
        \/ /\ pc' = [pc EXCEPT ![d] = blocked] /\ lock' = d /\ held' = c /\ policy = "abort"
    BY <1>0, <1>1, <2>1, EnqueueEffect, Policy
  <2>3. CASE pc' = [pc EXCEPT ![d] = onward] /\ lock' = lock /\ held' = held
    BY <1>0, <1>1, <2>3 DEF LockInv, TypeOK, DrainNext, Blocked
  <2>4. CASE pc' = [pc EXCEPT ![d] = blocked] /\ lock' = d /\ held' = c /\ policy = "abort"
    <3>1. \A e \in Directions : e # d => pc'[e] = pc[e] /\ pc[e] \notin {"put", "mark_put"}
      BY <1>1, <2>4, LiveCaptureAssumption DEF LockInv, TypeOK
    <3>2. pc'[d] = blocked BY <2>4 DEF TypeOK
    <3>3. \A e \in Directions : lock' = e <=> pc'[e] \in {"put", "mark_put"}
      BY <1>1, <2>4, <3>1, <3>2
    <3> QED BY <1>0, <2>1, <2>4, <3>3 DEF LockInv
  <2> QED BY <2>2, <2>3, <2>4
<1>2. ASSUME NEW n \in Nat, RecordStep(d, n) PROVE LockInv'
  <2>1. AppendOf(d, n) \in Command BY <1>2, AppendOfType
  <2> HIDE DEF AppendOf
  <2> QED BY <1>1, <1>2, <2>1 DEF RecordStep
<1>3. ASSUME NEW completed \in BOOLEAN, NEW onward \in DrainNext \cup {"raised"},
             MarkStep(d, completed, onward)
      PROVE  LockInv'
  <2>1. DrainOf(d, completed) \in Command BY <1>3, DrainOfType DEF MarkStep
  <2>2. onward = "raised" => policy = "abort" BY <1>3 DEF MarkStep, DrainNext
  <2> QED BY <1>1, <1>3, <2>1, <2>2 DEF MarkStep
<1>4. CASE PutAccepted(d)
  <2>1. lock = d /\ policy = "abort"
    BY <1>4, Policy DEF PutAccepted, LockInv, Blocked
  <2> QED BY <1>0, <1>4, <2>1, LiveCaptureAssumption DEF PutAccepted, LockInv, TypeOK
<1>5. ASSUME NEW l, MoveStep(d, l) PROVE LockInv'
  <2>1. CASE UNCHANGED <<lock, held>> /\ l \notin {"put", "mark_put"} /\ pc[d] \notin {"put", "mark_put"}
             /\ (l \in Blocked \cup {"raised"} => policy = "abort")
    BY <1>0, <1>5, <2>1 DEF MoveStep, LockInv, TypeOK
  <2>2. CASE l = "cancelled"
    <3>1. CASE lock = d BY <1>0, <1>5, <2>2, <3>1, LiveCaptureAssumption DEF MoveStep, LockInv, TypeOK, Blocked
    <3>2. CASE lock # d BY <1>0, <1>5, <2>2, <3>2, LiveCaptureAssumption DEF MoveStep, LockInv, TypeOK, Blocked
    <3> QED BY <3>1, <3>2
  <2> QED BY <1>5, <2>1, <2>2 DEF MoveStep, Blocked
<1> QED BY <1>2, <1>3, <1>4, <1>5 DEF PumpStep

\* A chunk is one pump's until its drain is marked.
LEMMA PumpChunkInv ==
  ASSUME TypeOK, LockInv, CountInv, ChunkInv, NEW d \in Directions, PumpStep(d), UNCHANGED pumpFrame
  PROVE  ChunkInv' /\ CountInv'
<1> USE LiveCaptureAssumption
<1>0. seq \in 0..MaxChunks /\ chunks \in 0..MaxChunks BY DEF TypeOK
<1>1. ASSUME NEW n \in Nat, RecordStep(d, n) PROVE ChunkInv' /\ CountInv'
  <2>1. /\ seq' = seq + 1 /\ drained' = drained /\ seq + 1 \in Seqs
        /\ chunk' = [chunk EXCEPT ![d] = [seq |-> seq + 1, from |-> From(d), len |-> n]]
    BY <1>1, NumberLeft DEF RecordStep
  <2>2. pc' = [pc EXCEPT ![d] = "drain"] \/ pc' = [pc EXCEPT ![d] = "put"]
    BY <1>1 DEF RecordStep, Enqueue
  <2>3. chunk'[d].seq = seq + 1 /\ \A e \in Directions \ {d} : chunk'[e] = chunk[e] /\ pc'[e] = pc[e]
    BY <2>1, <2>2 DEF TypeOK
  <2>4. \A e \in Directions \ {d} : Unmarked(e)' <=> Unmarked(e) BY <2>3 DEF Unmarked
  <2>5. drained[seq + 1] = "unknown" BY <1>0, <2>1 DEF ChunkInv
  <2>6. \A e \in Directions \ {d} : Unmarked(e) => chunk[e].seq \in 1..seq BY DEF ChunkInv
  <2>7. \A e \in Directions :
          Unmarked(e)' => chunk'[e].seq \in 1..seq' /\ drained'[chunk'[e].seq] = "unknown"
    BY <1>0, <2>1, <2>3, <2>4, <2>5 DEF ChunkInv
  <2>8. \A e, f \in Directions :
          e # f /\ Unmarked(e)' /\ Unmarked(f)' => chunk'[e].seq # chunk'[f].seq
    BY <1>0, <2>3, <2>4, <2>6 DEF ChunkInv
  <2>9. \A k \in Seqs : k > seq' => drained'[k] = "unknown" BY <1>0, <2>1 DEF ChunkInv, Seqs
  <2>10. CountInv' BY <1>1, NumberLeft
  <2>11. \A e \in Directions : pc'[e] = "lock" => chunk'[e].len > 0
    BY <2>2, <2>3 DEF ChunkInv, TypeOK
  <2> QED BY <2>7, <2>8, <2>9, <2>10, <2>11 DEF ChunkInv
<1>2. ASSUME NEW completed \in BOOLEAN, NEW onward \in DrainNext \cup {"raised"},
             MarkStep(d, completed, onward)
      PROVE  ChunkInv' /\ CountInv'
  <2>1. /\ UNCHANGED <<seq, chunk, chunks>> /\ chunk[d].seq \in 1..seq
        /\ drained' = [drained EXCEPT ![chunk[d].seq] = IF completed THEN "completed" ELSE "failed"]
    BY <1>2 DEF MarkStep, sentVars, ChunkInv, Unmarked
  <2>2. pc' = [pc EXCEPT ![d] = onward] \/ pc' = [pc EXCEPT ![d] = "mark_put"]
    BY <1>2 DEF MarkStep, Enqueue
  <2>3. Unmarked(d) /\ ~Unmarked(d)' BY <1>2, <2>2 DEF MarkStep, Unmarked, DrainNext, TypeOK
  <2>4. \A e \in Directions \ {d} : Unmarked(e)' <=> Unmarked(e) BY <2>2 DEF Unmarked, TypeOK
  <2>5. \A k \in Seqs : k # chunk[d].seq => drained'[k] = drained[k] BY <2>1 DEF TypeOK
  <2>6. \A e \in Directions \ {d} : Unmarked(e) => chunk[e].seq # chunk[d].seq /\ chunk[e].seq \in Seqs
    BY <1>0, <2>3 DEF ChunkInv, Seqs
  <2>7. \A k \in Seqs : k > seq => k # chunk[d].seq BY <1>0, <2>1 DEF Seqs
  <2>a. \A e \in Directions : pc'[e] = "lock" => pc[e] = "lock"
    BY <2>2 DEF DrainNext, TypeOK
  <2>8. ChunkInv' BY <2>1, <2>3, <2>4, <2>5, <2>6, <2>7, <2>a DEF ChunkInv
  <2>9. \A e \in Directions : Waiting(e)' = Waiting(e)
    BY <1>2, <2>2 DEF Waiting, MarkStep, DrainNext, TypeOK
  <2>10. CountInv' BY <2>1, <2>9 DEF CountInv, Directions
  <2> QED BY <2>8, <2>10
<1>3. CASE PutAccepted(d)
  <2>1. /\ UNCHANGED <<seq, chunk, chunks, drained>>
        /\ \E l \in {"drain", "raised", "read", "error", "cancelled"} :
             pc' = [pc EXCEPT ![d] = l] /\ (l = "drain" => pc[d] \in {"put", "drain"})
    BY <1>3 DEF PutAccepted, sentVars, jobVars, TypeOK
  <2>2. \A e \in Directions : Unmarked(e)' => Unmarked(e)
    BY <2>1 DEF Unmarked, TypeOK
  <2>3. \A e \in Directions : Waiting(e)' = Waiting(e)
    BY <1>3, <2>1 DEF Waiting, PutAccepted, TypeOK
  <2>4. \A e \in Directions : pc'[e] = "lock" => pc[e] = "lock" BY <2>1 DEF TypeOK
  <2>5. ChunkInv' BY <2>1, <2>2, <2>4 DEF ChunkInv
  <2> QED BY <2>1, <2>3, <2>5 DEF CountInv, Directions
<1>4. ASSUME NEW l \in {"lock", "raised", "mark_lock", "eof", "error", "cancelled"}, MoveStep(d, l)
      PROVE  ChunkInv' /\ CountInv'
  <2>1. /\ UNCHANGED <<seq, drained>> /\ pc' = [pc EXCEPT ![d] = l]
        /\ (l = "mark_lock" => pc[d] = "drain" /\ chunk' = chunk)
        /\ \A e \in Directions \ {d} : chunk'[e] = chunk[e]
    BY <1>4 DEF MoveStep, jobVars, TypeOK
  <2>2. \A e \in Directions : Unmarked(e)' => Unmarked(e) /\ chunk'[e] = chunk[e]
    BY <2>1 DEF Unmarked, TypeOK
  <2>a. l = "lock" => chunk'[d].len > 0
    BY <1>4 DEF MoveStep, TypeOK
  <2>b. \A e \in Directions : pc'[e] = "lock" => chunk'[e].len > 0
    BY <2>1, <2>a DEF ChunkInv, TypeOK
  <2>3. ChunkInv' BY <2>1, <2>2, <2>b DEF ChunkInv
  <2>4. \A e \in Directions \ {d} : Waiting(e)' = Waiting(e) BY <2>1 DEF Waiting, TypeOK
  <2>5. \A e \in Directions : Waiting(e) \in {0, 1} /\ Waiting(e)' \in {0, 1} BY DEF Waiting
  <2>6. \/ Waiting(d)' = 1 /\ Waiting(d) = 0 /\ chunks' = chunks + 1
        \/ Waiting(d)' = 0 /\ (chunks' = chunks \/ chunks' = chunks + 1)
    BY <1>4, <2>1 DEF MoveStep, Waiting, ReadBytes, sentVars, TypeOK
  <2>7. CountInv'
    <3>1. seq' = seq BY <2>1
    <3>2. seq + Waiting(ClientToRch) + Waiting(RchToClient) <= chunks BY DEF CountInv
    <3>3. seq + Waiting(ClientToRch)' + Waiting(RchToClient)' <= chunks'
      BY <1>0, <2>4, <2>5, <2>6, <3>2 DEF Directions
    <3> QED BY <3>1, <3>3 DEF CountInv
  <2> QED BY <2>3, <2>7
<1> QED BY <1>1, <1>2, <1>3, <1>4 DEF PumpStep

LEMMA RecordPositive ==
  ASSUME TypeOK, ChunkInv, NEW d \in Directions, NEW n \in Nat, RecordStep(d, n) PROVE n > 0
BY LiveCaptureAssumption DEF RecordStep, ReadBytes, ChunkInv

-----------------------------------------------------------------------------
(* The spool's invariants and the pumps.                                   *)

LEMMA FlightType ==
  ASSUME TypeOK
  PROVE  /\ InFlight \subseteq Command
         /\ \A c \in Appends : /\ c.seq \in Seqs /\ c.dir \in Directions /\ c.from \in Nat
                               /\ c.len \in Nat /\ c.listed \in BOOLEAN
         /\ \A c \in Drains : c.seq \in Seqs /\ c.completed \in BOOLEAN
<1>1. \A i \in 1..Len(queue) : queue[i] \in Command BY DEF TypeOK
<1>2. NoCommand.op = "none" BY DEF NoCommand
<1>3. InFlight \subseteq Command BY <1>1, <1>2 DEF InFlight, TypeOK
<1>4. \A c \in Command : c.op = "append" => c \in AppendCommand
  BY DEF Command, AppendCommand, DrainCommand
<1>5. \A c \in Command : c.op = "drain" => c \in DrainCommand
  BY DEF Command, AppendCommand, DrainCommand
<1>6. \A c \in AppendCommand : /\ c.seq \in Seqs /\ c.dir \in Directions /\ c.from \in Nat
                               /\ c.len \in Nat /\ c.listed \in BOOLEAN
  BY DEF AppendCommand
<1>7. \A c \in DrainCommand : c.seq \in Seqs /\ c.completed \in BOOLEAN BY DEF DrainCommand
<1> QED BY <1>3, <1>4, <1>5, <1>6, <1>7 DEF Appends, Drains

\* What recording a chunk puts in flight.
LEMMA RecordFlight ==
  ASSUME TypeOK, LockInv, CountInv, NEW d \in Directions, NEW n \in Nat, RecordStep(d, n),
         UNCHANGED pumpFrame
  PROVE  /\ Drains' = Drains /\ Appends \subseteq Appends'
         /\ Appends' \subseteq Appends \cup {AppendOf(d, n)}
         /\ policy = "continue" /\ ~degraded' /\ ~errors => AppendOf(d, n) \in Appends'
         /\ job' = Captured(n) \/ job' = Incomplete(Captured(n))
         /\ degraded => degraded'
<1> DEFINE c == AppendOf(d, n)
<1>1. c \in Command /\ c.op = "append" BY AppendOfType DEF AppendOf
<1>2. held = NoCommand /\ cmd' = cmd BY DEF RecordStep, LockInv, pumpFrame
<1>3. Enqueue(d, Captured(n), c, "drain", "put") BY DEF RecordStep
<1> HIDE DEF c
<1>4. /\ InFlight \subseteq InFlight' /\ InFlight' \subseteq InFlight \cup {c}
      /\ policy = "continue" /\ ~degraded' /\ ~errors => c \in InFlight'
      /\ job' = Captured(n) \/ job' = Incomplete(Captured(n))
      /\ degraded => degraded'
  BY <1>1, <1>2, <1>3, EnqueueEffect, Policy
<1>5. Drains' = Drains BY <1>1, <1>4 DEF Drains
<1>6. Appends \subseteq Appends' /\ Appends' \subseteq Appends \cup {c} /\ (c \in InFlight' => c \in Appends')
  BY <1>1, <1>4 DEF Appends
<1> QED BY <1>4, <1>5, <1>6 DEF c

\* What marking a drain puts in flight.
LEMMA MarkFlight ==
  ASSUME TypeOK, LockInv, ChunkInv, NEW d \in Directions, NEW completed \in BOOLEAN,
         NEW onward \in DrainNext \cup {"raised"}, MarkStep(d, completed, onward), UNCHANGED pumpFrame
  PROVE  /\ Appends' = Appends /\ Drains \subseteq Drains'
         /\ Drains' \subseteq Drains \cup {DrainOf(d, completed)}
         /\ policy = "continue" /\ ~degraded' /\ ~errors => DrainOf(d, completed) \in Drains'
         /\ job' = job \/ job' = Incomplete(job)
         /\ degraded => degraded'
<1> DEFINE c == DrainOf(d, completed)
<1>1. c \in Command /\ c.op = "drain" BY DrainOfType DEF MarkStep, DrainOf
<1>2. held = NoCommand /\ cmd' = cmd BY DEF MarkStep, LockInv, pumpFrame
<1>3. Enqueue(d, job, c, onward, "mark_put") BY DEF MarkStep
<1> HIDE DEF c
<1>4. /\ InFlight \subseteq InFlight' /\ InFlight' \subseteq InFlight \cup {c}
      /\ policy = "continue" /\ ~degraded' /\ ~errors => c \in InFlight'
      /\ job' = job \/ job' = Incomplete(job)
      /\ degraded => degraded'
  BY <1>1, <1>2, <1>3, EnqueueEffect, Policy
<1>5. Appends' = Appends BY <1>1, <1>4 DEF Appends
<1>6. Drains \subseteq Drains' /\ Drains' \subseteq Drains \cup {c} /\ (c \in InFlight' => c \in Drains')
  BY <1>1, <1>4 DEF Drains
<1> QED BY <1>4, <1>5, <1>6 DEF c

\* A suspended put only moves its command; a cancelled one loses it, under "abort".
LEMMA QuietFlight ==
  ASSUME TypeOK, LockInv, NEW d \in Directions,
         PutAccepted(d) \/ ((\E l : MoveStep(d, l)) /\ UNCHANGED pumpFrame)
  PROVE  /\ Appends' \subseteq Appends /\ Drains' \subseteq Drains
         /\ policy = "continue" => Appends' = Appends /\ Drains' = Drains
<1>0. NoCommand.op = "none" BY DEF NoCommand
<1>1. CASE PutAccepted(d)
  <2>1. lock = d /\ held \in Command /\ policy # "continue"
    BY <1>1, LiveCaptureAssumption DEF PutAccepted, LockInv, TypeOK, Blocked
  <2>2. queue' = Append(queue, held) /\ held' = NoCommand /\ cmd' = cmd BY <1>1 DEF PutAccepted
  <2>3. \A x : (\E i \in 1..Len(queue') : queue'[i] = x)
                <=> x = held \/ \E i \in 1..Len(queue) : queue[i] = x
    BY <2>1, <2>2, AppendCommandEffect
  <2>4. \A x : x \in InFlight' <=>
          x.op # "none" /\ (x = cmd \/ x = NoCommand \/ \E i \in 1..Len(queue') : queue'[i] = x)
    BY <2>2 DEF InFlight
  <2>5. InFlight' \subseteq InFlight BY <1>0, <2>3, <2>4, InFlightIs
  <2> QED BY <2>1, <2>5 DEF Appends, Drains
<1>2. CASE (\E l : MoveStep(d, l)) /\ UNCHANGED pumpFrame
  <2>1. UNCHANGED <<queue, cmd>> BY <1>2 DEF MoveStep, queueVars, pumpFrame
  <2>2. held' = held \/ (held' = NoCommand /\ lock = d) BY <1>2 DEF MoveStep
  <2>3. lock = d => policy # "continue" BY DEF LockInv, Blocked
  <2>4. InFlight' \subseteq InFlight BY <1>0, <2>1, <2>2 DEF InFlight
  <2>5. policy = "continue" => InFlight' = InFlight BY <2>1, <2>2, <2>3 DEF InFlight
  <2> QED BY <2>4, <2>5 DEF Appends, Drains
<1> QED BY <1>1, <1>2

\* No step of a pump disturbs what the spool knows: a drain is marked in the chunk and
\* announced in one step.
LEMMA PumpSpoolInv ==
  ASSUME TypeOK, LockInv, ChunkInv, CountInv, SealInv, WorkerInv, SpoolInv,
         NEW d \in Directions, PumpStep(d), UNCHANGED pumpFrame
  PROVE  SpoolInv'
<1> USE LiveCaptureAssumption DEF SpoolInv
<1>0. /\ UNCHANGED <<policy, errors, maximum, pending, skipped, next, timeline>>
      /\ seq \in 0..MaxChunks /\ maximum \in 0..MaxChunks /\ next \in Nat
      /\ DOMAIN pending \subseteq Seqs /\ DOMAIN timeline \subseteq Seqs
      /\ wpc # "cancelled"
  BY PumpsBeforeSeal DEF pumpFrame, diskVars, TypeOK, Events
<1>1. ASSUME NEW n \in Nat, RecordStep(d, n) PROVE SpoolInv'
  <2>1. /\ Drains' = Drains /\ Appends \subseteq Appends'
        /\ Appends' \subseteq Appends \cup {AppendOf(d, n)}
        /\ policy = "continue" /\ ~degraded' /\ ~errors => AppendOf(d, n) \in Appends'
        /\ job' = Captured(n) \/ job' = Incomplete(Captured(n))
        /\ degraded => degraded'
    BY <1>1, RecordFlight
  <2>2. seq' = seq + 1 /\ drained' = drained /\ n > 0
    BY <1>1, RecordPositive DEF RecordStep
  <2>3. AppendOf(d, n).seq = seq + 1 /\ AppendOf(d, n).listed = Listed(n) BY DEF AppendOf
  <2> HIDE DEF AppendOf
  <2>4. TimelineInv' BY <1>0, <2>2 DEF TimelineInv
  <2>5. wpc' \in {"none", "begin", "wait", "busy", "publish"} =>
          wpc \in {"none", "begin", "wait", "busy", "publish"}
    BY <1>1, PumpsBeforeSeal DEF RecordStep
  <2>6. DrainInv'
    <3>1. \A c \in Drains : c.seq \in 1..seq' BY <1>0, <2>2 DEF DrainInv
    <3> QED BY <1>0, <2>1, <2>2, <2>5, <3>1 DEF DrainInv, Outcome
  <2>7. NothingLost'
    <3> SUFFICES ASSUME policy = "continue", ~degraded', ~errors
                 PROVE  /\ \A k \in (maximum + 1)..(seq + 1) : \E c \in Appends' : c.seq = k
                        /\ \A k \in DOMAIN pending :
                             pending[k] # drained[k] => \E c \in Drains : c.seq = k
      BY <1>0, <2>1, <2>2 DEF NothingLost
    <3>1. ~degraded BY <2>1
    <3>2. \A k \in (maximum + 1)..seq : \E c \in Appends' : c.seq = k
      BY <1>0, <2>1, <3>1 DEF NothingLost
    <3>3. AppendOf(d, n) \in Appends' BY <2>1
    <3>4. \A k \in (maximum + 1)..(seq + 1) : k \in (maximum + 1)..seq \/ k = seq + 1 BY <1>0
    <3> QED BY <1>0, <2>3, <3>1, <3>2, <3>3, <3>4 DEF NothingLost
  <2>8. ListedInv'
    <3> SUFFICES ASSUME job'.capture_complete, job'.timeline_complete
                 PROVE  /\ \A c \in Appends' : c.listed
                        /\ skipped = {} /\ DOMAIN timeline = 1..(next - 1)
      BY <1>0 DEF ListedInv
    <3>1. job' = Captured(n) BY <2>1, CapturedType, IncompleteType
    <3>2. job.capture_complete /\ Kept(n) = n /\ job.timeline_complete /\ (Kept(n) > 0 => Listed(n))
      BY <3>1, CapturedType
    <3> QED BY <2>1, <2>2, <2>3, <3>2 DEF ListedInv
  <2> QED BY <2>4, <2>6, <2>7, <2>8
<1>2. ASSUME NEW completed \in BOOLEAN, NEW onward \in DrainNext \cup {"raised"},
             MarkStep(d, completed, onward)
      PROVE  SpoolInv'
  <2> DEFINE s == chunk[d].seq
             o == IF completed THEN "completed" ELSE "failed"
  <2>1. /\ Appends' = Appends /\ Drains \subseteq Drains'
        /\ Drains' \subseteq Drains \cup {DrainOf(d, completed)}
        /\ policy = "continue" /\ ~degraded' /\ ~errors => DrainOf(d, completed) \in Drains'
        /\ job' = job \/ job' = Incomplete(job)
        /\ degraded => degraded'
    BY <1>2, MarkFlight
  <2>2. /\ UNCHANGED <<seq, wpc>> /\ s \in 1..seq /\ drained[s] = "unknown"
        /\ drained' = [drained EXCEPT ![s] = o]
    BY <1>2 DEF MarkStep, ChunkInv, Unmarked
  <2>3. s \in Seqs BY <1>0, <2>2 DEF Seqs
  <2>4. drained'[s] = o /\ o # "unknown" /\ \A k \in Seqs : k # s => drained'[k] = drained[k]
    BY <2>2, <2>3 DEF TypeOK
  <2>5. DrainOf(d, completed).seq = s /\ Outcome(DrainOf(d, completed)) = o BY DEF DrainOf, Outcome
  <2> HIDE DEF s, o, DrainOf
  <2>6. TimelineInv' BY <1>0, <2>2 DEF TimelineInv
  <2>7. DrainInv'
    <3>1. \A k \in DOMAIN pending : pending[k] \in {"unknown", drained'[k]}
      BY <1>0, <2>2, <2>4 DEF DrainInv
    <3>2. wpc \in {"none", "begin", "wait", "busy", "publish"} =>
            \A k \in DOMAIN timeline : timeline[k] = drained'[k] /\ timeline[k] # "unknown"
      BY <1>0, <2>2, <2>4 DEF DrainInv
    <3>3. \A c \in Drains : Outcome(c) # "unknown" /\ c.seq \in Seqs BY FlightType DEF Outcome
    <3>4. \A c \in Drains' : c.seq \in 1..seq /\ drained'[c.seq] = Outcome(c)
      BY <2>1, <2>2, <2>4, <2>5, <3>3 DEF DrainInv
    <3> QED BY <1>0, <2>2, <3>1, <3>2, <3>4 DEF DrainInv, Outcome
  <2>8. NothingLost'
    <3> SUFFICES ASSUME policy = "continue", ~degraded', ~errors
                 PROVE  /\ \A k \in (maximum + 1)..seq : \E c \in Appends : c.seq = k
                        /\ \A k \in DOMAIN pending :
                             pending[k] # drained'[k] => \E c \in Drains' : c.seq = k
      BY <1>0, <2>1, <2>2 DEF NothingLost
    <3>1. ~degraded BY <2>1
    <3> QED BY <1>0, <2>1, <2>4, <2>5, <3>1 DEF NothingLost
  <2>9. ListedInv'
    <3>1. job \in JobType BY DEF TypeOK, JobType
    <3>2. job'.capture_complete => job' = job BY <2>1, <3>1, IncompleteType
    <3> QED BY <1>0, <2>1, <3>2 DEF ListedInv
  <2> QED BY <2>6, <2>7, <2>8, <2>9
<1>3. ASSUME PutAccepted(d) \/ \E l : MoveStep(d, l) PROVE SpoolInv'
  <2>1. /\ Appends' \subseteq Appends /\ Drains' \subseteq Drains
        /\ policy = "continue" => Appends' = Appends /\ Drains' = Drains
    BY <1>3, QuietFlight
  <2>2. UNCHANGED <<seq, job, drained, degraded, wpc>>
    BY <1>3 DEF PutAccepted, MoveStep, jobVars, queueVars
  <2>3. TimelineInv' BY <1>0, <2>2 DEF TimelineInv
  <2>4. DrainInv' BY <1>0, <2>1, <2>2 DEF DrainInv, Outcome
  <2>5. NothingLost' BY <1>0, <2>1, <2>2 DEF NothingLost
  <2>6. ListedInv' BY <1>0, <2>1, <2>2 DEF ListedInv
  <2> QED BY <2>3, <2>4, <2>5, <2>6
<1> QED BY <1>1, <1>2, <1>3 DEF PumpStep

-----------------------------------------------------------------------------
(* The recorded positions and the pumps.                                   *)

LEMMA TotalStep ==
  ASSUME NEW f \in [Directions -> Nat], NEW d \in Directions, NEW n \in Nat
  PROVE  /\ Total(f) \in Nat
         /\ Total([f EXCEPT ![d] = f[d] + n]) = Total(f) + n
BY LiveCaptureAssumption DEF Total, Directions

\* The history of a step that numbers no chunk and appends nothing to the files.
LEMMA HistoryFrame ==
  ASSUME NEW pos, NEW full, History(pos, full), UNCHANGED <<seq, raw, maximum>>,
         errors => errors', Appends' \subseteq Appends, job'.stored = job.stored,
         job'.capture_complete => job.capture_complete, PumpsFit(pos)'
  PROVE  History(pos, full)'
<1> USE DEF History
<1>1. Kind(pos, full)' BY DEF Kind
<1>2. CommandsFit(pos, full)' BY DEF CommandsFit, Total
<1>3. JobFits(pos, full)' BY DEF JobFits, Total
<1>4. RawFits(pos, full)' BY DEF RawFits, Bytes, Total, Size
<1> QED BY <1>1, <1>2, <1>3, <1>4

LEMMA PumpHistory ==
  ASSUME TypeOK, ControlInv, SpoolInv, HistoryInv,
         NEW d \in Directions, PumpStep(d), UNCHANGED pumpFrame
  PROVE  HistoryInv'
<1> USE LiveCaptureAssumption DEF ControlInv
<1>0. /\ UNCHANGED <<policy, errors, raw, maximum>>
      /\ seq \in Nat /\ maximum \in 0..seq /\ MaxPayload \in Nat
      /\ sent \in [Directions -> Nat]
  BY DEF pumpFrame, diskVars, TypeOK, SpoolInv, TimelineInv
<1>a. PICK pos, full : History(pos, full) BY DEF HistoryInv
<1>b. /\ pos \in [0..seq -> [Directions -> Nat]] /\ full \in 0..seq
      /\ \A e \in Directions : pos[0][e] = 0
      /\ \A k \in 0..seq : \A m \in 0..k : \A e \in Directions : pos[m][e] <= pos[k][e]
  BY <1>a DEF History, Kind
<1>c. PumpsFit(pos) /\ JobFits(pos, full) /\ RawFits(pos, full) /\ CommandsFit(pos, full)
  BY <1>a DEF History
<1>d. pos[seq] \in [Directions -> Nat] BY <1>0, <1>b
<1>1. ASSUME NEW n \in Nat, RecordStep(d, n) PROVE HistoryInv'
  <2>1. PICK np : np = [k \in 0..(seq + 1) |-> IF k <= seq THEN pos[k]
                                               ELSE [pos[seq] EXCEPT ![d] = pos[seq][d] + n]]
    OBVIOUS
  <2>2. PICK nf : nf = IF full = seq /\ Kept(n) = n THEN seq + 1 ELSE full OBVIOUS
  <2>3. /\ \A k \in 0..seq : np[k] = pos[k]
        /\ np[seq + 1] = [pos[seq] EXCEPT ![d] = pos[seq][d] + n]
    BY <1>0, <2>1
  <2>4. /\ np[seq + 1] \in [Directions -> Nat] /\ np[seq + 1][d] = pos[seq][d] + n
        /\ \A e \in Directions \ {d} : np[seq + 1][e] = pos[seq][e]
        /\ \A e \in Directions : pos[seq][e] <= np[seq + 1][e] /\ pos[seq][e] \in Nat
        /\ Total(np[seq + 1]) = Total(pos[seq]) + n /\ Total(pos[seq]) \in Nat
    BY <1>d, <2>3, TotalStep
  <2>5. np \in [0..(seq + 1) -> [Directions -> Nat]] /\ nf \in 0..(seq + 1)
    <3>1. \A k \in 0..(seq + 1) : k \in 0..seq \/ k = seq + 1 BY <1>0
    <3>2. \A k \in 0..(seq + 1) : np[k] \in [Directions -> Nat] BY <1>b, <2>3, <2>4, <3>1
    <3> QED BY <1>0, <1>b, <2>1, <2>2, <3>2
  <2>6. Kept(n) = (IF n <= MaxPayload - job.stored THEN n ELSE MaxPayload - job.stored)
        /\ Kept(n) \in 0..n /\ job.stored \in 0..MaxPayload
    BY CapturedType DEF Kept
  <2>7. From(d) = pos[seq][d]
    BY <1>1, <1>c DEF RecordStep, From, PumpsFit
  <2>8. seq' = seq + 1 BY <1>1 DEF RecordStep
  <2>9. Kind(np, nf)'
    <3>1. ASSUME NEW k \in 0..(seq + 1), NEW m \in 0..k, NEW e \in Directions PROVE np[m][e] <= np[k][e]
      <4>1. CASE k \in 0..seq BY <1>0, <1>b, <2>3, <4>1
      <4>2. CASE k = seq + 1 /\ m \in 0..seq
        <5>1. pos[m][e] <= pos[seq][e] BY <1>0, <1>b, <4>2
        <5>2. pos[m][e] \in Nat BY <1>b, <4>2
        <5> QED BY <2>3, <2>4, <4>2, <5>1, <5>2
      <4>3. CASE k = seq + 1 /\ m = seq + 1 BY <2>4, <4>3
      <4> QED BY <1>0, <4>1, <4>2, <4>3
    <3>2. \A e \in Directions : np[0][e] = 0 BY <1>0, <1>b, <2>3
    <3> QED BY <2>5, <2>8, <3>1, <3>2 DEF Kind
  <2>10. CommandsFit(np, nf)'
    <3> SUFFICES ASSUME NEW c \in Appends'
                 PROVE  /\ c.seq \in 1..(seq + 1)
                        /\ c.from = np[c.seq - 1][c.dir] /\ c.from + c.len <= np[c.seq][c.dir]
                        /\ \A e \in Directions \ {c.dir} : np[c.seq][e] = np[c.seq - 1][e]
                        /\ c.seq <= nf => c.from + c.len = np[c.seq][c.dir]
                        /\ c.seq = nf + 1 => c.len = MaxPayload - Total(np[nf])
                        /\ c.seq > nf + 1 => c.len = 0
      BY <2>8 DEF CommandsFit, Total
    <3>1. CASE c \in Appends
      <4>1. /\ c.seq \in 1..seq
            /\ c.from = pos[c.seq - 1][c.dir] /\ c.from + c.len <= pos[c.seq][c.dir]
            /\ \A e \in Directions \ {c.dir} : pos[c.seq][e] = pos[c.seq - 1][e]
            /\ c.seq <= full => c.from + c.len = pos[c.seq][c.dir]
            /\ c.seq = full + 1 => c.len = MaxPayload - Total(pos[full])
            /\ c.seq > full + 1 => c.len = 0
        BY <1>c, <3>1 DEF CommandsFit
      <4>2. np[c.seq] = pos[c.seq] /\ np[c.seq - 1] = pos[c.seq - 1] /\ np[full] = pos[full]
        <5>1. c.seq \in 0..seq /\ c.seq - 1 \in 0..seq BY <1>0, <4>1
        <5> QED BY <1>b, <2>3, <5>1
      <4>3. \/ nf = full
            \/ nf = seq + 1 /\ full = seq
        BY <2>2
      <4>4. CASE nf = full
        <5>1. c.seq <= seq + 1 /\ c.seq \in 1..(seq + 1) BY <1>0, <4>1
        <5>2. np[nf] = pos[full] /\ Total(np[nf]) = Total(pos[full]) BY <4>2, <4>4
        <5> QED BY <4>1, <4>2, <4>4, <5>1, <5>2
      <4>5. CASE nf = seq + 1 /\ full = seq BY <1>0, <4>1, <4>2, <4>5
      <4> QED BY <4>3, <4>4, <4>5
    <3>2. CASE c = AppendOf(d, n)
      <4>1. c.seq = seq + 1 /\ c.dir = d /\ c.from = pos[seq][d] /\ c.len = Kept(n)
        BY <2>7, <3>2 DEF AppendOf
      <4>2. np[c.seq - 1] = pos[seq] /\ np[c.seq] = np[seq + 1] BY <1>0, <2>3, <4>1
      <4>3. c.seq <= nf => Kept(n) = n BY <1>0, <1>b, <2>2, <4>1
      <4>4. c.seq = nf + 1 => Kept(n) = MaxPayload - Total(np[nf])
        <5>1. SUFFICES ASSUME c.seq = nf + 1 PROVE Kept(n) = MaxPayload - Total(np[nf]) OBVIOUS
        <5>2. nf = seq /\ full = seq /\ Kept(n) # n BY <1>0, <1>b, <2>2, <2>5, <4>1, <5>1
        <5>3. job.stored = Total(pos[seq]) BY <1>c, <5>2 DEF JobFits
        <5>4. np[nf] = pos[seq] BY <1>0, <2>3, <5>2
        <5> QED BY <2>6, <5>2, <5>3, <5>4
      <4>5. c.seq > nf + 1 => Kept(n) = 0
        <5>1. SUFFICES ASSUME c.seq > nf + 1 PROVE Kept(n) = 0 OBVIOUS
        <5>2. full < seq BY <1>0, <1>b, <2>2, <2>5, <4>1, <5>1
        <5>3. job.stored = MaxPayload BY <1>c, <5>2 DEF JobFits
        <5> QED BY <1>0, <2>6, <5>3
      <4> QED BY <1>0, <2>4, <2>6, <4>1, <4>2, <4>3, <4>4, <4>5
    <3>3. c \in Appends \/ c = AppendOf(d, n) BY <1>1, RecordFlight
    <3> QED BY <3>1, <3>2, <3>3
  <2>11. JobFits(np, nf)'
    <3>1. /\ job'.stored = job.stored + Kept(n)
          /\ job'.capture_complete => job.capture_complete /\ Kept(n) = n
      <4>1. job' = Captured(n) \/ job' = Incomplete(Captured(n)) BY <1>1, RecordFlight
      <4>2. /\ Captured(n) \in JobType /\ Captured(n).stored = job.stored + Kept(n)
            /\ Captured(n).capture_complete = (job.capture_complete /\ Kept(n) = n)
        BY CapturedType
      <4>3. /\ ~Incomplete(Captured(n)).capture_complete
            /\ Incomplete(Captured(n)).stored = Captured(n).stored
        BY <4>2, IncompleteType
      <4> QED BY <4>1, <4>2, <4>3
    <3>2. CASE full = seq /\ Kept(n) = n
      <4>1. nf = seq + 1 /\ job.stored = Total(pos[seq]) BY <1>c, <2>2, <3>2 DEF JobFits
      <4>2. job'.stored = Total(np[seq + 1]) BY <2>4, <3>1, <3>2, <4>1
      <4> QED BY <1>0, <2>8, <4>1, <4>2 DEF JobFits, Total
    <3>3. CASE full = seq /\ Kept(n) # n
      <4>1. nf = seq /\ job.stored = Total(pos[seq]) BY <1>c, <2>2, <3>3 DEF JobFits
      <4>2. job'.stored = MaxPayload /\ MaxPayload <= Total(np[seq + 1]) /\ ~job'.capture_complete
        BY <1>0, <2>4, <2>6, <3>1, <3>3, <4>1
      <4> QED BY <1>0, <2>8, <4>1, <4>2 DEF JobFits, Total
    <3>4. CASE full < seq
      <4>1. /\ nf = full /\ job.stored = MaxPayload /\ ~job.capture_complete
            /\ MaxPayload <= Total(pos[seq])
        BY <1>0, <1>b, <1>c, <2>2, <3>4 DEF JobFits
      <4>2. job'.stored = MaxPayload /\ MaxPayload <= Total(np[seq + 1]) /\ ~job'.capture_complete
        BY <1>0, <2>4, <2>6, <3>1, <4>1
      <4>3. nf # seq + 1 BY <1>0, <1>b, <3>4, <4>1
      <4> QED BY <2>8, <4>1, <4>2, <4>3 DEF JobFits, Total
    <3> QED BY <1>0, <1>b, <3>2, <3>3, <3>4
  <2>12. PumpsFit(np)'
    <3>1. pc' = [pc EXCEPT ![d] = "drain"] \/ pc' = [pc EXCEPT ![d] = "put"]
      BY <1>1 DEF RecordStep, Enqueue
    <3>2. chunk' = [chunk EXCEPT ![d] = [seq |-> seq + 1, from |-> From(d), len |-> n]]
      BY <1>1 DEF RecordStep
    <3>3. sent'[d] = pos[seq][d] + n /\ \A e \in Directions \ {d} : sent'[e] = sent[e]
      BY <1>0, <1>1, <1>c DEF RecordStep, ReadBytes, sentVars, PumpsFit
    <3>4. pc'[d] \in {"drain", "put"} /\ \A e \in Directions \ {d} : pc'[e] = pc[e] /\ chunk'[e] = chunk[e]
      BY <3>1, <3>2 DEF TypeOK
    <3>5. ASSUME NEW e \in Directions
          PROVE  /\ np[seq + 1][e] <= sent'[e]
                 /\ pc'[e] = "lock" => /\ chunk'[e].from = np[seq + 1][e]
                                       /\ sent'[e] = np[seq + 1][e] + chunk'[e].len
                 /\ policy = "continue" \/ pc'[e] \notin {"lock", "raised", "cancelled"} =>
                      sent'[e] = np[seq + 1][e]
      <4>1. CASE e = d BY <2>4, <3>3, <3>4, <4>1
      <4>2. CASE e # d BY <1>c, <2>4, <3>3, <3>4, <4>2 DEF PumpsFit
      <4> QED BY <4>1, <4>2
    <3> QED BY <1>0, <2>8, <3>5 DEF PumpsFit
  <2>13. RawFits(np, nf)'
    <3>1. \A e \in Directions : Len(raw[e]) <= np[seq + 1][e] /\ raw[e] = Bytes(Len(raw[e]))
      <4>1. \A e \in Directions : Len(raw[e]) \in Nat BY DEF TypeOK
      <4> QED BY <1>c, <2>4, <4>1 DEF RawFits
    <3>2. maximum <= nf <=> maximum <= full BY <1>0, <1>b, <2>2
    <3>3. np[maximum] = pos[maximum] BY <1>0, <2>3
    <3> QED BY <1>0, <1>c, <2>8, <3>1, <3>2, <3>3 DEF RawFits, Bytes, Total, Size
  <2> QED BY <2>9, <2>10, <2>11, <2>12, <2>13 DEF HistoryInv, History
<1>2. ASSUME NEW completed \in BOOLEAN, NEW onward \in DrainNext \cup {"raised"},
             MarkStep(d, completed, onward)
      PROVE  HistoryInv'
  <2>1. /\ Appends' = Appends /\ (job' = job \/ job' = Incomplete(job)) BY <1>2, MarkFlight
  <2>2. job'.stored = job.stored /\ (job'.capture_complete => job.capture_complete)
    BY <2>1, IncompleteType DEF TypeOK, JobType
  <2>3. UNCHANGED <<seq, chunk, sent>> BY <1>2 DEF MarkStep, sentVars
  <2>4. pc' = [pc EXCEPT ![d] = onward] \/ pc' = [pc EXCEPT ![d] = "mark_put"]
    BY <1>2 DEF MarkStep, Enqueue
  <2>5. pc[d] \in {"drain", "mark_lock"} BY <1>2 DEF MarkStep
  <2>6. \A e \in Directions : pc'[e] = pc[e] \/ (e = d /\ pc'[d] # "lock" /\ pc[d] \in {"drain", "mark_lock"})
    BY <2>4, <2>5 DEF TypeOK, DrainNext
  <2>7. PumpsFit(pos)' BY <1>0, <1>c, <2>3, <2>6 DEF PumpsFit
  <2>8. History(pos, full)' BY <1>0, <1>a, <2>1, <2>2, <2>3, <2>7, HistoryFrame
  <2> QED BY <2>8 DEF HistoryInv
<1>3. CASE PutAccepted(d)
  <2>1. Appends' \subseteq Appends BY <1>3, QuietFlight
  <2>2. UNCHANGED <<seq, job, chunk, sent>> BY <1>3 DEF PutAccepted, jobVars, sentVars
  <2>3. \A e \in Directions : pc'[e] = pc[e] \/ (e = d /\ pc'[d] # "lock" /\ pc[d] \in {"put", "mark_put"})
    BY <1>3 DEF PutAccepted, TypeOK
  <2>4. PumpsFit(pos)' BY <1>0, <1>c, <2>2, <2>3 DEF PumpsFit
  <2>5. History(pos, full)' BY <1>0, <1>a, <2>1, <2>2, <2>4, HistoryFrame
  <2> QED BY <2>5 DEF HistoryInv
<1>4. ASSUME NEW l, MoveStep(d, l) PROVE HistoryInv'
  <2>1. Appends' \subseteq Appends BY <1>4, QuietFlight
  <2>2. UNCHANGED <<seq, job>> /\ pc' = [pc EXCEPT ![d] = l] BY <1>4 DEF MoveStep, jobVars
  <2>3. /\ pc'[d] = l /\ \A e \in Directions \ {d} : pc'[e] = pc[e]
        /\ \A e \in Directions \ {d} : chunk'[e] = chunk[e] /\ sent'[e] = sent[e]
    BY <1>4, <2>2 DEF MoveStep, ReadBytes, sentVars, TypeOK
  <2>4. pos[seq][d] \in Nat /\ sent[d] \in Nat BY <1>0, <1>d
  <2>5. /\ pos[seq][d] <= sent'[d]
        /\ l = "lock" => chunk'[d].from = pos[seq][d] /\ sent'[d] = pos[seq][d] + chunk'[d].len
        /\ policy = "continue" \/ l \notin {"lock", "raised", "cancelled"} => sent'[d] = pos[seq][d]
    <3>1. CASE \E n \in Sizes : ReadBytes(d, n)
      <4>1. PICK n \in Sizes : ReadBytes(d, n) BY <3>1
      <4>2. sent'[d] = sent[d] + n /\ n \in Nat BY <1>0, <4>1 DEF ReadBytes
      <4>3. CASE l = "raised"
        <5>1. policy = "abort" BY <1>4, <4>3 DEF MoveStep
        <5> QED BY <1>c, <2>4, <4>2, <4>3, <5>1 DEF PumpsFit
      <4>4. CASE l # "raised"
        <5>1. PICK m \in Sizes : /\ ReadBytes(d, m) /\ pc[d] = "read" /\ l = "lock" /\ policy = "abort"
                                 /\ chunk' = [chunk EXCEPT ![d] = [seq |-> 0, from |-> sent[d], len |-> m]]
          <6>1. n \in Nat \ {0} BY <4>1, ReadType
          <6>2. sent' # sent BY <2>4, <4>2, <6>1
          <6>3. ~UNCHANGED sentVars BY <6>2 DEF sentVars
          <6> QED BY <1>4, <4>4, <6>3 DEF MoveStep
        <5>2. sent'[d] = sent[d] + m /\ m \in Nat BY <1>0, <5>1 DEF ReadBytes
        <5>3. chunk'[d].from = sent[d] /\ chunk'[d].len = m BY <5>1 DEF TypeOK
        <5>4. sent[d] = pos[seq][d] BY <1>c, <5>1 DEF PumpsFit
        <5> QED BY <2>4, <5>1, <5>2, <5>3, <5>4
      <4> QED BY <4>3, <4>4
    <3>2. CASE ~\E n \in Sizes : ReadBytes(d, n)
      <4>1. sent' = sent /\ l # "lock" BY <1>4, <3>2 DEF MoveStep, sentVars
      <4>2. l \notin {"lock", "raised", "cancelled"} => pc[d] \in {"read", "drain"}
        BY <1>4 DEF MoveStep
      <4> QED BY <1>c, <4>1, <4>2 DEF PumpsFit
    <3> QED BY <3>1, <3>2
  <2>6. PumpsFit(pos)' 
    <3>1. ASSUME NEW e \in Directions
          PROVE  /\ pos[seq][e] <= sent'[e]
                 /\ pc'[e] = "lock" => chunk'[e].from = pos[seq][e] /\ sent'[e] = pos[seq][e] + chunk'[e].len
                 /\ policy = "continue" \/ pc'[e] \notin {"lock", "raised", "cancelled"} =>
                      sent'[e] = pos[seq][e]
      <4>1. CASE e = d BY <2>3, <2>5, <4>1
      <4>2. CASE e # d BY <1>c, <2>3, <4>2 DEF PumpsFit
      <4> QED BY <4>1, <4>2
    <3> QED BY <1>0, <2>2, <3>1 DEF PumpsFit
  <2>7. History(pos, full)' BY <1>0, <1>a, <2>1, <2>2, <2>6, HistoryFrame
  <2> QED BY <2>7 DEF HistoryInv
<1> QED BY <1>1, <1>2, <1>3, <1>4 DEF PumpStep

-----------------------------------------------------------------------------
(* The session.                                                            *)

\* The session cancels pumps and seals the recorder; it touches nothing that is stored.
LEMMA SessionStep ==
  ASSUME Inv, Session \/ Shutdown PROVE Inv'
<1>1. UNCHANGED sessionFrame /\ phase # "ended"
  BY DEF Session, FirstPumpEnds, TailTimeout, Finalize, EndUnsealed, Shutdown
<1>2. UNCHANGED <<policy, pc, after, chunk, sent, chunks, lock, held, seq, job, drained, degraded, queue,
                  errors, wpc, cmd, raw, maximum, pending, skipped, next, timeline, published, faults>>
  BY <1>1 DEF sessionFrame, sentVars, queueVars, diskVars
<1>3. /\ phase' \in {"tail", "closing", "unwinding", "unsealed", "ended"} /\ shutdown' \in BOOLEAN
      /\ cancel' \in [Directions -> BOOLEAN] /\ active' \in BOOLEAN /\ finalizing' \in BOOLEAN
  BY DEF Inv, TypeOK, Session, FirstPumpEnds, TailTimeout, Finalize, EndUnsealed, Shutdown, CancelPumps
<1>4. TypeOK' BY <1>2, <1>3 DEF Inv, TypeOK
<1>5. LockInv' /\ ChunkInv' /\ CountInv'
  BY <1>2 DEF Inv, ControlInv, LockInv, ChunkInv, Unmarked, CountInv, Waiting
<1>6. ~finalizing /\ (active \/ wpc = "none") BY <1>1 DEF Inv, ControlInv, SealInv
<1>7. SealInv'
  <2>1. CASE Finalize BY <1>2, <2>1 DEF Finalize, SealInv, AllEnded
  <2>2. CASE EndUnsealed BY <1>2, <2>2 DEF EndUnsealed, SealInv, AllEnded
  <2>3. CASE ~Finalize /\ ~EndUnsealed
    <3>1. phase' # "ended" /\ UNCHANGED <<active, finalizing>>
      BY <2>3 DEF Session, FirstPumpEnds, TailTimeout, Shutdown, CancelPumps
    <3> QED BY <1>2, <1>6, <3>1 DEF SealInv
  <2> QED BY <2>1, <2>2, <2>3
<1>8. WorkerInv' BY <1>1, <1>2, <1>6 DEF Inv, ControlInv, WorkerInv
<1>9. InFlight' = InFlight /\ Appends' = Appends /\ Drains' = Drains
  BY <1>2 DEF InFlight, Appends, Drains
<1>10. SpoolInv'
  BY <1>2, <1>9 DEF Inv, SpoolInv, TimelineInv, DrainInv, Outcome, NothingLost, ListedInv
<1>11. HistoryInv'
  <2>1. PICK pos, full : History(pos, full) BY DEF Inv, HistoryInv
  <2>2. PumpsFit(pos)' BY <1>2, <2>1 DEF History, PumpsFit
  <2>3. History(pos, full)' BY <1>2, <1>9, <2>1, <2>2, HistoryFrame
  <2> QED BY <2>3 DEF HistoryInv
<1>12. ReadyIsComplete' /\ PublishedLacksOnlyOverflow'
  BY <1>2 DEF Inv, ReadyIsComplete, EvidenceComplete, PublishedLacksOnlyOverflow, Bytes
<1> QED BY <1>4, <1>5, <1>7, <1>8, <1>10, <1>11, <1>12 DEF Inv, ControlInv

\* A pump steps only while nothing is published.
LEMMA PumpStepInv ==
  ASSUME Inv, NEW d \in Directions, Forward(d) \/ StreamEnds(d) \/ Relay(d) PROVE Inv'
<1> USE DEF Inv, ControlInv
<1>1. PumpStep(d) /\ UNCHANGED pumpFrame BY PumpCases
<1>2. TypeOK'
  <2>1. CASE \E n \in Nat : RecordStep(d, n) BY <1>1, <2>1, RecordType
  <2>2. CASE \E completed \in BOOLEAN, onward \in DrainNext \cup {"raised"} : MarkStep(d, completed, onward)
    BY <1>1, <2>2, MarkType
  <2>3. CASE PutAccepted(d) BY <2>3, PutType
  <2>4. CASE \E l : MoveStep(d, l) BY <1>1, <2>4, MoveType
  <2> QED BY <1>1, <2>1, <2>2, <2>3, <2>4 DEF PumpStep
<1>3. ControlInv' BY <1>1, PumpWorkerInv, PumpLockInv, PumpChunkInv
<1>4. SpoolInv' BY <1>1, PumpSpoolInv
<1>5. HistoryInv' BY <1>1, PumpHistory
<1>6. published' = "no" BY <1>1, PumpsBeforeSeal DEF pumpFrame
<1>7. ReadyIsComplete' /\ PublishedLacksOnlyOverflow'
  BY <1>6 DEF ReadyIsComplete, EvidenceComplete, PublishedLacksOnlyOverflow
<1> QED BY <1>2, <1>3, <1>4, <1>5, <1>7

-----------------------------------------------------------------------------
(* The worker.                                                             *)

\* What the worker writes to a file.
LEMMA WrittenType ==
  ASSUME TypeOK, cmd \in AppendCommand, NEW n \in Nat,
         raw' = [raw EXCEPT ![cmd.dir] = @ \o Written(cmd, n)]
  PROVE  /\ raw' \in [Directions -> Seq(Nat)] /\ cmd.dir \in Directions
         /\ \A d \in Directions \ {cmd.dir} : raw'[d] = raw[d]
         /\ Len(raw'[cmd.dir]) = Len(raw[cmd.dir]) + n
         /\ cmd.from = Len(raw[cmd.dir]) /\ raw[cmd.dir] = Bytes(Len(raw[cmd.dir])) =>
              raw'[cmd.dir] = Bytes(Len(raw[cmd.dir]) + n)
         /\ n = 0 => raw' = raw
<1>1. cmd.dir \in Directions /\ cmd.from \in Nat BY DEF AppendCommand
<1> DEFINE s == raw[cmd.dir]
           t == Written(cmd, n)
<1>2. s \in Seq(Nat) /\ raw \in [Directions -> Seq(Nat)] /\ Len(s) \in Nat BY <1>1 DEF TypeOK
<1>3. t \in Seq(Nat) /\ Len(t) = n /\ \A i \in 1..n : t[i] = cmd.from + i BY <1>1 DEF Written
<1>4. raw' = [raw EXCEPT ![cmd.dir] = s \o t] OBVIOUS
<1> HIDE DEF s, t
<1>5. /\ s \o t \in Seq(Nat) /\ Len(s \o t) = Len(s) + n
      /\ \A i \in 1..(Len(s) + n) : (s \o t)[i] = IF i <= Len(s) THEN s[i] ELSE t[i - Len(s)]
  <2>1. /\ s \o t \in Seq(Nat) /\ Len(s \o t) = Len(s) + Len(t)
        /\ \A i \in 1..(Len(s) + Len(t)) : (s \o t)[i] = IF i <= Len(s) THEN s[i] ELSE t[i - Len(s)]
    BY <1>2, <1>3, ConcatProperties
  <2> QED BY <1>3, <2>1
<1>6. /\ raw' \in [Directions -> Seq(Nat)] /\ raw'[cmd.dir] = s \o t
      /\ \A d \in Directions \ {cmd.dir} : raw'[d] = raw[d]
  BY <1>1, <1>2, <1>4, <1>5
<1>7. ASSUME cmd.from = Len(s), s = Bytes(Len(s)) PROVE s \o t = Bytes(Len(s) + n)
  <2>1. \A i \in 1..Len(s) : s[i] = i BY <1>2, <1>7 DEF Bytes
  <2>2. ASSUME NEW i \in 1..(Len(s) + n) PROVE (s \o t)[i] = i
    <3>1. CASE i <= Len(s) BY <1>2, <1>5, <2>1, <3>1
    <3>2. CASE i > Len(s)
      <4>1. i - Len(s) \in 1..n BY <1>2, <3>2
      <4>2. t[i - Len(s)] = i BY <1>2, <1>3, <1>7, <4>1
      <4> QED BY <1>2, <1>5, <3>2, <4>2
    <3>3. i <= Len(s) \/ i > Len(s) BY <1>2
    <3> QED BY <3>1, <3>2, <3>3
  <2>3. /\ Bytes(Len(s) + n) \in Seq(Nat) /\ Len(Bytes(Len(s) + n)) = Len(s) + n
        /\ \A i \in 1..(Len(s) + n) : Bytes(Len(s) + n)[i] = i
    BY <1>2 DEF Bytes
  <2> HIDE DEF Bytes
  <2> QED BY <1>5, <2>2, <2>3, SeqEqual
<1>8. ASSUME n = 0 PROVE raw' = raw
  <2>1. Len(s \o t) = Len(s) /\ \A i \in 1..Len(s) : (s \o t)[i] = s[i] BY <1>2, <1>5, <1>8
  <2>2. s \o t = s BY <1>2, <1>5, <2>1
  <2> QED BY <1>1, <1>2, <1>4, <2>2 DEF s
<1> QED BY <1>1, <1>5, <1>6, <1>7, <1>8 DEF s

\* _flush_ready_timeline moves a prefix of the pending events to the timeline file.
LEMMA FlushInv ==
  ASSUME TypeOK, TimelineInv, NEW maxi \in maximum..seq, NEW pend \in Events, NEW skip \in SUBSET Seqs,
         DOMAIN pend \cup skip = next..maxi, DOMAIN pend \cap skip = {}, NEW force \in BOOLEAN,
         Flush(maxi, pend, skip, force), seq' = seq
  PROVE  /\ TimelineInv' /\ maximum' = maxi /\ next' \in 1..(MaxChunks + 1)
         /\ pending' \in Events /\ timeline' \in Events /\ skipped' \subseteq skip
         /\ DOMAIN pending' \subseteq DOMAIN pend /\ \A n \in DOMAIN pending' : pending'[n] = pend[n]
         /\ DOMAIN timeline' = DOMAIN timeline \cup {m \in DOMAIN pend : m < next'}
         /\ \A n \in DOMAIN timeline : timeline'[n] = timeline[n]
         /\ \A m \in DOMAIN pend : m < next' => timeline'[m] = pend[m] /\ (force \/ pend[m] # "unknown")
         /\ skip = {} /\ DOMAIN timeline = 1..(next - 1) => DOMAIN timeline' = 1..(next' - 1)
         /\ force => next' = maxi + 1
<1> USE LiveCaptureAssumption
<1>0. /\ next \in Nat /\ next >= 1 /\ maximum \in Nat /\ seq \in 0..MaxChunks /\ maxi \in Nat
      /\ maximum <= maxi /\ maxi <= seq /\ next <= maximum + 1
      /\ \A n \in DOMAIN timeline : n < next
  BY DEF TypeOK, TimelineInv
<1>1. /\ next' \in next..(maxi + 1) /\ maximum' = maxi
      /\ skipped' = {n \in skip : n >= next'}
      /\ pending' = [n \in DOMAIN pend \ {m \in DOMAIN pend : m < next'} |-> pend[n]]
      /\ timeline' = [n \in DOMAIN timeline \cup {m \in DOMAIN pend : m < next'} |->
                        IF n \in {m \in DOMAIN pend : m < next'} THEN pend[n] ELSE timeline[n]]
      /\ \A k \in next..(next' - 1) : FlushReady(pend, skip, force, k)
      /\ next' = maxi + 1 \/ ~FlushReady(pend, skip, force, next')
  <2> DEFINE Ready(n) == FlushReady(pend, skip, force, n)
             Halt(n)  == (\A k \in next..(n - 1) : Ready(k)) /\ (n = maxi + 1 \/ ~Ready(n))
             S == {n \in next..(maxi + 1) : n = maxi + 1 \/ ~Ready(n)}
  <2>1. \E n \in next..(maxi + 1) : Halt(n)
    <3> HIDE DEF Ready
    <3>1. maxi + 1 \in S /\ S \in SUBSET Nat BY <1>0
    <3>2. PICK x \in S : \A y \in S : x <= y BY <3>1, LeastNumber
    <3>3. ASSUME NEW k \in next..(x - 1) PROVE Ready(k)
      <4>1. k \in next..(maxi + 1) /\ ~(x <= k) BY <1>0, <3>2
      <4> QED BY <3>2, <4>1
    <3> QED BY <3>2, <3>3
  <2>2. next' = CHOOSE n \in next..(maxi + 1) : Halt(n) BY DEF Flush, FlushReady
  <2>3. /\ skipped' = {n \in skip : n >= next'} /\ maximum' = maxi
        /\ pending' = [n \in DOMAIN pend \ {m \in DOMAIN pend : m < next'} |-> pend[n]]
        /\ timeline' = [n \in DOMAIN timeline \cup {m \in DOMAIN pend : m < next'} |->
                          IF n \in {m \in DOMAIN pend : m < next'} THEN pend[n] ELSE timeline[n]]
    BY DEF Flush
  <2> HIDE DEF Halt
  <2>4. next' \in next..(maxi + 1) /\ Halt(next') BY <2>1, <2>2
  <2>5. /\ \A k \in next..(next' - 1) : FlushReady(pend, skip, force, k)
        /\ next' = maxi + 1 \/ ~FlushReady(pend, skip, force, next')
    BY <2>4 DEF Halt
  <2> QED BY <2>3, <2>4, <2>5
<1>2. PICK nx : nx = next' OBVIOUS
<1>3. /\ pend \in [DOMAIN pend -> Drain] /\ DOMAIN pend \subseteq Seqs
      /\ timeline \in [DOMAIN timeline -> Drain] /\ DOMAIN timeline \subseteq Seqs
  BY DEF Events, TypeOK
<1>4. nx \in Nat /\ nx >= next /\ nx <= maxi + 1 BY <1>0, <1>1, <1>2
<1>5. nx \in 1..(MaxChunks + 1) BY <1>0, <1>4
<1>6. \A n \in DOMAIN pend : n \in Nat /\ n >= next /\ n <= maxi /\ n \notin DOMAIN timeline
  BY <1>0
<1>7. DOMAIN pending' = {n \in DOMAIN pend : n >= nx} /\ \A n \in DOMAIN pending' : pending'[n] = pend[n]
  <2>1. \A n \in DOMAIN pend : ~(n < nx) <=> n >= nx BY <1>4, <1>6
  <2> QED BY <1>1, <1>2, <2>1
<1>8. /\ DOMAIN timeline' = DOMAIN timeline \cup {m \in DOMAIN pend : m < nx}
      /\ \A n \in DOMAIN timeline : timeline'[n] = timeline[n]
      /\ \A m \in DOMAIN pend : m < nx => timeline'[m] = pend[m]
  BY <1>1, <1>2, <1>6
<1>9. pending' \in Events
  <2>1. pending' \in [DOMAIN pending' -> Drain] /\ DOMAIN pending' \subseteq Seqs BY <1>1, <1>3, <1>7
  <2> QED BY <2>1 DEF Events
<1>10. timeline' \in Events
  <2>1. timeline' \in [DOMAIN timeline' -> Drain] /\ DOMAIN timeline' \subseteq Seqs BY <1>1, <1>3, <1>8
  <2> QED BY <2>1 DEF Events
<1>11. \A m \in DOMAIN pend : m < nx => (force \/ pend[m] # "unknown")
  <2> SUFFICES ASSUME NEW m \in DOMAIN pend, m < nx PROVE force \/ pend[m] # "unknown" OBVIOUS
  <2>1. m \in next..(nx - 1) /\ m \notin skip BY <1>0, <1>4, <1>6
  <2>2. FlushReady(pend, skip, force, m) BY <1>1, <1>2, <2>1
  <2> QED BY <2>1, <2>2 DEF FlushReady
<1>12. TimelineInv'
  <2>1. skipped' = {n \in skip : n >= nx} BY <1>1, <1>2
  <2>2. DOMAIN pending' \cup skipped' = {n \in next..maxi : n >= nx} BY <1>7, <2>1
  <2>3. {n \in next..maxi : n >= nx} = nx..maxi BY <1>0, <1>4
  <2>4. DOMAIN pending' \cap skipped' = {} BY <1>7, <2>1
  <2>5. \A n \in DOMAIN timeline' : n < nx
    <3>1. ASSUME NEW n \in DOMAIN timeline PROVE n < nx
      <4>1. n \in Nat /\ n < next BY <1>0, <1>3 DEF Seqs
      <4> QED BY <1>0, <1>4, <4>1
    <3> QED BY <1>8, <3>1
  <2>6. maximum' <= seq' /\ next' <= maximum' + 1 BY <1>0, <1>1, <1>2, <1>4
  <2> QED BY <1>1, <1>2, <2>2, <2>3, <2>4, <2>5, <2>6 DEF TimelineInv
<1>13. skip = {} /\ DOMAIN timeline = 1..(next - 1) => DOMAIN timeline' = 1..(nx - 1)
  <2> SUFFICES ASSUME skip = {}, DOMAIN timeline = 1..(next - 1) PROVE DOMAIN timeline' = 1..(nx - 1)
    OBVIOUS
  <2>1. DOMAIN timeline' = 1..(next - 1) \cup {m \in next..maxi : m < nx} BY <1>8
  <2>2. \A n : n \in 1..(next - 1) \cup {m \in next..maxi : m < nx} <=> n \in 1..(nx - 1)
    BY <1>0, <1>4
  <2> QED BY <2>1, <2>2
<1>14. force => nx = maxi + 1
  BY <1>0, <1>1, <1>2, <1>4 DEF FlushReady
<1> QED BY <1>1, <1>2, <1>5, <1>7, <1>8, <1>9, <1>10, <1>11, <1>12, <1>13, <1>14

\* A queue that is not empty gives a command.
LEMMA NextFlight ==
  ASSUME TypeOK, WorkerInv, NextCommand
  PROVE  /\ cmd' \in Command /\ queue' \in Seq(Command) /\ Len(queue') <= QueueSize
         /\ InFlight' = InFlight
<1>1. /\ wpc = "wait" /\ queue # <<>> /\ queue \in Seq(Command) /\ held' = held
      /\ cmd' = Head(queue) /\ queue' = Tail(queue) /\ cmd = NoCommand /\ Len(queue) <= QueueSize
  BY DEF NextCommand, TypeOK, WorkerInv, workerFrame
<1> HIDE DEF Command
<1>2. /\ Head(queue) = queue[1] /\ Head(queue) \in Command /\ Len(queue) \in Nat \ {0}
      /\ Tail(queue) \in Seq(Command) /\ Len(Tail(queue)) = Len(queue) - 1
      /\ \A i \in 1..(Len(queue) - 1) : Tail(queue)[i] = queue[i + 1]
  BY <1>1, HeadTailProperties
<1>3. Len(queue') <= QueueSize BY <1>1, <1>2, LiveCaptureAssumption
<1>4. NoCommand.op = "none" BY DEF NoCommand
<1>5. \A x : (\E i \in 1..Len(queue) : queue[i] = x)
               <=> x = cmd' \/ \E i \in 1..Len(queue') : queue'[i] = x
  <2>1. ASSUME NEW x, NEW i \in 1..Len(queue), queue[i] = x
        PROVE  x = cmd' \/ \E j \in 1..Len(queue') : queue'[j] = x
    <3>1. CASE i = 1 BY <1>1, <1>2, <2>1, <3>1
    <3>2. CASE i # 1
      <4>1. i - 1 \in 1..Len(queue') BY <1>1, <1>2, <3>2
      <4>2. queue'[i - 1] = queue[i] BY <1>1, <1>2, <4>1
      <4> QED BY <2>1, <4>1, <4>2
    <3> QED BY <3>1, <3>2
  <2>2. ASSUME NEW i \in 1..Len(queue') PROVE i + 1 \in 1..Len(queue) /\ queue'[i] = queue[i + 1]
    BY <1>1, <1>2
  <2>3. 1 \in 1..Len(queue) /\ queue[1] = cmd' BY <1>1, <1>2
  <2> QED BY <2>1, <2>2, <2>3
<1>6. \A x : x \in InFlight' <=>
        x.op # "none" /\ (x = cmd' \/ x = held \/ \E i \in 1..Len(queue') : queue'[i] = x)
  BY <1>1 DEF InFlight
<1>7. InFlight' = InFlight BY <1>1, <1>4, <1>5, <1>6, InFlightIs
<1> QED BY <1>1, <1>2, <1>3, <1>7

\* A command leaves the flight when it has been executed, or has failed.
LEMMA ExecFlight ==
  ASSUME TypeOK, WorkerInv, wpc = "busy", cmd' = NoCommand, queue' = queue, held' = held
  PROVE  /\ cmd \in InFlight /\ InFlight' \subseteq InFlight /\ InFlight \subseteq InFlight' \cup {cmd}
         /\ cmd.op = "append" => cmd \in AppendCommand /\ cmd \in Appends
         /\ cmd.op = "drain" => cmd \in DrainCommand /\ cmd \in Drains
<1>1. cmd \in Command BY DEF TypeOK, WorkerInv
<1>2. cmd.op \in {"append", "drain"} BY <1>1, CommandOp
<1>3. NoCommand.op = "none" BY DEF NoCommand
<1>4. cmd \in InFlight /\ InFlight' \subseteq InFlight /\ InFlight \subseteq InFlight' \cup {cmd}
  BY <1>2, <1>3 DEF InFlight
<1>5. cmd.op = "append" => cmd \in AppendCommand BY <1>1 DEF Command, AppendCommand, DrainCommand
<1>6. cmd.op = "drain" => cmd \in DrainCommand BY <1>1 DEF Command, AppendCommand, DrainCommand
<1> QED BY <1>4, <1>5, <1>6 DEF Appends, Drains

\* What the worker leaves alone.
LEMMA WorkerFrame ==
  ASSUME Worker
  PROVE  /\ UNCHANGED <<policy, phase, shutdown, pc, cancel, after, chunk, sent, chunks, lock, held,
                        active, seq, drained, degraded, finalizing>>
         /\ wpc \in {"begin", "wait", "busy", "publish", "abandon", "cleanup"}
BY DEF Worker, BeginLive, NextCommand, AppendRaw, MarkDrain, CommandFails, Seal, Publish, PublishFails,
       CloseIncomplete, workerFrame, pumpVars, sentVars

LEMMA WorkerControl ==
  ASSUME TypeOK, ControlInv, Worker PROVE ControlInv'
<1> USE DEF ControlInv
<1>1. /\ UNCHANGED <<policy, phase, shutdown, pc, cancel, after, chunk, sent, chunks, lock, held,
                     active, seq, drained, degraded, finalizing>>
      /\ wpc \in {"begin", "wait", "busy", "publish", "abandon", "cleanup"}
  BY WorkerFrame
<1>2. LockInv' /\ ChunkInv' /\ CountInv' BY <1>1 DEF LockInv, ChunkInv, Unmarked, CountInv, Waiting
<1>3. SealInv' BY <1>1 DEF SealInv, AllEnded
<1>4. WorkerInv'
  <2>1. CASE BeginLive BY <1>1, <2>1 DEF BeginLive, StorageFails, WorkerInv
  <2>2. CASE NextCommand
    <3>1. cmd' # NoCommand BY <2>2, NextFlight, CommandOp
    <3> QED BY <1>1, <2>2, <3>1 DEF NextCommand, WorkerInv
  <2>3. CASE AppendRaw BY <1>1, <2>3 DEF AppendRaw, WorkerInv
  <2>4. CASE MarkDrain BY <1>1, <2>4 DEF MarkDrain, WorkerInv
  <2>5. CASE CommandFails BY <1>1, <2>5 DEF CommandFails, StorageFails, WorkerInv
  <2>6. CASE Seal BY <1>1, <2>6 DEF Seal, WorkerInv
  <2>7. CASE Publish BY <1>1, <2>7 DEF Publish, WorkerInv
  <2>8. CASE PublishFails BY <1>1, <2>8 DEF PublishFails, StorageFails, WorkerInv
  <2>9. CASE CloseIncomplete BY <1>1, <2>9 DEF CloseIncomplete, WorkerInv
  <2> QED BY <2>1, <2>2, <2>3, <2>4, <2>5, <2>6, <2>7, <2>8, <2>9 DEF Worker
<1> QED BY <1>2, <1>3, <1>4

LEMMA WorkerType ==
  ASSUME TypeOK, Worker, errors' \in BOOLEAN, job' \in JobType,
         queue' \in Seq(Command), Len(queue') <= QueueSize, cmd' \in Command \cup {NoCommand},
         raw' \in [Directions -> Seq(Nat)], maximum' \in 0..MaxChunks, next' \in 1..(MaxChunks + 1),
         pending' \in Events, timeline' \in Events, skipped' \subseteq Seqs
  PROVE  TypeOK'
<1>1. UNCHANGED <<policy, phase, shutdown, pc, cancel, after, chunk, sent, chunks, lock, held,
                  active, seq, drained, degraded, finalizing>>
  BY WorkerFrame
<1>2. wpc' \in {"none", "begin", "wait", "busy", "publish", "abandon", "cleanup",
                "published", "incomplete", "failed", "cancelled"}
  BY DEF Worker, BeginLive, NextCommand, AppendRaw, MarkDrain, CommandFails, Seal, Publish, PublishFails,
         CloseIncomplete
<1>3. published' \in {"no", "ready", "ready_capture_incomplete"}
  BY DEF Worker, BeginLive, NextCommand, AppendRaw, MarkDrain, CommandFails, Seal, Publish, PublishFails,
         CloseIncomplete, Status, TypeOK
<1>4. faults' = faults \/ (faults < MaxFaults /\ faults' = faults + 1)
  BY DEF Worker, BeginLive, NextCommand, AppendRaw, MarkDrain, CommandFails, Seal, Publish, PublishFails,
         CloseIncomplete, Fault
<1>5. faults' \in 0..MaxFaults BY <1>4, LiveCaptureAssumption DEF TypeOK
<1>6. job' \in [stored : 0..MaxPayload, events : 0..MaxEvents,
               capture_complete : BOOLEAN, timeline_complete : BOOLEAN]
  BY DEF JobType
<1> HIDE DEF JobType
<1> QED BY <1>1, <1>2, <1>3, <1>5, <1>6 DEF TypeOK

\* The job as the worker leaves it.
LEMMA WorkerJob ==
  ASSUME TypeOK, Worker
  PROVE  /\ job' \in JobType /\ errors' \in BOOLEAN
         /\ \/ UNCHANGED <<job, errors>>
            \/ errors' = TRUE /\ job' = Incomplete(job)
         /\ job'.stored = job.stored /\ (job'.capture_complete => job' = job) /\ (errors => errors')
<1>1. job \in JobType /\ errors \in BOOLEAN BY DEF TypeOK, JobType
<1>2. \/ UNCHANGED <<job, errors>>
      \/ errors' = TRUE /\ job' = Incomplete(job)
  BY DEF Worker, BeginLive, NextCommand, AppendRaw, MarkDrain, CommandFails, Seal, Publish, PublishFails,
         CloseIncomplete, StorageFails
<1>3. job'.stored = job.stored /\ (job'.capture_complete => job' = job) /\ job' \in JobType
  BY <1>1, <1>2, IncompleteType
<1>4. (errors => errors') /\ errors' \in BOOLEAN BY <1>1, <1>2, Zenon
<1> QED BY <1>2, <1>3, <1>4

\* The recorded positions, when the worker has written nothing.
LEMMA WorkerHistory ==
  ASSUME TypeOK, HistoryInv, Worker, UNCHANGED <<raw, maximum>>, Appends' \subseteq Appends
  PROVE  HistoryInv'
<1>1. PICK pos, full : History(pos, full) BY DEF HistoryInv
<1>2. UNCHANGED <<seq, policy, pc, chunk, sent>> BY WorkerFrame
<1>3. PumpsFit(pos)' BY <1>1, <1>2 DEF History, PumpsFit
<1>4. /\ errors => errors'
      /\ job'.stored = job.stored
      /\ job'.capture_complete => job.capture_complete
  BY WorkerJob
<1>5. History(pos, full)' BY <1>1, <1>2, <1>3, <1>4, HistoryFrame
<1> QED BY <1>5 DEF HistoryInv

\* A step that publishes nothing leaves what is published as it is.
LEMMA WorkerPublished ==
  ASSUME Inv, Worker, published' = published, published # "no" => UNCHANGED <<raw, timeline>>
  PROVE  ReadyIsComplete' /\ PublishedLacksOnlyOverflow'
<1>1. UNCHANGED <<policy, sent, seq, drained>> BY WorkerFrame
<1>2. CASE published = "no"
  BY <1>2 DEF ReadyIsComplete, EvidenceComplete, PublishedLacksOnlyOverflow
<1>3. CASE published # "no"
  BY <1>1, <1>3 DEF Inv, ReadyIsComplete, EvidenceComplete, PublishedLacksOnlyOverflow, Bytes
<1> QED BY <1>2, <1>3

\* The worker between commands.
LEMMA QuietStep ==
  ASSUME Inv, Worker, BeginLive \/ NextCommand \/ Seal \/ CloseIncomplete PROVE Inv'
<1> USE DEF Inv
<1>1. UNCHANGED <<policy, seq, drained, degraded, held>> BY WorkerFrame
<1>2. UNCHANGED <<raw, maximum, pending, skipped, next, timeline, published>>
  BY DEF BeginLive, NextCommand, Seal, CloseIncomplete, diskVars
<1>3. /\ InFlight' = InFlight /\ queue' \in Seq(Command) /\ Len(queue') <= QueueSize
      /\ cmd' \in Command \cup {NoCommand}
  <2>1. CASE NextCommand BY <2>1, NextFlight DEF ControlInv
  <2>2. CASE ~NextCommand
    <3>1. cmd' = cmd /\ queue' = queue
      BY <2>2 DEF BeginLive, Seal, CloseIncomplete, StorageFails, ControlInv, WorkerInv
    <3> QED BY <1>1, <3>1 DEF InFlight, TypeOK
  <2> QED BY <2>1, <2>2
<1>4. Appends' = Appends /\ Drains' = Drains BY <1>3 DEF Appends, Drains
<1>5. TypeOK' BY <1>2, <1>3, WorkerType, WorkerJob DEF TypeOK
<1>6. ControlInv' BY WorkerControl
<1>7. TimelineInv' BY <1>1, <1>2 DEF SpoolInv, TimelineInv
<1>8. wpc' \in {"none", "begin", "wait", "busy", "publish"} =>
        wpc \in {"none", "begin", "wait", "busy", "publish"}
  BY DEF BeginLive, NextCommand, Seal, CloseIncomplete
<1>9. DrainInv' BY <1>1, <1>2, <1>4, <1>8 DEF SpoolInv, DrainInv, Outcome
<1>10. NothingLost' BY <1>1, <1>2, <1>4, WorkerJob, WorkerFrame DEF SpoolInv, NothingLost
<1>11. ListedInv' BY <1>2, <1>4, WorkerJob DEF SpoolInv, ListedInv
<1>12. HistoryInv' BY <1>2, <1>4, WorkerHistory
<1>13. ReadyIsComplete' /\ PublishedLacksOnlyOverflow' BY <1>2, WorkerPublished
<1> QED BY <1>5, <1>6, <1>7, <1>9, <1>10, <1>11, <1>12, <1>13 DEF SpoolInv

\* The worker gives up, with what it has.
LEMMA CancelStep ==
  ASSUME Inv, WorkerCancelled PROVE Inv'
<1> USE DEF Inv
<1>1. UNCHANGED <<policy, phase, shutdown, pc, cancel, after, chunk, sent, chunks, lock, held, active, seq,
                  job, drained, degraded, errors, queue, finalizing, raw, maximum, pending, skipped, next,
                  timeline, published, faults>>
  BY DEF WorkerCancelled, workerFrame, pumpVars, sentVars, diskVars
<1>2. phase = "ended" /\ wpc # "none" /\ wpc' = "cancelled" /\ cmd' = NoCommand
  BY DEF WorkerCancelled
<1>3. TypeOK' BY <1>1, <1>2 DEF TypeOK
<1>4. InFlight' \subseteq InFlight /\ Appends' \subseteq Appends /\ Drains' \subseteq Drains
  <2>1. NoCommand.op = "none" BY DEF NoCommand
  <2>2. InFlight' \subseteq InFlight BY <1>1, <1>2, <2>1 DEF InFlight
  <2> QED BY <2>2 DEF Appends, Drains
<1>5. LockInv' /\ ChunkInv' /\ CountInv' /\ SealInv'
  BY <1>1, <1>2 DEF ControlInv, LockInv, ChunkInv, Unmarked, CountInv, Waiting, SealInv, AllEnded
<1>6. WorkerInv' BY <1>1, <1>2 DEF ControlInv, WorkerInv
<1>7. SpoolInv'
  BY <1>1, <1>2, <1>4 DEF SpoolInv, TimelineInv, DrainInv, Outcome, NothingLost, ListedInv
<1>8. HistoryInv'
  <2>1. PICK pos, full : History(pos, full) BY DEF HistoryInv
  <2>2. PumpsFit(pos)' BY <1>1, <2>1 DEF History, PumpsFit
  <2>3. History(pos, full)' BY <1>1, <1>4, <2>1, <2>2, HistoryFrame
  <2> QED BY <2>3 DEF HistoryInv
<1>9. ReadyIsComplete' /\ PublishedLacksOnlyOverflow'
  BY <1>1 DEF ReadyIsComplete, EvidenceComplete, PublishedLacksOnlyOverflow, Bytes
<1> QED BY <1>3, <1>5, <1>6, <1>7, <1>8, <1>9 DEF ControlInv

\* A write reaches the positions that were recorded for its chunk, or a part of them.
LEMMA WriteFits ==
  ASSUME TypeOK, TimelineInv, WorkerInv, wpc = "busy", cmd \in AppendCommand, cmd \in Appends,
         cmd.seq = maximum + 1, NEW pos, NEW full, History(pos, full), NEW n \in 0..cmd.len,
         raw' = [raw EXCEPT ![cmd.dir] = @ \o Written(cmd, n)]
  PROVE  /\ \A d \in Directions : Len(raw'[d]) <= pos[seq][d] /\ raw'[d] = Bytes(Len(raw'[d]))
         /\ n = cmd.len => IF maximum + 1 <= full
                           THEN \A d \in Directions : Len(raw'[d]) = pos[maximum + 1][d]
                           ELSE Total([d \in Directions |-> Len(raw'[d])]) = MaxPayload
<1> USE LiveCaptureAssumption
<1> DEFINE c == cmd.dir
<1>1. cmd.len \in Nat /\ n \in Nat /\ n <= cmd.len /\ cmd.from \in Nat BY DEF AppendCommand
<1>2. /\ raw' \in [Directions -> Seq(Nat)] /\ c \in Directions
      /\ \A d \in Directions \ {c} : raw'[d] = raw[d]
      /\ Len(raw'[c]) = Len(raw[c]) + n
      /\ cmd.from = Len(raw[c]) /\ raw[c] = Bytes(Len(raw[c])) => raw'[c] = Bytes(Len(raw[c]) + n)
      /\ n = 0 => raw' = raw
  BY <1>1, WrittenType
<1>3. ~errors /\ maximum \in 0..MaxChunks /\ seq \in Nat /\ full \in 0..seq /\ maximum + 1 \in 1..seq
      /\ maximum \in 0..seq
  <2>1. ~errors /\ maximum \in 0..MaxChunks /\ seq \in Nat /\ full \in 0..seq
    BY DEF WorkerInv, TypeOK, History, Kind
  <2>2. maximum + 1 \in 1..seq BY DEF History, CommandsFit
  <2> QED BY <2>1, <2>2
<1>4. /\ pos \in [0..seq -> [Directions -> Nat]]
      /\ \A k \in 0..seq : \A m \in 0..k : \A d \in Directions : pos[m][d] <= pos[k][d]
  BY DEF History, Kind
<1> DEFINE p == pos[maximum]
           q == pos[maximum + 1]
<1>5. p \in [Directions -> Nat] /\ q \in [Directions -> Nat] /\ pos[seq] \in [Directions -> Nat]
  BY <1>3, <1>4
<1>6. \A d \in Directions : q[d] <= pos[seq][d]
  <2>1. maximum + 1 \in 0..seq /\ seq \in 0..seq BY <1>3
  <2> QED BY <1>4, <2>1
<1>7. /\ cmd.from = p[c] /\ cmd.from + cmd.len <= q[c]
      /\ \A d \in Directions \ {c} : q[d] = p[d]
      /\ maximum + 1 <= full => cmd.from + cmd.len = q[c]
      /\ maximum + 1 = full + 1 => cmd.len = MaxPayload - Total(pos[full])
      /\ maximum + 1 > full + 1 => cmd.len = 0
  <2>1. /\ cmd.from = pos[cmd.seq - 1][cmd.dir] /\ cmd.from + cmd.len <= pos[cmd.seq][cmd.dir]
        /\ \A e \in Directions \ {cmd.dir} : pos[cmd.seq][e] = pos[cmd.seq - 1][e]
        /\ cmd.seq <= full => cmd.from + cmd.len = pos[cmd.seq][cmd.dir]
        /\ cmd.seq = full + 1 => cmd.len = MaxPayload - Total(pos[full])
        /\ cmd.seq > full + 1 => cmd.len = 0
    BY DEF History, CommandsFit
  <2>2. cmd.seq - 1 = maximum BY <1>3
  <2> QED BY <2>1, <2>2
<1>8. /\ \A d \in Directions : Len(raw[d]) <= pos[seq][d] /\ raw[d] = Bytes(Len(raw[d]))
      /\ IF maximum <= full THEN \A d \in Directions : Len(raw[d]) = p[d] ELSE Total(Size) = MaxPayload
  BY <1>3 DEF History, RawFits
<1>9. \A d \in Directions : Len(raw[d]) \in Nat BY DEF TypeOK
<1> HIDE DEF p, q, c
<1>10. CASE maximum <= full
  <2>1. \A d \in Directions : Len(raw[d]) = p[d] BY <1>8, <1>10
  <2>2. raw'[c] = Bytes(Len(raw[c]) + n) /\ Len(raw'[c]) = p[c] + n BY <1>2, <1>7, <1>8, <2>1
  <2>3. p[c] + n <= q[c] BY <1>1, <1>2, <1>5, <1>7
  <2>4. Len(raw'[c]) <= pos[seq][c] BY <1>1, <1>2, <1>5, <1>6, <2>2, <2>3
  <2>5. \A d \in Directions : Len(raw'[d]) <= pos[seq][d] /\ raw'[d] = Bytes(Len(raw'[d]))
    BY <1>2, <1>8, <2>1, <2>2, <2>4
  <2>6. ASSUME n = cmd.len, maximum + 1 <= full, NEW d \in Directions PROVE Len(raw'[d]) = q[d]
    BY <1>2, <1>7, <2>1, <2>2, <2>6
  <2>7. ASSUME n = cmd.len, ~(maximum + 1 <= full)
        PROVE  Total([d \in Directions |-> Len(raw'[d])]) = MaxPayload
    <3>1. maximum = full BY <1>3, <1>10, <2>7
    <3>2. n = MaxPayload - Total(p) BY <1>3, <1>7, <2>7, <3>1 DEF p
    <3>3. [d \in Directions |-> Len(raw'[d])] = [p EXCEPT ![c] = p[c] + n]
      BY <1>2, <1>5, <2>1, <2>2
    <3>4. Total(p) \in Nat /\ Total([p EXCEPT ![c] = p[c] + n]) = Total(p) + n
      <4>1. p \in [Directions -> Nat] /\ c \in Directions /\ n \in Nat BY <1>1, <1>2, <1>5
      <4> QED BY ONLY <4>1, TotalStep
    <3> QED BY <3>2, <3>3, <3>4
  <2> QED BY <2>5, <2>6, <2>7 DEF q
<1>11. CASE ~(maximum <= full)
  <2>1. n = 0 /\ ~(maximum + 1 <= full) BY <1>1, <1>3, <1>7, <1>11
  <2>2. raw' = raw BY <1>2, <2>1
  <2> QED BY <1>8, <1>11, <2>1, <2>2 DEF Size
<1> QED BY <1>10, <1>11

\* LiveSpoolCapture.append: the chunk's bytes and its event.
LEMMA AppendStep ==
  ASSUME Inv, Worker, AppendRaw PROVE Inv'
<1> USE LiveCaptureAssumption DEF Inv, ControlInv, SpoolInv
<1> DEFINE s == cmd.seq
           pend == IF cmd.listed
                   THEN [n \in DOMAIN pending \cup {s} |-> IF n = s THEN drained[n] ELSE pending[n]]
                   ELSE pending
           skip == IF cmd.listed THEN skipped ELSE skipped \cup {s}
<1>1. UNCHANGED <<policy, seq, drained, degraded, held, pc, chunk, sent>> BY WorkerFrame
<1>2. /\ wpc = "busy" /\ cmd.op = "append" /\ s = maximum + 1 /\ wpc' = "wait" /\ cmd' = NoCommand
      /\ raw' = [raw EXCEPT ![cmd.dir] = @ \o Written(cmd, cmd.len)]
      /\ UNCHANGED <<queue, errors, job, published>>
  BY DEF AppendRaw
<1>3. Flush(s, pend, skip, FALSE) BY DEF AppendRaw
<1>4. /\ cmd \in AppendCommand /\ cmd \in Appends /\ InFlight' \subseteq InFlight
      /\ InFlight \subseteq InFlight' \cup {cmd}
  BY <1>1, <1>2, ExecFlight
<1>5. s \in Seqs /\ cmd.len \in Nat /\ cmd.listed \in BOOLEAN BY <1>4 DEF AppendCommand
<1>6. s \in maximum..seq /\ seq \in 0..MaxChunks /\ maximum \in Nat
  <2>1. s \in 1..seq BY <1>4 DEF HistoryInv, History, CommandsFit
  <2> QED BY <1>2, <2>1 DEF TypeOK
<1>7. next \in Nat /\ next <= maximum + 1 /\ DOMAIN pending \cup skipped = next..maximum
      /\ DOMAIN pending \cap skipped = {} /\ s \notin next..maximum
  BY <1>2, <1>6 DEF TypeOK, TimelineInv
<1>8. pending \in [DOMAIN pending -> Drain] /\ DOMAIN pending \subseteq Seqs /\ drained \in [Seqs -> Drain]
  BY DEF TypeOK, Events
<1>9. /\ DOMAIN pend = IF cmd.listed THEN DOMAIN pending \cup {s} ELSE DOMAIN pending
      /\ pend \in [DOMAIN pend -> Drain]
      /\ \A n \in DOMAIN pend : pend[n] = IF n = s THEN drained[n] ELSE pending[n]
  <2>1. CASE cmd.listed BY <1>5, <1>8, <2>1
  <2>2. CASE ~cmd.listed BY <1>7, <1>8, <2>2
  <2> QED BY <2>1, <2>2
<1>10. pend \in Events /\ skip \in SUBSET Seqs
  <2>1. DOMAIN pend \subseteq Seqs BY <1>5, <1>8, <1>9
  <2>2. pend \in Events BY <1>9, <2>1 DEF Events
  <2> QED BY <1>5, <2>2 DEF TypeOK
<1>11. DOMAIN pend \cup skip = next..s /\ DOMAIN pend \cap skip = {}
  <2>1. DOMAIN pend \cup skip = next..maximum \cup {s} BY <1>7, <1>9
  <2>2. next..maximum \cup {s} = next..s BY <1>2, <1>6, <1>7
  <2> QED BY <1>7, <1>9, <2>1, <2>2
<1> HIDE DEF pend, skip, s
<1>12. /\ TimelineInv' /\ maximum' = s /\ next' \in 1..(MaxChunks + 1)
       /\ pending' \in Events /\ timeline' \in Events /\ skipped' \subseteq skip
       /\ DOMAIN pending' \subseteq DOMAIN pend /\ \A n \in DOMAIN pending' : pending'[n] = pend[n]
       /\ DOMAIN timeline' = DOMAIN timeline \cup {m \in DOMAIN pend : m < next'}
       /\ \A n \in DOMAIN timeline : timeline'[n] = timeline[n]
       /\ \A m \in DOMAIN pend : m < next' => timeline'[m] = pend[m] /\ (FALSE \/ pend[m] # "unknown")
       /\ skip = {} /\ DOMAIN timeline = 1..(next - 1) => DOMAIN timeline' = 1..(next' - 1)
  <2>1. FALSE \in BOOLEAN OBVIOUS
  <2> QED BY <1>1, <1>3, <1>6, <1>10, <1>11, <2>1, FlushInv
<1>13. TypeOK'
  <2>1. raw' \in [Directions -> Seq(Nat)] BY <1>2, <1>4, <1>5, WrittenType
  <2>2. maximum' \in 0..MaxChunks BY <1>6, <1>12
  <2>3. skipped' \subseteq Seqs BY <1>10, <1>12
  <2>4. queue' \in Seq(Command) /\ Len(queue') <= QueueSize /\ cmd' \in Command \cup {NoCommand}
    BY <1>2 DEF TypeOK
  <2> QED BY <1>12, <2>1, <2>2, <2>3, <2>4, WorkerType, WorkerJob
<1>14. ControlInv' BY WorkerControl
<1>15. /\ Appends' \subseteq Appends /\ Appends \subseteq Appends' \cup {cmd} /\ Drains' = Drains
  BY <1>2, <1>4 DEF Appends, Drains
<1>16. \A n \in DOMAIN pend : pend[n] \in {"unknown", drained[n]}
  BY <1>9 DEF DrainInv
<1>17. DrainInv'
  <2>1. \A n \in DOMAIN pending' : pending'[n] \in {"unknown", drained'[n]}
    BY <1>1, <1>12, <1>16
  <2>2. \A n \in DOMAIN timeline' : timeline'[n] = drained'[n] /\ timeline'[n] # "unknown"
    <3>1. \A n \in DOMAIN timeline : timeline[n] = drained[n] /\ timeline[n] # "unknown"
      BY <1>2 DEF DrainInv
    <3> QED BY <1>1, <1>12, <1>16, <3>1
  <2> QED BY <1>1, <1>15, <2>1, <2>2 DEF DrainInv, Outcome
<1>18. NothingLost'
  <2> SUFFICES ASSUME policy = "continue", ~degraded, ~errors
               PROVE  /\ \A n \in (s + 1)..seq : \E c \in Appends' : c.seq = n
                      /\ \A n \in DOMAIN pending' :
                           pending'[n] # drained[n] => \E c \in Drains : c.seq = n
    BY <1>1, <1>2, <1>12, <1>15 DEF NothingLost
  <2>1. ASSUME NEW n \in (s + 1)..seq PROVE \E c \in Appends' : c.seq = n
    <3>1. n \in (maximum + 1)..seq /\ n # s BY <1>2, <1>6, <2>1
    <3>2. PICK c \in Appends : c.seq = n BY <3>1, WorkerFrame DEF NothingLost
    <3> QED BY <1>15, <3>1, <3>2 DEF s
  <2>2. ASSUME NEW n \in DOMAIN pending', pending'[n] # drained[n] PROVE \E c \in Drains : c.seq = n
    <3>1. n # s /\ n \in DOMAIN pending /\ pending[n] # drained[n] BY <1>9, <1>12, <2>2
    <3> QED BY <3>1, WorkerFrame DEF NothingLost
  <2> QED BY <2>1, <2>2
<1>19. ListedInv'
  <2> SUFFICES ASSUME job.capture_complete, job.timeline_complete
               PROVE  /\ \A c \in Appends' : c.listed
                      /\ skipped' = {} /\ DOMAIN timeline' = 1..(next' - 1)
    BY <1>2 DEF ListedInv
  <2>1. /\ \A c \in Appends : c.listed
        /\ skipped = {} /\ DOMAIN timeline = 1..(next - 1)
    BY DEF ListedInv
  <2>2. skip = {} BY <1>4, <2>1 DEF skip
  <2> QED BY <1>12, <1>15, <2>1, <2>2
<1>20. HistoryInv'
  <2>1. PICK pos, full : History(pos, full) BY DEF HistoryInv
  <2>2. cmd.len \in 0..cmd.len BY <1>5
  <2>3. /\ \A d \in Directions : Len(raw'[d]) <= pos[seq][d] /\ raw'[d] = Bytes(Len(raw'[d]))
        /\ IF maximum + 1 <= full THEN \A d \in Directions : Len(raw'[d]) = pos[maximum + 1][d]
           ELSE Total([d \in Directions |-> Len(raw'[d])]) = MaxPayload
    BY <1>2, <1>4, <2>1, <2>2, WriteFits DEF s
  <2>4. RawFits(pos, full)'
    BY <1>1, <1>2, <1>12, <2>3 DEF RawFits, Bytes, Total, Size
  <2>5. Kind(pos, full)' /\ CommandsFit(pos, full)' /\ JobFits(pos, full)' /\ PumpsFit(pos)'
    BY <1>1, <1>2, <1>15, <2>1 DEF History, Kind, CommandsFit, JobFits, PumpsFit, Total
  <2> QED BY <2>4, <2>5 DEF HistoryInv, History
<1>21. ReadyIsComplete' /\ PublishedLacksOnlyOverflow'
  BY <1>2, WorkerPublished DEF WorkerInv
<1> QED BY <1>12, <1>13, <1>14, <1>17, <1>18, <1>19, <1>20, <1>21

\* LiveSpoolCapture.mark_local_write_drain.
LEMMA MarkDrainStep ==
  ASSUME Inv, Worker, MarkDrain PROVE Inv'
<1> USE LiveCaptureAssumption DEF Inv, ControlInv, SpoolInv
<1> DEFINE s == cmd.seq
           pend == [pending EXCEPT ![s] = IF cmd.completed THEN "completed" ELSE "failed"]
<1>1. UNCHANGED <<policy, seq, drained, degraded, held>> BY WorkerFrame
<1>2. /\ wpc = "busy" /\ cmd.op = "drain" /\ wpc' = "wait" /\ cmd' = NoCommand
      /\ UNCHANGED <<queue, errors, job, raw, published>>
  BY DEF MarkDrain
<1>3. \/ s \in DOMAIN pending /\ Flush(maximum, pend, skipped, FALSE)
      \/ s \notin DOMAIN pending /\ UNCHANGED <<maximum, pending, skipped, next, timeline>>
  BY DEF MarkDrain
<1>4. /\ cmd \in DrainCommand /\ cmd \in Drains /\ InFlight' \subseteq InFlight
      /\ InFlight \subseteq InFlight' \cup {cmd}
  BY <1>1, <1>2, ExecFlight
<1>5. drained[s] = Outcome(cmd) BY <1>4 DEF DrainInv
<1>6. /\ pending \in [DOMAIN pending -> Drain] /\ DOMAIN pending \subseteq Seqs
      /\ skipped \in SUBSET Seqs /\ maximum \in Nat /\ seq \in Nat /\ maximum <= seq
  BY DEF TypeOK, Events, TimelineInv
<1>7. /\ Appends' = Appends /\ Drains' \subseteq Drains /\ Drains \subseteq Drains' \cup {cmd}
  BY <1>2, <1>4 DEF Appends, Drains
<1>8. queue' \in Seq(Command) /\ Len(queue') <= QueueSize /\ cmd' \in Command \cup {NoCommand}
      /\ raw' \in [Directions -> Seq(Nat)]
  BY <1>2 DEF TypeOK
<1>9. DOMAIN pend = DOMAIN pending /\ pend \in [DOMAIN pend -> Drain]
      /\ \A n \in DOMAIN pending : pend[n] = IF n = s THEN drained[n] ELSE pending[n]
  BY <1>5, <1>6 DEF Outcome, Drain
<1> HIDE DEF pend
<1>10. \A n \in DOMAIN pending : pend[n] \in {"unknown", drained[n]}
  BY <1>9 DEF DrainInv
<1>11. /\ maximum' = maximum /\ TimelineInv' /\ next' \in 1..(MaxChunks + 1)
       /\ pending' \in Events /\ timeline' \in Events /\ skipped' \subseteq skipped
       /\ DOMAIN pending' \subseteq DOMAIN pending
       /\ \A n \in DOMAIN pending' : pending'[n] = IF n = s THEN drained[n] ELSE pending[n]
       /\ \A n \in DOMAIN timeline' : timeline'[n] = drained[n] /\ timeline'[n] # "unknown"
       /\ skipped = {} /\ DOMAIN timeline = 1..(next - 1) => DOMAIN timeline' = 1..(next' - 1)
  <2>0. \A n \in DOMAIN timeline : timeline[n] = drained[n] /\ timeline[n] # "unknown"
    BY <1>2 DEF DrainInv
  <2>1. CASE s \in DOMAIN pending /\ Flush(maximum, pend, skipped, FALSE)
    <3>1. pend \in Events BY <1>6, <1>9 DEF Events
    <3>2. maximum \in maximum..seq BY <1>6
    <3>3. DOMAIN pend \cup skipped = next..maximum /\ DOMAIN pend \cap skipped = {}
      BY <1>9 DEF TimelineInv
    <3>4. FALSE \in BOOLEAN OBVIOUS
    <3>5. /\ TimelineInv' /\ maximum' = maximum /\ next' \in 1..(MaxChunks + 1)
          /\ pending' \in Events /\ timeline' \in Events /\ skipped' \subseteq skipped
          /\ DOMAIN pending' \subseteq DOMAIN pend /\ \A n \in DOMAIN pending' : pending'[n] = pend[n]
          /\ DOMAIN timeline' = DOMAIN timeline \cup {m \in DOMAIN pend : m < next'}
          /\ \A n \in DOMAIN timeline : timeline'[n] = timeline[n]
          /\ \A m \in DOMAIN pend : m < next' => timeline'[m] = pend[m] /\ (FALSE \/ pend[m] # "unknown")
          /\ skipped = {} /\ DOMAIN timeline = 1..(next - 1) => DOMAIN timeline' = 1..(next' - 1)
      BY <1>1, <1>6, <2>1, <3>1, <3>2, <3>3, <3>4, FlushInv
    <3>6. \A n \in DOMAIN timeline' : timeline'[n] = drained[n] /\ timeline'[n] # "unknown"
      BY <1>9, <1>10, <2>0, <3>5
    <3> QED BY <1>9, <3>5, <3>6
  <2>2. CASE s \notin DOMAIN pending /\ UNCHANGED <<maximum, pending, skipped, next, timeline>>
    <3>1. TimelineInv' BY <1>1, <2>2 DEF TimelineInv
    <3> QED BY <2>0, <2>2, <3>1 DEF TypeOK
  <2> QED BY <1>3, <2>1, <2>2
<1>12. TypeOK'
  <2>1. maximum' \in 0..MaxChunks /\ skipped' \subseteq Seqs BY <1>11 DEF TypeOK
  <2> QED BY <1>8, <1>11, <2>1, WorkerType, WorkerJob
<1>13. ControlInv' BY WorkerControl
<1>14. DrainInv'
  <2>1. \A n \in DOMAIN pending' : pending'[n] \in {"unknown", drained'[n]}
    BY <1>1, <1>11 DEF DrainInv
  <2> QED BY <1>1, <1>7, <1>11, <2>1 DEF DrainInv, Outcome
<1>15. NothingLost'
  <2> SUFFICES ASSUME policy = "continue", ~degraded, ~errors
               PROVE  /\ \A n \in (maximum + 1)..seq : \E c \in Appends : c.seq = n
                      /\ \A n \in DOMAIN pending' :
                           pending'[n] # drained[n] => \E c \in Drains' : c.seq = n
    BY <1>1, <1>2, <1>7, <1>11 DEF NothingLost
  <2>1. ASSUME NEW n \in DOMAIN pending', pending'[n] # drained[n] PROVE \E c \in Drains' : c.seq = n
    <3>1. n # s /\ n \in DOMAIN pending /\ pending[n] # drained[n] BY <1>11, <2>1
    <3>2. PICK c \in Drains : c.seq = n BY <3>1, WorkerFrame DEF NothingLost
    <3> QED BY <1>7, <3>1, <3>2
  <2> QED BY <2>1, WorkerFrame DEF NothingLost
<1>16. ListedInv' BY <1>2, <1>7, <1>11 DEF ListedInv
<1>17. HistoryInv' BY <1>2, <1>7, <1>11, WorkerHistory
<1>18. ReadyIsComplete' /\ PublishedLacksOnlyOverflow'
  BY <1>2, WorkerPublished DEF WorkerInv
<1> QED BY <1>11, <1>12, <1>13, <1>14, <1>15, <1>16, <1>17, <1>18

\* A write that fails leaves some of its bytes, and the worker stops.
LEMMA FailStep ==
  ASSUME Inv, Worker, CommandFails PROVE Inv'
<1> USE LiveCaptureAssumption DEF Inv, ControlInv, SpoolInv
<1>1. UNCHANGED <<policy, seq, drained, degraded, held, pc, chunk, sent>> BY WorkerFrame
<1>2. /\ wpc = "busy" /\ wpc' = "cleanup" /\ cmd' = NoCommand /\ errors' = TRUE /\ job' = Incomplete(job)
      /\ UNCHANGED <<queue, maximum, pending, skipped, next, timeline, published>>
  BY DEF CommandFails, StorageFails
<1>3. InFlight' \subseteq InFlight BY <1>1, <1>2, ExecFlight
<1>4. Appends' \subseteq Appends /\ Drains' \subseteq Drains BY <1>3 DEF Appends, Drains
<1>5. \/ raw' = raw
      \/ /\ cmd.op = "append" /\ cmd.seq = maximum + 1
         /\ \E n \in 0..cmd.len : raw' = [raw EXCEPT ![cmd.dir] = @ \o Written(cmd, n)]
  BY DEF CommandFails
<1>6. cmd.op = "append" => cmd \in AppendCommand /\ cmd \in Appends BY <1>1, <1>2, ExecFlight
<1>7. \A n \in 0..cmd.len : cmd \in AppendCommand => n \in Nat BY DEF AppendCommand
<1>8. TypeOK'
  <2>1. raw' \in [Directions -> Seq(Nat)] BY <1>5, <1>6, <1>7, WrittenType DEF TypeOK
  <2> QED BY <1>2, <2>1, WorkerType, WorkerJob DEF TypeOK
<1>9. ControlInv' BY WorkerControl
<1>10. TimelineInv' BY <1>1, <1>2 DEF TimelineInv
<1>11. DrainInv' BY <1>1, <1>2, <1>4 DEF DrainInv, Outcome
<1>12. NothingLost' BY <1>2 DEF NothingLost
<1>13. ListedInv'
  <2>1. ~job'.capture_complete BY <1>2, IncompleteType DEF TypeOK, JobType
  <2> QED BY <2>1 DEF ListedInv
<1>14. HistoryInv'
  <2>1. PICK pos, full : History(pos, full) BY DEF HistoryInv
  <2>2. \A d \in Directions : Len(raw'[d]) <= pos[seq][d] /\ raw'[d] = Bytes(Len(raw'[d]))
    <3>1. CASE raw' = raw BY <2>1, <3>1 DEF History, RawFits
    <3>2. CASE raw' # raw
      <4>1. PICK n \in 0..cmd.len : raw' = [raw EXCEPT ![cmd.dir] = @ \o Written(cmd, n)]
        BY <1>5, <3>2
      <4>2. cmd \in AppendCommand /\ cmd \in Appends /\ cmd.seq = maximum + 1 BY <1>5, <1>6, <3>2
      <4> QED BY <1>2, <2>1, <4>1, <4>2, WriteFits
    <3> QED BY <3>1, <3>2
  <2>3. RawFits(pos, full)' BY <1>1, <1>2, <2>2 DEF RawFits, Bytes
  <2>4. job'.stored = job.stored /\ ~job'.capture_complete BY <1>2, IncompleteType DEF TypeOK, JobType
  <2>5. JobFits(pos, full)' BY <1>1, <2>1, <2>4 DEF History, JobFits, Total
  <2>6. Kind(pos, full)' /\ CommandsFit(pos, full)' /\ PumpsFit(pos)'
    BY <1>1, <1>4, <2>1 DEF History, Kind, CommandsFit, PumpsFit, Total
  <2> QED BY <2>3, <2>5, <2>6 DEF HistoryInv, History
<1>15. ReadyIsComplete' /\ PublishedLacksOnlyOverflow'
  BY <1>2, WorkerPublished DEF WorkerInv
<1> QED BY <1>8, <1>9, <1>10, <1>11, <1>12, <1>13, <1>14, <1>15

\* By default nothing is in flight when the worker publishes, and so nothing is missing.
LEMMA AllArrived ==
  ASSUME Inv, wpc = "publish", policy = "continue"
  PROVE  /\ maximum = seq /\ \A n \in DOMAIN pending : pending[n] = drained[n]
         /\ ~errors
<1> USE DEF Inv, ControlInv, SpoolInv
<1>1. cmd = NoCommand /\ ~degraded /\ ~errors /\ queue = <<>> BY DEF WorkerInv
<1>2. held = NoCommand
  <2>1. lock = Free BY DEF LockInv, Blocked, TypeOK
  <2> QED BY <2>1 DEF LockInv
<1>3. NoCommand.op = "none" /\ Len(<<>>) = 0 BY DEF NoCommand
<1>4. 1..Len(queue) = {} BY <1>1, <1>3
<1>5. InFlight = {} BY <1>1, <1>2, <1>3, <1>4 DEF InFlight
<1>6. Appends = {} /\ Drains = {} BY <1>5 DEF Appends, Drains
<1>7. (maximum + 1)..seq = {} /\ \A n \in DOMAIN pending : pending[n] = drained[n]
  BY <1>1, <1>6 DEF NothingLost
<1>8. maximum \in Nat /\ seq \in Nat /\ maximum <= seq BY DEF TypeOK, TimelineInv
<1>9. maximum = seq
  <2>1. ASSUME maximum < seq PROVE FALSE
    <3>1. seq \in (maximum + 1)..seq BY <1>8, <2>1
    <3> QED BY <1>7, <3>1
  <2> QED BY <1>8, <2>1
<1> QED BY <1>1, <1>7, <1>9

\* LiveSpoolCapture.finalize publishes what was recorded.
LEMMA PublishStep ==
  ASSUME Inv, Worker, Publish \/ PublishFails PROVE Inv'
<1> USE LiveCaptureAssumption DEF Inv, ControlInv, SpoolInv
<1>1. UNCHANGED <<policy, seq, drained, degraded, held, pc, chunk, sent>> BY WorkerFrame
<1>2. /\ wpc = "publish" /\ wpc' \in {"published", "cleanup"} /\ UNCHANGED <<queue, raw>>
      /\ Flush(maximum, pending, skipped, TRUE) /\ published' \in {"no", Status}
      /\ cmd = NoCommand /\ cmd' = NoCommand
  BY DEF Publish, PublishFails, StorageFails, WorkerInv
<1>3. InFlight' = InFlight BY <1>1, <1>2 DEF InFlight
<1>4. Appends' = Appends /\ Drains' = Drains BY <1>3 DEF Appends, Drains
<1>5. /\ maximum \in maximum..seq /\ pending \in Events /\ skipped \in SUBSET Seqs
      /\ DOMAIN pending \cup skipped = next..maximum /\ DOMAIN pending \cap skipped = {}
      /\ TRUE \in BOOLEAN
  BY DEF TypeOK, TimelineInv
<1>6. /\ TimelineInv' /\ maximum' = maximum /\ next' \in 1..(MaxChunks + 1)
      /\ pending' \in Events /\ timeline' \in Events /\ skipped' \subseteq skipped
      /\ DOMAIN pending' \subseteq DOMAIN pending
      /\ \A n \in DOMAIN pending' : pending'[n] = pending[n]
      /\ DOMAIN timeline' = DOMAIN timeline \cup {m \in DOMAIN pending : m < next'}
      /\ \A n \in DOMAIN timeline : timeline'[n] = timeline[n]
      /\ \A m \in DOMAIN pending : m < next' => timeline'[m] = pending[m]
      /\ skipped = {} /\ DOMAIN timeline = 1..(next - 1) => DOMAIN timeline' = 1..(next' - 1)
      /\ next' = maximum + 1
  BY <1>1, <1>2, <1>5, FlushInv
<1>7. TypeOK'
  <2>1. maximum' \in 0..MaxChunks /\ skipped' \subseteq Seqs BY <1>5, <1>6 DEF TypeOK
  <2>2. queue' \in Seq(Command) /\ Len(queue') <= QueueSize /\ cmd' \in Command \cup {NoCommand}
        /\ raw' \in [Directions -> Seq(Nat)]
    BY <1>2 DEF TypeOK
  <2> QED BY <1>6, <2>1, <2>2, WorkerType, WorkerJob
<1>8. ControlInv' BY WorkerControl
<1>9. DrainInv' BY <1>1, <1>2, <1>4, <1>6 DEF DrainInv, Outcome
<1>10. NothingLost' BY <1>1, <1>2, <1>4, <1>6, WorkerJob DEF NothingLost
<1>11. ListedInv' BY <1>4, <1>6, WorkerJob DEF ListedInv
<1>12. HistoryInv' BY <1>2, <1>4, <1>6, WorkerHistory
<1>13. ASSUME policy = "continue", published' # "no"
       PROVE  EvidenceComplete' /\ PublishedLacksOnlyOverflow'
  <2>1. maximum = seq /\ (\A n \in DOMAIN pending : pending[n] = drained[n]) /\ ~errors
    BY <1>2, <1>13, AllArrived
  <2>2. PICK pos, full : History(pos, full) BY DEF HistoryInv
  <2>3. /\ pos \in [0..seq -> [Directions -> Nat]] /\ full \in 0..seq /\ seq \in Nat /\ MaxPayload \in Nat
        /\ job.stored \in 0..MaxPayload
    BY <2>2 DEF History, Kind, TypeOK
  <2>4. pos[seq] \in [Directions -> Nat] BY <2>3
  <2>5. \A d \in Directions : sent[d] = pos[seq][d] /\ raw[d] = Bytes(Len(raw[d]))
    BY <1>13, <2>2 DEF History, PumpsFit, RawFits
  <2>6. full = seq => \A d \in Directions : Len(raw[d]) = sent[d]
    BY <2>1, <2>2, <2>3, <2>5 DEF History, RawFits
  <2>7. EvidenceComplete'
    <3> SUFFICES ASSUME published' = "ready"
                 PROVE  /\ \A d \in Directions : raw[d] = Bytes(sent[d])
                        /\ timeline' = [n \in 1..seq |-> drained[n]]
      BY <1>1, <1>2 DEF EvidenceComplete, Bytes
    <3>1. job.capture_complete /\ job.timeline_complete BY <1>2 DEF Status
    <3>2. full = seq BY <2>2, <2>3, <3>1 DEF History, JobFits
    <3>3. skipped = {} /\ DOMAIN timeline = 1..(next - 1) BY <3>1 DEF ListedInv
    <3>4. DOMAIN timeline' = 1..seq
      <4>1. DOMAIN timeline' = 1..(next' - 1) /\ next' = seq + 1 BY <1>6, <2>1, <3>3
      <4>2. next' - 1 = seq BY <2>3, <4>1
      <4> QED BY <4>1, <4>2
    <3>5. \A n \in DOMAIN timeline : timeline[n] = drained[n] BY <1>2 DEF DrainInv
    <3>6. \A n \in 1..seq : timeline'[n] = drained[n] BY <1>6, <2>1, <3>4, <3>5
    <3>7. timeline' = [n \in DOMAIN timeline' |-> timeline'[n]] BY <1>6 DEF Events
    <3>8. timeline' = [n \in 1..seq |-> drained[n]] BY <3>4, <3>6, <3>7
    <3> QED BY <2>5, <2>6, <3>2, <3>8
  <2>8. PublishedLacksOnlyOverflow'
    <3> DEFINE stored == Len(raw[ClientToRch]) + Len(raw[RchToClient])
               total == sent[ClientToRch] + sent[RchToClient]
    <3>1. total = Total(pos[seq]) /\ total \in Nat
      BY <2>4, <2>5 DEF Total, Directions
    <3>2. stored = Total(Size) BY DEF Total, Size, Directions
    <3>3. CASE full = seq
      <4>1. stored = total BY <2>6, <3>3 DEF Directions
      <4>2. job.stored = Total(pos[seq]) BY <2>2, <3>3 DEF History, JobFits
      <4>3. total <= MaxPayload BY <2>3, <3>1, <4>2
      <4> HIDE DEF stored, total
      <4>4. stored = IF total < MaxPayload THEN total ELSE MaxPayload BY <2>3, <3>1, <4>1, <4>3
      <4> QED BY <1>1, <1>2, <4>4 DEF PublishedLacksOnlyOverflow, stored, total
    <3>4. CASE full < seq
      <4>1. MaxPayload <= Total(pos[seq]) BY <2>2, <3>4 DEF History, JobFits
      <4>2. Total(Size) = MaxPayload BY <2>1, <2>2, <2>3, <3>4 DEF History, RawFits
      <4> HIDE DEF stored, total
      <4>3. stored = IF total < MaxPayload THEN total ELSE MaxPayload
        BY <2>3, <3>1, <3>2, <4>1, <4>2
      <4> QED BY <1>1, <1>2, <4>3 DEF PublishedLacksOnlyOverflow, stored, total
    <3> QED BY <2>3, <3>3, <3>4
  <2> QED BY <2>7, <2>8
<1>14. ReadyIsComplete' /\ PublishedLacksOnlyOverflow'
  BY <1>1, <1>13 DEF ReadyIsComplete, EvidenceComplete, PublishedLacksOnlyOverflow
<1> QED BY <1>6, <1>7, <1>8, <1>9, <1>10, <1>11, <1>12, <1>14

-----------------------------------------------------------------------------
(* The theorems.                                                           *)

LEMMA InitInv == Init => Inv
<1> SUFFICES ASSUME Init PROVE Inv OBVIOUS
<1> USE LiveCaptureAssumption DEF Init
<1>0. NoCommand.op = "none" BY DEF NoCommand
<1>1. Policies \subseteq {"continue", "abort"} /\ Free \notin Directions OBVIOUS
<1>2. pending \in Events /\ timeline \in Events /\ DOMAIN pending = {} /\ DOMAIN timeline = {}
  <2>1. NoEvents \in [{} -> Drain] /\ {} \in SUBSET Seqs /\ DOMAIN NoEvents = {} BY DEF NoEvents
  <2> QED BY <2>1 DEF Events
<1>3. Len(queue) = 0 /\ queue \in Seq(Command) OBVIOUS
<1>4. chunk \in [Directions -> Chunk] BY DEF Chunk, NoChunk
<1>5. TypeOK
  <2>1. drained \in [Seqs -> Drain] BY DEF Drain
  <2>2. raw \in [Directions -> Seq(Nat)] OBVIOUS
  <2>3. job \in [stored : 0..MaxPayload, events : 0..MaxEvents,
                capture_complete : BOOLEAN, timeline_complete : BOOLEAN]
    OBVIOUS
  <2>4. /\ 0 \in 0..MaxChunks /\ 0 \in 0..MaxFaults /\ 1 \in 1..(MaxChunks + 1)
        /\ Len(queue) <= QueueSize
    BY <1>3
  <2>5. /\ pc \in [Directions -> {"read", "drain"} \cup Blocked \cup Ended]
        /\ cancel \in [Directions -> BOOLEAN] /\ after \in [Directions -> {"read", "error", "cancelled"}]
        /\ sent \in [Directions -> Nat] /\ skipped \subseteq Seqs
    OBVIOUS
  <2> HIDE LiveCaptureAssumption
  <2> QED BY <1>2, <1>3, <1>4, <2>1, <2>2, <2>3, <2>4, <2>5 DEF TypeOK
<1>6. InFlight = {} BY <1>0, <1>3 DEF InFlight
<1>7. Appends = {} /\ Drains = {} BY <1>6 DEF Appends, Drains
<1>8. LockInv /\ ChunkInv /\ SealInv /\ WorkerInv
  BY DEF LockInv, ChunkInv, Unmarked, SealInv, WorkerInv, Blocked
<1>9. CountInv BY DEF CountInv, Waiting, Directions
<1>10. TimelineInv /\ DrainInv /\ NothingLost /\ ListedInv
  BY <1>2, <1>7 DEF TimelineInv, DrainInv, NothingLost, ListedInv
<1>11. HistoryInv
  <2>1. PICK pos : pos = [n \in 0..0 |-> [d \in Directions |-> 0]] OBVIOUS
  <2>2. pos[0] = [d \in Directions |-> 0] /\ pos \in [0..0 -> [Directions -> Nat]] BY <2>1
  <2>3. \A n \in 0..0 : n = 0 OBVIOUS
  <2>4. Kind(pos, 0) BY <2>2, <2>3 DEF Kind
  <2>5. Total(pos[0]) = 0 BY <2>2 DEF Total, Directions
  <2>6. CommandsFit(pos, 0) /\ JobFits(pos, 0) /\ PumpsFit(pos)
    BY <1>7, <2>2, <2>5 DEF CommandsFit, JobFits, PumpsFit
  <2>7. \A d \in Directions : Len(raw[d]) = 0 /\ raw[d] = Bytes(0)
    BY DEF Bytes
  <2>8. RawFits(pos, 0) BY <2>2, <2>7 DEF RawFits
  <2> QED BY <2>4, <2>6, <2>8 DEF HistoryInv, History
<1>12. ReadyIsComplete /\ PublishedLacksOnlyOverflow
  BY DEF ReadyIsComplete, EvidenceComplete, PublishedLacksOnlyOverflow
<1> QED BY <1>5, <1>8, <1>9, <1>10, <1>11, <1>12 DEF Inv, ControlInv, SpoolInv

LEMMA StutterInv == ASSUME Inv, UNCHANGED vars PROVE Inv'
<1>1. UNCHANGED <<policy, phase, shutdown, pc, cancel, after, chunk, sent, chunks, lock, held, active, seq,
                  job, drained, degraded, queue, errors, finalizing, wpc, cmd, raw, maximum, pending,
                  skipped, next, timeline, published, faults>>
  BY DEF vars, pumpVars, sentVars, jobVars, queueVars, diskVars
<1>2. TypeOK' BY <1>1 DEF Inv, TypeOK
<1>3. ControlInv'
  BY <1>1 DEF Inv, ControlInv, LockInv, ChunkInv, Unmarked, CountInv, Waiting, SealInv, AllEnded, WorkerInv
<1>4. Appends' = Appends /\ Drains' = Drains BY <1>1 DEF InFlight, Appends, Drains
<1>5. SpoolInv'
  BY <1>1, <1>4 DEF Inv, SpoolInv, TimelineInv, DrainInv, Outcome, NothingLost, ListedInv
<1>6. HistoryInv'
  <2>1. PICK pos, full : History(pos, full) BY DEF Inv, HistoryInv
  <2>2. PumpsFit(pos)' BY <1>1, <2>1 DEF History, PumpsFit
  <2>3. History(pos, full)' BY <1>1, <1>4, <2>1, <2>2, HistoryFrame
  <2> QED BY <2>3 DEF HistoryInv
<1>7. ReadyIsComplete' /\ PublishedLacksOnlyOverflow'
  BY <1>1 DEF Inv, ReadyIsComplete, EvidenceComplete, PublishedLacksOnlyOverflow, Bytes
<1> QED BY <1>2, <1>3, <1>5, <1>6, <1>7 DEF Inv

\* The invariant holds of every behaviour of the connection, its pumps and its worker.
THEOREM Invariance == Spec => []Inv
<1>1. Inv /\ [Next]_vars => Inv'
  <2> SUFFICES ASSUME Inv, [Next]_vars PROVE Inv' OBVIOUS
  <2>1. ASSUME NEW d \in Directions, Forward(d) \/ StreamEnds(d) \/ Relay(d) PROVE Inv'
    BY <2>1, PumpStepInv
  <2>2. CASE Session \/ Shutdown BY <2>2, SessionStep
  <2>3. CASE Worker
    <3>1. CASE BeginLive \/ NextCommand \/ Seal \/ CloseIncomplete BY <2>3, <3>1, QuietStep
    <3>2. CASE AppendRaw BY <2>3, <3>2, AppendStep
    <3>3. CASE MarkDrain BY <2>3, <3>3, MarkDrainStep
    <3>4. CASE CommandFails BY <2>3, <3>4, FailStep
    <3>5. CASE Publish \/ PublishFails BY <2>3, <3>5, PublishStep
    <3> QED BY <2>3, <3>1, <3>2, <3>3, <3>4, <3>5 DEF Worker
  <2>4. CASE WorkerCancelled BY <2>4, CancelStep
  <2>5. CASE UNCHANGED vars BY <2>5, StutterInv
  <2> QED BY <2>1, <2>2, <2>3, <2>4, <2>5 DEF Next
<1> QED BY InitInv, <1>1, PTL DEF Spec

\* Types and limits: the command queue never exceeds its size, both directions together
\* never store more than MAX_PAYLOAD_BYTES, the timeline never lists more than
\* MAX_CAPTURE_EVENTS (CapturedJob.append, _enqueue_stream).
THEOREM LimitsHold == Spec => []TypeOK
<1>1. Inv => TypeOK BY DEF Inv
<1> QED BY <1>1, Invariance, PTL

\* Whatever was lost, the RAW files are prefixes of what was forwarded: the positions of
\* the recorded chunks partition each stream, commands reach the worker without a gap,
\* and the first byte that is cut is the last one stored (CapturedJob.append, the
\* contiguity test of LiveSpoolCapture.append).
THEOREM RawFilesArePrefixes == Spec => []RawIsPrefix
<1>1. Inv => RawIsPrefix
  <2> SUFFICES ASSUME Inv, NEW d \in Directions
               PROVE  Len(raw[d]) <= sent[d] /\ raw[d] = Bytes(Len(raw[d]))
    BY DEF RawIsPrefix
  <2>1. PICK pos, full : History(pos, full) BY DEF Inv, HistoryInv
  <2>2. /\ Len(raw[d]) <= pos[seq][d] /\ raw[d] = Bytes(Len(raw[d])) /\ pos[seq][d] <= sent[d]
    BY <2>1 DEF History, RawFits, PumpsFit
  <2>3. Len(raw[d]) \in Nat /\ sent[d] \in Nat /\ seq \in Nat BY DEF Inv, TypeOK
  <2>4. pos[seq][d] \in Nat BY <2>1, <2>3 DEF History, Kind
  <2> QED BY <2>2, <2>3, <2>4
<1> QED BY <1>1, Invariance, PTL

\* Events enter the timeline in the order of their reception (_flush_ready_timeline).
THEOREM TimelineOrdered == Spec => []TimelineInOrder
<1>1. Inv => TimelineInOrder
  <2> SUFFICES ASSUME Inv, NEW n \in DOMAIN timeline, NEW m \in DOMAIN pending PROVE n < m
    BY DEF TimelineInOrder
  <2>1. n < next /\ m \in next..maximum BY DEF Inv, SpoolInv, TimelineInv
  <2>2. n \in Nat /\ next \in Nat /\ maximum \in Nat
    BY DEF Inv, TypeOK, Events, Seqs
  <2> QED BY <2>1, <2>2
<1> QED BY <1>1, Invariance, PTL

\* Under the default policy a capture published as "ready" is the whole conversation,
\* every byte and every event (record, LiveSpoolCapture.finalize, _live_worker).
THEOREM ReadyEvidence == Spec => []ReadyIsComplete
<1>1. Inv => ReadyIsComplete BY DEF Inv
<1> QED BY <1>1, Invariance, PTL

\* Under the default policy a published capture lacks only the bytes beyond
\* MAX_PAYLOAD_BYTES (_live_worker, close_incomplete).
THEOREM PublishedEvidence == Spec => []PublishedLacksOnlyOverflow
<1>1. Inv => PublishedLacksOnlyOverflow BY DEF Inv
<1> QED BY <1>1, Invariance, PTL
=============================================================================
