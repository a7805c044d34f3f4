# Verification of commercialRCHproxy

commercialRCHproxy sits between a point-of-sale client and an RCH fiscal printer. It relays
every byte both ways, keeps a copy as evidence in a *spool*, and later decodes the copies into
documents (*PHARSED*) in a separate process. This directory holds TLA+ modules that model its
core, the TLC instances that check them, and TLAPS proofs of the central invariants.
`PROJECT.json` maps every definition to the lines it models, and lists the runs, the mutants
that show each property can fail, the hazards of the code and the theorems.

Paths below are relative to `src/src/commercialrchproxy/`.

## Inventory

| Component | State it keeps | Operations | Hard behaviour | What makes it correct |
|---|---|---|---|---|
| Parser claim and commit (`parser/worker.py`, `parser/main.py`) | in the job directory: `.parser.lock`, `.processing` (token, age), staging directories, `PHARSED`, `.parsed`, `.parse_attempts.json`, `.parse_failed` | claim, heartbeat, write, commit, record failure, release; forced parse | several processes, stale leases, deaths between file operations, fsync errors | `.parsed` only ever names a complete `PHARSED`; only the lease holder decides; attempts are bounded; every job settles |
| Reparse (`tools/reparse.py`) | the same directory, `PHARSED.backup-*` | check, back up, force | checks made before the lock | no accepted output disappears without a backup |
| Lock and atomic writes (`storage/locking.py`, `storage/atomic.py`) | flock, temporary files | enter, time out, leave, replace + fsync | an error after the effect | a failed call is harmless to repeat |
| Recorder (`capture/recorder.py`, `capture/jobs.py`) | the active job, its limits, a bounded queue, degradation and error flags | record, mark drain, finalize, live worker | coroutines against a worker thread, a full queue, cancellation | the relay is not slowed by the disk; nothing incomplete is called ready |
| Relay (`proxy/streams.py`, `proxy/session.py`) | two pump tasks per session, the device lock and its queue, connection attempts, both sockets | wait for the device, connect, pump, tail, cancel, close | cancellation at every await, half-close, tail timeout, a socket that does not close | one session at a time converses with the printer; every session ends and releases what it holds |
| Live spool (`storage/spool.py`) | RAW files, timeline with pending drain states, manifest | append, mark drain, finalize, close incomplete | partial writes, drains out of order | RAW is a prefix of the stream; the timeline is in order |
| Allocation (`storage/spool.py`, `storage/counter.py`, `tools/replay.py`) | `next-code`, staging and published directories per day | select a code, create, publish, import | publication crosses a scan; the counter file is lost | codes and destinations are unique; no old capture stands in the way of a new one |
| Server (`proxy/server.py`, `dumper/main.py`) | session tasks, persistence tasks | accept, refuse, close with two grace periods | shutdown against arriving, connecting and closing sessions and against writes | slots come back; shutdown ends and waits for what was sealed |
| Parser service (`parser/main.py`, `parser/watcher.py`, `storage/spool.py` discovery) | inotify descriptor and watches, the walk in progress, the stop event | scan, wait, wake, fall back to polling | lost wake-ups, renames under the walk, the discovery limit | a published job is processed |
| Framing (`rch/framing.py`) | a buffer, events, issues | feed, finish | arbitrary segmentation, resynchronisation, limits | every byte accounted for once, the same frames from every segmentation |
| Document assembly (`rch/receipt_parser.py`) | the open builder, the pending start, documents, a field budget, request/response pairs | open, add, close, abandon, correlate, number, subtype, report | any order of commands, lost and damaged frames in both directions, limits reached mid-line | sales are not mixed; limits only omit; numbers and copies are real |
| XML7, rendering, configuration, logging, health, inspection, legacy store, scripts | none that another component waits for | | | |

The dumper process runs server, sessions, pumps, recorder and live spool: sessions call the
recorder directly, the recorder and its worker share a queue and a few flags, the worker writes
in a thread. The parser is another process; the only thing it shares with the dumper is the
published, read-only job directory, and with other parsers the files it creates there. Offline
import is a third process that shares the spool and its allocation lock with the dumper.

## Modules

| Module | Models | Instance |
|---|---|---|
| `ParserClaim` | worker, parser command, reparse, lock and atomic writes on one job directory | `MCParserClaim` |
| `JobLife` | abstract: what the parser promises about one job; implemented by `ParserClaim` | |
| `ParserService` | the parser's loop: scan, discovery, watcher, against a publishing dumper | `MCParserService` |
| `LiveCapture` | one connection: pumps, recorder, worker, live spool | `MCLiveCapture` |
| `Relay` | all connections: listener, device lock, connecting, teardown, shutdown | `MCRelay` |
| `SpoolAllocation` | code selection and publication by the dumper and imports | `MCSpoolAllocation` |
| `Framing` | the RCH stream framer | `MCFraming` |
| `DocumentAssembly` | documents from framed requests and responses | `MCDocumentAssembly` |
| `ParserClaimProofs`, `ParserClaimLifeProofs` | theorems about `ParserClaim`: the output, and what the job's history may be (`JobLife`) | |
| `SpoolAllocationProofs`, `LiveCaptureProofs`, `RelayProofs`, `ParserServiceProofs`, `FramingProofs`, `DocumentAssemblyProofs` | theorems about the module each is named after | |

The modules meet at narrow places. `Relay` treats what `LiveCapture` details as one state,
`forwarding`, that may last for ever, and after a cancellation `gathering`, and relies on
`TeardownNeedsNoDisk` for the rest: the disk does not hold them up, and sealing the recorder does
not suspend. `ParserService` treats `process_job`, that is `ParserClaim`, as
one step, and `ParserClaim`'s fairness, that every ready job is scanned again and again, is what
`EventuallyScanned` shows. `DocumentAssembly` takes frames as `Framing` produces them: in order,
each once, some damaged.

### ParserClaim

The state is the job directory, file by file, and each process's position in `process_job` or
`reparse_ready_job`. A directory tree is known by the claim token under which it was written,
so `output = parsed` says that `PHARSED` is the tree whose hash `.parsed` holds; `whole` keeps
the trees from which nothing was removed. An action is one file operation, or one section
between two of them. Actions named `...Enter` take `.parser.lock`; the section they open lasts
until a step that leaves it. An operation followed by `fsync_directory` may raise *with its
effect in place* (`Synced`), and any locked section may end in an operating-system error
(`ClaimError`, `CommitError`, `FailError`, `ReparseError`, `ReleaseError`) that sends the worker to the handler
the code has for it. `Crash` ends a process anywhere and frees its flock. Leases age:
`ExpireOrphan` for a marker nobody holds, `ExpireLive` for a holder that is suspended or whose
heartbeat thread has ended.

Document contents are abstracted to their number; hash validation before the commit either
succeeds or is one of the errors.

### LiveCapture

Coroutines of one event loop interleave only where one suspends, so an action runs from one
await that can block to the next. Under `continue` nothing suspends with the recorder's lock
held: read, write to the peer, `record` and `put_nowait` are one step (`Forward`), the drain
another. Under `abort`, `queue.put` may suspend with the lock held, which is what `held`,
`CanLock` and the program counters `lock`, `put`, `mark_lock` and `mark_put` are for. The worker
interleaves with all of this; a write in its thread may store part of a chunk and raise. A byte
is its position in its stream, so "a prefix of what was forwarded" can be said of lengths.
`Shutdown` is the single cancellation `ProxyServer.close` sends.

`Asyncio` is the Python version. `wait_for` of 3.11 returns or raises what its coroutine did when a
cancellation arrives together with it, and the cancellation is lost: a pump cancelled at the end of
its drain (`proxy/streams.py:91`) goes back to `reader.read`, or ends with the drain's error, while
the session gathers it without a timeout (`proxy/session.py:182`, `197`, `239`). `WaitForOutcomes`
has these outcomes; the steps of 3.12 are a subset of those of 3.11.

When a pump raises (under `abort`), the session waits for the other one in its finally clause
(`unwinding`). A shutdown that reaches it there skips `recorder.finalize`, so that the session
ends `unsealed` (`EndUnsealed`) and its worker is told nothing. `WorkerCancelled` is the end of
`close()`'s second grace period: the worker of an ended session goes away wherever it is.

### SpoolAllocation

A process makes one capture: a live one, with a code from the counter, or an import, which may
ask for a code. Selection happens under `capture-allocation.lock`: counter, scan of each day
(the final directory first, then staging directories, or a directory listing), choice,
verification, `mkdir`. `Publish` is the rename, without the lock and without a look at the
destination; `os.replace` raises on a published directory, which is not empty. A listing that
overlaps a rename may return the old name, the new one, both or neither. The initial archive holds
any captures, published or abandoned, imported or numbered, with distinct codes, and the counter is
anywhere: its file may have been lost or be an old one.

### Framing

Two framers get the same stream: `"whole"` as `frame_stream` feeds it, `"split"` in chunks that
end anywhere. The buffer is the stretch of the stream between bytes consumed and bytes fed. Each
branch of `_process` is an action, in the order its guards give; `feed` slices a chunk to the
room in the buffer. The BCC is a constant operator; the instance defines it as the XOR in
hexadecimal, either case.

### JobLife and the refinement

`JobLife` says in five variables what an operator may rely on: a job has at most one result, a
result is accepted once and never replaced, it is given up and a quarantine lifted only while an
order (a forced parse) is being carried out, and a job is quarantined only after more failures
than allowed. `ParserClaim` implements it with `.parsed` as the result, the counter as the
failures, `.parse_failed` as the quarantine and the processes with `force` as the orders
(`Life`, `KeepsJobLife`). `Doubt` stands for the one weakness of the code that shows at this
level: after an fsync error an accepted attempt is counted as a failure too.

### ParserService

The spool is one day directory; a capture is absent, a `.partial` directory, a `.partial`
directory with `.ready` in it (`marked`), or a published one. Discovery tests its limit at every
marker, before it looks at the directory's name, so a marked directory counts once the limit is
reached.
A walk lists what is there and visits it later, so a publication in between makes the listed name
vanish: the pathlib of Python 3.11 raises, that of 3.13 skips (CI runs both). Watches stay with
the directory they were placed on; the kernel may refuse any of them, and the descriptor may fail
in `select` and in `read`. Processing a job opens its `.parser.lock` for writing, which its own
watch reports.

### Relay

A session is known by the place where its coroutine is suspended: the device lock, a connection
attempt, the retry delay, the pumps, the closing of either socket. `cancel` is the request that
`close()` sends and the session meets at that place: before the pumps start
(`CancelledBeforeForwarding`), while they run or are being gathered (`CancelledInForwarding`), or
while the finally clause closes a socket (`CancelledInTeardown`). A cancelled session waits for its
pumps in `gathering`. Either peer may reset its connection while the session uses it, which detaches
its transport. Two differences between asyncio versions matter and both are explored. `wait_for` of
3.11 returns or raises what arrived together with a cancellation, which is then lost: at the
connection to the printer, made or refused, the session goes on; at a drain it is a pump that goes on,
and the session waits in `gathering` until that pump's peer leaves (`PumpLeft`).
`Server.wait_closed` waits for the clients' sockets since 3.12.1. The path on which a shutdown in
`gathering` skips the seal exists only under `abort` and is in `LiveCapture`.

### DocumentAssembly

The model has what the parser cannot see, the conversation: which command of which sale stood at
which position. The capture lacks some frames or has them damaged, and the parser works on the
capture alone; the properties compare its documents with the conversation. Each command class of
`_parse_documents` is an action. An amount is a number and a line is the frame it came from. The
field budget is followed reservation by reservation, because what a management line is taken for
depends on how many of its amounts were still recorded. The change of a RESTO line is set without a
reservation from the amount read last, so the model keeps which amount of its line it is. Answers
carry the sequence number the parser expects for their position, modulo `Modulus`. The faults that did
not hit the requests hit the answers: a damaged one, or a gap of a length in `Gaps`, anywhere; of
the ACKs, as many as a number in `Unacknowledged` are missing, and only their count matters.

## Runs

Each run asks one question; `violation` runs show a disagreement between code and documentation.

| Run | Shows |
|---|---|
| `ParserClaim_safety` | Under every kind of error: `AcceptedOutputIntact`, `LeaseProtectsStaging`, `FencedPublication`, `AttemptsBounded`, and the refinement `KeepsJobLife`. |
| `ParserClaim_live` | The job is settled for good with no lease and no staging left (`EventuallySettled`); without fsync errors `ParsedExcludesFailure`. |
| `ParserClaim_reparse_race` (violation) | `NoAcceptedOutputLost`: a reparse that saw no `PHARSED` replaces one published meanwhile, without a backup. |
| `LiveCapture_safety` | Both policies: `RawIsPrefix`, `TimelineInOrder`; default policy: `ReadyIsComplete`, `PublishedLacksOnlyOverflow`, `TeardownNeedsNoDisk`, `EventuallyStored`. |
| `LiveCapture_abort_stuck` (violation) | `StorageFailureStopsSession`: the worker dies while a pump waits for queue room; the session waits for ever. |
| `LiveCapture_abort_loss` (violation) | `EvidenceComplete`: a pump cancelled while it waits has forwarded a chunk that is not stored; the capture is called ready. |
| `SpoolAllocation_safety` | `AllocatedCodesUnique`, `DestinationsUnique`, `LiveNotPoisoned`, and `SharedCodeNeedsCrossing`. |
| `Framing_safety` | `BytesAccountedOnce`, `ValidIsComplete`, `BufferHasRoom`, `OnlyTailAcksDiffer`. |
| `DocumentAssembly_safety` | `FramesInOneDocument`, `SalesSeparate`, `CompleteByOwnClose`, `TruncationOnlyOmits`, `CopiesAreReal`, `CounterIsOwn`, `LimitsReported`. |
| `Relay_safety` | `OneConversation`, `PersistenceAwaited`, `EverySessionEnds`, `ShutdownEnds`. |
| `ParserService_safety` | `EventuallyScanned`, `HaltNeedsFullSpool`. |
| `ParserService_walk_race` (violation) | `ScanAlwaysRuns`: a publication under the walk ends the service. |

### Bounds, and why they are enough

* `ParserClaim_safety`: two workers (the protocol is pairwise: holder against rival), four
  tokens (a first claim, a steal, a forced one, one after a death), two errors, one death, one
  reparse or `--force`, one retry, one document. 1.4 million states. More tokens only repeat:
  the proofs cover any number. `ParserClaim_live` has no retries and eight tokens so that the
  bound on tokens is never what stops a job.
* `LiveCapture`: three chunks let both directions be in flight with one to spare; a queue of two
  (one in the two `abort` violation runs) fills; a payload limit of 5 with chunks of 2 ends
  inside a chunk; an event limit of two, below the number of chunks, ends the timeline early;
  one storage error, at any point. The asyncio of 3.11 has every step of the later ones; the
  violation runs of `abort` use 3.12, so that they do not rest on a lost cancellation.
* `SpoolAllocation`: two new captures (the lock lets one select, the other publishes across it), two
  days, four codes, any old captures with them and any counter, two errors or deaths: a counter
  behind several old codes, an explicit request and a crossing publication meet; the counter
  reaches the last code. 3.6 million states.
* `Framing`: all streams of up to three of eleven pieces (two good frames, one with an ACK as
  data; one of each kind of damage; an incomplete header; single bytes), every segmentation.
  `MaxBuffer` is the smallest the constructor admits, so that slicing happens inside frames.
  Two events and three issues bring both limits into reach.

* `DocumentAssembly`: two conversations of three sales that between them use every command, any
  two faults: requests lost or damaged, answers damaged or lost one at a time or by a whole turn of
  the sequence numbers (`Modulus` is 7 so that a turn fits into the conversation); no ACK or two
  of them missing. Issues exist before the assembly or not, which decides whether the correlation's
  own limit shows. The limits are chosen so that documents, messages, issues and, at three places, the
  field budget run out. Two faults are what it takes to mix two sales; the property says which.
* `Relay`: two clients, since the lock, the queue and the slots are pairwise; limits of one (the
  second client is refused) and two; two attempts, so that one is retried and one is the last.
* `ParserService`: three captures against a discovery limit of two (10,000 in the code); two far
  from the limit for the walk.

Deadlock is not checked where the system may stop: bounds on faults and tokens, a session that
has ended, a stream that has been framed, a service that has been stopped. `ParserClaim_live` and
`Relay_safety` do check it: workers go on polling, and the relay must reach the end of `close()`.

Symmetry is used in runs without liveness properties only: workers, directions, processes and
days are treated alike by the models.

### Fairness

* `ParserClaim`: weak fairness for steps that need no lock, strong fairness for those that do:
  `FileLock` polls `flock` every 50 ms, so a lock that is free again and again is got in the end.
  Weak fairness of `ExpireOrphan`: time passes. None for errors, deaths, commands or a
  stalled holder.
* `LiveCapture`: weak fairness of the coroutines that have something to run, which the event loop
  gives, and of the session. None for the peer (a read, a drain and an end of stream may never
  come) nor for the disk. `EventuallyStored` assumes `DiskWorks` as an explicit hypothesis;
  `TeardownNeedsNoDisk` does not.

* `Relay`: weak fairness of each session's task, of its done callback and of `close()`: the loop
  runs what is ready and timers fire. None for clients, printer, disk or the signal;
  `EverySessionEnds` and half of `ShutdownEnds` assume `PeersLeave` as an explicit hypothesis.
* `ParserService`: weak fairness of the service alone, whose waits have a deadline. None for
  inotify events, the dumper or the operator.

## Findings

1. Under `abort`, `queue.put` is awaited with the recorder's lock held
   (`capture/recorder.py:211`); a storage error then leaves pump and session waiting.
2. Under `abort`, a pump cancelled at that point loses a chunk it has forwarded, and the capture
   is published as `ready`.
3. `reparse` looks for `PHARSED` before it holds the lock (`tools/reparse.py:203`).
4. `discover_ready_jobs` (`storage/spool.py:663`) does not survive, with Python 3.11, a directory
   that is renamed between its listing and its visit; the exit status is the one systemd is told
   not to restart on.

Weaker than documented, and stated in the passing runs as exactly what does hold:

* An fsync error after the `.parsed` rename (`storage/atomic.py:51`) is taken for a parse
  failure: `ParsedExcludesFailure` holds without such errors, and `JobLife` needs `Doubt`.
* `_code_in_use` looks for a final directory and then for staging ones (`storage/spool.py:469`);
  a rename in between hides the code. `SharedCodeNeedsCrossing` says nothing else does.
* Framing depends on segmentation for an ACK within the last five bytes, behind a malformed
  header and an incomplete one (`rch/framing.py:456`). `OnlyTailAcksDiffer` says that no other event
  does, while no event limit is hit; the spans reported as unframed, and the counts of what a limit
  omitted, may be cut differently by different segmentations.
* `close()` does not wait for the capture of a session it cancels in its teardown
  (`proxy/session.py:243`), nor of one accepted after it looked at its sessions
  (`proxy/server.py:117`). `PersistenceAwaited` names both exceptions.
* A session gives up on a socket that does not close within five seconds and releases the device
  lock; the next one may then connect while the old socket is still closing. `OneConversation`
  is about sessions that have not ended.
* With asyncio 3.12.1 and later the grace periods of `close()` only start when every client has
  left, and with 3.11 a cancellation that coincides with a connection or with the end of a drain is
  lost: the two halves of `ShutdownEnds`. A pump that lost its cancellation at a drain
  (`proxy/streams.py:91`) also keeps its session, the device lock and the slot until its peer leaves,
  which is the hypothesis of `TeardownNeedsNoDisk`.
* Diagnostics of `_correlate_directions` beyond `max_issues` are dropped without a mark when there is
  no other issue (`rch/receipt_parser.py:1060`): the list is then exactly full. `LimitsReported` says
  that this is the only silent case.
* The change of a RESTO line with several amounts may be another of them when the field budget runs
  out between them (`rch/receipt_parser.py:618`); `TruncationOnlyOmits` says that the crossing is
  then reported.
* Every scan opens each job's lock file, which the job's own inotify watch reports: with inotify
  the service scans without pause instead of every poll interval. Nothing is promised about the
  rate, so no property is violated.
* More than 10,000 ready jobs, which nothing ever removes, end the service, and so do exactly 10,000
  and a capture that has its `.ready` and not yet its name: `HaltNeedsFullSpool`.

## Proofs

`tlapm` checks every proof to its leaves. The theorems hold for every value of the constants
that the named `ASSUME`s admit: any set of workers or processes, any number of tokens, documents,
codes, chunks, errors and deaths, any stream, any conversation and any number of faults in its
capture, of the kinds `DocumentAssembly` has. The assumptions are what the code guarantees: the
free lock is not a worker, the two directions differ, the jobs of a spool are finitely many,
limits are positive where the configuration or a constructor demands it, bytes are 0 to 255 and
the framer's buffer holds the largest frame it accepts (`rch/framing.py:265`). One theorem has a
hypothesis of its own: `VerdictsExclude` assumes `~SyncFaults`, the absence of fsync errors after
a rename, without which the property is false (see Findings). It is a constant of the module, and
`ParserClaim_live` checks the same case.

The theorems about sales, `SalesStayApart` and `ClosedByTheirOwn` (with the invariant they rest on),
use an assumption about the environment, `TillAssumption`: conversations are `Orderly`, as `docs/PARSER_STATE_MACHINE.md` describes them. Sales
follow one another, and what a sale prints stands after a command that opens it and before the last
one that ends it. Without it the properties mean nothing, since a sale that is never opened or
closed has no boundary to be captured. A till that stops in the middle of a sale is covered: its
capture is that of an orderly conversation with the tail lost. TLC evaluates the assumption on the
run's conversations. The other theorems about document assembly hold for every conversation.

None of the properties is inductive as it stands. Each module therefore ends with the invariant
that is: TLC evaluated it on the runs' instances before it was proved.

**ParserClaim, the output.** `AcceptedOutputIntact` needs to know that whoever is about to remove
or rename a tree is not touching the accepted one. `Inv` is

* `LockInv`: the lock's holder is exactly the worker inside a locked section;
* `TokenInv`: tokens are issued once and held by one worker;
* `WorkerInv(w)`: what a worker may rely on at its program point. In commit and failure sections
  `.processing` names it (the fence was checked under the lock, and nobody rewrites the marker
  without it); inside a claim there is no marker; between publication and acceptance `PHARSED`
  is its own tree, out of staging; a current holder's staging is complete;
* `AcceptedInv`: the accepted tree is in place, complete and not a staging directory, hence
  out of reach of every sweep;
* `ClaimAgreesWithAccepted`.

`DataStep` proves that each action preserves the last three; `MoveKeepsControl` does the first two
for all actions at once, since they only depend on how `pc`, `lock` and `token` move. The theorems
`TypeCorrect`, `AcceptedOutputSafe`, `ClaimAgreement`, `StagingProtected` and `Fencing` follow.

**ParserClaim, the job's life.** `JobInv` adds `LifeInv(w)`, what a worker knows of quarantine,
counter and past results: a current lease means no quarantine, an attempt is not accepted before
its own commit, only ordered calls are in the clearing sections. `AttemptInv` charges every
attempt beyond the allowance to an error, a death or a worker still on its way to the marker, and
`VerdictInv` says that acceptance and failure exclude each other without fsync errors.
`AttemptsSafe` and `VerdictsExclude` follow. `Refinement` proves `Spec => KeepsJobLife`, all of
`JobLife`'s specification, which states no fairness. The argument goes through `Effect(w)`:
of all actions only six touch the abstract state (`StepEffect`), and
`WorkerStepRefines` maps each of these to a step of `JobLife`, the others to a stutter.

**SpoolAllocation.** `AllocationSafe` needs: only the lock's holder selects (`LockInv`), the
counter is ahead of every code it gave (`CounterInv`), a code just allocated is on no new capture
(`FreshInv`), and a capture from before shares none with a new one (`OldInv`), which is the scan's
doing. `SharingNeedsCrossing` and `DestinationsSafe` need the progress of a scan as well: `ScanInv`
says that every capture is still ahead of it, has been taken into account, or was published
since the selection began; `OwnerInv` that a process makes one capture. `NotPoisoned` follows: when
a capture verifies its destination, what is in the way can only have been published across its scan,
and at its own publication `DestinationsUnique` leaves nothing in the way.

**LiveCapture.** The properties compare the files with everything that was ever forwarded,
which no variable holds. `HistoryInv` therefore says that *there is* a history, the
position `pos[n]` reached in each direction with chunk `n` and the last chunk `full` that was kept whole,
to which queued commands, files, job and pumps all fit. Each step shows how it extends the
history. Around it, `ControlInv` has who holds the recorder's lock (`LockInv`), whose chunk may
still be marked (`ChunkInv`, `CountInv`), that nothing is recorded after the seal (`SealInv`) and
where the worker is (`WorkerInv`); `SpoolInv` has the split of all chunks into written, skipped
and pending (`TimelineInv`), where a drain's outcome may be found (`DrainInv`), and that by default
a chunk or an outcome not in the spool is on its way (`NothingLost`, `ListedInv`). `PumpCases`
reduces the pumps' actions under both policies to four kinds of step: a chunk is recorded, a drain is
marked, a waiting command is queued, or a pump merely moves. `FlushInv` is about the
loop that writes the timeline in order, whose result the model gives with `CHOOSE`. From `Inv` follow `LimitsHold`,
`RawFilesArePrefixes`, `TimelineOrdered`, `ReadyEvidence` and `PublishedEvidence`.

**Relay.** `ConversationsExclude` needs `HolderInv`: from its first connection attempt until its
printer socket is closed or given up, a session holds the device lock. `ShutdownWaits` needs `TaskInv` (who is in
`_sessions` and who left a task behind) and `ShutdownInv` (what each stage of `close()` has seen
end). `SessionLimit`, the type invariant with `MAX_CONNECTIONS` in it, needs `RetryInv`.

**ParserService.** `HaltJustified` counts what a walk found while publications go on. `WalkInv`
says that all of it is ready and will not be met twice. A walk that halts has found as many jobs as
the limit and meets a further marker, which bounds the ready and the marked directories from below;
they are finitely many.

**Framing.** `EveryByteOnce` and `ValidMeansComplete` rest on `SpanInv`: events and issues lie
before the cursor, share no byte, and together cover every byte until a limit is hit. The
lemmas `EventAdded`, `IssueAdded`, `RemarkAdded` and `SpansKept` say so of sequences of
spans, and the branches of `_process` reduce to them: skip with an issue, retain an event, drop an
event. `LimitInv` (issues are omitted only when the list is full) is what makes the replacement
of the last issue in `finish` well defined; `FinishInv` ties a finished framer to the end of the
stream. `SearchInBuffer` shows that every search moves the cursor by at least one byte and not past the
bytes fed. `RoomToWait` is the comment in `feed` made precise.

`SegmentationsAgree` compares two complete runs, without relating their steps. `TrailInv` says of each framer alone
how its events stand to the stream: they are what the stream holds at their offsets
(`Genuine`), in order, and no ACK and no frame before the last five bytes is passed over
(`NothingMissed`) unless it lies within an event or behind a frame that the end of the stream cut short.
The searches keep this although they see only the buffer: `_next_control` skips no STX and no ACK,
and an STX that `_next_plausible_control` skips has another control byte where its header needs a
digit, so no segmentation takes it for a frame (`NothingPlausibleSkipped`). Of two finished framers, consider the
first position where only one has an event (`NoFirstDifference`): the other has a frame there that
began earlier, or met the end of the stream in one that began earlier, and at that earlier position both agree. The
least difference thus takes the place of an induction over the stream.

**DocumentAssembly.** `EveryFrameOnce` needs `FrameInv`: frames in use are not later than the loop, and the
marker of a sale not yet begun (`pending_start`) is in no builder and no document, so that the
builder that takes it up shares it with nobody. `FramesMove` proves it once for all commands, from
how a step divides the builder's frames, the new frame and the marker between the finished
document and the next builder; `Turn` adds the rest of the invariant, and each command is then
shown to be such a step. `OnlyOmits` needs `FieldInv`: as long as the field budget is not
exhausted, a builder that passed a printed total knows it (`Tallied`); a line that
lost an amount has used up the budget, so what it is then mistaken for cannot be recorded
(`LineWritten`). The change needs no reservation; that it is an earlier amount only once the crossing
is noted is `ChangeInv`, proved as `ChangeTold`. `NumberIsOwn` uses that two positions with the same residue are a whole turn
apart (`Residue`), for every modulus above 2 and not only the code's 10. `CrossingsReported` rests on `BoundedList`: the entries of
a list that are kept are no more than the capacity, and hold every crossing when the crossings
fit. `ReportInv` says that the correlation's capped diagnostics end the list of issues (`TailKept`); if they
were cut, that list is at least as long as the limit, so either it is exactly they or
`_bounded_result_issues` marks it (`DroppedIssues`). Captures, diagnostics and the bounded list are written with `Picked(s, S)`, the
elements of `s` at the positions in `S`, in order; `NthExists`, `PickedType` and `PickedHas` are
its theory. `LimitsHold` has the document, field, message and issue limits.

`SalesStayApart` and `ClosedByTheirOwn` need `SaleInv`: what a builder took in is of its kind
(`OfItsKind`), and nothing that finishes a builder of that kind came after it (`Uninterrupted`).
If a document had content of two sales and the capture held the end of the earlier or the beginning
of the later one, that command would lie between the two and would have finished the builder.
`UninterruptedApart` and `UninterruptedClosed` read this off an orderly conversation.

`CopiesRepeatTheOriginal` is about a coincidence the field budget might produce: a document whose
recorded items and total equal those of a receipt, while what was not recorded differs. `CopyInv` keeps an account
of the budget. `Ledger`: what is recorded is a part of what the document has, in order. `Shortfall`: a
receipt that lacks an item or its total leaves at most four fields, a management document that
lacks an item leaves at most one and has no total. `Poor`: a management document assembled out of
four fields has not both an item and a total, since an item takes at least four and a total three.
A copy has both, so it lacks no item and not its first total, and the receipt it repeats lacks nothing
(`CopyIsReal`); that the recorded
amounts then are the true ones, in order, follows from two ascending enumerations of one set being equal
(`AscendingNth`). The true items and totals are written as sets of frames for this reason.

Four modules take the least element of a set of numbers (the loop of `FlushInv`, the search of
the framer, the queue of the device lock, `Nth` in document assembly); that it exists follows from the library's theorem that
the order on the naturals is well founded, not from an induction.

Only model-checked is liveness (`EventuallySettled`, `EventuallyStored`, `TeardownNeedsNoDisk`,
`EverySessionEnds`, `ShutdownEnds`, `EventuallyScanned`), which is beyond the prover.

## Not modelled

* The recorder's non-streaming `_persist` path: no shipped storage lacks `begin_live`.
* The torn copy of a chunk's three drain fields: `LiveCapture` keeps them as one value.
* `.superseded` directories left by a death in a commit: no code collects them and no document
  promises it.
* In document assembly: the wording of lines, the order, currency and reference metadata,
  sequence characters that are not digits, serialisation.
* XML7 decoding, rendering, inspection, configuration, logging, metrics, health, the legacy store
  and the scripts: text in, text out, no state that another component waits for.

## Plan

Done: the modules above, their runs, the refinement of `JobLife`, and every safety invariant and
action property of every run by proof. Left: the torn copy of a chunk's drain fields, which needs them as
three variables of `LiveCapture`, and the decoding of XML7 answers.
