---------------------------- MODULE ParserClaim ----------------------------
(***************************************************************************)
(* The parser's protocol on ONE ready job directory: several parser        *)
(* processes (service scans and reparse commands) claim the job with a     *)
(* tokenised `.processing` lease, build PHARSED in a private staging       *)
(* directory and publish it behind a fence.  They share nothing but the    *)
(* directory and its advisory lock `.parser.lock`.                         *)
(*                                                                         *)
(* Source: parser/worker.py (process_job and what it calls),               *)
(* tools/reparse.py (reparse_ready_job), storage/locking.py,               *)
(* storage/atomic.py.                                                      *)
(*                                                                         *)
(* A directory tree is named by the claim token under which it was         *)
(* written.  A process may die between any two file operations; its flock  *)
(* is then released by the kernel and the directory stays as it is.        *)
(***************************************************************************)
EXTENDS Integers, FiniteSets

CONSTANTS
  Workers,      \* processes that call process_job on this job
  Free,         \* the lock's value when nobody holds it
  RetryCount,   \* config.parser_retry_count
  Documents,    \* documents the RAW data holds
  MaxClaims,    \* bound: claim tokens (uuid4) issued
  MaxFaults,    \* bound: operating-system errors, lock timeouts, stalled leases
  MaxCrashes,   \* bound: process deaths
  MaxReparses,  \* bound: reparse and --force commands
  ForceJobs,    \* may the parser command be run with --job --force?
  SyncFaults    \* may fsync_directory raise after its operation took effect?

ASSUME ParserClaimAssumption ==
  /\ Free \notin Workers
  /\ RetryCount \in Nat
  /\ Documents \in Nat \ {0}
  /\ MaxClaims \in Nat
  /\ MaxFaults \in Nat
  /\ MaxCrashes \in Nat
  /\ MaxReparses \in Nat
  /\ ForceJobs \in BOOLEAN
  /\ SyncFaults \in BOOLEAN

VARIABLES
  \* the job directory
  lock,        \* holder of .parser.lock
  processing,  \* token in .processing: None (no file), Torn (unreadable) or a token
  fresh,       \* is the marker's mtime younger than parser_stale_lock_sec?
  staging,     \* tokens t whose .PHARSED.<t>.partial exists
  whole,       \* trees from which nothing has been removed since their mkdir
  output,      \* the tree that is PHARSED
  superseded,  \* the tree that is .PHARSED.<t>.superseded, for each token t
  backups,     \* trees renamed to PHARSED.backup-*
  parsed,      \* the tree whose hash .parsed holds
  attempts,    \* counter in .parse_attempts.json, 0 when there is no file
  failed,      \* does .parse_failed exist?
  \* the processes
  pc,          \* next step of each worker
  token,       \* the claim each worker believes it holds
  force,       \* process_job's force argument
  docs,        \* documents written in this attempt
  \* history
  issued,      \* tokens issued so far
  accepted,    \* every tree that .parsed has ever named
  faults, crashes, reparses

claimVars  == <<processing, fresh>>
treeVars   == <<staging, whole, output, superseded, backups>>
stateVars  == <<parsed, attempts, failed, accepted>>
localVars  == <<token, force, docs>>
budgetVars == <<crashes, reparses>>
vars == <<lock, claimVars, treeVars, stateVars, pc, localVars, issued, faults, budgetVars>>

None  == 0
Torn  == -1
Token == 1..MaxClaims

ClaimSection   == {"sweep", "clear_parsed", "clear_failed", "clear_attempts", "mark"}
ReparseSection == {"invalidate", "move"}
WorkPc         == {"load", "mkdir", "doc", "write", "meta", "commit"}
CommitSection  == {"fence", "supersede", "publish", "unmark_attempts", "unmark_failed",
                   "accept", "discard"}
FailSection    == {"count", "exhaust"}
Locked  == ClaimSection \cup ReparseSection \cup CommitSection \cup FailSection
Holding == WorkPc \cup CommitSection \cup FailSection \cup {"fail", "cleanup", "release"}
Pc      == {"idle", "claim", "backup"} \cup Locked \cup Holding

TypeOK ==
  /\ lock \in Workers \cup {Free}
  /\ processing \in Token \cup {None, Torn}
  /\ fresh \in BOOLEAN
  /\ staging \in SUBSET Token
  /\ whole \in SUBSET Token
  /\ output \in Token \cup {None}
  /\ superseded \in [Token -> Token \cup {None}]
  /\ backups \in SUBSET Token
  /\ parsed \in Token \cup {None}
  /\ attempts \in Nat
  /\ failed \in BOOLEAN
  /\ pc \in [Workers -> Pc]
  /\ token \in [Workers -> Token \cup {None}]
  /\ force \in [Workers -> BOOLEAN]
  /\ docs \in [Workers -> 0..Documents]
  /\ issued \in 0..MaxClaims
  /\ accepted \in SUBSET Token
  /\ faults \in 0..MaxFaults
  /\ crashes \in 0..MaxCrashes
  /\ reparses \in 0..MaxReparses

Init ==
  /\ lock = Free
  /\ processing = None /\ fresh = FALSE
  /\ staging = {} /\ whole = {} /\ output = None
  /\ superseded = [t \in Token |-> None] /\ backups = {}
  /\ parsed = None /\ attempts = 0 /\ failed = FALSE /\ accepted = {}
  /\ pc = [w \in Workers |-> "idle"]
  /\ token = [w \in Workers |-> None]
  /\ force = [w \in Workers |-> FALSE]
  /\ docs = [w \in Workers |-> 0]
  /\ issued = 0 /\ faults = 0 /\ crashes = 0 /\ reparses = 0

-----------------------------------------------------------------------------
(* Control: moving on, entering and leaving the locked sections, failing.  *)

Goto(w, l)  == pc' = [pc EXCEPT ![w] = l]
Enter(w, l) == lock = Free /\ lock' = w /\ Goto(w, l)
Leave(w, l) == lock' = Free /\ Goto(w, l)

\* process_job or reparse_ready_job has returned; its locals are gone.
Return(w) ==
  /\ Goto(w, "idle")
  /\ token' = [token EXCEPT ![w] = None]
  /\ force' = [force EXCEPT ![w] = FALSE]
  /\ docs' = [docs EXCEPT ![w] = 0]

Fault == faults < MaxFaults /\ faults' = faults + 1

\* A file operation of a locked section followed by fsync_directory: the section
\* goes on, or the sync raises with the operation's effect in place.
Synced(w, next, handler) ==
  \/ Goto(w, next) /\ UNCHANGED <<lock, faults>>
  \/ SyncFaults /\ Fault /\ Leave(w, handler)

\* The same, where the exception ends the call.
SyncedOrReturn(w, next) ==
  \/ Goto(w, next) /\ UNCHANGED <<lock, faults, localVars>>
  \/ SyncFaults /\ Fault /\ lock' = Free /\ Return(w)

\* The age test of _claim_job and _validate_parser_paths.
Busy == processing # None /\ fresh

\* _require_current_claim: a torn or foreign marker is a lost lease.
Current(w) == processing = token[w]

-----------------------------------------------------------------------------
(* _claim_job *)

\* run_once: every pass of the poll loop calls process_job on every ready job.
ScanJob(w) ==
  /\ pc[w] = "idle"
  /\ Goto(w, "claim")
  /\ UNCHANGED <<lock, claimVars, treeVars, stateVars, localVars, issued, faults, budgetVars>>

\* The parser command with --job --force: process_job(force=True), no backup first.
ForceJob(w) ==
  /\ pc[w] = "idle" /\ ForceJobs /\ reparses < MaxReparses
  /\ reparses' = reparses + 1
  /\ Goto(w, "claim")
  /\ force' = [force EXCEPT ![w] = TRUE]
  /\ UNCHANGED <<lock, claimVars, treeVars, stateVars, token, docs, issued, faults, crashes>>

ClaimBusy(w) ==
  /\ pc[w] = "claim" /\ lock = Free /\ Busy
  /\ Return(w)
  /\ UNCHANGED <<lock, claimVars, treeVars, stateVars, issued, faults, budgetVars>>

\* A stale marker is displaced (os.replace to .processing.stale).
ClaimEnter(w) ==
  /\ pc[w] = "claim" /\ ~Busy
  /\ Enter(w, "sweep")
  /\ processing' = None
  /\ UNCHANGED <<fresh, treeVars, stateVars, localVars, issued, faults, budgetVars>>

\* Mutant: current_token is not spared.
RemoveAllStaging(keep) ==
  /\ staging' = {}
  /\ whole' = whole \ staging
  /\ UNCHANGED <<output, superseded, backups>>

\* _cleanup_orphan_parser_staging: every staging tree except the one to keep.
RemoveStaging(keep) ==
  /\ staging' = staging \cap keep
  /\ whole' = whole \ (staging \ keep)
  /\ UNCHANGED <<output, superseded, backups>>

\* Mutant: orphans stay.
ClaimSweepKeepingOrphans(w) ==
  /\ pc[w] = "sweep"
  /\ UNCHANGED <<treeVars, claimVars, stateVars, issued, faults, budgetVars>>
  /\ \/ force[w] /\ Goto(w, "clear_parsed") /\ UNCHANGED <<lock, localVars>>
     \/ ~force[w] /\ (parsed # None \/ failed) /\ lock' = Free /\ Return(w)
     \/ ~force[w] /\ parsed = None /\ ~failed /\ Goto(w, "mark") /\ UNCHANGED <<lock, localVars>>

\* Mutant: `already_parsed` is not tested.
ClaimSweepIgnoringParsed(w) ==
  /\ pc[w] = "sweep"
  /\ RemoveStaging({})
  /\ UNCHANGED <<claimVars, stateVars, issued, faults, budgetVars>>
  /\ \/ force[w] /\ Goto(w, "clear_parsed") /\ UNCHANGED <<lock, localVars>>
     \/ ~force[w] /\ failed /\ lock' = Free /\ Return(w)
     \/ ~force[w] /\ ~failed /\ Goto(w, "mark") /\ UNCHANGED <<lock, localVars>>

\* Orphans go first; then `already_parsed` and `parse_failed` end the call.
ClaimSweep(w) ==
  /\ pc[w] = "sweep"
  /\ RemoveStaging({})
  /\ UNCHANGED <<claimVars, stateVars, issued, faults, budgetVars>>
  /\ \/ force[w] /\ Goto(w, "clear_parsed") /\ UNCHANGED <<lock, localVars>>
     \/ ~force[w] /\ (parsed # None \/ failed) /\ lock' = Free /\ Return(w)
     \/ ~force[w] /\ parsed = None /\ ~failed /\ Goto(w, "mark") /\ UNCHANGED <<lock, localVars>>

\* _clear_parser_outputs unlinks three files in this order; PHARSED itself stays.
ClearOutputs(w) ==
  /\ \/ /\ pc[w] = "clear_parsed"
        /\ parsed' = None
        /\ SyncedOrReturn(w, "clear_failed")
        /\ UNCHANGED <<failed, attempts>>
     \/ /\ pc[w] = "clear_failed"
        /\ failed' = FALSE
        /\ SyncedOrReturn(w, "clear_attempts")
        /\ UNCHANGED <<parsed, attempts>>
     \/ /\ pc[w] = "clear_attempts"
        /\ attempts' = 0
        /\ SyncedOrReturn(w, "mark")
        /\ UNCHANGED <<parsed, failed>>
  /\ UNCHANGED <<claimVars, treeVars, accepted, issued, budgetVars>>

\* _create_processing_marker: O_EXCL under the lock, then the worker owns the token.
ClaimMark(w) ==
  /\ pc[w] = "mark" /\ issued < MaxClaims
  /\ issued' = issued + 1
  /\ processing' = issued' /\ fresh' = TRUE
  /\ token' = [token EXCEPT ![w] = issued']
  /\ Leave(w, "load")
  /\ UNCHANGED <<treeVars, stateVars, force, docs, faults, budgetVars>>

\* The marker's write fails part-way: its file exists and names no token.
ClaimMarkTorn(w) ==
  /\ pc[w] = "mark" /\ Fault
  /\ processing' = Torn /\ fresh' = TRUE
  /\ lock' = Free /\ Return(w)
  /\ UNCHANGED <<treeVars, stateVars, issued, budgetVars>>

\* claim_error: an exception before the section, a lock timeout, or one inside it.
ClaimError(w) ==
  /\ \/ pc[w] = "claim" /\ UNCHANGED lock
     \/ pc[w] \in ClaimSection /\ lock' = Free
  /\ Fault /\ Return(w)
  /\ UNCHANGED <<claimVars, treeVars, stateVars, issued, budgetVars>>

-----------------------------------------------------------------------------
(* process_job between the claim and the commit *)

\* _refresh_claim verifies the token and touches the marker, under the lock.
Refresh(w, next) ==
  /\ lock = Free
  /\ \/ Current(w) /\ fresh' = TRUE /\ Goto(w, next)
     \/ ~Current(w) /\ UNCHANGED fresh /\ Goto(w, "fail")
  /\ UNCHANGED <<lock, processing>>

\* Capture and inputs validated, lease refreshed.
LoadJob(w) ==
  /\ pc[w] = "load"
  /\ Refresh(w, "mkdir")
  /\ UNCHANGED <<treeVars, stateVars, localVars, issued, faults, budgetVars>>

MakeStaging(w) ==
  /\ pc[w] = "mkdir"
  /\ staging' = staging \cup {token[w]}
  /\ whole' = whole \cup {token[w]}
  /\ Goto(w, "doc")
  /\ UNCHANGED <<lock, claimVars, output, superseded, backups, stateVars, localVars,
                 issued, faults, budgetVars>>

\* _write_documents refreshes the lease before each document ...
NextDocument(w) ==
  /\ pc[w] = "doc" /\ docs[w] < Documents
  /\ Refresh(w, "write")
  /\ UNCHANGED <<treeVars, stateVars, localVars, issued, faults, budgetVars>>

\* ... and writes it without the lock.  atomic_write_bytes begins with
\* ensure_directory, so a worker that lost its lease recreates a removed tree.
WriteFile(w, next) ==
  /\ staging' = staging \cup {token[w]}
  /\ Goto(w, next)
  /\ UNCHANGED <<lock, claimVars, whole, output, superseded, backups, stateVars,
                 token, force, issued, faults, budgetVars>>

WriteDocument(w) ==
  /\ pc[w] = "write" /\ docs[w] < Documents
  /\ docs' = [docs EXCEPT ![w] = @ + 1]
  /\ WriteFile(w, IF docs'[w] < Documents THEN "doc" ELSE "meta")

\* parsed.json last.
WriteMetadata(w) ==
  /\ pc[w] = "meta"
  /\ WriteFile(w, "commit")
  /\ UNCHANGED docs

\* The RAW data does not parse, an input changed, a write failed, or no lock in time.
ParseError(w) ==
  /\ pc[w] \in WorkPc
  /\ Goto(w, "fail")
  /\ UNCHANGED <<lock, claimVars, treeVars, stateVars, localVars, issued, faults, budgetVars>>

-----------------------------------------------------------------------------
(* _commit_success, one action for each file operation under the lock *)

\* Mutant: the commit does not check the token.
CommitEnterUnfenced(w) ==
  /\ pc[w] = "commit"
  /\ Enter(w, "fence")
  /\ UNCHANGED <<claimVars, treeVars, stateVars, localVars, issued, faults, budgetVars>>

CommitEnter(w) ==
  /\ pc[w] = "commit"
  /\ \/ Current(w) /\ Enter(w, "fence")
     \/ ~Current(w) /\ lock = Free /\ Goto(w, "fail") /\ UNCHANGED lock
  /\ UNCHANGED <<claimVars, treeVars, stateVars, localVars, issued, faults, budgetVars>>

\* Other tokens' staging goes; inputs and the own staging are authenticated.
CommitFence(w) ==
  /\ pc[w] = "fence"
  /\ token[w] \in staging \cap whole
  /\ RemoveStaging({token[w]})
  /\ Goto(w, "supersede")
  /\ UNCHANGED <<lock, claimVars, stateVars, localVars, issued, faults, budgetVars>>

\* An earlier PHARSED, left by an interrupted commit or a forced one, moves aside.
Supersede(w) ==
  /\ pc[w] = "supersede"
  /\ \/ /\ output = None
        /\ Goto(w, "publish")
        /\ UNCHANGED <<output, superseded, lock, faults>>
     \/ /\ output # None
        /\ superseded' = [superseded EXCEPT ![token[w]] = output]
        /\ output' = None
        /\ Synced(w, "publish", "fail")
  /\ UNCHANGED <<claimVars, staging, whole, backups, stateVars, localVars, issued, budgetVars>>

Publish(w) ==
  /\ pc[w] = "publish"
  /\ output' = token[w]
  /\ staging' = staging \ {token[w]}
  /\ Synced(w, "unmark_attempts", "fail")
  /\ UNCHANGED <<claimVars, whole, superseded, backups, stateVars, localVars, issued, budgetVars>>

\* The rename itself fails: a superseded PHARSED is put back.
PublishFails(w) ==
  /\ pc[w] = "publish" /\ Fault
  /\ output' = superseded[token[w]]
  /\ superseded' = [superseded EXCEPT ![token[w]] = None]
  /\ Leave(w, "fail")
  /\ UNCHANGED <<claimVars, staging, whole, backups, stateVars, localVars, issued, budgetVars>>

\* Mutant: earlier failure state survives.
UnmarkNothing(w) ==
  /\ \/ pc[w] = "unmark_attempts" /\ Goto(w, "unmark_failed")
     \/ pc[w] = "unmark_failed" /\ Goto(w, "accept")
  /\ UNCHANGED <<lock, claimVars, treeVars, stateVars, localVars, issued, faults, budgetVars>>

\* Earlier failure state is unlinked before the acceptance marker appears.
Unmark(w) ==
  /\ \/ /\ pc[w] = "unmark_attempts"
        /\ attempts' = 0
        /\ Synced(w, "unmark_failed", "fail")
        /\ UNCHANGED failed
     \/ /\ pc[w] = "unmark_failed"
        /\ failed' = FALSE
        /\ Synced(w, "accept", "fail")
        /\ UNCHANGED attempts
  /\ UNCHANGED <<claimVars, treeVars, parsed, accepted, localVars, issued, budgetVars>>

\* .parsed is replaced atomically and names the tree's metadata hash.
Accept(w) ==
  /\ pc[w] = "accept"
  /\ parsed' = token[w]
  /\ accepted' = accepted \cup {token[w]}
  /\ Synced(w, "discard", "fail")
  /\ UNCHANGED <<claimVars, treeVars, attempts, failed, localVars, issued, budgetVars>>

\* The superseded tree is removed; an OSError here is only logged.
Discard(w) ==
  /\ pc[w] = "discard"
  /\ \/ superseded' = [superseded EXCEPT ![token[w]] = None] /\ UNCHANGED faults
     \/ superseded[token[w]] # None /\ Fault /\ UNCHANGED superseded
  /\ Leave(w, "cleanup")
  /\ UNCHANGED <<claimVars, staging, whole, output, backups, stateVars, localVars, issued,
                 budgetVars>>

\* Staging that fails its authentication, or any other exception in the section.
CommitError(w) ==
  /\ pc[w] \in CommitSection \ {"publish", "discard"}
  /\ IF pc[w] = "fence" /\ token[w] \notin staging \cap whole THEN UNCHANGED faults ELSE Fault
  /\ Leave(w, "fail")
  /\ UNCHANGED <<claimVars, treeVars, stateVars, localVars, issued, budgetVars>>

-----------------------------------------------------------------------------
(* The except and finally clauses of process_job *)

\* _record_failure_if_owned: a lost lease records nothing (`claim_lost`).
FailEnter(w) ==
  /\ pc[w] = "fail"
  /\ \/ Current(w) /\ Enter(w, "count")
     \/ ~Current(w) /\ lock = Free /\ Goto(w, "cleanup") /\ UNCHANGED lock
  /\ UNCHANGED <<claimVars, treeVars, stateVars, localVars, issued, faults, budgetVars>>

\* Mutant: the retry limit is ignored.
NeverExhausted(n) == n > RetryCount + MaxClaims

\* _record_failure: the counter first, then the quarantine marker.
Exhausted(n) == n > RetryCount
CountFailure(w) ==
  /\ pc[w] = "count"
  /\ attempts' = attempts + 1
  /\ \/ Exhausted(attempts') /\ Synced(w, "exhaust", "cleanup")
     \/ ~Exhausted(attempts') /\ Leave(w, "cleanup") /\ UNCHANGED faults
  /\ UNCHANGED <<claimVars, treeVars, parsed, failed, accepted, localVars, issued, budgetVars>>

Quarantine(w) ==
  /\ pc[w] = "exhaust"
  /\ failed' = TRUE
  /\ Leave(w, "cleanup")
  /\ UNCHANGED <<claimVars, treeVars, parsed, attempts, accepted, localVars, issued, faults,
                 budgetVars>>

\* failure_state_error: no lock in time, or a write of _record_failure fails.
FailError(w) ==
  /\ \/ pc[w] = "fail" /\ UNCHANGED lock
     \/ pc[w] \in FailSection /\ lock' = Free
  /\ Fault /\ Goto(w, "cleanup")
  /\ UNCHANGED <<claimVars, treeVars, stateVars, localVars, issued, budgetVars>>

\* The own staging is removed without the lock; an OSError is only logged.
Cleanup(w) ==
  /\ pc[w] = "cleanup"
  /\ \/ /\ staging' = staging \ {token[w]}
        /\ whole' = whole \ (staging \cap {token[w]})
        /\ UNCHANGED <<output, superseded, backups, faults>>
     \/ token[w] \in staging /\ Fault /\ UNCHANGED treeVars
  /\ Goto(w, "release")
  /\ UNCHANGED <<lock, claimVars, stateVars, localVars, issued, budgetVars>>

\* _release_claim unlinks the marker only while it still names this token.
Release(w) ==
  /\ pc[w] = "release" /\ lock = Free
  /\ processing' = IF Current(w) THEN None ELSE processing
  /\ Return(w)
  /\ UNCHANGED <<lock, fresh, treeVars, stateVars, issued, faults, budgetVars>>

\* A release that raises is only logged: the marker waits to become stale.
ReleaseError(w) ==
  /\ pc[w] = "release" /\ Fault
  /\ Return(w)
  /\ UNCHANGED <<lock, claimVars, treeVars, stateVars, issued, budgetVars>>

-----------------------------------------------------------------------------
(* reparse_ready_job *)

\* The unlocked checks: a live claim is refused; an existing PHARSED needs
\* --backup-existing, and is then backed up first.
Reparse(w) ==
  /\ pc[w] = "idle" /\ reparses < MaxReparses /\ ~Busy
  /\ reparses' = reparses + 1
  /\ Goto(w, IF output # None THEN "backup" ELSE "claim")
  /\ force' = [force EXCEPT ![w] = TRUE]
  /\ UNCHANGED <<lock, claimVars, treeVars, stateVars, token, docs, issued, faults, crashes>>

\* The same checks again, under the lock.
BackupEnter(w) ==
  /\ pc[w] = "backup"
  /\ \/ ~Busy /\ Enter(w, "invalidate") /\ UNCHANGED localVars
     \/ Busy /\ lock = Free /\ Return(w) /\ UNCHANGED lock
  /\ UNCHANGED <<claimVars, treeVars, stateVars, issued, faults, budgetVars>>

\* Mutant: .parsed survives the backup.
SkipInvalidate(w) ==
  /\ pc[w] = "invalidate"
  /\ Goto(w, "move")
  /\ UNCHANGED <<lock, faults, localVars, claimVars, treeVars, stateVars, issued, budgetVars>>

\* _invalidate_parsed_commit, before the outputs move.
Invalidate(w) ==
  /\ pc[w] = "invalidate"
  /\ parsed' = None
  /\ SyncedOrReturn(w, "move")
  /\ UNCHANGED <<claimVars, treeVars, attempts, failed, accepted, issued, budgetVars>>

\* Mutant: a vanished PHARSED goes unnoticed.
MoveToBackupUnchecked(w) ==
  /\ pc[w] = "move"
  /\ backups' = backups \cup {output}
  /\ output' = None
  /\ Leave(w, "claim")
  /\ UNCHANGED <<localVars, claimVars, staging, whole, superseded, stateVars, issued, faults,
                 budgetVars>>

\* PHARSED becomes the backup; os.rename raises when it has vanished meanwhile.
MoveToBackup(w) ==
  /\ pc[w] = "move"
  /\ \/ /\ output # None
        /\ backups' = backups \cup {output}
        /\ output' = None
        /\ Leave(w, "claim")
        /\ UNCHANGED localVars
     \/ /\ output = None
        /\ lock' = Free /\ Return(w)
        /\ UNCHANGED <<backups, output>>
  /\ UNCHANGED <<claimVars, staging, whole, superseded, stateVars, issued, faults, budgetVars>>

\* A lock timeout, or an exception inside the section.
ReparseError(w) ==
  /\ \/ pc[w] = "backup" /\ UNCHANGED lock
     \/ pc[w] \in ReparseSection /\ lock' = Free
  /\ Fault /\ Return(w)
  /\ UNCHANGED <<claimVars, treeVars, stateVars, issued, budgetVars>>

-----------------------------------------------------------------------------
(* Time and process death *)

Owned == \E w \in Workers : pc[w] \in Holding /\ token[w] = processing

\* Nobody refreshes an ownerless marker: it grows stale.
ExpireOrphan ==
  /\ Busy /\ ~Owned
  /\ fresh' = FALSE
  /\ UNCHANGED <<lock, processing, treeVars, stateVars, pc, localVars, issued, faults, budgetVars>>

\* A live worker is suspended, or its heartbeat thread has ended on an exception.
ExpireLive ==
  /\ Busy /\ Owned /\ Fault
  /\ fresh' = FALSE
  /\ UNCHANGED <<lock, processing, treeVars, stateVars, pc, localVars, issued, budgetVars>>

\* The heartbeat thread: _refresh_claim while the attempt is running.
Heartbeat(w) ==
  /\ pc[w] \in Holding /\ lock = Free /\ Current(w) /\ ~fresh
  /\ fresh' = TRUE
  /\ UNCHANGED <<lock, processing, treeVars, stateVars, pc, localVars, issued, faults, budgetVars>>

Crash(w) ==
  /\ pc[w] # "idle" /\ crashes < MaxCrashes
  /\ crashes' = crashes + 1
  /\ lock' = IF lock = w THEN Free ELSE lock
  /\ Return(w)
  /\ UNCHANGED <<claimVars, treeVars, stateVars, issued, faults, reparses>>

-----------------------------------------------------------------------------
\* Steps that wait for .parser.lock.
LockStep(w) ==
  \/ ClaimBusy(w) \/ ClaimEnter(w) \/ LoadJob(w) \/ NextDocument(w)
  \/ CommitEnter(w) \/ FailEnter(w) \/ Release(w) \/ BackupEnter(w)

\* Steps that need no lock or already hold it.
FreeStep(w) ==
  \/ ScanJob(w) \/ ClaimSweep(w) \/ ClearOutputs(w) \/ ClaimMark(w)
  \/ MakeStaging(w) \/ WriteDocument(w) \/ WriteMetadata(w)
  \/ CommitFence(w) \/ Supersede(w) \/ Publish(w) \/ Unmark(w) \/ Accept(w) \/ Discard(w)
  \/ CountFailure(w) \/ Quarantine(w) \/ Cleanup(w)
  \/ Invalidate(w) \/ MoveToBackup(w)

\* Errors and the environment.
ErrorStep(w) ==
  \/ ClaimMarkTorn(w) \/ ClaimError(w) \/ ParseError(w) \/ PublishFails(w) \/ CommitError(w)
  \/ FailError(w) \/ ReleaseError(w) \/ ReparseError(w)
  \/ Reparse(w) \/ ForceJob(w) \/ Heartbeat(w) \/ Crash(w)

Next ==
  \/ \E w \in Workers : LockStep(w) \/ FreeStep(w) \/ ErrorStep(w)
  \/ ExpireOrphan
  \/ ExpireLive

Spec == Init /\ [][Next]_vars

\* Every worker keeps running and the service scans forever; the lock is polled
\* every 50 ms against short sections, so a waiter is not shut out for ever; time
\* passes.  Nothing obliges errors, forced parses or heartbeats to happen.
Fairness ==
  /\ \A w \in Workers : SF_vars(LockStep(w)) /\ WF_vars(FreeStep(w))
  /\ WF_vars(ExpireOrphan)

FairSpec == Spec /\ Fairness

-----------------------------------------------------------------------------
(* Properties *)

\* What .parsed accepts is the PHARSED that is there, complete: at every instant,
\* a process death between any two file operations of a commit, of a forced claim
\* or of a backup included (_commit_success, _clear_parser_outputs,
\* _invalidate_parsed_commit).
AcceptedOutputIntact == parsed # None => output = parsed /\ parsed \in whole

\* An accepted job carries no failure state (worker.py: "Never turn a
\* successfully published .parsed marker into a false parse error").
ParsedExcludesFailure == parsed # None => ~failed /\ attempts = 0

\* Only the process whose token .processing names publishes .parsed or records a
\* failure: a worker displaced by a stale takeover changes neither, however late
\* it wakes up (_require_current_claim in _commit_success and
\* _record_failure_if_owned).
FencedPublication ==
  [][/\ parsed' # parsed /\ parsed' # None => parsed' = processing
     /\ attempts' > attempts \/ (failed' /\ ~failed)
          => \E w \in Workers : lock = w /\ token[w] = processing]_vars

\* The processes together keep the promises of JobLife: one result at a time, accepted
\* once and given up only on order, quarantine only after RetryCount + 1 failures and
\* lifted only on order (process_job: "repeat calls are a no-op after .parsed";
\* _commit_success, _record_failure, _clear_parser_outputs).
Life == INSTANCE JobLife WITH
          Results <- Token, NoResult <- None, Askers <- Workers,
          Allowed <- RetryCount, Doubt <- SyncFaults,
          result <- parsed, past <- accepted, failures <- attempts, quarantined <- failed,
          orders <- {w \in Workers : force[w]}
KeepsJobLife == Life!Spec

\* The recorded attempts pass RetryCount + 1 by at most the number of errors and
\* deaths.  Only those between the counter's write and the quarantine marker's
\* (_record_failure), or half-way through a forced clear, really cost an attempt more;
\* the bound charges all of them.
AttemptsBounded == attempts <= RetryCount + 1 + faults + crashes

\* A lease in force belongs to the attempt that has been or may still be
\* accepted: no two attempts can both win.
ClaimAgreesWithAccepted == parsed # None /\ processing \in Token => parsed = processing

StagedPc == {"doc", "write", "meta", "commit", "fence", "supersede", "publish"}
\* While a worker holds the lease nobody removes what it has staged, though every
\* claim and every commit sweeps staging directories (_cleanup_orphan_parser_staging
\* with current_token, against the unlocked writes of _write_documents).
LeaseProtectsStaging ==
  \A w \in Workers : Current(w) /\ pc[w] \in StagedPc => token[w] \in staging \cap whole

\* Every output that was ever accepted is still PHARSED, set aside or backed up.
\* tools/reparse.py promises it: "Refusing to overwrite existing PHARSED; use
\* --backup-existing".
NoAcceptedOutputLost ==
  \A t \in accepted :
    t = output \/ t \in backups \/ \E u \in Token : superseded[u] = t

\* The job is eventually accepted or quarantined for good, and neither a lease nor a
\* staging directory outlives the processes that made it (process_job with run_once's
\* endless scans, stale takeover, _cleanup_orphan_parser_staging, the finally clause).
EventuallySettled ==
  <>[](/\ parsed # None \/ failed
       /\ staging = {} /\ processing = None)

-----------------------------------------------------------------------------
(* The inductive invariant behind AcceptedOutputIntact.                    *)

\* The lock's holder is exactly the worker inside a locked section.
LockInv == \A w \in Workers : lock = w <=> pc[w] \in Locked

\* Tokens are issued once and held by one worker.
TokenInv ==
  /\ \A w \in Workers : pc[w] \in Holding => token[w] \in 1..issued
  /\ \A w \in Workers : pc[w] \notin Holding => token[w] = None
  /\ \A v, w \in Workers : token[v] = token[w] /\ token[v] # None => v = w

\* What each worker may rely on at its program point: the fence, for the whole of
\* a commit or failure section; no lease, inside a claim; no accepted result, before
\* its own; from the rename on, its tree is PHARSED; until then, what it staged.
PreAccept    == WorkPc \cup (CommitSection \ {"discard"})
UnacceptedPc == {"clear_failed", "clear_attempts", "mark", "move"}
PublishedPc  == {"unmark_attempts", "unmark_failed", "accept", "discard"}
WorkerInv(w) ==
  /\ pc[w] \in CommitSection \cup FailSection => Current(w)
  /\ pc[w] \in ClaimSection => processing = None
  /\ pc[w] \in UnacceptedPc => parsed = None
  /\ pc[w] \in PreAccept => token[w] # parsed
  /\ pc[w] \in PublishedPc => output = token[w] /\ token[w] \in whole \ staging
  /\ pc[w] \in StagedPc /\ Current(w) => token[w] \in staging \cap whole

\* An accepted tree is complete, in place and out of every sweep's reach.
AcceptedInv == parsed # None => output = parsed /\ parsed \in whole \ staging

Inv ==
  /\ TypeOK /\ LockInv /\ TokenInv
  /\ \A w \in Workers : WorkerInv(w)
  /\ AcceptedInv /\ ClaimAgreesWithAccepted
-----------------------------------------------------------------------------
(* What Inv leaves out of the job's life: orders, failures and past results. *)

\* Where the worker has not recorded a failure of its attempt yet, and where a forced
\* call removes what there is.
OpenPc   == WorkPc \cup CommitSection \cup {"fail"} \cup FailSection
ForcedPc == {"clear_parsed", "clear_failed", "clear_attempts", "backup"} \cup ReparseSection

\* A lease is given only on a job that is not quarantined, and whoever holds it is
\* the only one who can change that; its attempt was never accepted before its own
\* commit; a failure is recorded on an accepted job only if the commit's last sync
\* raised; only ordered calls remove anything.
LifeInv(w) ==
  /\ pc[w] \in {"clear_attempts", "mark"} => ~failed
  /\ pc[w] \in OpenPc /\ Current(w) => ~failed
  /\ pc[w] \in ForcedPc => force[w]
  /\ pc[w] = "exhaust" => attempts > RetryCount
  /\ pc[w] \in PreAccept => token[w] \notin accepted
  /\ pc[w] \in {"fail"} \cup FailSection /\ Current(w) => parsed = None \/ SyncFaults
  /\ pc[w] \in {"unmark_failed", "accept"} => attempts = 0

\* One more attempt than allowed is on record only while the job is quarantined, is
\* about to be, or is being cleared; every other way there costs an error or a death.
AttemptInv ==
  attempts > RetryCount + faults + crashes =>
    failed \/ \E w \in Workers : pc[w] \in {"exhaust", "clear_attempts"}

\* Without errors in the syncs, acceptance and failure exclude each other.
VerdictInv == ~SyncFaults => ParsedExcludesFailure

JobInv ==
  /\ Inv
  /\ accepted \subseteq 1..issued
  /\ \A w \in Workers : LifeInv(w)
  /\ AttemptsBounded /\ AttemptInv /\ VerdictInv
=============================================================================
