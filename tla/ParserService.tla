--------------------------- MODULE ParserService ---------------------------
(***************************************************************************)
(* The parser service's loop: scan the spool, process every ready job,     *)
(* wait for inotify or for the poll deadline, again.  The dumper creates   *)
(* and publishes captures in the same tree meanwhile.                      *)
(*                                                                         *)
(* Source: parser/main.py (cli), parser/watcher.py, parser/worker.py       *)
(* (run_once), storage/spool.py (discover_ready_jobs).                     *)
(*                                                                         *)
(* What process_job does to one job is ParserClaim.  Here it is one step,  *)
(* seen by its watch: the job's lock file is opened for writing and closed *)
(* in every scan.  A capture's directory is renamed when it is published;  *)
(* an inotify watch stays with the directory it was placed on.             *)
(***************************************************************************)
EXTENDS Integers, FiniteSets

CONSTANTS
  Jobs,            \* captures of one day directory
  Root,            \* the directory that holds them
  DiscoveryLimit,  \* discover_ready_jobs's maximum
  Versions         \* Python versions to explore: pathlib's rglob differs

ASSUME ParserServiceAssumption ==
  /\ IsFiniteSet(Jobs) /\ Root \notin Jobs
  /\ DiscoveryLimit \in Nat \ {0}
  /\ Versions \subseteq {"3.11", "3.13"}

VARIABLES
  version, enabled,  \* the Python in use, config.parser_use_inotify
  dir,      \* each capture's directory: none, partial, marked (partial with .ready), ready
  pc,       \* where the service is
  entries,  \* directories listed by the walk and not visited yet
  found,    \* ready jobs of this scan, not processed yet
  scanned,  \* jobs that process_job has been called on
  fd,       \* is the inotify descriptor open?
  watches,  \* directories with an inotify watch
  event,    \* is the descriptor readable?
  stop      \* has SIGTERM or SIGINT set the stop event?

settings  == <<version, enabled>>
walkVars  == <<entries, found>>
watchVars == <<fd, watches, event>>
vars == <<settings, dir, pc, walkVars, scanned, watchVars, stop>>

\* The names a directory has in its life, .<code>.<job_id>.partial and <code>.
Kinds == {"partial", "ready"}
Name(state) == IF state = "marked" THEN "partial" ELSE state

\* A watch or an event needs an open descriptor.
TypeOK ==
  /\ version \in Versions /\ enabled \in BOOLEAN
  /\ dir \in [Jobs -> {"none", "marked"} \cup Kinds]
  /\ pc \in {"scan", "walk", "process", "wait", "select", "sleep", "halted", "stopped"}
  /\ entries \subseteq Jobs \X Kinds /\ found \subseteq Jobs /\ scanned \subseteq Jobs
  /\ fd \in BOOLEAN /\ watches \subseteq Jobs \cup {Root} /\ event \in BOOLEAN
  /\ ~fd => watches = {} /\ ~event
  /\ stop \in BOOLEAN

Listing     == {e \in Jobs \X Kinds : Name(dir[e[1]]) = e[2]}
Directories == {Root} \cup {j \in Jobs : dir[j] # "none"}

\* Watches the kernel may grant: some are refused.
Granted == {W \in SUBSET Directories : Root \in W}

\* _activate_if_possible, when inotify is enabled and closed; without a watch on the
\* root the descriptor is closed again.
Activate ==
  \/ /\ enabled
     /\ watches' \in Granted
     /\ fd' = TRUE /\ event' = FALSE
  \/ UNCHANGED watchVars

\* The spool may hold captures from before the service started.
Init ==
  /\ version \in Versions /\ enabled \in BOOLEAN
  /\ dir \in [Jobs -> {"none", "marked"} \cup Kinds]
  /\ pc = "scan" /\ entries = {} /\ found = {} /\ scanned = {}
  /\ fd \in {FALSE, enabled} /\ watches \in (IF fd THEN Granted ELSE {{}}) /\ event = FALSE
  /\ stop = FALSE

\* Something happened in the directories ds.
Notify(ds) ==
  /\ event' = (event \/ (fd /\ ds \cap watches # {}))
  /\ UNCHANGED <<fd, watches>>

\* Mutant: the descriptor is closed and its watches are kept.
DisableKeepingWatches == fd' = FALSE /\ event' = FALSE /\ UNCHANGED watches

\* _disable_inotify; the next wait tries to open it again.
Disable == fd' = FALSE /\ watches' = {} /\ event' = FALSE

-----------------------------------------------------------------------------
(* run_once *)

StartScan ==
  /\ pc = "scan"
  /\ \/ stop /\ pc' = "stopped" /\ UNCHANGED walkVars
     \/ ~stop /\ pc' = "walk" /\ entries' = Listing /\ found' = {}
  /\ UNCHANGED <<settings, dir, scanned, watchVars, stop>>

\* Mutant: the limit is reached by the last job that still fits.
BeyondLimitEarly == Cardinality(found) + 1 >= DiscoveryLimit

\* The marker that raises is the first one after the last job that fits, a staging
\* directory's included: the limit is tested before the directory's name.
BeyondLimit == Cardinality(found) >= DiscoveryLimit

\* discover_ready_jobs visits a listed directory.  One that was renamed meanwhile is an
\* error with the pathlib of Python 3.11, which ends the service (exit status 2); 3.13 skips it.
Visit(e) ==
  LET job    == e[1]
      gone   == Name(dir[job]) # e[2]
      marker == dir[job] \in {"marked", "ready"}
      halts  == IF gone THEN version = "3.11" ELSE marker /\ BeyondLimit
  IN  /\ pc = "walk" /\ e \in entries
      /\ entries' = entries \ {e}
      /\ pc' = IF halts THEN "halted" ELSE "walk"
      /\ found' = IF dir[job] = "ready" /\ ~gone /\ ~halts THEN found \cup {job} ELSE found
      /\ UNCHANGED <<settings, dir, scanned, watchVars, stop>>

WalkEnds ==
  /\ pc = "walk" /\ entries = {}
  /\ pc' = "process"
  /\ UNCHANGED <<settings, dir, walkVars, scanned, watchVars, stop>>

\* process_job opens and closes .parser.lock, whatever it finds.
ProcessJob(j) ==
  /\ pc = "process" /\ j \in found
  /\ found' = found \ {j}
  /\ scanned' = scanned \cup {j}
  /\ Notify({j})
  /\ UNCHANGED <<settings, dir, pc, entries, stop>>

ScanEnds ==
  /\ pc = "process" /\ found = {}
  /\ pc' = "wait"
  /\ UNCHANGED <<settings, dir, walkVars, scanned, watchVars, stop>>

-----------------------------------------------------------------------------
(* SpoolWatcher.wait *)

waitFrame == <<settings, dir, walkVars, scanned, stop>>

\* With inotify closed it is opened if possible; _refresh_watches then adds the
\* directories that appeared since, except those whose watch is refused.
BeginWait ==
  /\ pc = "wait"
  /\ \/ ~fd /\ Activate
     \/ /\ fd
        /\ \E W \in SUBSET Directories : watches' = watches \cup W
        /\ UNCHANGED <<fd, event>>
  /\ pc' = IF fd' THEN "select" ELSE "sleep"
  /\ UNCHANGED waitFrame

\* The descriptor is readable: it is drained, or the read fails.
Wake ==
  /\ pc = "select" /\ event
  /\ pc' = "scan"
  /\ \/ event' = FALSE /\ UNCHANGED <<fd, watches>>
     \/ Disable
  /\ UNCHANGED waitFrame

SelectFails ==
  /\ pc = "select"
  /\ Disable
  /\ pc' = "sleep"
  /\ UNCHANGED waitFrame

\* Mutant: with inotify open, only an event ends the wait.
DeadlineWithoutInotify ==
  /\ pc = "sleep"
  /\ pc' = "scan"
  /\ UNCHANGED <<waitFrame, watchVars>>

\* The deadline, or a stop request.
Deadline ==
  /\ pc \in {"select", "sleep"}
  /\ pc' = "scan"
  /\ UNCHANGED <<waitFrame, watchVars>>

-----------------------------------------------------------------------------
(* The dumper and the operator *)

CreatePartial(j) ==
  /\ dir[j] = "none"
  /\ dir' = [dir EXCEPT ![j] = "partial"]
  /\ Notify({Root})
  /\ UNCHANGED <<settings, pc, walkVars, scanned, stop>>

\* finalize and archive write .ready before they rename the directory.
MarkReady(j) ==
  /\ dir[j] = "partial"
  /\ dir' = [dir EXCEPT ![j] = "marked"]
  /\ Notify({j})
  /\ UNCHANGED <<settings, pc, walkVars, scanned, stop>>

PublishJob(j) ==
  /\ dir[j] = "marked"
  /\ dir' = [dir EXCEPT ![j] = "ready"]
  /\ Notify({Root, j})
  /\ UNCHANGED <<settings, pc, walkVars, scanned, stop>>

RequestStop ==
  /\ ~stop
  /\ stop' = TRUE
  /\ UNCHANGED <<settings, dir, pc, walkVars, scanned, watchVars>>

-----------------------------------------------------------------------------
Scan == StartScan \/ (\E e \in Jobs \X Kinds : Visit(e)) \/ WalkEnds
          \/ (\E j \in Jobs : ProcessJob(j)) \/ ScanEnds

Service == Scan \/ BeginWait \/ Wake \/ Deadline

Next ==
  \/ Service
  \/ SelectFails
  \/ \E j \in Jobs : CreatePartial(j) \/ MarkReady(j) \/ PublishJob(j)
  \/ RequestStop

Spec == Init /\ [][Next]_vars

\* The service runs while it can, and its waits have a deadline.  Events may never
\* come, the dumper may never publish, nobody need stop the service.
Fairness == WF_vars(Service)
FairSpec == Spec /\ Fairness

-----------------------------------------------------------------------------
(* Properties *)

Ready  == {j \in Jobs : dir[j] = "ready"}
Marked == {j \in Jobs : dir[j] \in {"marked", "ready"}}

\* Every published job is processed although its publication may fall between the walk
\* and the watch, on a directory without a watch, or while inotify is closed, unless
\* the service stops (SpoolWatcher.wait: "inotify is an optimization only").
EventuallyScanned ==
  \A j \in Jobs : j \in Ready ~> j \in scanned \/ pc \in {"halted", "stopped"}

\* With a walk that tolerates renames, the service gives up only on a spool that holds as
\* many ready jobs as discovery takes and one more marker, of a ready job or of one
\* about to be renamed, although jobs are published while it walks
\* (discover_ready_jobs: "ready job discovery limit exceeded").
HaltNeedsFullSpool ==
  pc = "halted" /\ version = "3.13" =>
    Cardinality(Ready) >= DiscoveryLimit /\ Cardinality(Marked) > DiscoveryLimit

\* Polling is the fallback for everything: only a stop request keeps a published job
\* from being processed.  README.md: "A complete deterministic spool scan always runs
\* and periodic polling remains the correctness fallback."
ScanAlwaysRuns == \A j \in Jobs : j \in Ready ~> j \in scanned \/ stop

-----------------------------------------------------------------------------
(* The inductive invariant behind HaltNeedsFullSpool.                      *)

\* What a walk has found is ready, and it visits no job twice.
WalkInv ==
  pc = "walk" =>
    /\ found \subseteq Ready
    /\ \A e \in entries : e[1] \notin found
    /\ \A e, f \in entries : e[1] = f[1] => e = f

Inv == TypeOK /\ WalkInv /\ HaltNeedsFullSpool
=============================================================================
