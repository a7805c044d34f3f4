-------------------------- MODULE SpoolAllocation --------------------------
(***************************************************************************)
(* How captures of one printer get their CODICE_DOC and their directory:   *)
(* the dumper's live captures take codes from a persistent counter,        *)
(* offline imports may ask for one, and both create a hidden staging       *)
(* directory under capture-allocation.lock.  Publication, the rename to    *)
(* <day>/<code>, happens later and without that lock.                      *)
(*                                                                         *)
(* Source: storage/spool.py (_prepare_capture, _code_in_use,               *)
(* _existing_codes, the renames of finalize and archive),                  *)
(* storage/counter.py, storage/locking.py, tools/replay.py.                *)
(*                                                                         *)
(* A process makes one capture; a thread of the dumper and an import       *)
(* command are both processes here.                                        *)
(***************************************************************************)
EXTENDS Integers

CONSTANTS
  Processes,
  Free,        \* the lock's value when nobody holds it; owner of old captures
  Days,        \* date directories
  Start,       \* JOB_CODE_START
  MaxCode,     \* bound: codes in the model
  MaxFailures  \* bound: operating-system errors, lock timeouts and process deaths

Codes == Start..MaxCode

ASSUME SpoolAllocationAssumption ==
  /\ Free \notin Processes
  /\ Start \in Nat /\ MaxCode \in Nat /\ Start <= MaxCode
  /\ MaxFailures \in Nat

VARIABLES
  lock,      \* holder of capture-allocation.lock
  counter,   \* number in next-code, JOB_CODE_START when there is no file
  partials,  \* hidden staging directories
  finals,    \* published directories
  \* the processes
  pc, code, day,
  explicit,  \* was the code asked for?
  \* the scan of the process that holds the lock
  todo,      \* date directories it has still to visit
  at,        \* the one it is in
  seen,      \* entries the directory held when its listing began
  used,      \* used_codes
  crossed,   \* history: codes published while each process was selecting its own
  failures

dirVars   == <<partials, finals>>
localVars == <<code, day, explicit>>
found     == <<todo, seen, used>>
scanVars  == <<at, found>>
vars == <<lock, counter, dirVars, pc, localVars, scanVars, crossed, failures>>

\* A directory, staging or final, by what tells it from another.
Capture == [code : Codes, day : Days, owner : Processes \cup {Free}, explicit : BOOLEAN]
Entry   == Capture \X {"partial", "final"}

Selecting == {"allocate", "final", "glob", "list", "listing", "pick", "reallocate", "verify",
              "mkdir"}
Pc == {"idle", "lock", "write", "published", "stopped"} \cup Selecting

TypeOK ==
  /\ lock \in Processes \cup {Free}
  /\ counter \in Start..(MaxCode + 1)
  /\ partials \subseteq Capture /\ finals \subseteq Capture
  /\ pc \in [Processes -> Pc]
  /\ code \in [Processes -> Codes]
  /\ day \in [Processes -> Days]
  /\ explicit \in [Processes -> BOOLEAN]
  /\ todo \subseteq Days /\ at \in Days
  /\ seen \subseteq Entry
  /\ used \subseteq Codes
  /\ crossed \in [Processes -> SUBSET Codes]
  /\ failures \in 0..MaxFailures

\* The archive may already hold captures, imported or numbered, published or abandoned,
\* and the counter may have been lost or be a stale one.
Init ==
  /\ lock = Free /\ counter \in Codes
  /\ \E old \in SUBSET Codes, left \in SUBSET Codes, asked \in BOOLEAN, d \in Days :
       LET Old(c) == [code |-> c, day |-> d, owner |-> Free, explicit |-> asked]
       IN  /\ partials = {Old(c) : c \in left \ old}
           /\ finals = {Old(c) : c \in old}
           /\ at = d
  /\ pc = [p \in Processes |-> "idle"]
  /\ code = [p \in Processes |-> Start]
  /\ day \in [Processes -> Days]
  /\ explicit = [p \in Processes |-> FALSE]
  /\ todo = {} /\ seen = {} /\ used = {}
  /\ crossed = [p \in Processes |-> {}]
  /\ failures = 0

-----------------------------------------------------------------------------
Goto(p, l)  == pc' = [pc EXCEPT ![p] = l]
Leave(p, l) == lock' = Free /\ todo' = {} /\ seen' = {} /\ used' = {} /\ Goto(p, l)
\* The same from wherever p may be.
Abandon(p) == IF lock = p THEN Leave(p, "stopped") ELSE Goto(p, "stopped") /\ UNCHANGED <<lock, found>>
Failure == failures < MaxFailures /\ failures' = failures + 1

Has(dirs, c, d) == \E x \in dirs : x.code = c /\ x.day = d

\* Mutant: the listing of a day passes over staging directories.
EntriesPublished(d) == {<<x, "final">> : x \in {y \in finals : y.day = d}}

\* What a listing of a date directory finds.
Entries(d) == {<<x, "partial">> : x \in {y \in partials : y.day = d}}
                \cup {<<x, "final">> : x \in {y \in finals : y.day = d}}

\* A live capture or an import, with a code asked for or not.
Begin(p) ==
  /\ pc[p] = "idle"
  /\ Goto(p, "lock")
  /\ \/ UNCHANGED <<explicit, code>>
     \/ \E c \in Codes :
          /\ explicit' = [explicit EXCEPT ![p] = TRUE]
          /\ code' = [code EXCEPT ![p] = c]
  /\ UNCHANGED <<lock, counter, dirVars, day, scanVars, crossed, failures>>

\* _prepare_capture enters its critical section.
Enter(p) ==
  /\ pc[p] = "lock" /\ lock = Free
  /\ lock' = p
  /\ Goto(p, IF explicit[p] THEN "final" ELSE "allocate")
  /\ todo' = Days
  /\ UNCHANGED <<counter, dirVars, localVars, at, seen, used, crossed, failures>>

\* Mutant: the counter is trusted and the archive not looked at.
AllocateUnchecked(p) ==
  /\ pc[p] \in {"allocate", "reallocate"} /\ counter <= MaxCode
  /\ code' = [code EXCEPT ![p] = counter]
  /\ counter' = counter + 1
  /\ Goto(p, "verify")
  /\ UNCHANGED <<lock, dirVars, day, explicit, scanVars, crossed, failures>>

\* Mutant: after a collision the next code is taken as it comes.
AllocateOnceMore(p) ==
  /\ pc[p] \in {"allocate", "reallocate"} /\ counter <= MaxCode
  /\ code' = [code EXCEPT ![p] = counter]
  /\ counter' = counter + 1
  /\ Goto(p, IF pc[p] = "allocate" THEN "final" ELSE "verify")
  /\ UNCHANGED <<lock, dirVars, day, explicit, scanVars, crossed, failures>>

\* JobCodeAllocator.allocate: the next value is on disk before the code is returned.
Allocate(p) ==
  /\ pc[p] \in {"allocate", "reallocate"} /\ counter <= MaxCode
  /\ code' = [code EXCEPT ![p] = counter]
  /\ counter' = counter + 1
  /\ Goto(p, IF pc[p] = "allocate" THEN "final" ELSE "pick")
  /\ UNCHANGED <<lock, dirVars, day, explicit, scanVars, crossed, failures>>

\* An explicit code in use is refused; an allocated one makes the caller list the
\* whole archive.
InUse(p) ==
  \/ explicit[p] /\ Leave(p, "stopped")
  \/ ~explicit[p] /\ Goto(p, "list") /\ todo' = Days /\ UNCHANGED <<lock, seen, used>>

\* _code_in_use: in each day, the final directory first ...
CheckFinal(p) ==
  /\ pc[p] = "final"
  /\ \/ todo = {} /\ Goto(p, "verify") /\ UNCHANGED <<lock, scanVars>>
     \/ \E d \in todo :
          /\ at' = d
          /\ \/ Has(finals, code[p], d) /\ InUse(p)
             \/ /\ ~Has(finals, code[p], d)
                /\ Goto(p, "glob") /\ todo' = todo \ {d} /\ UNCHANGED <<lock, seen, used>>
  /\ UNCHANGED <<counter, dirVars, localVars, crossed, failures>>

\* Mutant: staging directories do not count as in use.
CheckPartialNot(p) ==
  /\ pc[p] = "glob"
  /\ Goto(p, "final")
  /\ UNCHANGED <<lock, counter, dirVars, localVars, scanVars, crossed, failures>>

\* ... then a staging directory of any job.
CheckPartial(p) ==
  /\ pc[p] = "glob"
  /\ \/ Has(partials, code[p], at) /\ InUse(p)
     \/ ~Has(partials, code[p], at) /\ Goto(p, "final") /\ UNCHANGED <<lock, found>>
  /\ UNCHANGED <<counter, dirVars, localVars, at, crossed, failures>>

\* _existing_codes lists day after day.
ListDay(p) ==
  /\ pc[p] = "list"
  /\ \/ todo = {} /\ Goto(p, "pick") /\ UNCHANGED <<todo, at, seen>>
     \/ \E d \in todo :
          /\ at' = d /\ todo' = todo \ {d} /\ seen' = Entries(d)
          /\ Goto(p, "listing")
  /\ UNCHANGED <<lock, counter, dirVars, localVars, used, crossed, failures>>

\* readdir returns every entry that was there throughout; of an entry renamed
\* meanwhile it may return the old name, the new one, both or neither.
ListedDay(p) ==
  LET now  == Entries(at)
      sure == seen \cap now
  IN  /\ pc[p] = "listing"
      /\ \E some \in SUBSET ((seen \cup now) \ sure) :
           used' = used \cup {e[1].code : e \in sure \cup some}
      /\ seen' = {}
      /\ Goto(p, "list")
      /\ UNCHANGED <<lock, counter, dirVars, localVars, todo, at, crossed, failures>>

\* while code in used_codes
Pick(p) ==
  /\ pc[p] = "pick"
  /\ Goto(p, IF code[p] \in used THEN "reallocate" ELSE "verify")
  /\ UNCHANGED <<lock, counter, dirVars, localVars, scanVars, crossed, failures>>

\* The last look at the destination itself ...
Verify(p) ==
  /\ pc[p] = "verify"
  /\ \/ Has(finals, code[p], day[p]) /\ Leave(p, "stopped")
     \/ ~Has(finals, code[p], day[p]) /\ Goto(p, "mkdir") /\ UNCHANGED <<lock, found>>
  /\ UNCHANGED <<counter, dirVars, localVars, at, crossed, failures>>

\* ... and .<code>.<job_id>.partial is made.
MakePartial(p) ==
  /\ pc[p] = "mkdir"
  /\ partials' = partials \cup
       {[code |-> code[p], day |-> day[p], owner |-> p, explicit |-> explicit[p]]}
  /\ Leave(p, "write")
  /\ UNCHANGED <<counter, finals, localVars, at, crossed, failures>>

\* The os.replace that publishes (finalize, archive).  Nothing looks at the destination
\* before it; a published directory is not empty, so the call raises on one and the
\* staging directory stays.
Publish(p) ==
  /\ pc[p] = "write"
  /\ \/ /\ ~Has(finals, code[p], day[p])
        /\ \E x \in partials :
             /\ x.owner = p
             /\ partials' = partials \ {x}
             /\ finals' = finals \cup {x}
        /\ Goto(p, "published")
        /\ crossed' = [q \in Processes |->
                         IF lock = q THEN crossed[q] \cup {code[p]} ELSE crossed[q]]
     \/ /\ Has(finals, code[p], day[p])
        /\ Goto(p, "stopped")
        /\ UNCHANGED <<dirVars, crossed>>
  /\ UNCHANGED <<lock, counter, localVars, scanVars, failures>>

\* A lock timeout or any other exception: what is on disk stays.
Fails(p) ==
  /\ pc[p] \in {"lock", "write"} \cup Selecting
  /\ Failure
  /\ Abandon(p)
  /\ UNCHANGED <<counter, dirVars, localVars, at, crossed>>

\* The process dies; the kernel drops its flock.
Crash(p) ==
  /\ pc[p] \in {"write"} \cup Selecting
  /\ Failure
  /\ Abandon(p)
  /\ UNCHANGED <<counter, dirVars, localVars, at, crossed>>

Step(p) ==
  \/ Begin(p) \/ Enter(p) \/ Allocate(p) \/ CheckFinal(p) \/ CheckPartial(p)
  \/ ListDay(p) \/ ListedDay(p) \/ Pick(p) \/ Verify(p) \/ MakePartial(p) \/ Publish(p)

Next == \E p \in Processes : Step(p) \/ Fails(p) \/ Crash(p)

Spec == Init /\ [][Next]_vars

-----------------------------------------------------------------------------
(* Properties *)

Captures == partials \cup finals

\* Two captures share a CODICE_DOC only if one was published while the other was being
\* selected: the lock keeps two selections apart, but a rename may cross a scan
\* (_prepare_capture, _code_in_use, _existing_codes).  docs/MIGRATION.md promises more:
\* --code "explicitly selects a safe, unused code".
SharedCodeNeedsCrossing ==
  \A x, y \in Captures :
    x.code = y.code /\ x # y =>
      \E z \in {x, y} : z.owner \in Processes /\ z.code \in crossed[z.owner]

\* Codes taken from the counter are never given twice: not by concurrent allocators or
\* after a death between the counter and the directory (JobCodeAllocator.allocate), and
\* not again to a new capture after the counter was lost (_existing_codes).
AllocatedCodesUnique ==
  \A x, y \in Captures : ~x.explicit /\ ~y.explicit /\ x.code = y.code => x = y

\* Within a day even a crossed scan is caught: no directory is ever in the way of
\* another's publication (the final_dir.exists test before the mkdir).
DestinationsUnique == \A x, y \in Captures : x.code = y.code /\ x.day = y.day => x = y

\* No directory of the archive, abandoned or imported, costs a live capture its place:
\* one that asked for no code is refused only by an error, a death, or a publication
\* that crossed its scan, and after the mkdir not even by that (_prepare_capture's
\* comment: "a pre-existing explicit replay cannot poison the next live capture").
LiveNotPoisoned ==
  [][\A p \in Processes :
       /\ pc[p] # "stopped" /\ pc'[p] = "stopped"
       /\ ~explicit[p] /\ UNCHANGED failures
       => pc[p] = "verify" /\ code[p] \in crossed[p]]_vars

-----------------------------------------------------------------------------
(* What the counter alone guarantees: the captures of this archive's       *)
(* processes get distinct codes from it.                                   *)

New == {x \in Captures : x.owner \in Processes /\ ~x.explicit}

\* Only the holder of capture-allocation.lock selects.
LockInv == \A p \in Processes : lock = p <=> pc[p] \in Selecting

\* The counter is ahead of every code it gave.
CounterInv == \A x \in New : x.code < counter

\* A code just allocated is behind the counter and on no allocated capture yet.
Chosen == Selecting \ {"allocate"}
FreshInv ==
  \A p \in Processes :
    pc[p] \in Chosen /\ ~explicit[p] =>
      /\ code[p] < counter
      /\ \A x \in New : x.code # code[p]

NewInv == \A x, y \in New : x.code = y.code => x = y

Inv == TypeOK /\ LockInv /\ CounterInv /\ FreshInv /\ NewInv

-----------------------------------------------------------------------------
(* The inductive invariant behind the four properties: the scans make up   *)
(* for what the counter does not know.                                     *)

\* A process makes one capture, with its code and day, in staging until it publishes.
OwnerInv(p) ==
  /\ pc[p] \in {"idle", "lock"} \cup Selecting => \A x \in Captures : x.owner # p
  /\ pc[p] = "write" =>
       /\ \A x \in Captures : x.owner = p => x.code = code[p] /\ x.day = day[p]
       /\ \E x \in partials : x.owner = p
       /\ \A x \in finals : x.owner # p

\* Published while p was selecting: the scan may have missed it.
Excused(p, x) == x \in finals /\ x.owner \in Processes /\ x.code \in crossed[p]

\* The part of the running listing that returns x for certain, if x stays as it is.
Returned(x) ==
  /\ x.day = at
  /\ x \in partials => <<x, "partial">> \in seen
  /\ x \in finals => <<x, "final">> \in seen

\* Every capture is still ahead of p's scan, has been taken into account, or is
\* excused; a directory of the day itself is not.
ScanInv(p) ==
  /\ pc[p] = "allocate" => todo = Days
  /\ pc[p] \in {"final", "glob", "verify", "mkdir"} =>
       \A x \in Captures : x.code = code[p] =>
         \/ Excused(p, x)
         \/ pc[p] \in {"final", "glob"} /\ x.day \in todo
         \/ pc[p] = "glob" /\ x \in partials /\ x.day = at
  /\ pc[p] \in {"list", "listing", "pick", "reallocate"} =>
       \A x \in Captures :
         \/ Excused(p, x)
         \/ x.code \in used
         \/ pc[p] \in {"list", "listing"} /\ x.day \in todo
         \/ pc[p] = "listing" /\ Returned(x)
  /\ pc[p] = "mkdir" => ~Has(finals, code[p], day[p])

\* A code the archive held at first is never given again.
OldInv == \A x, y \in Captures : x.owner = Free /\ x.code = y.code => x = y

ArchiveInv ==
  /\ Inv
  /\ \A p \in Processes : OwnerInv(p) /\ ScanInv(p)
  /\ SharedCodeNeedsCrossing /\ DestinationsUnique /\ OldInv
=============================================================================
