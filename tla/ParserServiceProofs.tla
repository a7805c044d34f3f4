------------------------ MODULE ParserServiceProofs ------------------------
(***************************************************************************)
(* With a walk that tolerates renames, the service gives up only on a      *)
(* spool that really is too full: for any jobs and any discovery limit.    *)
(***************************************************************************)
EXTENDS ParserService, FiniteSetTheorems, TLAPS

\* Every step keeps the variables in their types, and the watches with their descriptor.
LEMMA TypeStep == ASSUME TypeOK, Next PROVE TypeOK'
<1> USE ParserServiceAssumption
    DEF TypeOK, Kinds, settings, walkVars, watchVars, waitFrame, Notify, Disable
<1>1. CASE StartScan BY <1>1 DEF StartScan, Listing
<1>2. ASSUME NEW e \in Jobs \X Kinds, Visit(e) PROVE TypeOK' BY <1>2 DEF Visit
<1>3. CASE WalkEnds BY <1>3 DEF WalkEnds
<1>4. ASSUME NEW j \in Jobs, ProcessJob(j) PROVE TypeOK' BY <1>4 DEF ProcessJob
<1>5. CASE ScanEnds BY <1>5 DEF ScanEnds
<1>6. CASE BeginWait
  <2>1. fd' \in BOOLEAN /\ event' \in BOOLEAN BY <1>6 DEF BeginWait, Activate
  <2>2. ~fd' => watches' = {} /\ ~event' BY <1>6 DEF BeginWait, Activate
  <2>3. watches' \subseteq Jobs \cup {Root}
    BY <1>6 DEF BeginWait, Activate, Granted, Directories
  <2>4. pc' \in {"select", "sleep"} BY <1>6 DEF BeginWait
  <2>5. UNCHANGED <<version, enabled, dir, entries, found, scanned, stop>> BY <1>6 DEF BeginWait
  <2> QED BY <2>1, <2>2, <2>3, <2>4, <2>5
<1>7. CASE Wake
  <2>1. CASE event' = FALSE /\ UNCHANGED <<fd, watches>> BY <1>7, <2>1 DEF Wake
  <2>2. CASE Disable BY <1>7, <2>2 DEF Wake
  <2> QED BY <1>7, <2>1, <2>2 DEF Wake
<1>8. CASE SelectFails BY <1>8 DEF SelectFails
<1>9. CASE Deadline BY <1>9 DEF Deadline
<1>10. ASSUME NEW j \in Jobs, CreatePartial(j) PROVE TypeOK' BY <1>10 DEF CreatePartial
<1>11. ASSUME NEW j \in Jobs, PublishJob(j) PROVE TypeOK' BY <1>11 DEF PublishJob
<1>12. CASE RequestStop BY <1>12 DEF RequestStop
<1>13. ASSUME NEW j \in Jobs, MarkReady(j) PROVE TypeOK' BY <1>13 DEF MarkReady
<1> QED
  BY <1>1, <1>2, <1>3, <1>4, <1>5, <1>6, <1>7, <1>8, <1>9, <1>10, <1>11, <1>12, <1>13
  DEF Next, Service, Scan

\* A published job stays ready, so what the walk found stays true while it goes on.
LEMMA WalkStep == ASSUME TypeOK, WalkInv, Next PROVE WalkInv'
<1> USE DEF TypeOK, WalkInv, Ready, Kinds, walkVars, waitFrame
<1>1. CASE StartScan BY <1>1 DEF StartScan, Listing
<1>2. ASSUME NEW e \in Jobs \X Kinds, Visit(e) PROVE WalkInv'
  <2>1. pc = "walk" /\ e \in entries /\ entries' = entries \ {e} /\ dir' = dir BY <1>2 DEF Visit
  <2>2. found' = found \/ (dir[e[1]] = "ready" /\ found' = found \cup {e[1]}) BY <1>2 DEF Visit
  <2> QED BY <2>1, <2>2
<1>3. CASE WalkEnds BY <1>3 DEF WalkEnds
<1>4. ASSUME NEW j \in Jobs, ProcessJob(j) PROVE WalkInv' BY <1>4 DEF ProcessJob
<1>5. CASE ScanEnds BY <1>5 DEF ScanEnds
<1>6. CASE BeginWait BY <1>6 DEF BeginWait
<1>7. CASE Wake BY <1>7 DEF Wake
<1>8. CASE SelectFails BY <1>8 DEF SelectFails
<1>9. CASE Deadline BY <1>9 DEF Deadline
<1>10. ASSUME NEW j \in Jobs, CreatePartial(j) PROVE WalkInv' BY <1>10 DEF CreatePartial
<1>11. ASSUME NEW j \in Jobs, PublishJob(j) PROVE WalkInv' BY <1>11 DEF PublishJob
<1>12. CASE RequestStop BY <1>12 DEF RequestStop
<1>13. ASSUME NEW j \in Jobs, MarkReady(j) PROVE WalkInv' BY <1>13 DEF MarkReady
<1> QED
  BY <1>1, <1>2, <1>3, <1>4, <1>5, <1>6, <1>7, <1>8, <1>9, <1>10, <1>11, <1>12, <1>13
  DEF Next, Service, Scan

\* The marker that raises is of a job the walk has not counted: with those it has,
\* there are more than the limit.
LEMMA HaltStep == ASSUME TypeOK, WalkInv, HaltNeedsFullSpool, Next PROVE HaltNeedsFullSpool'
<1> DEFINE Halts == \E e \in Jobs \X Kinds : Visit(e) /\ pc' = "halted"
<1>0. /\ Ready \subseteq Ready' /\ IsFiniteSet(Ready') /\ Marked \subseteq Marked' /\ IsFiniteSet(Marked')
      /\ Ready' \subseteq Marked'
  <2>1. Ready \subseteq Ready' /\ Marked \subseteq Marked'
    BY DEF Next, Service, Scan, StartScan, Visit, WalkEnds, ProcessJob, ScanEnds, BeginWait, Wake,
       SelectFails, Deadline, CreatePartial, MarkReady, PublishJob, RequestStop, waitFrame, Ready, Marked,
       TypeOK, Kinds
  <2>2. IsFiniteSet(Ready') /\ IsFiniteSet(Marked')
    BY ParserServiceAssumption, FS_Subset DEF Ready, Marked
  <2> QED BY <2>1, <2>2 DEF Ready, Marked
<1>a. /\ Cardinality(Ready') \in Nat /\ Cardinality(Marked') \in Nat
      /\ Cardinality(Ready) \in Nat /\ Cardinality(Marked) \in Nat
      /\ Cardinality(Ready) <= Cardinality(Ready') /\ Cardinality(Marked) <= Cardinality(Marked')
  BY <1>0, FS_Subset, FS_CardinalityType
<1>1. CASE Halts
  <2> SUFFICES ASSUME version' = "3.13"
               PROVE  Cardinality(Ready') >= DiscoveryLimit /\ Cardinality(Marked') > DiscoveryLimit
    BY DEF HaltNeedsFullSpool
  <2>1. PICK e \in Jobs \X Kinds : Visit(e) /\ pc' = "halted" BY <1>1
  <2>2. dir[e[1]] \in {"marked", "ready"} /\ e \in entries /\ BeyondLimit /\ pc = "walk"
    BY <2>1 DEF Visit, settings
  <2>3. e[1] \in Marked \ found /\ found \subseteq Ready BY <2>2 DEF WalkInv, Marked
  <2>4. IsFiniteSet(found) /\ Cardinality(found) \in Nat /\ Cardinality(found) <= Cardinality(Ready')
    BY <1>0, <2>3, FS_Subset, FS_CardinalityType
  <2>5. Cardinality(found \cup {e[1]}) = Cardinality(found) + 1 BY <2>3, <2>4, FS_AddElement
  <2>6. Cardinality(found \cup {e[1]}) <= Cardinality(Marked')
    BY <1>0, <2>3, FS_Subset
  <2> QED BY <1>a, <2>2, <2>4, <2>5, <2>6, ParserServiceAssumption DEF BeyondLimit
<1>2. CASE ~Halts
  <2>1. pc' = "halted" /\ version' = "3.13" => pc = "halted" /\ version = "3.13"
    BY <1>2 DEF Next, Service, Scan, StartScan, Visit, WalkEnds, ProcessJob, ScanEnds, BeginWait, Wake,
       SelectFails, Deadline, CreatePartial, MarkReady, PublishJob, RequestStop, waitFrame, settings, TypeOK
  <2> QED BY <1>a, <2>1, ParserServiceAssumption DEF HaltNeedsFullSpool
<1> QED BY <1>1, <1>2

LEMMA InvInit == ASSUME Init PROVE Inv
<1>1. TypeOK
  <2>1. ~fd => watches = {} BY DEF Init
  <2>2. fd => watches \subseteq Jobs \cup {Root} BY DEF Init, Granted, Directories
  <2> QED BY <2>1, <2>2 DEF Init, TypeOK
<1> QED BY <1>1 DEF Init, Inv, WalkInv, HaltNeedsFullSpool

LEMMA InvStep == ASSUME Inv, [Next]_vars PROVE Inv'
<1>1. CASE Next BY <1>1, TypeStep, WalkStep, HaltStep DEF Inv
<1>2. CASE UNCHANGED vars
  BY <1>2 DEF vars, settings, walkVars, watchVars, Inv, TypeOK, WalkInv, HaltNeedsFullSpool, Ready,
     Marked
<1> QED BY <1>1, <1>2

\* A watch or an event needs an open descriptor: every path of _disable_inotify and
\* _activate_if_possible leaves them consistent, and every variable in its type.
THEOREM WatchesNeedDescriptor == Spec => []TypeOK
<1>1. Inv => TypeOK BY DEF Inv
<1> QED BY <1>1, InvInit, InvStep, PTL DEF Spec

\* discover_ready_jobs raises only on a spool with its maximum of ready jobs and one more
\* marker, although jobs are published while it walks.
THEOREM HaltJustified == Spec => []HaltNeedsFullSpool
<1>1. Inv => HaltNeedsFullSpool BY DEF Inv
<1> QED BY <1>1, InvInit, InvStep, PTL DEF Spec
=============================================================================
