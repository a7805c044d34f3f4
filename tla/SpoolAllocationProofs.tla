----------------------- MODULE SpoolAllocationProofs -----------------------
(***************************************************************************)
(* Codes taken from the counter are unique, a code is shared only across a *)
(* publication, and no directory is in another's way: for any number of    *)
(* processes, days and codes.                                              *)
(***************************************************************************)
EXTENDS SpoolAllocation, TLAPS

\* Every step keeps the variables in their types.
LEMMA TypeStep == ASSUME TypeOK, Next PROVE TypeOK'
<1> USE SpoolAllocationAssumption DEF TypeOK
<1> SUFFICES ASSUME NEW p \in Processes, Step(p) \/ Fails(p) \/ Crash(p) PROVE TypeOK'
  BY DEF Next
<1> USE DEF Pc, Selecting, Codes, vars, dirVars, localVars, scanVars, found
<1>1. CASE Begin(p) BY <1>1 DEF Begin, Goto
<1>2. CASE Enter(p) BY <1>2 DEF Enter, Goto
<1>3. CASE Allocate(p) BY <1>3 DEF Allocate, Goto
<1>4. CASE CheckFinal(p) BY <1>4 DEF CheckFinal, InUse, Goto, Leave
<1>5. CASE CheckPartial(p) BY <1>5 DEF CheckPartial, InUse, Goto, Leave
<1>6. CASE ListDay(p)
  <2>1. Entries(at') \subseteq Entry BY <1>6 DEF ListDay, Entries, Entry
  <2> QED BY <1>6, <2>1 DEF ListDay, Goto, Entries
<1>7. CASE ListedDay(p)
  <2>1. used' \subseteq Codes
    <3>1. \A e \in seen \cup Entries(at) : e[1].code \in Codes
      BY DEF Entries, Entry, Capture
    <3>2. PICK some \in SUBSET ((seen \cup Entries(at)) \ (seen \cap Entries(at))) :
            used' = used \cup {e[1].code : e \in (seen \cap Entries(at)) \cup some}
      BY <1>7 DEF ListedDay
    <3>3. \A e \in (seen \cap Entries(at)) \cup some : e[1].code \in Codes
      BY <3>1, <3>2
    <3> HIDE DEF Codes
    <3> QED BY <3>2, <3>3
  <2> QED BY <1>7, <2>1 DEF ListedDay, Goto
<1>8. CASE Pick(p) BY <1>8 DEF Pick, Goto
<1>9. CASE Verify(p) BY <1>9 DEF Verify, Goto, Leave
<1>10. CASE MakePartial(p) BY <1>10 DEF MakePartial, Goto, Leave, Capture
<1>11. CASE Publish(p) BY <1>11 DEF Publish, Goto
<1>12. CASE Fails(p) \/ Crash(p)
  <2>1. failures' \in 0..MaxFailures BY <1>12 DEF Fails, Crash, Failure
  <2>2. lock = p \/ lock # p OBVIOUS
  <2> QED BY <1>12, <2>1, <2>2 DEF Fails, Crash, Abandon, Leave, Goto
<1> QED
  BY <1>1, <1>2, <1>3, <1>4, <1>5, <1>6, <1>7, <1>8, <1>9, <1>10, <1>11, <1>12 DEF Step

\* The lock's holder is the process that selects: entering takes the free lock, and
\* each way out of the section gives it back.
LEMMA LockStep == ASSUME TypeOK, LockInv, Next PROVE LockInv'
<1> USE SpoolAllocationAssumption DEF TypeOK, LockInv, Selecting
<1> SUFFICES ASSUME NEW p \in Processes, Step(p) \/ Fails(p) \/ Crash(p) PROVE LockInv'
  BY DEF Next
<1>1. CASE Begin(p) BY <1>1 DEF Begin, Goto
<1>2. CASE Enter(p) BY <1>2 DEF Enter, Goto
<1>3. CASE Allocate(p) BY <1>3 DEF Allocate, Goto
<1>4. CASE CheckFinal(p) BY <1>4 DEF CheckFinal, InUse, Goto, Leave
<1>5. CASE CheckPartial(p) BY <1>5 DEF CheckPartial, InUse, Goto, Leave
<1>6. CASE ListDay(p) BY <1>6 DEF ListDay, Goto
<1>7. CASE ListedDay(p) BY <1>7 DEF ListedDay, Goto
<1>8. CASE Pick(p) BY <1>8 DEF Pick, Goto
<1>9. CASE Verify(p) BY <1>9 DEF Verify, Goto, Leave
<1>10. CASE MakePartial(p) BY <1>10 DEF MakePartial, Goto, Leave
<1>11. CASE Publish(p) BY <1>11 DEF Publish, Goto
<1>12. CASE Fails(p) BY <1>12 DEF Fails, Failure, Abandon, Leave, Goto
<1>13. CASE Crash(p) BY <1>13 DEF Crash, Failure, Abandon, Leave, Goto
<1> QED
  BY <1>1, <1>2, <1>3, <1>4, <1>5, <1>6, <1>7, <1>8, <1>9, <1>10, <1>11, <1>12, <1>13 DEF Step

CodeInv == CounterInv /\ FreshInv /\ NewInv

\* A step that neither makes a directory nor moves the counter keeps what the codes
\* promise, if no process's code becomes a chosen one.
LEMMA QuietStep ==
  ASSUME CodeInv, Captures' = Captures, counter' = counter,
         \A q \in Processes :
           pc'[q] \in Chosen /\ ~explicit'[q] =>
             pc[q] \in Chosen /\ ~explicit[q] /\ code'[q] = code[q]
  PROVE  CodeInv'
BY DEF CodeInv, CounterInv, FreshInv, NewInv, New

\* What the codes promise is kept by every step.
LEMMA CodeStep == ASSUME TypeOK, LockInv, LockInv', CodeInv, Next PROVE CodeInv'
<1> USE SpoolAllocationAssumption DEF TypeOK
<1> SUFFICES ASSUME NEW p \in Processes, Step(p) \/ Fails(p) \/ Crash(p) PROVE CodeInv'
  BY DEF Next
<1> USE DEF Chosen, Selecting, Captures, dirVars, localVars
<1>1. CASE Begin(p) BY <1>1, QuietStep DEF Begin, Goto
<1>2. CASE Enter(p) BY <1>2, QuietStep DEF Enter, Goto
<1>3. CASE Allocate(p)
  <2>1. /\ code' = [code EXCEPT ![p] = counter] /\ counter' = counter + 1
        /\ Captures' = Captures /\ explicit' = explicit
    BY <1>3 DEF Allocate
  <2>2. \A q \in Processes : q # p => pc'[q] \notin Chosen
    BY <1>3 DEF Allocate, Goto, LockInv
  <2>3. \A x \in Captures : x.code \in Int
    BY DEF Capture, Codes
  <2>4. \A x \in New : x.code < counter /\ x \in Captures
    BY DEF CodeInv, CounterInv, New
  <2>5. counter \in Int BY DEF Codes
  <2> HIDE DEF Captures
  <2>9. New' = New BY <2>1 DEF New
  <2>6. CounterInv' BY <2>1, <2>3, <2>4, <2>5, <2>9 DEF CounterInv
  <2>7. FreshInv' BY <2>1, <2>2, <2>3, <2>4, <2>5, <2>9 DEF FreshInv
  <2>8. NewInv' BY <2>9 DEF NewInv, CodeInv
  <2> QED BY <2>6, <2>7, <2>8 DEF CodeInv
<1>4. CASE CheckFinal(p) BY <1>4, QuietStep DEF CheckFinal, InUse, Goto, Leave
<1>5. CASE CheckPartial(p) BY <1>5, QuietStep DEF CheckPartial, InUse, Goto, Leave
<1>6. CASE ListDay(p) BY <1>6, QuietStep DEF ListDay, Goto
<1>7. CASE ListedDay(p) BY <1>7, QuietStep DEF ListedDay, Goto
<1>8. CASE Pick(p) BY <1>8, QuietStep DEF Pick, Goto
<1>9. CASE Verify(p) BY <1>9, QuietStep DEF Verify, Goto, Leave
<1>10. CASE MakePartial(p)
  <2> DEFINE new == [code |-> code[p], day |-> day[p], owner |-> p, explicit |-> explicit[p]]
  <2>1. Captures' = Captures \cup {new} /\ counter' = counter BY <1>10 DEF MakePartial
  <2>2. \A q \in Processes : pc'[q] \notin Chosen
    BY <1>10 DEF MakePartial, Leave, Goto, LockInv
  <2>3. ~explicit[p] => code[p] < counter /\ \A x \in New : x.code # code[p]
    BY <1>10 DEF MakePartial, CodeInv, FreshInv
  <2>4. new.code = code[p] /\ new.explicit = explicit[p] OBVIOUS
  <2> HIDE DEF Captures, new
  <2>8. \A x \in New' : x \in New \/ (x = new /\ ~explicit[p]) BY <2>1, <2>4 DEF New
  <2>5. CounterInv' BY <2>1, <2>3, <2>4, <2>8 DEF CounterInv, CodeInv
  <2>6. FreshInv' BY <2>2 DEF FreshInv
  <2>7. NewInv' BY <2>3, <2>4, <2>8 DEF NewInv, CodeInv
  <2> QED BY <2>5, <2>6, <2>7 DEF CodeInv
<1>11. CASE Publish(p) BY <1>11, QuietStep DEF Publish, Goto
<1>12. CASE Fails(p) BY <1>12, QuietStep DEF Fails, Failure, Abandon, Leave, Goto
<1>13. CASE Crash(p) BY <1>13, QuietStep DEF Crash, Failure, Abandon, Leave, Goto
<1> QED
  BY <1>1, <1>2, <1>3, <1>4, <1>5, <1>6, <1>7, <1>8, <1>9, <1>10, <1>11, <1>12, <1>13 DEF Step

\* What the archive holds at first: captures of no process, with distinct codes.
LEMMA OldCaptures ==
  ASSUME Init
  PROVE  /\ partials \subseteq Capture /\ finals \subseteq Capture /\ at \in Days
         /\ \A x \in Captures : x.owner = Free
         /\ \A x, y \in Captures : x.code = y.code => x = y
<1>1. PICK old \in SUBSET Codes, left \in SUBSET Codes, asked \in BOOLEAN, d \in Days :
        LET Old(c) == [code |-> c, day |-> d, owner |-> Free, explicit |-> asked]
        IN  partials = {Old(c) : c \in left \ old} /\ finals = {Old(c) : c \in old} /\ at = d
  BY DEF Init
<1> DEFINE Old(c) == [code |-> c, day |-> d, owner |-> Free, explicit |-> asked]
<1>2. \A c \in Codes : Old(c) \in Capture /\ Old(c).code = c /\ Old(c).owner = Free
  BY DEF Capture
<1>3. partials = {Old(c) : c \in left \ old} /\ finals = {Old(c) : c \in old} /\ at = d BY <1>1
<1> HIDE DEF Old
<1>4. \A x \in Captures : \E c \in Codes : x = Old(c) BY <1>3 DEF Captures
<1>5. partials \subseteq Capture /\ finals \subseteq Capture BY <1>2, <1>4 DEF Captures
<1> QED BY <1>2, <1>3, <1>4, <1>5

\* Init establishes the invariant: no process has made a capture yet.
LEMMA InvInit == ASSUME Init PROVE Inv
<1> USE SpoolAllocationAssumption
<1>1. TypeOK
  <2>1. counter \in Start..(MaxCode + 1) /\ code \in [Processes -> Codes] BY DEF Init, Codes
  <2>2. crossed \in [Processes -> SUBSET Codes] BY DEF Init
  <2>3. partials \subseteq Capture /\ finals \subseteq Capture /\ at \in Days BY OldCaptures
  <2>4. counter \in Start..(MaxCode + 1) /\ lock = Free /\ failures \in 0..MaxFailures
    BY <2>1 DEF Init
  <2>5. /\ pc \in [Processes -> Pc] /\ day \in [Processes -> Days]
        /\ explicit \in [Processes -> BOOLEAN]
        /\ todo = {} /\ seen = {} /\ used = {}
    BY DEF Init, Pc
  <2> QED BY <2>1, <2>2, <2>3, <2>4, <2>5 DEF TypeOK
<1>2. LockInv BY DEF Init, LockInv, Selecting
<1>3. New = {} BY OldCaptures DEF New
<1>4. CounterInv /\ NewInv BY <1>3 DEF CounterInv, NewInv
<1>5. FreshInv BY DEF Init, FreshInv, Chosen, Selecting
<1> QED BY <1>1, <1>2, <1>4, <1>5 DEF Inv

\* Inv is inductive: the section is exclusive (LockInv), so one process at a time
\* has a code that is not yet on a directory (FreshInv), and the counter is past it.
LEMMA InvStep == ASSUME Inv, [Next]_vars PROVE Inv'
<1>1. CASE Next BY <1>1, TypeStep, LockStep, CodeStep DEF Inv, CodeInv
<1>2. CASE UNCHANGED vars
  BY <1>2 DEF vars, Inv, TypeOK, LockInv, CounterInv, FreshInv, NewInv, New, Captures,
     dirVars, localVars, scanVars, found
<1> QED BY <1>1, <1>2

-----------------------------------------------------------------------------
(* The scans: ArchiveInv is inductive.                                     *)

\* A directory is made by the process that leaves its selection with it; publication
\* moves it and keeps what it says.
LEMMA OwnerStep ==
  ASSUME TypeOK, LockInv, NEW p \in Processes, Step(p) \/ Fails(p) \/ Crash(p),
         NEW q \in Processes, OwnerInv(q)
  PROVE  OwnerInv(q)'
<1> USE DEF TypeOK, OwnerInv, Selecting, dirVars, localVars
<1> DEFINE new == [code |-> code[p], day |-> day[p], owner |-> p, explicit |-> explicit[p]]
<1>1. CASE Begin(p) BY <1>1 DEF Begin, Goto, Captures
<1>2. CASE Enter(p) BY <1>2 DEF Enter, Goto, Captures
<1>3. CASE Allocate(p) BY <1>3 DEF Allocate, Goto, Captures
<1>4. CASE CheckFinal(p) BY <1>4 DEF CheckFinal, InUse, Goto, Leave, Captures
<1>5. CASE CheckPartial(p) BY <1>5 DEF CheckPartial, InUse, Goto, Leave, Captures
<1>6. CASE ListDay(p) BY <1>6 DEF ListDay, Goto, Captures
<1>7. CASE ListedDay(p) BY <1>7 DEF ListedDay, Goto, Captures
<1>8. CASE Pick(p) BY <1>8 DEF Pick, Goto, Captures
<1>9. CASE Verify(p) BY <1>9 DEF Verify, Goto, Leave, Captures
<1>10. CASE MakePartial(p)
  <2>1. /\ Captures' = Captures \cup {new} /\ UNCHANGED <<code, day>>
        /\ pc[p] = "mkdir" /\ pc' = [pc EXCEPT ![p] = "write"]
    BY <1>10 DEF MakePartial, Leave, Goto, Captures
  <2>2. new.owner = p /\ new.code = code[p] /\ new.day = day[p] OBVIOUS
  <2>5. partials' = partials \cup {new} /\ finals' = finals BY <1>10 DEF MakePartial
  <2> HIDE DEF new
  <2>3. CASE q = p BY <2>1, <2>2, <2>3, <2>5 DEF Captures
  <2>4. CASE q # p BY <2>1, <2>2, <2>4, <2>5
  <2> QED BY <2>3, <2>4
<1>11. CASE Publish(p) BY <1>11 DEF Publish, Goto, Captures
<1>12. CASE Fails(p) BY <1>12 DEF Fails, Failure, Abandon, Leave, Goto, Captures
<1>13. CASE Crash(p) BY <1>13 DEF Crash, Failure, Abandon, Leave, Goto, Captures
<1> QED
  BY <1>1, <1>2, <1>3, <1>4, <1>5, <1>6, <1>7, <1>8, <1>9, <1>10, <1>11, <1>12, <1>13 DEF Step

\* A process that does not hold the lock has no scan to keep.
LEMMA NoScan ==
  ASSUME NEW q, pc'[q] \notin Selecting PROVE ScanInv(q)'
BY DEF ScanInv, Selecting

\* A publication crosses q's scan: the capture it moves becomes an excused one.
LEMMA ScanCrossed ==
  ASSUME TypeOK, LockInv, NEW p \in Processes, OwnerInv(p), Publish(p),
         NEW q \in Processes, ScanInv(q)
  PROVE  ScanInv(q)'
<1> USE DEF TypeOK, Selecting
<1>1. CASE pc'[q] \notin Selecting BY <1>1, NoScan
<1>2. CASE pc'[q] \in Selecting
  <2>1. pc[q] \in Selecting /\ pc'[q] = pc[q] /\ lock = q /\ q # p
    BY <1>2 DEF Publish, Goto, LockInv
  <2>2. UNCHANGED <<code, day, todo, at, seen, used>> BY DEF Publish, localVars, scanVars, found
  <2>3. CASE UNCHANGED <<partials, finals, crossed>>
    BY <2>1, <2>2, <2>3 DEF ScanInv, Captures, Excused, Returned, Has
  <2>4. CASE ~UNCHANGED <<partials, finals, crossed>>
    <3>1. PICK x \in partials :
            /\ x.owner = p
            /\ partials' = partials \ {x}
            /\ finals' = finals \cup {x}
      BY <2>4 DEF Publish, dirVars
    <3>2. x.code = code[p] /\ x.day = day[p] BY <3>1 DEF OwnerInv, Captures, Publish
    <3>3. crossed'[q] = crossed[q] \cup {code[p]}
      BY <2>1, <2>4 DEF Publish, dirVars
    <3>4. Captures' = Captures BY <3>1 DEF Captures
    <3>5. Excused(q, x)' BY <3>1, <3>2, <3>3 DEF Excused
    <3>6. \A y \in Captures : Excused(q, y) => Excused(q, y)' BY <3>1, <3>3 DEF Excused
    <3>7. \A y \in Captures :
            y # x => (y \in partials <=> y \in partials') /\ (y \in finals <=> y \in finals')
      BY <3>1
    <3>8. \A y \in Captures : y # x /\ Returned(y) => Returned(y)'
      BY <3>7, <2>2 DEF Returned
    <3>9. pc[q] = "mkdir" => ~Has(finals, code[q], day[q])' 
      <4> SUFFICES ASSUME pc[q] = "mkdir", x.code = code[q], x.day = day[q] PROVE FALSE
        BY <2>1, <2>2, <3>1 DEF Has, ScanInv
      <4> QED BY <3>1 DEF ScanInv, Excused, Captures, Has
    <3>10. pc[q] = "allocate" => todo' = Days BY <2>2 DEF ScanInv
    <3>11. ASSUME pc[q] \in {"final", "glob", "verify", "mkdir"}, NEW y \in Captures, y.code = code[q]
           PROVE  \/ Excused(q, y)'
                  \/ pc[q] \in {"final", "glob"} /\ y.day \in todo
                  \/ pc[q] = "glob" /\ y \in partials' /\ y.day = at
      BY <3>5, <3>6, <3>7, <3>11 DEF ScanInv
    <3>12. ASSUME pc[q] \in {"list", "listing", "pick", "reallocate"}, NEW y \in Captures
           PROVE  \/ Excused(q, y)'
                  \/ y.code \in used
                  \/ pc[q] \in {"list", "listing"} /\ y.day \in todo
                  \/ pc[q] = "listing" /\ Returned(y)'
      BY <3>5, <3>6, <3>8, <3>12 DEF ScanInv
    <3> QED BY <2>1, <2>2, <3>4, <3>9, <3>10, <3>11, <3>12 DEF ScanInv
  <2> QED BY <2>3, <2>4
<1> QED BY <1>1, <1>2

\* The scan of the process that steps: what it leaves behind it has been looked at.
LEMMA ScanOwn ==
  ASSUME TypeOK, LockInv, NEW p \in Processes, ScanInv(p), Captures' = Captures,
         UNCHANGED <<partials, finals, crossed>>,
         Step(p) \/ Fails(p) \/ Crash(p)
  PROVE  ScanInv(p)'
<1> USE DEF TypeOK, Selecting, localVars, scanVars, found
<1>0. \A x \in Captures : x.day \in Days BY DEF Captures, Capture
<1>a. \A x : Excused(p, x)' <=> Excused(p, x) BY DEF Excused
<1>1. CASE Begin(p) BY <1>1, NoScan DEF Begin, Goto
<1>2. CASE Enter(p) BY <1>0, <1>2 DEF Enter, Goto, ScanInv
<1>3. CASE Allocate(p)
  <2>1. CASE pc[p] = "allocate" BY <1>0, <1>3, <2>1 DEF Allocate, Goto, ScanInv
  <2>2. CASE pc[p] = "reallocate"
    BY <1>a, <1>3, <2>2 DEF Allocate, Goto, ScanInv
  <2> QED BY <1>3, <2>1, <2>2 DEF Allocate
<1>4. CASE CheckFinal(p)
  <2>1. CASE pc'[p] = "stopped" BY <2>1, NoScan
  <2>2. CASE pc'[p] = "list" BY <1>0, <1>4, <2>2 DEF CheckFinal, InUse, Goto, Leave, ScanInv
  <2>3. CASE pc'[p] = "verify"
    BY <1>a, <1>4, <2>3 DEF CheckFinal, InUse, Goto, Leave, ScanInv
  <2>4. CASE pc'[p] = "glob"
    <3>1. PICK d \in todo : at' = d /\ ~Has(finals, code[p], d) /\ todo' = todo \ {d}
      BY <1>4, <2>4 DEF CheckFinal, InUse, Goto, Leave
    <3>2. pc[p] = "final" /\ code' = code BY <1>4 DEF CheckFinal
    <3>3. ASSUME NEW x \in Captures, x.code = code[p]
          PROVE  Excused(p, x) \/ x.day \in todo' \/ (x \in partials /\ x.day = at')
      BY <3>1, <3>2, <3>3 DEF ScanInv, Has, Captures
    <3> QED BY <1>a, <2>4, <3>2, <3>3 DEF ScanInv
  <2> QED BY <1>4, <2>1, <2>2, <2>3, <2>4 DEF CheckFinal, InUse, Goto, Leave
<1>5. CASE CheckPartial(p)
  <2>1. CASE pc'[p] = "stopped" BY <2>1, NoScan
  <2>2. CASE pc'[p] = "list" BY <1>0, <1>5, <2>2 DEF CheckPartial, InUse, Goto, Leave, ScanInv
  <2>3. CASE pc'[p] = "final"
    BY <1>a, <1>5, <2>3 DEF CheckPartial, InUse, Goto, Leave, ScanInv, Has
  <2> QED BY <1>5, <2>1, <2>2, <2>3 DEF CheckPartial, InUse, Goto, Leave
<1>6. CASE ListDay(p)
  <2>1. CASE pc'[p] = "pick" BY <1>a, <1>6, <2>1 DEF ListDay, Goto, ScanInv
  <2>2. CASE pc'[p] = "listing"
    <3>1. PICK d \in todo : at' = d /\ todo' = todo \ {d} /\ seen' = Entries(d)
      BY <1>6, <2>2 DEF ListDay, Goto
    <3>2. pc[p] = "list" /\ used' = used BY <1>6 DEF ListDay
    <3>3. \A x \in Captures : x.day = d => Returned(x)' BY <3>1 DEF Returned, Entries
    <3>4. \A x \in Captures : Excused(p, x) \/ x.code \in used \/ x.day \in todo
      BY <3>2 DEF ScanInv
    <3> QED BY <1>a, <2>2, <3>1, <3>2, <3>3, <3>4 DEF ScanInv
  <2> QED BY <1>6, <2>1, <2>2 DEF ListDay, Goto
<1>7. CASE ListedDay(p)
  <2>1. PICK some \in SUBSET ((seen \cup Entries(at)) \ (seen \cap Entries(at))) :
          used' = used \cup {e[1].code : e \in (seen \cap Entries(at)) \cup some}
    BY <1>7 DEF ListedDay
  <2>2. ASSUME NEW x \in Captures, Returned(x) PROVE x.code \in used'
    <3>1. \E k \in {"partial", "final"} : <<x, k>> \in seen \cap Entries(at)
      BY <2>2 DEF Returned, Entries, Captures
    <3> QED BY <2>1, <3>1
  <2>3. /\ pc[p] = "listing" /\ pc'[p] = "list" /\ used \subseteq used'
        /\ todo' = todo
    BY <1>7, <2>1 DEF ListedDay, Goto
  <2>4. \A x \in Captures : Excused(p, x) \/ x.code \in used' \/ x.day \in todo
    BY <2>2, <2>3 DEF ScanInv
  <2> QED BY <1>a, <2>3, <2>4 DEF ScanInv
<1>8. CASE Pick(p)
  <2>1. CASE pc'[p] = "verify" BY <1>a, <1>8, <2>1 DEF Pick, Goto, ScanInv
  <2>2. CASE pc'[p] = "reallocate" BY <1>a, <1>8, <2>2 DEF Pick, Goto, ScanInv
  <2> QED BY <1>8, <2>1, <2>2 DEF Pick, Goto
<1>9. CASE Verify(p)
  <2>1. CASE pc'[p] = "stopped" BY <2>1, NoScan
  <2>2. CASE pc'[p] = "mkdir" BY <1>a, <1>9, <2>2 DEF Verify, Goto, Leave, ScanInv, Has
  <2> QED BY <1>9, <2>1, <2>2 DEF Verify, Goto, Leave
<1>10. CASE MakePartial(p) BY <1>10, NoScan DEF MakePartial, Goto, Leave
<1>11. CASE Publish(p) BY <1>11, NoScan DEF Publish, Goto
<1>12. CASE Fails(p) BY <1>12, NoScan DEF Fails, Abandon, Leave, Goto
<1>13. CASE Crash(p) BY <1>13, NoScan DEF Crash, Failure, Abandon, Leave, Goto
<1> QED
  BY <1>1, <1>2, <1>3, <1>4, <1>5, <1>6, <1>7, <1>8, <1>9, <1>10, <1>11, <1>12, <1>13 DEF Step

\* Every scan survives every step: another selection is kept out by the lock, and a
\* publication excuses what it moves.
LEMMA ScanStep ==
  ASSUME TypeOK, LockInv, NEW p \in Processes, OwnerInv(p), Step(p) \/ Fails(p) \/ Crash(p),
         NEW q \in Processes, ScanInv(q)
  PROVE  ScanInv(q)'
<1>1. CASE Publish(p) BY <1>1, ScanCrossed
<1>2. CASE MakePartial(p)
  <2>1. pc'[q] \notin Selecting
    BY <1>2 DEF MakePartial, Leave, Goto, LockInv, TypeOK, Selecting
  <2> QED BY <2>1, NoScan
<1>3. CASE ~Publish(p) /\ ~MakePartial(p)
  <2>1. UNCHANGED <<partials, finals, crossed>>
    BY <1>3 DEF Step, Begin, Enter, Allocate, CheckFinal, CheckPartial, ListDay, ListedDay, Pick,
       Verify, Fails, Crash, dirVars
  <2>2. Captures' = Captures BY <2>1 DEF Captures
  <2>3. CASE q = p BY <2>1, <2>2, <2>3, ScanOwn
  <2>4. CASE q # p /\ pc'[q] \notin Selecting BY <2>4, NoScan
  <2>5. CASE q # p /\ pc'[q] \in Selecting
    <3>1. pc'[q] = pc[q] /\ lock = q
      BY <1>3, <2>5 DEF Step, Begin, Enter, Allocate, CheckFinal, CheckPartial, InUse, ListDay,
         ListedDay, Pick, Verify, Fails, Crash, Abandon, Goto, Leave, LockInv, TypeOK
    <3>2. pc[p] \notin Selecting /\ ~Enter(p)
      BY <2>5, <3>1, SpoolAllocationAssumption DEF LockInv, Enter
    <3>3. Begin(p) \/ Fails(p) \/ Crash(p)
      BY <1>3, <3>2 DEF Step, Allocate, CheckFinal, CheckPartial, ListDay, ListedDay, Pick, Verify,
         Selecting
    <3>4. code'[q] = code[q] /\ UNCHANGED <<day, scanVars>>
      BY <2>5, <3>1, <3>3, SpoolAllocationAssumption
      DEF Begin, Fails, Crash, Abandon, TypeOK, localVars, scanVars
    <3> QED
      BY <2>1, <2>2, <3>1, <3>4 DEF ScanInv, Excused, Returned, scanVars, found
  <2> QED BY <2>3, <2>4, <2>5
<1> QED BY <1>1, <1>2, <1>3

\* A directory is made only when the scan has found no other with its code but those
\* that were published meanwhile, and none of its day.
LEMMA SharedStep ==
  ASSUME TypeOK, NEW p \in Processes, ScanInv(p), Step(p) \/ Fails(p) \/ Crash(p),
         SharedCodeNeedsCrossing, DestinationsUnique, OldInv
  PROVE  SharedCodeNeedsCrossing' /\ DestinationsUnique' /\ OldInv'
<1>1. CASE MakePartial(p)
  <2> DEFINE new == [code |-> code[p], day |-> day[p], owner |-> p, explicit |-> explicit[p]]
  <2>1. Captures' = Captures \cup {new} /\ UNCHANGED crossed BY <1>1 DEF MakePartial, Captures
  <2>2. new.code = code[p] /\ new.day = day[p] /\ new.owner = p OBVIOUS
  <2>3. ASSUME NEW x \in Captures, x.code = code[p]
        PROVE  code[p] \in crossed[p] /\ x.day # day[p] /\ x.owner \in Processes
    BY <1>1, <2>3 DEF MakePartial, ScanInv, Excused, Has
  <2> HIDE DEF new
  <2>4. DestinationsUnique' BY <2>1, <2>2, <2>3 DEF DestinationsUnique
  <2>5. SharedCodeNeedsCrossing'
    <3> SUFFICES ASSUME NEW x \in Captures', NEW y \in Captures', x.code = y.code, x # y
                 PROVE  \E z \in {x, y} : z.owner \in Processes /\ z.code \in crossed[z.owner]
      BY <2>1 DEF SharedCodeNeedsCrossing
    <3>1. CASE x \in Captures /\ y \in Captures BY <3>1 DEF SharedCodeNeedsCrossing
    <3>2. CASE x = new BY <2>1, <2>2, <2>3, <3>2
    <3>3. CASE y = new BY <2>1, <2>2, <2>3, <3>3
    <3> QED BY <2>1, <3>1, <3>2, <3>3
  <2>6. OldInv' BY <2>1, <2>2, <2>3, SpoolAllocationAssumption DEF OldInv
  <2> QED BY <2>4, <2>5, <2>6
<1>2. CASE ~MakePartial(p)
  <2>1. Captures' = Captures
    BY <1>2 DEF Step, Begin, Enter, Allocate, CheckFinal, CheckPartial, ListDay, ListedDay, Pick,
       Verify, Publish, Fails, Crash, dirVars, Captures
  <2>2. \A q \in Processes : crossed[q] \subseteq crossed'[q]
    BY <1>2 DEF Step, Begin, Enter, Allocate, CheckFinal, CheckPartial, ListDay, ListedDay, Pick,
       Verify, Publish, Fails, Crash
  <2> QED BY <2>1, <2>2 DEF SharedCodeNeedsCrossing, DestinationsUnique, OldInv
<1> QED BY <1>1, <1>2

\* Init: what the archive holds at first has distinct codes.
LEMMA ArchiveInvInit == ASSUME Init PROVE ArchiveInv
<1>1. SharedCodeNeedsCrossing /\ DestinationsUnique /\ OldInv
  BY OldCaptures DEF SharedCodeNeedsCrossing, DestinationsUnique, OldInv
<1>2. \A p \in Processes : OwnerInv(p) /\ ScanInv(p)
  BY OldCaptures, SpoolAllocationAssumption DEF Init, OwnerInv, ScanInv
<1> QED BY <1>1, <1>2, InvInit DEF ArchiveInv

\* ArchiveInv is inductive.
LEMMA ArchiveInvStep == ASSUME ArchiveInv, [Next]_vars PROVE ArchiveInv'
<1>1. CASE Next
  <2>1. PICK p \in Processes : Step(p) \/ Fails(p) \/ Crash(p) BY <1>1 DEF Next
  <2>2. TypeOK /\ LockInv BY DEF ArchiveInv, Inv
  <2>3. ASSUME NEW q \in Processes PROVE OwnerInv(q)' /\ ScanInv(q)'
    <3>1. OwnerInv(p) /\ OwnerInv(q) /\ ScanInv(q) BY DEF ArchiveInv
    <3> QED BY <2>1, <2>2, <3>1, OwnerStep, ScanStep
  <2>4. SharedCodeNeedsCrossing' /\ DestinationsUnique' /\ OldInv'
    BY <2>1, <2>2, SharedStep DEF ArchiveInv
  <2> QED BY <1>1, <2>3, <2>4, InvStep DEF ArchiveInv
<1>2. CASE UNCHANGED vars
  <2>1. Inv' BY InvStep DEF ArchiveInv
  <2> QED
    BY <1>2, <2>1 DEF ArchiveInv, vars, OwnerInv, ScanInv, Excused, Returned, Has, Captures,
       SharedCodeNeedsCrossing, DestinationsUnique, OldInv, dirVars, localVars, scanVars, found
<1> QED BY <1>1, <1>2

\* The invariant holds throughout.
LEMMA Archive == Spec => []ArchiveInv
<1>1. Init => ArchiveInv BY ArchiveInvInit
<1>2. ArchiveInv /\ [Next]_vars => ArchiveInv' BY ArchiveInvStep
<1> QED BY <1>1, <1>2, PTL DEF Spec

\* No two captures have the same code from JobCodeAllocator.allocate, for every
\* interleaving of allocations, publications, failures and deaths: new ones by the
\* counter (NewInv), a new one and one from before the counter was lost by the scan
\* (OldInv).
THEOREM AllocationSafe == Spec => []AllocatedCodesUnique
<1>1. ArchiveInv => AllocatedCodesUnique
  <2> SUFFICES ASSUME ArchiveInv, NEW x \in Captures, NEW y \in Captures,
                      ~x.explicit, ~y.explicit, x.code = y.code
               PROVE  x = y
    BY DEF AllocatedCodesUnique
  <2>1. x.owner \in Processes \cup {Free} /\ y.owner \in Processes \cup {Free}
    BY DEF ArchiveInv, Inv, TypeOK, Captures, Capture
  <2>2. CASE x.owner = Free \/ y.owner = Free BY <2>2 DEF ArchiveInv, OldInv
  <2>3. CASE x \in New /\ y \in New BY <2>3 DEF ArchiveInv, Inv, NewInv
  <2> QED BY <2>1, <2>2, <2>3 DEF New
<1> QED BY <1>1, Archive, PTL

\* Two captures share a code only if one was published while the other was being
\* selected, for every interleaving: the scans of _code_in_use and _existing_codes
\* miss nothing that stays where it is.
THEOREM SharingNeedsCrossing == Spec => []SharedCodeNeedsCrossing
<1>1. ArchiveInv => SharedCodeNeedsCrossing BY DEF ArchiveInv
<1> QED BY <1>1, Archive, PTL

\* No two captures, staging or published, have the same day and code:
\* the rename of finalize and archive always finds its destination free.
THEOREM DestinationsSafe == Spec => []DestinationsUnique
<1>1. ArchiveInv => DestinationsUnique BY DEF ArchiveInv
<1> QED BY <1>1, Archive, PTL

\* A live capture is refused by nothing the archive held before it: without an error or
\* a death, only _prepare_capture's last test stops it, on a directory published during
\* its scan.  The rename never does, its destination being free.
THEOREM NotPoisoned == Spec => LiveNotPoisoned
<1> DEFINE Refused(p) == /\ pc[p] # "stopped" /\ pc'[p] = "stopped"
                         /\ ~explicit[p] /\ UNCHANGED failures
           Crossed(p) == pc[p] = "verify" /\ code[p] \in crossed[p]
<1>1. ArchiveInv /\ [Next]_vars => [\A p \in Processes : Refused(p) => Crossed(p)]_vars
  <2> SUFFICES ASSUME ArchiveInv, Next, NEW p \in Processes, Refused(p) PROVE Crossed(p)
    BY DEF vars
  <2>1. TypeOK /\ OwnerInv(p) /\ ScanInv(p) /\ DestinationsUnique BY DEF ArchiveInv, Inv
  <2>2. PICK q \in Processes : Step(q) \/ Fails(q) \/ Crash(q) BY DEF Next
  <2>3. Step(q)
    BY <2>1, <2>2, SpoolAllocationAssumption DEF Fails, Crash, Failure, TypeOK
  <2>4. CheckFinal(q) \/ CheckPartial(q) \/ Verify(q) \/ Publish(q)
    BY <2>1, <2>3
    DEF Step, Begin, Enter, Allocate, ListDay, ListedDay, Pick, MakePartial, Leave, Goto, TypeOK
  <2>5. q = p
    BY <2>1, <2>4 DEF CheckFinal, CheckPartial, InUse, Verify, Publish, Leave, Goto, TypeOK
  <2>6. CASE CheckFinal(q) \/ CheckPartial(q)
    BY <2>1, <2>5, <2>6 DEF CheckFinal, CheckPartial, InUse, Leave, Goto, TypeOK
  <2>7. CASE Verify(q)
    <3>1. pc[p] = "verify" /\ Has(finals, code[p], day[p])
      BY <2>1, <2>5, <2>7 DEF Verify, Leave, Goto, TypeOK
    <3> QED BY <2>1, <3>1 DEF ScanInv, Excused, Has, Captures
  <2>8. CASE Publish(q)
    <3>1. pc[p] = "write" /\ Has(finals, code[p], day[p])
      BY <2>1, <2>5, <2>8 DEF Publish, Goto, TypeOK
    <3>2. PICK x \in partials : x.owner = p BY <2>1, <3>1 DEF OwnerInv
    <3>3. x.code = code[p] /\ x.day = day[p] BY <2>1, <3>1, <3>2 DEF OwnerInv, Captures
    <3>4. PICK y \in finals : y.code = code[p] /\ y.day = day[p] BY <3>1 DEF Has
    <3>5. x = y BY <2>1, <3>3, <3>4 DEF DestinationsUnique, Captures
    <3> QED BY <2>1, <3>1, <3>2, <3>4, <3>5 DEF OwnerInv
  <2> QED BY <2>4, <2>6, <2>7, <2>8
<1> QED BY <1>1, Archive, PTL DEF Spec, LiveNotPoisoned
=============================================================================
