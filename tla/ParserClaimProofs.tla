------------------------- MODULE ParserClaimProofs -------------------------
(***************************************************************************)
(* Proofs about ParserClaim, for any set of workers and any bounds.        *)
(***************************************************************************)
EXTENDS ParserClaim, TLAPS

\* Which program points lie in a locked section and which hold a claim.
LEMMA PcClasses ==
  /\ "idle" \in Pc \ (Locked \cup Holding)
  /\ "claim" \in Pc \ (Locked \cup Holding)
  /\ "backup" \in Pc \ (Locked \cup Holding)
  /\ "sweep" \in (Pc \cap Locked) \ Holding
  /\ "clear_parsed" \in (Pc \cap Locked) \ Holding
  /\ "clear_failed" \in (Pc \cap Locked) \ Holding
  /\ "clear_attempts" \in (Pc \cap Locked) \ Holding
  /\ "mark" \in (Pc \cap Locked) \ Holding
  /\ "invalidate" \in (Pc \cap Locked) \ Holding
  /\ "move" \in (Pc \cap Locked) \ Holding
  /\ "load" \in (Pc \cap Holding) \ Locked
  /\ "mkdir" \in (Pc \cap Holding) \ Locked
  /\ "doc" \in (Pc \cap Holding) \ Locked
  /\ "write" \in (Pc \cap Holding) \ Locked
  /\ "meta" \in (Pc \cap Holding) \ Locked
  /\ "commit" \in (Pc \cap Holding) \ Locked
  /\ "fail" \in (Pc \cap Holding) \ Locked
  /\ "cleanup" \in (Pc \cap Holding) \ Locked
  /\ "release" \in (Pc \cap Holding) \ Locked
  /\ "fence" \in Pc \cap Locked \cap Holding
  /\ "supersede" \in Pc \cap Locked \cap Holding
  /\ "publish" \in Pc \cap Locked \cap Holding
  /\ "unmark_attempts" \in Pc \cap Locked \cap Holding
  /\ "unmark_failed" \in Pc \cap Locked \cap Holding
  /\ "accept" \in Pc \cap Locked \cap Holding
  /\ "discard" \in Pc \cap Locked \cap Holding
  /\ "count" \in Pc \cap Locked \cap Holding
  /\ "exhaust" \in Pc \cap Locked \cap Holding
  /\ ClaimSection \subseteq (Pc \cap Locked) \ Holding
  /\ ReparseSection \subseteq (Pc \cap Locked) \ Holding
  /\ WorkPc \subseteq (Pc \cap Holding) \ Locked
  /\ CommitSection \subseteq Pc \cap Locked \cap Holding
  /\ FailSection \subseteq Pc \cap Locked \cap Holding
  /\ Holding \subseteq Pc
BY DEF Pc, Locked, Holding, ClaimSection, ReparseSection, WorkPc, CommitSection, FailSection

\* The two values .processing may have instead of a token are not tokens.
LEMMA NoneIsNoToken == None \notin Token /\ Torn \notin Token /\ None # Torn
BY DEF None, Torn, Token

\* How worker w's step may move the control state: it enters a locked section only
\* when the lock is free or its own, leaves the lock free otherwise, and keeps,
\* drops or newly obtains a token.
ControlMove(w) ==
  /\ pc' = [pc EXCEPT ![w] = pc'[w]]
  /\ pc'[w] \in Locked => lock = Free \/ lock = w
  /\ lock' = IF pc'[w] \in Locked THEN w ELSE IF lock = w THEN Free ELSE lock
  /\ \/ token' = token /\ issued' = issued /\ (pc'[w] \in Holding <=> pc[w] \in Holding)
     \/ token' = [token EXCEPT ![w] = None] /\ issued' = issued /\ pc'[w] \notin Holding
     \/ token' = [token EXCEPT ![w] = issued + 1] /\ issued' = issued + 1 /\ pc'[w] \in Holding

\* Every such move keeps the lock with the worker in its section and tokens unique.
LEMMA MoveKeepsControl ==
  ASSUME TypeOK, LockInv, TokenInv, NEW w \in Workers, ControlMove(w)
  PROVE  LockInv' /\ TokenInv'
<1> USE ParserClaimAssumption
<1>1. \A v \in Workers \ {w} : pc'[v] = pc[v]
  BY DEF ControlMove, TypeOK
<1>2. LockInv'
  BY <1>1 DEF ControlMove, TypeOK, LockInv
<1>3. CASE token' = token /\ issued' = issued /\ (pc'[w] \in Holding <=> pc[w] \in Holding)
  BY <1>1, <1>2, <1>3 DEF TypeOK, TokenInv
<1>4. CASE token' = [token EXCEPT ![w] = None] /\ issued' = issued /\ pc'[w] \notin Holding
  <2>1. token'[w] = None /\ \A v \in Workers \ {w} : token'[v] = token[v]
    BY <1>4 DEF TypeOK
  <2> QED BY <1>1, <1>2, <1>4, <2>1 DEF TokenInv
<1>5. CASE token' = [token EXCEPT ![w] = issued + 1] /\ issued' = issued + 1 /\ pc'[w] \in Holding
  <2>1. token'[w] = issued + 1 /\ \A v \in Workers \ {w} : token'[v] = token[v]
    BY <1>5 DEF TypeOK
  <2>2. \A v \in Workers \ {w} : token[v] \in 0..issued
    BY DEF TokenInv, TypeOK, None
  <2>3. issued \in Nat
    BY DEF TypeOK
  <2> QED BY <1>1, <1>2, <1>5, <2>1, <2>2, <2>3 DEF TokenInv, None
<1> QED BY <1>2, <1>3, <1>4, <1>5 DEF ControlMove

\* Every step keeps the types; a tree written to the directory has a token's name.
LEMMA TypeStep == TypeOK /\ TokenInv /\ [Next]_vars => TypeOK'
<1> SUFFICES ASSUME TypeOK, TokenInv, [Next]_vars PROVE TypeOK'
  OBVIOUS
<1> USE ParserClaimAssumption, PcClasses
<1> USE DEF TypeOK, Goto, Enter, Leave, Return, Fault, Synced, SyncedOrReturn, Refresh, RemoveStaging, WriteFile,
        claimVars, treeVars, stateVars, localVars, budgetVars
<1>1. ASSUME NEW w \in Workers, LockStep(w) PROVE TypeOK'
  <2>0. pc[w] \in Holding => token[w] \in Token
    BY DEF TokenInv, TypeOK, Token
  <2>1. CASE ClaimBusy(w) BY <2>0, <2>1 DEF ClaimBusy
  <2>2. CASE ClaimEnter(w) BY <2>0, <2>2 DEF ClaimEnter
  <2>3. CASE LoadJob(w) BY <2>0, <2>3 DEF LoadJob
  <2>4. CASE NextDocument(w) BY <2>0, <2>4 DEF NextDocument
  <2>5. CASE CommitEnter(w) BY <2>0, <2>5 DEF CommitEnter
  <2>6. CASE FailEnter(w) BY <2>0, <2>6 DEF FailEnter
  <2>7. CASE Release(w) BY <2>0, <2>7 DEF Release
  <2>8. CASE BackupEnter(w)
    <3>1. CASE ~Busy /\ Enter(w, "invalidate") /\ UNCHANGED localVars BY <2>8, <3>1 DEF BackupEnter
    <3>2. CASE Busy /\ lock = Free /\ Return(w) /\ UNCHANGED lock BY <2>8, <3>2 DEF BackupEnter
    <3> QED BY <2>8, <3>1, <3>2 DEF BackupEnter
  <2> QED BY <1>1, <2>1, <2>2, <2>3, <2>4, <2>5, <2>6, <2>7, <2>8 DEF LockStep
<1>2. ASSUME NEW w \in Workers, FreeStep(w) PROVE TypeOK'
  <2>0. pc[w] \in Holding => token[w] \in Token
    BY DEF TokenInv, TypeOK, Token
  <2>1. CASE ScanJob(w) BY <2>0, <2>1 DEF ScanJob
  <2>2. CASE ClaimSweep(w)
    <3>1. CASE Goto(w, "clear_parsed") /\ UNCHANGED <<lock, localVars>> BY <2>2, <3>1 DEF ClaimSweep
    <3>2. CASE Goto(w, "mark") /\ UNCHANGED <<lock, localVars>> BY <2>2, <3>2 DEF ClaimSweep
    <3>3. CASE lock' = Free /\ Return(w) BY <2>2, <3>3 DEF ClaimSweep
    <3> QED BY <2>2, <3>1, <3>2, <3>3 DEF ClaimSweep
  <2>3. CASE ClearOutputs(w)
    <3>1. parsed' \in Token \cup {None} /\ failed' \in BOOLEAN /\ attempts' \in Nat
      <4>1. CASE pc[w] = "clear_parsed" BY <2>3, <4>1 DEF ClearOutputs
      <4>2. CASE pc[w] = "clear_failed" BY <2>3, <4>2 DEF ClearOutputs
      <4>3. CASE pc[w] = "clear_attempts" BY <2>3, <4>3 DEF ClearOutputs
      <4> QED BY <2>3, <4>1, <4>2, <4>3 DEF ClearOutputs
    <3>2. PICK l \in {"clear_failed", "clear_attempts", "mark"} : SyncedOrReturn(w, l)
      BY <2>3 DEF ClearOutputs
    <3>3. CASE Goto(w, l) /\ UNCHANGED <<lock, faults, localVars>>
      BY <2>3, <3>1, <3>2, <3>3 DEF ClearOutputs
    <3>4. CASE Fault /\ lock' = Free /\ Return(w)
      BY <2>3, <3>1, <3>4 DEF ClearOutputs
    <3> QED BY <3>2, <3>3, <3>4
  <2>4. CASE ClaimMark(w) BY <2>0, <2>4 DEF ClaimMark, Token
  <2>5. CASE MakeStaging(w) BY <2>0, <2>5 DEF MakeStaging
  <2>6. CASE WriteDocument(w)
    <3>1. docs[w] < Documents
      BY <2>6 DEF WriteDocument
    <3>2. docs' \in [Workers -> 0..Documents]
      BY <2>6, <3>1 DEF WriteDocument
    <3>3. pc' \in [Workers -> Pc]
      BY <2>6 DEF WriteDocument
    <3> QED BY <2>0, <2>6, <3>2, <3>3 DEF WriteDocument
  <2>7. CASE WriteMetadata(w) BY <2>0, <2>7 DEF WriteMetadata
  <2>8. CASE CommitFence(w) BY <2>0, <2>8 DEF CommitFence
  <2>9. CASE Supersede(w) BY <2>0, <2>9 DEF Supersede
  <2>10. CASE Publish(w) BY <2>0, <2>10 DEF Publish
  <2>11. CASE Unmark(w)
    <3>1. failed' \in BOOLEAN /\ attempts' \in Nat
      <4>1. CASE pc[w] = "unmark_attempts" BY <2>11, <4>1 DEF Unmark
      <4>2. CASE pc[w] = "unmark_failed" BY <2>11, <4>2 DEF Unmark
      <4> QED BY <2>11, <4>1, <4>2 DEF Unmark
    <3>2. PICK l \in {"unmark_failed", "accept"} : Synced(w, l, "fail")
      BY <2>11 DEF Unmark
    <3>3. CASE Goto(w, l) /\ UNCHANGED <<lock, faults>>
      BY <2>11, <3>1, <3>2, <3>3 DEF Unmark
    <3>4. CASE Fault /\ Leave(w, "fail")
      BY <2>11, <3>1, <3>4 DEF Unmark
    <3> QED BY <3>2, <3>3, <3>4
  <2>12. CASE Accept(w) BY <2>0, <2>12 DEF Accept
  <2>13. CASE Discard(w) BY <2>0, <2>13 DEF Discard
  <2>14. CASE CountFailure(w) BY <2>0, <2>14 DEF CountFailure
  <2>15. CASE Quarantine(w) BY <2>0, <2>15 DEF Quarantine
  <2>16. CASE Cleanup(w) BY <2>0, <2>16 DEF Cleanup
  <2>17. CASE Invalidate(w)
    <3>1. CASE Goto(w, "move") /\ UNCHANGED <<lock, faults, localVars>> BY <2>17, <3>1 DEF Invalidate
    <3>2. CASE Fault /\ lock' = Free /\ Return(w) BY <2>17, <3>2 DEF Invalidate
    <3> QED BY <2>17, <3>1, <3>2 DEF Invalidate
  <2>18. CASE MoveToBackup(w)
    <3>1. CASE output # None BY <2>18, <3>1 DEF MoveToBackup
    <3>2. CASE output = None
      <4>1. Return(w) /\ lock' = Free /\ UNCHANGED <<backups, output>>
        BY <2>18, <3>2 DEF MoveToBackup
      <4> QED BY <2>18, <4>1 DEF MoveToBackup
    <3> QED BY <3>1, <3>2
  <2> QED BY <1>2, <2>1, <2>2, <2>3, <2>4, <2>5, <2>6, <2>7, <2>8, <2>9, <2>10, <2>11, <2>12, <2>13, <2>14, <2>15, <2>16, <2>17, <2>18 DEF FreeStep
<1>3. ASSUME NEW w \in Workers, ErrorStep(w) PROVE TypeOK'
  <2>0. pc[w] \in Holding => token[w] \in Token
    BY DEF TokenInv, TypeOK, Token
  <2>1. CASE ClaimMarkTorn(w) BY <2>0, <2>1 DEF ClaimMarkTorn
  <2>2. CASE ClaimError(w) BY <2>0, <2>2 DEF ClaimError
  <2>3. CASE ParseError(w) BY <2>0, <2>3 DEF ParseError
  <2>4. CASE PublishFails(w) BY <2>0, <2>4 DEF PublishFails
  <2>5. CASE CommitError(w) BY <2>0, <2>5 DEF CommitError
  <2>6. CASE FailError(w) BY <2>0, <2>6 DEF FailError
  <2>7. CASE ReleaseError(w) BY <2>0, <2>7 DEF ReleaseError
  <2>8. CASE ReparseError(w) BY <2>0, <2>8 DEF ReparseError
  <2>9. CASE Reparse(w) BY <2>0, <2>9 DEF Reparse
  <2>12. CASE ForceJob(w) BY <2>0, <2>12 DEF ForceJob
  <2>10. CASE Heartbeat(w) BY <2>0, <2>10 DEF Heartbeat
  <2>11. CASE Crash(w) BY <2>0, <2>11 DEF Crash
  <2> QED BY <1>3, <2>1, <2>2, <2>3, <2>4, <2>5, <2>6, <2>7, <2>8, <2>9, <2>10, <2>11, <2>12 DEF ErrorStep
<1>4. CASE ExpireOrphan BY <1>4 DEF ExpireOrphan
<1>5. CASE ExpireLive
  <2>1. faults' \in 0..MaxFaults BY <1>5 DEF ExpireLive
  <2> QED BY <1>5, <2>1 DEF ExpireLive
<1>6. CASE UNCHANGED vars BY <1>6 DEF vars
<1> QED BY <1>1, <1>2, <1>3, <1>4, <1>5, <1>6 DEF Next

\* Every step of a worker is such a move.
LEMMA StepMoves ==
  ASSUME TypeOK, LockInv, NEW w \in Workers, LockStep(w) \/ FreeStep(w) \/ ErrorStep(w)
  PROVE  ControlMove(w)
<1> USE ParserClaimAssumption, PcClasses
<1> USE DEF ControlMove, Goto, Enter, Leave, Return, Fault, Synced, SyncedOrReturn, Refresh, RemoveStaging, WriteFile,
        claimVars, treeVars, stateVars, localVars, budgetVars
<1>0. /\ lock = w <=> pc[w] \in Locked
      /\ lock = Free => pc[w] \notin Locked
      /\ pc \in [Workers -> Pc] /\ token \in [Workers -> Token \cup {None}]
  BY DEF LockInv, TypeOK
<1>1. CASE ClaimBusy(w) BY <1>0, <1>1 DEF ClaimBusy
<1>2. CASE ClaimEnter(w) BY <1>0, <1>2 DEF ClaimEnter
<1>3. CASE LoadJob(w) BY <1>0, <1>3 DEF LoadJob
<1>4. CASE NextDocument(w) BY <1>0, <1>4 DEF NextDocument
<1>5. CASE CommitEnter(w) BY <1>0, <1>5 DEF CommitEnter
<1>6. CASE FailEnter(w) BY <1>0, <1>6 DEF FailEnter
<1>7. CASE Release(w) BY <1>0, <1>7 DEF Release
<1>8. CASE BackupEnter(w) BY <1>0, <1>8 DEF BackupEnter
<1>9. CASE ScanJob(w) BY <1>0, <1>9 DEF ScanJob
<1>10. CASE ClaimSweep(w) BY <1>0, <1>10 DEF ClaimSweep
<1>11. CASE ClearOutputs(w) BY <1>0, <1>11 DEF ClearOutputs
<1>12. CASE ClaimMark(w) BY <1>0, <1>12 DEF ClaimMark
<1>13. CASE MakeStaging(w) BY <1>0, <1>13 DEF MakeStaging
<1>14. CASE WriteDocument(w) BY <1>0, <1>14 DEF WriteDocument
<1>15. CASE WriteMetadata(w) BY <1>0, <1>15 DEF WriteMetadata
<1>16. CASE CommitFence(w) BY <1>0, <1>16 DEF CommitFence
<1>17. CASE Supersede(w) BY <1>0, <1>17 DEF Supersede
<1>18. CASE Publish(w) BY <1>0, <1>18 DEF Publish
<1>19. CASE Unmark(w) BY <1>0, <1>19 DEF Unmark
<1>20. CASE Accept(w) BY <1>0, <1>20 DEF Accept
<1>21. CASE Discard(w) BY <1>0, <1>21 DEF Discard
<1>22. CASE CountFailure(w) BY <1>0, <1>22 DEF CountFailure
<1>23. CASE Quarantine(w) BY <1>0, <1>23 DEF Quarantine
<1>24. CASE Cleanup(w) BY <1>0, <1>24 DEF Cleanup
<1>25. CASE Invalidate(w) BY <1>0, <1>25 DEF Invalidate
<1>26. CASE MoveToBackup(w) BY <1>0, <1>26 DEF MoveToBackup
<1>27. CASE ClaimMarkTorn(w) BY <1>0, <1>27 DEF ClaimMarkTorn
<1>28. CASE ClaimError(w) BY <1>0, <1>28 DEF ClaimError
<1>29. CASE ParseError(w) BY <1>0, <1>29 DEF ParseError
<1>30. CASE PublishFails(w) BY <1>0, <1>30 DEF PublishFails
<1>31. CASE CommitError(w) BY <1>0, <1>31 DEF CommitError
<1>32. CASE FailError(w) BY <1>0, <1>32 DEF FailError
<1>33. CASE ReleaseError(w) BY <1>0, <1>33 DEF ReleaseError
<1>34. CASE ReparseError(w) BY <1>0, <1>34 DEF ReparseError
<1>35. CASE Reparse(w) BY <1>0, <1>35 DEF Reparse
<1>38. CASE ForceJob(w) BY <1>0, <1>38 DEF ForceJob
<1>36. CASE Heartbeat(w) BY <1>0, <1>36 DEF Heartbeat
<1>37. CASE Crash(w) BY <1>0, <1>37 DEF Crash
<1> QED BY <1>1, <1>2, <1>3, <1>4, <1>5, <1>6, <1>7, <1>8, <1>9, <1>10, <1>11, <1>12, <1>13, <1>14, <1>15, <1>16, <1>17, <1>18, <1>19, <1>20, <1>21, <1>22, <1>23, <1>24, <1>25, <1>26, <1>27, <1>28, <1>29, <1>30, <1>31, <1>32, <1>33, <1>34, <1>35, <1>36, <1>37, <1>38 DEF LockStep, FreeStep, ErrorStep

\* The rest of the inductive invariant: what workers rely on, what is accepted.
DataInv == (\A w \in Workers : WorkerInv(w)) /\ AcceptedInv /\ ClaimAgreesWithAccepted

\* The sets WorkerInv speaks of lie in these classes of program points.
LEMMA WorkerInvClasses ==
  /\ CommitSection \cup FailSection \subseteq Locked
  /\ ClaimSection \subseteq Locked
  /\ UnacceptedPc \subseteq Locked
  /\ PublishedPc \subseteq Locked \cap Holding
  /\ PreAccept \subseteq Holding
  /\ StagedPc \subseteq Holding
BY DEF Locked, Holding, ClaimSection, ReparseSection, WorkPc, CommitSection, FailSection,
       PreAccept, UnacceptedPc, PublishedPc, StagedPc

\* Every step of a worker keeps it.
LEMMA DataStep ==
  ASSUME Inv, NEW w \in Workers, LockStep(w) \/ FreeStep(w) \/ ErrorStep(w)
  PROVE  DataInv'
<1> USE ParserClaimAssumption, NoneIsNoToken
<1> DEFINE Others == Workers \ {w}
<1>a. \A v \in Others : pc'[v] = pc[v] /\ token'[v] = token[v]
  <2>1. ControlMove(w) BY StepMoves DEF Inv
  <2>2. \/ token' = token
        \/ token' = [token EXCEPT ![w] = None]
        \/ token' = [token EXCEPT ![w] = issued + 1]
    BY <2>1 DEF ControlMove
  <2> QED BY <2>1, <2>2 DEF ControlMove, Inv, TypeOK
<1>b. \A v \in Others : pc[v] \in Holding => token[v] \in Token /\ token[v] # token[w]
  BY DEF Inv, TokenInv, TypeOK, Token, None
<1>c. pc[w] \in Holding => token[w] \in Token
  BY DEF Inv, TokenInv, TypeOK, Token
<1>d. lock = Free \/ pc[w] \in Locked => \A v \in Others : pc[v] \notin Locked
  BY DEF Inv, LockInv
<1>e. WorkerInv(w) /\ (\A v \in Others : WorkerInv(v)) /\ AcceptedInv /\ ClaimAgreesWithAccepted
  BY DEF Inv
<1>f. pc \in [Workers -> Pc] /\ token \in [Workers -> Token \cup {None}] /\ issued \in Nat
  BY DEF Inv, TypeOK
<1> DEFINE Data == <<processing, staging, whole, output, parsed>>
<1>q. ASSUME UNCHANGED Data, WorkerInv(w)' PROVE DataInv'
  BY <1>a, <1>e, <1>q DEF DataInv, WorkerInv, AcceptedInv, ClaimAgreesWithAccepted, Current
<1> USE DEF Goto, Enter, Leave, Return, Fault, Synced, SyncedOrReturn, Refresh, RemoveStaging,
        WriteFile, claimVars, treeVars, stateVars, localVars, budgetVars, Current
<1>1. CASE ClaimBusy(w)
  <2>1. UNCHANGED Data BY <1>1 DEF ClaimBusy
  <2>2. WorkerInv(w)'
    BY <1>1, <1>e, <1>f DEF ClaimBusy, WorkerInv, ClaimSection, WorkPc, CommitSection, FailSection, PreAccept, UnacceptedPc, PublishedPc, StagedPc
  <2> QED BY <1>q, <2>1, <2>2
<1>2. CASE ClaimEnter(w)
  <2>1. WorkerInv(w)'
    BY <1>2, <1>c, <1>e, <1>f DEF ClaimEnter, AcceptedInv, ClaimAgreesWithAccepted, Holding, WorkerInv, ClaimSection, WorkPc, CommitSection, FailSection, PreAccept, UnacceptedPc, PublishedPc, StagedPc
  <2>2. \A v \in Others : WorkerInv(v)'
    BY <1>2, <1>a, <1>b, <1>c, <1>d, <1>e, <1>f, PcClasses, WorkerInvClasses DEF ClaimEnter, WorkerInv
  <2>3. AcceptedInv' /\ ClaimAgreesWithAccepted'
    BY <1>2, <1>c, <1>e, <1>f, PcClasses DEF ClaimEnter, AcceptedInv, ClaimAgreesWithAccepted, WorkerInv, ClaimSection, WorkPc, CommitSection, FailSection, PreAccept, UnacceptedPc, PublishedPc, StagedPc
  <2> QED BY <2>1, <2>2, <2>3 DEF DataInv
<1>3. CASE LoadJob(w)
  <2>1. UNCHANGED Data BY <1>3 DEF LoadJob
  <2>2. WorkerInv(w)'
    BY <1>3, <1>e, <1>f DEF LoadJob, WorkerInv, ClaimSection, WorkPc, CommitSection, FailSection, PreAccept, UnacceptedPc, PublishedPc, StagedPc
  <2> QED BY <1>q, <2>1, <2>2
<1>4. CASE NextDocument(w)
  <2>1. UNCHANGED Data BY <1>4 DEF NextDocument
  <2>2. WorkerInv(w)'
    BY <1>4, <1>e, <1>f DEF NextDocument, WorkerInv, ClaimSection, WorkPc, CommitSection, FailSection, PreAccept, UnacceptedPc, PublishedPc, StagedPc
  <2> QED BY <1>q, <2>1, <2>2
<1>5. CASE CommitEnter(w)
  <2>1. UNCHANGED Data BY <1>5 DEF CommitEnter
  <2>2. WorkerInv(w)'
    BY <1>5, <1>e, <1>f DEF CommitEnter, WorkerInv, ClaimSection, WorkPc, CommitSection, FailSection, PreAccept, UnacceptedPc, PublishedPc, StagedPc
  <2> QED BY <1>q, <2>1, <2>2
<1>6. CASE FailEnter(w)
  <2>1. UNCHANGED Data BY <1>6 DEF FailEnter
  <2>2. WorkerInv(w)'
    BY <1>6, <1>e, <1>f DEF FailEnter, WorkerInv, ClaimSection, WorkPc, CommitSection, FailSection, PreAccept, UnacceptedPc, PublishedPc, StagedPc
  <2> QED BY <1>q, <2>1, <2>2
<1>7. CASE Release(w)
  <2>1. WorkerInv(w)'
    BY <1>7, <1>c, <1>e, <1>f DEF Release, AcceptedInv, ClaimAgreesWithAccepted, Holding, WorkerInv, ClaimSection, WorkPc, CommitSection, FailSection, PreAccept, UnacceptedPc, PublishedPc, StagedPc
  <2>2. \A v \in Others : WorkerInv(v)'
    BY <1>7, <1>a, <1>b, <1>c, <1>d, <1>e, <1>f, PcClasses, WorkerInvClasses DEF Release, WorkerInv
  <2>3. AcceptedInv' /\ ClaimAgreesWithAccepted'
    BY <1>7, <1>c, <1>e, <1>f, PcClasses DEF Release, AcceptedInv, ClaimAgreesWithAccepted, WorkerInv, ClaimSection, WorkPc, CommitSection, FailSection, PreAccept, UnacceptedPc, PublishedPc, StagedPc
  <2> QED BY <2>1, <2>2, <2>3 DEF DataInv
<1>8. CASE BackupEnter(w)
  <2>1. UNCHANGED Data BY <1>8 DEF BackupEnter
  <2>2. WorkerInv(w)'
    BY <1>8, <1>e, <1>f DEF BackupEnter, WorkerInv, ClaimSection, WorkPc, CommitSection, FailSection, PreAccept, UnacceptedPc, PublishedPc, StagedPc
  <2> QED BY <1>q, <2>1, <2>2
<1>9. CASE ScanJob(w)
  <2>1. UNCHANGED Data BY <1>9 DEF ScanJob
  <2>2. WorkerInv(w)'
    BY <1>9, <1>e, <1>f DEF ScanJob, WorkerInv, ClaimSection, WorkPc, CommitSection, FailSection, PreAccept, UnacceptedPc, PublishedPc, StagedPc
  <2> QED BY <1>q, <2>1, <2>2
<1>10. CASE ClaimSweep(w)
  <2>1. WorkerInv(w)'
    BY <1>10, <1>c, <1>e, <1>f DEF ClaimSweep, AcceptedInv, ClaimAgreesWithAccepted, Holding, WorkerInv, ClaimSection, WorkPc, CommitSection, FailSection, PreAccept, UnacceptedPc, PublishedPc, StagedPc
  <2>2. \A v \in Others : WorkerInv(v)'
    <3>1. processing = None /\ processing' = None /\ parsed' = parsed
      BY <1>10, <1>e DEF ClaimSweep, WorkerInv, ClaimSection
    <3>2. \A v \in Others : pc[v] \notin Locked
      BY <1>10, <1>d, PcClasses DEF ClaimSweep
    <3> QED BY <3>1, <3>2, <1>a, <1>b, <1>e, WorkerInvClasses DEF WorkerInv
  <2>3. AcceptedInv' /\ ClaimAgreesWithAccepted'
    BY <1>10, <1>c, <1>e, <1>f, PcClasses DEF ClaimSweep, AcceptedInv, ClaimAgreesWithAccepted, WorkerInv, ClaimSection, WorkPc, CommitSection, FailSection, PreAccept, UnacceptedPc, PublishedPc, StagedPc
  <2> QED BY <2>1, <2>2, <2>3 DEF DataInv
<1>11. CASE ClearOutputs(w)
  <2>1. WorkerInv(w)'
    BY <1>11, <1>c, <1>e, <1>f DEF ClearOutputs, AcceptedInv, ClaimAgreesWithAccepted, Holding, WorkerInv, ClaimSection, WorkPc, CommitSection, FailSection, PreAccept, UnacceptedPc, PublishedPc, StagedPc
  <2>2. \A v \in Others : WorkerInv(v)'
    BY <1>11, <1>a, <1>b, <1>c, <1>d, <1>e, <1>f, PcClasses, WorkerInvClasses DEF ClearOutputs, WorkerInv
  <2>3. AcceptedInv' /\ ClaimAgreesWithAccepted'
    BY <1>11, <1>c, <1>e, <1>f, PcClasses DEF ClearOutputs, AcceptedInv, ClaimAgreesWithAccepted, WorkerInv, ClaimSection, WorkPc, CommitSection, FailSection, PreAccept, UnacceptedPc, PublishedPc, StagedPc
  <2> QED BY <2>1, <2>2, <2>3 DEF DataInv
<1>12. CASE ClaimMark(w)
  <2>1. WorkerInv(w)'
    BY <1>12, <1>c, <1>e, <1>f DEF ClaimMark, None, AcceptedInv, ClaimAgreesWithAccepted, Holding, WorkerInv, ClaimSection, WorkPc, CommitSection, FailSection, PreAccept, UnacceptedPc, PublishedPc, StagedPc
  <2>2. \A v \in Others : WorkerInv(v)'
    <3>1. \A v \in Others : pc[v] \notin Locked
      BY <1>12, <1>d, PcClasses DEF ClaimMark
    <3>2. \A v \in Others : pc[v] \in Holding => token[v] # processing'
      BY <1>12, <1>f DEF ClaimMark, Inv, TokenInv
    <3>3. parsed' = parsed
      BY <1>12 DEF ClaimMark
    <3> QED BY <3>1, <3>2, <3>3, <1>a, <1>e, WorkerInvClasses DEF WorkerInv
  <2>3. AcceptedInv' /\ ClaimAgreesWithAccepted'
    BY <1>12, <1>c, <1>e, <1>f, PcClasses DEF ClaimMark, AcceptedInv, ClaimAgreesWithAccepted, WorkerInv, ClaimSection, WorkPc, CommitSection, FailSection, PreAccept, UnacceptedPc, PublishedPc, StagedPc
  <2> QED BY <2>1, <2>2, <2>3 DEF DataInv
<1>13. CASE MakeStaging(w)
  <2>1. WorkerInv(w)'
    BY <1>13, <1>c, <1>e, <1>f DEF MakeStaging, AcceptedInv, ClaimAgreesWithAccepted, Holding, WorkerInv, ClaimSection, WorkPc, CommitSection, FailSection, PreAccept, UnacceptedPc, PublishedPc, StagedPc
  <2>2. \A v \in Others : WorkerInv(v)'
    BY <1>13, <1>a, <1>b, <1>c, <1>d, <1>e, <1>f, PcClasses, WorkerInvClasses DEF MakeStaging, WorkerInv
  <2>3. AcceptedInv' /\ ClaimAgreesWithAccepted'
    BY <1>13, <1>c, <1>e, <1>f, PcClasses DEF MakeStaging, AcceptedInv, ClaimAgreesWithAccepted, WorkerInv, ClaimSection, WorkPc, CommitSection, FailSection, PreAccept, UnacceptedPc, PublishedPc, StagedPc
  <2> QED BY <2>1, <2>2, <2>3 DEF DataInv
<1>14. CASE WriteDocument(w)
  <2>1. WorkerInv(w)'
    BY <1>14, <1>c, <1>e, <1>f DEF WriteDocument, AcceptedInv, ClaimAgreesWithAccepted, Holding, WorkerInv, ClaimSection, WorkPc, CommitSection, FailSection, PreAccept, UnacceptedPc, PublishedPc, StagedPc
  <2>2. \A v \in Others : WorkerInv(v)'
    BY <1>14, <1>a, <1>b, <1>c, <1>d, <1>e, <1>f, PcClasses, WorkerInvClasses DEF WriteDocument, WorkerInv
  <2>3. AcceptedInv' /\ ClaimAgreesWithAccepted'
    BY <1>14, <1>c, <1>e, <1>f, PcClasses DEF WriteDocument, AcceptedInv, ClaimAgreesWithAccepted, WorkerInv, ClaimSection, WorkPc, CommitSection, FailSection, PreAccept, UnacceptedPc, PublishedPc, StagedPc
  <2> QED BY <2>1, <2>2, <2>3 DEF DataInv
<1>15. CASE WriteMetadata(w)
  <2>1. WorkerInv(w)'
    BY <1>15, <1>c, <1>e, <1>f DEF WriteMetadata, AcceptedInv, ClaimAgreesWithAccepted, Holding, WorkerInv, ClaimSection, WorkPc, CommitSection, FailSection, PreAccept, UnacceptedPc, PublishedPc, StagedPc
  <2>2. \A v \in Others : WorkerInv(v)'
    BY <1>15, <1>a, <1>b, <1>c, <1>d, <1>e, <1>f, PcClasses, WorkerInvClasses DEF WriteMetadata, WorkerInv
  <2>3. AcceptedInv' /\ ClaimAgreesWithAccepted'
    BY <1>15, <1>c, <1>e, <1>f, PcClasses DEF WriteMetadata, AcceptedInv, ClaimAgreesWithAccepted, WorkerInv, ClaimSection, WorkPc, CommitSection, FailSection, PreAccept, UnacceptedPc, PublishedPc, StagedPc
  <2> QED BY <2>1, <2>2, <2>3 DEF DataInv
<1>16. CASE CommitFence(w)
  <2>1. WorkerInv(w)'
    BY <1>16, <1>c, <1>e, <1>f DEF CommitFence, AcceptedInv, ClaimAgreesWithAccepted, Holding, WorkerInv, ClaimSection, WorkPc, CommitSection, FailSection, PreAccept, UnacceptedPc, PublishedPc, StagedPc
  <2>2. \A v \in Others : WorkerInv(v)'
    <3>1. processing = token[w] /\ UNCHANGED <<processing, parsed>>
      BY <1>16, <1>e DEF CommitFence, WorkerInv, CommitSection
    <3>2. \A v \in Others : pc[v] \notin Locked
      BY <1>16, <1>d, PcClasses DEF CommitFence
    <3> QED BY <3>1, <3>2, <1>a, <1>b, <1>e, WorkerInvClasses DEF WorkerInv
  <2>3. AcceptedInv' /\ ClaimAgreesWithAccepted'
    BY <1>16, <1>c, <1>e, <1>f, PcClasses DEF CommitFence, AcceptedInv, ClaimAgreesWithAccepted, WorkerInv, ClaimSection, WorkPc, CommitSection, FailSection, PreAccept, UnacceptedPc, PublishedPc, StagedPc
  <2> QED BY <2>1, <2>2, <2>3 DEF DataInv
<1>17. CASE Supersede(w)
  <2>1. WorkerInv(w)'
    BY <1>17, <1>c, <1>e, <1>f DEF Supersede, AcceptedInv, ClaimAgreesWithAccepted, Holding, WorkerInv, ClaimSection, WorkPc, CommitSection, FailSection, PreAccept, UnacceptedPc, PublishedPc, StagedPc
  <2>2. \A v \in Others : WorkerInv(v)'
    BY <1>17, <1>a, <1>b, <1>c, <1>d, <1>e, <1>f, PcClasses, WorkerInvClasses DEF Supersede, WorkerInv
  <2>3. AcceptedInv' /\ ClaimAgreesWithAccepted'
    BY <1>17, <1>c, <1>e, <1>f, PcClasses DEF Supersede, AcceptedInv, ClaimAgreesWithAccepted, WorkerInv, ClaimSection, WorkPc, CommitSection, FailSection, PreAccept, UnacceptedPc, PublishedPc, StagedPc
  <2> QED BY <2>1, <2>2, <2>3 DEF DataInv
<1>18. CASE Publish(w)
  <2>1. WorkerInv(w)'
    BY <1>18, <1>c, <1>e, <1>f DEF Publish, AcceptedInv, ClaimAgreesWithAccepted, Holding, WorkerInv, ClaimSection, WorkPc, CommitSection, FailSection, PreAccept, UnacceptedPc, PublishedPc, StagedPc
  <2>2. \A v \in Others : WorkerInv(v)'
    BY <1>18, <1>a, <1>b, <1>c, <1>d, <1>e, <1>f, PcClasses, WorkerInvClasses DEF Publish, WorkerInv
  <2>3. AcceptedInv' /\ ClaimAgreesWithAccepted'
    BY <1>18, <1>c, <1>e, <1>f, PcClasses DEF Publish, AcceptedInv, ClaimAgreesWithAccepted, WorkerInv, ClaimSection, WorkPc, CommitSection, FailSection, PreAccept, UnacceptedPc, PublishedPc, StagedPc
  <2> QED BY <2>1, <2>2, <2>3 DEF DataInv
<1>19. CASE Unmark(w)
  <2>1. UNCHANGED Data BY <1>19 DEF Unmark
  <2>2. WorkerInv(w)'
    BY <1>19, <1>e, <1>f DEF Unmark, WorkerInv, ClaimSection, WorkPc, CommitSection, FailSection, PreAccept, UnacceptedPc, PublishedPc, StagedPc
  <2> QED BY <1>q, <2>1, <2>2
<1>20. CASE Accept(w)
  <2>1. WorkerInv(w)'
    BY <1>20, <1>c, <1>e, <1>f DEF Accept, AcceptedInv, ClaimAgreesWithAccepted, Holding, WorkerInv, ClaimSection, WorkPc, CommitSection, FailSection, PreAccept, UnacceptedPc, PublishedPc, StagedPc
  <2>2. \A v \in Others : WorkerInv(v)'
    BY <1>20, <1>a, <1>b, <1>c, <1>d, <1>e, <1>f, PcClasses, WorkerInvClasses DEF Accept, WorkerInv
  <2>3. AcceptedInv' /\ ClaimAgreesWithAccepted'
    BY <1>20, <1>c, <1>e, <1>f, PcClasses DEF Accept, AcceptedInv, ClaimAgreesWithAccepted, WorkerInv, ClaimSection, WorkPc, CommitSection, FailSection, PreAccept, UnacceptedPc, PublishedPc, StagedPc
  <2> QED BY <2>1, <2>2, <2>3 DEF DataInv
<1>21. CASE Discard(w)
  <2>1. UNCHANGED Data BY <1>21 DEF Discard
  <2>2. WorkerInv(w)'
    BY <1>21, <1>e, <1>f DEF Discard, WorkerInv, ClaimSection, WorkPc, CommitSection, FailSection, PreAccept, UnacceptedPc, PublishedPc, StagedPc
  <2> QED BY <1>q, <2>1, <2>2
<1>22. CASE CountFailure(w)
  <2>1. UNCHANGED Data BY <1>22 DEF CountFailure
  <2>2. WorkerInv(w)'
    BY <1>22, <1>e, <1>f DEF CountFailure, WorkerInv, ClaimSection, WorkPc, CommitSection, FailSection, PreAccept, UnacceptedPc, PublishedPc, StagedPc
  <2> QED BY <1>q, <2>1, <2>2
<1>23. CASE Quarantine(w)
  <2>1. UNCHANGED Data BY <1>23 DEF Quarantine
  <2>2. WorkerInv(w)'
    BY <1>23, <1>e, <1>f DEF Quarantine, WorkerInv, ClaimSection, WorkPc, CommitSection, FailSection, PreAccept, UnacceptedPc, PublishedPc, StagedPc
  <2> QED BY <1>q, <2>1, <2>2
<1>24. CASE Cleanup(w)
  <2>1. WorkerInv(w)'
    BY <1>24, <1>c, <1>e, <1>f DEF Cleanup, AcceptedInv, ClaimAgreesWithAccepted, Holding, WorkerInv, ClaimSection, WorkPc, CommitSection, FailSection, PreAccept, UnacceptedPc, PublishedPc, StagedPc
  <2>2. \A v \in Others : WorkerInv(v)'
    BY <1>24, <1>a, <1>b, <1>c, <1>d, <1>e, <1>f, PcClasses, WorkerInvClasses DEF Cleanup, WorkerInv
  <2>3. AcceptedInv' /\ ClaimAgreesWithAccepted'
    BY <1>24, <1>c, <1>e, <1>f, PcClasses DEF Cleanup, AcceptedInv, ClaimAgreesWithAccepted, WorkerInv, ClaimSection, WorkPc, CommitSection, FailSection, PreAccept, UnacceptedPc, PublishedPc, StagedPc
  <2> QED BY <2>1, <2>2, <2>3 DEF DataInv
<1>25. CASE Invalidate(w)
  <2>1. WorkerInv(w)'
    BY <1>25, <1>c, <1>e, <1>f DEF Invalidate, AcceptedInv, ClaimAgreesWithAccepted, Holding, WorkerInv, ClaimSection, WorkPc, CommitSection, FailSection, PreAccept, UnacceptedPc, PublishedPc, StagedPc
  <2>2. \A v \in Others : WorkerInv(v)'
    BY <1>25, <1>a, <1>b, <1>c, <1>d, <1>e, <1>f, PcClasses, WorkerInvClasses DEF Invalidate, WorkerInv
  <2>3. AcceptedInv' /\ ClaimAgreesWithAccepted'
    BY <1>25, <1>c, <1>e, <1>f, PcClasses DEF Invalidate, AcceptedInv, ClaimAgreesWithAccepted, WorkerInv, ClaimSection, WorkPc, CommitSection, FailSection, PreAccept, UnacceptedPc, PublishedPc, StagedPc
  <2> QED BY <2>1, <2>2, <2>3 DEF DataInv
<1>26. CASE MoveToBackup(w)
  <2>1. WorkerInv(w)'
    BY <1>26, <1>c, <1>e, <1>f DEF MoveToBackup, AcceptedInv, ClaimAgreesWithAccepted, Holding, WorkerInv, ClaimSection, WorkPc, CommitSection, FailSection, PreAccept, UnacceptedPc, PublishedPc, StagedPc
  <2>2. \A v \in Others : WorkerInv(v)'
    BY <1>26, <1>a, <1>b, <1>c, <1>d, <1>e, <1>f, PcClasses, WorkerInvClasses DEF MoveToBackup, WorkerInv
  <2>3. AcceptedInv' /\ ClaimAgreesWithAccepted'
    BY <1>26, <1>c, <1>e, <1>f, PcClasses DEF MoveToBackup, AcceptedInv, ClaimAgreesWithAccepted, WorkerInv, ClaimSection, WorkPc, CommitSection, FailSection, PreAccept, UnacceptedPc, PublishedPc, StagedPc
  <2> QED BY <2>1, <2>2, <2>3 DEF DataInv
<1>27. CASE ClaimMarkTorn(w)
  <2>1. WorkerInv(w)'
    BY <1>27, <1>c, <1>e, <1>f DEF ClaimMarkTorn, AcceptedInv, ClaimAgreesWithAccepted, Holding, WorkerInv, ClaimSection, WorkPc, CommitSection, FailSection, PreAccept, UnacceptedPc, PublishedPc, StagedPc
  <2>2. \A v \in Others : WorkerInv(v)'
    BY <1>27, <1>a, <1>b, <1>c, <1>d, <1>e, <1>f, PcClasses, WorkerInvClasses DEF ClaimMarkTorn, WorkerInv
  <2>3. AcceptedInv' /\ ClaimAgreesWithAccepted'
    BY <1>27, <1>c, <1>e, <1>f, PcClasses DEF ClaimMarkTorn, AcceptedInv, ClaimAgreesWithAccepted, WorkerInv, ClaimSection, WorkPc, CommitSection, FailSection, PreAccept, UnacceptedPc, PublishedPc, StagedPc
  <2> QED BY <2>1, <2>2, <2>3 DEF DataInv
<1>28. CASE ClaimError(w)
  <2>1. UNCHANGED Data BY <1>28 DEF ClaimError
  <2>2. WorkerInv(w)'
    BY <1>28, <1>e, <1>f DEF ClaimError, WorkerInv, ClaimSection, WorkPc, CommitSection, FailSection, PreAccept, UnacceptedPc, PublishedPc, StagedPc
  <2> QED BY <1>q, <2>1, <2>2
<1>29. CASE ParseError(w)
  <2>1. UNCHANGED Data BY <1>29 DEF ParseError
  <2>2. WorkerInv(w)'
    BY <1>29, <1>e, <1>f DEF ParseError, WorkerInv, ClaimSection, WorkPc, CommitSection, FailSection, PreAccept, UnacceptedPc, PublishedPc, StagedPc
  <2> QED BY <1>q, <2>1, <2>2
<1>30. CASE PublishFails(w)
  <2>1. WorkerInv(w)'
    BY <1>30, <1>c, <1>e, <1>f DEF PublishFails, AcceptedInv, ClaimAgreesWithAccepted, Holding, WorkerInv, ClaimSection, WorkPc, CommitSection, FailSection, PreAccept, UnacceptedPc, PublishedPc, StagedPc
  <2>2. \A v \in Others : WorkerInv(v)'
    BY <1>30, <1>a, <1>b, <1>c, <1>d, <1>e, <1>f, PcClasses, WorkerInvClasses DEF PublishFails, WorkerInv
  <2>3. AcceptedInv' /\ ClaimAgreesWithAccepted'
    BY <1>30, <1>c, <1>e, <1>f, PcClasses DEF PublishFails, AcceptedInv, ClaimAgreesWithAccepted, WorkerInv, ClaimSection, WorkPc, CommitSection, FailSection, PreAccept, UnacceptedPc, PublishedPc, StagedPc
  <2> QED BY <2>1, <2>2, <2>3 DEF DataInv
<1>31. CASE CommitError(w)
  <2>1. UNCHANGED Data BY <1>31 DEF CommitError
  <2>2. WorkerInv(w)'
    BY <1>31, <1>e, <1>f DEF CommitError, WorkerInv, ClaimSection, WorkPc, CommitSection, FailSection, PreAccept, UnacceptedPc, PublishedPc, StagedPc
  <2> QED BY <1>q, <2>1, <2>2
<1>32. CASE FailError(w)
  <2>1. UNCHANGED Data BY <1>32 DEF FailError
  <2>2. WorkerInv(w)'
    BY <1>32, <1>e, <1>f DEF FailError, WorkerInv, ClaimSection, WorkPc, CommitSection, FailSection, PreAccept, UnacceptedPc, PublishedPc, StagedPc
  <2> QED BY <1>q, <2>1, <2>2
<1>33. CASE ReleaseError(w)
  <2>1. UNCHANGED Data BY <1>33 DEF ReleaseError
  <2>2. WorkerInv(w)'
    BY <1>33, <1>e, <1>f DEF ReleaseError, WorkerInv, ClaimSection, WorkPc, CommitSection, FailSection, PreAccept, UnacceptedPc, PublishedPc, StagedPc
  <2> QED BY <1>q, <2>1, <2>2
<1>34. CASE ReparseError(w)
  <2>1. UNCHANGED Data BY <1>34 DEF ReparseError
  <2>2. WorkerInv(w)'
    BY <1>34, <1>e, <1>f DEF ReparseError, WorkerInv, ClaimSection, WorkPc, CommitSection, FailSection, PreAccept, UnacceptedPc, PublishedPc, StagedPc
  <2> QED BY <1>q, <2>1, <2>2
<1>35. CASE Reparse(w)
  <2>1. UNCHANGED Data BY <1>35 DEF Reparse
  <2>2. WorkerInv(w)'
    BY <1>35, <1>e, <1>f DEF Reparse, WorkerInv, ClaimSection, WorkPc, CommitSection, FailSection, PreAccept, UnacceptedPc, PublishedPc, StagedPc
  <2> QED BY <1>q, <2>1, <2>2
<1>38. CASE ForceJob(w)
  <2>1. UNCHANGED Data BY <1>38 DEF ForceJob
  <2>2. WorkerInv(w)'
    BY <1>38, <1>e, <1>f DEF ForceJob, WorkerInv, ClaimSection, WorkPc, CommitSection, FailSection, PreAccept, UnacceptedPc, PublishedPc, StagedPc
  <2> QED BY <1>q, <2>1, <2>2
<1>36. CASE Heartbeat(w)
  <2>1. UNCHANGED Data BY <1>36 DEF Heartbeat
  <2>2. WorkerInv(w)'
    BY <1>36, <1>e, <1>f DEF Heartbeat, WorkerInv, ClaimSection, WorkPc, CommitSection, FailSection, PreAccept, UnacceptedPc, PublishedPc, StagedPc
  <2> QED BY <1>q, <2>1, <2>2
<1>37. CASE Crash(w)
  <2>1. UNCHANGED Data BY <1>37 DEF Crash
  <2>2. WorkerInv(w)'
    BY <1>37, <1>e, <1>f DEF Crash, WorkerInv, ClaimSection, WorkPc, CommitSection, FailSection, PreAccept, UnacceptedPc, PublishedPc, StagedPc
  <2> QED BY <1>q, <2>1, <2>2
<1> QED BY <1>1, <1>2, <1>3, <1>4, <1>5, <1>6, <1>7, <1>8, <1>9, <1>10, <1>11, <1>12, <1>13, <1>14, <1>15, <1>16, <1>17, <1>18, <1>19, <1>20, <1>21, <1>22, <1>23, <1>24, <1>25, <1>26, <1>27, <1>28, <1>29, <1>30, <1>31, <1>32, <1>33, <1>34, <1>35, <1>36, <1>37, <1>38 DEF LockStep, FreeStep, ErrorStep

\* Inv holds before any process has claimed the job.
LEMMA InvInit == Init => Inv
<1> SUFFICES ASSUME Init PROVE Inv
  OBVIOUS
<1> USE ParserClaimAssumption, PcClasses, NoneIsNoToken DEF Init
<1>1. TypeOK
  <2>1. superseded \in [Token -> Token \cup {None}] /\ pc \in [Workers -> Pc]
    OBVIOUS
  <2>2. 0 \in 0..Documents /\ issued \in 0..MaxClaims
    OBVIOUS
  <2>3. faults \in 0..MaxFaults /\ crashes \in 0..MaxCrashes /\ reparses \in 0..MaxReparses
    OBVIOUS
  <2> QED BY <2>1, <2>2, <2>3 DEF TypeOK
<1>2. LockInv
  BY DEF LockInv
<1>3. TokenInv
  BY DEF TokenInv
<1>4. \A w \in Workers : WorkerInv(w)
  BY WorkerInvClasses DEF WorkerInv
<1>5. AcceptedInv /\ ClaimAgreesWithAccepted
  BY DEF AcceptedInv, ClaimAgreesWithAccepted
<1> QED BY <1>1, <1>2, <1>3, <1>4, <1>5 DEF Inv

\* Every step keeps Inv: control by StepMoves, types by TypeStep, the rest by DataStep.
LEMMA InvStep == Inv /\ [Next]_vars => Inv'
<1> SUFFICES ASSUME Inv, [Next]_vars PROVE Inv'
  OBVIOUS
<1>1. TypeOK'
  BY TypeStep DEF Inv
<1>2. ASSUME NEW w \in Workers, LockStep(w) \/ FreeStep(w) \/ ErrorStep(w) PROVE Inv'
  <2>1. LockInv' /\ TokenInv'
    BY <1>2, StepMoves, MoveKeepsControl DEF Inv
  <2>2. DataInv'
    BY <1>2, DataStep
  <2> QED BY <1>1, <2>1, <2>2 DEF Inv, DataInv
<1>3. CASE ExpireOrphan \/ ExpireLive \/ UNCHANGED vars
  <2>1. UNCHANGED <<lock, processing, staging, whole, output, parsed, pc, token, issued>>
    BY <1>3 DEF ExpireOrphan, ExpireLive, vars, claimVars, treeVars, stateVars, localVars
  <2> QED BY <1>1, <2>1 DEF Inv, LockInv, TokenInv, WorkerInv, AcceptedInv,
                            ClaimAgreesWithAccepted, Current
<1> QED BY <1>2, <1>3 DEF Next

\* The inductive invariant holds throughout, for any number of workers, claims,
\* errors, deaths and reparse commands.
THEOREM Invariance == Spec => []Inv
BY InvInit, InvStep, PTL DEF Spec

\* Every variable keeps its type.
THEOREM TypeCorrect == Spec => []TypeOK
<1>1. Inv => TypeOK
  BY DEF Inv
<1> QED BY <1>1, Invariance, PTL

\* .parsed always accepts a complete PHARSED that is in place, whatever the
\* interleaving of _commit_success, _clear_parser_outputs and reparse's backup, and
\* wherever a process dies.
THEOREM AcceptedOutputSafe == Spec => []AcceptedOutputIntact
<1>1. Inv => AcceptedOutputIntact
  BY DEF Inv, AcceptedInv, AcceptedOutputIntact
<1> QED BY <1>1, Invariance, PTL

\* A lease in force while a result is accepted is the accepted attempt's own.
THEOREM ClaimAgreement == Spec => []ClaimAgreesWithAccepted
<1>1. Inv => ClaimAgreesWithAccepted
  BY DEF Inv
<1> QED BY <1>1, Invariance, PTL

\* Nobody removes what the current lease holder has staged.
THEOREM StagingProtected == Spec => []LeaseProtectsStaging
<1>1. Inv => LeaseProtectsStaging
  BY DEF Inv, WorkerInv, LeaseProtectsStaging
<1> QED BY <1>1, Invariance, PTL

\* A result is published, or a failure recorded, only by the worker that .processing
\* names, however late a displaced one arrives at its fence.
THEOREM Fencing == Spec => FencedPublication
<1> DEFINE Fenced ==
      /\ parsed' # parsed /\ parsed' # None => parsed' = processing
      /\ attempts' > attempts \/ (failed' /\ ~failed)
           => \E w \in Workers : lock = w /\ token[w] = processing
<1>1. ASSUME Inv, [Next]_vars PROVE [Fenced]_vars
  <2>1. ASSUME NEW w \in Workers, LockStep(w) \/ FreeStep(w) \/ ErrorStep(w) PROVE Fenced
    <3> DEFINE Verdict == <<parsed, attempts, failed>>
    <3>0. /\ WorkerInv(w)
          /\ lock = w <=> pc[w] \in Locked
          /\ attempts \in Nat
      BY <1>1 DEF Inv, LockInv, TypeOK
    <3>a. ASSUME UNCHANGED Verdict PROVE Fenced
      BY <3>0, <3>a
    <3> USE DEF stateVars, WriteFile
    <3>1. CASE ClaimBusy(w) BY <3>a, <3>1 DEF ClaimBusy
    <3>2. CASE ClaimEnter(w) BY <3>a, <3>2 DEF ClaimEnter
    <3>3. CASE LoadJob(w) BY <3>a, <3>3 DEF LoadJob
    <3>4. CASE NextDocument(w) BY <3>a, <3>4 DEF NextDocument
    <3>5. CASE CommitEnter(w) BY <3>a, <3>5 DEF CommitEnter
    <3>6. CASE FailEnter(w) BY <3>a, <3>6 DEF FailEnter
    <3>7. CASE Release(w) BY <3>a, <3>7 DEF Release
    <3>8. CASE BackupEnter(w) BY <3>a, <3>8 DEF BackupEnter
    <3>9. CASE ScanJob(w) BY <3>a, <3>9 DEF ScanJob
    <3>10. CASE ClaimSweep(w) BY <3>a, <3>10 DEF ClaimSweep
    <3>11. CASE ClearOutputs(w) BY <3>0, <3>11 DEF ClearOutputs
    <3>12. CASE ClaimMark(w) BY <3>a, <3>12 DEF ClaimMark
    <3>13. CASE MakeStaging(w) BY <3>a, <3>13 DEF MakeStaging
    <3>14. CASE WriteDocument(w) BY <3>a, <3>14 DEF WriteDocument
    <3>15. CASE WriteMetadata(w) BY <3>a, <3>15 DEF WriteMetadata
    <3>16. CASE CommitFence(w) BY <3>a, <3>16 DEF CommitFence
    <3>17. CASE Supersede(w) BY <3>a, <3>17 DEF Supersede
    <3>18. CASE Publish(w) BY <3>a, <3>18 DEF Publish
    <3>19. CASE Unmark(w) BY <3>0, <3>19 DEF Unmark
    <3>20. CASE Accept(w) BY <3>0, <3>20, PcClasses DEF Accept, WorkerInv, Current, CommitSection, FailSection
    <3>21. CASE Discard(w) BY <3>a, <3>21 DEF Discard
    <3>22. CASE CountFailure(w) BY <3>0, <3>22, PcClasses DEF CountFailure, WorkerInv, Current, CommitSection, FailSection
    <3>23. CASE Quarantine(w) BY <3>0, <3>23, PcClasses DEF Quarantine, WorkerInv, Current, CommitSection, FailSection
    <3>24. CASE Cleanup(w) BY <3>a, <3>24 DEF Cleanup
    <3>25. CASE Invalidate(w) BY <3>0, <3>25 DEF Invalidate
    <3>26. CASE MoveToBackup(w) BY <3>a, <3>26 DEF MoveToBackup
    <3>27. CASE ClaimMarkTorn(w) BY <3>a, <3>27 DEF ClaimMarkTorn
    <3>28. CASE ClaimError(w) BY <3>a, <3>28 DEF ClaimError
    <3>29. CASE ParseError(w) BY <3>a, <3>29 DEF ParseError
    <3>30. CASE PublishFails(w) BY <3>a, <3>30 DEF PublishFails
    <3>31. CASE CommitError(w) BY <3>a, <3>31 DEF CommitError
    <3>32. CASE FailError(w) BY <3>a, <3>32 DEF FailError
    <3>33. CASE ReleaseError(w) BY <3>a, <3>33 DEF ReleaseError
    <3>34. CASE ReparseError(w) BY <3>a, <3>34 DEF ReparseError
    <3>35. CASE Reparse(w) BY <3>a, <3>35 DEF Reparse
    <3>38. CASE ForceJob(w) BY <3>a, <3>38 DEF ForceJob
    <3>36. CASE Heartbeat(w) BY <3>a, <3>36 DEF Heartbeat
    <3>37. CASE Crash(w) BY <3>a, <3>37 DEF Crash
    <3> QED BY <2>1, <3>1, <3>2, <3>3, <3>4, <3>5, <3>6, <3>7, <3>8, <3>9, <3>10, <3>11, <3>12, <3>13, <3>14, <3>15, <3>16, <3>17, <3>18, <3>19, <3>20, <3>21, <3>22, <3>23, <3>24, <3>25, <3>26, <3>27, <3>28, <3>29, <3>30, <3>31, <3>32, <3>33, <3>34, <3>35, <3>36, <3>37, <3>38 DEF LockStep, FreeStep, ErrorStep
  <2>2. CASE ExpireOrphan \/ ExpireLive
    <3>1. UNCHANGED <<parsed, attempts, failed>>
      BY <2>2 DEF ExpireOrphan, ExpireLive, stateVars
    <3> QED BY <1>1, <3>1 DEF Inv, TypeOK
  <2> QED BY <1>1, <2>1, <2>2 DEF Next
<1> QED BY <1>1, Invariance, PTL DEF Spec, FencedPublication
=============================================================================
