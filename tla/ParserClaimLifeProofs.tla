----------------------- MODULE ParserClaimLifeProofs -----------------------
(***************************************************************************)
(* The parser's processes together implement JobLife, for any set of       *)
(* workers and any bounds; the recorded failures are bounded, and          *)
(* acceptance excludes failure state.                                      *)
(***************************************************************************)
EXTENDS ParserClaimProofs

\* What worker w's step may do to the job's life: six actions touch the result, the
\* counter or the quarantine; from the two points at which one attempt too many may be
\* on record, every other way out is an error or a death.
Effect(w) ==
  /\ force' = [force EXCEPT ![w] = force'[w]] /\ force'[w] \in BOOLEAN
  /\ processing' \in {processing, None, Torn, issued + 1}
  /\ \/ UNCHANGED <<faults, crashes>>
     \/ faults' = faults + 1 /\ UNCHANGED crashes
     \/ crashes' = crashes + 1 /\ UNCHANGED faults
  /\ \/ /\ UNCHANGED stateVars
        /\ pc'[w] # pc[w] /\ pc[w] \in {"exhaust", "clear_attempts"}
             => faults' = faults + 1 \/ crashes' = crashes + 1
     \/ ClearOutputs(w) \/ Unmark(w) \/ Accept(w) \/ CountFailure(w) \/ Quarantine(w)
     \/ Invalidate(w)

\* Every step of a worker has such an effect.
LEMMA StepEffect ==
  ASSUME TypeOK, LockInv, NEW w \in Workers, LockStep(w) \/ FreeStep(w) \/ ErrorStep(w)
  PROVE  Effect(w)
<1> USE ParserClaimAssumption
<1> USE DEF Effect, Goto, Enter, Leave, Return, Fault, Synced, SyncedOrReturn, Refresh,
        WriteFile, claimVars, stateVars, localVars, budgetVars
<1>0. pc \in [Workers -> Pc] /\ force \in [Workers -> BOOLEAN]
  BY DEF TypeOK
<1>1. CASE ClaimBusy(w) BY <1>1, <1>0 DEF ClaimBusy
<1>2. CASE ClaimEnter(w) BY <1>2, <1>0 DEF ClaimEnter
<1>3. CASE LoadJob(w) BY <1>3, <1>0 DEF LoadJob
<1>4. CASE NextDocument(w) BY <1>4, <1>0 DEF NextDocument
<1>5. CASE CommitEnter(w) BY <1>5, <1>0 DEF CommitEnter
<1>6. CASE FailEnter(w) BY <1>6, <1>0 DEF FailEnter
<1>7. CASE Release(w) BY <1>7, <1>0 DEF Release
<1>8. CASE BackupEnter(w) BY <1>8, <1>0 DEF BackupEnter
<1>9. CASE ScanJob(w) BY <1>9, <1>0 DEF ScanJob
<1>10. CASE ClaimSweep(w) BY <1>10, <1>0 DEF ClaimSweep
<1>11. CASE ClearOutputs(w) BY <1>11, <1>0 DEF ClearOutputs
<1>12. CASE ClaimMark(w) BY <1>12, <1>0 DEF ClaimMark
<1>13. CASE MakeStaging(w) BY <1>13, <1>0 DEF MakeStaging
<1>14. CASE WriteDocument(w) BY <1>14, <1>0 DEF WriteDocument
<1>15. CASE WriteMetadata(w) BY <1>15, <1>0 DEF WriteMetadata
<1>16. CASE CommitFence(w) BY <1>16, <1>0 DEF CommitFence
<1>17. CASE Supersede(w) BY <1>17, <1>0 DEF Supersede
<1>18. CASE Publish(w) BY <1>18, <1>0 DEF Publish
<1>19. CASE Unmark(w) BY <1>19, <1>0 DEF Unmark
<1>20. CASE Accept(w) BY <1>20, <1>0 DEF Accept
<1>21. CASE Discard(w) BY <1>21, <1>0 DEF Discard
<1>22. CASE CountFailure(w) BY <1>22, <1>0 DEF CountFailure
<1>23. CASE Quarantine(w) BY <1>23, <1>0 DEF Quarantine
<1>24. CASE Cleanup(w) BY <1>24, <1>0 DEF Cleanup
<1>25. CASE Invalidate(w) BY <1>25, <1>0 DEF Invalidate
<1>26. CASE MoveToBackup(w) BY <1>26, <1>0 DEF MoveToBackup
<1>27. CASE ClaimMarkTorn(w) BY <1>27, <1>0 DEF ClaimMarkTorn
<1>28. CASE ClaimError(w) BY <1>28, <1>0 DEF ClaimError
<1>29. CASE ParseError(w) BY <1>29, <1>0 DEF ParseError, WorkPc
<1>30. CASE PublishFails(w) BY <1>30, <1>0 DEF PublishFails
<1>31. CASE CommitError(w) BY <1>31, <1>0 DEF CommitError
<1>32. CASE FailError(w) BY <1>32, <1>0 DEF FailError
<1>33. CASE ReleaseError(w) BY <1>33, <1>0 DEF ReleaseError
<1>34. CASE ReparseError(w) BY <1>34, <1>0 DEF ReparseError
<1>35. CASE Reparse(w) BY <1>35, <1>0 DEF Reparse
<1>36. CASE ForceJob(w) BY <1>36, <1>0 DEF ForceJob
<1>37. CASE Heartbeat(w) BY <1>37, <1>0 DEF Heartbeat
<1>38. CASE Crash(w) BY <1>38, <1>0 DEF Crash
<1> QED
  BY <1>1, <1>2, <1>3, <1>4, <1>5, <1>6, <1>7, <1>8, <1>9, <1>10, <1>11, <1>12, <1>13, <1>14,
       <1>15, <1>16, <1>17, <1>18, <1>19, <1>20, <1>21, <1>22, <1>23, <1>24, <1>25, <1>26,
       <1>27, <1>28, <1>29, <1>30, <1>31, <1>32, <1>33, <1>34, <1>35, <1>36, <1>37, <1>38
  DEF LockStep, FreeStep, ErrorStep

\* The sets LifeInv speaks of lie in these classes of program points.
LEMMA LifeInvClasses ==
  /\ {"clear_attempts", "mark", "exhaust", "unmark_failed", "accept"} \subseteq Locked
  /\ OpenPc \subseteq Holding /\ FailSection \subseteq OpenPc /\ "fail" \in OpenPc
  /\ PreAccept \subseteq Holding
BY DEF Locked, Holding, ClaimSection, ReparseSection, WorkPc, CommitSection, FailSection,
       PreAccept, OpenPc

\* The points from which a worker moves the result, the counter or the quarantine are
\* locked, and it holds the lease where it accepts or fails.
LEMMA VerdictPoints ==
  ASSUME Inv, NEW w \in Workers, Effect(w)
  PROVE  /\ pc[w] \notin Locked => UNCHANGED stateVars
         /\ failed' => failed \/ Current(w)
         /\ parsed' \in {parsed, None} \/ Current(w)
         /\ accepted' = accepted \/ (pc[w] \in Holding /\ accepted' = accepted \cup {token[w]})
<1>0. WorkerInv(w)
  BY DEF Inv
<1>1. CASE UNCHANGED stateVars
  BY <1>1 DEF stateVars
<1>2. CASE ClearOutputs(w)
  BY <1>2, PcClasses DEF ClearOutputs
<1>3. CASE Unmark(w)
  BY <1>3, PcClasses DEF Unmark
<1>4. CASE Accept(w)
  BY <1>0, <1>4, PcClasses DEF Accept, WorkerInv, CommitSection
<1>5. CASE CountFailure(w)
  BY <1>5, PcClasses DEF CountFailure
<1>6. CASE Quarantine(w)
  BY <1>0, <1>6, PcClasses DEF Quarantine, WorkerInv, FailSection
<1>7. CASE Invalidate(w)
  BY <1>7, PcClasses DEF Invalidate
<1> QED BY <1>1, <1>2, <1>3, <1>4, <1>5, <1>6, <1>7 DEF Effect

\* What the other workers rely on survives w's step: in a locked section nobody else
\* moves the verdict, outside of it only the holder of another lease does.
LEMMA LifeOthers ==
  ASSUME JobInv, NEW w \in Workers, LockStep(w) \/ FreeStep(w) \/ ErrorStep(w),
         NEW v \in Workers, v # w
  PROVE  LifeInv(v)'
<1> USE ParserClaimAssumption
<1>1. Inv /\ TypeOK /\ LockInv /\ TokenInv /\ LifeInv(v)
  BY DEF JobInv, Inv
<1>2. ControlMove(w) /\ Effect(w)
  BY <1>1, StepMoves, StepEffect
<1>3. pc'[v] = pc[v] /\ token'[v] = token[v] /\ force'[v] = force[v]
  <2>1. \/ token' = token
        \/ token' = [token EXCEPT ![w] = None]
        \/ token' = [token EXCEPT ![w] = issued + 1]
    BY <1>2 DEF ControlMove
  <2>2. pc' = [pc EXCEPT ![w] = pc'[w]] /\ force' = [force EXCEPT ![w] = force'[w]]
    BY <1>2 DEF ControlMove, Effect
  <2> QED BY <1>1, <2>1, <2>2 DEF TypeOK
<1>4. pc[v] \in Holding => token[v] \in 1..issued /\ token[v] # token[w]
  BY <1>1 DEF TokenInv, TypeOK, None
<1>5. pc[v] \in Locked => pc[w] \notin Locked
  BY <1>1 DEF LockInv
<1>6. pc[v] \in Holding /\ Current(v)' => Current(v) /\ ~Current(w)
  <2>1. issued \in Nat
    BY <1>1 DEF TypeOK
  <2> QED BY <1>2, <1>3, <1>4, <2>1 DEF Effect, Current, None, Torn
<1>7. /\ pc[w] \notin Locked => UNCHANGED <<parsed, failed, attempts>>
      /\ failed' => failed \/ Current(w)
      /\ parsed' \in {parsed, None} \/ Current(w)
      /\ accepted' \subseteq accepted \cup {token[w]}
  BY <1>1, <1>2, VerdictPoints DEF stateVars
<1>8. /\ pc[v] \in {"clear_attempts", "mark"} => ~failed'
      /\ pc[v] = "exhaust" => attempts' > RetryCount
      /\ pc[v] \in {"unmark_failed", "accept"} => attempts' = 0
  BY <1>1, <1>5, <1>7, LifeInvClasses DEF LifeInv
<1>9. /\ pc[v] \in OpenPc /\ Current(v)' => ~failed'
      /\ pc[v] \in {"fail"} \cup FailSection /\ Current(v)' => parsed' = None \/ SyncFaults
  BY <1>1, <1>6, <1>7, LifeInvClasses DEF LifeInv
<1>10. pc[v] \in PreAccept => token[v] \notin accepted'
  BY <1>1, <1>4, <1>7, LifeInvClasses DEF LifeInv
<1>11. pc[v] \in ForcedPc => force[v]
  BY <1>1 DEF LifeInv
<1> QED BY <1>3, <1>8, <1>9, <1>10, <1>11 DEF LifeInv

\* What w relies on at its next point is there.
LEMMA LifeOwn ==
  ASSUME JobInv, NEW w \in Workers, LockStep(w) \/ FreeStep(w) \/ ErrorStep(w)
  PROVE  LifeInv(w)'
<1> USE ParserClaimAssumption, NoneIsNoToken
<1>a. Inv /\ TypeOK /\ TokenInv /\ WorkerInv(w) /\ LifeInv(w) /\ accepted \subseteq 1..issued
  BY DEF JobInv, Inv
<1>b. /\ pc \in [Workers -> Pc] /\ force \in [Workers -> BOOLEAN]
      /\ token \in [Workers -> Token \cup {None}] /\ attempts \in Nat /\ issued \in Nat
      /\ failed \in BOOLEAN /\ RetryCount \in Nat
  BY <1>a DEF TypeOK
<1>c. pc[w] \in Holding => token[w] \in Token
  BY <1>a DEF TokenInv, TypeOK, Token
\* A lease in force means that nothing is accepted before the own commit.
<1>d. pc[w] \in PreAccept /\ Current(w) => parsed = None
  <2>1. ClaimAgreesWithAccepted
    BY <1>a DEF Inv
  <2> QED BY <1>a, <1>c, <2>1, LifeInvClasses DEF ClaimAgreesWithAccepted, WorkerInv, Current
<1> USE DEF LifeInv, Current, Goto, Enter, Leave, Return, Fault, Synced, SyncedOrReturn, Refresh,
        WriteFile, claimVars, stateVars, localVars, budgetVars,
        ClaimSection, ReparseSection, WorkPc, CommitSection, FailSection, OpenPc, ForcedPc,
        PreAccept
<1>1. CASE ClaimBusy(w) BY <1>1, <1>a, <1>b, <1>d DEF ClaimBusy
<1>2. CASE ClaimEnter(w) BY <1>2, <1>a, <1>b, <1>d DEF ClaimEnter
<1>3. CASE LoadJob(w) BY <1>3, <1>a, <1>b, <1>d DEF LoadJob
<1>4. CASE NextDocument(w) BY <1>4, <1>a, <1>b, <1>d DEF NextDocument
<1>5. CASE CommitEnter(w) BY <1>5, <1>a, <1>b, <1>d DEF CommitEnter
<1>6. CASE FailEnter(w) BY <1>6, <1>a, <1>b, <1>d DEF FailEnter
<1>7. CASE Release(w) BY <1>7, <1>a, <1>b, <1>d DEF Release
<1>8. CASE BackupEnter(w) BY <1>8, <1>a, <1>b, <1>d DEF BackupEnter
<1>9. CASE ScanJob(w) BY <1>9, <1>a, <1>b, <1>d DEF ScanJob
<1>10. CASE ClaimSweep(w) BY <1>10, <1>a, <1>b, <1>d DEF ClaimSweep
<1>11. CASE ClearOutputs(w) BY <1>11, <1>a, <1>b, <1>d DEF ClearOutputs
<1>12. CASE ClaimMark(w) BY <1>12, <1>a, <1>b, <1>d DEF ClaimMark
<1>13. CASE MakeStaging(w) BY <1>13, <1>a, <1>b, <1>d DEF MakeStaging
<1>14. CASE WriteDocument(w) BY <1>14, <1>a, <1>b, <1>d DEF WriteDocument
<1>15. CASE WriteMetadata(w) BY <1>15, <1>a, <1>b, <1>d DEF WriteMetadata
<1>16. CASE CommitFence(w) BY <1>16, <1>a, <1>b, <1>d DEF CommitFence
<1>17. CASE Supersede(w) BY <1>17, <1>a, <1>b, <1>d DEF Supersede
<1>18. CASE Publish(w) BY <1>18, <1>a, <1>b, <1>d DEF Publish
<1>19. CASE Unmark(w) BY <1>19, <1>a, <1>b, <1>d DEF Unmark
<1>20. CASE Accept(w) BY <1>20, <1>a, <1>b, <1>d DEF Accept
<1>21. CASE Discard(w) BY <1>21, <1>a, <1>b, <1>d DEF Discard
<1>22. CASE CountFailure(w) BY <1>22, <1>a, <1>b, <1>d DEF CountFailure, Exhausted
<1>23. CASE Quarantine(w) BY <1>23, <1>a, <1>b, <1>d DEF Quarantine
<1>24. CASE Cleanup(w) BY <1>24, <1>a, <1>b, <1>d DEF Cleanup
<1>25. CASE Invalidate(w) BY <1>25, <1>a, <1>b, <1>d DEF Invalidate
<1>26. CASE MoveToBackup(w) BY <1>26, <1>a, <1>b, <1>d DEF MoveToBackup
<1>27. CASE ClaimMarkTorn(w) BY <1>27, <1>a, <1>b, <1>d DEF ClaimMarkTorn
<1>28. CASE ClaimError(w) BY <1>28, <1>a, <1>b, <1>d DEF ClaimError
<1>29. CASE ParseError(w) BY <1>29, <1>a, <1>b, <1>d DEF ParseError
<1>30. CASE PublishFails(w) BY <1>30, <1>a, <1>b, <1>d DEF PublishFails
<1>31. CASE CommitError(w) BY <1>31, <1>a, <1>b, <1>d DEF CommitError
<1>32. CASE FailError(w) BY <1>32, <1>a, <1>b, <1>d DEF FailError
<1>33. CASE ReleaseError(w) BY <1>33, <1>a, <1>b, <1>d DEF ReleaseError
<1>34. CASE ReparseError(w) BY <1>34, <1>a, <1>b, <1>d DEF ReparseError
<1>35. CASE Reparse(w) BY <1>35, <1>a, <1>b, <1>d DEF Reparse
<1>36. CASE ForceJob(w) BY <1>36, <1>a, <1>b, <1>d DEF ForceJob
<1>37. CASE Heartbeat(w) BY <1>37, <1>a, <1>b, <1>d DEF Heartbeat
<1>38. CASE Crash(w) BY <1>38, <1>a, <1>b, <1>d DEF Crash
<1> QED
  BY <1>1, <1>2, <1>3, <1>4, <1>5, <1>6, <1>7, <1>8, <1>9, <1>10, <1>11, <1>12, <1>13, <1>14,
       <1>15, <1>16, <1>17, <1>18, <1>19, <1>20, <1>21, <1>22, <1>23, <1>24, <1>25, <1>26,
       <1>27, <1>28, <1>29, <1>30, <1>31, <1>32, <1>33, <1>34, <1>35, <1>36, <1>37, <1>38
  DEF LockStep, FreeStep, ErrorStep

\* The bounds on the recorded attempts and the exclusion of acceptance and failure are
\* kept: CountFailure meets an open job with nobody at the two critical points.
LEMMA VerdictStep ==
  ASSUME JobInv, NEW w \in Workers, LockStep(w) \/ FreeStep(w) \/ ErrorStep(w)
  PROVE  AttemptsBounded' /\ AttemptInv' /\ VerdictInv'
<1> USE ParserClaimAssumption
<1> DEFINE Critical == {"exhaust", "clear_attempts"}
<1>a. Inv /\ TypeOK /\ LockInv /\ WorkerInv(w) /\ LifeInv(w)
  BY DEF JobInv, Inv
<1>b. AttemptsBounded /\ AttemptInv /\ VerdictInv
  BY DEF JobInv
<1>c. ControlMove(w) /\ Effect(w)
  BY <1>a, StepMoves, StepEffect
<1>d. \A v \in Workers \ {w} : pc'[v] = pc[v]
  BY <1>a, <1>c DEF ControlMove, TypeOK
<1>e. /\ attempts \in Nat /\ faults \in Nat /\ crashes \in Nat /\ RetryCount \in Nat
  BY <1>a DEF TypeOK
<1>i. failed \in BOOLEAN /\ pc \in [Workers -> Pc]
  BY <1>a DEF TypeOK
<1>f. \/ UNCHANGED <<faults, crashes>>
      \/ faults' = faults + 1 /\ UNCHANGED crashes
      \/ crashes' = crashes + 1 /\ UNCHANGED faults
  BY <1>c DEF Effect
<1>g. pc[w] \in Locked => \A v \in Workers \ {w} : pc[v] \notin Locked
  BY <1>a DEF LockInv
<1>h. Critical \subseteq Locked
  BY LifeInvClasses
<1>1. CASE /\ UNCHANGED stateVars
           /\ pc'[w] # pc[w] /\ pc[w] \in Critical => faults' = faults + 1 \/ crashes' = crashes + 1
  <2>1. UNCHANGED <<parsed, attempts, failed>>
    BY <1>1 DEF stateVars
  <2>2. AttemptsBounded'
    BY <1>b, <1>e, <1>f, <2>1 DEF AttemptsBounded
  <2>3. AttemptInv'
    <3> SUFFICES ASSUME attempts > RetryCount + faults' + crashes', ~failed
                 PROVE  \E v \in Workers : pc'[v] \in Critical
      BY <2>1 DEF AttemptInv
    <3>1. attempts > RetryCount + faults + crashes
      BY <1>e, <1>f
    <3>2. PICK v \in Workers : pc[v] \in Critical
      BY <1>b, <3>1 DEF AttemptInv
    <3>3. v = w => pc'[w] = pc[w]
      BY <1>b, <1>e, <1>f, <1>1, <3>2 DEF AttemptsBounded
    <3> QED BY <1>d, <3>2, <3>3
  <2>4. VerdictInv'
    BY <1>b, <2>1 DEF VerdictInv, ParsedExcludesFailure
  <2> QED BY <2>2, <2>3, <2>4
<1>2. CASE ClearOutputs(w)
  <2>1. CASE pc[w] = "clear_parsed"
    <3>1. parsed' = None /\ UNCHANGED <<failed, attempts>>
      BY <1>2, <2>1 DEF ClearOutputs
    <3>2. \A v \in Workers : pc[v] \notin Critical
      BY <1>g, <1>h, <2>1, PcClasses
    <3> QED BY <1>b, <1>e, <1>f, <3>1, <3>2
            DEF AttemptsBounded, AttemptInv, VerdictInv, ParsedExcludesFailure
  <2>2. CASE pc[w] = "clear_failed"
    <3>1. failed' = FALSE /\ UNCHANGED <<parsed, attempts>>
      BY <1>2, <2>2 DEF ClearOutputs
    <3>2. parsed = None
      BY <1>a, <2>2 DEF WorkerInv, UnacceptedPc
    <3>3. pc'[w] = "clear_attempts" \/ faults' = faults + 1
      BY <1>2, <1>i, <2>2 DEF ClearOutputs, SyncedOrReturn, Goto, Fault
    <3>4. crashes' = crashes
      BY <1>2 DEF ClearOutputs, budgetVars
    <3> QED BY <1>b, <1>e, <1>f, <3>1, <3>2, <3>3, <3>4
            DEF AttemptsBounded, AttemptInv, VerdictInv, ParsedExcludesFailure
  <2>3. CASE pc[w] = "clear_attempts"
    <3>1. attempts' = 0 /\ UNCHANGED <<parsed, failed>>
      BY <1>2, <2>3 DEF ClearOutputs
    <3> QED BY <1>b, <1>e, <1>f, <3>1
            DEF AttemptsBounded, AttemptInv, VerdictInv, ParsedExcludesFailure
  <2> QED BY <1>2, <2>1, <2>2, <2>3 DEF ClearOutputs
<1>3. CASE Unmark(w)
  <2>1. \/ attempts' = 0 /\ UNCHANGED <<parsed, failed>>
        \/ attempts = 0 /\ attempts' = 0 /\ failed' = FALSE /\ UNCHANGED parsed
    BY <1>a, <1>3 DEF Unmark, LifeInv
  <2> QED BY <1>b, <1>e, <1>f, <2>1
          DEF AttemptsBounded, AttemptInv, VerdictInv, ParsedExcludesFailure
<1>4. CASE Accept(w)
  <2>1. UNCHANGED <<attempts, failed>>
    BY <1>4 DEF Accept
  <2>2. attempts = 0 /\ ~failed
    BY <1>a, <1>4 DEF Accept, LifeInv, WorkerInv, OpenPc, CommitSection
  <2> QED BY <1>b, <1>e, <1>f, <2>1, <2>2
          DEF AttemptsBounded, AttemptInv, VerdictInv, ParsedExcludesFailure
<1>5. CASE CountFailure(w)
  <2>1. /\ attempts' = attempts + 1 /\ UNCHANGED <<parsed, failed, crashes>>
        /\ attempts' > RetryCount => pc'[w] = "exhaust" \/ faults' = faults + 1
    BY <1>5, <1>i DEF CountFailure, Exhausted, Synced, Goto, Fault, budgetVars
  <2>2. Current(w) /\ ~failed /\ (parsed = None \/ SyncFaults)
    BY <1>a, <1>5 DEF CountFailure, LifeInv, WorkerInv, OpenPc, FailSection
  <2>3. \A v \in Workers : pc[v] \notin Critical
    BY <1>g, <1>h, <1>5, PcClasses DEF CountFailure
  <2>4. attempts <= RetryCount + faults + crashes
    BY <1>b, <1>e, <2>2, <2>3 DEF AttemptInv
  <2> QED BY <1>e, <1>f, <2>1, <2>2, <2>4
          DEF AttemptsBounded, AttemptInv, VerdictInv, ParsedExcludesFailure
<1>6. CASE Quarantine(w)
  <2>1. failed' = TRUE /\ UNCHANGED <<parsed, attempts>>
    BY <1>6 DEF Quarantine
  <2>2. parsed = None \/ SyncFaults
    BY <1>a, <1>6 DEF Quarantine, LifeInv, WorkerInv, FailSection
  <2> QED BY <1>b, <1>e, <1>f, <2>1, <2>2
          DEF AttemptsBounded, AttemptInv, VerdictInv, ParsedExcludesFailure
<1>7. CASE Invalidate(w)
  <2>1. parsed' = None /\ UNCHANGED <<failed, attempts>>
    BY <1>7 DEF Invalidate
  <2>2. \A v \in Workers : pc[v] \notin Critical
    BY <1>g, <1>h, <1>7, PcClasses DEF Invalidate
  <2> QED BY <1>b, <1>e, <1>f, <2>1, <2>2
          DEF AttemptsBounded, AttemptInv, VerdictInv, ParsedExcludesFailure
<1> QED BY <1>c, <1>1, <1>2, <1>3, <1>4, <1>5, <1>6, <1>7 DEF Effect

\* JobInv holds before any process has claimed the job.
LEMMA JobInvInit == Init => JobInv
<1> SUFFICES ASSUME Init PROVE JobInv
  OBVIOUS
<1>1. Inv
  BY InvInit
<1>2. \A w \in Workers : LifeInv(w)
  BY DEF Init, LifeInv, OpenPc, ForcedPc, PreAccept, WorkPc, CommitSection, FailSection,
         ReparseSection
<1>3. AttemptsBounded /\ AttemptInv /\ VerdictInv
  BY ParserClaimAssumption DEF Init, AttemptsBounded, AttemptInv, VerdictInv, ParsedExcludesFailure
<1> QED BY <1>1, <1>2, <1>3 DEF JobInv, Init

\* Every step keeps JobInv.
LEMMA JobInvStep == JobInv /\ [Next]_vars => JobInv'
<1> SUFFICES ASSUME JobInv, [Next]_vars PROVE JobInv'
  OBVIOUS
<1>0. Inv /\ TypeOK /\ Inv' /\ TypeOK'
  BY InvStep DEF JobInv, Inv
<1>1. ASSUME NEW w \in Workers, LockStep(w) \/ FreeStep(w) \/ ErrorStep(w) PROVE JobInv'
  <2>1. \A v \in Workers : LifeInv(v)'
    <3> SUFFICES ASSUME NEW v \in Workers PROVE LifeInv(v)'
      OBVIOUS
    <3>1. CASE v = w BY <1>1, <3>1, LifeOwn
    <3>2. CASE v # w BY <1>1, <3>2, LifeOthers
    <3> QED BY <3>1, <3>2
  <2>2. accepted' \subseteq 1..issued'
    <3>1. ControlMove(w) /\ Effect(w)
      BY <1>0, <1>1, StepMoves, StepEffect DEF Inv
    <3>2. accepted' \subseteq accepted \cup {token[w]} /\ (pc[w] \in Holding \/ accepted' = accepted)
      BY <1>0, <3>1, VerdictPoints
    <3>3. pc[w] \in Holding => token[w] \in 1..issued
      BY <1>0 DEF Inv, TokenInv
    <3>4. issued \in Nat /\ issued' \in {issued, issued + 1} /\ accepted \subseteq 1..issued
      BY <1>0, <3>1 DEF ControlMove, TypeOK, JobInv
    <3> QED BY <3>2, <3>3, <3>4
  <2>3. AttemptsBounded' /\ AttemptInv' /\ VerdictInv'
    BY <1>1, VerdictStep
  <2> QED BY <1>0, <2>1, <2>2, <2>3 DEF JobInv
<1>2. CASE ExpireOrphan \/ ExpireLive \/ UNCHANGED vars
  <2>1. /\ UNCHANGED <<processing, stateVars, pc, token, force, issued, crashes>>
        /\ faults' \in {faults, faults + 1} /\ faults \in Nat
    BY <1>0, <1>2 DEF ExpireOrphan, ExpireLive, Fault, vars, claimVars, localVars, budgetVars, TypeOK
  <2>2. \A w \in Workers : LifeInv(w)'
    BY <2>1 DEF JobInv, LifeInv, Current, stateVars
  <2>3. AttemptsBounded' /\ AttemptInv' /\ VerdictInv'
    <3>1. RetryCount \in Nat /\ attempts \in Nat /\ crashes \in Nat
      BY <1>0, ParserClaimAssumption DEF TypeOK
    <3>2. UNCHANGED <<parsed, attempts, failed, pc, crashes>> /\ faults' \in {faults, faults + 1}
      BY <2>1 DEF stateVars
    <3>3. AttemptsBounded /\ AttemptInv /\ VerdictInv /\ faults \in Nat
      BY <2>1 DEF JobInv
    <3>4. CASE faults' = faults
      BY <3>2, <3>3, <3>4 DEF AttemptsBounded, AttemptInv, VerdictInv, ParsedExcludesFailure
    <3>5. CASE faults' = faults + 1
      <4>1. AttemptsBounded' /\ AttemptInv'
        BY <3>1, <3>2, <3>3, <3>5 DEF AttemptsBounded, AttemptInv
      <4> QED BY <3>2, <3>3, <4>1 DEF VerdictInv, ParsedExcludesFailure
    <3> QED BY <3>2, <3>4, <3>5
  <2> QED BY <1>0, <2>1, <2>2, <2>3 DEF JobInv, stateVars
<1> QED BY <1>1, <1>2 DEF Next

\* The strengthened invariant holds throughout.
THEOREM JobInvariance == Spec => []JobInv
BY JobInvInit, JobInvStep, PTL DEF Spec

\* However often a worker dies or fails between the counter and the quarantine marker,
\* the recorded attempts exceed the allowance by no more than that.
THEOREM AttemptsSafe == Spec => []AttemptsBounded
<1>1. JobInv => AttemptsBounded
  BY DEF JobInv
<1> QED BY <1>1, JobInvariance, PTL

\* Where no directory sync raises after its rename, an accepted job never carries
\* failure state, whatever the interleaving of commits, failures and forced claims.
THEOREM VerdictsExclude == ASSUME ~SyncFaults PROVE Spec => []ParsedExcludesFailure
<1>1. JobInv => ParsedExcludesFailure
  BY DEF JobInv, VerdictInv
<1> QED BY <1>1, JobInvariance, PTL

\* A worker's step is a step of the job's life, or none.
LEMMA WorkerStepRefines ==
  ASSUME JobInv, NEW w \in Workers, LockStep(w) \/ FreeStep(w) \/ ErrorStep(w)
  PROVE  [Life!Next]_Life!vars
<1> DEFINE Orders == {v \in Workers : force[v]}
<1>a. Inv /\ TypeOK /\ LockInv /\ WorkerInv(w) /\ LifeInv(w)
  BY DEF JobInv, Inv
<1>b. Effect(w)
  BY <1>a, StepEffect
<1>c. pc[w] \in Holding => token[w] \in Token
  <2>1. TokenInv
    BY <1>a DEF Inv
  <2> QED BY <1>a, <2>1, ParserClaimAssumption DEF TokenInv, TypeOK, Token
<1>i. failed \in BOOLEAN
  BY <1>a DEF TypeOK
<1>d. Orders' \in {Orders, Orders \cup {w}, Orders \ {w}}
  <2>1. \A v \in Workers \ {w} : force'[v] = force[v]
    BY <1>a, <1>b DEF Effect, TypeOK
  <2>2. force'[w] \in BOOLEAN
    BY <1>a, <1>b DEF Effect, TypeOK
  <2> QED BY <2>1, <2>2
<1>e. pc[w] \in ForcedPc => w \in Orders
  BY <1>a DEF LifeInv
<1>1. CASE UNCHANGED stateVars
  <2>1. Life!Order(w) \/ UNCHANGED Life!vars
    BY <1>1, <1>d DEF Life!Order, Life!vars, stateVars
  <2> QED BY <2>1 DEF Life!Next
<1>2. CASE ClearOutputs(w)
  <2>1. w \in Orders /\ accepted' = accepted
    BY <1>2, <1>e DEF ClearOutputs, ForcedPc
  <2>2. Orders' \in {Orders, Orders \ {w}}
    BY <1>d, <2>1
  <2>3. Life!Obeyed
    BY <2>1, <2>2 DEF Life!Obeyed
  <2>4. CASE pc[w] = "clear_parsed"
    BY <1>2, <2>1, <2>3, <2>4 DEF ClearOutputs, Life!Next, Life!Undo
  <2>5. CASE pc[w] = "clear_failed"
    BY <1>2, <2>1, <2>3, <2>5 DEF ClearOutputs, Life!Next, Life!Readmit
  <2>6. CASE pc[w] = "clear_attempts"
    <3>1. ~failed
      BY <1>a, <2>6 DEF LifeInv
    <3> QED BY <1>2, <2>1, <2>3, <2>6, <3>1 DEF ClearOutputs, Life!Next, Life!Forgive
  <2> QED BY <1>2, <2>4, <2>5, <2>6 DEF ClearOutputs
<1>3. CASE Unmark(w)
  <2>1. UNCHANGED <<parsed, accepted, force>> /\ ~failed
    BY <1>a, <1>3 DEF Unmark, LifeInv, WorkerInv, OpenPc, CommitSection, localVars
  <2>2. CASE pc[w] = "unmark_attempts"
    BY <1>3, <2>1, <2>2 DEF Unmark, Life!Next, Life!Forgive
  <2>3. CASE pc[w] = "unmark_failed"
    BY <1>3, <1>i, <2>1, <2>3 DEF Unmark, Life!vars
  <2> QED BY <1>3, <2>2, <2>3 DEF Unmark
<1>4. CASE Accept(w)
  <2>1. UNCHANGED <<attempts, failed, force>> /\ parsed' = token[w]
        /\ accepted' = accepted \cup {token[w]}
    BY <1>4 DEF Accept, localVars
  <2>2. ~failed /\ token[w] \notin accepted /\ token[w] # parsed /\ Current(w)
    BY <1>a, <1>4 DEF Accept, LifeInv, WorkerInv, OpenPc, PreAccept, CommitSection
  <2>3. token[w] \in Token
    BY <1>4, <1>c, PcClasses DEF Accept
  <2>4. parsed = None
    BY <1>a, <2>2, <2>3 DEF Inv, ClaimAgreesWithAccepted, Current
  <2>5. Life!Accept(token[w])
    BY <2>1, <2>2, <2>4 DEF Life!Accept
  <2> QED BY <2>3, <2>5 DEF Life!Next
<1>5. CASE CountFailure(w)
  <2>1. attempts' = attempts + 1 /\ UNCHANGED <<parsed, accepted, failed, force>>
    BY <1>5 DEF CountFailure, localVars
  <2>2. parsed = None \/ SyncFaults
    BY <1>a, <1>5 DEF CountFailure, LifeInv, WorkerInv, FailSection
  <2> QED BY <2>1, <2>2 DEF Life!Next, Life!Fail
<1>6. CASE Quarantine(w)
  <2>1. failed' = TRUE /\ UNCHANGED <<parsed, accepted, attempts, force>>
    BY <1>6 DEF Quarantine, localVars
  <2>2. ~failed /\ attempts > RetryCount
    BY <1>a, <1>6 DEF Quarantine, LifeInv, WorkerInv, OpenPc, FailSection
  <2> QED BY <2>1, <2>2 DEF Life!Next, Life!Quarantine
<1>7. CASE Invalidate(w)
  <2>1. parsed' = None /\ UNCHANGED <<accepted, attempts, failed>> /\ w \in Orders
    BY <1>7, <1>e DEF Invalidate, ForcedPc, ReparseSection
  <2>2. Orders' \in {Orders, Orders \ {w}}
    BY <1>d, <2>1
  <2>3. Life!Undo
    BY <2>1, <2>2 DEF Life!Undo, Life!Obeyed
  <2> QED BY <2>3 DEF Life!Next
<1> QED BY <1>b, <1>1, <1>2, <1>3, <1>4, <1>5, <1>6, <1>7 DEF Effect

\* The processes of ParserClaim, their deaths and errors included, implement JobLife:
\* a result is accepted once and given up only on order, a job is quarantined only
\* after RetryCount + 1 failures and readmitted only on order.
THEOREM Refinement == Spec => KeepsJobLife
<1>1. Init => Life!Init
  <2> SUFFICES ASSUME Init PROVE Life!Init
    OBVIOUS
  <2>1. {w \in Workers : force[w]} = {}
    BY DEF Init
  <2> QED BY <2>1 DEF Init, Life!Init
<1>2. JobInv /\ [Next]_vars => [Life!Next]_Life!vars
  <2> SUFFICES ASSUME JobInv, [Next]_vars PROVE [Life!Next]_Life!vars
    OBVIOUS
  <2>1. ASSUME NEW w \in Workers, LockStep(w) \/ FreeStep(w) \/ ErrorStep(w)
        PROVE  [Life!Next]_Life!vars
    BY <2>1, WorkerStepRefines
  <2>2. CASE ExpireOrphan \/ ExpireLive \/ UNCHANGED vars
    BY <2>2 DEF ExpireOrphan, ExpireLive, vars, stateVars, localVars, Life!vars
  <2> QED BY <2>1, <2>2 DEF Next
<1> QED BY <1>1, <1>2, JobInvariance, PTL DEF Spec, Life!Spec, KeepsJobLife

=============================================================================
