---------------------------- MODULE RelayProofs ----------------------------
(***************************************************************************)
(* One conversation with the printer at a time, the limit on sessions, and *)
(* what close() waits for: for any number of connections and attempts.     *)
(***************************************************************************)
EXTENDS Relay, FiniteSetTheorems, SequenceTheorems, WellFoundedInduction, TLAPS

Below == {ss \in Nat \X Nat : ss[1] < ss[2]}

\* A nonempty set of positions has a first one.
LEMMA FirstPosition ==
  ASSUME NEW n \in Nat, NEW I \in SUBSET (1..n), I # {} PROVE Min(I) \in I
<1>1. IsWellFoundedOn(Below, Nat) BY NatLessThanWellFounded, Zenon DEF OpToRel, Below
<1>2. I \subseteq Nat OBVIOUS
<1>3. \E x \in I : \A y \in I : ~(<<y, x>> \in Below) BY <1>1, <1>2, WFMin, Zenon
<1>4. PICK x \in I : \A y \in I : ~(<<y, x>> \in Below) BY <1>3
<1>5. ASSUME NEW y \in I PROVE x <= y
  <2>1. x \in Nat /\ y \in Nat /\ <<y, x>> \notin Below BY <1>2, <1>4
  <2> QED BY <2>1 DEF Below
<1> QED BY <1>5 DEF Min

\* A session leaves the queue for the device lock and the others keep their places in it.
LEMMA LeaveQueue ==
  ASSUME NEW S, NEW s \in Seq(S), NEW e PROVE RemoveFirst(s, e) \in Seq(S)
<1>1. CASE \E i \in 1..Len(s) : s[i] = e
  <2> DEFINE I == {i \in 1..Len(s) : s[i] = e}
  <2>1. I # {} /\ I \in SUBSET (1..Len(s)) /\ Len(s) \in Nat BY <1>1
  <2>2. Min(I) \in I BY <2>1, FirstPosition
  <2>3. Min(I) \in 1..Len(s) BY <2>2
  <2>4. RemoveFirst(s, e) = SubSeq(s, 1, Min(I) - 1) \o SubSeq(s, Min(I) + 1, Len(s))
    BY <1>1, <2>1 DEF RemoveFirst, RemoveAt, SelectInSeq
  <2> HIDE DEF I
  <2>5. SubSeq(s, 1, Min(I) - 1) \in Seq(S) BY <2>3
  <2>6. SubSeq(s, Min(I) + 1, Len(s)) \in Seq(S) BY <2>3
  <2> QED BY <2>4, <2>5, <2>6, ConcatProperties
<1>2. CASE ~\E i \in 1..Len(s) : s[i] = e BY <1>2 DEF RemoveFirst
<1> QED BY <1>1, <1>2

LEMMA NoConnection == None \notin Connections
BY RelayAssumption DEF None, Connections

\* The sessions stay within max_connections: one more is added only below the limit.
LEMMA SessionsBounded ==
  ASSUME TypeOK, NEW c \in Connections, (sessions' = sessions \cup {c} /\ ~Full) \/ sessions' = sessions \ {c},
         max_connections' = max_connections
  PROVE  sessions' \subseteq Connections /\ Cardinality(sessions') <= max_connections
<1> USE DEF TypeOK
<1>1. IsFiniteSet(Connections) BY FS_Interval, RelayAssumption DEF Connections
<1>2. IsFiniteSet(sessions) BY <1>1, FS_Subset
<1>3. Cardinality(sessions) \in Nat BY <1>2, FS_CardinalityType
<1>4. max_connections \in Nat BY RelayAssumption
<1>5. CASE sessions' = sessions \cup {c} /\ ~Full
  <2>0. Cardinality(sessions \cup {c}) = IF c \in sessions THEN Cardinality(sessions)
                                         ELSE Cardinality(sessions) + 1
    BY <1>2, FS_AddElement
  <2>1. Cardinality(sessions \cup {c}) <= Cardinality(sessions) + 1 BY <1>3, <2>0
  <2>2. Cardinality(sessions \cup {c}) \in Nat
    BY <1>2, FS_AddElement, FS_CardinalityType
  <2> QED BY <1>3, <1>4, <1>5, <2>1, <2>2 DEF Full
<1>6. CASE sessions' = sessions \ {c}
  <2>1. Cardinality(sessions \ {c}) <= Cardinality(sessions) BY <1>2, FS_Subset
  <2>2. Cardinality(sessions \ {c}) \in Nat BY <1>2, FS_Subset, FS_CardinalityType
  <2> QED BY <1>3, <1>4, <1>6, <2>1, <2>2
<1> QED BY <1>5, <1>6

\* Every step keeps the variables in their types.
LEMMA TypeStep == ASSUME TypeOK, RetryInv, Next PROVE TypeOK'
<1> USE DEF TypeOK, vars, settings, serverVars, lockVars, socketVars, sessionVars, Goto, Is, Sealed,
            Finished, Socket
<1> 0 \in 0..Attempts /\ 1 \in 0..Attempts BY RelayAssumption
<1>1. ASSUME NEW c \in Connections, Task(c) \/ SessionDone(c) \/ Peer(c) \/ Store(c)
      PROVE  TypeOK'
  <2>1. CASE Reject(c) BY <2>1 DEF Reject
  <2>2. CASE Accept(c)
    <3>1. sessions' \subseteq Connections /\ Cardinality(sessions') <= max_connections
      BY <2>2, SessionsBounded DEF Accept
    <3>2. waiters' \in Seq(Connections) BY <2>2 DEF Accept
    <3> QED BY <2>2, <3>1, <3>2 DEF Accept
  <2>3. CASE Acquire(c)
    <3>1. waiters' \in Seq(Connections) BY <2>3 DEF Acquire
    <3> QED BY <2>3, <3>1 DEF Acquire
  <2>4. CASE Connected(c) BY <2>4 DEF Connected, WaitForReturns
  <2>5. CASE ConnectFails(c) BY <2>5 DEF ConnectFails, WaitForReturns
  <2>6. CASE RetryDue(c)
    <3>1. attempt[c] + 1 \in 0..Attempts BY <2>6, RelayAssumption DEF RetryDue, RetryInv
    <3> QED BY <2>6, <3>1 DEF RetryDue
  <2>7. CASE Unreachable(c) BY <2>7 DEF Unreachable, End, Release, WaitForReturns
  <2>8. CASE PrinterClosed(c)
    BY <2>8 DEF PrinterClosed, End, Release, CloseReturns, WaitForReturns, CloseSocket
  <2>9. CASE ClientClosed(c)
    BY <2>9 DEF ClientClosed, End, Release, CloseReturns, WaitForReturns
  <2>10. CASE CancelledBeforeForwarding(c)
    <3>1. waiters' \in Seq(Connections) BY <2>10, LeaveQueue DEF CancelledBeforeForwarding
    <3>2. /\ cancel' = [cancel EXCEPT ![c] = "no"] /\ attempt' = [attempt EXCEPT ![c] = 0]
          /\ client' = [client EXCEPT ![c] = IF client[c] = "open" THEN "closing" ELSE client[c]]
          /\ pc' = [pc EXCEPT ![c] = "close_client"]
          /\ UNCHANGED <<abort, settings, serverVars, holder, link, work>>
      BY <2>10 DEF CancelledBeforeForwarding, CloseSocket
    <3> QED BY <3>1, <3>2
  <2>11. CASE CancelledInTeardown(c) BY <2>11 DEF CancelledInTeardown, Release
  <2>12. CASE SessionDone(c)
    <3>1. sessions' \subseteq Connections /\ Cardinality(sessions') <= max_connections
      BY <2>12, SessionsBounded DEF SessionDone
    <3> QED BY <2>12, <3>1 DEF SessionDone
  <2>13. CASE Arrive(c) BY <2>13 DEF Arrive
  <2>14. CASE StreamsEnd(c) BY <2>14 DEF StreamsEnd, ClosePrinter, CloseSocket
  <2>15. CASE PrinterGone(c) BY <2>15 DEF PrinterGone
  <2>16. CASE ClientGone(c) BY <2>16 DEF ClientGone
  <2>17. CASE Store(c) BY <2>17 DEF Store
  <2>18. CASE CancelledInForwarding(c) BY <2>18 DEF CancelledInForwarding
  <2>19. CASE PumpsEnd(c) BY <2>19 DEF PumpsEnd, ClosePrinter, CloseSocket
  <2> QED
    BY <1>1, <2>1, <2>2, <2>3, <2>4, <2>5, <2>6, <2>7, <2>8, <2>9, <2>10, <2>11, <2>12, <2>13, <2>14,
       <2>15, <2>16, <2>17, <2>18, <2>19 DEF Task, Peer, PumpsCancelled, PumpLeft
<1>2. CASE Stop BY <1>2 DEF Stop
<1>3. CASE ListenerClosed BY <1>3 DEF ListenerClosed, LookAtTasks
<1>4. CASE GraceEnds BY <1>4 DEF GraceEnds, Unfinished
<1>5. CASE SessionsEnded BY <1>5 DEF SessionsEnded, LookAtTasks
<1>6. CASE PersistenceEnded BY <1>6 DEF PersistenceEnded
<1>7. CASE Terminated BY <1>7 DEF Terminated
<1> QED BY <1>1, <1>2, <1>3, <1>4, <1>5, <1>6, <1>7 DEF Next, Close

\* A session goes to sleep only after an attempt that was not its last.
LEMMA RetryStep == ASSUME TypeOK, RetryInv, Next PROVE RetryInv'
<1> USE DEF TypeOK, settings, serverVars, lockVars, socketVars, sessionVars, Goto, Is,
            RetryInv
<1>1. ASSUME NEW c \in Connections, Task(c) \/ SessionDone(c) \/ Peer(c) \/ Store(c)
      PROVE  RetryInv'
  <2>1. CASE Reject(c) BY <2>1 DEF Reject
  <2>2. CASE Accept(c) BY <2>2 DEF Accept
  <2>3. CASE Acquire(c) BY <2>3 DEF Acquire
  <2>4. CASE Connected(c) BY <2>4 DEF Connected
  <2>5. CASE ConnectFails(c) BY <2>5 DEF ConnectFails
  <2>6. CASE RetryDue(c) BY <2>6 DEF RetryDue
  <2>7. CASE Unreachable(c) BY <2>7 DEF Unreachable, End, Release
  <2>8. CASE PrinterClosed(c) BY <2>8 DEF PrinterClosed, End, Release, CloseSocket
  <2>9. CASE ClientClosed(c) BY <2>9 DEF ClientClosed, End, Release
  <2>10. CASE CancelledBeforeForwarding(c) BY <2>10 DEF CancelledBeforeForwarding, CloseSocket
  <2>11. CASE CancelledInTeardown(c) BY <2>11 DEF CancelledInTeardown, Release
  <2>12. CASE SessionDone(c) BY <2>12 DEF SessionDone
  <2>13. CASE Arrive(c) BY <2>13 DEF Arrive
  <2>14. CASE StreamsEnd(c) BY <2>14 DEF StreamsEnd, ClosePrinter, CloseSocket
  <2>15. CASE PrinterGone(c) BY <2>15 DEF PrinterGone
  <2>16. CASE ClientGone(c) BY <2>16 DEF ClientGone
  <2>17. CASE Store(c) BY <2>17 DEF Store
  <2>18. CASE CancelledInForwarding(c) BY <2>18 DEF CancelledInForwarding
  <2>19. CASE PumpsEnd(c) BY <2>19 DEF PumpsEnd, ClosePrinter, CloseSocket
  <2> QED
    BY <1>1, <2>1, <2>2, <2>3, <2>4, <2>5, <2>6, <2>7, <2>8, <2>9, <2>10, <2>11, <2>12, <2>13, <2>14,
       <2>15, <2>16, <2>17, <2>18, <2>19 DEF Task, Peer, PumpsCancelled, PumpLeft
<1>2. CASE Stop BY <1>2 DEF Stop
<1>3. CASE ListenerClosed BY <1>3 DEF ListenerClosed, LookAtTasks
<1>4. CASE GraceEnds BY <1>4 DEF GraceEnds, Unfinished
<1>5. CASE SessionsEnded BY <1>5 DEF SessionsEnded, LookAtTasks
<1>6. CASE PersistenceEnded BY <1>6 DEF PersistenceEnded
<1>7. CASE Terminated BY <1>7 DEF Terminated, vars
<1> QED BY <1>1, <1>2, <1>3, <1>4, <1>5, <1>6, <1>7 DEF Next, Close

\* The device lock passes from a session only when its conversation is over.
LEMMA HolderStep == ASSUME TypeOK, HolderInv, Next PROVE HolderInv'
<1> USE DEF TypeOK, settings, serverVars, lockVars, socketVars, sessionVars, Goto, Is,
            HolderInv, Finished, Socket
<1> USE NoConnection
<1>1. ASSUME NEW c \in Connections, Task(c) \/ SessionDone(c) \/ Peer(c) \/ Store(c)
      PROVE  HolderInv'
  <2>1. CASE Reject(c) BY <2>1 DEF Reject
  <2>2. CASE Accept(c) BY <2>2 DEF Accept
  <2>3. CASE Acquire(c) BY <2>3 DEF Acquire
  <2>4. CASE Connected(c) BY <2>4 DEF Connected
  <2>5. CASE ConnectFails(c) BY <2>5 DEF ConnectFails
  <2>6. CASE RetryDue(c) BY <2>6 DEF RetryDue
  <2>7. CASE Unreachable(c) BY <2>7 DEF Unreachable, End, Release
  <2>8. CASE PrinterClosed(c) BY <2>8 DEF PrinterClosed, End, Release, CloseSocket
  <2>9. CASE ClientClosed(c) BY <2>9 DEF ClientClosed, End, Release
  <2>10. CASE CancelledBeforeForwarding(c) BY <2>10 DEF CancelledBeforeForwarding, CloseSocket
  <2>11. CASE CancelledInTeardown(c) BY <2>11 DEF CancelledInTeardown, Release
  <2>12. CASE SessionDone(c) BY <2>12 DEF SessionDone
  <2>13. CASE Arrive(c) BY <2>13 DEF Arrive
  <2>14. CASE StreamsEnd(c) BY <2>14 DEF StreamsEnd, ClosePrinter, CloseSocket
  <2>15. CASE PrinterGone(c) BY <2>15 DEF PrinterGone
  <2>16. CASE ClientGone(c) BY <2>16 DEF ClientGone
  <2>17. CASE Store(c) BY <2>17 DEF Store
  <2>18. CASE CancelledInForwarding(c) BY <2>18 DEF CancelledInForwarding
  <2>19. CASE PumpsEnd(c) BY <2>19 DEF PumpsEnd, ClosePrinter, CloseSocket
  <2> QED
    BY <1>1, <2>1, <2>2, <2>3, <2>4, <2>5, <2>6, <2>7, <2>8, <2>9, <2>10, <2>11, <2>12, <2>13, <2>14,
       <2>15, <2>16, <2>17, <2>18, <2>19 DEF Task, Peer, PumpsCancelled, PumpLeft
<1>2. CASE Stop BY <1>2 DEF Stop
<1>3. CASE ListenerClosed BY <1>3 DEF ListenerClosed, LookAtTasks
<1>4. CASE GraceEnds BY <1>4 DEF GraceEnds, Unfinished
<1>5. CASE SessionsEnded BY <1>5 DEF SessionsEnded, LookAtTasks
<1>6. CASE PersistenceEnded BY <1>6 DEF PersistenceEnded
<1>7. CASE Terminated BY <1>7 DEF Terminated, vars
<1> QED BY <1>1, <1>2, <1>3, <1>4, <1>5, <1>6, <1>7 DEF Next, Close

\* A worker starts with the seal of its capture, and End leaves a task for it.
LEMMA TaskStep == ASSUME TypeOK, TaskInv, Next PROVE TaskInv'
<1> USE DEF TypeOK, settings, serverVars, lockVars, socketVars, sessionVars, Goto, Is,
            TaskInv, Finished, Sealed
<1>1. ASSUME NEW c \in Connections, Task(c) \/ SessionDone(c) \/ Peer(c) \/ Store(c)
      PROVE  TaskInv'
  <2>1. CASE Reject(c) BY <2>1 DEF Reject
  <2>2. CASE Accept(c) BY <2>2 DEF Accept
  <2>3. CASE Acquire(c) BY <2>3 DEF Acquire
  <2>4. CASE Connected(c) BY <2>4 DEF Connected
  <2>5. CASE ConnectFails(c) BY <2>5 DEF ConnectFails
  <2>6. CASE RetryDue(c) BY <2>6 DEF RetryDue
  <2>7. CASE Unreachable(c) BY <2>7 DEF Unreachable, End, Release
  <2>8. CASE PrinterClosed(c) BY <2>8 DEF PrinterClosed, End, Release, CloseSocket
  <2>9. CASE ClientClosed(c) BY <2>9 DEF ClientClosed, End, Release
  <2>10. CASE CancelledBeforeForwarding(c) BY <2>10 DEF CancelledBeforeForwarding, CloseSocket
  <2>11. CASE CancelledInTeardown(c) BY <2>11 DEF CancelledInTeardown, Release
  <2>12. CASE SessionDone(c) BY <2>12 DEF SessionDone
  <2>13. CASE Arrive(c) BY <2>13 DEF Arrive
  <2>14. CASE StreamsEnd(c) BY <2>14 DEF StreamsEnd, ClosePrinter, CloseSocket
  <2>15. CASE PrinterGone(c) BY <2>15 DEF PrinterGone
  <2>16. CASE ClientGone(c) BY <2>16 DEF ClientGone
  <2>17. CASE Store(c) BY <2>17 DEF Store
  <2>18. CASE CancelledInForwarding(c) BY <2>18 DEF CancelledInForwarding
  <2>19. CASE PumpsEnd(c) BY <2>19 DEF PumpsEnd, ClosePrinter, CloseSocket
  <2> QED
    BY <1>1, <2>1, <2>2, <2>3, <2>4, <2>5, <2>6, <2>7, <2>8, <2>9, <2>10, <2>11, <2>12, <2>13, <2>14,
       <2>15, <2>16, <2>17, <2>18, <2>19 DEF Task, Peer, PumpsCancelled, PumpLeft
<1>2. CASE Stop BY <1>2 DEF Stop
<1>3. CASE ListenerClosed BY <1>3 DEF ListenerClosed, LookAtTasks
<1>4. CASE GraceEnds BY <1>4 DEF GraceEnds, Unfinished
<1>5. CASE SessionsEnded BY <1>5 DEF SessionsEnded, LookAtTasks
<1>6. CASE PersistenceEnded BY <1>6 DEF PersistenceEnded
<1>7. CASE Terminated BY <1>7 DEF Terminated, vars
<1> QED BY <1>1, <1>2, <1>3, <1>4, <1>5, <1>6, <1>7 DEF Next, Close

\* close() looks at its tasks when the sessions it waited for have ended: a worker that is
\* still running then has a task, or was cut off, or belongs to a late session.
LEMMA ShutdownStep == ASSUME TypeOK, TaskInv, ShutdownInv, PersistenceAwaited, Next PROVE ShutdownInv' /\ PersistenceAwaited'
<1> USE DEF TypeOK, settings, serverVars, lockVars, socketVars, sessionVars, Goto, Is,
            ShutdownInv, PersistenceAwaited, TaskInv, Finished, Sealed, Unfinished
<1>0. CASE ~Running
  BY <1>0 DEF Running, Next, Terminated, vars
<1> SUFFICES ASSUME Running PROVE ShutdownInv' /\ PersistenceAwaited'
  BY <1>0
<1> USE DEF Running
<1>1. ASSUME NEW c \in Connections, Task(c) \/ SessionDone(c) \/ Peer(c) \/ Store(c)
      PROVE  ShutdownInv' /\ PersistenceAwaited'
  <2>1. CASE Reject(c) BY <2>1 DEF Reject
  <2>2. CASE Accept(c) BY <2>2 DEF Accept
  <2>3. CASE Acquire(c) BY <2>3 DEF Acquire
  <2>4. CASE Connected(c) BY <2>4 DEF Connected
  <2>5. CASE ConnectFails(c) BY <2>5 DEF ConnectFails
  <2>6. CASE RetryDue(c) BY <2>6 DEF RetryDue
  <2>7. CASE Unreachable(c) BY <2>7 DEF Unreachable, End, Release
  <2>8. CASE PrinterClosed(c) BY <2>8 DEF PrinterClosed, End, Release, CloseSocket
  <2>9. CASE ClientClosed(c) BY <2>9 DEF ClientClosed, End, Release
  <2>10. CASE CancelledBeforeForwarding(c) BY <2>10 DEF CancelledBeforeForwarding, CloseSocket
  <2>11. CASE CancelledInTeardown(c) BY <2>11 DEF CancelledInTeardown, Release
  <2>12. CASE SessionDone(c) BY <2>12 DEF SessionDone
  <2>13. CASE Arrive(c) BY <2>13 DEF Arrive
  <2>14. CASE StreamsEnd(c) BY <2>14 DEF StreamsEnd, ClosePrinter, CloseSocket
  <2>15. CASE PrinterGone(c) BY <2>15 DEF PrinterGone
  <2>16. CASE ClientGone(c) BY <2>16 DEF ClientGone
  <2>17. CASE Store(c) BY <2>17 DEF Store
  <2>18. CASE CancelledInForwarding(c) BY <2>18 DEF CancelledInForwarding
  <2>19. CASE PumpsEnd(c) BY <2>19 DEF PumpsEnd, ClosePrinter, CloseSocket
  <2> QED
    BY <1>1, <2>1, <2>2, <2>3, <2>4, <2>5, <2>6, <2>7, <2>8, <2>9, <2>10, <2>11, <2>12, <2>13, <2>14,
       <2>15, <2>16, <2>17, <2>18, <2>19 DEF Task, Peer, PumpsCancelled, PumpLeft
<1>2. CASE Stop BY <1>2 DEF Stop
<1>3. CASE ListenerClosed BY <1>3 DEF ListenerClosed, LookAtTasks
<1>4. CASE GraceEnds BY <1>4 DEF GraceEnds, Unfinished
<1>5. CASE SessionsEnded BY <1>5 DEF SessionsEnded, LookAtTasks
<1>6. CASE PersistenceEnded BY <1>6 DEF PersistenceEnded
<1>7. CASE Terminated BY <1>7 DEF Terminated, vars
<1> QED BY <1>1, <1>2, <1>3, <1>4, <1>5, <1>6, <1>7 DEF Next, Close


\* Init establishes the invariant.
LEMMA InvInit == ASSUME Init PROVE Inv
<1> USE RelayAssumption DEF Init
<1>1. Cardinality({}) <= max_connections BY FS_EmptySet
<1>2. TypeOK BY <1>1, EmptySeq DEF TypeOK, Sealed, Finished, Socket
<1> QED
  BY <1>2 DEF Inv, RetryInv, HolderInv, TaskInv, ShutdownInv, PersistenceAwaited, Unfinished, Finished

\* Inv is inductive.
LEMMA InvStep == ASSUME Inv, [Next]_vars PROVE Inv'
<1>1. CASE Next
  BY <1>1, TypeStep, RetryStep, HolderStep, TaskStep, ShutdownStep DEF Inv
<1>2. CASE UNCHANGED vars
  BY <1>2 DEF vars, settings, serverVars, lockVars, socketVars, sessionVars, Inv, TypeOK, RetryInv,
     HolderInv, TaskInv, ShutdownInv, PersistenceAwaited, Unfinished
<1> QED BY <1>1, <1>2

\* Every reachable state of the dumper satisfies Inv.
THEOREM Invariance == Spec => []Inv
BY InvInit, InvStep, PTL DEF Spec

\* _accept and _session_done keep the sessions within MAX_CONNECTIONS, and every variable
\* in its type, whatever is rejected, cancelled or late.
THEOREM SessionLimit == Spec => []TypeOK
<1>1. Inv => TypeOK BY DEF Inv
<1> QED BY <1>1, Invariance, PTL

\* The printer never talks to two sessions at once: run holds the device lock from its
\* first attempt to the end of the conversation, on every path out of it.
THEOREM ConversationsExclude == Spec => []OneConversation
<1>1. Inv => OneConversation BY DEF Inv, HolderInv, OneConversation
<1> QED BY <1>1, Invariance, PTL

\* close() returns before a capture is stored only after its grace period, but for the
\* sessions it cut off in their teardown and those it never looked at.
THEOREM ShutdownWaits == Spec => []PersistenceAwaited
<1>1. Inv => PersistenceAwaited BY DEF Inv
<1> QED BY <1>1, Invariance, PTL
=============================================================================
