------------------------------- MODULE Relay -------------------------------
(***************************************************************************)
(* The dumper process around its connections: the listener with its        *)
(* connection limit, one session task per client, the device lock that all *)
(* sessions queue for, the bounded connection attempts, the teardown of a  *)
(* session, and the shutdown of the server with its two grace periods.     *)
(*                                                                         *)
(* Source: proxy/server.py, proxy/session.py, dumper/main.py (run_dumper), *)
(* capture/recorder.py (wait_for_persistence).                             *)
(*                                                                         *)
(* What the pumps and the recorder do between the start of the pumps and   *)
(* the sealed capture is LiveCapture; here it is the state "forwarding".   *)
(* Tasks of one event loop interleave only where they suspend, and         *)
(* task.cancel() is a request the task meets at its suspension point.      *)
(***************************************************************************)
EXTENDS Integers, Sequences, FiniteSets, SequencesExt

CONSTANTS
  N,               \* bound: client connections, numbered in the order of their arrival
  Limits,          \* values of config.max_connections to explore
  Attempts,        \* config.printer_connect_attempts
  Versions         \* asyncio implementations to explore

Connections == 1..N
None        == 0

ASSUME RelayAssumption ==
  /\ N \in Nat
  /\ Limits \subseteq Nat \ {0}
  /\ Attempts \in Nat \ {0}
  /\ Versions \subseteq {"3.11", "3.12"}

VARIABLES
  asyncio,   \* 3.11, or 3.12.1 and later
  max_connections,
  \* the server
  phase,     \* serving, listener, sessions, cancelling, persistence, stopped
  sessions,  \* ProxyServer._sessions
  tasks,     \* ProxyServer._persistence_tasks
  waited,    \* session tasks that close() waits for
  kept,      \* persistence tasks that close() waits for
  late,      \* sessions accepted after close() looked at _sessions (history)
  \* the device lock
  holder,    \* the session that holds _device_session_lock
  waiters,   \* sessions queued for it
  \* each connection
  pc,        \* where its session is suspended, or how it ended
  cancel,    \* has the session task been asked to cancel, and was the request lost?
  attempt,   \* connection attempts made
  abort,     \* abort_client
  link,      \* its socket to the printer
  client,    \* its socket to the client
  work       \* its live spool worker, once the capture is sealed

settings    == <<asyncio, max_connections>>
serverVars  == <<phase, sessions, tasks, waited, kept, late>>
lockVars    == <<holder, waiters>>
socketVars  == <<link, client>>
sessionVars == <<pc, cancel, attempt, abort>>
vars == <<settings, serverVars, lockVars, sessionVars, socketVars, work>>

Finished == {"ended", "cut"}
Sealed   == {"close_printer", "close_client"} \cup Finished
Socket   == {"none", "open", "closing", "closed"}

\* MAX_CONNECTIONS bounds the session tasks (_accept, _session_done).
TypeOK ==
  /\ asyncio \in Versions /\ max_connections \in Limits
  /\ phase \in {"serving", "listener", "sessions", "cancelling", "persistence", "stopped"}
  /\ sessions \subseteq Connections /\ Cardinality(sessions) <= max_connections
  /\ tasks \subseteq Connections /\ waited \subseteq Connections
  /\ kept \subseteq Connections /\ late \subseteq Connections
  /\ holder \in Connections \cup {None}
  /\ waiters \in Seq(Connections)
  /\ pc \in [Connections -> {"idle", "arriving", "rejected", "queued", "connect", "sleep",
                             "forwarding", "gathering"} \cup Sealed]
  /\ cancel \in [Connections -> {"no", "asked", "lost"}]
  /\ attempt \in [Connections -> 0..Attempts]
  /\ abort \in [Connections -> BOOLEAN]
  /\ link \in [Connections -> Socket] /\ client \in [Connections -> Socket]
  /\ work \in [Connections -> {"none", "running", "stored", "cancelled"}]

Init ==
  /\ asyncio \in Versions /\ max_connections \in Limits
  /\ phase = "serving"
  /\ sessions = {} /\ tasks = {} /\ waited = {} /\ kept = {} /\ late = {}
  /\ holder = None /\ waiters = <<>>
  /\ pc = [c \in Connections |-> "idle"]
  /\ cancel = [c \in Connections |-> "no"]
  /\ attempt = [c \in Connections |-> 0]
  /\ abort = [c \in Connections |-> FALSE]
  /\ link = [c \in Connections |-> "none"] /\ client = [c \in Connections |-> "none"]
  /\ work = [c \in Connections |-> "none"]

Goto(c, l)     == pc' = [pc EXCEPT ![c] = l]
Is(f, c, x)    == f' = [f EXCEPT ![c] = x]
Asked(c)       == cancel[c] = "asked"

-----------------------------------------------------------------------------
(* The listener *)

\* asyncio has accepted the socket and scheduled _accept in a task of its own.
Arrive(c) ==
  /\ phase = "serving" /\ pc[c] = "idle" /\ \A b \in 1..(c - 1) : pc[b] # "idle"
  /\ Goto(c, "arriving") /\ Is(client, c, "open")
  /\ UNCHANGED <<settings, serverVars, lockVars, cancel, attempt, abort, link, work>>

\* Mutant: the limit counts the waiting sessions only.
FullWhenQueued == Len(waiters) >= max_connections

Full == Cardinality(sessions) >= max_connections

\* _accept beyond the limit: the socket is aborted.
Reject(c) ==
  /\ pc[c] = "arriving" /\ Full
  /\ Goto(c, "rejected") /\ Is(client, c, "closed")
  /\ UNCHANGED <<settings, serverVars, lockVars, cancel, attempt, abort, link, work>>

\* _accept: a session task, whose first suspension is the device lock.  A connection
\* that reached asyncio before the listener closed is still accepted during close().
Accept(c) ==
  /\ pc[c] = "arriving" /\ ~Full
  /\ Goto(c, "queued")
  /\ sessions' = sessions \cup {c}
  /\ late' = IF phase \in {"serving", "listener"} THEN late ELSE late \cup {c}
  /\ waiters' = Append(waiters, c)
  /\ UNCHANGED <<settings, phase, tasks, waited, kept, holder, cancel, attempt, abort,
                 socketVars, work>>

\* Mutant: the slot of a session is freed by its persistence task.
SessionDoneWhenStored(c) ==
  /\ pc[c] \in Finished /\ c \in sessions \ tasks
  /\ sessions' = sessions \ {c}
  /\ UNCHANGED <<settings, phase, tasks, waited, kept, late, lockVars, sessionVars, socketVars, work>>

\* _session_done, a callback of the finished task.
SessionDone(c) ==
  /\ pc[c] \in Finished /\ c \in sessions
  /\ sessions' = sessions \ {c}
  /\ UNCHANGED <<settings, phase, tasks, waited, kept, late, lockVars, sessionVars, socketVars, work>>

-----------------------------------------------------------------------------
(* ProxySession.run *)

\* Until 3.11 asyncio.wait_for returns, or raises, what the call it waits for did, even
\* when the task was cancelled in the meantime: the cancellation is lost.
WaitForReturns(c) ==
  /\ Asked(c) => asyncio = "3.11"
  /\ Is(cancel, c, IF Asked(c) THEN "lost" ELSE cancel[c])

\* The lock is released by a session that acquired it (device_lock_acquired).
Release(c) == holder' = IF holder = c THEN None ELSE holder

\* Mutant: the persistence task is not registered.
EndUntracked(c) ==
  /\ Goto(c, "ended") /\ Is(abort, c, FALSE)
  /\ Release(c)
  /\ UNCHANGED tasks

\* The end of the finally clause: the lock is released, then the task that waits for
\* the worker is registered (with no worker running it is done at once).
End(c) ==
  /\ Goto(c, "ended") /\ Is(abort, c, FALSE)
  /\ Release(c)
  /\ tasks' = IF work[c] = "running" THEN tasks \cup {c} ELSE tasks

\* asyncio.Lock is first come, first served.
Acquire(c) ==
  /\ pc[c] = "queued" /\ ~Asked(c)
  /\ holder = None /\ waiters # <<>> /\ Head(waiters) = c
  /\ holder' = c /\ waiters' = Tail(waiters)
  /\ Goto(c, "connect") /\ Is(attempt, c, 1)
  /\ UNCHANGED <<settings, serverVars, cancel, abort, socketVars, work>>

Connected(c) ==
  /\ pc[c] = "connect"
  /\ WaitForReturns(c)
  /\ Goto(c, "forwarding") /\ Is(attempt, c, 0) /\ Is(link, c, "open")
  /\ UNCHANGED <<settings, serverVars, lockVars, abort, client, work>>

ConnectFails(c) ==
  /\ pc[c] = "connect" /\ attempt[c] < Attempts
  /\ WaitForReturns(c)
  /\ Goto(c, "sleep")
  /\ UNCHANGED <<settings, serverVars, lockVars, attempt, abort, socketVars, work>>

RetryDue(c) ==
  /\ pc[c] = "sleep" /\ ~Asked(c)
  /\ Goto(c, "connect") /\ Is(attempt, c, attempt[c] + 1)
  /\ UNCHANGED <<settings, serverVars, lockVars, cancel, abort, socketVars, work>>

\* The last attempt failed: the client is aborted, and nothing suspends any more.
Unreachable(c) ==
  /\ pc[c] = "connect" /\ attempt[c] = Attempts
  /\ WaitForReturns(c)
  /\ Is(client, c, "closed") /\ Is(attempt, c, 0)
  /\ End(c)
  /\ UNCHANGED <<settings, phase, sessions, waited, kept, late, waiters, link, work>>

\* writer.close() on a socket that its peer has reset closes nothing.
CloseSocket(socket, c) == Is(socket, c, IF socket[c] = "open" THEN "closing" ELSE socket[c])

\* Mutant: the lock is released as soon as the capture is sealed.
ClosePrinterUnlocked(c) ==
  /\ Goto(c, "close_printer") /\ CloseSocket(link, c)
  /\ \E w \in {"none", "running"} : Is(work, c, w)
  /\ holder' = None
  /\ UNCHANGED <<settings, serverVars, waiters, attempt, client>>

\* The capture, if any chunk was recorded, is sealed with its worker still running, and
\* the printer's socket is closed.
ClosePrinter(c) ==
  /\ Goto(c, "close_printer") /\ CloseSocket(link, c)
  /\ \E w \in {"none", "running"} : Is(work, c, w)
  /\ UNCHANGED <<settings, serverVars, lockVars, attempt, client>>

\* The pumps have ended; an error towards the client aborts its socket.
StreamsEnd(c) ==
  /\ pc[c] = "forwarding" /\ ~Asked(c)
  /\ \E a \in BOOLEAN : Is(abort, c, a)
  /\ ClosePrinter(c)
  /\ UNCHANGED cancel

\* _close_writer returns when the socket has closed, or after five seconds.
CloseReturns(c, socket) ==
  \/ socket[c] = "closed" /\ WaitForReturns(c)
  \/ socket[c] = "closing" /\ ~Asked(c) /\ UNCHANGED cancel

PrinterClosed(c) ==
  /\ pc[c] = "close_printer" /\ CloseReturns(c, link)
  /\ \/ /\ abort[c]
        /\ Is(client, c, "closed") /\ End(c)
     \/ /\ ~abort[c]
        /\ CloseSocket(client, c) /\ Goto(c, "close_client")
        /\ UNCHANGED <<holder, tasks, abort>>
  /\ UNCHANGED <<settings, phase, sessions, waited, kept, late, waiters, attempt, link, work>>

ClientClosed(c) ==
  /\ pc[c] = "close_client" /\ CloseReturns(c, client)
  /\ End(c)
  /\ UNCHANGED <<settings, phase, sessions, waited, kept, late, waiters, attempt, socketVars, work>>

\* CancelledError between the pumps' start and their end: the finally clause, or the
\* gather it finds there, cancels the pumps and waits for them.  Until 3.11 a pump may
\* lose its cancellation to the end of its drain.
CancelledInForwarding(c) ==
  /\ pc[c] = "forwarding" /\ Asked(c)
  /\ Goto(c, "gathering")
  /\ \E x \in {"no"} \cup (IF asyncio = "3.11" THEN {"lost"} ELSE {}) : Is(cancel, c, x)
  /\ UNCHANGED <<settings, serverVars, lockVars, attempt, abort, socketVars, work>>

PumpsEnd(c) == pc[c] = "gathering" /\ ClosePrinter(c) /\ UNCHANGED <<cancel, abort>>

PumpsCancelled(c) == cancel[c] = "no" /\ PumpsEnd(c)

\* CancelledError before the pumps' start.
CancelledBeforeForwarding(c) ==
  /\ pc[c] \in {"queued", "connect", "sleep"} /\ Asked(c)
  /\ Is(cancel, c, "no")
  /\ waiters' = RemoveFirst(waiters, c)
  /\ Is(attempt, c, 0)
  /\ CloseSocket(client, c) /\ Goto(c, "close_client")
  /\ UNCHANGED <<settings, serverVars, holder, abort, link, work>>

\* CancelledError while the finally clause closes a socket: the lock is released and
\* the rest, the client's socket and the persistence task included, is skipped.
CancelledInTeardown(c) ==
  /\ Asked(c) /\ Is(cancel, c, "no")
  /\ pc[c] \in {"close_printer", "close_client"}
  /\ Goto(c, "cut") /\ Is(abort, c, FALSE)
  /\ Release(c)
  /\ UNCHANGED <<settings, serverVars, waiters, attempt, socketVars, work>>

-----------------------------------------------------------------------------
(* run_dumper and ProxyServer.close *)

\* SIGTERM or SIGINT: the listener is closed.
Stop ==
  /\ phase = "serving"
  /\ phase' = "listener"
  /\ UNCHANGED <<settings, sessions, tasks, waited, kept, late, lockVars, sessionVars, socketVars, work>>

\* close() looks at its persistence tasks, once; with none it returns.
LookAtTasks ==
  /\ kept' = tasks
  /\ phase' = IF tasks = {} THEN "stopped" ELSE "persistence"

\* wait_closed: from 3.12.1 on it waits for the clients' sockets too.  Then close()
\* looks at its session tasks, once; it suspends only if there are some.
ListenerClosed ==
  /\ phase = "listener"
  /\ asyncio = "3.12" => \A c \in Connections : client[c] \in {"none", "closed"}
  /\ waited' = sessions
  /\ \/ sessions = {} /\ LookAtTasks
     \/ sessions # {} /\ phase' = "sessions" /\ UNCHANGED kept
  /\ UNCHANGED <<settings, sessions, tasks, late, lockVars, sessionVars, socketVars, work>>

Unfinished == {c \in waited : pc[c] \notin Finished}

\* Mutant: the grace period ends and nobody is cancelled.
GraceEndsQuietly ==
  /\ phase = "sessions" /\ Unfinished # {}
  /\ phase' = "cancelling"
  /\ UNCHANGED <<settings, sessions, tasks, waited, kept, late, lockVars, sessionVars, socketVars, work>>

\* SHUTDOWN_GRACE_SEC is over: what is still running is cancelled.
GraceEnds ==
  /\ phase = "sessions" /\ Unfinished # {}
  /\ phase' = "cancelling"
  /\ cancel' = [c \in Connections |-> IF c \in Unfinished THEN "asked" ELSE cancel[c]]
  /\ UNCHANGED <<settings, sessions, tasks, waited, kept, late, lockVars, pc, attempt, abort,
                 socketVars, work>>

SessionsEnded ==
  /\ phase \in {"sessions", "cancelling"} /\ Unfinished = {}
  /\ LookAtTasks
  /\ UNCHANGED <<settings, sessions, tasks, waited, late, lockVars, sessionVars, socketVars, work>>

\* The persistence tasks end within a second grace period, or are cancelled, and
\* their workers with them.
PersistenceEnded ==
  /\ phase = "persistence"
  /\ phase' = "stopped"
  /\ work' = [c \in Connections |-> IF c \in kept /\ work[c] = "running" THEN "cancelled"
                                    ELSE work[c]]
  /\ UNCHANGED <<settings, sessions, tasks, waited, kept, late, lockVars, sessionVars, socketVars>>

-----------------------------------------------------------------------------
(* The peers and the disk *)

\* A pump that lost its cancellation ends when its peer does.
PumpLeft(c) == cancel[c] = "lost" /\ PumpsEnd(c)

\* A peer resets the connection, or it closes as the session asked.  When it closes
\* after the session has given up on it does not matter.
PrinterGone(c) ==
  /\ pc[c] \in {"forwarding", "gathering", "close_printer"} /\ link[c] \in {"open", "closing"}
  /\ Is(link, c, "closed")
  /\ UNCHANGED <<settings, serverVars, lockVars, sessionVars, client, work>>

ClientGone(c) ==
  /\ client[c] \in {"open", "closing"} /\ Is(client, c, "closed")
  /\ UNCHANGED <<settings, serverVars, lockVars, sessionVars, link, work>>

\* The worker has published its capture or closed it as incomplete; the task that
\* waits for it, if there is one, is done (wait_for_persistence, _persistence_done).
Store(c) ==
  /\ work[c] = "running" /\ pc[c] \in Sealed
  /\ Is(work, c, "stored")
  /\ tasks' = tasks \ {c}
  /\ UNCHANGED <<settings, phase, sessions, waited, kept, late, lockVars, sessionVars, socketVars>>

-----------------------------------------------------------------------------
\* What the event loop runs by itself: ready tasks, callbacks and timeouts.
Task(c) ==
  \/ Reject(c) \/ Accept(c) \/ Acquire(c)
  \/ Connected(c) \/ ConnectFails(c) \/ RetryDue(c) \/ Unreachable(c)
  \/ PrinterClosed(c) \/ ClientClosed(c)
  \/ CancelledBeforeForwarding(c) \/ CancelledInForwarding(c) \/ PumpsCancelled(c)
  \/ CancelledInTeardown(c)

Close == ListenerClosed \/ GraceEnds \/ SessionsEnded \/ PersistenceEnded

Peer(c) == Arrive(c) \/ StreamsEnd(c) \/ PumpLeft(c) \/ PrinterGone(c) \/ ClientGone(c)

Running == phase # "stopped"

Terminated == ~Running /\ UNCHANGED vars

Next ==
  \/ Running /\ (\E c \in Connections : Task(c) \/ SessionDone(c) \/ Peer(c) \/ Store(c))
  \/ Running /\ (Stop \/ Close)
  \/ Terminated

Spec == Init /\ [][Next]_vars

\* The event loop runs what is ready and its timers fire: connection attempts, retry
\* delays, socket closing and both grace periods are bounded.  Peers need not send,
\* close or read, the disk need not answer and nobody need stop the service.
Fairness ==
  /\ \A c \in Connections : WF_vars(Running /\ Task(c)) /\ WF_vars(Running /\ SessionDone(c))
  /\ WF_vars(Running /\ Close)

FairSpec == Spec /\ Fairness

-----------------------------------------------------------------------------
(* Properties *)

\* At most one session that has not ended has a socket to the printer, although
\* sessions are cancelled in the queue, while connecting and while closing, and
\* sockets outlive their closing (the device lock of run, device_lock_acquired).
OneConversation ==
  LET Conversing(c) == link[c] \in {"open", "closing"} /\ pc[c] \notin Finished
  IN  \A c, d \in Connections : Conversing(c) /\ Conversing(d) => c = d

\* close() returns before a capture is stored only after its grace period ("ProxyServer
\* still waits for these tasks during its bounded graceful shutdown"), with two
\* exceptions: a session that it cancelled in its teardown, which skips run's last
\* lines, and one that _accept added after close() looked at _sessions.
PersistenceAwaited ==
  phase = "stopped" =>
    \A c \in Connections : work[c] = "running" => pc[c] = "cut" \/ c \in late

\* Clients and printer do not keep a session, or a socket of theirs, open for ever.
PeersLeave ==
  \A c \in Connections :
    []<>(pc[c] \notin {"forwarding", "gathering"}) /\ []<>(client[c] # "closing")

\* Then every accepted session gets its turn and gives its MAX_CONNECTIONS slot back,
\* whether the printer answers or not and even if the disk never does (the queue for
\* the device lock; "a slow or hung disk cannot consume MAX_CONNECTIONS slots").
EverySessionEnds ==
  PeersLeave => \A c \in Connections : c \in sessions ~> c \notin sessions \/ phase = "stopped"

\* A session that lost its cancellation to a connection made or refused at the same
\* moment, or a pump of it that lost its own to the end of a drain.
CancellationLost ==
  /\ phase = "cancelling"
  /\ \E c \in waited : pc[c] \in {"forwarding", "gathering"} /\ cancel[c] = "lost"

\* A stop request ends the service: with 3.11 whatever the peers do, unless a
\* cancellation was lost; in any case once they leave (close and its grace periods).
ShutdownEnds ==
  /\ phase = "listener" /\ asyncio = "3.11" ~> phase = "stopped" \/ CancellationLost
  /\ PeersLeave => (phase = "listener" ~> phase = "stopped")

-----------------------------------------------------------------------------
(* The inductive invariant behind OneConversation and PersistenceAwaited.  *)

\* A session from its first connection attempt to the end of its conversation with the
\* printer holds the device lock.
HolderInv ==
  \A c \in Connections :
    \/ pc[c] \in {"connect", "sleep", "forwarding", "gathering", "close_printer"}
    \/ link[c] \in {"open", "closing"} /\ pc[c] \notin Finished
    => holder = c

\* A session sleeps only while it has an attempt left.
RetryInv == \A c \in Connections : pc[c] = "sleep" => attempt[c] < Attempts

\* A running session is in _sessions, only a sealed capture has a worker to wait for,
\* and a session that ended with its worker running left a task that waits for it.
TaskInv ==
  \A c \in Connections :
    /\ pc[c] \notin {"idle", "arriving", "rejected"} \cup Finished => c \in sessions
    /\ work[c] = "running" => pc[c] \in Sealed
    /\ work[c] = "running" /\ pc[c] = "ended" => c \in tasks

\* close() has looked at every session but the late ones, has seen those it waited for
\* end, and keeps the persistence tasks they left.
ShutdownInv ==
  /\ phase \in {"sessions", "cancelling", "persistence", "stopped"} => sessions \subseteq waited \cup late
  /\ phase \in {"persistence", "stopped"} => Unfinished = {}
  /\ phase = "persistence" =>
       \A c \in Connections : work[c] = "running" => pc[c] = "cut" \/ c \in late \cup kept

Inv == TypeOK /\ RetryInv /\ HolderInv /\ TaskInv /\ ShutdownInv /\ PersistenceAwaited
=============================================================================
