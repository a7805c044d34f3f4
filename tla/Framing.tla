------------------------------ MODULE Framing ------------------------------
(***************************************************************************)
(* The incremental framer of one direction of the RCH byte stream:         *)
(*                                                                         *)
(*     STX | AA | LLL | class | DATA | seq | BCC | ETX        or       ACK *)
(*                                                                         *)
(* Source: rch/framing.py, RCHStreamFramer and frame_stream.               *)
(*                                                                         *)
(* Two framers get the same stream: "whole" in one feed, as frame_stream   *)
(* does, and "split" in chunks that end anywhere.  A framer's buffer is    *)
(* the part of the stream between the bytes consumed and the bytes fed.    *)
(* A byte is its value.  Left out: the text and the raw preview of an      *)
(* issue, the frame and ACK totals, and retain_history=False, which        *)
(* nothing in the program asks for.                                        *)
(***************************************************************************)
EXTENDS Integers, Sequences, FiniteSetsExt

CONSTANTS
  Streams,       \* byte streams to frame
  MaxData,       \* max_data_length
  MaxBuffer,     \* max_buffer_bytes
  MaxEvents,     \* max_events
  MaxIssues,     \* max_issues
  BccTexts(_)    \* texts accepted as the BCC of the bytes from STX through seq

Header   == 6             \* STX AA LLL
Overhead == Header + 5    \* class seq BCC ETX

ASSUME FramingAssumption ==
  /\ Streams \subseteq Seq(0..255)
  /\ MaxData \in 0..999 /\ MaxBuffer \in Nat /\ MaxBuffer >= MaxData + Overhead
  /\ MaxEvents \in Nat \ {0} /\ MaxIssues \in Nat \ {0}

STX == 2
ETX == 3
ACK == 6
Digits == 48..57

Framers == {"whole", "split"}

VARIABLES
  stream,
  fed,        \* _bytes_seen
  at,         \* _buffer_offset: bytes consumed
  events,     \* _events
  issues,     \* _issues
  truncated,  \* _events_truncated
  omitted,    \* _omitted_issue_count
  finished    \* _finished

vars == <<stream, fed, at, events, issues, truncated, omitted, finished>>

Event == [kind : {"ack", "frame"}, offset : Nat, len : Nat, bcc_valid : BOOLEAN]
Code  == {"unframed_bytes", "malformed_header", "oversize_frame", "invalid_terminator",
          "invalid_bcc", "truncated_frame", "event_limit_exceeded", "issue_limit_exceeded"}
Issue == [code : Code, offset : Nat, len : Nat]

TypeOK ==
  /\ stream \in Seq(0..255)
  /\ fed \in [Framers -> 0..Len(stream)]
  /\ at \in [Framers -> 0..Len(stream)] /\ \A k \in Framers : at[k] <= fed[k]
  /\ events \in [Framers -> Seq(Event)] /\ \A k \in Framers : Len(events[k]) <= MaxEvents
  /\ issues \in [Framers -> Seq(Issue)] /\ \A k \in Framers : Len(issues[k]) <= MaxIssues
  /\ truncated \in [Framers -> BOOLEAN]
  /\ omitted \in [Framers -> Nat]
  /\ finished \in [Framers -> BOOLEAN]

Init ==
  /\ stream \in Streams
  /\ fed = [k \in Framers |-> 0] /\ at = [k \in Framers |-> 0]
  /\ events = [k \in Framers |-> <<>>] /\ issues = [k \in Framers |-> <<>>]
  /\ truncated = [k \in Framers |-> FALSE] /\ omitted = [k \in Framers |-> 0]
  /\ finished = [k \in Framers |-> FALSE]

-----------------------------------------------------------------------------
(* The buffer *)

Available(k) == fed[k] - at[k]
Byte(k, i)   == stream[at[k] + 1 + i]
Digit(k, i)  == Byte(k, i) \in Digits

\* Mutant: one byte too many.
FirstOrBeyond(k, candidates) ==
  IF candidates = {} THEN Available(k) + 1 ELSE Min(candidates)

\* The first of the candidates, or everything there is.
FirstOrAll(k, candidates) == IF candidates = {} THEN Available(k) ELSE Min(candidates)

\* _next_control(1)
NextControl(k) == FirstOrAll(k, {i \in 1..(Available(k) - 1) : Byte(k, i) \in {STX, ACK}})

\* Mutant: an incomplete STX at the end of the buffer is given up.
NextPlausibleForgettingTail(k) ==
  FirstOrAll(k, {i \in 1..(Available(k) - 1) :
                   \/ Byte(k, i) = ACK
                   \/ /\ Byte(k, i) = STX /\ i + Header <= Available(k)
                      /\ \A j \in (i + 1)..(i + Header - 1) : Digit(k, j)})

\* _next_plausible_control(1): an ACK, or an STX with a decimal header; failing that,
\* the last STX too close to the end to tell.
NextPlausible(k) ==
  LET sure == {i \in 1..(Available(k) - 1) :
                 \/ Byte(k, i) = ACK
                 \/ /\ Byte(k, i) = STX /\ i + Header <= Available(k)
                    /\ \A j \in (i + 1)..(i + Header - 1) : Digit(k, j)}
      tail == {i \in 1..(Available(k) - 1) :
                 i > Available(k) - Header /\ Byte(k, i) = STX}
  IN  IF sure = {} /\ tail # {} THEN Max(tail) ELSE FirstOrAll(k, sure)

AtFrame(k)     == Available(k) > 0 /\ Byte(k, 0) = STX
HasHeader(k)   == AtFrame(k) /\ Available(k) >= Header
HeaderValid(k) == HasHeader(k) /\ \A i \in 1..(Header - 1) : Digit(k, i)
DataLength(k)  == LET d(i) == Byte(k, i) - 48 IN 100 * d(3) + 10 * d(4) + d(5)
LengthValid(k) == HeaderValid(k) /\ DataLength(k) <= MaxData

\* Mutant: the frame is taken to be one byte longer than it is.
SizeWithSpare(k) == DataLength(k) + Overhead + 1

Size(k)        == DataLength(k) + Overhead
HasFrame(k)    == LengthValid(k) /\ Available(k) >= Size(k)
Terminated(k)  == Byte(k, Size(k) - 1) = ETX

Bytes(k, from, to) == [i \in 1..(to - from) |-> Byte(k, from + i - 1)]
BccValid(k) ==
  LET bcc == Size(k) - 3
  IN  Bytes(k, bcc, Size(k) - 1) \in BccTexts(Bytes(k, 0, bcc))

\* _process has nothing more to do before the next feed.
Waiting(k) ==
  \/ Available(k) = 0
  \/ AtFrame(k) /\ ~HasHeader(k)
  \/ LengthValid(k) /\ ~HasFrame(k)

-----------------------------------------------------------------------------
(* Results, within their limits *)

Consume(k, n) == at' = [at EXCEPT ![k] = @ + n]

\* _append_issue for each of the given issues.
AppendIssues(k, new) ==
  LET all == issues[k] \o new
  IN  /\ issues' = [issues EXCEPT ![k] =
                      SubSeq(all, 1, IF Len(all) < MaxIssues THEN Len(all) ELSE MaxIssues)]
      /\ omitted' = [omitted EXCEPT ![k] =
                       @ + (IF Len(all) > MaxIssues THEN Len(all) - MaxIssues ELSE 0)]

AnIssue(k, code, n) == <<[code |-> code, offset |-> at[k], len |-> n]>>

\* _issue
Reject(k, code, n) ==
  /\ AppendIssues(k, AnIssue(k, code, n))
  /\ Consume(k, n)
  /\ UNCHANGED <<stream, fed, events, truncated, finished>>

\* _append_event, or _note_event_limit; with the issues that go with it.
Emit(k, kind, n, valid, new) ==
  \/ /\ Len(events[k]) < MaxEvents
     /\ events' = [events EXCEPT ![k] =
          Append(@, [kind |-> kind, offset |-> at[k], len |-> n, bcc_valid |-> valid])]
     /\ AppendIssues(k, new)
     /\ UNCHANGED truncated
  \/ /\ Len(events[k]) >= MaxEvents
     /\ truncated' = [truncated EXCEPT ![k] = TRUE]
     /\ AppendIssues(k, (IF truncated[k] THEN <<>> ELSE AnIssue(k, "event_limit_exceeded", 0))
                          \o new)
     /\ UNCHANGED events

-----------------------------------------------------------------------------
(* feed, and the branches of _process *)

Running(k) == ~finished[k] /\ (k = "split" => finished["whole"])

\* One slice of a chunk, never more than the buffer has room for.  The fail-safe for a
\* full buffer is left out: BufferHasRoom says it is never needed.
Feed(k) ==
  /\ Running(k) /\ Waiting(k)
  /\ LET room == Min({MaxBuffer - Available(k), Len(stream) - fed[k]})
     IN  \E n \in IF k = "whole" THEN {room} ELSE 1..room :
           n > 0 /\ fed' = [fed EXCEPT ![k] = @ + n]
  /\ UNCHANGED <<stream, at, events, issues, truncated, omitted, finished>>

\* With no room for events a run of ACKs goes at once.
TakeAck(k) ==
  /\ Running(k) /\ Available(k) > 0 /\ Byte(k, 0) = ACK
  /\ Emit(k, "ack", 1, TRUE, <<>>)
  /\ Consume(k, IF Len(events[k]) < MaxEvents THEN 1
                ELSE FirstOrAll(k, {i \in 1..(Available(k) - 1) : Byte(k, i) # ACK}))
  /\ UNCHANGED <<stream, fed, finished>>

\* Mutant: bytes outside frames are dropped without an issue.
SkipUnframedSilently(k) ==
  /\ Running(k) /\ Available(k) > 0 /\ Byte(k, 0) \notin {STX, ACK}
  /\ Consume(k, NextControl(k))
  /\ UNCHANGED <<stream, fed, events, issues, truncated, omitted, finished>>

SkipUnframed(k) ==
  /\ Running(k) /\ Available(k) > 0 /\ Byte(k, 0) \notin {STX, ACK}
  /\ Reject(k, "unframed_bytes", NextControl(k))

RejectHeader(k) ==
  /\ Running(k) /\ HasHeader(k) /\ ~HeaderValid(k)
  /\ Reject(k, "malformed_header", NextPlausible(k))

RejectLength(k) ==
  /\ Running(k) /\ HeaderValid(k) /\ ~LengthValid(k)
  /\ Reject(k, "oversize_frame", NextControl(k))

\* Mutant: the issue spans the frame that was expected, not the bytes skipped.
RejectTerminatorWholeFrame(k) ==
  /\ Running(k) /\ HasFrame(k) /\ ~Terminated(k)
  /\ AppendIssues(k, AnIssue(k, "invalid_terminator", Size(k)))
  /\ Consume(k, NextControl(k))
  /\ UNCHANGED <<stream, fed, events, truncated, finished>>

RejectTerminator(k) ==
  /\ Running(k) /\ HasFrame(k) /\ ~Terminated(k)
  /\ Reject(k, "invalid_terminator", NextControl(k))

\* A frame with a wrong BCC is an event and an issue.
TakeFrame(k) ==
  /\ Running(k) /\ HasFrame(k) /\ Terminated(k)
  /\ Emit(k, "frame", Size(k), BccValid(k),
          IF BccValid(k) THEN <<>> ELSE AnIssue(k, "invalid_bcc", Size(k)))
  /\ Consume(k, Size(k))
  /\ UNCHANGED <<stream, fed, finished>>

\* finish: what is left is a truncated frame; the last issue may have to make room for
\* the fact that there were more.
Finish(k) ==
  /\ Running(k) /\ Waiting(k) /\ fed[k] = Len(stream)
  /\ finished' = [finished EXCEPT ![k] = TRUE]
  /\ LET left  == IF Available(k) = 0 THEN <<>>
                  ELSE AnIssue(k, "truncated_frame", Available(k))
         all   == issues[k] \o left
         extra == omitted[k] + (IF Len(all) > MaxIssues THEN 1 ELSE 0)
         last  == [code |-> "issue_limit_exceeded", offset |-> fed[k], len |-> 0]
     IN  /\ omitted' = [omitted EXCEPT ![k] = extra]
         /\ issues' = [issues EXCEPT ![k] =
                         IF extra = 0 THEN all ELSE Append(SubSeq(all, 1, MaxIssues - 1), last)]
  /\ Consume(k, Available(k))
  /\ UNCHANGED <<stream, fed, events, truncated>>

Step(k) ==
  \/ Feed(k) \/ TakeAck(k) \/ SkipUnframed(k) \/ RejectHeader(k) \/ RejectLength(k)
  \/ RejectTerminator(k) \/ TakeFrame(k) \/ Finish(k)

Next == \E k \in Framers : Step(k)

Spec == Init /\ [][Next]_vars

-----------------------------------------------------------------------------
(* Properties *)

\* FramingResult.valid
Valid(k) ==
  /\ \E i \in DOMAIN events[k] : events[k][i].kind = "frame"
  /\ issues[k] = <<>> /\ ~truncated[k] /\ omitted[k] = 0
  /\ \A i \in DOMAIN events[k] : events[k][i].bcc_valid

Covers(span, b) == span.offset <= b /\ b < span.offset + span.len

EventsAt(k, b) == {i \in DOMAIN events[k] : Covers(events[k][i], b)}
IssuesAt(k, b) ==
  {i \in DOMAIN issues[k] : issues[k][i].code # "invalid_bcc" /\ Covers(issues[k][i], b)}

\* Every byte consumed lies in exactly one event or one issue, whatever garbage the
\* stream holds and wherever it was cut; in at most one when a limit was hit.  A
\* resynchronisation neither reads a byte twice nor skips one silently (_process).
BytesAccountedOnce ==
  \A k \in Framers : \A b \in 0..(at[k] - 1) :
    LET n == Cardinality(EventsAt(k, b)) + Cardinality(IssuesAt(k, b))
    IN  n <= 1 /\ (~truncated[k] /\ omitted[k] = 0 => n = 1)

\* A result that calls itself valid accounts for every byte with retained ACKs and
\* frames: nothing was skipped, cut off or dropped by a limit (FramingResult.valid).
ValidIsComplete ==
  \A k \in Framers :
    finished[k] /\ Valid(k) => \A b \in 0..(Len(stream) - 1) : EventsAt(k, b) # {}

\* A framer that waits for bytes has room for one more: the fail-safe
\* buffer_limit_exceeded of feed is never needed ("Constructor validation guarantees
\* that a syntactically possible frame fits").
BufferHasRoom == \A k \in Framers : Waiting(k) => Available(k) < MaxBuffer

Compared == \A k \in Framers : finished[k] /\ ~truncated[k]

Frames(k) == {e \in {events[k][i] : i \in DOMAIN events[k]} : e.kind = "frame"}

InOrder(ev) == \A i, j \in DOMAIN ev : i < j => ev[i].offset < ev[j].offset

\* The frames decoded, in the order of the stream, do not depend on how it was cut into
\* chunks, even after malformed headers, wrong lengths and missing terminators, and an ACK that one
\* segmentation sees and another does not is among the last bytes of the stream, fewer
\* than a header has (feed; _next_plausible_control against the truncated header of
\* _process).  docs/ARCHITECTURE.md promises no difference at all.
OnlyTailAcksDiffer ==
  Compared =>
    /\ \A k \in Framers : InOrder(events[k])
    /\ Frames("whole") = Frames("split")
    /\ \A k, other \in Framers : \A i \in DOMAIN events[k] :
         \/ \E j \in DOMAIN events[other] : events[other][j] = events[k][i]
         \/ events[k][i].kind = "ack" /\ events[k][i].offset > Len(stream) - Header

-----------------------------------------------------------------------------
(* The inductive invariant *)

\* Events and issues lie before the cursor and share no byte; an invalid_bcc issue spans
\* the frame it is about.
Disjoint(ev, iss, n) ==
  /\ \A i \in DOMAIN ev : ev[i].offset + ev[i].len <= n
  /\ \A i \in DOMAIN iss : iss[i].offset + iss[i].len <= n
  /\ \A b \in 0..(n - 1) :
       /\ \A i, j \in DOMAIN ev : Covers(ev[i], b) /\ Covers(ev[j], b) => i = j
       /\ \A i, j \in {m \in DOMAIN iss : iss[m].code # "invalid_bcc"} :
            Covers(iss[i], b) /\ Covers(iss[j], b) => i = j
       /\ \A i \in DOMAIN ev : \A j \in {m \in DOMAIN iss : iss[m].code # "invalid_bcc"} :
            ~(Covers(ev[i], b) /\ Covers(iss[j], b))

AllCovered(ev, iss, n) ==
  \A b \in 0..(n - 1) :
    \/ \E i \in DOMAIN ev : Covers(ev[i], b)
    \/ \E i \in DOMAIN iss : iss[i].code # "invalid_bcc" /\ Covers(iss[i], b)

SpanInv ==
  \A k \in Framers :
    /\ Disjoint(events[k], issues[k], at[k])
    /\ ~truncated[k] /\ omitted[k] = 0 => AllCovered(events[k], issues[k], at[k])

LimitInv  == \A k \in Framers : omitted[k] > 0 => Len(issues[k]) = MaxIssues
FinishInv == \A k \in Framers : finished[k] => at[k] = Len(stream)

Inv == TypeOK /\ SpanInv /\ LimitInv /\ FinishInv

(* What a stream holds at a position, wherever it is cut *)

\* An ACK, or an STX with a decimal header, before the last five bytes.
Firm(s, p) ==
  /\ p + Header <= Len(s)
  /\ \/ s[p + 1] = ACK
     \/ s[p + 1] = STX /\ \A i \in 1..(Header - 1) : s[p + 1 + i] \in Digits

LengthAt(s, p) == LET d(i) == s[p + 1 + i] - 48 IN 100 * d(3) + 10 * d(4) + d(5)
SizeAt(s, p)   == LengthAt(s, p) + Overhead

\* A frame is announced, and the stream holds it or ends within it.
Announced(s, p) == Firm(s, p) /\ s[p + 1] = STX /\ LengthAt(s, p) <= MaxData
Complete(s, p)  == /\ Announced(s, p) /\ p + SizeAt(s, p) <= Len(s)
                   /\ s[p + 1 + (SizeAt(s, p) - 1)] = ETX
CutShort(s, p)  == Announced(s, p) /\ p + SizeAt(s, p) > Len(s)

BccAt(s, p) ==
  LET bcc == SizeAt(s, p) - 3
      Text(from, to) == [i \in 1..(to - from) |-> s[p + 1 + (from + i - 1)]]
  IN  Text(bcc, SizeAt(s, p) - 1) \in BccTexts(Text(0, bcc))

\* The event at a position.
Reading(s, p) ==
  IF s[p + 1] = ACK
  THEN [kind |-> "ack", offset |-> p, len |-> 1, bcc_valid |-> TRUE]
  ELSE [kind |-> "frame", offset |-> p, len |-> SizeAt(s, p), bcc_valid |-> BccAt(s, p)]

Genuine(s, ev) ==
  \A i \in DOMAIN ev :
    /\ ev[i] = Reading(s, ev[i].offset)
    /\ s[ev[i].offset + 1] = ACK \/ Complete(s, ev[i].offset)

\* What no segmentation may miss.
Due(s, p) == Firm(s, p) /\ (s[p + 1] = ACK \/ Complete(s, p) \/ CutShort(s, p))

\* It is an event or lies within one, or the stream ended within a frame that began
\* before it.
NothingMissed(s, ev, n, done) ==
  \A p \in 0..(n - 1) : Due(s, p) =>
    \/ \E i \in DOMAIN ev : Covers(ev[i], p)
    \/ /\ done
       /\ \E w \in 0..p : CutShort(s, w) /\ \A i \in DOMAIN ev : ev[i].offset + ev[i].len <= w

Faithful(s, ev, n, done) ==
  Genuine(s, ev) /\ InOrder(ev) /\ NothingMissed(s, ev, n, done)

TrailInv ==
  \A k \in Framers : ~truncated[k] => Faithful(stream, events[k], at[k], finished[k])
=============================================================================
