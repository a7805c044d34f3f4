-------------------------- MODULE DocumentAssembly --------------------------
(***************************************************************************)
(* The reconstruction of printed documents from the framed request and     *)
(* response streams of one job.                                            *)
(*                                                                         *)
(* Source: rch/receipt_parser.py.                                          *)
(*                                                                         *)
(* The till and the printer hold a conversation: the request at position p *)
(* carries sequence number p mod Modulus and gets one answer.  The capture  *)
(* may lack frames of either direction or hold damaged ones.  The parser   *)
(* sees only what was captured; a frame remembers its position so that the *)
(* properties can compare the documents with the conversation.             *)
(*                                                                         *)
(* A command is the class the parser's expressions give it; an amount is a *)
(* number.  Left out: the wording of lines, order, currency and reference  *)
(* metadata, and sequence characters that are not digits.                  *)
(***************************************************************************)
EXTENDS Integers, Sequences, SequencesExt, FiniteSetsExt

CONSTANTS
  None,           \* no builder, no result
  Conversations,  \* sequences of [cmd, val, sale]
  Limits,         \* records [documents, fields, messages, issues]
  Earlier,        \* issue codes that exist before assembly: byte limit and framing
  Modulus,        \* sequence numbers, 10 in the code
  MaxFaults,      \* faults of one capture, bound of the model
  Gaps,           \* numbers of response frames lost in a row, bound of the model
  Unacknowledged  \* numbers of requests without an ACK, bound of the model

-----------------------------------------------------------------------------
(* Commands *)

Controls == {"query", "close", "control"}   \* <</?s, <</? or <</?digit, other <</?
Plain    == {"plain", "copia", "preconto", "portata", "coperti"}
Printed  == {"mitem", "mtotal", "mtotals", "mpayment", "mchange", "mchanges", "mtax"}
Lines    == Plain \cup Printed              \* ="/(...)
Items    == {"item", "itemq"}               \* =R, without and with a quantity
Commands == Controls \cup Lines \cup Items \cup
            {"=K", "=o", "text", "total", "display", "unknown"}

Conversation == Seq([cmd : Commands, val : Nat, sale : Nat])

\* Printed amounts in a management line.
AmountsIn(cmd) ==
  IF cmd \in {"mtotals", "mchanges", "mtax"} THEN 2 ELSE IF cmd \in Printed THEN 1 ELSE 0

LimitCodes == {"analysis_byte_limit_exceeded", "event_limit_exceeded", "issue_limit_exceeded",
               "document_limit_exceeded", "semantic_field_limit_exceeded",
               "message_limit_exceeded", "result_issue_limit_exceeded"}
Codes == LimitCodes \cup
         {"unframed_bytes", "incomplete_document", "missing_open_boundary",
          "missing_commercial_start", "missing_ack_candidate",
          "missing_response_frame_candidate", "response_sequence_mismatch",
          "unmatched_response_frame", "unmatched_ack"}

\* frame_ids, the recorded lines, items and totals (each with its frame), how many
\* payments and taxes, and which amount of its line the change is; the state of
\* DocumentAssemblyState.
Builder == [kind : {"commerciale", "gestionale"},
            state : {"commercial_body", "commercial_payment", "commercial_postlude",
                     "management_body", "complete", "incomplete"},
            frames : Seq(Nat), issues : Seq(Codes),
            lines : Seq(Nat), items : Seq([frame : Nat, val : Nat]),
            totals : Seq([frame : Nat, val : Int]), settled : Nat,
            change : {"none", "last", "earlier"},
            seenTotal : BOOLEAN, number : Nat, copyOf : Nat,
            subtype : {"", "COMMERCIALE", "COPIA", "COMANDA", "PRECONTO", "GENERICO"}]

ASSUME AssemblyAssumption ==
  /\ Modulus \in Nat /\ Modulus > 2
  /\ MaxFaults \in Nat /\ Gaps \subseteq Nat \ {0} /\ Unacknowledged \subseteq Nat
  /\ Limits \subseteq [documents : Nat \ {0}, fields : Nat \ {0},
                       messages : Nat \ {0}, issues : Nat \ {0}]
  /\ Conversations \subseteq Conversation /\ Earlier \subseteq Seq(Codes)
  /\ None \notin Builder

\* How a till talks (docs/PARSER_STATE_MACHINE.md): sales follow one another, and
\* what a sale prints stands behind a command that opens it and before the last
\* command that ends it, "=o" for a management document and a close for a receipt.
Orderly(c) ==
  /\ \A p, q \in 1..Len(c) : p < q => c[p].sale <= c[q].sale
  /\ \A p \in 1..Len(c) : c[p].cmd \in Lines \cup Items \cup {"total"} =>
        \E o, e \in 1..Len(c) :
           /\ c[o].sale = c[p].sale /\ c[e].sale = c[p].sale /\ o < p /\ p < e
           /\ c[o].cmd \in {"=K", "=o"}
           /\ c[e].cmd = IF c[p].cmd \in Lines THEN "=o" ELSE "close"
           /\ \A q \in 1..Len(c) : q > e /\ c[q].sale = c[p].sale => c[q].cmd \notin {"close", "=o"}

ASSUME TillAssumption == \A c \in Conversations : Orderly(c)

VARIABLES
  conv,       \* the conversation
  limit,      \* the limits of this parse
  request,    \* request_framing.frames: [pos, ok]
  response,   \* response_framing.frames: [pos, ok]
  acks,       \* number of standalone ACKs captured
  next,       \* frames of request already assembled
  active,     \* the builder, None when there is none
  pending,    \* pending_start, 0 for None
  documents,
  omitting,   \* document_limit_reported
  used,       \* semantic_budget.used
  crossed,    \* semantic_budget.issue is set
  issues,
  phase,      \* "assemble", "correlate", "attach", "report", "done"
  attached,   \* documents whose counter was looked for
  result      \* [issues, messages]

inputs == <<conv, limit, request>>
budget == <<used, crossed>>
answers == <<response, acks>>
vars == <<inputs, answers, next, active, pending, documents, omitting, budget, issues,
          phase, attached, result>>

Cmd(k)   == conv[request[k].pos].cmd
Val(k)   == conv[request[k].pos].val
Sale(k)  == conv[request[k].pos].sale

\* A frame of either stream: its position in the conversation, and whether it is valid.
Captured == [pos : 1..Len(conv), ok : BOOLEAN]

TypeOK ==
  /\ conv \in Conversations /\ limit \in Limits
  /\ request \in Seq(Captured) /\ response \in Seq(Captured) /\ acks \in Nat
  /\ next \in 0..Len(request)
  /\ active = None \/ active \in Builder
  /\ pending \in 0..Len(request)
  /\ documents \in Seq(Builder) /\ Len(documents) <= limit.documents
  /\ omitting \in BOOLEAN /\ crossed \in BOOLEAN
  /\ used \in 0..limit.fields
  /\ issues \in Seq(Codes)
  /\ phase \in {"assemble", "correlate", "attach", "report", "done"}
  /\ attached \in 0..Len(documents)
  /\ phase = "done" => /\ result.issues \in Seq(Codes) /\ Len(result.issues) <= limit.issues
                       /\ result.messages \in 0..limit.messages

\* The k-th smallest number in S, and the elements of s at the places in S.
Rank(S, i)   == Cardinality({j \in S : j <= i})
Nth(S, k)    == CHOOSE i \in S : Rank(S, i) = k
Picked(s, S) == [k \in 1..Cardinality(S) |-> s[Nth(S, k)]]

\* A capture without the positions in lost, the ones in bad damaged.
Capture(c, lost, bad) ==
  Picked([p \in 1..Len(c) |-> [pos |-> p, ok |-> p \notin bad]], (1..Len(c)) \ lost)

Init ==
  /\ conv \in Conversations /\ limit \in Limits
  /\ \E hit \in [1..MaxFaults -> 0..Len(conv)] :   \* position 0 stands for no fault
        \E bad \in SUBSET {hit[i] : i \in 1..MaxFaults} :
           request = Capture(conv, {hit[i] : i \in 1..MaxFaults} \ bad, bad)
  /\ issues \in Earlier
  /\ response = <<>> /\ acks = 0 /\ next = 0 /\ active = None /\ pending = 0
  /\ documents = <<>> /\ omitting = FALSE /\ used = 0 /\ crossed = FALSE
  /\ phase = "assemble" /\ attached = 0 /\ result = None

-----------------------------------------------------------------------------
(* _SemanticBudget.reserve *)

\* Mutant: the limit is only tested before the reservation.
FitsUnlessFull(u, n) == u < limit.fields

Fits(u, n)    == u + n <= limit.fields
Reserve(u, n) == IF Fits(u, n) THEN u + n ELSE u

\* One reservation and the frame's fields behind it.
Spend(n) ==
  /\ used' = Reserve(used, n)
  /\ crossed' = (crossed \/ ~Fits(used, n))

(* Builders *)

New(kind, k, notes) ==
  [kind |-> kind,
   state |-> IF kind = "commerciale" THEN "commercial_body" ELSE "management_body",
   frames |-> <<k>>, issues |-> notes, lines |-> <<>>, items |-> <<>>, totals |-> <<>>,
   settled |-> 0, change |-> "none", seenTotal |-> FALSE, number |-> 0, copyOf |-> 0, subtype |-> ""]

AddFrame(b, k) == IF Last(b.frames) = k THEN b ELSE [b EXCEPT !.frames = Append(@, k)]

Is(kind) == active # None /\ active.kind = kind

Closing(b, complete) ==
  [b EXCEPT !.state = IF complete THEN "complete" ELSE "incomplete",
            !.issues = IF complete THEN @ ELSE Append(@, "incomplete_document")]

\* finish_active: the builder becomes a document, or is dropped at the limit.
Finish(b, complete) ==
  IF Len(documents) < limit.documents
  THEN /\ documents' = Append(documents, Closing(b, complete))
       /\ issues' = issues \o Closing(b, complete).issues
       /\ UNCHANGED omitting
  ELSE /\ omitting' = TRUE
       /\ issues' = IF omitting THEN issues ELSE Append(issues, "document_limit_exceeded")
       /\ UNCHANGED documents

Keep == UNCHANGED <<documents, issues, omitting>>

FinishActive == IF active = None THEN Keep ELSE Finish(active, FALSE)

-----------------------------------------------------------------------------
(* The loop of _parse_documents: one action per command, k the frame *)

Consume(k) ==
  /\ phase = "assemble" /\ k = next + 1 /\ k <= Len(request)
  /\ next' = k
  /\ UNCHANGED <<inputs, answers, phase, attached, result>>

Accept(k, cmds) == Consume(k) /\ request[k].ok /\ Cmd(k) \in cmds

Skip(k) ==
  /\ Consume(k) /\ ~request[k].ok
  /\ UNCHANGED <<active, pending, budget>> /\ Keep

\* Mutant: only a document that reached the postlude is closed.
ControlAfterPostlude(k) ==
  /\ Accept(k, Controls)
  /\ UNCHANGED budget
  /\ \/ /\ Is("commerciale") /\ Cmd(k) = "close" /\ active.state = "commercial_postlude"
        /\ Finish(AddFrame(active, k), TRUE)
        /\ active' = None /\ UNCHANGED pending
     \/ /\ Is("commerciale") /\ ~(Cmd(k) = "close" /\ active.state = "commercial_postlude")
        /\ active' = [AddFrame(active, k) EXCEPT
                        !.state = IF @ = "commercial_payment" /\ Cmd(k) # "close"
                                  THEN "commercial_postlude" ELSE @]
        /\ UNCHANGED pending /\ Keep
     \/ /\ ~Is("commerciale")
        /\ pending' = IF Cmd(k) = "query" THEN k ELSE 0
        /\ UNCHANGED active /\ Keep

Control(k) ==
  /\ Accept(k, Controls)
  /\ UNCHANGED budget
  /\ \/ /\ Is("commerciale") /\ Cmd(k) = "close"
        /\ Finish(AddFrame(active, k), TRUE)
        /\ active' = None /\ UNCHANGED pending
     \/ /\ Is("commerciale") /\ Cmd(k) # "close"
        /\ active' = [AddFrame(active, k) EXCEPT
                        !.state = IF @ = "commercial_payment" THEN "commercial_postlude" ELSE @]
        /\ UNCHANGED pending /\ Keep
     \/ /\ ~Is("commerciale")
        /\ pending' = IF Cmd(k) = "query" THEN k ELSE 0
        /\ UNCHANGED active /\ Keep

\* Mutant: the marker of a sale stays pending for the next one.
CommercialStartKeepsMarker(k) ==
  /\ Accept(k, {"=K"})
  /\ FinishActive
  /\ active' = AddFrame(New("commerciale", IF pending # 0 THEN pending ELSE k, <<>>), k)
  /\ UNCHANGED <<pending, budget>>

\* Mutant: =K in a commercial document is one more of its commands.
CommercialStartContinues(k) ==
  /\ Accept(k, {"=K"})
  /\ IF Is("commerciale") THEN Keep ELSE FinishActive
  /\ active' = IF Is("commerciale") THEN AddFrame(active, k) ELSE New("commerciale", k, <<>>)
  /\ pending' = 0
  /\ UNCHANGED budget

CommercialStart(k) ==
  /\ Accept(k, {"=K"})
  /\ FinishActive
  /\ active' = AddFrame(New("commerciale", IF pending # 0 THEN pending ELSE k, <<>>), k)
  /\ pending' = 0
  /\ UNCHANGED budget

ManagementBoundary(k) ==
  /\ Accept(k, {"=o"})
  /\ \/ /\ Is("gestionale")
        /\ Finish(AddFrame(active, k), TRUE) /\ active' = None
     \/ /\ ~Is("gestionale")
        /\ FinishActive /\ active' = New("gestionale", k, <<>>)
  /\ pending' = 0
  /\ UNCHANGED budget

\* The builder the command goes to: the active one, or a new one of its kind
\* once the active one is finished incomplete.
Target(kind, k, notes) ==
  AddFrame(IF Is(kind) THEN active ELSE New(kind, k, notes), k)

SwitchTo(kind) == IF Is(kind) THEN Keep ELSE FinishActive

\* Mutant: one field too few is taken for none.
AmountsReadEarly(n, u) ==
  IF n <= limit.fields - u - 1 THEN n ELSE IF u < limit.fields THEN limit.fields - u - 1 ELSE 0

\* _amount_fields: the amounts of a line that fit.
AmountsRead(n, u) == IF n <= limit.fields - u THEN n ELSE limit.fields - u

\* What a line is taken for depends on how many of its amounts were read.
TakenFor(cmd, got, seenTotal) ==
  CASE cmd \in {"mchange", "mchanges"} /\ got > 0 -> "change"
    [] cmd = "mpayment" /\ got > 0 -> "payment"
    [] cmd \in {"mtotal", "mtotals"} /\ got > 0 -> "total"
    [] cmd = "mtax" /\ got > 1 -> "tax"
    [] OTHER -> IF cmd \in Printed /\ ~seenTotal THEN "item" ELSE "line"

FieldsOf(as) == CASE as = "item" -> 2 [] as \in {"payment", "total", "tax"} -> 1 [] OTHER -> 0

Recorded(b, k, as, got) ==
  CASE as = "item" -> [b EXCEPT !.items = Append(@, [frame |-> k, val |-> Val(k)])]
    [] as = "total" -> [b EXCEPT !.totals =
                          Append(@, [frame |-> k, val |-> IF got = 1 THEN Val(k) ELSE -1])]
    [] as \in {"payment", "tax"} -> [b EXCEPT !.settled = @ + 1]
    [] as = "change" -> [b EXCEPT !.change = IF got = AmountsIn(Cmd(k)) THEN "last" ELSE "earlier"]
    [] OTHER -> b

\* The line, its amounts and what it is taken for are three reservations.
ApplyManagementLine(b, k) ==
  LET n    == AmountsIn(Cmd(k))
      u1   == Reserve(used, 1)
      got  == AmountsRead(n, u1)
      as   == TakenFor(Cmd(k), got, b.seenTotal)
      fits == Fits(u1 + got, FieldsOf(as))
      read == [b EXCEPT !.lines = IF Fits(used, 1) THEN Append(@, k) ELSE @,
                        !.seenTotal = @ \/ as = "total"]
  IN  /\ used' = Reserve(u1 + got, FieldsOf(as))
      /\ crossed' = (crossed \/ ~Fits(used, 1) \/ got < n \/ ~fits)
      /\ active' = IF fits THEN Recorded(read, k, as, got) ELSE read

ManagementLine(k) ==
  /\ Accept(k, Lines)
  /\ SwitchTo("gestionale")
  /\ ApplyManagementLine(
       Target("gestionale", k, IF active = None THEN <<"missing_open_boundary">> ELSE <<>>), k)
  /\ UNCHANGED pending

\* Item, description, amount and line, and a quantity where there is one.
ApplyCommercialItem(b, k) ==
  LET need == IF Cmd(k) = "itemq" THEN 5 ELSE 4
  IN  /\ Spend(need)
      /\ active' = IF Fits(used, need)
                   THEN [b EXCEPT !.items = Append(@, [frame |-> k, val |-> Val(k)]),
                                  !.lines = Append(@, k)]
                   ELSE b

CommercialItem(k) ==
  /\ Accept(k, Items)
  /\ SwitchTo("commerciale")
  /\ ApplyCommercialItem(Target("commerciale", k, <<"missing_commercial_start">>), k)
  /\ UNCHANGED pending

CommercialText(k) ==
  /\ Accept(k, {"text"}) /\ Is("commerciale")
  /\ Spend(1)
  /\ active' = IF Fits(used, 1) THEN [AddFrame(active, k) EXCEPT !.lines = Append(@, k)]
               ELSE AddFrame(active, k)
  /\ UNCHANGED pending /\ Keep

\* Total, payment, amount and two lines; the state changes even without them.
ApplyCommercialTotal(b, k) ==
  LET paid == [b EXCEPT !.state = "commercial_payment"]
  IN  /\ Spend(5)
      /\ active' = IF Fits(used, 5)
                   THEN [paid EXCEPT !.totals = Append(@, [frame |-> k, val |-> Val(k)]),
                                     !.settled = @ + 1, !.lines = @ \o <<k, k>>]
                   ELSE paid

CommercialTotal(k) ==
  /\ Accept(k, {"total"})
  /\ SwitchTo("commerciale")
  /\ ApplyCommercialTotal(Target("commerciale", k, <<"missing_commercial_start">>), k)
  /\ UNCHANGED pending

\* Text outside a commercial document falls through to here.
OtherCommand(k) ==
  /\ Accept(k, {"text", "display", "unknown"}) /\ ~(Cmd(k) = "text" /\ Is("commerciale"))
  /\ active' = IF active # None /\ Cmd(k) # "display" THEN AddFrame(active, k) ELSE active
  /\ UNCHANGED <<pending, budget>> /\ Keep

EndOfFrames ==
  /\ phase = "assemble" /\ next = Len(request)
  /\ FinishActive
  /\ active' = None /\ phase' = "correlate"
  /\ UNCHANGED <<inputs, answers, next, pending, budget, attached, result>>

-----------------------------------------------------------------------------
(* Request and response *)

Expected(pos) == (pos + Modulus - 2) % Modulus

\* The printer answers with the sequence number the parser expects.
Observed(k) == Expected(response[k].pos)

Answered(k)        == k <= Len(response)
SequenceMatches(k) == Answered(k) /\ Expected(request[k].pos) = Observed(k)

\* _correlate_directions without its bound.
Diagnostics(n, a) ==
  LET OfAck(k)    == IF k > a THEN "missing_ack_candidate" ELSE "none"
      OfAnswer(k) == CASE k > Len(n) -> "missing_response_frame_candidate"
                       [] k <= Len(n) /\ Expected(n[k].pos) # Expected(request[k].pos) ->
                            "response_sequence_mismatch"
                       [] OTHER -> "none"
      turns == [i \in 1..(2 * Len(request)) |->
                  IF i % 2 = 1 THEN OfAck((i + 1) \div 2) ELSE OfAnswer(i \div 2)]
      Extra(m, code) == [i \in 1..(m - Len(request)) |-> code]
  IN  Picked(turns, {i \in DOMAIN turns : turns[i] # "none"}) \o
      Extra(Len(n), "unmatched_response_frame") \o Extra(a, "unmatched_ack")

\* What the faults that did not hit the requests leave of the answers to the
\* conversation; a gap of 0 is a damaged frame, position 0 no fault.
RequestFaults == Len(conv) - Len(request) + Cardinality({k \in DOMAIN request : ~request[k].ok})

Responses ==
  LET places == 1..(MaxFaults - RequestFaults)
      Gone(at, gap) == UNION {at[i]..(at[i] + gap[i] - 1) : i \in places}
      Bad(at, gap)  == {at[i] : i \in {j \in places : gap[j] = 0}}
  IN  {Capture(conv, Gone(at, gap), Bad(at, gap)) :
         at \in [places -> 0..Len(conv)], gap \in [places -> Gaps \cup {0}]}

\* add_issue: what is over the limit is dropped.
Capped(all) == SubSeq(all, 1, IF Len(all) > limit.issues THEN limit.issues ELSE Len(all))

Correlate ==
  /\ phase = "correlate"
  /\ response' \in Responses
  /\ \E n \in Unacknowledged : acks' = IF n < Len(conv) THEN Len(conv) - n ELSE 0
  /\ issues' = issues \o Capped(Diagnostics(response', acks'))
  /\ phase' = "attach"
  /\ UNCHANGED <<inputs, next, active, pending, documents, omitting, budget, attached, result>>

\* Mutant: the query before the payment counts too.
CandidatesAnytime(d) ==
  {k \in ToSet(d.frames) :
     /\ request[k].ok /\ Cmd(k) = "query"
     /\ SequenceMatches(k) /\ response[k].ok
     /\ conv[response[k].pos].cmd = "query"}

\* Post-payment counter queries of a document with a usable answer.
Candidates(d) ==
  {k \in ToSet(d.frames) :
     /\ request[k].ok /\ Cmd(k) = "query"
     /\ \E j \in ToSet(d.frames) : j < k /\ request[j].ok /\ Cmd(j) = "total"
     /\ SequenceMatches(k) /\ response[k].ok
     /\ conv[response[k].pos].cmd = "query"}

\* One turn of the loop of _attach_response_counters.
AttachCounter ==
  /\ phase = "attach" /\ attached < Len(documents)
  /\ attached' = attached + 1
  /\ LET d == documents[attached + 1]
         found == d.kind = "commerciale" /\ d.state = "complete" /\ Candidates(d) # {}
     IN  \/ /\ found /\ Spend(4)
            /\ documents' = IF Fits(used, 4)
                            THEN [documents EXCEPT ![attached + 1].number =
                                    response[Max(Candidates(d))].pos]
                            ELSE documents
         \/ ~found /\ UNCHANGED <<documents, budget>>
  /\ UNCHANGED <<inputs, answers, next, active, pending, omitting, issues, phase, result>>

-----------------------------------------------------------------------------
(* Subtypes *)

Signature(d) == [i \in 1..Len(d.items) |-> d.items[i].val]

\* The first total with one amount; -1 for none.
PrimaryTotal(d) ==
  LET known == {t \in DOMAIN d.totals : d.totals[t].val # -1}
  IN  IF known = {} THEN -1 ELSE d.totals[Min(known)].val

HasLine(d, cmds) == \E k \in ToSet(d.lines) : Cmd(k) \in cmds

\* Mutant: the total alone decides.
CopySourcesByTotal(docs, i) ==
  {j \in 1..(i - 1) :
     /\ docs[j].kind = "commerciale"
     /\ PrimaryTotal(docs[i]) # -1 /\ PrimaryTotal(docs[i]) = PrimaryTotal(docs[j])
     /\ docs[i].settled > 0}

\* The commercial documents before the i-th whose captured fields it repeats.
CopySources(docs, i) ==
  {j \in 1..(i - 1) :
     /\ docs[j].kind = "commerciale"
     /\ docs[i].items # <<>> /\ Signature(docs[i]) = Signature(docs[j])
     /\ PrimaryTotal(docs[i]) # -1 /\ PrimaryTotal(docs[i]) = PrimaryTotal(docs[j])
     /\ docs[i].settled > 0}

Subtyped(docs, i) ==
  LET d == docs[i]
      copia    == HasLine(d, {"copia"})
      comanda  == HasLine(d, {"portata"}) /\ HasLine(d, {"coperti"}) /\ d.totals = <<>>
      preconto == HasLine(d, {"preconto"})
      sources  == CopySources(docs, i)
      unpaid   == d.items # <<>> /\ d.totals # <<>> /\ d.settled = 0
      As(subtype, of) == [d EXCEPT !.subtype = subtype, !.copyOf = of]
  IN  IF d.kind = "commerciale" THEN As("COMMERCIALE", 0)
      ELSE CASE copia -> As("COPIA", 0)
             [] ~copia /\ comanda -> As("COMANDA", 0)
             [] ~copia /\ ~comanda /\ preconto -> As("PRECONTO", 0)
             [] OTHER -> IF sources # {} THEN As("COPIA", Max(sources))
                         ELSE As(IF unpaid THEN "PRECONTO" ELSE "GENERICO", 0)

AssignSubtypes ==
  /\ phase = "attach" /\ attached = Len(documents)
  /\ documents' = [i \in 1..Len(documents) |-> Subtyped(documents, i)]
  /\ phase' = "report"
  /\ UNCHANGED <<inputs, answers, next, active, pending, omitting, budget, issues,
                 attached, result>>

-----------------------------------------------------------------------------
(* The result *)

\* Mutant: the first issues are kept, whatever they are.
BoundedInOrder(all) ==
  IF Len(all) <= limit.issues THEN all
  ELSE Append(SubSeq(all, 1, limit.issues - 1), "result_issue_limit_exceeded")

\* _bounded_result_issues: limit crossings first, then the others in order.
Bounded(all) ==
  LET capacity == limit.issues - 1
      crossings == {i \in 1..Len(all) : all[i] \in LimitCodes}
      first  == {i \in crossings : Rank(crossings, i) <= capacity}
      others == (1..Len(all)) \ first
      filled == {i \in others : Rank(others, i) <= capacity - Cardinality(first)}
  IN  IF Len(all) <= limit.issues THEN all
      ELSE Append(Picked(all, first \cup filled), "result_issue_limit_exceeded")

Events == Len(request) + Len(response) + acks

AllIssues ==
  issues \o (IF crossed THEN <<"semantic_field_limit_exceeded">> ELSE <<>>)
         \o (IF Events > limit.messages THEN <<"message_limit_exceeded">> ELSE <<>>)

Report ==
  /\ phase = "report"
  /\ result' = [issues |-> Bounded(AllIssues),
                messages |-> IF Events > limit.messages THEN limit.messages ELSE Events]
  /\ phase' = "done"
  /\ UNCHANGED <<inputs, answers, next, active, pending, documents, omitting, budget, issues,
                 attached>>

Next ==
  \/ \E k \in 1..Len(request) :
        \/ Skip(k) \/ Control(k) \/ CommercialStart(k) \/ ManagementBoundary(k)
        \/ ManagementLine(k) \/ CommercialItem(k) \/ CommercialText(k) \/ CommercialTotal(k)
        \/ OtherCommand(k)
  \/ EndOfFrames \/ Correlate \/ AttachCounter \/ AssignSubtypes \/ Report

Spec == Init /\ [][Next]_vars

-----------------------------------------------------------------------------
(* Properties *)

Candidate == documents \o (IF active = None THEN <<>> ELSE <<active>>)

Heard(p) == \E k \in 1..Len(request) : request[k].pos = p /\ request[k].ok

Content(k) == request[k].ok /\ Cmd(k) \in Lines \cup Items \cup {"total"}

ContentSales(d) == {Sale(k) : k \in {f \in ToSet(d.frames) : Content(f)}}

\* Where the conversation opens and closes a sale.
Opening(s) == Min({p \in 1..Len(conv) : conv[p].sale = s /\ conv[p].cmd \in {"=K", "=o"}})
Ending(s)  == Max({p \in 1..Len(conv) : conv[p].sale = s /\ conv[p].cmd \in {"close", "=o"}})

\* finish_active detaches the builder before the next one starts, so no frame
\* is in two documents; and a printable command of the capture is in one,
\* unless the document limit dropped documents and said so.
FramesInOneDocument ==
  /\ \A i, j \in DOMAIN Candidate :
        i # j => ToSet(Candidate[i].frames) \cap ToSet(Candidate[j].frames) = {}
  /\ ~omitting => \A k \in 1..next :
        Content(k) => \E i \in DOMAIN Candidate : k \in ToSet(Candidate[i].frames)

\* Price isolation (docs/PARSER_STATE_MACHINE.md): a document takes items,
\* totals or printed lines of two sales only if the capture lacks both the end
\* of the earlier sale and the beginning of the later one.
SalesSeparate ==
  \A i \in DOMAIN Candidate : \A a, b \in ContentSales(Candidate[i]) :
     a < b => ~Heard(Ending(a)) /\ ~Heard(Opening(b))

\* A document is complete through the closing command of its own sale, or
\* through a later one because the capture lacks its own.
CompleteByOwnClose ==
  \A i \in DOMAIN documents :
     documents[i].state = "complete" =>
       \A a \in ContentSales(documents[i]) :
          Sale(Last(documents[i].frames)) = a \/ ~Heard(Ending(a))

Faithful(d) ==
  /\ \A t \in ToSet(d.items) :
        /\ Cmd(t.frame) \in Items \cup {"mitem"} /\ t.val = Val(t.frame)
        /\ d.kind = "gestionale" =>
             \A k \in ToSet(d.frames) : Cmd(k) \in {"mtotal", "mtotals"} => t.frame < k
  /\ \A t \in ToSet(d.totals) :
        t.val = IF Cmd(t.frame) = "mtotals" THEN -1 ELSE Val(t.frame)

\* The field budget may run out in the middle of a line.  It then leaves
\* items and totals out and never alters one: a total, payment or tax line that
\* lost its amounts is not taken for an item, and no item follows a printed
\* total.  The change is the exception: taken without a reservation from the last
\* amount that was read, it may be another amount of its line, but only once the
\* crossing is noted.
TruncationOnlyOmits ==
  \A i \in DOMAIN Candidate :
     Faithful(Candidate[i]) /\ (Candidate[i].change = "earlier" => crossed)

\* The frames of the items and totals a document would have without a field
\* limit, the items' amounts in order, and the first total.
TrueItems(d) ==
  {k \in ToSet(d.frames) :
     /\ Cmd(k) \in Items \cup {"mitem"}
     /\ d.kind = "gestionale" =>
          \A j \in ToSet(d.frames) : Cmd(j) \in {"mtotal", "mtotals"} => k < j}

TrueTotals(d) == {k \in ToSet(d.frames) : Cmd(k) \in {"total", "mtotal"}}

TrueSignature(d) == [i \in 1..Cardinality(TrueItems(d)) |-> Val(Nth(TrueItems(d), i))]

TrueTotal(d) == IF TrueTotals(d) = {} THEN -1 ELSE Val(Min(TrueTotals(d)))

\* A conforming copy repeats the items and the total of an earlier commercial
\* document as captured: the field limit never makes two documents look alike
\* by cutting off what distinguishes them.
CopiesAreReal ==
  \A i \in DOMAIN documents :
     documents[i].copyOf # 0 =>
       LET original == documents[documents[i].copyOf]
       IN  /\ TrueSignature(documents[i]) = TrueSignature(original)
           /\ TrueTotal(documents[i]) = TrueTotal(original)

OwnCounter(d) ==
  d.number # 0 =>
    \E j, k \in ToSet(d.frames) :
       /\ j < k /\ Cmd(j) = "total" /\ Cmd(k) = "query"
       /\ \/ request[k].pos = d.number
          \/ request[k].pos - d.number >= Modulus
          \/ d.number - request[k].pos >= Modulus

\* The number on a complete receipt answers a counter query of that document
\* after its payment, never the query before it ("falling back to the
\* pre-document counter would silently assign the previous receipt number").
\* An answer to another query gets there only over a whole turn of the
\* sequence numbers.
CounterIsOwn == \A i \in DOMAIN documents : OwnCounter(documents[i])

\* Crossing the document, field or message limit is in the result whatever else
\* there is to report, as long as the crossings themselves fit.  Issues dropped for
\* max_issues are marked too, with one exception: _correlate_directions drops its
\* own silently (add_issue), and nobody notices when there is no other issue and
\* the result is just the diagnostics it kept.
LimitsReported ==
  phase = "done" =>
    LET kept == ToSet(result.issues)
        crossings == {i \in DOMAIN AllIssues : AllIssues[i] \in LimitCodes}
        all == Diagnostics(response, acks)
    IN  /\ Cardinality(crossings) < limit.issues =>
             /\ omitting => "document_limit_exceeded" \in kept
             /\ crossed => "semantic_field_limit_exceeded" \in kept
             /\ Events > result.messages => "message_limit_exceeded" \in kept
             /\ \A i \in crossings : AllIssues[i] \in kept
        /\ Len(all) > limit.issues \/ Len(AllIssues) > limit.issues =>
             \/ "result_issue_limit_exceeded" \in kept
             \/ result.issues = SubSeq(all, 1, limit.issues)

-----------------------------------------------------------------------------
(* The inductive invariant *)

Frames(b) == IF b = None THEN {} ELSE ToSet(b.frames)

\* No frame is in two places, and the marker of a sale not yet begun is in none.
FrameInv ==
  /\ active # None => active.frames # <<>>
  /\ Frames(active) \subseteq 1..next /\ pending \in 0..next /\ pending \notin Frames(active)
  /\ \A i \in DOMAIN documents :
        /\ Frames(documents[i]) \subseteq 1..next
        /\ pending \notin Frames(documents[i])
        /\ Frames(documents[i]) \cap Frames(active) = {}
        /\ \A j \in DOMAIN documents :
             i # j => Frames(documents[i]) \cap Frames(documents[j]) = {}
  /\ ~omitting => \A k \in 1..next : Content(k) =>
        k \in Frames(active) \/ \E i \in DOMAIN documents : k \in Frames(documents[i])

\* While there is room for a field, a printed total that was passed was seen.
Tallied(b, u, n) ==
  /\ Faithful(b) /\ \A t \in ToSet(b.items) : t.frame \in 1..n
  /\ (b.kind = "gestionale" /\ u < limit.fields) =>
       \A k \in ToSet(b.frames) : Cmd(k) \in {"mtotal", "mtotals"} => b.seenTotal

FieldInv ==
  /\ \A i \in DOMAIN documents : Faithful(documents[i])
  /\ active # None => Tallied(active, used, next)

\* A number is given once, in the phase for it.
NumberInv ==
  /\ phase # "assemble" => active = None
  /\ active # None => active.number = 0
  /\ CounterIsOwn

ReportInv ==
  /\ phase \in {"attach", "report", "done"} =>
       \E n \in 0..Len(issues) :
         issues = SubSeq(issues, 1, n) \o Capped(Diagnostics(response, acks))
  /\ omitting => "document_limit_exceeded" \in ToSet(issues)
  /\ phase = "done" =>
       /\ result.issues = Bounded(AllIssues)
       /\ result.messages = IF Events > limit.messages THEN limit.messages ELSE Events

Inv == TypeOK /\ FrameInv /\ FieldInv /\ NumberInv /\ ReportInv

\* The change is another amount of its line only once the field limit was crossed.
ChangeInv ==
  /\ \A i \in DOMAIN documents : documents[i].change = "earlier" => crossed
  /\ active # None => (active.change = "earlier" => crossed)

(* Sales *)

\* The commands that finish a builder of this kind.
Finishing(kind) == {"=K", "=o"} \cup (IF kind = "commerciale" THEN {"close"} ELSE {})

\* What a builder took in is of its kind.
OfItsKind(b) ==
  \A f \in Frames(b) : Content(f) => (b.kind = "gestionale" <=> Cmd(f) \in Lines)

\* Nothing that would have finished the builder came after what it took in.
Uninterrupted(b, n) ==
  \A f \in Frames(b), k \in 1..n :
     (Content(f) /\ f < k /\ request[k].ok) => Cmd(k) \notin Finishing(b.kind)

SalesApart(d) == \A a, b \in ContentSales(d) : a < b => ~Heard(Ending(a)) /\ ~Heard(Opening(b))

ClosedByOwn(d) ==
  d.state = "complete" =>
    \A a \in ContentSales(d) : Sale(Last(d.frames)) = a \/ ~Heard(Ending(a))

SaleInv ==
  /\ \A i, j \in 1..Len(request) : i < j => request[i].pos < request[j].pos
  /\ pending # 0 => Cmd(pending) = "query"
  /\ active # None => OfItsKind(active) /\ Uninterrupted(active, next)
  /\ \A i \in DOMAIN documents :
        OfItsKind(documents[i]) /\ SalesApart(documents[i]) /\ ClosedByOwn(documents[i])

(* Copies *)

Ascending(s) == \A i, j \in DOMAIN s : i < j => s[i].frame < s[j].frame

\* The frames of the recorded items, and of the recorded totals with one amount.
ItemFrames(b)  == {t.frame : t \in ToSet(b.items)}
TotalFrames(b) == {t.frame : t \in {x \in ToSet(b.totals) : x.val # -1}}

Lacking(b) == ItemFrames(b) # TrueItems(b) \/ TotalFrames(b) # TrueTotals(b)

\* What is recorded is in order, and is something the document has.
Ledger(b) ==
  /\ Ascending(b.items) /\ Ascending(b.totals)
  /\ ItemFrames(b) \subseteq TrueItems(b) /\ TotalFrames(b) \subseteq TrueTotals(b)
  /\ \A t \in ToSet(b.totals) : t.frame \in ToSet(b.frames)

\* What is missing says how many fields are left: less than a receipt's item or
\* total takes; in a management document, so few that no total follows a missing
\* item or a missing first total.
Shortfall(b, left) ==
  /\ (b.kind = "commerciale" /\ Lacking(b)) => left <= 4
  /\ b.kind = "gestionale" =>
       /\ b.seenTotal => \E k \in ToSet(b.frames) : Cmd(k) \in {"mtotal", "mtotals"}
       /\ \A k \in ToSet(b.frames) : Cmd(k) # "total"
       /\ ItemFrames(b) # TrueItems(b) => left <= 1 /\ TotalFrames(b) = {}
       /\ \/ \A k \in TrueTotals(b) : \E t \in TotalFrames(b) : t <= k
          \/ left = 0 /\ TotalFrames(b) = {}

\* A management document assembled from four fields: an item and a total take seven.
Poor(b, left) ==
  /\ left <= 4
  /\ b.items # <<>> => left = 0 /\ TotalFrames(b) = {}
  /\ TotalFrames(b) # {} => left <= 1

Left == limit.fields - used

CopyInv ==
  /\ pending # 0 => Cmd(pending) = "query"
  /\ active # None => active.copyOf = 0 /\ Ledger(active) /\ Shortfall(active, Left)
  /\ \A j \in DOMAIN documents :
        /\ phase \in {"assemble", "correlate", "attach"} => documents[j].copyOf = 0
        /\ Ledger(documents[j]) /\ Shortfall(documents[j], Left)
        /\ (documents[j].kind = "commerciale" /\ Lacking(documents[j])) =>
             /\ Is("gestionale") => Poor(active, Left)
             /\ \A i \in DOMAIN documents :
                  (i > j /\ documents[i].kind = "gestionale") => Poor(documents[i], Left)
  /\ CopiesAreReal
=============================================================================
