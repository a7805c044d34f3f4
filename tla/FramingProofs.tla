--------------------------- MODULE FramingProofs ---------------------------
(***************************************************************************)
(* A framer accounts for every byte exactly once and decodes the same      *)
(* frames: for every stream, every way of cutting it into chunks, and all  *)
(* limits the constructor accepts.                                         *)
(***************************************************************************)
EXTENDS Framing, FiniteSetTheorems, SequenceTheorems, WellFoundedInduction, TLAPS

Below == {ss \in Nat \X Nat : ss[1] < ss[2]}

\* A nonempty set of offsets has a least element.
LEMMA LeastOffset ==
  ASSUME NEW S \in SUBSET Nat, S # {} PROVE \E x \in S : \A y \in S : x <= y
<1>1. IsWellFoundedOn(Below, Nat) BY NatLessThanWellFounded, Zenon DEF OpToRel, Below
<1>2. \E x \in S : \A y \in S : ~(<<y, x>> \in Below) BY <1>1, WFMin, Zenon
<1>3. PICK x \in S : \A y \in S : ~(<<y, x>> \in Below) BY <1>2
<1>4. ASSUME NEW y \in S PROVE x <= y
  <2>1. x \in Nat /\ y \in Nat /\ <<y, x>> \notin Below BY <1>3
  <2> QED BY <2>1 DEF Below
<1> QED BY <1>4

LEMMA MinIsElement == ASSUME NEW S \in SUBSET Nat, S # {} PROVE Min(S) \in S
BY LeastOffset DEF Min

\* The largest element, as the bound minus the least distance to it.
LEMMA MaxIsElement ==
  ASSUME NEW n \in Nat, NEW S \in SUBSET (0..n), S # {} PROVE Max(S) \in S
<1> DEFINE D == {d \in 0..n : n - d \in S}
<1>1. D \in SUBSET Nat OBVIOUS
<1>2. D # {}
  <2>1. PICK x \in S : TRUE OBVIOUS
  <2>2. n - x \in 0..n /\ n - (n - x) = x OBVIOUS
  <2> QED BY <2>1, <2>2
<1>3. PICK d \in D : \A e \in D : d <= e BY <1>1, <1>2, LeastOffset
<1>4. n - d \in S /\ d \in 0..n BY <1>3
<1>5. ASSUME NEW y \in S PROVE n - d >= y
  <2>1. n - y \in D
    <3>1. n - y \in 0..n /\ n - (n - y) = y OBVIOUS
    <3> QED BY <3>1
  <2>2. d <= n - y /\ y \in 0..n BY <1>3, <2>1
  <2> QED BY <1>4, <2>2
<1>6. \E x \in S : \A y \in S : x >= y BY <1>4, <1>5
<1> QED BY <1>6 DEF Max

-----------------------------------------------------------------------------
(* Spans *)

\* Losing issues at the end, or moving the cursor on, disturbs no span.
LEMMA SpansKept ==
  ASSUME NEW ev, NEW iss \in Seq(Issue), NEW less \in Seq(Issue), NEW n \in Nat, NEW m \in Nat,
         ev \in Seq(Event), n <= m, Disjoint(ev, iss, n),
         Len(less) <= Len(iss), \A i \in 1..Len(less) : less[i] = iss[i]
  PROVE  Disjoint(ev, less, m)
<1>1. /\ DOMAIN less = 1..Len(less) /\ DOMAIN iss = 1..Len(iss) /\ DOMAIN ev = 1..Len(ev)
      /\ Len(less) \in Nat /\ Len(iss) \in Nat /\ Len(ev) \in Nat
      /\ \A i \in 1..Len(ev) : ev[i] \in Event
      /\ \A i \in 1..Len(less) : less[i] \in Issue
  BY LenProperties, ElementOfSeq
<1>2. \A i \in DOMAIN less : i \in DOMAIN iss /\ less[i] = iss[i] BY <1>1
<1>3. \A i \in DOMAIN ev : ev[i].offset \in Nat /\ ev[i].len \in Nat BY <1>1 DEF Event
<1>4. \A i \in DOMAIN less : less[i].offset \in Nat /\ less[i].len \in Nat BY <1>1 DEF Issue
<1>5. /\ \A i \in DOMAIN ev : ev[i].offset + ev[i].len <= m
      /\ \A i \in DOMAIN less : less[i].offset + less[i].len <= m
  BY <1>2, <1>3, <1>4 DEF Disjoint
<1>6. ASSUME NEW b \in 0..(m - 1)
      PROVE  /\ \A i, j \in DOMAIN ev : Covers(ev[i], b) /\ Covers(ev[j], b) => i = j
             /\ \A i, j \in {x \in DOMAIN less : less[x].code # "invalid_bcc"} :
                  Covers(less[i], b) /\ Covers(less[j], b) => i = j
             /\ \A i \in DOMAIN ev : \A j \in {x \in DOMAIN less : less[x].code # "invalid_bcc"} :
                  ~(Covers(ev[i], b) /\ Covers(less[j], b))
  <2>1. CASE b \in 0..(n - 1) BY <1>2, <2>1 DEF Disjoint
  <2>2. CASE b \notin 0..(n - 1)
    <3>1. b >= n BY <2>2
    <3>2. \A i \in DOMAIN ev : ~Covers(ev[i], b) BY <1>3, <3>1 DEF Disjoint, Covers
    <3>3. \A i \in DOMAIN less : ~Covers(less[i], b) BY <1>2, <1>4, <3>1 DEF Disjoint, Covers
    <3> QED BY <3>2, <3>3
  <2> QED BY <2>1, <2>2
<1> QED BY <1>5, <1>6 DEF Disjoint

\* The next bytes become an event.
LEMMA EventAdded ==
  ASSUME NEW ev \in Seq(Event), NEW iss \in Seq(Issue), NEW e \in Event, NEW n \in Nat,
         e.offset = n, Disjoint(ev, iss, n)
  PROVE  /\ Disjoint(Append(ev, e), iss, n + e.len)
         /\ AllCovered(ev, iss, n) => AllCovered(Append(ev, e), iss, n + e.len)
<1> DEFINE more == Append(ev, e)
           m == n + e.len
<1>1. /\ DOMAIN iss = 1..Len(iss) /\ DOMAIN ev = 1..Len(ev)
      /\ Len(iss) \in Nat /\ Len(ev) \in Nat
      /\ \A i \in 1..Len(ev) : ev[i] \in Event
      /\ \A i \in 1..Len(iss) : iss[i] \in Issue
  BY LenProperties, ElementOfSeq
<1>2. /\ DOMAIN more = 1..(Len(ev) + 1)
      /\ \A i \in DOMAIN ev : i \in DOMAIN more /\ more[i] = ev[i]
      /\ \A i \in DOMAIN more : i \in DOMAIN ev \/ i = Len(ev) + 1
      /\ Len(ev) + 1 \in DOMAIN more /\ more[Len(ev) + 1] = e
  BY <1>1
<1>3. \A i \in DOMAIN ev : ev[i].offset \in Nat /\ ev[i].len \in Nat BY <1>1 DEF Event
<1>4. \A i \in DOMAIN iss : iss[i].offset \in Nat /\ iss[i].len \in Nat BY <1>1 DEF Issue
<1>5. e.offset = n /\ e.len \in Nat /\ m \in Nat /\ n <= m BY DEF Event
<1>6. ASSUME NEW b \in Int
      PROVE  /\ Covers(e, b) <=> b >= n /\ b < m
             /\ b >= n => /\ \A i \in DOMAIN ev : ~Covers(ev[i], b)
                          /\ \A i \in DOMAIN iss : ~Covers(iss[i], b)
  BY <1>3, <1>4, <1>5 DEF Disjoint, Covers
<1> HIDE DEF more, m
<1>7. /\ \A i \in DOMAIN more : more[i].offset + more[i].len <= m
      /\ \A i \in DOMAIN iss : iss[i].offset + iss[i].len <= m
  <2>1. \A i \in DOMAIN ev : ev[i].offset + ev[i].len <= m BY <1>3, <1>5 DEF Disjoint
  <2>2. \A i \in DOMAIN iss : iss[i].offset + iss[i].len <= m BY <1>4, <1>5 DEF Disjoint
  <2>3. e.offset + e.len <= m BY <1>5 DEF m
  <2> QED BY <2>1, <2>2, <2>3, <1>2
<1>8. ASSUME NEW b \in 0..(m - 1)
      PROVE  /\ \A i, j \in DOMAIN more : Covers(more[i], b) /\ Covers(more[j], b) => i = j
             /\ \A i, j \in {x \in DOMAIN iss : iss[x].code # "invalid_bcc"} :
                  Covers(iss[i], b) /\ Covers(iss[j], b) => i = j
             /\ \A i \in DOMAIN more : \A j \in {x \in DOMAIN iss : iss[x].code # "invalid_bcc"} :
                  ~(Covers(more[i], b) /\ Covers(iss[j], b))
  <2>0. b \in Int BY <1>5
  <2>1. CASE b >= n
    <3>1. \A i \in DOMAIN ev : ~Covers(ev[i], b) BY <1>6, <2>0, <2>1
    <3>2. \A i \in DOMAIN iss : ~Covers(iss[i], b) BY <1>6, <2>0, <2>1
    <3> QED BY <3>1, <3>2, <1>2
  <2>2. CASE ~(b >= n)
    <3>1. b \in 0..(n - 1) BY <2>2, <1>5
    <3>2. ~Covers(e, b) BY <1>6, <2>0, <2>2
    <3>3. /\ \A i, j \in DOMAIN ev : Covers(ev[i], b) /\ Covers(ev[j], b) => i = j
          /\ \A i, j \in {x \in DOMAIN iss : iss[x].code # "invalid_bcc"} :
               Covers(iss[i], b) /\ Covers(iss[j], b) => i = j
          /\ \A i \in DOMAIN ev : \A j \in {x \in DOMAIN iss : iss[x].code # "invalid_bcc"} :
               ~(Covers(ev[i], b) /\ Covers(iss[j], b))
      BY <3>1 DEF Disjoint
    <3> QED BY <3>2, <3>3, <1>2
  <2> QED BY <2>1, <2>2
<1>9. ASSUME AllCovered(ev, iss, n), NEW b \in 0..(m - 1)
      PROVE  \/ \E i \in DOMAIN more : Covers(more[i], b)
             \/ \E i \in DOMAIN iss : iss[i].code # "invalid_bcc" /\ Covers(iss[i], b)
  <2>0. b \in Int /\ b < m BY <1>5
  <2>1. CASE b >= n BY <2>0, <2>1, <1>6, <1>2
  <2>2. CASE ~(b >= n)
    <3>1. b \in 0..(n - 1) BY <2>2, <1>5
    <3> QED BY <3>1, <1>2, <1>9 DEF AllCovered
  <2> QED BY <2>1, <2>2
<1>10. Disjoint(more, iss, m) BY <1>7, <1>8 DEF Disjoint
<1>11. AllCovered(ev, iss, n) => AllCovered(more, iss, m) BY <1>9 DEF AllCovered
<1> QED BY <1>10, <1>11 DEF more, m

\* The next bytes become an issue.
LEMMA IssueAdded ==
  ASSUME NEW ev \in Seq(Event), NEW iss \in Seq(Issue), NEW x \in Issue, NEW n \in Nat,
         x.offset = n, Disjoint(ev, iss, n)
  PROVE  /\ Disjoint(ev, Append(iss, x), n + x.len)
         /\ AllCovered(ev, iss, n) /\ x.code # "invalid_bcc"
              => AllCovered(ev, Append(iss, x), n + x.len)
<1> DEFINE more == Append(iss, x)
           m == n + x.len
<1>1. /\ DOMAIN iss = 1..Len(iss) /\ DOMAIN ev = 1..Len(ev)
      /\ Len(iss) \in Nat /\ Len(ev) \in Nat
      /\ \A i \in 1..Len(ev) : ev[i] \in Event
      /\ \A i \in 1..Len(iss) : iss[i] \in Issue
  BY LenProperties, ElementOfSeq
<1>2. /\ DOMAIN more = 1..(Len(iss) + 1)
      /\ \A i \in DOMAIN iss : i \in DOMAIN more /\ more[i] = iss[i]
      /\ \A i \in DOMAIN more : i \in DOMAIN iss \/ i = Len(iss) + 1
      /\ Len(iss) + 1 \in DOMAIN more /\ more[Len(iss) + 1] = x
  BY <1>1
<1>3. \A i \in DOMAIN ev : ev[i].offset \in Nat /\ ev[i].len \in Nat BY <1>1 DEF Event
<1>4. \A i \in DOMAIN iss : iss[i].offset \in Nat /\ iss[i].len \in Nat BY <1>1 DEF Issue
<1>5. x.offset = n /\ x.len \in Nat /\ m \in Nat /\ n <= m BY DEF Issue
<1>6. ASSUME NEW b \in Int
      PROVE  /\ Covers(x, b) <=> b >= n /\ b < m
             /\ b >= n => /\ \A i \in DOMAIN ev : ~Covers(ev[i], b)
                          /\ \A i \in DOMAIN iss : ~Covers(iss[i], b)
  BY <1>3, <1>4, <1>5 DEF Disjoint, Covers
<1> HIDE DEF more, m
<1>7. /\ \A i \in DOMAIN ev : ev[i].offset + ev[i].len <= m
      /\ \A i \in DOMAIN more : more[i].offset + more[i].len <= m
  <2>1. \A i \in DOMAIN ev : ev[i].offset + ev[i].len <= m BY <1>3, <1>5 DEF Disjoint
  <2>2. \A i \in DOMAIN iss : iss[i].offset + iss[i].len <= m BY <1>4, <1>5 DEF Disjoint
  <2>3. x.offset + x.len <= m BY <1>5 DEF m
  <2> QED BY <2>1, <2>2, <2>3, <1>2
<1>8. ASSUME NEW b \in 0..(m - 1)
      PROVE  /\ \A i, j \in DOMAIN ev : Covers(ev[i], b) /\ Covers(ev[j], b) => i = j
             /\ \A i, j \in {l \in DOMAIN more : more[l].code # "invalid_bcc"} :
                  Covers(more[i], b) /\ Covers(more[j], b) => i = j
             /\ \A i \in DOMAIN ev : \A j \in {l \in DOMAIN more : more[l].code # "invalid_bcc"} :
                  ~(Covers(ev[i], b) /\ Covers(more[j], b))
  <2>0. b \in Int BY <1>5
  <2>1. CASE b >= n
    <3>1. \A i \in DOMAIN ev : ~Covers(ev[i], b) BY <1>6, <2>0, <2>1
    <3>2. \A i \in DOMAIN iss : ~Covers(iss[i], b) BY <1>6, <2>0, <2>1
    <3> QED BY <3>1, <3>2, <1>2
  <2>2. CASE ~(b >= n)
    <3>1. b \in 0..(n - 1) BY <2>2, <1>5
    <3>2. ~Covers(x, b) BY <1>6, <2>0, <2>2
    <3>3. /\ \A i, j \in DOMAIN ev : Covers(ev[i], b) /\ Covers(ev[j], b) => i = j
          /\ \A i, j \in {l \in DOMAIN iss : iss[l].code # "invalid_bcc"} :
               Covers(iss[i], b) /\ Covers(iss[j], b) => i = j
          /\ \A i \in DOMAIN ev : \A j \in {l \in DOMAIN iss : iss[l].code # "invalid_bcc"} :
               ~(Covers(ev[i], b) /\ Covers(iss[j], b))
      BY <3>1 DEF Disjoint
    <3> QED BY <3>2, <3>3, <1>2
  <2> QED BY <2>1, <2>2
<1>9. ASSUME AllCovered(ev, iss, n), x.code # "invalid_bcc", NEW b \in 0..(m - 1)
      PROVE  \/ \E i \in DOMAIN ev : Covers(ev[i], b)
             \/ \E i \in DOMAIN more : more[i].code # "invalid_bcc" /\ Covers(more[i], b)
  <2>0. b \in Int /\ b < m BY <1>5
  <2>1. CASE b >= n
    <3>1. Covers(x, b) BY <2>0, <2>1, <1>6
    <3> QED BY <3>1, <1>2, <1>9
  <2>2. CASE ~(b >= n)
    <3>1. b \in 0..(n - 1) BY <2>2, <1>5
    <3> QED BY <3>1, <1>2, <1>9 DEF AllCovered
  <2> QED BY <2>1, <2>2
<1>10. Disjoint(ev, more, m) BY <1>7, <1>8 DEF Disjoint
<1>11. AllCovered(ev, iss, n) /\ x.code # "invalid_bcc" => AllCovered(ev, more, m)
  BY <1>9 DEF AllCovered
<1> QED BY <1>10, <1>11 DEF more, m

\* An issue about bytes already accounted for.
LEMMA RemarkAdded ==
  ASSUME NEW ev \in Seq(Event), NEW iss \in Seq(Issue), NEW x \in Issue, NEW n \in Nat,
         x.offset + x.len <= n, x.code = "invalid_bcc" \/ x.len = 0, Disjoint(ev, iss, n)
  PROVE  /\ Disjoint(ev, Append(iss, x), n)
         /\ AllCovered(ev, iss, n) => AllCovered(ev, Append(iss, x), n)
<1> DEFINE more == Append(iss, x)
<1>1. /\ DOMAIN iss = 1..Len(iss) /\ Len(iss) \in Nat
      /\ \A i \in 1..Len(iss) : iss[i] \in Issue
  BY LenProperties, ElementOfSeq
<1>2. /\ DOMAIN more = 1..(Len(iss) + 1)
      /\ \A i \in DOMAIN iss : i \in DOMAIN more /\ more[i] = iss[i]
      /\ \A i \in DOMAIN more : i \in DOMAIN iss \/ i = Len(iss) + 1
      /\ Len(iss) + 1 \in DOMAIN more /\ more[Len(iss) + 1] = x
  BY <1>1
<1>3. ASSUME NEW b \in 0..(n - 1) PROVE x.code = "invalid_bcc" \/ ~Covers(x, b)
  <2>1. x.offset \in Nat /\ b \in Int BY DEF Issue
  <2> QED BY <2>1 DEF Covers
<1> HIDE DEF more
<1>4. \A i \in DOMAIN more : more[i].offset + more[i].len <= n BY <1>2 DEF Disjoint
<1>5. ASSUME NEW b \in 0..(n - 1)
      PROVE  /\ \A i, j \in DOMAIN ev : Covers(ev[i], b) /\ Covers(ev[j], b) => i = j
             /\ \A i, j \in {l \in DOMAIN more : more[l].code # "invalid_bcc"} :
                  Covers(more[i], b) /\ Covers(more[j], b) => i = j
             /\ \A i \in DOMAIN ev : \A j \in {l \in DOMAIN more : more[l].code # "invalid_bcc"} :
                  ~(Covers(ev[i], b) /\ Covers(more[j], b))
  BY <1>2, <1>3 DEF Disjoint
<1>6. Disjoint(ev, more, n) BY <1>4, <1>5 DEF Disjoint
<1>7. AllCovered(ev, iss, n) => AllCovered(ev, more, n) BY <1>2 DEF AllCovered
<1> QED BY <1>6, <1>7 DEF more

-----------------------------------------------------------------------------
(* The issue list *)

LEMMA ConcatOne ==
  ASSUME NEW s \in Seq(Issue), NEW x \in Issue PROVE s \o <<x>> = Append(s, x)
<1>1. <<x>> \in Seq(Issue) /\ Len(<<x>>) = 1 /\ <<x>>[1] = x OBVIOUS
<1>2. /\ s \o <<x>> \in Seq(Issue) /\ Len(s \o <<x>>) = Len(s) + 1
      /\ \A i \in 1..(Len(s) + 1) : (s \o <<x>>)[i] = IF i <= Len(s) THEN s[i] ELSE x
  BY <1>1, ConcatProperties
<1>3. Append(s, x) \in Seq(Issue) /\ Len(Append(s, x)) = Len(s \o <<x>>) BY <1>2
<1>4. \A i \in 1..Len(s \o <<x>>) : (s \o <<x>>)[i] = Append(s, x)[i] BY <1>2
<1> QED BY <1>2, <1>3, <1>4, SeqEqual

LEMMA ConcatTwo ==
  ASSUME NEW s \in Seq(Issue), NEW x \in Issue, NEW y \in Issue
  PROVE  s \o (<<x>> \o <<y>>) = Append(Append(s, x), y)
<1> DEFINE two == <<x>> \o <<y>>
           one == Append(s, x)
           all == Append(one, y)
<1>1. Len(s) \in Nat BY LenProperties
<1>2. two \in Seq(Issue) /\ Len(two) = 2 /\ two[1] = x /\ two[2] = y OBVIOUS
<1> HIDE DEF two
<1>3. /\ s \o two \in Seq(Issue) /\ Len(s \o two) = Len(s) + 2
      /\ \A i \in 1..(Len(s) + 2) : (s \o two)[i] = IF i <= Len(s) THEN s[i] ELSE two[i - Len(s)]
  <2>1. /\ s \o two \in Seq(Issue) /\ Len(s \o two) = Len(s) + Len(two)
        /\ \A i \in 1..(Len(s) + Len(two)) :
             (s \o two)[i] = IF i <= Len(s) THEN s[i] ELSE two[i - Len(s)]
    BY <1>2, ConcatProperties, Zenon
  <2>2. Len(two) = 2 BY <1>2
  <2> QED BY <2>1, <2>2, Zenon
<1>4. /\ one \in Seq(Issue) /\ Len(one) = Len(s) + 1
      /\ \A i \in 1..Len(s) : one[i] = s[i]
      /\ one[Len(s) + 1] = x
  BY <1>1
<1> HIDE DEF one
<1>5. /\ all \in Seq(Issue) /\ Len(all) = Len(one) + 1
      /\ \A i \in 1..Len(one) : all[i] = one[i]
      /\ all[Len(one) + 1] = y
  BY <1>4
<1> HIDE DEF all
<1>6. ASSUME NEW i \in 1..(Len(s) + 2) PROVE (s \o two)[i] = all[i]
  <2>1. CASE i <= Len(s)
    <3>1. i \in 1..Len(s) /\ i \in 1..Len(one) BY <1>1, <1>4, <2>1
    <3> QED BY <1>3, <1>4, <1>5, <2>1, <3>1
  <2>2. CASE i = Len(s) + 1
    <3>1. i - Len(s) = 1 /\ ~(i <= Len(s)) /\ i \in 1..Len(one) BY <1>1, <1>4, <2>2
    <3> QED BY <1>2, <1>3, <1>4, <1>5, <2>2, <3>1
  <2>3. CASE i = Len(s) + 2
    <3>1. i - Len(s) = 2 /\ ~(i <= Len(s)) /\ i = Len(one) + 1 BY <1>1, <1>4, <2>3
    <3> QED BY <1>2, <1>3, <1>5, <3>1
  <2>4. \A l \in Nat : \A j \in 1..(l + 2) : j <= l \/ j = l + 1 \/ j = l + 2 OBVIOUS
  <2> QED BY <1>1, <2>1, <2>2, <2>3, <2>4
<1>7. Len(s \o two) = Len(all) BY <1>1, <1>3, <1>4, <1>5
<1>8. s \o two = all BY <1>3, <1>5, <1>6, <1>7, SeqEqual
<1> QED BY <1>8 DEF two, one, all

\* The first n of a list of issues.
LEMMA CutIssues ==
  ASSUME NEW s \in Seq(Issue), NEW n \in Nat, n <= Len(s)
  PROVE  /\ SubSeq(s, 1, n) \in Seq(Issue) /\ Len(SubSeq(s, 1, n)) = n
         /\ \A i \in 1..n : SubSeq(s, 1, n)[i] = s[i]
<1>1. Len(s) \in Nat /\ \A i \in 1..n : s[i] \in Issue BY LenProperties, ElementOfSeq
<1>2. /\ SubSeq(s, 1, n) \in Seq(Issue)
      /\ Len(SubSeq(s, 1, n)) = IF 1 <= n THEN n - 1 + 1 ELSE 0
      /\ \A i \in 1..(n - 1 + 1) : SubSeq(s, 1, n)[i] = s[1 + i - 1]
  BY <1>1, SubSeqProperties
<1>3. Len(SubSeq(s, 1, n)) = n BY <1>2
<1>4. ASSUME NEW i \in 1..n PROVE SubSeq(s, 1, n)[i] = s[i]
  <2>1. i \in 1..(n - 1 + 1) /\ 1 + i - 1 = i OBVIOUS
  <2> QED BY <2>1, <1>2
<1> QED BY <1>2, <1>3, <1>4

\* What _append_issue keeps is the beginning of the list, all of it unless an issue was
\* omitted; and nothing is omitted before the list is full.
LEMMA AppendIssuesEffect ==
  ASSUME TypeOK, LimitInv, NEW k \in Framers, NEW new \in Seq(Issue), AppendIssues(k, new)
  PROVE  \E r \in Seq(Issue), n \in Nat :
           /\ issues' = [issues EXCEPT ![k] = r] /\ omitted' = [omitted EXCEPT ![k] = n]
           /\ Len(r) <= MaxIssues /\ Len(r) <= Len(issues[k] \o new)
           /\ \A i \in 1..Len(r) : r[i] = (issues[k] \o new)[i]
           /\ n > 0 => Len(r) = MaxIssues
           /\ n = 0 => omitted[k] = 0 /\ r = issues[k] \o new
<1> DEFINE all == issues[k] \o new
           m == IF Len(all) < MaxIssues THEN Len(all) ELSE MaxIssues
           n == omitted[k] + (IF Len(all) > MaxIssues THEN Len(all) - MaxIssues ELSE 0)
           r == SubSeq(all, 1, m)
<1>1. issues[k] \in Seq(Issue) /\ MaxIssues \in Nat /\ omitted[k] \in Nat
      /\ Len(issues[k]) \in Nat /\ Len(new) \in Nat
  BY FramingAssumption DEF TypeOK
<1>2. all \in Seq(Issue) /\ Len(all) = Len(issues[k]) + Len(new) BY <1>1, ConcatProperties
<1>3. omitted[k] > 0 => Len(issues[k]) = MaxIssues BY DEF LimitInv
<1>4. issues' = [issues EXCEPT ![k] = r] /\ omitted' = [omitted EXCEPT ![k] = n]
  BY DEF AppendIssues
<1> HIDE DEF all
<1>5. m \in Nat /\ m <= Len(all) /\ m <= MaxIssues BY <1>1, <1>2
<1>6. n \in Nat /\ (n > 0 => m = MaxIssues) /\ (n = 0 => omitted[k] = 0 /\ m = Len(all))
  <2>1. CASE Len(all) > MaxIssues
    <3>1. m = MaxIssues BY <1>1, <1>2, <2>1
    <3>2. n = omitted[k] + (Len(all) - MaxIssues) BY <2>1
    <3> QED BY <1>1, <1>2, <2>1, <3>1, <3>2
  <2>2. CASE ~(Len(all) > MaxIssues)
    <3>1. m = Len(all) BY <1>1, <1>2, <2>2
    <3>2. n = omitted[k] BY <1>1, <2>2
    <3>3. omitted[k] > 0 => Len(all) = MaxIssues BY <1>1, <1>2, <1>3, <2>2
    <3> QED BY <1>1, <3>1, <3>2, <3>3
  <2> QED BY <2>1, <2>2
<1> HIDE DEF m, n
<1>7. r \in Seq(Issue) /\ Len(r) = m /\ \A i \in 1..m : r[i] = all[i] BY <1>2, <1>5, CutIssues
<1>8. m = Len(all) => r = all BY <1>2, SubSeqFull
<1> HIDE DEF r
<1> QED BY <1>4, <1>5, <1>6, <1>7, <1>8 DEF all

-----------------------------------------------------------------------------
(* The buffer *)

\* What a search of the buffer returns moves the cursor on, and not past the bytes fed.
LEMMA SearchInBuffer ==
  ASSUME TypeOK, NEW k \in Framers, Available(k) > 0
  PROVE  /\ \A C \in SUBSET (1..(Available(k) - 1)) : FirstOrAll(k, C) \in 1..Available(k)
         /\ NextControl(k) \in 1..Available(k) /\ NextPlausible(k) \in 1..Available(k)
<1>1. Available(k) \in Nat \ {0} BY DEF TypeOK, Available
<1>2. ASSUME NEW C \in SUBSET (1..(Available(k) - 1)) PROVE FirstOrAll(k, C) \in 1..Available(k)
  <2>1. CASE C = {} BY <1>1, <2>1 DEF FirstOrAll
  <2>2. CASE C # {}
    <3>1. C \in SUBSET Nat BY <1>1
    <3>2. Min(C) \in C BY <2>2, <3>1, MinIsElement
    <3>3. Min(C) \in 1..(Available(k) - 1) BY <3>2
    <3>4. FirstOrAll(k, C) = Min(C) BY <2>2 DEF FirstOrAll
    <3> QED BY <1>1, <3>3, <3>4
  <2> QED BY <2>1, <2>2
<1>3. NextControl(k) \in 1..Available(k) BY <1>2 DEF NextControl
<1>4. NextPlausible(k) \in 1..Available(k)
  <2> DEFINE sure == {i \in 1..(Available(k) - 1) :
                        \/ Byte(k, i) = ACK
                        \/ /\ Byte(k, i) = STX /\ i + Header <= Available(k)
                           /\ \A j \in (i + 1)..(i + Header - 1) : Digit(k, j)}
             tail == {i \in 1..(Available(k) - 1) :
                        i > Available(k) - Header /\ Byte(k, i) = STX}
  <2>0. NextPlausible(k) = IF sure = {} /\ tail # {} THEN Max(tail) ELSE FirstOrAll(k, sure)
    BY DEF NextPlausible
  <2>1. sure \in SUBSET (1..(Available(k) - 1)) /\ tail \in SUBSET (1..(Available(k) - 1)) OBVIOUS
  <2> HIDE DEF sure, tail
  <2>2. CASE sure = {} /\ tail # {}
    <3>1. tail \in SUBSET (0..Available(k)) BY <1>1, <2>1
    <3>2. Max(tail) \in tail BY <1>1, <2>2, <3>1, MaxIsElement
    <3>3. Max(tail) \in 1..(Available(k) - 1) BY <2>1, <3>2
    <3>4. NextPlausible(k) = Max(tail) BY <2>0, <2>2
    <3> QED BY <1>1, <3>3, <3>4
  <2>3. CASE ~(sure = {} /\ tail # {}) BY <1>2, <2>0, <2>1, <2>3
  <2> QED BY <2>2, <2>3
<1> QED BY <1>2, <1>3, <1>4

\* A decimal header announces a length that is a number.
LEMMA DataLengthIsNat ==
  ASSUME TypeOK, NEW k \in Framers, HeaderValid(k)
  PROVE  DataLength(k) \in 0..999
<1>1. Available(k) >= 6 /\ \A i \in 1..5 : Byte(k, i) \in 48..57
  BY DEF HeaderValid, HasHeader, Header, Digit, Digits
<1>2. Byte(k, 3) \in 48..57 /\ Byte(k, 4) \in 48..57 /\ Byte(k, 5) \in 48..57 BY <1>1
<1> QED BY <1>2 DEF DataLength

-----------------------------------------------------------------------------
(* Steps *)

\* One framer moves on, the other stands still.
LEMMA OtherUntouched ==
  ASSUME Inv, NEW k \in Framers, NEW f, NEW a, NEW e, NEW r, NEW t, NEW n, NEW z,
         stream' = stream, fed' = [fed EXCEPT ![k] = f], at' = [at EXCEPT ![k] = a],
         events' = [events EXCEPT ![k] = e], issues' = [issues EXCEPT ![k] = r],
         truncated' = [truncated EXCEPT ![k] = t], omitted' = [omitted EXCEPT ![k] = n],
         finished' = [finished EXCEPT ![k] = z],
         f \in 0..Len(stream), a \in 0..Len(stream), a <= f,
         e \in Seq(Event), Len(e) <= MaxEvents, r \in Seq(Issue), Len(r) <= MaxIssues,
         t \in BOOLEAN, n \in Nat, z \in BOOLEAN,
         Disjoint(e, r, a), ~t /\ n = 0 => AllCovered(e, r, a),
         n > 0 => Len(r) = MaxIssues, z => a = Len(stream)
  PROVE  Inv'
<1>1. /\ fed \in [Framers -> 0..Len(stream)] /\ at \in [Framers -> 0..Len(stream)]
      /\ events \in [Framers -> Seq(Event)] /\ issues \in [Framers -> Seq(Issue)]
      /\ truncated \in [Framers -> BOOLEAN] /\ omitted \in [Framers -> Nat]
      /\ finished \in [Framers -> BOOLEAN] /\ stream \in Seq(0..255)
  BY DEF Inv, TypeOK
<1>2. /\ fed' \in [Framers -> 0..Len(stream')] /\ at' \in [Framers -> 0..Len(stream')]
      /\ events' \in [Framers -> Seq(Event)] /\ issues' \in [Framers -> Seq(Issue)]
      /\ truncated' \in [Framers -> BOOLEAN] /\ omitted' \in [Framers -> Nat]
      /\ finished' \in [Framers -> BOOLEAN] /\ stream' \in Seq(0..255)
  BY <1>1
<1>3. ASSUME NEW o \in Framers
      PROVE  \/ /\ fed'[o] = f /\ at'[o] = a /\ events'[o] = e /\ issues'[o] = r
                /\ truncated'[o] = t /\ omitted'[o] = n /\ finished'[o] = z
             \/ /\ fed'[o] = fed[o] /\ at'[o] = at[o] /\ events'[o] = events[o]
                /\ issues'[o] = issues[o] /\ truncated'[o] = truncated[o]
                /\ omitted'[o] = omitted[o] /\ finished'[o] = finished[o]
  BY <1>1
<1>4. ASSUME NEW o \in Framers
      PROVE  /\ at'[o] <= fed'[o] /\ Len(events'[o]) <= MaxEvents /\ Len(issues'[o]) <= MaxIssues
             /\ Disjoint(events'[o], issues'[o], at'[o])
             /\ ~truncated'[o] /\ omitted'[o] = 0 => AllCovered(events'[o], issues'[o], at'[o])
             /\ omitted'[o] > 0 => Len(issues'[o]) = MaxIssues
             /\ finished'[o] => at'[o] = Len(stream')
  BY <1>3 DEF Inv, TypeOK, SpanInv, LimitInv, FinishInv
<1>5. TypeOK' BY <1>2, <1>4 DEF TypeOK
<1>6. SpanInv' BY <1>4 DEF SpanInv
<1>7. LimitInv' BY <1>4 DEF LimitInv
<1>8. FinishInv' BY <1>4 DEF FinishInv
<1> QED BY <1>5, <1>6, <1>7, <1>8 DEF Inv

\* An assignment that leaves a field alone sets it to what it was.
LEMMA Same ==
  ASSUME TypeOK, NEW k \in Framers
  PROVE  /\ fed = [fed EXCEPT ![k] = fed[k]] /\ events = [events EXCEPT ![k] = events[k]]
         /\ issues = [issues EXCEPT ![k] = issues[k]] /\ at = [at EXCEPT ![k] = at[k]]
         /\ truncated = [truncated EXCEPT ![k] = truncated[k]]
         /\ omitted = [omitted EXCEPT ![k] = omitted[k]]
         /\ finished = [finished EXCEPT ![k] = finished[k]]
BY DEF TypeOK

\* The framer's own part of the invariant.
LEMMA OwnPart ==
  ASSUME Inv, NEW k \in Framers
  PROVE  /\ fed[k] \in 0..Len(stream) /\ at[k] \in 0..Len(stream) /\ at[k] <= fed[k]
         /\ Len(stream) \in Nat /\ Available(k) \in Nat /\ Available(k) = fed[k] - at[k]
         /\ events[k] \in Seq(Event) /\ Len(events[k]) \in Nat /\ Len(events[k]) <= MaxEvents
         /\ issues[k] \in Seq(Issue) /\ Len(issues[k]) \in Nat /\ Len(issues[k]) <= MaxIssues
         /\ omitted[k] \in Nat
         /\ Disjoint(events[k], issues[k], at[k])
         /\ ~truncated[k] /\ omitted[k] = 0 => AllCovered(events[k], issues[k], at[k])
         /\ omitted[k] > 0 => Len(issues[k]) = MaxIssues
BY DEF Inv, TypeOK, SpanInv, LimitInv, Available

\* Bytes skipped with an issue.
LEMMA RejectKeepsInv ==
  ASSUME Inv, NEW k \in Framers, NEW code \in Code, NEW n \in 1..Available(k),
         code # "invalid_bcc", ~finished[k], Reject(k, code, n)
  PROVE  Inv'
<1> DEFINE x == [code |-> code, offset |-> at[k], len |-> n]
           all == issues[k] \o <<x>>
           a == at[k] + n
<1>1. TypeOK /\ LimitInv BY DEF Inv
<1>2. /\ fed[k] \in 0..Len(stream) /\ at[k] \in 0..Len(stream) /\ at[k] <= fed[k]
      /\ Len(stream) \in Nat /\ Available(k) \in Nat /\ Available(k) = fed[k] - at[k]
      /\ events[k] \in Seq(Event) /\ Len(events[k]) <= MaxEvents
      /\ issues[k] \in Seq(Issue) /\ Disjoint(events[k], issues[k], at[k])
      /\ ~truncated[k] /\ omitted[k] = 0 => AllCovered(events[k], issues[k], at[k])
  BY OwnPart
<1>3. at[k] \in Nat /\ n \in Nat /\ a \in 0..Len(stream) /\ a \in Nat /\ a <= a /\ a <= fed[k] BY <1>2
<1>4. x \in Issue /\ x.offset = at[k] /\ x.len = n /\ x.code # "invalid_bcc" BY <1>3 DEF Issue
<1>5. <<x>> \in Seq(Issue) BY <1>4
<1>6. AppendIssues(k, <<x>>) /\ Consume(k, n) BY DEF Reject, AnIssue
<1> HIDE DEF x
<1>7. PICK r \in Seq(Issue), m \in Nat :
           /\ issues' = [issues EXCEPT ![k] = r] /\ omitted' = [omitted EXCEPT ![k] = m]
           /\ Len(r) <= MaxIssues /\ Len(r) <= Len(all)
           /\ \A i \in 1..Len(r) : r[i] = all[i]
           /\ m > 0 => Len(r) = MaxIssues
           /\ m = 0 => omitted[k] = 0 /\ r = all
  BY <1>1, <1>5, <1>6, AppendIssuesEffect
<1>8. all = Append(issues[k], x) /\ all \in Seq(Issue) BY <1>2, <1>4, ConcatOne
<1>9. /\ Disjoint(events[k], all, a)
      /\ AllCovered(events[k], issues[k], at[k]) => AllCovered(events[k], all, a)
  BY <1>2, <1>3, <1>4, <1>8, IssueAdded
<1> HIDE DEF all, a
<1>10. Disjoint(events[k], r, a) BY <1>2, <1>3, <1>7, <1>8, <1>9, SpansKept
<1>11. ~truncated[k] /\ m = 0 => AllCovered(events[k], r, a) BY <1>2, <1>7, <1>9
<1>12. /\ stream' = stream /\ fed' = [fed EXCEPT ![k] = fed[k]] /\ at' = [at EXCEPT ![k] = a]
       /\ events' = [events EXCEPT ![k] = events[k]]
       /\ truncated' = [truncated EXCEPT ![k] = truncated[k]]
       /\ finished' = [finished EXCEPT ![k] = FALSE]
  <2>1. /\ stream' = stream /\ fed' = fed /\ events' = events /\ truncated' = truncated
        /\ finished' = finished BY DEF Reject
  <2>2. at' = [at EXCEPT ![k] = a] BY <1>6 DEF Consume, a
  <2>3. finished[k] = FALSE BY <1>1 DEF TypeOK
  <2> QED BY <1>1, <2>1, <2>2, <2>3, Same
<1>13. truncated[k] \in BOOLEAN BY <1>1 DEF TypeOK
<1> QED BY <1>2, <1>3, <1>7, <1>10, <1>11, <1>12, <1>13, OtherUntouched

\* An event retained, with or without a remark about it.
LEMMA RetainKeepsInv ==
  ASSUME Inv, NEW k \in Framers, NEW e \in Event, NEW new \in Seq(Issue), ~finished[k],
         e.offset = at[k], e.len \in 0..Available(k), Len(events[k]) < MaxEvents,
         new = <<>> \/ \E x \in Issue : /\ new = <<x>> /\ x.code = "invalid_bcc"
                                        /\ x.offset = at[k] /\ x.len = e.len,
         events' = [events EXCEPT ![k] = Append(@, e)], AppendIssues(k, new), Consume(k, e.len),
         UNCHANGED <<stream, fed, truncated, finished>>
  PROVE  Inv'
<1> DEFINE more == Append(events[k], e)
           all == issues[k] \o new
           a == at[k] + e.len
<1>1. TypeOK /\ LimitInv BY DEF Inv
<1>2. /\ fed[k] \in 0..Len(stream) /\ at[k] \in 0..Len(stream) /\ at[k] <= fed[k]
      /\ Len(stream) \in Nat /\ Available(k) \in Nat /\ Available(k) = fed[k] - at[k]
      /\ events[k] \in Seq(Event) /\ Len(events[k]) \in Nat
      /\ issues[k] \in Seq(Issue) /\ Disjoint(events[k], issues[k], at[k])
      /\ ~truncated[k] /\ omitted[k] = 0 => AllCovered(events[k], issues[k], at[k])
  BY OwnPart
<1>3. /\ at[k] \in Nat /\ e.len \in Nat /\ a \in 0..Len(stream) /\ a \in Nat /\ a <= a
      /\ a <= fed[k]
  BY <1>2
<1>4. more \in Seq(Event) /\ Len(more) <= MaxEvents
  <2>1. more \in Seq(Event) /\ Len(more) = Len(events[k]) + 1 BY <1>2
  <2> QED BY <1>2, <2>1, FramingAssumption
<1>5. /\ Disjoint(more, issues[k], a)
      /\ AllCovered(events[k], issues[k], at[k]) => AllCovered(more, issues[k], a)
  BY <1>2, <1>3, EventAdded
<1> HIDE DEF more
<1>6. PICK r \in Seq(Issue), m \in Nat :
           /\ issues' = [issues EXCEPT ![k] = r] /\ omitted' = [omitted EXCEPT ![k] = m]
           /\ Len(r) <= MaxIssues /\ Len(r) <= Len(all)
           /\ \A i \in 1..Len(r) : r[i] = all[i]
           /\ m > 0 => Len(r) = MaxIssues
           /\ m = 0 => omitted[k] = 0 /\ r = all
  BY <1>1, AppendIssuesEffect
<1>7. /\ all \in Seq(Issue) /\ Disjoint(more, all, a)
      /\ AllCovered(more, issues[k], a) => AllCovered(more, all, a)
  <2>1. CASE new = <<>>
    <3>1. all = issues[k] BY <1>2, <2>1, ConcatEmptySeq
    <3> QED BY <1>2, <1>5, <3>1
  <2>2. ASSUME NEW x \in Issue, new = <<x>>, x.code = "invalid_bcc", x.offset = at[k],
               x.len = e.len
        PROVE  /\ all \in Seq(Issue) /\ Disjoint(more, all, a)
               /\ AllCovered(more, issues[k], a) => AllCovered(more, all, a)
    <3>1. all = Append(issues[k], x) /\ all \in Seq(Issue) BY <1>2, <2>2, ConcatOne
    <3>2. x.offset + x.len <= a BY <1>3, <2>2
    <3> HIDE DEF all, a
    <3> QED BY <1>2, <1>3, <1>4, <1>5, <2>2, <3>1, <3>2, RemarkAdded
  <2> QED BY <2>1, <2>2
<1> HIDE DEF all
<1>8. Disjoint(more, r, a) BY <1>3, <1>4, <1>6, <1>7, SpansKept
<1>9. ~truncated[k] /\ m = 0 => AllCovered(more, r, a) BY <1>2, <1>5, <1>6, <1>7
<1>10. /\ stream' = stream /\ fed' = [fed EXCEPT ![k] = fed[k]] /\ at' = [at EXCEPT ![k] = a]
       /\ events' = [events EXCEPT ![k] = more]
       /\ truncated' = [truncated EXCEPT ![k] = truncated[k]]
       /\ finished' = [finished EXCEPT ![k] = FALSE]
  <2>1. stream' = stream /\ fed' = fed /\ truncated' = truncated /\ finished' = finished OBVIOUS
  <2>2. at' = [at EXCEPT ![k] = a] BY DEF Consume
  <2>3. finished[k] = FALSE BY <1>1 DEF TypeOK
  <2>4. events' = [events EXCEPT ![k] = more] BY DEF more
  <2> QED BY <1>1, <2>1, <2>2, <2>3, <2>4, Same
<1>11. truncated[k] \in BOOLEAN BY <1>1 DEF TypeOK
<1> HIDE DEF a
<1> QED BY <1>2, <1>3, <1>4, <1>6, <1>8, <1>9, <1>10, <1>11, OtherUntouched

\* An event dropped for want of room: the result says so, and its remarks claim no byte.
LEMMA DropKeepsInv ==
  ASSUME Inv, NEW k \in Framers, NEW new \in Seq(Issue), NEW n \in 1..Available(k), ~finished[k],
         \A i \in 1..Len(new) : /\ new[i].code = "invalid_bcc" \/ new[i].len = 0
                                /\ new[i].offset + new[i].len <= at[k] + n,
         Len(new) <= 2,
         truncated' = [truncated EXCEPT ![k] = TRUE], AppendIssues(k, new), Consume(k, n),
         UNCHANGED <<stream, fed, events, finished>>
  PROVE  Inv'
<1> DEFINE all == issues[k] \o new
           a == at[k] + n
<1>1. TypeOK /\ LimitInv BY DEF Inv
<1>2. /\ fed[k] \in 0..Len(stream) /\ at[k] \in 0..Len(stream) /\ at[k] <= fed[k]
      /\ Len(stream) \in Nat /\ Available(k) \in Nat /\ Available(k) = fed[k] - at[k]
      /\ events[k] \in Seq(Event) /\ Len(events[k]) <= MaxEvents
      /\ issues[k] \in Seq(Issue) /\ Disjoint(events[k], issues[k], at[k])
  BY OwnPart
<1>3. /\ at[k] \in Nat /\ n \in Nat /\ a \in 0..Len(stream) /\ a \in Nat /\ a <= a
      /\ a <= fed[k] /\ at[k] <= a
  BY <1>2
<1>4. PICK r \in Seq(Issue), m \in Nat :
           /\ issues' = [issues EXCEPT ![k] = r] /\ omitted' = [omitted EXCEPT ![k] = m]
           /\ Len(r) <= MaxIssues /\ Len(r) <= Len(all)
           /\ \A i \in 1..Len(r) : r[i] = all[i]
           /\ m > 0 => Len(r) = MaxIssues
           /\ m = 0 => omitted[k] = 0 /\ r = all
  BY <1>1, AppendIssuesEffect
<1>5. Disjoint(events[k], issues[k], a)
  BY <1>2, <1>3, SpansKept
<1>6. all \in Seq(Issue) /\ Disjoint(events[k], all, a)
  <2>0. Len(new) \in Nat /\ \A i \in 1..Len(new) : new[i] \in Issue BY LenProperties, ElementOfSeq
  <2>1. CASE Len(new) = 0
    <3>1. new = <<>> BY <2>1, EmptySeq
    <3>2. all = issues[k] BY <1>2, <3>1, ConcatEmptySeq
    <3> QED BY <1>2, <1>5, <3>2
  <2>2. CASE Len(new) = 1
    <3>1. new = <<new[1]>> BY <2>2
    <3>2. new[1] \in Issue BY <2>0, <2>2
    <3>3. all = Append(issues[k], new[1]) /\ all \in Seq(Issue)
      <4>1. issues[k] \o <<new[1]>> = Append(issues[k], new[1]) BY <1>2, <3>2, ConcatOne
      <4>2. Append(issues[k], new[1]) \in Seq(Issue) BY <1>2, <3>2
      <4>3. all = issues[k] \o <<new[1]>> BY <3>1, Zenon
      <4> QED BY <4>1, <4>2, <4>3, Zenon
    <3>4. /\ new[1].code = "invalid_bcc" \/ new[1].len = 0
          /\ new[1].offset + new[1].len <= a
      BY <2>2
    <3> HIDE DEF all, a
    <3> QED BY <1>2, <1>3, <1>5, <3>2, <3>3, <3>4, RemarkAdded
  <2>3. CASE Len(new) = 2
    <3>1. new[1] \in Issue /\ new[2] \in Issue BY <2>0, <2>3
    <3>2. new = <<new[1]>> \o <<new[2]>>
      <4>1. new = <<new[1], new[2]>> BY <2>3
      <4> QED BY <4>1
    <3> DEFINE one == Append(issues[k], new[1])
    <3>3. one \in Seq(Issue) BY <1>2, <3>1
    <3>4. all = Append(one, new[2])
      <4>1. issues[k] \o (<<new[1]>> \o <<new[2]>>) = Append(Append(issues[k], new[1]), new[2])
        BY <1>2, <3>1, ConcatTwo
      <4>2. all = issues[k] \o (<<new[1]>> \o <<new[2]>>) BY <3>2, Zenon
      <4> QED BY <4>1, <4>2
    <3>5. /\ new[1].code = "invalid_bcc" \/ new[1].len = 0
          /\ new[1].offset + new[1].len <= a
          /\ new[2].code = "invalid_bcc" \/ new[2].len = 0
          /\ new[2].offset + new[2].len <= a
      <4>1. 1 \in 1..Len(new) /\ 2 \in 1..Len(new) BY <2>3
      <4> QED BY <4>1
    <3> HIDE DEF all, a
    <3>6. Disjoint(events[k], one, a) BY <1>2, <1>3, <1>5, <3>1, <3>5, RemarkAdded
    <3> HIDE DEF one
    <3> QED BY <1>2, <1>3, <3>1, <3>3, <3>4, <3>5, <3>6, RemarkAdded
  <2>4. Len(new) = 0 \/ Len(new) = 1 \/ Len(new) = 2
    <3>1. \A l \in Nat : l <= 2 => l = 0 \/ l = 1 \/ l = 2 OBVIOUS
    <3> QED BY <2>0, <3>1
  <2> QED BY <2>1, <2>2, <2>3, <2>4
<1> HIDE DEF all
<1>7. Disjoint(events[k], r, a) BY <1>2, <1>3, <1>4, <1>6, SpansKept
<1>8. /\ stream' = stream /\ fed' = [fed EXCEPT ![k] = fed[k]] /\ at' = [at EXCEPT ![k] = a]
      /\ events' = [events EXCEPT ![k] = events[k]]
      /\ finished' = [finished EXCEPT ![k] = FALSE]
  <2>1. stream' = stream /\ fed' = fed /\ events' = events /\ finished' = finished OBVIOUS
  <2>2. at' = [at EXCEPT ![k] = a] BY DEF Consume
  <2>3. finished[k] = FALSE BY <1>1 DEF TypeOK
  <2> QED BY <1>1, <2>1, <2>2, <2>3, Same
<1> HIDE DEF a
<1> QED BY <1>2, <1>3, <1>4, <1>7, <1>8, OtherUntouched

LEMMA MinOfPair ==
  ASSUME NEW a \in Int, NEW b \in Int
  PROVE  Min({a, b}) \in Int /\ Min({a, b}) <= a /\ Min({a, b}) <= b
<1>1. \E x \in {a, b} : \A y \in {a, b} : x <= y
  <2>1. CASE a <= b BY <2>1
  <2>2. CASE ~(a <= b) BY <2>2
  <2> QED BY <2>1, <2>2
<1>2. Min({a, b}) \in {a, b} /\ \A y \in {a, b} : Min({a, b}) <= y BY <1>1 DEF Min
<1> QED BY <1>2

LEMMA FeedKeepsInv == ASSUME Inv, NEW k \in Framers, Feed(k) PROVE Inv'
<1>1. TypeOK BY DEF Inv
<1>2. /\ fed[k] \in 0..Len(stream) /\ at[k] \in 0..Len(stream) /\ at[k] <= fed[k]
      /\ Len(stream) \in Nat /\ Available(k) \in Nat
      /\ events[k] \in Seq(Event) /\ Len(events[k]) <= MaxEvents
      /\ issues[k] \in Seq(Issue) /\ Len(issues[k]) <= MaxIssues
      /\ omitted[k] \in Nat
      /\ Disjoint(events[k], issues[k], at[k])
      /\ ~truncated[k] /\ omitted[k] = 0 => AllCovered(events[k], issues[k], at[k])
      /\ omitted[k] > 0 => Len(issues[k]) = MaxIssues
  BY OwnPart
<1> DEFINE room == Min({MaxBuffer - Available(k), Len(stream) - fed[k]})
<1>3. PICK n \in IF k = "whole" THEN {room} ELSE 1..room :
        n > 0 /\ fed' = [fed EXCEPT ![k] = @ + n]
  BY DEF Feed
<1>4. room \in Int /\ room <= Len(stream) - fed[k]
  <2>1. MaxBuffer - Available(k) \in Int /\ Len(stream) - fed[k] \in Int
    BY <1>2, FramingAssumption
  <2> QED BY <2>1, MinOfPair
<1> HIDE DEF room
<1>5. n \in Int /\ n <= room /\ n > 0 BY <1>3, <1>4
<1>6. fed[k] + n \in 0..Len(stream) /\ at[k] <= fed[k] + n BY <1>2, <1>4, <1>5
<1>7. /\ stream' = stream /\ fed' = [fed EXCEPT ![k] = fed[k] + n]
      /\ at' = [at EXCEPT ![k] = at[k]] /\ events' = [events EXCEPT ![k] = events[k]]
      /\ issues' = [issues EXCEPT ![k] = issues[k]]
      /\ truncated' = [truncated EXCEPT ![k] = truncated[k]]
      /\ omitted' = [omitted EXCEPT ![k] = omitted[k]]
      /\ finished' = [finished EXCEPT ![k] = finished[k]]
  <2>1. /\ stream' = stream /\ at' = at /\ events' = events /\ issues' = issues
        /\ truncated' = truncated /\ omitted' = omitted /\ finished' = finished
    BY DEF Feed
  <2> QED BY <1>1, <1>3, <2>1, Same
<1>8. truncated[k] \in BOOLEAN /\ finished[k] \in BOOLEAN BY <1>1 DEF TypeOK
<1>9. finished[k] => at[k] = Len(stream) BY DEF Inv, FinishInv
<1> QED BY <1>2, <1>6, <1>7, <1>8, <1>9, OtherUntouched

LEMMA FinishKeepsInv == ASSUME Inv, NEW k \in Framers, Finish(k) PROVE Inv'
<1> DEFINE x == [code |-> "truncated_frame", offset |-> at[k], len |-> Available(k)]
           left == IF Available(k) = 0 THEN <<>> ELSE <<x>>
           all == issues[k] \o left
           extra == omitted[k] + (IF Len(all) > MaxIssues THEN 1 ELSE 0)
           last == [code |-> "issue_limit_exceeded", offset |-> fed[k], len |-> 0]
           cut == SubSeq(all, 1, MaxIssues - 1)
           r == IF extra = 0 THEN all ELSE Append(cut, last)
           a == at[k] + Available(k)
<1>1. TypeOK /\ MaxIssues \in Nat \ {0} BY FramingAssumption DEF Inv
<1>2. /\ fed[k] \in 0..Len(stream) /\ at[k] \in 0..Len(stream) /\ at[k] <= fed[k]
      /\ Len(stream) \in Nat /\ Available(k) \in Nat /\ Available(k) = fed[k] - at[k]
      /\ events[k] \in Seq(Event) /\ Len(events[k]) <= MaxEvents
      /\ issues[k] \in Seq(Issue) /\ Len(issues[k]) \in Nat /\ Len(issues[k]) <= MaxIssues
      /\ omitted[k] \in Nat
      /\ Disjoint(events[k], issues[k], at[k])
      /\ ~truncated[k] /\ omitted[k] = 0 => AllCovered(events[k], issues[k], at[k])
      /\ omitted[k] > 0 => Len(issues[k]) = MaxIssues
  BY OwnPart
<1>3. /\ fed[k] = Len(stream) /\ finished' = [finished EXCEPT ![k] = TRUE]
      /\ omitted' = [omitted EXCEPT ![k] = extra] /\ issues' = [issues EXCEPT ![k] = r]
      /\ at' = [at EXCEPT ![k] = a]
      /\ stream' = stream /\ fed' = fed /\ events' = events /\ truncated' = truncated
  BY DEF Finish, AnIssue, Consume
<1>4. a = Len(stream) /\ a \in Nat /\ a <= a /\ at[k] \in Nat BY <1>2, <1>3
<1>5. x \in Issue /\ x.offset = at[k] /\ x.len = Available(k) /\ x.code # "invalid_bcc"
  BY <1>2, <1>4 DEF Issue, Code
<1>6. last \in Issue /\ last.len = 0 /\ last.offset + last.len <= a
  <2>1. last.offset = fed[k] /\ last.len = 0 /\ fed[k] \in Nat BY <1>2
  <2>2. last \in Issue BY <2>1 DEF Issue, Code
  <2> QED BY <1>3, <1>4, <2>1, <2>2
<1> HIDE DEF x, last
<1>7. /\ all \in Seq(Issue) /\ Disjoint(events[k], all, a)
      /\ AllCovered(events[k], issues[k], at[k]) => AllCovered(events[k], all, a)
      /\ Len(all) = Len(issues[k]) \/ Len(all) = Len(issues[k]) + 1
  <2>1. CASE Available(k) = 0
    <3>1. all = issues[k] BY <1>2, <2>1, ConcatEmptySeq
    <3>2. a = at[k] BY <1>2, <2>1
    <3> HIDE DEF all, a
    <3> QED BY <1>2, <3>1, <3>2
  <2>2. CASE Available(k) # 0
    <3>1. all = issues[k] \o <<x>> BY <2>2
    <3>2. issues[k] \o <<x>> = Append(issues[k], x) BY <1>2, <1>5, ConcatOne
    <3>3. all = Append(issues[k], x) BY <3>1, <3>2, Zenon
    <3>4. all \in Seq(Issue) /\ Len(all) = Len(issues[k]) + 1
      <4>1. Append(issues[k], x) \in Seq(Issue) /\ Len(Append(issues[k], x)) = Len(issues[k]) + 1
        BY <1>2, <1>5
      <4> QED BY <3>3, <4>1, Zenon
    <3>5. a = at[k] + x.len BY <1>5
    <3> HIDE DEF all, a
    <3>6. /\ Disjoint(events[k], all, a)
          /\ AllCovered(events[k], issues[k], at[k]) => AllCovered(events[k], all, a)
      BY <1>2, <1>4, <1>5, <3>3, <3>5, IssueAdded
    <3> QED BY <3>4, <3>6
  <2> QED BY <2>1, <2>2
<1> HIDE DEF all, left
<1>8. extra \in Nat BY <1>2
<1>9. CASE extra = 0
  <2>1. omitted[k] = 0 /\ ~(Len(all) > MaxIssues)
    <3>1. CASE Len(all) > MaxIssues
      <4>1. extra = omitted[k] + 1 BY <3>1
      <4> QED BY <1>2, <1>9, <4>1
    <3>2. CASE ~(Len(all) > MaxIssues)
      <4>1. extra = omitted[k] + 0 BY <3>2
      <4> QED BY <1>2, <1>9, <3>2, <4>1
    <3> QED BY <3>1, <3>2
  <2>2. Len(all) <= MaxIssues BY <1>1, <1>2, <1>7, <2>1
  <2>3. r = all BY <1>9
  <2> HIDE DEF extra, r, a
  <2>4. ~truncated[k] /\ extra = 0 => AllCovered(events[k], r, a) BY <1>2, <1>7, <2>1, <2>3
  <2>5. /\ fed' = [fed EXCEPT ![k] = fed[k]] /\ events' = [events EXCEPT ![k] = events[k]]
        /\ truncated' = [truncated EXCEPT ![k] = truncated[k]]
    BY <1>1, <1>3, Same
  <2>6. truncated[k] \in BOOLEAN /\ TRUE \in BOOLEAN BY <1>1 DEF TypeOK
  <2>7. ~(extra > 0) BY <1>9
  <2>8. a \in 0..Len(stream) /\ a <= fed[k] BY <1>2, <1>3, <1>4
  <2> QED BY <1>2, <1>3, <1>4, <1>7, <1>8, <2>2, <2>3, <2>4, <2>5, <2>6, <2>7, <2>8, OtherUntouched
<1>10. CASE extra # 0
  <2>1. Len(all) >= MaxIssues
    <3>1. CASE Len(all) > MaxIssues BY <1>1, <1>2, <1>7, <3>1
    <3>2. CASE ~(Len(all) > MaxIssues)
      <4>1. extra = omitted[k] + 0 BY <3>2
      <4>2. omitted[k] > 0 BY <1>2, <1>10, <4>1
      <4>3. Len(issues[k]) = MaxIssues BY <1>2, <4>2
      <4> QED BY <1>1, <1>2, <1>7, <4>3
    <3> QED BY <3>1, <3>2
  <2>2. MaxIssues - 1 \in Nat /\ MaxIssues - 1 <= Len(all) BY <1>1, <1>2, <1>7, <2>1
  <2>3. /\ cut \in Seq(Issue) /\ Len(cut) = MaxIssues - 1
        /\ \A i \in 1..(MaxIssues - 1) : cut[i] = all[i]
    BY <1>7, <2>2, CutIssues
  <2>4. r = Append(cut, last) BY <1>10
  <2> HIDE DEF extra, r, a, cut
  <2>5. r \in Seq(Issue) /\ Len(r) = MaxIssues
    <3>1. Append(cut, last) \in Seq(Issue) /\ Len(Append(cut, last)) = Len(cut) + 1 BY <1>6, <2>3
    <3> QED BY <1>1, <2>3, <2>4, <3>1
  <2>6. Disjoint(events[k], cut, a)
    <3>1. Len(cut) <= Len(all) /\ \A i \in 1..Len(cut) : cut[i] = all[i] BY <2>2, <2>3
    <3> QED BY <1>2, <1>4, <1>7, <2>3, <3>1, SpansKept
  <2>7. Disjoint(events[k], r, a) BY <1>2, <1>4, <1>6, <2>3, <2>4, <2>6, RemarkAdded
  <2>8. /\ fed' = [fed EXCEPT ![k] = fed[k]] /\ events' = [events EXCEPT ![k] = events[k]]
        /\ truncated' = [truncated EXCEPT ![k] = truncated[k]]
    BY <1>1, <1>3, Same
  <2>9. truncated[k] \in BOOLEAN /\ TRUE \in BOOLEAN BY <1>1 DEF TypeOK
  <2>10. a \in 0..Len(stream) /\ a <= fed[k] BY <1>2, <1>3, <1>4
  <2>11. Len(r) <= MaxIssues BY <1>1, <2>5
  <2> QED
    BY <1>2, <1>3, <1>4, <1>8, <1>10, <2>5, <2>7, <2>8, <2>9, <2>10, <2>11, OtherUntouched
<1> QED BY <1>9, <1>10

LEMMA TakeAckKeepsInv == ASSUME Inv, NEW k \in Framers, TakeAck(k) PROVE Inv'
<1>1. TypeOK /\ ~finished[k] /\ Available(k) > 0 BY DEF Inv, TakeAck, Running
<1>2. Available(k) \in Nat /\ at[k] \in Nat BY OwnPart
<1>3. Len(events[k]) \in Nat /\ MaxEvents \in Nat BY OwnPart, FramingAssumption
<1>4. stream' = stream /\ fed' = fed /\ finished' = finished BY DEF TakeAck
<1> DEFINE e == [kind |-> "ack", offset |-> at[k], len |-> 1, bcc_valid |-> TRUE]
<1>5. CASE Len(events[k]) < MaxEvents
  <2>1. /\ events' = [events EXCEPT ![k] = Append(@, e)] /\ AppendIssues(k, <<>>)
        /\ truncated' = truncated /\ Consume(k, 1)
    BY <1>3, <1>5 DEF TakeAck, Emit
  <2>2. e \in Event /\ e.offset = at[k] /\ e.len = 1 BY <1>2 DEF Event
  <2> HIDE DEF e
  <2>3. e.len \in 0..Available(k) /\ Consume(k, e.len) BY <1>1, <1>2, <2>1, <2>2
  <2>4. <<>> \in Seq(Issue) BY EmptySeq
  <2> QED BY <1>1, <1>4, <1>5, <2>1, <2>2, <2>3, <2>4, RetainKeepsInv
<1>6. CASE Len(events[k]) >= MaxEvents
  <2> DEFINE n == FirstOrAll(k, {i \in 1..(Available(k) - 1) : Byte(k, i) # ACK})
             x == [code |-> "event_limit_exceeded", offset |-> at[k], len |-> 0]
             note == IF truncated[k] THEN <<>> ELSE <<x>>
  <2>1. /\ truncated' = [truncated EXCEPT ![k] = TRUE] /\ AppendIssues(k, note \o <<>>)
        /\ events' = events /\ Consume(k, n)
    BY <1>3, <1>6 DEF TakeAck, Emit, AnIssue
  <2>2. n \in 1..Available(k) BY <1>1, SearchInBuffer
  <2>3. x \in Issue /\ x.offset = at[k] /\ x.len = 0 BY <1>2 DEF Issue, Code
  <2> HIDE DEF n, x
  <2>4. note \in Seq(Issue) BY <2>3
  <2>5. note \o <<>> = note BY <2>4, ConcatEmptySeq
  <2>6. Len(note) <= 2 /\ \A i \in 1..Len(note) : note[i] = x
    <3>1. CASE truncated[k] BY <3>1
    <3>2. CASE ~truncated[k] BY <3>2
    <3> QED BY <3>1, <3>2
  <2>7. x.offset + x.len <= at[k] + n BY <1>2, <2>2, <2>3
  <2> HIDE DEF note
  <2>8. \A i \in 1..Len(note) : /\ note[i].code = "invalid_bcc" \/ note[i].len = 0
                                /\ note[i].offset + note[i].len <= at[k] + n
    BY <2>3, <2>6, <2>7
  <2>9. AppendIssues(k, note) BY <2>1, <2>5
  <2> QED BY <1>1, <1>4, <2>1, <2>2, <2>4, <2>6, <2>8, <2>9, DropKeepsInv
<1> QED BY <1>3, <1>5, <1>6

LEMMA TakeFrameKeepsInv == ASSUME Inv, NEW k \in Framers, TakeFrame(k) PROVE Inv'
<1>1. TypeOK /\ ~finished[k] BY DEF Inv, TakeFrame, Running
<1>2. Available(k) \in Nat /\ at[k] \in Nat BY OwnPart
<1>3. Len(events[k]) \in Nat /\ MaxEvents \in Nat BY OwnPart, FramingAssumption
<1>4. stream' = stream /\ fed' = fed /\ finished' = finished BY DEF TakeFrame
<1>5. Size(k) \in 1..Available(k)
  <2>1. HeaderValid(k) /\ Available(k) >= Size(k) BY DEF TakeFrame, HasFrame, LengthValid
  <2>2. DataLength(k) \in 0..999 BY <1>1, <2>1, DataLengthIsNat
  <2>3. Size(k) = DataLength(k) + 11 BY DEF Size, Overhead, Header
  <2> QED BY <1>2, <2>1, <2>2, <2>3
<1> DEFINE valid == BccValid(k)
           size == Size(k)
           e == [kind |-> "frame", offset |-> at[k], len |-> size, bcc_valid |-> valid]
           x == [code |-> "invalid_bcc", offset |-> at[k], len |-> size]
           remark == IF valid THEN <<>> ELSE <<x>>
<1>6. valid \in BOOLEAN BY DEF BccValid
<1>7. Emit(k, "frame", size, valid, remark) /\ Consume(k, size) BY DEF TakeFrame, AnIssue
<1> HIDE DEF valid, size
<1>8. size \in Nat /\ size \in 1..Available(k) BY <1>5, <1>2 DEF size
<1>9. e \in Event /\ e.offset = at[k] /\ e.len = size BY <1>2, <1>6, <1>8 DEF Event
<1>10. x \in Issue /\ x.offset = at[k] /\ x.len = size /\ x.code = "invalid_bcc"
  BY <1>2, <1>8 DEF Issue, Code
<1>11. CASE Len(events[k]) < MaxEvents
  <2>1. /\ events' = [events EXCEPT ![k] = Append(@, e)] /\ AppendIssues(k, remark)
        /\ truncated' = truncated
    BY <1>3, <1>7, <1>11 DEF Emit
  <2> HIDE DEF e, x
  <2>2. e.len \in 0..Available(k) /\ Consume(k, e.len) BY <1>2, <1>7, <1>8, <1>9
  <2>3. remark \in Seq(Issue)
    <3>1. CASE valid BY <3>1
    <3>2. CASE ~valid BY <3>2, <1>10
    <3> QED BY <3>1, <3>2
  <2>4. remark = <<>> \/ \E y \in Issue : /\ remark = <<y>> /\ y.code = "invalid_bcc"
                                         /\ y.offset = at[k] /\ y.len = e.len
    BY <1>9, <1>10
  <2> HIDE DEF remark
  <2> QED BY <1>1, <1>4, <1>9, <1>11, <2>1, <2>2, <2>3, <2>4, RetainKeepsInv
<1>12. CASE Len(events[k]) >= MaxEvents
  <2> DEFINE y == [code |-> "event_limit_exceeded", offset |-> at[k], len |-> 0]
             note == IF truncated[k] THEN <<>> ELSE <<y>>
             new == note \o remark
  <2>1. /\ truncated' = [truncated EXCEPT ![k] = TRUE] /\ AppendIssues(k, new)
        /\ events' = events
    BY <1>3, <1>7, <1>12 DEF Emit, AnIssue
  <2>2. y \in Issue /\ y.offset = at[k] /\ y.len = 0 BY <1>2 DEF Issue, Code
  <2> HIDE DEF e, x, y
  <2>3. note \in Seq(Issue) /\ Len(note) \in 0..1 /\ \A i \in 1..Len(note) : note[i] = y
    <3>1. CASE truncated[k] BY <3>1
    <3>2. CASE ~truncated[k] BY <3>2, <2>2
    <3> QED BY <3>1, <3>2
  <2>4. remark \in Seq(Issue) /\ Len(remark) \in 0..1 /\ \A i \in 1..Len(remark) : remark[i] = x
    <3>1. CASE valid BY <3>1
    <3>2. CASE ~valid BY <3>2, <1>10
    <3> QED BY <3>1, <3>2
  <2> HIDE DEF note, remark
  <2>5. /\ new \in Seq(Issue) /\ Len(new) = Len(note) + Len(remark)
        /\ \A i \in 1..(Len(note) + Len(remark)) :
             new[i] = IF i <= Len(note) THEN note[i] ELSE remark[i - Len(note)]
    BY <2>3, <2>4, ConcatProperties
  <2> HIDE DEF new
  <2>6. Len(new) <= 2 BY <2>3, <2>4, <2>5
  <2>7. ASSUME NEW i \in 1..Len(new) PROVE new[i] = y \/ new[i] = x
    <3>1. CASE i <= Len(note)
      <4>1. i \in 1..Len(note) /\ new[i] = note[i] BY <2>3, <2>4, <2>5, <3>1
      <4> QED BY <2>3, <4>1
    <3>2. CASE ~(i <= Len(note))
      <4>1. i - Len(note) \in 1..Len(remark) /\ new[i] = remark[i - Len(note)]
        BY <2>3, <2>4, <2>5, <3>2
      <4> QED BY <2>4, <4>1
    <3> QED BY <3>1, <3>2
  <2>8. x.offset + x.len <= at[k] + size /\ y.offset + y.len <= at[k] + size
    BY <1>2, <1>8, <1>10, <2>2
  <2>9. \A i \in 1..Len(new) : /\ new[i].code = "invalid_bcc" \/ new[i].len = 0
                               /\ new[i].offset + new[i].len <= at[k] + size
    BY <1>10, <2>2, <2>7, <2>8
  <2> QED BY <1>1, <1>4, <1>7, <1>8, <2>1, <2>5, <2>6, <2>9, DropKeepsInv
<1> QED BY <1>3, <1>11, <1>12

LEMMA StepKeepsInv == ASSUME Inv, NEW k \in Framers, Step(k) PROVE Inv'
<1>1. TypeOK BY DEF Inv
<1>2. Available(k) > 0 => NextControl(k) \in 1..Available(k) /\ NextPlausible(k) \in 1..Available(k)
  BY <1>1, SearchInBuffer
<1>3. HasHeader(k) => Available(k) > 0 BY DEF HasHeader, AtFrame
<1>4. CASE SkipUnframed(k)
  <2>1. /\ ~finished[k] /\ Available(k) > 0 /\ "unframed_bytes" \in Code
        /\ Reject(k, "unframed_bytes", NextControl(k))
    BY <1>4 DEF SkipUnframed, Running, Code
  <2> QED BY <1>2, <2>1, RejectKeepsInv
<1>5. CASE RejectHeader(k)
  <2>1. /\ ~finished[k] /\ HasHeader(k) /\ "malformed_header" \in Code
        /\ Reject(k, "malformed_header", NextPlausible(k))
    BY <1>5 DEF RejectHeader, Running, Code
  <2> QED BY <1>2, <1>3, <2>1, RejectKeepsInv
<1>6. CASE RejectLength(k)
  <2>1. /\ ~finished[k] /\ HasHeader(k) /\ "oversize_frame" \in Code
        /\ Reject(k, "oversize_frame", NextControl(k))
    BY <1>6 DEF RejectLength, Running, Code, HeaderValid
  <2> QED BY <1>2, <1>3, <2>1, RejectKeepsInv
<1>7. CASE RejectTerminator(k)
  <2>1. /\ ~finished[k] /\ HasHeader(k) /\ "invalid_terminator" \in Code
        /\ Reject(k, "invalid_terminator", NextControl(k))
    BY <1>7 DEF RejectTerminator, Running, Code, HasFrame, LengthValid, HeaderValid
  <2> QED BY <1>2, <1>3, <2>1, RejectKeepsInv
<1> QED BY <1>4, <1>5, <1>6, <1>7, FeedKeepsInv, TakeAckKeepsInv, TakeFrameKeepsInv,
           FinishKeepsInv DEF Step

-----------------------------------------------------------------------------
(* Theorems *)

LEMMA InitInv == Init => Inv
<1> SUFFICES ASSUME Init PROVE Inv OBVIOUS
<1>1. stream \in Seq(0..255) /\ Len(stream) \in Nat BY FramingAssumption DEF Init
<1>2. <<>> \in Seq(Event) /\ <<>> \in Seq(Issue) /\ Len(<<>>) = 0 BY EmptySeq
<1>3. MaxEvents \in Nat /\ MaxIssues \in Nat BY FramingAssumption
<1>4. TypeOK BY <1>1, <1>2, <1>3 DEF Init, TypeOK
<1>5. Disjoint(<<>>, <<>>, 0) /\ AllCovered(<<>>, <<>>, 0) BY DEF Disjoint, AllCovered
<1>6. SpanInv BY <1>5 DEF Init, SpanInv
<1>7. LimitInv /\ FinishInv BY DEF Init, LimitInv, FinishInv
<1> QED BY <1>4, <1>6, <1>7 DEF Inv

\* Whatever the stream and however it is cut, the events and the issues of a framer lie
\* before its cursor, share no byte, and cover all of them until a limit is hit; issues
\* are only omitted once the list is full; and a finished framer has consumed everything.
THEOREM Invariance == Spec => []Inv
<1>1. Inv /\ [Next]_vars => Inv'
  <2> SUFFICES ASSUME Inv, [Next]_vars PROVE Inv' OBVIOUS
  <2>1. CASE Next BY <2>1, StepKeepsInv DEF Next
  <2>2. CASE UNCHANGED vars
    <3>1. /\ stream' = stream /\ fed' = fed /\ at' = at /\ events' = events /\ issues' = issues
          /\ truncated' = truncated /\ omitted' = omitted /\ finished' = finished
      BY <2>2 DEF vars
    <3> QED BY <3>1 DEF Inv, TypeOK, SpanInv, LimitInv, FinishInv
  <2> QED BY <2>1, <2>2
<1> QED BY InitInv, <1>1, PTL DEF Spec

\* The cursor stays within the bytes fed and both result lists within their limits
\* (_consume, _append_event, _append_issue, finish).
THEOREM LimitsHold == Spec => []TypeOK
<1>1. Inv => TypeOK BY DEF Inv
<1> QED BY <1>1, Invariance, PTL

\* The fail-safe for a full buffer in feed is dead code: a framer that waits has room,
\* because a header announces at most MaxData bytes and the buffer holds such a frame.
THEOREM RoomToWait == Spec => []BufferHasRoom
<1>1. Inv => BufferHasRoom
  <2> SUFFICES ASSUME Inv, NEW k \in Framers, Waiting(k) PROVE Available(k) < MaxBuffer
    BY DEF BufferHasRoom
  <2>1. TypeOK BY DEF Inv
  <2>2. Available(k) \in Nat BY OwnPart
  <2>3. MaxBuffer \in Nat /\ MaxData \in Nat /\ MaxBuffer >= MaxData + 11
    BY FramingAssumption DEF Overhead, Header
  <2>4. CASE Available(k) = 0 BY <2>3, <2>4
  <2>5. CASE AtFrame(k) /\ ~HasHeader(k) BY <2>2, <2>3, <2>5 DEF HasHeader, Header
  <2>6. CASE LengthValid(k) /\ ~HasFrame(k)
    <3>1. DataLength(k) \in 0..999 BY <2>1, <2>6, DataLengthIsNat DEF LengthValid
    <3>2. DataLength(k) <= MaxData /\ ~(Available(k) >= DataLength(k) + 11)
      BY <2>6 DEF LengthValid, HasFrame, Size, Overhead, Header
    <3> QED BY <2>2, <2>3, <3>1, <3>2
  <2> QED BY <2>4, <2>5, <2>6 DEF Waiting
<1> QED BY <1>1, Invariance, PTL

\* Every byte consumed is in exactly one event or issue, and in at most one once a limit
\* was hit: no resynchronisation reads a byte twice or drops one silently (_process).
THEOREM EveryByteOnce == Spec => []BytesAccountedOnce
<1>1. Inv => BytesAccountedOnce
  <2> SUFFICES ASSUME Inv, NEW k \in Framers, NEW b \in 0..(at[k] - 1)
               PROVE  LET n == Cardinality(EventsAt(k, b)) + Cardinality(IssuesAt(k, b))
                      IN  n <= 1 /\ (~truncated[k] /\ omitted[k] = 0 => n = 1)
    BY DEF BytesAccountedOnce
  <2> DEFINE E == EventsAt(k, b)
             I == IssuesAt(k, b)
  <2>1. /\ \A i, j \in E : i = j
        /\ \A i, j \in I : i = j
        /\ E = {} \/ I = {}
    BY DEF Inv, SpanInv, Disjoint, EventsAt, IssuesAt
  <2>2. ~truncated[k] /\ omitted[k] = 0 => E # {} \/ I # {}
    BY DEF Inv, SpanInv, AllCovered, EventsAt, IssuesAt
  <2> HIDE DEF E, I
  <2>3. Cardinality(E) = IF E = {} THEN 0 ELSE 1
    <3>1. CASE E = {} BY <3>1, FS_EmptySet
    <3>2. CASE E # {}
      <4>1. PICK i \in E : TRUE BY <3>2
      <4>2. E = {i} BY <2>1, <4>1
      <4>3. Cardinality({i}) = 1 BY FS_Singleton
      <4> QED BY <3>2, <4>2, <4>3
    <3> QED BY <3>1, <3>2
  <2>4. Cardinality(I) = IF I = {} THEN 0 ELSE 1
    <3>1. CASE I = {} BY <3>1, FS_EmptySet
    <3>2. CASE I # {}
      <4>1. PICK i \in I : TRUE BY <3>2
      <4>2. I = {i} BY <2>1, <4>1
      <4>3. Cardinality({i}) = 1 BY FS_Singleton
      <4> QED BY <3>2, <4>2, <4>3
    <3> QED BY <3>1, <3>2
  <2> QED BY <2>1, <2>2, <2>3, <2>4 DEF E, I
<1> QED BY <1>1, Invariance, PTL

\* A result that calls itself valid lies entirely in retained ACKs and frames
\* (FramingResult.valid).
THEOREM ValidMeansComplete == Spec => []ValidIsComplete
<1>1. Inv => ValidIsComplete
  <2> SUFFICES ASSUME Inv, NEW k \in Framers, finished[k], Valid(k),
                      NEW b \in 0..(Len(stream) - 1)
               PROVE  EventsAt(k, b) # {}
    BY DEF ValidIsComplete
  <2>1. at[k] = Len(stream) BY DEF Inv, FinishInv
  <2>2. issues[k] = <<>> /\ ~truncated[k] /\ omitted[k] = 0 BY DEF Valid
  <2>3. DOMAIN issues[k] = {}
    <3>1. issues[k] \in Seq(Issue) BY OwnPart
    <3>2. DOMAIN issues[k] = 1..Len(issues[k]) /\ Len(issues[k]) = 0 BY <2>2, <3>1, LenProperties
    <3> QED BY <3>2
  <2>4. AllCovered(events[k], issues[k], Len(stream)) BY <2>1, <2>2 DEF Inv, SpanInv
  <2>5. \E i \in DOMAIN events[k] : Covers(events[k][i], b) BY <2>3, <2>4 DEF AllCovered
  <2> QED BY <2>5 DEF EventsAt
<1> QED BY <1>1, Invariance, PTL

-----------------------------------------------------------------------------
(* One stream, two segmentations *)

LEMMA MinIsLeast == ASSUME NEW S \in SUBSET Nat, NEW y \in S PROVE Min(S) <= y
BY LeastOffset DEF Min

LEMMA MaxIsGreatest ==
  ASSUME NEW n \in Nat, NEW S \in SUBSET (0..n), NEW y \in S PROVE Max(S) >= y
<1>1. \E x \in S : \A z \in S : x >= z
  <2> DEFINE D == {d \in 0..n : n - d \in S}
  <2>1. D \in SUBSET Nat OBVIOUS
  <2>2. \A z \in S : n - z \in D
    <3>1. \A z \in S : n - z \in 0..n /\ n - (n - z) = z OBVIOUS
    <3> QED BY <3>1
  <2>3. PICK d \in D : \A e \in D : d <= e BY <2>1, <2>2, LeastOffset
  <2>4. n - d \in S /\ d \in 0..n BY <2>3
  <2>5. \A z \in S : n - d >= z
    <3> TAKE z \in S
    <3>1. d <= n - z /\ z \in 0..n BY <2>2, <2>3
    <3> QED BY <2>4, <3>1
  <2> QED BY <2>4, <2>5
<1> QED BY <1>1 DEF Max

LEMMA SizeIsNat == ASSUME TypeOK, NEW k \in Framers, HeaderValid(k) PROVE Size(k) \in Nat
BY DataLengthIsNat DEF Size, Overhead, Header

\* At its cursor a framer sees what the stream holds there.
LEMMA AtCursor ==
  ASSUME TypeOK, NEW k \in Framers
  PROVE  /\ DataLength(k) = LengthAt(stream, at[k]) /\ Size(k) = SizeAt(stream, at[k])
         /\ BccValid(k) = BccAt(stream, at[k])
         /\ Byte(k, 0) = stream[at[k] + 1]
         /\ HeaderValid(k) => Firm(stream, at[k]) /\ stream[at[k] + 1] = STX
         /\ HasHeader(k) /\ ~HeaderValid(k) => ~Firm(stream, at[k])
         /\ LengthValid(k) => Announced(stream, at[k])
         /\ HasFrame(k) => at[k] + Size(k) <= Len(stream)
<1>1. /\ at[k] \in 0..Len(stream) /\ fed[k] \in 0..Len(stream) /\ at[k] <= fed[k]
      /\ Len(stream) \in Nat
  BY DEF TypeOK
<1>2. DataLength(k) = LengthAt(stream, at[k]) BY DEF DataLength, LengthAt, Byte
<1>3. Size(k) = SizeAt(stream, at[k]) BY <1>2 DEF Size, SizeAt
<1>4. BccValid(k) = BccAt(stream, at[k]) BY <1>3 DEF BccValid, BccAt, Bytes, Byte
<1>5. Byte(k, 0) = stream[at[k] + 1] BY <1>1 DEF Byte
<1>6. ASSUME HasHeader(k)
      PROVE  /\ stream[at[k] + 1] = STX /\ at[k] + Header <= Len(stream)
             /\ HeaderValid(k) <=> Firm(stream, at[k])
  <2>1. Byte(k, 0) = STX /\ Available(k) >= Header BY <1>6 DEF HasHeader, AtFrame
  <2>2. at[k] + Header <= Len(stream) BY <1>1, <2>1 DEF Available, Header
  <2>3. HeaderValid(k) <=> \A i \in 1..(Header - 1) : stream[at[k] + 1 + i] \in Digits
    BY <1>6 DEF HeaderValid, Digit, Byte
  <2>4. stream[at[k] + 1] # ACK BY <1>5, <2>1 DEF STX, ACK
  <2> QED BY <1>5, <2>1, <2>2, <2>3, <2>4 DEF Firm
<1>7. HeaderValid(k) => HasHeader(k) BY DEF HeaderValid
<1>8. LengthValid(k) => HeaderValid(k) /\ DataLength(k) <= MaxData BY DEF LengthValid
<1>9. LengthValid(k) => Announced(stream, at[k]) BY <1>2, <1>6, <1>7, <1>8 DEF Announced
<1>10. HasFrame(k) => at[k] + Size(k) <= Len(stream)
  <2> SUFFICES ASSUME HasFrame(k) PROVE at[k] + Size(k) <= Len(stream) OBVIOUS
  <2>1. DataLength(k) \in 0..999 BY <1>8, DataLengthIsNat DEF HasFrame
  <2>2. Size(k) \in Int /\ Available(k) >= Size(k) BY <2>1 DEF HasFrame, Size, Overhead, Header
  <2> QED BY <1>1, <2>2 DEF Available
<1> QED BY <1>2, <1>3, <1>4, <1>5, <1>6, <1>7, <1>9, <1>10

\* NextControl passes over no STX and no ACK.
LEMMA NoControlSkipped ==
  ASSUME TypeOK, NEW k \in Framers, Available(k) > 0,
         NEW p \in (at[k] + 1)..(at[k] + NextControl(k) - 1)
  PROVE  ~Firm(stream, p)
<1> DEFINE C == {i \in 1..(Available(k) - 1) : Byte(k, i) \in {STX, ACK}}
           i == p - at[k]
<1>1. at[k] \in Nat /\ Available(k) \in Nat BY DEF TypeOK, Available
<1>2. NextControl(k) \in 1..Available(k) BY SearchInBuffer
<1>3. i \in 1..(NextControl(k) - 1) /\ i \in 1..(Available(k) - 1) BY <1>1, <1>2
<1>4. Byte(k, i) = stream[p + 1]
  <2>1. at[k] + 1 + i = p + 1 BY <1>1, <1>2
  <2> QED BY <2>1 DEF Byte
<1>5. NextControl(k) = IF C = {} THEN Available(k) ELSE Min(C) BY DEF NextControl, FirstOrAll
<1>6. C \in SUBSET Nat BY <1>1
<1>7. i \in C <=> stream[p + 1] \in {STX, ACK} BY <1>3, <1>4
<1> HIDE DEF C, i
<1>8. i \notin C
  <2> SUFFICES ASSUME i \in C PROVE FALSE OBVIOUS
  <2>1. Min(C) <= i /\ NextControl(k) = Min(C) BY <1>5, <1>6, MinIsLeast
  <2> QED BY <1>2, <1>3, <2>1
<1> QED BY <1>7, <1>8 DEF Firm

\* NextPlausible passes over no ACK and no STX with a decimal header: a later STX or ACK
\* within five bytes shows that the header of an earlier STX is not decimal.
LEMMA NothingPlausibleSkipped ==
  ASSUME TypeOK, NEW k \in Framers, Available(k) > 0,
         NEW p \in (at[k] + 1)..(at[k] + NextPlausible(k) - 1)
  PROVE  ~Firm(stream, p)
<1> DEFINE sure == {i \in 1..(Available(k) - 1) :
                      \/ Byte(k, i) = ACK
                      \/ /\ Byte(k, i) = STX /\ i + Header <= Available(k)
                         /\ \A j \in (i + 1)..(i + Header - 1) : Digit(k, j)}
           tail == {i \in 1..(Available(k) - 1) :
                      i > Available(k) - Header /\ Byte(k, i) = STX}
           x == p - at[k]
<1> SUFFICES ASSUME Firm(stream, p) PROVE FALSE OBVIOUS
<1>1. at[k] \in Nat /\ Available(k) \in Nat BY DEF TypeOK, Available
<1>2. NextPlausible(k) \in 1..Available(k) BY SearchInBuffer
<1>3. x \in 1..(NextPlausible(k) - 1) /\ x \in 1..(Available(k) - 1) BY <1>1, <1>2
<1>4. NextPlausible(k) = IF sure = {} /\ tail # {} THEN Max(tail)
                         ELSE IF sure = {} THEN Available(k) ELSE Min(sure)
  BY DEF NextPlausible, FirstOrAll
<1>5. p = at[k] + x /\ x \in Int BY <1>1, <1>2
<1>6. Byte(k, x) = stream[p + 1]
  <2>1. at[k] + 1 + x = p + 1 BY <1>1, <1>5
  <2> QED BY <2>1 DEF Byte
<1>7. ASSUME stream[p + 1] = STX, NEW j \in (x + 1)..(x + 5) PROVE Digit(k, j)
  <2>1. stream[p + 1] # ACK BY <1>7 DEF STX, ACK
  <2>2. \A i \in 1..5 : stream[p + 1 + i] \in Digits BY <2>1 DEF Firm, Header
  <2>3. j - x \in 1..5 /\ p + 1 + (j - x) = at[k] + 1 + j BY <1>1, <1>5
  <2>4. stream[at[k] + 1 + j] \in Digits BY <2>2, <2>3
  <2> QED BY <2>4 DEF Digit, Byte
<1>8. stream[p + 1] = ACK \/ stream[p + 1] = STX BY DEF Firm
<1>9. x \in sure \/ (x \in tail /\ stream[p + 1] = STX)
  <2>1. CASE stream[p + 1] = ACK BY <1>3, <1>6, <2>1
  <2>2. CASE stream[p + 1] = STX /\ x + Header <= Available(k)
    <3>1. \A j \in (x + 1)..(x + Header - 1) : Digit(k, j) BY <1>3, <1>7, <2>2 DEF Header
    <3> QED BY <1>3, <1>6, <2>2, <3>1
  <2>3. CASE stream[p + 1] = STX /\ ~(x + Header <= Available(k))
    <3>1. x > Available(k) - Header BY <1>1, <1>3, <2>3 DEF Header
    <3> QED BY <1>3, <1>6, <2>3, <3>1
  <2> QED BY <1>8, <2>1, <2>2, <2>3
<1>10. \A m \in sure \cup tail : m \in 1..(Available(k) - 1) /\ ~Digit(k, m)
  BY DEF Digit, Digits, STX, ACK
<1>11. x \in tail => x > Available(k) - 6 BY DEF Header
<1>12. sure \in SUBSET Nat /\ tail \in SUBSET (0..Available(k)) BY <1>1
<1> HIDE DEF sure, tail, x
<1>13. CASE sure # {}
  <2>1. NextPlausible(k) = Min(sure) /\ Min(sure) \in sure BY <1>4, <1>12, <1>13, MinIsElement
  <2>2. x \notin sure
    <3>1. ASSUME x \in sure PROVE FALSE
      <4>1. Min(sure) <= x BY <1>12, <3>1, MinIsLeast
      <4> QED BY <1>2, <1>3, <2>1, <4>1
    <3> QED BY <3>1
  <2>3. x \in tail /\ stream[p + 1] = STX BY <1>9, <2>2
  <2>4. Min(sure) \in (x + 1)..(x + 5) BY <1>1, <1>2, <1>3, <1>10, <1>11, <2>1, <2>3
  <2> QED BY <1>7, <1>10, <2>1, <2>3, <2>4
<1>14. CASE sure = {}
  <2>1. x \in tail /\ stream[p + 1] = STX BY <1>9, <1>14
  <2>2. NextPlausible(k) = Max(tail) BY <1>4, <1>14, <2>1
  <2>3. Max(tail) \in tail BY <1>1, <1>12, <2>1, MaxIsElement
  <2>4. Max(tail) \in (x + 1)..(x + 5) BY <1>1, <1>2, <1>3, <1>10, <1>11, <2>1, <2>2, <2>3
  <2> QED BY <1>7, <1>10, <2>1, <2>3, <2>4
<1> QED BY <1>13, <1>14

\* What is read at a position, and that it has a length.
LEMMA Readings ==
  ASSUME NEW s, NEW p \in Nat, s[p + 1] = ACK \/ Complete(s, p)
  PROVE  /\ Reading(s, p).offset = p /\ Reading(s, p).len \in Nat \ {0}
         /\ s[p + 1] = ACK => Reading(s, p).kind = "ack" /\ Reading(s, p).len = 1
         /\ s[p + 1] # ACK => Reading(s, p).kind = "frame" /\ Complete(s, p) /\ Firm(s, p)
<1>1. CASE s[p + 1] = ACK BY <1>1 DEF Reading
<1>2. CASE s[p + 1] # ACK
  <2>1. Complete(s, p) /\ Firm(s, p) BY <1>2 DEF Complete, Announced
  <2>2. \A i \in 1..(Header - 1) : s[p + 1 + i] \in Digits BY <1>2, <2>1, Zenon DEF Firm
  <2>3. 3 \in 1..(Header - 1) /\ 4 \in 1..(Header - 1) /\ 5 \in 1..(Header - 1) BY DEF Header
  <2>4. s[p + 1 + 3] \in Digits /\ s[p + 1 + 4] \in Digits /\ s[p + 1 + 5] \in Digits
    BY <2>2, <2>3, Zenon
  <2>5. LengthAt(s, p) \in 0..999 BY <2>4 DEF LengthAt, Digits
  <2>6. SizeAt(s, p) \in Nat \ {0} BY <2>5 DEF SizeAt, Overhead, Header
  <2> QED BY <1>2, <2>1, <2>6 DEF Reading
<1> QED BY <1>1, <1>2

\* A frame is not both complete and cut short, and no ACK begins one.
LEMMA CutShortIsNoEvent ==
  ASSUME NEW s, NEW p \in Nat, Len(s) \in Nat, CutShort(s, p), s[p + 1] = ACK \/ Complete(s, p)
  PROVE  FALSE
<1>1. s[p + 1] # ACK BY DEF CutShort, Announced, STX, ACK
<1>2. Reading(s, p).len \in Nat /\ Reading(s, p).len = SizeAt(s, p) /\ Complete(s, p)
  BY <1>1, Readings DEF Reading
<1> QED BY <1>2 DEF CutShort, Complete

\* The cursor moves over bytes that hold nothing.
LEMMA PassedOver ==
  ASSUME NEW s, NEW ev, NEW n \in Nat, NEW m \in Nat,
         Faithful(s, ev, n, FALSE), \A p \in n..(m - 1) : ~Due(s, p)
  PROVE  Faithful(s, ev, m, FALSE)
<1>1. \A p \in 0..(m - 1) : p \in 0..(n - 1) \/ p \in n..(m - 1) OBVIOUS
<1> QED BY <1>1 DEF Faithful, NothingMissed

\* The cursor moves over an ACK or a frame, which becomes an event.
LEMMA EventTaken ==
  ASSUME NEW s, NEW ev \in Seq(Event), NEW n \in Nat, NEW e \in Event,
         e = Reading(s, n), s[n + 1] = ACK \/ Complete(s, n),
         \A i \in DOMAIN ev : ev[i].offset + ev[i].len <= n,
         Faithful(s, ev, n, FALSE)
  PROVE  Faithful(s, Append(ev, e), n + e.len, FALSE)
<1> DEFINE more == Append(ev, e)
<1>1. Len(ev) \in Nat /\ DOMAIN ev = 1..Len(ev) /\ \A i \in DOMAIN ev : ev[i] \in Event
  BY LenProperties, ElementOfSeq
<1>2. /\ DOMAIN more = 1..(Len(ev) + 1)
      /\ \A i \in DOMAIN ev : i \in DOMAIN more /\ more[i] = ev[i]
      /\ \A i \in DOMAIN more : i \in DOMAIN ev \/ i = Len(ev) + 1
      /\ Len(ev) + 1 \in DOMAIN more /\ more[Len(ev) + 1] = e
  BY <1>1
<1>3. e.offset = n /\ e.len \in Nat \ {0} BY Readings
<1>4. \A i \in DOMAIN ev : ev[i].offset \in Nat /\ ev[i].offset < n
  <2> TAKE i \in DOMAIN ev
  <2>1. ev[i] = Reading(s, ev[i].offset) /\ (s[ev[i].offset + 1] = ACK \/ Complete(s, ev[i].offset))
    BY DEF Faithful, Genuine
  <2>2. Reading(s, ev[i].offset).len \in Nat \ {0} BY <1>1, <2>1, Readings DEF Event
  <2>3. ev[i].len \in Nat \ {0} /\ ev[i].offset \in Nat BY <1>1, <2>1, <2>2 DEF Event
  <2>4. ev[i].offset + ev[i].len <= n OBVIOUS
  <2> QED BY <2>3, <2>4
<1> HIDE DEF more
<1>5. Genuine(s, more) BY <1>2, <1>3 DEF Faithful, Genuine
<1>6. InOrder(more)
  <2> SUFFICES ASSUME NEW i \in DOMAIN more, NEW j \in DOMAIN more, i < j
               PROVE  more[i].offset < more[j].offset
    BY DEF InOrder
  <2>1. i \in DOMAIN ev BY <1>1, <1>2
  <2>2. CASE j \in DOMAIN ev BY <1>2, <2>1, <2>2 DEF Faithful, InOrder
  <2>3. CASE j = Len(ev) + 1 BY <1>2, <1>3, <1>4, <2>1, <2>3
  <2> QED BY <1>2, <2>2, <2>3
<1>7. NothingMissed(s, more, n + e.len, FALSE)
  <2>1. ASSUME NEW p \in 0..((n + e.len) - 1), Due(s, p)
        PROVE  \E i \in DOMAIN more : Covers(more[i], p)
    <3>1. CASE p < n
      <4>1. p \in 0..(n - 1) BY <1>3, <3>1
      <4>2. PICK i \in DOMAIN ev : Covers(ev[i], p) BY <2>1, <4>1 DEF Faithful, NothingMissed
      <4> QED BY <1>2, <4>2
    <3>2. CASE ~(p < n)
      <4>1. Covers(e, p) BY <1>3, <3>2 DEF Covers
      <4> QED BY <1>2, <4>1
    <3> QED BY <3>1, <3>2
  <2> QED BY <2>1 DEF NothingMissed
<1> QED BY <1>5, <1>6, <1>7 DEF Faithful, more

\* One framer moves on, the other stands still.
LEMMA TrailKept ==
  ASSUME TypeOK, TrailInv, NEW k \in Framers, NEW a, NEW e, NEW t \in BOOLEAN, NEW z,
         stream' = stream, at' = [at EXCEPT ![k] = a], events' = [events EXCEPT ![k] = e],
         truncated' = [truncated EXCEPT ![k] = t], finished' = [finished EXCEPT ![k] = z],
         ~t => Faithful(stream, e, a, z)
  PROVE  TrailInv'
<1> SUFFICES ASSUME NEW o \in Framers, ~truncated'[o]
             PROVE  Faithful(stream', events'[o], at'[o], finished'[o])
  BY DEF TrailInv
<1>1. /\ at \in [Framers -> 0..Len(stream)] /\ events \in [Framers -> Seq(Event)]
      /\ truncated \in [Framers -> BOOLEAN] /\ finished \in [Framers -> BOOLEAN]
  BY DEF TypeOK
<1>2. CASE o = k
  <2>1. at'[o] = a /\ events'[o] = e /\ truncated'[o] = t /\ finished'[o] = z BY <1>1, <1>2
  <2> QED BY <2>1
<1>3. CASE o # k
  <2>1. /\ at'[o] = at[o] /\ events'[o] = events[o] /\ truncated'[o] = truncated[o]
        /\ finished'[o] = finished[o]
    BY <1>1, <1>3
  <2>2. ~truncated[o] BY <2>1
  <2>3. Faithful(stream, events[o], at[o], finished[o]) BY <2>2 DEF TrailInv
  <2> QED BY <2>1, <2>3
<1> QED BY <1>2, <1>3

\* Bytes are given up, and none of them holds an ACK or a frame that is due.
LEMMA RejectKeepsTrail ==
  ASSUME Inv, TrailInv, NEW k \in Framers, NEW code, NEW n \in 1..Available(k),
         Reject(k, code, n), ~finished[k], ~Due(stream, at[k]),
         \A p \in (at[k] + 1)..(at[k] + n - 1) : ~Firm(stream, p)
  PROVE  TrailInv'
<1>1. TypeOK BY DEF Inv
<1>2. /\ at \in [Framers -> 0..Len(stream)] /\ events \in [Framers -> Seq(Event)]
      /\ truncated \in [Framers -> BOOLEAN] /\ finished \in [Framers -> BOOLEAN]
      /\ at[k] \in Nat /\ Available(k) \in Nat
  BY <1>1 DEF TypeOK, Available
<1>3. /\ stream' = stream /\ at' = [at EXCEPT ![k] = at[k] + n]
      /\ events' = [events EXCEPT ![k] = events[k]]
      /\ truncated' = [truncated EXCEPT ![k] = truncated[k]]
      /\ finished' = [finished EXCEPT ![k] = FALSE]
  BY <1>2 DEF Reject, Consume
<1>4. \A p \in at[k]..((at[k] + n) - 1) : ~Due(stream, p)
  <2> TAKE p \in at[k]..((at[k] + n) - 1)
  <2>1. p = at[k] \/ p \in (at[k] + 1)..(at[k] + n - 1) BY <1>2
  <2> QED BY <2>1 DEF Due
<1>5. ~truncated[k] => Faithful(stream, events[k], at[k], FALSE)
  BY <1>2 DEF TrailInv
<1>6. at[k] + n \in Nat BY <1>2
<1>7. ~truncated[k] => Faithful(stream, events[k], at[k] + n, FALSE)
  <2> DEFINE m == at[k] + n
             from == at[k]
  <2>1. m \in Nat /\ from \in Nat /\ \A p \in from..(m - 1) : ~Due(stream, p) BY <1>2, <1>4, <1>6
  <2>2. ~truncated[k] => Faithful(stream, events[k], from, FALSE) BY <1>5
  <2> HIDE DEF m, from
  <2>3. ~truncated[k] => Faithful(stream, events[k], m, FALSE) BY <2>1, <2>2, PassedOver
  <2> QED BY <2>3 DEF m
<1> QED BY <1>1, <1>2, <1>3, <1>7, TrailKept

LEMMA FeedKeepsTrail == ASSUME Inv, TrailInv, NEW k \in Framers, Feed(k) PROVE TrailInv'
<1>1. /\ stream' = stream /\ at' = at /\ events' = events /\ truncated' = truncated
      /\ finished' = finished
  BY DEF Feed
<1> QED BY <1>1 DEF TrailInv

\* What Emit and Consume do to the events: one more, or none from now on.
LEMMA EmitKeepsTrail ==
  ASSUME Inv, TrailInv, NEW k \in Framers, NEW kind, NEW len, NEW valid, NEW new, NEW n,
         Emit(k, kind, len, valid, new), Consume(k, n), stream' = stream, finished' = finished,
         ~finished[k], Len(events[k]) < MaxEvents => n = len,
         stream[at[k] + 1] = ACK \/ Complete(stream, at[k]), valid \in BOOLEAN,
         kind \in {"ack", "frame"},
         Reading(stream, at[k]) = [kind |-> kind, offset |-> at[k], len |-> len, bcc_valid |-> valid]
  PROVE  TrailInv'
<1>1. TypeOK BY DEF Inv
<1>2. /\ at \in [Framers -> 0..Len(stream)] /\ events \in [Framers -> Seq(Event)]
      /\ truncated \in [Framers -> BOOLEAN] /\ finished \in [Framers -> BOOLEAN]
      /\ at[k] \in Nat /\ events[k] \in Seq(Event)
  BY <1>1 DEF TypeOK
<1>3. /\ at' = [at EXCEPT ![k] = at[k] + n] /\ finished' = [finished EXCEPT ![k] = FALSE]
  BY <1>2 DEF Consume
<1> DEFINE e == [kind |-> kind, offset |-> at[k], len |-> len, bcc_valid |-> valid]
<1>4. CASE Len(events[k]) < MaxEvents /\ truncated' = truncated
                                      /\ events' = [events EXCEPT ![k] = Append(@, e)]
  <2>1. e.len = len /\ len \in Nat BY <1>2, Readings
  <2>2. e \in Event BY <1>2, <2>1 DEF Event
  <2>3. e = Reading(stream, at[k]) OBVIOUS
  <2>4. events' = [events EXCEPT ![k] = Append(events[k], e)] BY <1>2, <1>4
  <2> HIDE DEF e
  <2>5. \A i \in DOMAIN events[k] : events[k][i].offset + events[k][i].len <= at[k]
    BY DEF Inv, SpanInv, Disjoint
  <2>6. ~truncated[k] => Faithful(stream, events[k], at[k], FALSE) BY <1>2 DEF TrailInv
  <2>7. ~truncated[k] => Faithful(stream, Append(events[k], e), at[k] + e.len, FALSE)
    BY <1>2, <2>2, <2>3, <2>5, <2>6, EventTaken
  <2>8. n = e.len /\ truncated' = [truncated EXCEPT ![k] = truncated[k]] BY <1>2, <1>4, <2>1
  <2> QED BY <1>1, <1>2, <1>3, <2>4, <2>7, <2>8, TrailKept
<1>5. CASE truncated' = [truncated EXCEPT ![k] = TRUE] /\ events' = events
  <2>1. events' = [events EXCEPT ![k] = events[k]] BY <1>2, <1>5
  <2> QED BY <1>1, <1>3, <1>5, <2>1, TrailKept
<1> QED BY <1>4, <1>5 DEF Emit

LEMMA TakeAckKeepsTrail == ASSUME Inv, TrailInv, NEW k \in Framers, TakeAck(k) PROVE TrailInv'
<1>1. TypeOK /\ ~finished[k] BY DEF Inv, TakeAck, Running
<1>2. stream[at[k] + 1] = ACK BY <1>1, AtCursor DEF TakeAck
<1>3. Reading(stream, at[k]) = [kind |-> "ack", offset |-> at[k], len |-> 1, bcc_valid |-> TRUE]
  BY <1>2 DEF Reading
<1> DEFINE n == IF Len(events[k]) < MaxEvents THEN 1
                ELSE FirstOrAll(k, {i \in 1..(Available(k) - 1) : Byte(k, i) # ACK})
<1>4. Emit(k, "ack", 1, TRUE, <<>>) /\ Consume(k, n) /\ stream' = stream /\ finished' = finished
  BY DEF TakeAck
<1>5. Len(events[k]) < MaxEvents => n = 1 OBVIOUS
<1> HIDE DEF n
<1> QED BY <1>1, <1>2, <1>3, <1>4, <1>5, EmitKeepsTrail

LEMMA TakeFrameKeepsTrail == ASSUME Inv, TrailInv, NEW k \in Framers, TakeFrame(k) PROVE TrailInv'
<1>1. TypeOK /\ ~finished[k] /\ HasFrame(k) /\ Terminated(k) BY DEF Inv, TakeFrame, Running
<1>2. Announced(stream, at[k]) /\ at[k] + SizeAt(stream, at[k]) <= Len(stream)
  BY <1>1, AtCursor DEF HasFrame
<1>3. Size(k) = SizeAt(stream, at[k]) /\ BccValid(k) = BccAt(stream, at[k]) BY <1>1, AtCursor
<1>4. Complete(stream, at[k]) BY <1>1, <1>2, <1>3 DEF Complete, Terminated, Byte
<1>5. stream[at[k] + 1] # ACK BY <1>2 DEF Announced, STX, ACK
<1>6. Reading(stream, at[k]) =
        [kind |-> "frame", offset |-> at[k], len |-> Size(k), bcc_valid |-> BccValid(k)]
  BY <1>3, <1>5 DEF Reading
<1> DEFINE new == IF BccValid(k) THEN <<>> ELSE AnIssue(k, "invalid_bcc", Size(k))
<1>7. /\ Emit(k, "frame", Size(k), BccValid(k), new) /\ Consume(k, Size(k))
      /\ stream' = stream /\ finished' = finished
  BY DEF TakeFrame
<1>8. BccValid(k) \in BOOLEAN BY DEF BccValid
<1> HIDE DEF new
<1> QED BY <1>1, <1>4, <1>6, <1>7, <1>8, EmitKeepsTrail

\* What is left of the stream is too short for a header, or a frame that is cut short.
LEMMA FinishKeepsTrail == ASSUME Inv, TrailInv, NEW k \in Framers, Finish(k) PROVE TrailInv'
<1>1. TypeOK /\ ~finished[k] /\ Waiting(k) /\ fed[k] = Len(stream) BY DEF Inv, Finish, Running
<1>2. /\ at \in [Framers -> 0..Len(stream)] /\ events \in [Framers -> Seq(Event)]
      /\ truncated \in [Framers -> BOOLEAN] /\ finished \in [Framers -> BOOLEAN]
      /\ at[k] \in Nat /\ Len(stream) \in Nat /\ Available(k) = Len(stream) - at[k]
      /\ at[k] <= Len(stream)
  BY <1>1 DEF TypeOK, Available
<1>3. /\ stream' = stream /\ at' = [at EXCEPT ![k] = Len(stream)]
      /\ events' = [events EXCEPT ![k] = events[k]]
      /\ truncated' = [truncated EXCEPT ![k] = truncated[k]]
      /\ finished' = [finished EXCEPT ![k] = TRUE]
  <2>1. at[k] + Available(k) = Len(stream) BY <1>2
  <2> QED BY <1>2, <2>1 DEF Finish, Consume
<1>4. ASSUME NEW p \in at[k]..(Len(stream) - 1), Due(stream, p)
      PROVE  /\ CutShort(stream, at[k]) /\ at[k] \in 0..p
             /\ \A i \in DOMAIN events[k] : events[k][i].offset + events[k][i].len <= at[k]
  <2>1. p + 6 <= Len(stream) BY <1>4 DEF Due, Firm, Header
  <2>2. Available(k) >= 6 BY <1>2, <2>1
  <2>3. LengthValid(k) /\ ~HasFrame(k) BY <1>1, <2>2 DEF Waiting, HasHeader, Header
  <2>4. Announced(stream, at[k]) /\ Size(k) = SizeAt(stream, at[k]) BY <1>1, <2>3, AtCursor
  <2>5. HeaderValid(k) BY <2>3 DEF LengthValid
  <2>6. Size(k) \in Nat BY <1>1, <2>5, SizeIsNat
  <2>7. at[k] + Size(k) > Len(stream) BY <1>2, <2>3, <2>6 DEF HasFrame
  <2>8. CutShort(stream, at[k]) BY <2>4, <2>7 DEF CutShort
  <2>9. at[k] \in 0..p BY <1>2
  <2> QED BY <2>8, <2>9 DEF Inv, SpanInv, Disjoint
<1>5. ASSUME ~truncated[k] PROVE Faithful(stream, events[k], Len(stream), TRUE)
  <2>1. Faithful(stream, events[k], at[k], FALSE) BY <1>1, <1>2, <1>5 DEF TrailInv
  <2>2. ASSUME NEW p \in 0..(Len(stream) - 1), Due(stream, p)
        PROVE  \/ \E i \in DOMAIN events[k] : Covers(events[k][i], p)
               \/ \E w \in 0..p : /\ CutShort(stream, w)
                                  /\ \A i \in DOMAIN events[k] :
                                       events[k][i].offset + events[k][i].len <= w
    <3>1. CASE p \in 0..(at[k] - 1) BY <2>1, <2>2, <3>1 DEF Faithful, NothingMissed
    <3>2. CASE p \in at[k]..(Len(stream) - 1) BY <1>4, <2>2, <3>2
    <3>3. p \in 0..(at[k] - 1) \/ p \in at[k]..(Len(stream) - 1) BY <1>2
    <3> QED BY <3>1, <3>2, <3>3
  <2> QED BY <2>1, <2>2 DEF Faithful, NothingMissed
<1> QED BY <1>1, <1>2, <1>3, <1>5, TrailKept

LEMMA StepKeepsTrail == ASSUME Inv, TrailInv, NEW k \in Framers, Step(k) PROVE TrailInv'
<1>1. TypeOK BY DEF Inv
<1>2. ASSUME Available(k) > 0
      PROVE  /\ NextControl(k) \in 1..Available(k) /\ NextPlausible(k) \in 1..Available(k)
             /\ \A p \in (at[k] + 1)..(at[k] + NextControl(k) - 1) : ~Firm(stream, p)
             /\ \A p \in (at[k] + 1)..(at[k] + NextPlausible(k) - 1) : ~Firm(stream, p)
  BY <1>1, <1>2, SearchInBuffer, NoControlSkipped, NothingPlausibleSkipped
<1>3. HasHeader(k) => Available(k) > 0 BY DEF HasHeader, AtFrame
<1>4. CASE SkipUnframed(k)
  <2>1. /\ ~finished[k] /\ Available(k) > 0 /\ Reject(k, "unframed_bytes", NextControl(k))
        /\ Byte(k, 0) \notin {STX, ACK}
    BY <1>4 DEF SkipUnframed, Running
  <2>2. ~Due(stream, at[k]) BY <1>1, <2>1, AtCursor DEF Due, Firm
  <2> QED BY <1>2, <2>1, <2>2, RejectKeepsTrail
<1>5. CASE RejectHeader(k)
  <2>1. /\ ~finished[k] /\ HasHeader(k) /\ ~HeaderValid(k)
        /\ Reject(k, "malformed_header", NextPlausible(k))
    BY <1>5 DEF RejectHeader, Running
  <2>2. ~Due(stream, at[k]) BY <1>1, <2>1, AtCursor DEF Due
  <2> QED BY <1>2, <1>3, <2>1, <2>2, RejectKeepsTrail
<1>6. CASE RejectLength(k)
  <2>1. /\ ~finished[k] /\ HeaderValid(k) /\ HasHeader(k) /\ ~LengthValid(k)
        /\ Reject(k, "oversize_frame", NextControl(k))
    BY <1>6 DEF RejectLength, Running, HeaderValid
  <2>2. ~(LengthAt(stream, at[k]) <= MaxData) /\ stream[at[k] + 1] = STX
    BY <1>1, <2>1, AtCursor DEF LengthValid
  <2>3. ~Due(stream, at[k]) BY <2>2 DEF Due, Complete, CutShort, Announced, STX, ACK
  <2> QED BY <1>2, <1>3, <2>1, <2>3, RejectKeepsTrail
<1>7. CASE RejectTerminator(k)
  <2>1. /\ ~finished[k] /\ HasFrame(k) /\ LengthValid(k) /\ HeaderValid(k) /\ HasHeader(k)
        /\ ~Terminated(k) /\ Reject(k, "invalid_terminator", NextControl(k))
    BY <1>7 DEF RejectTerminator, Running, HasFrame, LengthValid, HeaderValid
  <2>2. /\ stream[at[k] + 1] = STX /\ Size(k) = SizeAt(stream, at[k])
        /\ at[k] + Size(k) <= Len(stream)
    BY <1>1, <2>1, AtCursor
  <2>3. stream[at[k] + 1 + (SizeAt(stream, at[k]) - 1)] # ETX BY <2>1, <2>2 DEF Terminated, Byte
  <2>4. at[k] \in Nat /\ Len(stream) \in Nat /\ Size(k) \in Nat
    <3>1. at[k] \in Nat /\ Len(stream) \in Nat BY <1>1 DEF TypeOK
    <3> QED BY <1>1, <2>1, <3>1, SizeIsNat
  <2>5. ~CutShort(stream, at[k]) BY <2>2, <2>4 DEF CutShort
  <2>6. ~Complete(stream, at[k]) BY <2>3 DEF Complete
  <2>7. ~Due(stream, at[k]) BY <2>2, <2>5, <2>6 DEF Due, STX, ACK
  <2> QED BY <1>2, <1>3, <2>1, <2>7, RejectKeepsTrail
<1> QED BY <1>4, <1>5, <1>6, <1>7, FeedKeepsTrail, TakeAckKeepsTrail, TakeFrameKeepsTrail,
           FinishKeepsTrail DEF Step

Apart(ev, n) ==
  \A b \in 0..(n - 1) : \A i, j \in DOMAIN ev : Covers(ev[i], b) /\ Covers(ev[j], b) => i = j

ReadAt(ev, p) == \E i \in DOMAIN ev : ev[i].offset = p

\* The first position at which one framer reads an event and the other does not cannot
\* exist.  Where the other has a frame in its place or the rest of the stream was a frame
\* cut short, that frame begins earlier, and there both agree.
LEMMA NoFirstDifference ==
  ASSUME NEW s, NEW ev \in Seq(Event), NEW other \in Seq(Event), Len(s) \in Nat,
         Faithful(s, ev, Len(s), TRUE), Faithful(s, other, Len(s), TRUE), Apart(ev, Len(s)),
         NEW p \in Nat, Firm(s, p), ReadAt(ev, p), ~ReadAt(other, p),
         \A q \in Nat : (q < p /\ Firm(s, q)) => (ReadAt(ev, q) <=> ReadAt(other, q))
  PROVE  FALSE
<1>0. PICK i \in DOMAIN ev : ev[i].offset = p BY DEF ReadAt
<1>1. /\ \A j \in DOMAIN ev : ev[j].offset \in Nat /\ ev[j].len \in Nat
      /\ \A j \in DOMAIN other : other[j].offset \in Nat /\ other[j].len \in Nat
  <2>1. \A j \in DOMAIN ev : ev[j] \in Event BY LenProperties, ElementOfSeq
  <2>2. \A j \in DOMAIN other : other[j] \in Event BY LenProperties, ElementOfSeq
  <2> QED BY <2>1, <2>2 DEF Event
<1>2. ASSUME NEW e \in {ev, other}, NEW j \in DOMAIN e
      PROVE  /\ e[j] = Reading(s, e[j].offset) /\ e[j].len > 0
             /\ s[e[j].offset + 1] = ACK \/ Complete(s, e[j].offset)
             /\ e[j].len > 1 => Firm(s, e[j].offset)
  <2>1. Genuine(s, e) BY DEF Faithful
  <2>2. /\ e[j] = Reading(s, e[j].offset)
        /\ s[e[j].offset + 1] = ACK \/ Complete(s, e[j].offset)
    BY <2>1 DEF Genuine
  <2>3. e[j].offset \in Nat BY <1>1
  <2>4. /\ Reading(s, e[j].offset).len \in Nat \ {0}
        /\ s[e[j].offset + 1] = ACK => Reading(s, e[j].offset).len = 1
        /\ s[e[j].offset + 1] # ACK => Firm(s, e[j].offset)
    BY <2>2, <2>3, Readings
  <2> QED BY <2>2, <2>4
<1>3. p \in 0..(Len(s) - 1) BY DEF Firm, Header
<1>4. s[p + 1] = ACK \/ Complete(s, p) BY <1>0, <1>2
<1>5. Covers(ev[i], p) BY <1>0, <1>1, <1>2 DEF Covers
<1>6. Due(s, p) BY <1>4 DEF Due
<1>7. ASSUME NEW j \in DOMAIN other, Covers(other[j], p) PROVE FALSE
  <2> DEFINE w == other[j].offset
  <2>1. w \in Nat /\ other[j].len \in Nat /\ w # p BY <1>1 DEF ReadAt
  <2>2. w < p /\ other[j].len > 1 BY <1>3, <1>7, <2>1 DEF Covers
  <2>3. Firm(s, w) BY <1>2, <2>2
  <2>4. PICK m \in DOMAIN ev : ev[m].offset = w BY <2>1, <2>2, <2>3 DEF ReadAt
  <2>5. ev[m] = Reading(s, w) /\ other[j] = Reading(s, w) BY <1>2, <2>4
  <2>6. Covers(ev[m], p) BY <1>7, <2>5
  <2>7. m = i BY <1>3, <1>5, <2>6 DEF Apart
  <2> QED BY <1>0, <2>1, <2>4, <2>7
<1>8. ASSUME NEW w \in 0..p, CutShort(s, w),
             \A j \in DOMAIN other : other[j].offset + other[j].len <= w
      PROVE  FALSE
  <2>1. w \in Nat /\ Due(s, w) BY <1>3, <1>8 DEF Due, CutShort, Announced
  <2>2. w # p BY <1>3, <1>4, <1>8, CutShortIsNoEvent
  <2>3. w < p /\ w \in 0..(Len(s) - 1) BY <1>3, <2>1, <2>2
  <2>4. ASSUME NEW m \in DOMAIN ev, Covers(ev[m], w) PROVE FALSE
    <3> DEFINE u == ev[m].offset
    <3>1. u \in Nat /\ ev[m].len \in Nat BY <1>1
    <3>2. u # w
      <4>1. s[u + 1] = ACK \/ Complete(s, u) BY <1>2
      <4> QED BY <1>8, <2>1, <4>1, CutShortIsNoEvent
    <3>3. u < w /\ w < u + ev[m].len /\ ev[m].len > 1 BY <2>1, <2>4, <3>1, <3>2 DEF Covers
    <3>4. Firm(s, u) /\ u < p BY <1>2, <1>3, <2>3, <2>1, <3>1, <3>3
    <3>5. PICK j \in DOMAIN other : other[j].offset = u BY <3>1, <3>4 DEF ReadAt
    <3>6. other[j] = Reading(s, u) /\ ev[m] = Reading(s, u) BY <1>2, <3>5
    <3>7. u + ev[m].len <= w BY <1>8, <3>5, <3>6
    <3> QED BY <2>1, <3>1, <3>3, <3>7
  <2>5. ASSUME NEW v \in 0..w, \A m \in DOMAIN ev : ev[m].offset + ev[m].len <= v PROVE FALSE
    <3>1. p + ev[i].len <= v BY <1>0, <2>5
    <3> QED BY <1>1, <1>3, <2>1, <2>3, <2>5, <3>1
  <2> QED BY <2>1, <2>3, <2>4, <2>5 DEF Faithful, NothingMissed
<1> QED BY <1>3, <1>6, <1>7, <1>8 DEF Faithful, NothingMissed

\* Away from the end of the stream two finished framers read the same events.
LEMMA SameEvents ==
  ASSUME NEW s, NEW ev \in Seq(Event), NEW other \in Seq(Event), Len(s) \in Nat,
         Faithful(s, ev, Len(s), TRUE), Faithful(s, other, Len(s), TRUE),
         Apart(ev, Len(s)), Apart(other, Len(s)),
         NEW i \in DOMAIN ev, Firm(s, ev[i].offset)
  PROVE  \E j \in DOMAIN other : other[j] = ev[i]
<1> DEFINE D == {p \in Nat : Firm(s, p) /\ ~(ReadAt(ev, p) <=> ReadAt(other, p))}
<1>1. /\ \A j \in DOMAIN ev : ev[j].offset \in Nat
      /\ \A j \in DOMAIN other : other[j].offset \in Nat
  <2>1. \A j \in DOMAIN ev : ev[j] \in Event BY LenProperties, ElementOfSeq
  <2>2. \A j \in DOMAIN other : other[j] \in Event BY LenProperties, ElementOfSeq
  <2> QED BY <2>1, <2>2 DEF Event
<1>2. D = {}
  <2> SUFFICES ASSUME D # {} PROVE FALSE OBVIOUS
  <2>1. D \in SUBSET Nat OBVIOUS
  <2>2. PICK p \in D : \A y \in D : p <= y BY <2>1, LeastOffset
  <2>3. p \in Nat /\ Firm(s, p) /\ ~(ReadAt(ev, p) <=> ReadAt(other, p)) BY <2>2
  <2>4. \A q \in Nat : (q < p /\ Firm(s, q)) => (ReadAt(ev, q) <=> ReadAt(other, q))
    <3> SUFFICES ASSUME NEW q \in Nat, q < p, Firm(s, q), ~(ReadAt(ev, q) <=> ReadAt(other, q))
                 PROVE  FALSE
      OBVIOUS
    <3>1. p <= q BY <2>2
    <3> QED BY <2>3, <3>1
  <2>5. CASE ReadAt(ev, p) /\ ~ReadAt(other, p) BY <2>3, <2>4, <2>5, NoFirstDifference
  <2>6. CASE ReadAt(other, p) /\ ~ReadAt(ev, p)
    <3>1. \A q \in Nat : (q < p /\ Firm(s, q)) => (ReadAt(other, q) <=> ReadAt(ev, q)) BY <2>4
    <3> QED BY <2>3, <2>6, <3>1, NoFirstDifference
  <2> QED BY <2>3, <2>5, <2>6
<1>3. ReadAt(ev, ev[i].offset) /\ ev[i].offset \in Nat BY <1>1 DEF ReadAt
<1>4. ReadAt(other, ev[i].offset) BY <1>2, <1>3
<1>5. PICK j \in DOMAIN other : other[j].offset = ev[i].offset BY <1>4 DEF ReadAt
<1> QED BY <1>5 DEF Faithful, Genuine

LEMMA InitTrail == Init => TrailInv
<1> SUFFICES ASSUME Init, NEW k \in Framers
             PROVE  Faithful(stream, events[k], at[k], finished[k])
  BY DEF TrailInv
<1>1. events[k] = <<>> /\ at[k] = 0 BY DEF Init
<1>2. DOMAIN events[k] = {} BY <1>1
<1> QED BY <1>1, <1>2 DEF Faithful, Genuine, InOrder, NothingMissed

\* Until the event limit is hit, a framer's events are what the stream holds, in order,
\* and it misses no ACK and no frame before the last five bytes, wherever its chunks end.
THEOREM TrailInvariance == Spec => []TrailInv
<1>1. Inv /\ TrailInv /\ [Next]_vars => TrailInv'
  <2> SUFFICES ASSUME Inv, TrailInv, [Next]_vars PROVE TrailInv' OBVIOUS
  <2>1. CASE Next BY <2>1, StepKeepsTrail DEF Next
  <2>2. CASE UNCHANGED vars BY <2>2 DEF vars, TrailInv
  <2> QED BY <2>1, <2>2
<1> QED BY <1>1, InitTrail, Invariance, PTL DEF Spec

\* The frames decoded do not depend on how the stream was cut into chunks, and an ACK that
\* one segmentation sees and another does not is among the last five bytes (feed,
\* _next_plausible_control, _process).
THEOREM SegmentationsAgree == Spec => []OnlyTailAcksDiffer
<1>1. Inv /\ TrailInv => OnlyTailAcksDiffer
  <2> SUFFICES ASSUME Inv, TrailInv, Compared PROVE OnlyTailAcksDiffer
    BY DEF OnlyTailAcksDiffer
  <2>1. ASSUME NEW k \in Framers
        PROVE  /\ events[k] \in Seq(Event) /\ Len(stream) \in Nat
               /\ Faithful(stream, events[k], Len(stream), TRUE)
               /\ Apart(events[k], Len(stream))
    <3>1. finished[k] = TRUE /\ ~truncated[k] /\ finished \in [Framers -> BOOLEAN]
      BY DEF Compared, Inv, TypeOK
    <3>2. at[k] = Len(stream) BY <3>1 DEF Inv, FinishInv
    <3>3. Disjoint(events[k], issues[k], Len(stream)) BY <3>2 DEF Inv, SpanInv
    <3>4. Faithful(stream, events[k], Len(stream), TRUE) BY <3>1, <3>2 DEF TrailInv
    <3>5. events[k] \in Seq(Event) /\ Len(stream) \in Nat BY DEF Inv, TypeOK
    <3> QED BY <3>3, <3>4, <3>5 DEF Disjoint, Apart
  <2>2. ASSUME NEW k \in Framers, NEW other \in Framers, NEW i \in DOMAIN events[k]
        PROVE  \/ \E j \in DOMAIN events[other] : events[other][j] = events[k][i]
               \/ events[k][i].kind = "ack" /\ events[k][i].offset > Len(stream) - Header
    <3> DEFINE p == events[k][i].offset
    <3>1. CASE Firm(stream, p) BY <2>1, <3>1, SameEvents
    <3>2. CASE ~Firm(stream, p)
      <4>1. /\ events[k][i] = Reading(stream, p)
            /\ stream[p + 1] = ACK \/ Complete(stream, p)
        BY <2>1 DEF Faithful, Genuine
      <4>2. events[k][i] \in Event BY <2>1, ElementOfSeq, LenProperties
      <4>3. p \in Nat BY <4>2 DEF Event
      <4>4. stream[p + 1] = ACK /\ events[k][i].kind = "ack" BY <3>2, <4>1, <4>3, Readings
      <4>5. ~(p + Header <= Len(stream)) BY <3>2, <4>4 DEF Firm
      <4>6. p > Len(stream) - Header BY <2>1, <4>3, <4>5 DEF Header
      <4> QED BY <4>4, <4>6
    <3> QED BY <3>1, <3>2
  <2>3. ASSUME NEW k \in Framers, NEW other \in Framers, NEW e \in Frames(k) PROVE e \in Frames(other)
    <3>1. PICK i \in DOMAIN events[k] : events[k][i] = e BY DEF Frames
    <3>2. e.kind = "frame" BY DEF Frames
    <3>3. \E j \in DOMAIN events[other] : events[other][j] = e BY <2>2, <3>1, <3>2
    <3> QED BY <3>2, <3>3 DEF Frames
  <2>4. Frames("whole") = Frames("split") BY <2>3 DEF Framers
  <2>5. \A k \in Framers : InOrder(events[k]) BY <2>1 DEF Faithful
  <2> QED BY <2>2, <2>4, <2>5 DEF OnlyTailAcksDiffer
<1> QED BY <1>1, Invariance, TrailInvariance, PTL
=============================================================================
