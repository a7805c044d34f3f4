----------------------- MODULE DocumentAssemblyProofs -----------------------
(***************************************************************************)
(* What the parser does with any conversation, any loss or damage in its   *)
(* capture, and any limits.                                                *)
(***************************************************************************)
EXTENDS DocumentAssembly, FiniteSetTheorems, SequenceTheorems, WellFoundedInduction, TLAPS

Below == {ss \in Nat \X Nat : ss[1] < ss[2]}

\* A nonempty set of numbers has a least element.
LEMMA LeastNumber ==
  ASSUME NEW S \in SUBSET Nat, S # {} PROVE \E x \in S : \A y \in S : x <= y
<1>1. IsWellFoundedOn(Below, Nat) BY NatLessThanWellFounded, Zenon DEF OpToRel, Below
<1>2. \E x \in S : \A y \in S : ~(<<y, x>> \in Below) BY <1>1, WFMin, Zenon
<1>3. PICK x \in S : \A y \in S : ~(<<y, x>> \in Below) BY <1>2
<1>4. ASSUME NEW y \in S PROVE x <= y
  <2>1. x \in Nat /\ y \in Nat /\ <<y, x>> \notin Below BY <1>3
  <2> QED BY <2>1 DEF Below
<1> QED BY <1>4

\* A bounded one has a greatest, the bound minus the least distance to it.
LEMMA GreatestNumber ==
  ASSUME NEW n \in Nat, NEW S \in SUBSET (0..n), S # {} PROVE \E x \in S : \A y \in S : y <= x
<1> DEFINE D == {d \in 0..n : n - d \in S}
<1>1. D \in SUBSET Nat OBVIOUS
<1>2. D # {}
  <2>1. PICK x \in S : TRUE OBVIOUS
  <2>2. n - x \in 0..n /\ n - (n - x) = x OBVIOUS
  <2> QED BY <2>1, <2>2
<1>3. PICK d \in D : \A e \in D : d <= e BY <1>1, <1>2, LeastNumber
<1>4. n - d \in S /\ d \in 0..n BY <1>3
<1>5. ASSUME NEW y \in S PROVE y <= n - d
  <2>1. n - y \in D
    <3>1. n - y \in 0..n /\ n - (n - y) = y OBVIOUS
    <3> QED BY <3>1
  <2>2. d <= n - y /\ y \in 0..n BY <1>3, <2>1
  <2> QED BY <1>4, <2>2
<1> QED BY <1>4, <1>5

LEMMA MaxIsElement ==
  ASSUME NEW n \in Nat, NEW S \in SUBSET (0..n), S # {}
  PROVE  Max(S) \in S /\ \A y \in S : y <= Max(S)
<1>1. PICK x \in S : \A y \in S : y <= x BY GreatestNumber
<1>2. \A y \in S : x >= y BY <1>1
<1>3. Max(S) \in S /\ \A y \in S : Max(S) >= y BY <1>2 DEF Max
<1> QED BY <1>3

-----------------------------------------------------------------------------
(* Picking elements *)

LEMMA Finite ==
  ASSUME NEW n \in Nat, NEW S \in SUBSET (1..n)
  PROVE  /\ IsFiniteSet(S) /\ Cardinality(S) \in Nat /\ Cardinality(S) <= n
         /\ \A i : Rank(S, i) \in Nat /\ Rank(S, i) <= Cardinality(S)
<1>1. IsFiniteSet(1..n) /\ Cardinality(1..n) = n BY FS_Interval
<1>2. IsFiniteSet(S) /\ Cardinality(S) <= n BY <1>1, FS_Subset
<1>3. Cardinality(S) \in Nat BY <1>2, FS_CardinalityType
<1>4. ASSUME NEW i PROVE Rank(S, i) \in Nat /\ Rank(S, i) <= Cardinality(S)
  <2> DEFINE L == {j \in S : j <= i}
  <2>1. IsFiniteSet(L) /\ Cardinality(L) <= Cardinality(S)
    <3>1. L \in SUBSET S OBVIOUS
    <3> HIDE DEF L
    <3> QED BY <1>2, <3>1, FS_Subset
  <2>2. Cardinality(L) \in Nat BY <2>1, FS_CardinalityType
  <2> QED BY <2>1, <2>2 DEF Rank
<1> QED BY <1>2, <1>3, <1>4

\* A larger element of S has a larger rank.
LEMMA RankGrows ==
  ASSUME NEW n \in Nat, NEW S \in SUBSET (1..n), NEW i \in S, NEW m \in S, m < i
  PROVE  Rank(S, m) < Rank(S, i)
<1> DEFINE L == {j \in S : j <= i}
           K == {j \in S : j <= m}
<1>1. IsFiniteSet(S) BY Finite
<1>2. i \in L /\ K \in SUBSET (L \ {i})
  <2>1. i \in Int /\ m \in Int /\ \A j \in S : j \in Int OBVIOUS
  <2>2. ASSUME NEW j \in K PROVE j \in L /\ j # i
    <3>1. j \in S /\ j <= m /\ j \in Int BY <2>1
    <3>2. j <= i /\ j # i BY <2>1, <3>1
    <3> QED BY <3>1, <3>2
  <2>3. i \in L BY <2>1
  <2> HIDE DEF L, K
  <2> QED BY <2>2, <2>3
<1>3. IsFiniteSet(L)
  <2>1. L \in SUBSET S OBVIOUS
  <2> HIDE DEF L
  <2> QED BY <1>1, <2>1, FS_Subset
<1> HIDE DEF L, K
<1>4. IsFiniteSet(L \ {i}) /\ Cardinality(L \ {i}) = Cardinality(L) - 1 BY <1>2, <1>3, FS_RemoveElement
<1>5. Cardinality(K) <= Cardinality(L \ {i}) BY <1>2, <1>4, FS_Subset
<1>6. Cardinality(L) \in Nat /\ Cardinality(K) \in Nat
  <2>1. IsFiniteSet(K) BY <1>2, <1>4, FS_Subset
  <2> QED BY <1>3, <2>1, FS_CardinalityType
<1>7. Cardinality(K) < Cardinality(L) BY <1>4, <1>5, <1>6
<1> QED BY <1>7 DEF Rank, L, K

\* Every rank up to the number of elements occurs.
LEMMA NthExists ==
  ASSUME NEW n \in Nat, NEW S \in SUBSET (1..n), NEW k \in 1..Cardinality(S)
  PROVE  Nth(S, k) \in S /\ Rank(S, Nth(S, k)) = k
<1> DEFINE G == {i \in S : Rank(S, i) >= k}
<1>1. /\ IsFiniteSet(S) /\ Cardinality(S) \in Nat /\ k \in Nat /\ k >= 1 /\ k <= Cardinality(S)
      /\ \A i : Rank(S, i) \in Nat /\ Rank(S, i) <= Cardinality(S)
  <2>1. IsFiniteSet(S) /\ Cardinality(S) \in Nat BY Finite, Zenon
  <2>2. \A i : Rank(S, i) \in Nat /\ Rank(S, i) <= Cardinality(S) BY Finite, Zenon
  <2>3. k \in Nat /\ k >= 1 /\ k <= Cardinality(S) BY <2>1
  <2> QED BY <2>1, <2>2, <2>3
<1>2. S # {} BY <1>1, FS_EmptySet
<1>3. G # {}
  <2>1. S \in SUBSET (0..n) OBVIOUS
  <2>2. PICK x \in S : \A y \in S : y <= x BY <1>2, <2>1, GreatestNumber
  <2>3. {j \in S : j <= x} = S BY <2>2
  <2>4. Rank(S, x) = Cardinality(S) BY <2>3 DEF Rank
  <2> QED BY <1>1, <2>4
<1>4. PICK i \in G : \A y \in G : i <= y
  <2>1. \A j \in S : j \in Nat OBVIOUS
  <2>2. G \in SUBSET S BY Zenon
  <2> HIDE DEF G
  <2>3. G \in SUBSET Nat BY <2>1, <2>2
  <2> QED BY <1>3, <2>3, LeastNumber, Zenon
<1>5. i \in S /\ Rank(S, i) >= k /\ i \in 1..n BY <1>4
<1>6. Rank(S, i) = k
  <2> SUFFICES ASSUME Rank(S, i) # k PROVE FALSE OBVIOUS
  <2> DEFINE L == {j \in S : j <= i}
             K == L \ {i}
  <2>1. Cardinality(L) = Rank(S, i) BY DEF Rank
  <2>2. i \in L /\ L \in SUBSET S BY <1>5
  <2>3. IsFiniteSet(L)
    <3> HIDE DEF L
    <3> QED BY <1>1, <2>2, FS_Subset
  <2>4. Cardinality(K) = Cardinality(L) - 1 /\ IsFiniteSet(K)
    <3> HIDE DEF L
    <3> QED BY <2>2, <2>3, FS_RemoveElement
  <2>5. Cardinality(K) >= k BY <1>1, <1>5, <2>1, <2>4
  <2>6. K # {}
    <3> HIDE DEF K
    <3> QED BY <1>1, <2>5, FS_EmptySet
  <2>7. K \in SUBSET (0..n)
    <3>1. \A j \in S : j \in 0..n OBVIOUS
    <3>2. K \in SUBSET S BY <2>2
    <3> HIDE DEF K
    <3> QED BY <3>1, <3>2
  <2>8. PICK m \in K : \A y \in K : y <= m
    <3> HIDE DEF K
    <3> QED BY <2>6, <2>7, GreatestNumber
  <2>9. m \in S /\ m < i BY <1>5, <2>8
  <2>10. {j \in S : j <= m} = K
    <3>1. ASSUME NEW j \in S, j <= m PROVE j \in K
      <4>1. j \in 1..n /\ m \in 1..n OBVIOUS
      <4>2. j <= i /\ j # i BY <1>5, <2>9, <3>1, <4>1
      <4> QED BY <4>2
    <3>2. ASSUME NEW j \in K PROVE j \in S /\ j <= m BY <2>8
    <3> QED BY <3>1, <3>2
  <2>11. Rank(S, m) >= k BY <2>5, <2>10 DEF Rank
  <2>12. i <= m BY <1>4, <2>9, <2>11
  <2> QED BY <1>5, <2>9, <2>12
<1>7. \E x \in S : Rank(S, x) = k BY <1>5, <1>6
<1> QED BY <1>7 DEF Nth

LEMMA PickedType ==
  ASSUME NEW n \in Nat, NEW S \in SUBSET (1..n), NEW T, NEW s, \A i \in S : s[i] \in T
  PROVE  /\ Picked(s, S) \in Seq(T) /\ Len(Picked(s, S)) = Cardinality(S)
         /\ \A k \in 1..Cardinality(S) : Picked(s, S)[k] = s[Nth(S, k)]
<1>1. Cardinality(S) \in Nat BY Finite
<1>2. \A k \in 1..Cardinality(S) : s[Nth(S, k)] \in T BY NthExists
<1>3. Picked(s, S) \in [1..Cardinality(S) -> T] BY <1>2 DEF Picked
<1>4. \A k \in 1..Cardinality(S) : Picked(s, S)[k] = s[Nth(S, k)] BY DEF Picked
<1>5. Picked(s, S) \in Seq(T) BY <1>1, <1>3
<1>6. Len(Picked(s, S)) = Cardinality(S) BY <1>1, <1>3, <1>5, LenProperties
<1> QED BY <1>4, <1>5, <1>6

\* Nothing picked is missing.
LEMMA PickedHas ==
  ASSUME NEW n \in Nat, NEW S \in SUBSET (1..n), NEW s, NEW i \in S
  PROVE  \E k \in 1..Cardinality(S) : Picked(s, S)[k] = s[i]
<1> DEFINE k == Rank(S, i)
           m == Nth(S, k)
<1>1. /\ IsFiniteSet(S) /\ Cardinality(S) \in Nat
      /\ \A j : Rank(S, j) \in Nat /\ Rank(S, j) <= Cardinality(S)
  BY Finite
<1>2. k # 0
  <2> DEFINE L == {j \in S : j <= i}
  <2>1. i \in L /\ L \in SUBSET S OBVIOUS
  <2> HIDE DEF L
  <2>2. IsFiniteSet(L) BY <1>1, <2>1, FS_Subset
  <2>3. Cardinality(L) # 0 BY <2>1, <2>2, FS_EmptySet
  <2> QED BY <2>3 DEF L, Rank
<1>3. k \in 1..Cardinality(S) BY <1>1, <1>2
<1> HIDE DEF k
<1>4. m \in S /\ Rank(S, m) = k BY <1>3, NthExists
<1> HIDE DEF m
<1>5. m = i
  <2>4. Rank(S, m) = Rank(S, i) /\ Rank(S, i) \in Nat BY <1>1, <1>4 DEF k
  <2>1. ~(m < i)
    <3> SUFFICES ASSUME m < i PROVE FALSE OBVIOUS
    <3>1. Rank(S, m) < Rank(S, i) BY <1>4, RankGrows
    <3> QED BY <2>4, <3>1
  <2>2. ~(i < m)
    <3> SUFFICES ASSUME i < m PROVE FALSE OBVIOUS
    <3>1. Rank(S, i) < Rank(S, m) BY <1>4, RankGrows
    <3> QED BY <2>4, <3>1
  <2>3. m \in 1..n /\ i \in 1..n BY <1>4
  <2> QED BY <2>1, <2>2, <2>3
<1>6. Picked(s, S)[k] = s[m] BY <1>3 DEF Picked, m
<1> QED BY <1>3, <1>5, <1>6

-----------------------------------------------------------------------------
(* Builders *)

LEMMA ToSetAppend ==
  ASSUME NEW S, NEW s \in Seq(S), NEW x \in S
  PROVE  ToSet(Append(s, x)) = ToSet(s) \cup {x} /\ Append(s, x) \in Seq(S) /\ Append(s, x) # <<>>
<1>1. /\ Append(s, x) \in Seq(S) /\ Len(Append(s, x)) = Len(s) + 1 /\ Len(s) \in Nat
      /\ DOMAIN s = 1..Len(s) /\ DOMAIN Append(s, x) = 1..(Len(s) + 1)
      /\ \A i \in 1..Len(s) : Append(s, x)[i] = s[i]
      /\ Append(s, x)[Len(s) + 1] = x
  OBVIOUS
<1>2. ASSUME NEW y \in ToSet(Append(s, x)) PROVE y \in ToSet(s) \cup {x}
  <2>1. PICK i \in 1..(Len(s) + 1) : y = Append(s, x)[i] BY <1>1, <1>2 DEF ToSet
  <2>2. i \in 1..Len(s) \/ i = Len(s) + 1 BY <1>1, <2>1
  <2> QED BY <1>1, <2>1, <2>2 DEF ToSet
<1>3. ASSUME NEW y \in ToSet(s) PROVE y \in ToSet(Append(s, x))
  <2>1. PICK i \in 1..Len(s) : y = s[i] BY <1>1, <1>3 DEF ToSet
  <2>2. i \in 1..(Len(s) + 1) BY <1>1, <2>1
  <2> QED BY <1>1, <2>1, <2>2 DEF ToSet
<1>4. x \in ToSet(Append(s, x))
  <2>1. Len(s) + 1 \in 1..(Len(s) + 1) BY <1>1
  <2> QED BY <1>1, <2>1 DEF ToSet
<1>5. Append(s, x) # <<>>
  <2>1. Len(s) + 1 # 0 BY <1>1
  <2>2. Len(<<>>) = 0 OBVIOUS
  <2> QED BY <1>1, <2>1, <2>2, Zenon
<1> QED BY <1>1, <1>2, <1>3, <1>4, <1>5

LEMMA ToSetConcat ==
  ASSUME NEW S, NEW s \in Seq(S), NEW t \in Seq(S), NEW y \in ToSet(s) \cup ToSet(t)
  PROVE  y \in ToSet(s \o t)
<1>1. /\ s \o t \in Seq(S) /\ Len(s \o t) = Len(s) + Len(t) /\ Len(s) \in Nat /\ Len(t) \in Nat
      /\ DOMAIN s = 1..Len(s) /\ DOMAIN t = 1..Len(t) /\ DOMAIN (s \o t) = 1..(Len(s) + Len(t))
  OBVIOUS
<1>2. CASE y \in ToSet(s)
  <2>1. PICK i \in 1..Len(s) : y = s[i] BY <1>1, <1>2 DEF ToSet
  <2>2. i \in 1..(Len(s) + Len(t)) /\ (s \o t)[i] = s[i] BY <1>1, <2>1
  <2> QED BY <1>1, <2>1, <2>2 DEF ToSet
<1>3. CASE y \in ToSet(t)
  <2>1. PICK i \in 1..Len(t) : y = t[i] BY <1>1, <1>3 DEF ToSet
  <2>2. Len(s) + i \in 1..(Len(s) + Len(t)) /\ (s \o t)[Len(s) + i] = t[i] BY <1>1, <2>1
  <2> QED BY <1>1, <2>1, <2>2 DEF ToSet
<1> QED BY <1>2, <1>3

LEMMA ToSetEmpty == ToSet(<<>>) = {}
  BY DEF ToSet

LEMMA ToSetOne == ASSUME NEW x PROVE ToSet(<<x>>) = {x} /\ <<x>> # <<>>
<1>1. DOMAIN <<x>> = {1} /\ <<x>>[1] = x OBVIOUS
<1> QED BY <1>1 DEF ToSet

LEMMA LastIn ==
  ASSUME NEW S, NEW s \in Seq(S), s # <<>> PROVE Last(s) \in ToSet(s)
<1>1. Len(s) \in 1..Len(s) /\ DOMAIN s = 1..Len(s) OBVIOUS
<1> QED BY <1>1 DEF ToSet, Last

\* The fields the invariant speaks of, frames apart.
Alike(b, c) ==
  /\ c.kind = b.kind /\ c.items = b.items /\ c.totals = b.totals
  /\ c.seenTotal = b.seenTotal /\ c.number = b.number /\ c.copyOf = b.copyOf
  /\ c.change = b.change

LEMMA BuilderRecord ==
  ASSUME NEW kind \in {"commerciale", "gestionale"}, NEW notes \in Seq(Codes),
         NEW st \in {"commercial_body", "management_body"}, NEW f \in Seq(Nat), NEW l \in Seq(Nat),
         NEW items \in Seq([frame : Nat, val : Nat]), NEW totals \in Seq([frame : Nat, val : Int]),
         NEW z \in Nat, NEW change \in {"none"}, NEW seen \in BOOLEAN, NEW sub \in {""}
  PROVE  [kind |-> kind, state |-> st, frames |-> f, issues |-> notes, lines |-> l,
          items |-> items, totals |-> totals, settled |-> z, change |-> change,
          seenTotal |-> seen, number |-> z, copyOf |-> z, subtype |-> sub] \in Builder
  BY DEF Builder

LEMMA NewBuilder ==
  ASSUME NEW kind \in {"commerciale", "gestionale"}, NEW k \in Nat, NEW notes \in Seq(Codes)
  PROVE  /\ New(kind, k, notes) \in Builder /\ New(kind, k, notes) # None
         /\ New(kind, k, notes).kind = kind /\ New(kind, k, notes).frames = <<k>>
         /\ New(kind, k, notes).items = <<>> /\ New(kind, k, notes).totals = <<>>
         /\ New(kind, k, notes).number = 0 /\ New(kind, k, notes).copyOf = 0
         /\ New(kind, k, notes).seenTotal = FALSE
<1>1. New(kind, k, notes) \in Builder
  <2> DEFINE st == IF kind = "commerciale" THEN "commercial_body" ELSE "management_body"
  <2>1. <<k>> \in Seq(Nat) /\ \A S : <<>> \in Seq(S) OBVIOUS
  <2>2. st \in {"commercial_body", "management_body"} OBVIOUS
  <2>3. 0 \in Nat /\ FALSE \in BOOLEAN /\ "" \in {""} /\ "none" \in {"none"} OBVIOUS
  <2> HIDE DEF st
  <2>4. [kind |-> kind, state |-> st, frames |-> <<k>>, issues |-> notes, lines |-> <<>>,
         items |-> <<>>, totals |-> <<>>, settled |-> 0, change |-> "none", seenTotal |-> FALSE,
         number |-> 0, copyOf |-> 0, subtype |-> ""] \in Builder
    BY <2>1, <2>2, <2>3, BuilderRecord, Zenon
  <2> QED BY <2>4, Zenon DEF New, st
<1>2. New(kind, k, notes) # None BY <1>1, AssemblyAssumption
<1> QED BY <1>1, <1>2 DEF New

LEMMA NewChange ==
  ASSUME NEW kind, NEW k, NEW notes PROVE New(kind, k, notes).change = "none"
  BY DEF New

LEMMA AddFrameBuilder ==
  ASSUME NEW b \in Builder, NEW k \in Nat, b.frames # <<>>
  PROVE  /\ AddFrame(b, k) \in Builder /\ AddFrame(b, k) # None
         /\ AddFrame(b, k).frames # <<>>
         /\ ToSet(AddFrame(b, k).frames) = ToSet(b.frames) \cup {k}
         /\ Alike(b, AddFrame(b, k)) /\ AddFrame(b, k).state = b.state
<1>1. b.frames \in Seq(Nat) BY DEF Builder
<1>2. CASE Last(b.frames) = k
  <2>1. AddFrame(b, k) = b BY <1>2 DEF AddFrame
  <2>2. k \in ToSet(b.frames) BY <1>1, <1>2, LastIn
  <2> QED BY <2>1, <2>2, AssemblyAssumption DEF Alike
<1>3. CASE Last(b.frames) # k
  <2> DEFINE f == Append(b.frames, k)
             c == [b EXCEPT !.frames = f]
  <2>1. AddFrame(b, k) = c BY <1>3 DEF AddFrame
  <2>2. f \in Seq(Nat) /\ f # <<>> /\ ToSet(f) = ToSet(b.frames) \cup {k} BY <1>1, ToSetAppend
  <2> HIDE DEF f
  <2>3. c \in Builder BY <2>2 DEF Builder
  <2>4. c.frames = f /\ Alike(b, c) /\ c.state = b.state BY DEF Builder, Alike
  <2>5. c # None BY <2>3, AssemblyAssumption
  <2> QED BY <2>1, <2>2, <2>3, <2>4, <2>5
<1> QED BY <1>2, <1>3

LEMMA ClosingBuilder ==
  ASSUME NEW b \in Builder, NEW complete \in BOOLEAN
  PROVE  /\ Closing(b, complete) \in Builder /\ Closing(b, complete) # None
         /\ Closing(b, complete).frames = b.frames /\ Alike(b, Closing(b, complete))
         /\ Closing(b, complete).state = IF complete THEN "complete" ELSE "incomplete"
<1> DEFINE st == IF complete THEN "complete" ELSE "incomplete"
           is == IF complete THEN b.issues ELSE Append(b.issues, "incomplete_document")
           c == [b EXCEPT !.state = st, !.issues = is]
<1>1. Closing(b, complete) = c BY DEF Closing, Builder
<1>2. b.issues \in Seq(Codes) BY DEF Builder
<1>3. is \in Seq(Codes) BY <1>2 DEF Codes
<1>4. st \in {"complete", "incomplete"} OBVIOUS
<1> HIDE DEF st, is
<1>5. c \in Builder BY <1>3, <1>4 DEF Builder
<1>6. c.frames = b.frames /\ Alike(b, c) /\ c.state = st BY DEF Builder, Alike
<1>7. c # None BY <1>5, AssemblyAssumption
<1> QED BY <1>1, <1>5, <1>6, <1>7 DEF st

-----------------------------------------------------------------------------
(* What one turn of the loop does to the frames *)

\* The builder with frames D becomes a document, or the limit drops it.
Detach(D) ==
  \/ documents' = documents /\ issues' = issues /\ omitting' = omitting /\ D = {}
  \/ /\ documents' = documents /\ omitting' = TRUE /\ issues' \in Seq(Codes)
     /\ "document_limit_exceeded" \in ToSet(issues')
  \/ \E e \in Builder :
       /\ Frames(e) = D /\ Faithful(e) /\ e.number = 0
       /\ Len(documents) < limit.documents /\ documents' = Append(documents, e)
       /\ issues' \in Seq(Codes) /\ ToSet(issues) \subseteq ToSet(issues')
       /\ omitting' = omitting

\* K holds the frame of this turn.
Distribute(K, D) ==
  /\ (next' = next /\ K = {}) \/ (next' = next + 1 /\ K = {next + 1})
  /\ D \cup Frames(active') \subseteq Frames(active) \cup K \cup ({pending} \ {0})
  /\ D \cap Frames(active') = {} /\ Frames(active) \subseteq D \cup Frames(active')
  /\ \A k \in K : Content(k) => k \in D \cup Frames(active')
  /\ pending' \in {0, pending} \cup K /\ pending' \notin D \cup Frames(active')

Continue ==
  \/ active' = None
  \/ /\ active' \in Builder /\ active'.frames # <<>> /\ active'.number = 0
     /\ Tallied(active', used', next')

LEMMA FramesOfBuilder ==
  ASSUME NEW b \in Builder PROVE Frames(b) = ToSet(b.frames) /\ Frames(b) \subseteq Nat
<1>1. b # None BY AssemblyAssumption
<1>2. b.frames \in Seq(Nat) BY DEF Builder
<1>3. ToSet(b.frames) \subseteq Nat BY <1>2 DEF ToSet
<1> QED BY <1>1, <1>3 DEF Frames

\* The documents after the step, as frame sets.
LEMMA Documents ==
  ASSUME TypeOK, NEW D, Detach(D)
  PROVE  \E n \in Nat :
           /\ DOMAIN documents = 1..Len(documents) /\ Len(documents) \in Nat
           /\ DOMAIN documents' = 1..n
           /\ \A i \in 1..Len(documents) : documents'[i] = documents[i]
           /\ n = Len(documents) + 1 => Frames(documents'[n]) = D
           /\ \/ n = Len(documents) /\ omitting' = TRUE
              \/ n = Len(documents) /\ omitting' = omitting /\ D = {}
              \/ n = Len(documents) + 1 /\ omitting' = omitting
<1>1. documents \in Seq(Builder) BY DEF TypeOK
<1>0. Len(documents) \in Nat BY <1>1
<1>2. DOMAIN documents = 1..Len(documents) /\ Len(documents) \in Nat BY <1>1
<1>3. CASE documents' = documents /\ issues' = issues /\ omitting' = omitting /\ D = {}
  <2>1. DOMAIN documents' = 1..Len(documents) BY <1>2, <1>3
  <2>2. Len(documents) # Len(documents) + 1 BY <1>0
  <2> QED BY <1>2, <1>3, <2>1, <2>2
<1>4. CASE documents' = documents /\ omitting' = TRUE
  <2>1. DOMAIN documents' = 1..Len(documents) BY <1>2, <1>4
  <2>2. Len(documents) # Len(documents) + 1 BY <1>0
  <2> QED BY <1>2, <1>4, <2>1, <2>2
<1>5. ASSUME NEW e \in Builder, Frames(e) = D, documents' = Append(documents, e), omitting' = omitting
      PROVE  /\ DOMAIN documents' = 1..(Len(documents) + 1) /\ Len(documents) + 1 \in Nat
             /\ \A i \in 1..Len(documents) : documents'[i] = documents[i]
             /\ Frames(documents'[Len(documents) + 1]) = D
  <2>1. Append(documents, e)[Len(documents) + 1] = e BY <1>1
  <2>2. DOMAIN Append(documents, e) = 1..(Len(documents) + 1) BY <1>1
  <2>3. \A i \in 1..Len(documents) : Append(documents, e)[i] = documents[i] BY <1>1
  <2> QED BY <1>2, <1>5, <2>1, <2>2, <2>3
<1> QED BY <1>2, <1>3, <1>4, <1>5 DEF Detach

LEMMA FramesMove ==
  ASSUME TypeOK, FrameInv, NEW K, NEW D, Detach(D), Distribute(K, D), Continue,
         conv' = conv, request' = request
  PROVE  FrameInv'
<1> DEFINE n == Len(documents)
           A == Frames(active)
           B == Frames(active')
           F(i) == Frames(documents[i])
           G(i) == Frames(documents'[i])
<1>1. PICK m \in Nat :
           /\ DOMAIN documents = 1..n /\ n \in Nat /\ DOMAIN documents' = 1..m
           /\ \A i \in 1..n : documents'[i] = documents[i]
           /\ m = n + 1 => Frames(documents'[m]) = D
           /\ \/ m = n /\ omitting' = TRUE
              \/ m = n /\ omitting' = omitting /\ D = {}
              \/ m = n + 1 /\ omitting' = omitting
  BY Documents
<1>0. n \in Nat /\ m \in Nat /\ (m = n \/ m = n + 1) BY <1>1
<1>2. next \in Nat /\ pending \in Nat BY DEF TypeOK
<1>3. PICK q \in Nat : /\ q = next' /\ q >= next /\ \A x \in 1..next : x \in 1..q
                       /\ \A x \in K : x \in 1..q /\ x \notin 1..next
                       /\ \A x \in 1..q : x \in 1..next \/ x \in K
  <2>1. CASE next' = next /\ K = {} BY <1>2, <2>1
  <2>2. CASE next' = next + 1 /\ K = {next + 1} BY <1>2, <2>2
  <2> QED BY <2>1, <2>2 DEF Distribute
<1>4. /\ A \subseteq 1..next /\ pending \in 0..next /\ pending \notin A
      /\ \A i \in 1..n : F(i) \subseteq 1..next /\ pending \notin F(i) /\ F(i) \cap A = {}
      /\ \A i, j \in 1..n : i # j => F(i) \cap F(j) = {}
  BY <1>1 DEF FrameInv
<1>5. /\ D \cup B \subseteq A \cup K \cup ({pending} \ {0})
      /\ D \cap B = {} /\ A \subseteq D \cup B
      /\ \A k \in K : Content(k) => k \in D \cup B
      /\ pending' \in {0, pending} \cup K /\ pending' \notin D \cup B
  BY DEF Distribute
<1>6. \A i \in 1..n : G(i) = F(i) BY <1>1
<1>7. m = n + 1 => G(m) = D BY <1>1
<1>8. \A i \in 1..m : i \in 1..n \/ (i = m /\ m = n + 1)
  <2> HIDE DEF n
  <2> QED BY <1>0
<1>9. active' # None => active'.frames # <<>> BY DEF Continue
<1>10. \A x \in D \cup B : x \in 1..q /\ \A i \in 1..n : x \notin F(i)
  <2> SUFFICES ASSUME NEW x \in D \cup B PROVE x \in 1..q /\ \A i \in 1..n : x \notin F(i)
    OBVIOUS
  <2> HIDE DEF A, B, F, G, n
  <2>1. CASE x \in A BY <1>3, <1>4, <2>1
  <2>2. CASE x \in K BY <1>3, <1>4, <2>2
  <2>3. CASE x = pending /\ x # 0
    <3>1. x \in 1..next BY <1>2, <1>4, <2>3
    <3> QED BY <1>3, <1>4, <2>3, <3>1
  <2> QED BY <1>5, <2>1, <2>2, <2>3
<1>11. pending' \in 0..q /\ pending' \notin B /\ pending' \notin D /\ \A i \in 1..n : pending' \notin F(i)
  <2> HIDE DEF A, B, F, G, n
  <2>0. 0 \in 0..q /\ 0 \notin 1..next /\ (\A x \in 1..q : x \in 0..q) /\ \A x \in 0..next : x \in 0..q
    BY <1>2, <1>3
  <2>1. CASE pending' = 0 BY <1>4, <1>5, <2>0, <2>1
  <2>2. CASE pending' = pending BY <1>4, <1>5, <2>0, <2>2
  <2>3. CASE pending' \in K BY <1>3, <1>4, <1>5, <2>0, <2>3
  <2> QED BY <1>5, <2>1, <2>2, <2>3
<1>12. B \subseteq 1..q BY <1>10
<1>13. \A i \in 1..m : G(i) \subseteq 1..q /\ pending' \notin G(i) /\ G(i) \cap B = {}
  <2> SUFFICES ASSUME NEW i \in 1..m
               PROVE  G(i) \subseteq 1..q /\ pending' \notin G(i) /\ G(i) \cap B = {}
    OBVIOUS
  <2> HIDE DEF A, B, F, G, n
  <2>1. CASE i \in 1..n
    <3>1. G(i) = F(i) BY <1>6, <2>1
    <3>2. F(i) \subseteq 1..q BY <1>3, <1>4, <2>1
    <3> QED BY <1>10, <1>11, <2>1, <3>1, <3>2
  <2>2. CASE i = m /\ m = n + 1
    <3>1. G(i) = D BY <1>7, <2>2
    <3> QED BY <1>5, <1>10, <1>11, <3>1
  <2> QED BY <1>8, <2>1, <2>2
<1>14. \A i, j \in 1..m : i # j => G(i) \cap G(j) = {}
  <2> SUFFICES ASSUME NEW i \in 1..m, NEW j \in 1..m, i # j PROVE G(i) \cap G(j) = {}
    OBVIOUS
  <2> HIDE DEF A, B, F, G, n
  <2>1. CASE i \in 1..n /\ j \in 1..n BY <1>4, <1>6, <2>1
  <2>2. CASE i \in 1..n /\ j = m /\ m = n + 1
    <3>1. G(i) = F(i) /\ G(j) = D BY <1>6, <1>7, <2>2
    <3> QED BY <1>10, <2>2, <3>1
  <2>3. CASE j \in 1..n /\ i = m /\ m = n + 1
    <3>1. G(j) = F(j) /\ G(i) = D BY <1>6, <1>7, <2>3
    <3> QED BY <1>10, <2>3, <3>1
  <2> QED BY <1>8, <2>1, <2>2, <2>3
<1>15. \A k : Content(k)' <=> Content(k)
  BY DEF Content, Cmd
<1>16. ~omitting' => \A k \in 1..q : Content(k) => k \in B \/ \E i \in 1..m : k \in G(i)
  <2> SUFFICES ASSUME ~omitting', NEW k \in 1..q, Content(k)
               PROVE  k \in B \/ \E i \in 1..m : k \in G(i)
    OBVIOUS
  <2>0. ~omitting BY <1>1 DEF TypeOK
  <2>1. ~omitting => \A x \in 1..next : Content(x) => x \in A \/ \E i \in 1..n : x \in F(i)
    BY <1>1 DEF FrameInv
  <2> HIDE DEF n
  <2>2. ASSUME NEW x \in D PROVE \E i \in 1..m : x \in G(i)
    <3>1. m = n + 1 BY <1>1, <2>2
    <3>2. m \in 1..m BY <1>0, <3>1
    <3> HIDE DEF G
    <3> QED BY <1>7, <2>2, <3>1, <3>2
  <2>3. \A i \in 1..n : i \in 1..m BY <1>0
  <2>4. k \in 1..next \/ k \in K BY <1>3
  <2> HIDE DEF A, B, F, G
  <2>5. CASE k \in K BY <1>5, <2>2, <2>5
  <2>6. CASE k \in 1..next
    <3>1. k \in A \/ \E i \in 1..n : k \in F(i) BY <2>0, <2>1, <2>6
    <3> QED BY <1>5, <1>6, <2>2, <2>3, <3>1
  <2> QED BY <2>4, <2>5, <2>6
<1> HIDE DEF n
<1> QED
  BY <1>1, <1>3, <1>9, <1>11, <1>12, <1>13, <1>14, <1>15, <1>16 DEF FrameInv

\* One turn keeps the whole invariant.
LEMMA Turn ==
  ASSUME Inv, NEW K, NEW D, Detach(D), Distribute(K, D), Continue,
         UNCHANGED <<inputs, answers, attached, result>>, next' <= Len(request),
         used' \in 0..limit.fields, crossed' \in BOOLEAN, phase = "assemble",
         phase' = "assemble" \/ (phase' = "correlate" /\ active' = None)
  PROVE  Inv'
<1>0. /\ conv' = conv /\ limit' = limit /\ request' = request /\ response' = response
      /\ acks' = acks /\ attached' = attached /\ result' = result
  BY DEF inputs, answers
<1>1. TypeOK /\ FrameInv /\ FieldInv /\ NumberInv /\ ReportInv BY DEF Inv
<1>2. FrameInv' BY <1>0, <1>1, FramesMove
<1>3. documents \in Seq(Builder) /\ Len(documents) \in Nat /\ Len(documents) <= limit.documents
      /\ DOMAIN documents = 1..Len(documents) /\ limit.documents \in Nat
  <2>1. documents \in Seq(Builder) /\ Len(documents) <= limit.documents /\ limit \in Limits
    BY <1>1 DEF TypeOK
  <2>2. limit.documents \in Nat BY <2>1, AssemblyAssumption
  <2> QED BY <2>1, <2>2
<1>4. /\ documents' \in Seq(Builder) /\ Len(documents') \in Nat
      /\ Len(documents) <= Len(documents') /\ Len(documents') <= limit.documents
      /\ issues' \in Seq(Codes) /\ omitting' \in BOOLEAN
  <2>1. CASE documents' = documents /\ issues' = issues /\ omitting' = omitting
    BY <1>1, <1>3, <2>1 DEF TypeOK
  <2>2. CASE documents' = documents /\ omitting' = TRUE /\ issues' \in Seq(Codes)
    BY <1>1, <1>3, <2>2 DEF TypeOK
  <2>3. ASSUME NEW e \in Builder, Len(documents) < limit.documents,
               documents' = Append(documents, e), issues' \in Seq(Codes), omitting' = omitting
        PROVE  /\ documents' \in Seq(Builder) /\ Len(documents') \in Nat
               /\ Len(documents) <= Len(documents') /\ Len(documents') <= limit.documents
               /\ issues' \in Seq(Codes) /\ omitting' \in BOOLEAN
    <3>1. /\ Append(documents, e) \in Seq(Builder)
          /\ Len(Append(documents, e)) = Len(documents) + 1
      BY <1>3
    <3>2. Len(documents') = Len(documents) + 1 /\ Len(documents) + 1 <= limit.documents
      BY <1>3, <2>3, <3>1
    <3>3. omitting' \in BOOLEAN BY <1>1, <2>3 DEF TypeOK
    <3> QED BY <1>3, <2>3, <3>1, <3>2, <3>3
  <2> QED BY <2>1, <2>2, <2>3 DEF Detach
<1>5. TypeOK'
  <2>1. next' \in 0..Len(request) /\ pending' \in 0..Len(request)
    <3>1. next \in Nat /\ Len(request) \in Nat BY <1>1 DEF TypeOK
    <3>2. PICK q \in Nat : q = next' BY <3>1 DEF Distribute
    <3>3. pending' \in 0..q BY <1>2, <3>2 DEF FrameInv
    <3> QED BY <3>1, <3>2, <3>3
  <2>2. active' = None \/ active' \in Builder BY DEF Continue
  <2>3. attached' \in 0..Len(documents')
    <3>1. attached \in 0..Len(documents) BY <1>1 DEF TypeOK
    <3> QED BY <1>0, <1>3, <1>4, <3>1
  <2>4. phase' # "done" /\ phase' \in {"assemble", "correlate"} OBVIOUS
  <2>5. /\ conv \in Conversations /\ limit \in Limits /\ request \in Seq(Captured)
        /\ response \in Seq(Captured) /\ acks \in Nat
    BY <1>1 DEF TypeOK
  <2> QED BY <1>0, <1>4, <2>1, <2>2, <2>3, <2>4, <2>5 DEF TypeOK, Captured
<1>6. /\ \A d : Faithful(d)' <=> Faithful(d)
      /\ \A d : OwnCounter(d)' <=> OwnCounter(d)
  BY <1>0 DEF Faithful, OwnCounter, Cmd, Val
<1>7. \A i \in DOMAIN documents' : Faithful(documents'[i]) /\ OwnCounter(documents'[i])
  <2>0. \A i \in DOMAIN documents : Faithful(documents[i]) /\ OwnCounter(documents[i])
    BY <1>1 DEF FieldInv, NumberInv, CounterIsOwn
  <2>1. CASE documents' = documents BY <2>0, <2>1
  <2>2. ASSUME NEW e \in Builder, documents' = Append(documents, e), Faithful(e), e.number = 0
        PROVE  \A i \in DOMAIN documents' : Faithful(documents'[i]) /\ OwnCounter(documents'[i])
    <3> TAKE i \in DOMAIN documents'
    <3>1. i \in DOMAIN documents \/ documents'[i] = e BY <1>3, <2>2
    <3>2. i \in DOMAIN documents => documents'[i] = documents[i] BY <1>3, <2>2
    <3>3. OwnCounter(e) BY <2>2 DEF OwnCounter
    <3> QED BY <2>0, <2>2, <3>1, <3>2, <3>3
  <2> QED BY <2>1, <2>2 DEF Detach
<1>8. FieldInv'
  <2>2. active' # None => Tallied(active', used', next') BY DEF Continue
  <2>3. (active # None => Tallied(active, used, next))' BY <1>0, <1>6, <2>2 DEF Tallied, Cmd
  <2>4. (\A i \in DOMAIN documents : Faithful(documents[i]))' BY <1>0, <1>7 DEF Faithful, Cmd, Val
  <2> QED BY <2>3, <2>4 DEF FieldInv
<1>9. NumberInv'
  <2>1. (\A i \in DOMAIN documents : OwnCounter(documents[i]))' BY <1>0, <1>7 DEF OwnCounter, Cmd
  <2>2. active' # None => active'.number = 0 BY DEF Continue
  <2>3. phase' # "assemble" => active' = None OBVIOUS
  <2> QED BY <2>1, <2>2, <2>3 DEF NumberInv, CounterIsOwn
<1>10. ReportInv'
  <2>1. omitting' => "document_limit_exceeded" \in ToSet(issues')
    <3>1. omitting => "document_limit_exceeded" \in ToSet(issues) BY <1>1 DEF ReportInv
    <3> QED BY <3>1 DEF Detach
  <2>2. phase' # "done" OBVIOUS
  <2> QED BY <2>1, <2>2 DEF ReportInv
<1> QED BY <1>2, <1>5, <1>8, <1>9, <1>10 DEF Inv

-----------------------------------------------------------------------------
(* The builder a command goes to *)

LEMMA AlikeFaithful ==
  ASSUME NEW b, NEW c, Alike(b, c), c.frames = b.frames, Faithful(b) PROVE Faithful(c)
  BY DEF Alike, Faithful

LEMMA FinishDetaches ==
  ASSUME Inv, NEW b \in Builder, Faithful(b), b.number = 0, NEW complete \in BOOLEAN,
         Finish(b, complete)
  PROVE  Detach(Frames(b))
<1> DEFINE c == Closing(b, complete)
<1>1. c \in Builder /\ c # None /\ c.frames = b.frames /\ Alike(b, c) BY ClosingBuilder
<1>2. issues \in Seq(Codes) BY DEF Inv, TypeOK
<1>3. c.issues \in Seq(Codes) BY <1>1 DEF Builder
<1> HIDE DEF c
<1>4. CASE Len(documents) < limit.documents
  <2>1. documents' = Append(documents, c) /\ issues' = issues \o c.issues /\ omitting' = omitting
    BY <1>4 DEF Finish, c
  <2>2. issues' \in Seq(Codes) BY <1>2, <1>3, <2>1
  <2>3. ToSet(issues) \subseteq ToSet(issues') BY <1>2, <1>3, <2>1, ToSetConcat
  <2>4. Frames(c) = Frames(b) BY <1>1, FramesOfBuilder
  <2>5. Faithful(c) /\ c.number = 0
    <3>1. c.number = b.number BY <1>1 DEF Alike
    <3> QED BY <1>1, <3>1, AlikeFaithful
  <2> QED BY <1>1, <1>4, <2>1, <2>2, <2>3, <2>4, <2>5 DEF Detach
<1>5. CASE ~(Len(documents) < limit.documents)
  <2>1. /\ documents' = documents /\ omitting' = TRUE
        /\ issues' = IF omitting THEN issues ELSE Append(issues, "document_limit_exceeded")
    BY <1>5 DEF Finish
  <2>2. "document_limit_exceeded" \in Codes BY DEF Codes, LimitCodes
  <2>3. CASE omitting BY <1>2, <2>1, <2>3 DEF Detach, Inv, ReportInv
  <2>4. CASE ~omitting
    <3>1. issues' = Append(issues, "document_limit_exceeded") BY <2>1, <2>4
    <3>2. "document_limit_exceeded" \in ToSet(issues') /\ issues' \in Seq(Codes)
      BY <1>2, <2>2, <3>1, ToSetAppend
    <3> QED BY <2>1, <3>2 DEF Detach
  <2> QED BY <2>3, <2>4
<1> QED BY <1>4, <1>5

LEMMA FinishActiveDetaches ==
  ASSUME Inv, FinishActive PROVE Detach(Frames(active))
<1>1. CASE active = None BY <1>1 DEF FinishActive, Keep, Detach, Frames
<1>2. CASE active # None
  <2>1. active \in Builder BY <1>2 DEF Inv, TypeOK
  <2>2. Faithful(active) /\ active.number = 0 BY <1>2 DEF Inv, FieldInv, NumberInv, Tallied
  <2>3. Finish(active, FALSE) BY <1>2 DEF FinishActive
  <2> QED BY <2>1, <2>2, <2>3, FinishDetaches
<1> QED BY <1>1, <1>2

\* Everything is settled but the command of frame k itself.
Ready(b, k) ==
  /\ b \in Builder /\ b.frames # <<>> /\ b.number = 0 /\ k \in ToSet(b.frames)
  /\ Faithful(b) /\ \A t \in ToSet(b.items) : t.frame \in 1..next
  /\ (b.kind = "gestionale" /\ used < limit.fields) =>
       \A j \in ToSet(b.frames) : j # k /\ Cmd(j) \in {"mtotal", "mtotals"} => b.seenTotal

LEMMA AddedReady ==
  ASSUME Inv, active # None, NEW k \in Nat, k = next + 1
  PROVE  /\ Ready(AddFrame(active, k), k) /\ AddFrame(active, k).kind = active.kind
         /\ AddFrame(active, k).state = active.state
         /\ Frames(AddFrame(active, k)) = Frames(active) \cup {k}
<1> DEFINE b == AddFrame(active, k)
<1>1. active \in Builder /\ active.frames # <<>> /\ active.number = 0 /\ Tallied(active, used, next)
  BY DEF Inv, TypeOK, FrameInv, FieldInv, NumberInv
<1>2. /\ b \in Builder /\ b # None /\ b.frames # <<>>
      /\ ToSet(b.frames) = ToSet(active.frames) \cup {k} /\ Alike(active, b) /\ b.state = active.state
  BY <1>1, AddFrameBuilder
<1>3. Frames(b) = ToSet(b.frames) /\ Frames(active) = ToSet(active.frames)
  BY <1>1, <1>2, FramesOfBuilder
<1>4. next \in Nat BY DEF Inv, TypeOK
<1> HIDE DEF b
<1>5. \A t \in ToSet(b.items) : t.frame \in 1..next /\ t.frame < k
  <2>1. \A t \in ToSet(active.items) : t.frame \in 1..next BY <1>1 DEF Tallied
  <2>2. \A x \in 1..next : x < k BY <1>4
  <2> QED BY <1>2, <2>1, <2>2 DEF Alike
<1>6. Faithful(b)
  <2>1. Faithful(active) BY <1>1 DEF Tallied
  <2>2. ASSUME NEW t \in ToSet(b.items), b.kind = "gestionale", NEW j \in ToSet(b.frames),
               Cmd(j) \in {"mtotal", "mtotals"}
        PROVE  t.frame < j
    BY <1>2, <1>5, <2>1, <2>2 DEF Faithful, Alike
  <2> QED BY <1>2, <2>1, <2>2 DEF Faithful, Alike
<1>7. (b.kind = "gestionale" /\ used < limit.fields) =>
       \A j \in ToSet(b.frames) : j # k /\ Cmd(j) \in {"mtotal", "mtotals"} => b.seenTotal
  BY <1>1, <1>2 DEF Tallied, Alike
<1>8. Ready(b, k) BY <1>1, <1>2, <1>5, <1>6, <1>7 DEF Ready, Alike
<1> QED BY <1>2, <1>3, <1>8 DEF b, Alike

\* A new builder has at most the marker before the frame, and that if it is commercial.
LEMMA NewReady ==
  ASSUME Inv, NEW kind \in {"commerciale", "gestionale"}, NEW notes \in Seq(Codes),
         NEW j \in Nat, NEW k \in Nat, j = k \/ kind = "commerciale"
  PROVE  /\ Ready(AddFrame(New(kind, j, notes), k), k)
         /\ AddFrame(New(kind, j, notes), k).kind = kind
         /\ Frames(AddFrame(New(kind, j, notes), k)) = {j, k}
<1> DEFINE a == New(kind, j, notes)
           b == AddFrame(a, k)
<1>1. /\ a \in Builder /\ a.kind = kind /\ a.frames = <<j>> /\ a.items = <<>>
      /\ a.totals = <<>> /\ a.number = 0
  BY NewBuilder
<1>2. ToSet(<<j>>) = {j} /\ <<j>> # <<>> BY ToSetOne
<1> HIDE DEF a
<1>3. /\ b \in Builder /\ b.frames # <<>> /\ ToSet(b.frames) = {j, k} /\ Alike(a, b)
  <2>1. a.frames # <<>> BY <1>1, <1>2
  <2>2. /\ b \in Builder /\ b.frames # <<>> /\ ToSet(b.frames) = ToSet(a.frames) \cup {k}
        /\ Alike(a, b)
    BY <1>1, <2>1, AddFrameBuilder
  <2> QED BY <1>1, <1>2, <2>2
<1>4. Frames(b) = {j, k} BY <1>3, FramesOfBuilder
<1> HIDE DEF b
<1>5. b.items = <<>> /\ b.totals = <<>> /\ b.kind = kind /\ b.number = 0 BY <1>1, <1>3 DEF Alike
<1>6. ToSet(b.items) = {} /\ ToSet(b.totals) = {} BY <1>5, ToSetEmpty
<1>7. Faithful(b) BY <1>6 DEF Faithful
<1>8. (b.kind = "gestionale" /\ used < limit.fields) =>
       \A i \in ToSet(b.frames) : i # k /\ Cmd(i) \in {"mtotal", "mtotals"} => b.seenTotal
  BY <1>3, <1>5
<1>9. Ready(b, k) BY <1>3, <1>5, <1>6, <1>7, <1>8 DEF Ready
<1> QED BY <1>4, <1>5, <1>9 DEF a, b

LEMMA TargetReady ==
  ASSUME Inv, NEW kind \in {"commerciale", "gestionale"}, NEW notes \in Seq(Codes),
         NEW k \in Nat, k = next + 1
  PROVE  /\ Ready(Target(kind, k, notes), k) /\ Target(kind, k, notes).kind = kind
         /\ Frames(Target(kind, k, notes)) = (IF Is(kind) THEN Frames(active) ELSE {}) \cup {k}
<1>1. CASE Is(kind)
  <2>1. active # None /\ active.kind = kind BY <1>1 DEF Is
  <2>2. Target(kind, k, notes) = AddFrame(active, k) BY <1>1 DEF Target
  <2> QED BY <1>1, <2>1, <2>2, AddedReady
<1>2. CASE ~Is(kind)
  <2>1. Target(kind, k, notes) = AddFrame(New(kind, k, notes), k) BY <1>2 DEF Target
  <2> QED BY <1>2, <2>1, NewReady
<1> QED BY <1>1, <1>2

\* A frame that is no printed total settles the builder.
LEMMA ReadySettled ==
  ASSUME Inv, NEW b, NEW k \in Nat, k = next + 1, Ready(b, k),
         Cmd(k) \notin {"mtotal", "mtotals"} \/ b.kind = "commerciale"
  PROVE  Tallied(b, used, k)
<1>1. next \in Nat BY DEF Inv, TypeOK
<1>2. \A x \in 1..next : x \in 1..k BY <1>1
<1>3. \A t \in ToSet(b.items) : t.frame \in 1..k BY <1>2 DEF Ready
<1> QED BY <1>3 DEF Ready, Tallied

-----------------------------------------------------------------------------
(* Recording fields *)

Item == [frame : Nat, val : Nat]
Total == [frame : Nat, val : Int]

\* The fields of c are those of b but for items, totals and seenTotal.
Base(b, c) ==
  /\ c \in Builder /\ c.kind = b.kind /\ c.frames = b.frames /\ c.number = b.number
  /\ c.copyOf = b.copyOf

LEMMA SetItems ==
  ASSUME NEW b \in Builder, NEW x \in Seq(Item)
  PROVE  LET c == [b EXCEPT !.items = x]
         IN  /\ Base(b, c) /\ c.items = x /\ c.totals = b.totals /\ c.seenTotal = b.seenTotal
             /\ c.lines = b.lines
  BY DEF Builder, Item, Base

LEMMA SetTotals ==
  ASSUME NEW b \in Builder, NEW x \in Seq(Total)
  PROVE  LET c == [b EXCEPT !.totals = x]
         IN  /\ Base(b, c) /\ c.items = b.items /\ c.totals = x /\ c.seenTotal = b.seenTotal
             /\ c.lines = b.lines /\ c.settled = b.settled
  BY DEF Builder, Total, Base

LEMMA SetSettled ==
  ASSUME NEW b \in Builder, NEW x \in Nat
  PROVE  LET c == [b EXCEPT !.settled = x]
         IN  /\ Base(b, c) /\ c.items = b.items /\ c.totals = b.totals /\ c.seenTotal = b.seenTotal
             /\ c.lines = b.lines
  BY DEF Builder, Base

LEMMA SetChange ==
  ASSUME NEW b \in Builder, NEW x \in {"last", "earlier"}
  PROVE  LET c == [b EXCEPT !.change = x]
         IN  /\ Base(b, c) /\ c.items = b.items /\ c.totals = b.totals /\ c.seenTotal = b.seenTotal
             /\ c.change = x
  BY DEF Builder, Base

LEMMA SetState ==
  ASSUME NEW b \in Builder, NEW x \in {"commercial_payment", "commercial_postlude", b.state}
  PROVE  LET c == [b EXCEPT !.state = x]
         IN  /\ Base(b, c) /\ c.items = b.items /\ c.totals = b.totals /\ c.seenTotal = b.seenTotal
             /\ c.lines = b.lines /\ c.settled = b.settled
  BY DEF Builder, Base

\* Nothing of this frame is recorded.
LEMMA NothingTallied ==
  ASSUME Inv, NEW b, NEW c, NEW u, NEW k \in Nat, k = next + 1, Ready(b, k), Base(b, c),
         c.items = b.items, c.totals = b.totals,
         (b.kind = "gestionale" /\ u < limit.fields) =>
           \A j \in ToSet(b.frames) : Cmd(j) \in {"mtotal", "mtotals"} => c.seenTotal
  PROVE  Tallied(c, u, k)
<1>1. next \in Nat BY DEF Inv, TypeOK
<1>2. \A x \in 1..next : x \in 1..k BY <1>1
<1>3. \A t \in ToSet(c.items) : t.frame \in 1..k BY <1>2 DEF Ready
<1>4. Faithful(c) BY DEF Ready, Faithful, Base
<1> QED BY <1>3, <1>4 DEF Tallied, Base

LEMMA ItemTallied ==
  ASSUME Inv, NEW b, NEW c, NEW u, NEW k \in Nat, k = next + 1, Ready(b, k), Base(b, c),
         Val(k) \in Nat, c.items = Append(b.items, [frame |-> k, val |-> Val(k)]),
         c.totals = b.totals, Cmd(k) \in Items \cup {"mitem"},
         b.kind = "gestionale" =>
           \A j \in ToSet(b.frames) : j # k => Cmd(j) \notin {"mtotal", "mtotals"}
  PROVE  Tallied(c, u, k)
<1> DEFINE r == [frame |-> k, val |-> Val(k)]
<1>1. next \in Nat BY DEF Inv, TypeOK
<1>2. (\A x \in 1..next : x \in 1..k) /\ k \in 1..k BY <1>1
<1>3. b.items \in Seq(Item) BY DEF Ready, Builder, Item
<1>4. r \in Item /\ r.frame = k /\ r.val = Val(k) BY DEF Item
<1> HIDE DEF r
<1>5. ToSet(c.items) = ToSet(b.items) \cup {r} BY <1>3, <1>4, ToSetAppend DEF r
<1>6. \A t \in ToSet(c.items) : t.frame \in 1..k BY <1>2, <1>4, <1>5 DEF Ready
<1>7. Cmd(k) \notin {"mtotal", "mtotals"} BY DEF Items
<1>8. c.kind = "gestionale" => \A j \in ToSet(c.frames) : Cmd(j) \notin {"mtotal", "mtotals"}
  BY <1>7 DEF Base
<1>9. Faithful(c)
  <2>1. ASSUME NEW t \in ToSet(c.items) PROVE Cmd(t.frame) \in Items \cup {"mitem"} /\ t.val = Val(t.frame)
    <3>1. CASE t = r BY <1>4, <3>1
    <3>2. CASE t \in ToSet(b.items) BY <3>2 DEF Ready, Faithful
    <3> QED BY <1>5, <3>1, <3>2
  <2>2. \A t \in ToSet(c.totals) : t.val = IF Cmd(t.frame) = "mtotals" THEN -1 ELSE Val(t.frame)
    BY DEF Ready, Faithful
  <2> QED BY <1>8, <2>1, <2>2 DEF Faithful
<1> QED BY <1>6, <1>8, <1>9 DEF Tallied

LEMMA TotalTallied ==
  ASSUME Inv, NEW b, NEW c, NEW u, NEW v \in Int, NEW k \in Nat, k = next + 1, Ready(b, k), Base(b, c),
         c.totals = Append(b.totals, [frame |-> k, val |-> v]), c.items = b.items,
         v = (IF Cmd(k) = "mtotals" THEN -1 ELSE Val(k)),
         b.kind = "gestionale" => c.seenTotal
  PROVE  Tallied(c, u, k)
<1> DEFINE r == [frame |-> k, val |-> v]
<1>1. next \in Nat BY DEF Inv, TypeOK
<1>2. \A x \in 1..next : x \in 1..k BY <1>1
<1>3. b.totals \in Seq(Total) BY DEF Ready, Builder, Total
<1>4. r \in Total /\ r.frame = k /\ r.val = v BY DEF Total
<1> HIDE DEF r
<1>5. ToSet(c.totals) = ToSet(b.totals) \cup {r} BY <1>3, <1>4, ToSetAppend DEF r
<1>6. \A t \in ToSet(c.items) : t.frame \in 1..k BY <1>2 DEF Ready
<1>7. Faithful(c)
  <2>1. ASSUME NEW t \in ToSet(c.totals)
        PROVE  t.val = IF Cmd(t.frame) = "mtotals" THEN -1 ELSE Val(t.frame)
    <3>1. CASE t = r BY <1>4, <3>1
    <3>2. CASE t \in ToSet(b.totals) BY <3>2 DEF Ready, Faithful
    <3> QED BY <1>5, <3>1, <3>2
  <2> QED BY <2>1 DEF Ready, Faithful, Base
<1> QED BY <1>6, <1>7 DEF Tallied, Base

-----------------------------------------------------------------------------
(* The commands *)

LEMMA TurnFacts ==
  ASSUME Inv, NEW k \in 1..Len(request), Consume(k)
  PROVE  /\ k \in Nat /\ k = next + 1 /\ next' = k /\ k <= Len(request) /\ Val(k) \in Nat
         /\ phase = "assemble" /\ phase' = "assemble"
         /\ UNCHANGED <<inputs, answers, attached, result>>
<1>1. request \in Seq(Captured) /\ conv \in Conversations BY DEF Inv, TypeOK
<1>2. conv \in Seq([cmd : Commands, val : Nat, sale : Nat])
  BY <1>1, AssemblyAssumption DEF Conversation
<1>3. request[k].pos \in 1..Len(conv)
  <2>1. request[k] \in Captured BY <1>1
  <2> QED BY <2>1 DEF Captured
<1>4. Val(k) \in Nat
  <2> DEFINE R == [cmd : Commands, val : Nat, sale : Nat]
  <2>1. conv \in Seq(R) BY <1>2
  <2>2. \A x \in R : x.val \in Nat OBVIOUS
  <2> HIDE DEF R
  <2>3. conv[request[k].pos] \in R BY <1>3, <2>1
  <2> QED BY <2>2, <2>3 DEF Val
<1>5. k \in Nat BY <1>1
<1> QED BY <1>4, <1>5 DEF Consume

LEMMA Budget ==
  ASSUME Inv
  PROVE  limit.fields \in Nat /\ used \in Nat /\ used <= limit.fields /\ crossed \in BOOLEAN
<1>1. limit \in Limits /\ used \in 0..limit.fields /\ crossed \in BOOLEAN BY DEF Inv, TypeOK
<1>2. limit.fields \in Nat BY <1>1, AssemblyAssumption
<1>3. used \in Nat /\ used <= limit.fields BY <1>1, <1>2
<1> QED BY <1>1, <1>2, <1>3

LEMMA ReserveBound ==
  ASSUME Inv, NEW u \in Nat, u <= limit.fields, NEW n \in Nat
  PROVE  /\ Reserve(u, n) \in 0..limit.fields /\ Reserve(u, n) \in Nat
         /\ Reserve(u, n) >= u /\ Reserve(u, n) <= limit.fields
         /\ Fits(u, n) \in BOOLEAN
<1>1. limit.fields \in Nat BY Budget
<1> QED BY <1>1 DEF Reserve, Fits

LEMMA SpendBound ==
  ASSUME Inv, NEW n \in Nat, Spend(n)
  PROVE  used' \in 0..limit.fields /\ crossed' \in BOOLEAN
<1>1. used \in Nat /\ used <= limit.fields BY Budget
<1>2. Reserve(used, n) \in 0..limit.fields BY <1>1, ReserveBound
<1>3. used' = Reserve(used, n) /\ crossed' = (crossed \/ ~Fits(used, n)) BY DEF Spend
<1>4. crossed' \in BOOLEAN BY <1>3, Zenon
<1> QED BY <1>2, <1>3, <1>4

\* What frame k adds to the fields of b, and what it says of the budget if it
\* should have added something and did not.
Noted(b, c, k) ==
  /\ used <= used'
  /\ c.seenTotal => b.seenTotal \/ Cmd(k) \in {"mtotal", "mtotals"}
  /\ \/ /\ c.items = Append(b.items, [frame |-> k, val |-> Val(k)]) /\ c.totals = b.totals
        /\ used + 4 <= used' /\ Cmd(k) \in Items \cup {"mitem"}
     \/ /\ c.totals = Append(b.totals, [frame |-> k, val |-> IF Cmd(k) = "mtotals" THEN -1 ELSE Val(k)])
        /\ c.items = b.items
        /\ used + 3 <= used' /\ Cmd(k) \in {"total", "mtotal", "mtotals"}
     \/ /\ c.items = b.items /\ c.totals = b.totals
        /\ Cmd(k) \in Items \cup {"total"} => limit.fields - used <= 4
        /\ Cmd(k) = "mitem" => b.seenTotal \/ limit.fields - used' <= 1
        /\ Cmd(k) = "mtotal" => used' = limit.fields

\* What the applied command leaves of the builder b.
Written(b, k) ==
  /\ Base(b, active') /\ Tallied(active', used', k) /\ Noted(b, active', k)
  /\ used' \in 0..limit.fields /\ crossed' \in BOOLEAN

LEMMA ItemWritten ==
  ASSUME Inv, NEW b, NEW k \in Nat, k = next + 1, Val(k) \in Nat, Ready(b, k),
         b.kind = "commerciale", Cmd(k) \in Items, ApplyCommercialItem(b, k)
  PROVE  Written(b, k)
<1> DEFINE need == IF Cmd(k) = "itemq" THEN 5 ELSE 4
           r == [frame |-> k, val |-> Val(k)]
           x == Append(b.items, r)
           l == Append(b.lines, k)
           c == [b EXCEPT !.items = x, !.lines = l]
<1>1. need \in Nat /\ Spend(need) BY DEF ApplyCommercialItem
<1>2. used' \in 0..limit.fields /\ crossed' \in BOOLEAN
  <2> HIDE DEF need
  <2> QED BY <1>1, SpendBound
<1>3. b \in Builder BY DEF Ready
<1>4. active' = IF Fits(used, need) THEN c ELSE b BY <1>3 DEF ApplyCommercialItem, Builder
<1>5. x \in Seq(Item) /\ l \in Seq(Nat)
  <2>1. b.items \in Seq(Item) /\ b.lines \in Seq(Nat) BY <1>3 DEF Builder, Item
  <2>2. r \in Item BY DEF Item
  <2> HIDE DEF r
  <2> QED BY <2>1, <2>2
<1>8. need = 4 \/ need = 5 OBVIOUS
<1>9. limit.fields \in Nat /\ used \in Nat /\ used <= limit.fields BY Budget
<1>6. CASE Fits(used, need)
  <2> HIDE DEF l, need
  <2>1. active' = c BY <1>4, <1>6
  <2>2. Base(b, c) /\ c.items = x /\ c.totals = b.totals /\ c.seenTotal = b.seenTotal
    <3> HIDE DEF x
    <3> QED BY <1>3, <1>5 DEF Builder, Base, Item
  <2> HIDE DEF c
  <2>3. Tallied(c, used', k) BY <2>2, ItemTallied
  <2>4. used <= used' /\ used + 4 <= used' BY <1>1, <1>6, <1>8, <1>9 DEF Spend, Reserve
  <2>5. Noted(b, c, k) BY <2>2, <2>4, Zenon DEF Noted
  <2> QED BY <1>2, <2>1, <2>2, <2>3, <2>5 DEF Written
<1>7. CASE ~Fits(used, need)
  <2>1. active' = b BY <1>4, <1>7
  <2>2. Base(b, b) BY <1>3 DEF Base
  <2>3. Tallied(b, used', k) BY <2>2, NothingTallied
  <2>4. used <= used' /\ limit.fields - used <= 4
    <3> HIDE DEF need
    <3> QED BY <1>1, <1>7, <1>8, <1>9 DEF Spend, Reserve, Fits
  <2>5. Cmd(k) # "mitem" /\ Cmd(k) # "mtotal" BY DEF Items
  <2>6. Noted(b, b, k) BY <2>4, <2>5, Zenon DEF Noted
  <2> QED BY <1>2, <2>1, <2>2, <2>3, <2>6 DEF Written
<1> QED BY <1>6, <1>7

LEMMA TotalWritten ==
  ASSUME Inv, NEW b, NEW k \in Nat, k = next + 1, Val(k) \in Nat, Ready(b, k),
         b.kind = "commerciale", Cmd(k) = "total", ApplyCommercialTotal(b, k)
  PROVE  Written(b, k)
<1> DEFINE v == Val(k)
           x == Append(b.totals, [frame |-> k, val |-> v])
           l == b.lines \o <<k, k>>
           p == [b EXCEPT !.state = "commercial_payment"]
           c == [p EXCEPT !.totals = x, !.settled = p.settled + 1, !.lines = l]
<1>1. Spend(5) BY DEF ApplyCommercialTotal
<1>2. used' \in 0..limit.fields /\ crossed' \in BOOLEAN BY <1>1, SpendBound
<1>3. b \in Builder BY DEF Ready
<1>4. /\ Base(b, p) /\ p.items = b.items /\ p.totals = b.totals /\ p.lines = b.lines
      /\ p.seenTotal = b.seenTotal
  BY <1>3, SetState
<1>9. limit.fields \in Nat /\ used \in Nat /\ used <= limit.fields BY Budget
<1>5. active' = IF Fits(used, 5) THEN c ELSE p
  <2>1. active' = IF Fits(used, 5)
                  THEN [p EXCEPT !.totals = Append(@, [frame |-> k, val |-> Val(k)]),
                                 !.settled = @ + 1, !.lines = @ \o <<k, k>>]
                  ELSE p
    BY DEF ApplyCommercialTotal
  <2> HIDE DEF p
  <2> QED BY <1>4, <2>1 DEF Builder, Base
<1>6. x \in Seq(Total) /\ l \in Seq(Nat)
  <2>1. b.totals \in Seq(Total) /\ b.lines \in Seq(Nat) BY <1>3 DEF Builder, Total
  <2>2. [frame |-> k, val |-> v] \in Total BY DEF Total
  <2>3. <<k, k>> \in Seq(Nat) OBVIOUS
  <2> QED BY <2>1, <2>2, <2>3
<1> HIDE DEF p
<1>7. CASE Fits(used, 5)
  <2>1. active' = c BY <1>5, <1>7
  <2>2. Base(p, c) /\ c.items = p.items /\ c.totals = x /\ c.seenTotal = p.seenTotal
    <3> HIDE DEF x, l
    <3>0. p \in Builder /\ p.settled \in Nat BY <1>4 DEF Builder, Base
    <3>1. p \in Builder /\ p.settled + 1 \in Nat BY <3>0
    <3> QED BY <1>6, <3>1 DEF Builder, Base, Total
  <2>3. Base(b, c) /\ c.items = b.items /\ c.seenTotal = b.seenTotal BY <1>4, <2>2 DEF Base
  <2> HIDE DEF c
  <2>6. used <= used' /\ used + 3 <= used' BY <1>1, <1>7, <1>9 DEF Spend, Reserve
  <2>7. x = Append(b.totals, [frame |-> k, val |-> IF Cmd(k) = "mtotals" THEN -1 ELSE Val(k)])
    OBVIOUS
  <2>8. Noted(b, c, k)
    <3> HIDE DEF x
    <3> QED BY <2>2, <2>3, <2>6, <2>7, Zenon DEF Noted
  <2>4. v \in Int /\ v = (IF Cmd(k) = "mtotals" THEN -1 ELSE Val(k)) OBVIOUS
  <2> HIDE DEF v
  <2>5. Tallied(c, used', k) BY <2>2, <2>3, <2>4, TotalTallied
  <2> QED BY <1>2, <2>1, <2>3, <2>5, <2>8 DEF Written
<1>8. CASE ~Fits(used, 5)
  <2>1. active' = p BY <1>5, <1>8
  <2>2. Tallied(p, used', k) BY <1>4, NothingTallied
  <2>3. used <= used' /\ limit.fields - used <= 4 BY <1>1, <1>8, <1>9 DEF Spend, Reserve, Fits
  <2>4. Cmd(k) # "mitem" /\ Cmd(k) # "mtotal" OBVIOUS
  <2>5. Noted(b, p, k) BY <1>4, <2>3, <2>4, Zenon DEF Noted
  <2> QED BY <1>2, <1>4, <2>1, <2>2, <2>5 DEF Written
<1> QED BY <1>7, <1>8

\* The three reservations of a management line.
LEMMA LineWritten ==
  ASSUME Inv, NEW b, NEW k \in Nat, k = next + 1, Val(k) \in Nat, Ready(b, k),
         b.kind = "gestionale", Cmd(k) \in Lines, ApplyManagementLine(b, k)
  PROVE  Written(b, k)
<1> DEFINE cmd == Cmd(k)
           n == AmountsIn(cmd)
           u1 == Reserve(used, 1)
           got == AmountsRead(n, u1)
           as == TakenFor(cmd, got, b.seenTotal)
           need == FieldsOf(as)
           u2 == u1 + got
           fits == Fits(u2, need)
           l == IF Fits(used, 1) THEN Append(b.lines, k) ELSE b.lines
           s == b.seenTotal \/ as = "total"
           read == [b EXCEPT !.lines = l, !.seenTotal = s]
           L == limit.fields
<1>1. b \in Builder BY DEF Ready
<1>2. /\ used' = Reserve(u2, need)
      /\ crossed' = (crossed \/ ~Fits(used, 1) \/ got < n \/ ~fits)
      /\ active' = IF fits THEN Recorded(read, k, as, got) ELSE read
  <2>1. [b EXCEPT !.lines = IF Fits(used, 1) THEN Append(@, k) ELSE @,
                  !.seenTotal = @ \/ as = "total"] = read
    BY <1>1 DEF Builder
  <2> HIDE DEF read
  <2> QED BY <2>1, Zenon DEF ApplyManagementLine
<1>3. L \in Nat /\ used \in Nat /\ used <= L BY Budget
<1>4. u1 \in Nat /\ u1 <= L /\ used <= u1 BY <1>3, ReserveBound
<1>5. n \in 0..2 BY DEF AmountsIn
<1>6. got \in Nat /\ got <= n /\ u2 \in Nat /\ u2 <= L /\ used <= u2 /\ (got < n => u2 = L)
  <2> HIDE DEF n, u1
  <2> QED BY <1>3, <1>4, <1>5 DEF AmountsRead
<1>7. need \in {0, 1, 2} BY DEF FieldsOf
<1>8. used' \in 0..L /\ used' \in Nat /\ used' >= u2 /\ used' <= L
  <2> HIDE DEF u2, need
  <2>1. need \in Nat BY <1>7
  <2> QED BY <1>2, <1>6, <2>1, ReserveBound
<1>9. crossed' \in BOOLEAN BY <1>2, Zenon
<1>10. l \in Seq(Nat) /\ s \in BOOLEAN
  <2>1. b.lines \in Seq(Nat) BY <1>1 DEF Builder
  <2>2. l \in Seq(Nat) BY <2>1
  <2>3. s \in BOOLEAN BY Zenon
  <2> QED BY <2>2, <2>3
<1>11. Base(b, read) /\ read.items = b.items /\ read.totals = b.totals /\ read.seenTotal = s
  <2> HIDE DEF l, s
  <2>1. Base(b, read) /\ read.items = b.items /\ read.totals = b.totals
    BY <1>1, <1>10 DEF Builder, Base
  <2>2. read.seenTotal = s BY <1>1 DEF Builder
  <2> QED BY <2>1, <2>2
<1>12. fits => u2 + need <= L BY DEF Fits
<1>20. /\ fits => used' = u2 + need
       /\ ~fits => u2 + need > L
  <2> HIDE DEF u2, need
  <2>1. need \in Nat BY <1>7
  <2> QED BY <1>2, <1>3, <1>6, <2>1 DEF Fits, Reserve
<1>17. u1 = used + 1 \/ (used = L /\ u1 = L) BY <1>3 DEF Reserve, Fits
<1>18. u2 = u1 + got OBVIOUS
<1>19. s => b.seenTotal \/ Cmd(k) \in {"mtotal", "mtotals"} BY DEF TakenFor
<1> HIDE DEF got, n, u1, u2, need, fits, l, read
\* A total whose amounts were read is seen; one whose amounts were not fills the budget.
<1>13. used' < L => \A j \in ToSet(b.frames) : Cmd(j) \in {"mtotal", "mtotals"} => s
  <2> SUFFICES ASSUME used' < L, NEW j \in ToSet(b.frames), Cmd(j) \in {"mtotal", "mtotals"}
               PROVE  s
    OBVIOUS
  <2>1. used < L /\ u2 # L BY <1>3, <1>6, <1>8
  <2>2. CASE j # k BY <2>1, <2>2 DEF Ready
  <2>3. CASE j = k
    <3>1. n > 0 BY <2>3 DEF n, AmountsIn, Printed
    <3>2. got > 0 BY <1>5, <1>6, <2>1, <3>1
    <3>3. as = "total" BY <2>3, <3>2 DEF TakenFor
    <3> QED BY <3>3
  <2> QED BY <2>2, <2>3
<1>14. CASE fits /\ as = "item"
  <2>1. need = 2 BY <1>14 DEF need, FieldsOf
  <2>2. got = n /\ used < L BY <1>3, <1>5, <1>6, <1>12, <1>14, <2>1
  <2>3. cmd \in Printed /\ ~b.seenTotal
    BY <1>14 DEF TakenFor
  <2>4. cmd = "mitem"
    <3>1. cmd \in {"mtotals", "mchanges", "mtax"} => got = 2 BY <2>2 DEF n, AmountsIn
    <3>2. cmd \in {"mtotal", "mpayment", "mchange"} => got = 1 BY <2>2, <2>3 DEF n, AmountsIn
    <3> QED BY <1>14, <2>3, <3>1, <3>2 DEF TakenFor, Printed
  <2> DEFINE x == Append(read.items, [frame |-> k, val |-> Val(k)])
             c == [read EXCEPT !.items = x]
  <2>5. active' = c
    <3>1. Recorded(read, k, "item", got) = c BY <1>11 DEF Recorded, Base, Builder
    <3> QED BY <1>2, <1>14, <3>1
  <2>6. x \in Seq(Item)
    <3>1. read.items \in Seq(Item) BY <1>11 DEF Base, Builder, Item
    <3>2. [frame |-> k, val |-> Val(k)] \in Item BY DEF Item
    <3> QED BY <3>1, <3>2
  <2>7. Base(read, c) /\ c.items = x /\ c.totals = read.totals /\ c.seenTotal = read.seenTotal
    <3> HIDE DEF x
    <3>1. read \in Builder BY <1>11 DEF Base
    <3> QED BY <2>6, <3>1, SetItems
  <2>8. /\ Base(b, c) /\ c.items = Append(b.items, [frame |-> k, val |-> Val(k)])
        /\ c.totals = b.totals /\ c.seenTotal = s
    <3> HIDE DEF c
    <3> QED BY <1>11, <2>7 DEF Base
  <2>9. \A j \in ToSet(b.frames) : j # k => Cmd(j) \notin {"mtotal", "mtotals"}
    BY <2>2, <2>3 DEF Ready
  <2> HIDE DEF c
  <2>10. Tallied(c, used', k) BY <2>4, <2>8, <2>9, ItemTallied
  <2>11. n = 1 BY <2>4 DEF n, AmountsIn, Printed
  <2>12. used <= used' /\ used + 4 <= used'
    BY <1>3, <1>4, <1>6, <1>14, <1>17, <1>18, <1>20, <2>1, <2>2, <2>11
  <2>13. Cmd(k) \in Items \cup {"mitem"} BY <2>4
  <2> HIDE DEF s
  <2>14. Noted(b, c, k) BY <1>19, <2>8, <2>12, <2>13, Zenon DEF Noted
  <2> QED BY <1>8, <1>9, <2>5, <2>8, <2>10, <2>14 DEF Written
<1>15. CASE fits /\ as = "total"
  <2>1. need = 1 BY <1>15 DEF need, FieldsOf
  <2>2. got = n BY <1>3, <1>5, <1>6, <1>12, <1>15, <2>1
  <2>3. cmd \in {"mtotal", "mtotals"} BY <1>15 DEF TakenFor
  <2> DEFINE v == IF got = 1 THEN Val(k) ELSE -1
             x == Append(read.totals, [frame |-> k, val |-> v])
             c == [read EXCEPT !.totals = x]
  <2>4. v \in Int /\ v = IF Cmd(k) = "mtotals" THEN -1 ELSE Val(k)
    BY <2>2, <2>3 DEF n, AmountsIn, Printed
  <2>5. active' = c
    <3>1. Recorded(read, k, "total", got) = c BY <1>11 DEF Recorded, Base, Builder
    <3> QED BY <1>2, <1>15, <3>1
  <2> HIDE DEF v
  <2>6. x \in Seq(Total)
    <3>1. read.totals \in Seq(Total) BY <1>11 DEF Base, Builder, Total
    <3>2. [frame |-> k, val |-> v] \in Total BY <2>4 DEF Total
    <3> QED BY <3>1, <3>2
  <2>7. Base(read, c) /\ c.totals = x /\ c.items = read.items /\ c.seenTotal = read.seenTotal
    <3> HIDE DEF x
    <3>1. read \in Builder BY <1>11 DEF Base
    <3> QED BY <2>6, <3>1, SetTotals
  <2>8. /\ Base(b, c) /\ c.totals = Append(b.totals, [frame |-> k, val |-> v])
        /\ c.items = b.items /\ c.seenTotal /\ c.seenTotal = s
    <3> HIDE DEF c
    <3> QED BY <1>11, <1>15, <2>7 DEF Base
  <2> HIDE DEF c
  <2>9. Tallied(c, used', k) BY <2>4, <2>8, TotalTallied
  <2>10. n > 0 BY <2>3 DEF n, AmountsIn, Printed
  <2>11. used <= used' /\ used + 3 <= used'
    BY <1>3, <1>4, <1>5, <1>6, <1>15, <1>17, <1>18, <1>20, <2>1, <2>2, <2>10
  <2>12. Cmd(k) \in {"total", "mtotal", "mtotals"} BY <2>3
  <2>13. c.totals = Append(b.totals, [frame |-> k, val |-> IF Cmd(k) = "mtotals" THEN -1 ELSE Val(k)])
    BY <2>4, <2>8
  <2> HIDE DEF s
  <2>14. Noted(b, c, k) BY <1>19, <2>8, <2>11, <2>12, <2>13, Zenon DEF Noted
  <2> QED BY <1>8, <1>9, <2>5, <2>8, <2>9, <2>14 DEF Written
<1>16. CASE ~(fits /\ as \in {"item", "total"})
  <2>1. /\ Base(b, active') /\ active'.items = b.items /\ active'.totals = b.totals
        /\ active'.seenTotal = s
    <3>1. CASE active' = read BY <1>11, <3>1
    <3>2. CASE fits /\ as \in {"payment", "tax"}
      <4> DEFINE z == read.settled + 1
                 c == [read EXCEPT !.settled = z]
      <4>1. Recorded(read, k, as, got) = c BY <1>11, <3>2 DEF Recorded, Base, Builder
      <4>2. read \in Builder /\ read.settled \in Nat BY <1>11 DEF Base, Builder
      <4>3. z \in Nat BY <4>2
      <4>4. Base(read, c) /\ c.items = read.items /\ c.totals = read.totals
            /\ c.seenTotal = read.seenTotal
        <5> HIDE DEF z
        <5> QED BY <4>2, <4>3, SetSettled
      <4> HIDE DEF c
      <4> QED BY <1>2, <1>11, <3>2, <4>1, <4>4 DEF Base
    <3>5. CASE fits /\ as = "change"
      <4> DEFINE v == IF got = AmountsIn(Cmd(k)) THEN "last" ELSE "earlier"
                 c == [read EXCEPT !.change = v]
      <4>1. Recorded(read, k, as, got) = c BY <1>11, <3>5 DEF Recorded
      <4>2. read \in Builder BY <1>11 DEF Base
      <4>3. v \in {"last", "earlier"} OBVIOUS
      <4>4. Base(read, c) /\ c.items = read.items /\ c.totals = read.totals
            /\ c.seenTotal = read.seenTotal
        <5> HIDE DEF v
        <5> QED BY <4>2, <4>3, SetChange
      <4> HIDE DEF c
      <4> QED BY <1>2, <1>11, <3>5, <4>1, <4>4 DEF Base
    <3>3. ASSUME fits, as \notin {"payment", "tax", "change"} PROVE active' = read
      <4>1. Recorded(read, k, as, got) = read BY <1>16, <3>3 DEF Recorded
      <4> QED BY <1>2, <3>3, <4>1
    <3>4. CASE ~fits BY <1>2, <1>11, <3>4
    <3> QED BY <3>1, <3>2, <3>3, <3>4, <3>5
  <2>3. Cmd(k) \notin Items \cup {"total"} BY DEF Items, Lines, Plain, Printed
  <2>4. used <= used' BY <1>3, <1>6, <1>8
  \* An item that was not recorded was after a total or had less than four fields.
  <2>5. ASSUME Cmd(k) = "mitem", ~b.seenTotal PROVE L - used' <= 1
    <3>1. as = "item" BY <2>5 DEF TakenFor, Printed
    <3>2. need = 2 /\ ~fits BY <1>16, <3>1 DEF need, FieldsOf
    <3> QED BY <1>3, <1>6, <1>8, <1>20, <3>2
  \* A total that was not recorded had less than three.
  <2>6. ASSUME Cmd(k) = "mtotal" PROVE used' = L
    <3>1. n = 1 BY <2>6 DEF n, AmountsIn, Printed
    <3>2. CASE got = 0 BY <1>3, <1>6, <1>8, <3>1, <3>2
    <3>3. CASE got > 0
      <4>1. as = "total" BY <2>6, <3>3 DEF TakenFor
      <4>2. need = 1 /\ ~fits BY <1>16, <4>1 DEF need, FieldsOf
      <4> QED BY <1>3, <1>6, <1>8, <1>20, <4>2
    <3> QED BY <1>6, <3>2, <3>3
  <2> HIDE DEF s
  <2>2. Tallied(active', used', k) BY <1>13, <2>1, NothingTallied
  <2>7. Noted(b, active', k) BY <1>19, <2>1, <2>3, <2>4, <2>5, <2>6, Zenon DEF Noted
  <2> QED BY <1>8, <1>9, <2>1, <2>2, <2>7 DEF Written
<1> QED BY <1>14, <1>15, <1>16

-----------------------------------------------------------------------------
(* Every action keeps the invariant *)

LEMMA Fresh ==
  ASSUME Inv, NEW k \in Nat, k = next + 1
  PROVE  /\ k \notin Frames(active) /\ k # pending /\ k # 0
         /\ pending \notin Frames(active) /\ 0 \notin Frames(active)
<1>1. next \in Nat /\ pending \in 0..next /\ Frames(active) \subseteq 1..next /\ pending \notin Frames(active)
  BY DEF Inv, TypeOK, FrameInv
<1>2. k \notin 1..next /\ k \notin 0..next /\ 0 \notin 1..next /\ k # 0 BY <1>1
<1> QED BY <1>1, <1>2

\* A command that goes to a builder of its kind.
LEMMA TargetTurn ==
  ASSUME Inv, NEW k \in 1..Len(request), Consume(k), NEW kind \in {"commerciale", "gestionale"},
         NEW notes \in Seq(Codes), SwitchTo(kind), Written(Target(kind, k, notes), k),
         pending' = pending
  PROVE  Inv'
<1> DEFINE b == Target(kind, k, notes)
           D == IF Is(kind) THEN {} ELSE Frames(active)
<1>1. /\ k \in Nat /\ k = next + 1 /\ next' = k /\ k <= Len(request)
      /\ phase = "assemble" /\ phase' = "assemble"
      /\ UNCHANGED <<inputs, answers, attached, result>>
  BY TurnFacts
<1>2. Ready(b, k) /\ b.kind = kind /\ Frames(b) = (IF Is(kind) THEN Frames(active) ELSE {}) \cup {k}
  BY <1>1, TargetReady
<1> HIDE DEF b
<1>3. Detach(D)
  <2>1. CASE Is(kind) BY <2>1 DEF SwitchTo, Keep, Detach
  <2>2. CASE ~Is(kind)
    <3>1. FinishActive BY <2>2 DEF SwitchTo
    <3> QED BY <2>2, <3>1, FinishActiveDetaches
  <2> QED BY <2>1, <2>2
<1>4. Base(b, active') /\ Tallied(active', used', k) /\ used' \in 0..limit.fields /\ crossed' \in BOOLEAN
  BY DEF Written, b
<1>5. Frames(active') = Frames(b)
  <2>1. active' \in Builder /\ active'.frames = b.frames /\ b \in Builder BY <1>2, <1>4 DEF Base, Ready
  <2> QED BY <2>1, FramesOfBuilder
<1>6. Continue BY <1>1, <1>2, <1>4 DEF Continue, Base, Ready
<1>7. Distribute({k}, D)
  <2>1. /\ k \notin Frames(active) /\ k # pending /\ pending \notin Frames(active)
    BY <1>1, Fresh
  <2>2. next' = next + 1 /\ {k} = {next + 1} BY <1>1
  <2> QED BY <1>2, <1>5, <2>1, <2>2 DEF Distribute
<1> HIDE DEF D
<1> QED BY <1>1, <1>3, <1>4, <1>6, <1>7, Turn

\* A command that leaves the documents, the budget and at most adds its frame.
LEMMA QuietTurn ==
  ASSUME Inv, NEW k \in 1..Len(request), Consume(k), Keep, UNCHANGED pending,
         used' \in 0..limit.fields, crossed' \in BOOLEAN, Continue,
         Frames(active') = Frames(active) \/ Frames(active') = Frames(active) \cup {k},
         Content(k) => k \in Frames(active')
  PROVE  Inv'
<1>1. /\ k \in Nat /\ k = next + 1 /\ next' = k /\ k <= Len(request)
      /\ phase = "assemble" /\ phase' = "assemble"
      /\ UNCHANGED <<inputs, answers, attached, result>>
  BY TurnFacts
<1>2. Detach({}) BY DEF Detach, Keep
<1>3. Distribute({k}, {})
  <2>1. /\ k \notin Frames(active) /\ k # pending /\ pending \notin Frames(active)
    BY <1>1, Fresh
  <2>2. next' = next + 1 /\ {k} = {next + 1} BY <1>1
  <2> QED BY <2>1, <2>2 DEF Distribute
<1> QED BY <1>1, <1>2, <1>3, Turn

\* The active builder as it is, one frame later.
LEMMA SameActive ==
  ASSUME Inv, NEW k \in Nat, k = next + 1, next' = k, active' = active, used' = used
  PROVE  Continue
<1>1. CASE active = None BY <1>1 DEF Continue
<1>2. CASE active # None
  <2>1. active \in Builder /\ active.frames # <<>> /\ active.number = 0 /\ Tallied(active, used, next)
    BY <1>2 DEF Inv, TypeOK, FrameInv, FieldInv, NumberInv
  <2>2. next \in Nat BY DEF Inv, TypeOK
  <2>3. \A x \in 1..next : x \in 1..k BY <2>2
  <2>4. Tallied(active, used, k) BY <2>1, <2>3 DEF Tallied
  <2> QED BY <2>1, <2>4 DEF Continue
<1> QED BY <1>1, <1>2

LEMMA LineIsWritten ==
  ASSUME Inv, NEW k \in 1..Len(request), ManagementLine(k)
  PROVE  LET notes == IF active = None THEN <<"missing_open_boundary">> ELSE <<>>
         IN  notes \in Seq(Codes) /\ Written(Target("gestionale", k, notes), k)
<1> DEFINE notes == IF active = None THEN <<"missing_open_boundary">> ELSE <<>>
           b == Target("gestionale", k, notes)
<1>1. /\ Consume(k) /\ Cmd(k) \in Lines /\ SwitchTo("gestionale")
      /\ ApplyManagementLine(b, k) /\ pending' = pending
  BY DEF ManagementLine, Accept
<1>2. k \in Nat /\ k = next + 1 /\ Val(k) \in Nat BY <1>1, TurnFacts
<1>3. notes \in Seq(Codes)
  <2>1. "missing_open_boundary" \in Codes BY DEF Codes
  <2> QED BY <2>1
<1> HIDE DEF notes
<1>4. Ready(b, k) /\ b.kind = "gestionale" BY <1>2, <1>3, TargetReady
<1> HIDE DEF b
<1>5. Written(b, k) BY <1>1, <1>2, <1>4, LineWritten
<1> QED BY <1>3, <1>5 DEF b, notes

LEMMA ManagementLineKeeps ==
  ASSUME Inv, NEW k \in 1..Len(request), ManagementLine(k) PROVE Inv'
<1> DEFINE notes == IF active = None THEN <<"missing_open_boundary">> ELSE <<>>
<1>1. Consume(k) /\ SwitchTo("gestionale") /\ pending' = pending BY DEF ManagementLine, Accept
<1>2. notes \in Seq(Codes) /\ Written(Target("gestionale", k, notes), k) BY LineIsWritten
<1> HIDE DEF notes
<1> QED BY <1>1, <1>2, TargetTurn

LEMMA ItemIsWritten ==
  ASSUME Inv, NEW k \in 1..Len(request), CommercialItem(k)
  PROVE  LET notes == <<"missing_commercial_start">>
         IN  notes \in Seq(Codes) /\ Written(Target("commerciale", k, notes), k)
<1> DEFINE notes == <<"missing_commercial_start">>
           b == Target("commerciale", k, notes)
<1>1. /\ Consume(k) /\ Cmd(k) \in Items /\ SwitchTo("commerciale")
      /\ ApplyCommercialItem(b, k) /\ pending' = pending
  BY DEF CommercialItem, Accept
<1>2. k \in Nat /\ k = next + 1 /\ Val(k) \in Nat BY <1>1, TurnFacts
<1>3. notes \in Seq(Codes)
  <2>1. "missing_commercial_start" \in Codes BY DEF Codes
  <2> QED BY <2>1
<1> HIDE DEF notes
<1>4. Ready(b, k) /\ b.kind = "commerciale" BY <1>2, <1>3, TargetReady
<1> HIDE DEF b
<1>5. Written(b, k) BY <1>1, <1>2, <1>4, ItemWritten
<1> QED BY <1>3, <1>5 DEF b, notes

LEMMA CommercialItemKeeps ==
  ASSUME Inv, NEW k \in 1..Len(request), CommercialItem(k) PROVE Inv'
<1> DEFINE notes == <<"missing_commercial_start">>
<1>1. Consume(k) /\ SwitchTo("commerciale") /\ pending' = pending BY DEF CommercialItem, Accept
<1>2. notes \in Seq(Codes) /\ Written(Target("commerciale", k, notes), k) BY ItemIsWritten
<1> HIDE DEF notes
<1> QED BY <1>1, <1>2, TargetTurn

LEMMA TotalIsWritten ==
  ASSUME Inv, NEW k \in 1..Len(request), CommercialTotal(k)
  PROVE  LET notes == <<"missing_commercial_start">>
         IN  notes \in Seq(Codes) /\ Written(Target("commerciale", k, notes), k)
<1> DEFINE notes == <<"missing_commercial_start">>
           b == Target("commerciale", k, notes)
<1>1. /\ Consume(k) /\ Cmd(k) = "total" /\ SwitchTo("commerciale")
      /\ ApplyCommercialTotal(b, k) /\ pending' = pending
  BY DEF CommercialTotal, Accept
<1>2. k \in Nat /\ k = next + 1 /\ Val(k) \in Nat BY <1>1, TurnFacts
<1>3. notes \in Seq(Codes)
  <2>1. "missing_commercial_start" \in Codes BY DEF Codes
  <2> QED BY <2>1
<1> HIDE DEF notes
<1>4. Ready(b, k) /\ b.kind = "commerciale" BY <1>2, <1>3, TargetReady
<1> HIDE DEF b
<1>5. Written(b, k) BY <1>1, <1>2, <1>4, TotalWritten
<1> QED BY <1>3, <1>5 DEF b, notes

LEMMA CommercialTotalKeeps ==
  ASSUME Inv, NEW k \in 1..Len(request), CommercialTotal(k) PROVE Inv'
<1> DEFINE notes == <<"missing_commercial_start">>
<1>1. Consume(k) /\ SwitchTo("commerciale") /\ pending' = pending BY DEF CommercialTotal, Accept
<1>2. notes \in Seq(Codes) /\ Written(Target("commerciale", k, notes), k) BY TotalIsWritten
<1> HIDE DEF notes
<1> QED BY <1>1, <1>2, TargetTurn

LEMMA SkipKeeps ==
  ASSUME Inv, NEW k \in 1..Len(request), Skip(k) PROVE Inv'
<1>1. Consume(k) /\ ~request[k].ok /\ active' = active /\ pending' = pending /\ Keep
      /\ used' = used /\ crossed' = crossed
  BY DEF Skip, budget
<1>2. k \in Nat /\ k = next + 1 /\ next' = k BY <1>1, TurnFacts
<1>3. used \in 0..limit.fields /\ crossed \in BOOLEAN BY DEF Inv, TypeOK
<1>4. Continue BY <1>1, <1>2, SameActive
<1>5. ~Content(k) BY <1>1 DEF Content
<1> QED BY <1>1, <1>3, <1>4, <1>5, QuietTurn

LEMMA CommercialTextKeeps ==
  ASSUME Inv, NEW k \in 1..Len(request), CommercialText(k) PROVE Inv'
<1> DEFINE b == AddFrame(active, k)
           l == Append(b.lines, k)
           c == [b EXCEPT !.lines = l]
<1>1. /\ Consume(k) /\ Cmd(k) = "text" /\ active # None /\ active.kind = "commerciale"
      /\ Spend(1) /\ Keep /\ pending' = pending
      /\ active' = IF Fits(used, 1) THEN [b EXCEPT !.lines = Append(@, k)] ELSE b
  BY DEF CommercialText, Accept, Is
<1>2. k \in Nat /\ k = next + 1 /\ next' = k BY <1>1, TurnFacts
<1>3. used' \in 0..limit.fields /\ crossed' \in BOOLEAN BY <1>1, SpendBound
<1>4. /\ Ready(b, k) /\ b.kind = "commerciale" /\ Frames(b) = Frames(active) \cup {k}
  BY <1>1, <1>2, AddedReady
<1> HIDE DEF b
<1>5. b \in Builder /\ b.lines \in Seq(Nat) BY <1>4 DEF Ready, Builder
<1>6. Base(b, active') /\ active'.items = b.items /\ active'.totals = b.totals
  <2>1. CASE Fits(used, 1)
    <3>1. active' = c BY <1>1, <1>5, <2>1 DEF Builder
    <3>2. l \in Seq(Nat) BY <1>2, <1>5
    <3> HIDE DEF l
    <3>3. Base(b, c) /\ c.items = b.items /\ c.totals = b.totals BY <1>5, <3>2 DEF Base, Builder
    <3> QED BY <3>1, <3>3
  <2>2. CASE ~Fits(used, 1) BY <1>1, <1>5, <2>2 DEF Base
  <2> QED BY <2>1, <2>2
<1>7. Tallied(active', used', k) BY <1>2, <1>4, <1>6, NothingTallied
<1>8. Continue BY <1>2, <1>4, <1>6, <1>7 DEF Continue, Base, Ready
<1>9. Frames(active') = Frames(b) BY <1>5, <1>6, FramesOfBuilder DEF Base
<1> QED BY <1>1, <1>3, <1>4, <1>8, <1>9, QuietTurn

LEMMA OtherCommandKeeps ==
  ASSUME Inv, NEW k \in 1..Len(request), OtherCommand(k) PROVE Inv'
<1>1. /\ Consume(k) /\ Cmd(k) \in {"text", "display", "unknown"} /\ Keep /\ pending' = pending
      /\ used' = used /\ crossed' = crossed
      /\ active' = IF active # None /\ Cmd(k) # "display" THEN AddFrame(active, k) ELSE active
  BY DEF OtherCommand, Accept, budget
<1>2. k \in Nat /\ k = next + 1 /\ next' = k BY <1>1, TurnFacts
<1>3. used \in 0..limit.fields /\ crossed \in BOOLEAN BY DEF Inv, TypeOK
<1>4. ~Content(k) BY <1>1 DEF Content, Lines, Plain, Printed, Items
<1>5. CASE active # None /\ Cmd(k) # "display"
  <2> DEFINE b == AddFrame(active, k)
  <2>1. active' = b BY <1>1, <1>5
  <2>2. Ready(b, k) /\ Frames(b) = Frames(active) \cup {k} BY <1>2, <1>5, AddedReady
  <2> HIDE DEF b
  <2>3. Tallied(b, used, k) BY <1>1, <1>2, <2>2, ReadySettled
  <2>4. Continue BY <1>1, <1>2, <2>1, <2>2, <2>3 DEF Continue, Ready
  <2> QED BY <1>1, <1>3, <1>4, <2>1, <2>2, <2>4, QuietTurn
<1>6. CASE ~(active # None /\ Cmd(k) # "display")
  <2>1. active' = active BY <1>1, <1>6
  <2>2. Continue BY <1>1, <1>2, <2>1, SameActive
  <2> QED BY <1>1, <1>3, <1>4, <2>1, <2>2, QuietTurn
<1> QED BY <1>5, <1>6

\* A command after which the builder with frames D is finished.
LEMMA FinishTurn ==
  ASSUME Inv, NEW k \in 1..Len(request), Consume(k), NEW D, Detach(D), Continue,
         used' = used, crossed' = crossed, ~Content(k),
         D \cup Frames(active') \subseteq Frames(active) \cup {k} \cup ({pending} \ {0}),
         D \cap Frames(active') = {}, Frames(active) \subseteq D,
         pending' = 0 \/ (pending' = pending /\ pending \notin D \cup Frames(active'))
  PROVE  Inv'
<1>1. /\ k \in Nat /\ k = next + 1 /\ next' = k /\ k <= Len(request)
      /\ phase = "assemble" /\ phase' = "assemble"
      /\ UNCHANGED <<inputs, answers, attached, result>>
  BY TurnFacts
<1>2. used \in 0..limit.fields /\ crossed \in BOOLEAN BY DEF Inv, TypeOK
<1>3. k # 0 /\ 0 \notin Frames(active) BY <1>1, Fresh
<1>4. next' = next + 1 /\ {k} = {next + 1} BY <1>1
<1>5. Distribute({k}, D) BY <1>3, <1>4 DEF Distribute
<1> QED BY <1>1, <1>2, <1>5, Turn

LEMMA CommercialStartKeeps ==
  ASSUME Inv, NEW k \in 1..Len(request), CommercialStart(k) PROVE Inv'
<1> DEFINE j == IF pending # 0 THEN pending ELSE k
           notes == <<>>
           b == AddFrame(New("commerciale", j, notes), k)
<1>1. /\ Consume(k) /\ Cmd(k) = "=K" /\ FinishActive /\ active' = b /\ pending' = 0
      /\ used' = used /\ crossed' = crossed
  BY DEF CommercialStart, Accept, budget
<1>2. k \in Nat /\ k = next + 1 /\ next' = k BY <1>1, TurnFacts
<1>3. j \in Nat /\ notes \in Seq(Codes)
  <2>1. pending \in Nat BY DEF Inv, TypeOK
  <2> QED BY <1>2, <2>1
<1>4. j = k \/ (j = pending /\ pending # 0) OBVIOUS
<1> HIDE DEF j, notes
<1>5. Ready(b, k) /\ b.kind = "commerciale" /\ Frames(b) = {j, k} BY <1>2, <1>3, NewReady
<1> HIDE DEF b
<1>6. Tallied(b, used, k) BY <1>2, <1>5, ReadySettled
<1>7. Continue BY <1>1, <1>2, <1>5, <1>6 DEF Continue, Ready
<1>8. Detach(Frames(active)) BY <1>1, FinishActiveDetaches
<1>9. k \notin Frames(active) /\ pending \notin Frames(active) BY <1>2, Fresh
<1>10. ~Content(k) BY <1>1 DEF Content, Lines, Plain, Printed, Items
<1> QED BY <1>1, <1>4, <1>5, <1>7, <1>8, <1>9, <1>10, FinishTurn

\* The active document is closed by the command.
LEMMA CloseTurn ==
  ASSUME Inv, NEW k \in 1..Len(request), Consume(k), active # None,
         Finish(AddFrame(active, k), TRUE), active' = None, used' = used, crossed' = crossed,
         ~Content(k), pending' = 0 \/ pending' = pending
  PROVE  Inv'
<1> DEFINE b == AddFrame(active, k)
<1>1. k \in Nat /\ k = next + 1 /\ next' = k BY TurnFacts
<1>2. Ready(b, k) /\ Frames(b) = Frames(active) \cup {k} BY <1>1, AddedReady
<1> HIDE DEF b
<1>3. Detach(Frames(b)) BY <1>2, FinishDetaches DEF Ready, b
<1>4. Continue /\ Frames(active') = {} BY DEF Continue, Frames
<1>5. pending \notin Frames(b) BY <1>1, <1>2, Fresh
<1> QED BY <1>2, <1>3, <1>4, <1>5, FinishTurn

LEMMA ManagementBoundaryKeeps ==
  ASSUME Inv, NEW k \in 1..Len(request), ManagementBoundary(k) PROVE Inv'
<1>1. /\ Consume(k) /\ Cmd(k) = "=o" /\ pending' = 0 /\ used' = used /\ crossed' = crossed
  BY DEF ManagementBoundary, Accept, budget
<1>2. ~Content(k) BY <1>1 DEF Content, Lines, Plain, Printed, Items
<1>3. CASE Is("gestionale")
  <2>1. active # None /\ Finish(AddFrame(active, k), TRUE) /\ active' = None
    BY <1>3 DEF ManagementBoundary, Is
  <2> QED BY <1>1, <1>2, <2>1, CloseTurn
<1>4. CASE ~Is("gestionale")
  <2> DEFINE notes == <<>>
             a == New("gestionale", k, notes)
             b == AddFrame(a, k)
  <2>1. FinishActive /\ active' = a BY <1>4 DEF ManagementBoundary
  <2>2. k \in Nat /\ k = next + 1 /\ next' = k BY <1>1, TurnFacts
  <2>3. notes \in Seq(Codes) OBVIOUS
  <2> HIDE DEF notes
  <2>4. Ready(b, k) /\ Frames(b) = {k} BY <2>2, <2>3, NewReady
  <2>5. b = a
    <3>1. a.frames = <<k>> BY <2>2, <2>3, NewBuilder
    <3>2. Last(<<k>>) = k BY DEF Last
    <3> HIDE DEF a
    <3> QED BY <3>1, <3>2 DEF AddFrame
  <2> HIDE DEF a, b
  <2>6. Tallied(b, used, k) BY <1>1, <2>2, <2>4, ReadySettled
  <2>7. Continue BY <1>1, <2>1, <2>2, <2>4, <2>5, <2>6 DEF Continue, Ready
  <2>8. Detach(Frames(active)) BY <2>1, FinishActiveDetaches
  <2>9. k \notin Frames(active) BY <2>2, Fresh
  <2> QED BY <1>1, <1>2, <2>1, <2>4, <2>5, <2>7, <2>8, <2>9, FinishTurn
<1> QED BY <1>3, <1>4

LEMMA ControlKeeps ==
  ASSUME Inv, NEW k \in 1..Len(request), Control(k) PROVE Inv'
<1>1. /\ Consume(k) /\ Cmd(k) \in Controls /\ used' = used /\ crossed' = crossed
  BY DEF Control, Accept, budget
<1>2. ~Content(k) BY <1>1 DEF Content, Lines, Plain, Printed, Items, Controls
<1>3. k \in Nat /\ k = next + 1 /\ next' = k BY <1>1, TurnFacts
<1>4. used \in 0..limit.fields /\ crossed \in BOOLEAN BY DEF Inv, TypeOK
<1>5. CASE Is("commerciale") /\ Cmd(k) = "close"
  <2>1. active # None /\ Finish(AddFrame(active, k), TRUE) /\ active' = None /\ pending' = pending
    BY <1>5 DEF Control, Is
  <2> QED BY <1>1, <1>2, <2>1, CloseTurn
<1>6. CASE Is("commerciale") /\ Cmd(k) # "close"
  <2> DEFINE b == AddFrame(active, k)
             x == IF b.state = "commercial_payment" THEN "commercial_postlude" ELSE b.state
             c == [b EXCEPT !.state = x]
  <2>1. active # None /\ pending' = pending /\ Keep
    BY <1>6 DEF Control, Is
  <2>2. active' = [b EXCEPT !.state = IF @ = "commercial_payment" THEN "commercial_postlude" ELSE @]
    BY <1>6 DEF Control, Is
  <2>3. Ready(b, k) /\ b.kind = active.kind /\ Frames(b) = Frames(active) \cup {k}
    BY <1>3, <2>1, AddedReady
  <2> HIDE DEF b
  <2>4. b \in Builder BY <2>3 DEF Ready
  <2>5. active' = c BY <2>2, <2>4 DEF Builder
  <2>6. x \in {"commercial_payment", "commercial_postlude", b.state} OBVIOUS
  <2> HIDE DEF x
  <2>7. Base(b, c) /\ c.items = b.items /\ c.totals = b.totals /\ c.seenTotal = b.seenTotal
    BY <2>4, <2>6, SetState
  <2> HIDE DEF c
  <2>8. b.kind = "commerciale" BY <1>6, <2>3 DEF Is
  <2>9. Tallied(c, used', k) BY <1>3, <2>3, <2>7, <2>8, NothingTallied
  <2>10. Continue BY <1>3, <2>3, <2>5, <2>7, <2>9 DEF Continue, Base, Ready
  <2>11. Frames(active') = Frames(b) BY <2>4, <2>5, <2>7, FramesOfBuilder DEF Base
  <2> QED BY <1>1, <1>2, <1>4, <2>1, <2>3, <2>10, <2>11, QuietTurn
<1>7. CASE ~Is("commerciale")
  <2>1. active' = active /\ Keep /\ (pending' = k \/ pending' = 0) BY <1>7 DEF Control
  <2>2. Continue BY <1>1, <1>3, <2>1, SameActive
  <2>3. Detach({}) BY <2>1 DEF Detach, Keep
  <2>4. k \notin Frames(active) /\ 0 \notin Frames(active) BY <1>3, Fresh
  <2>5. next' = next + 1 /\ {k} = {next + 1} BY <1>3
  <2>6. Distribute({k}, {}) BY <1>2, <2>1, <2>4, <2>5 DEF Distribute
  <2>7. /\ k <= Len(request) /\ phase = "assemble" /\ phase' = "assemble"
        /\ UNCHANGED <<inputs, answers, attached, result>>
    BY <1>1, TurnFacts
  <2> QED BY <1>1, <1>3, <1>4, <2>2, <2>3, <2>6, <2>7, Turn
<1> QED BY <1>5, <1>6, <1>7

LEMMA EndOfFramesKeeps ==
  ASSUME Inv, EndOfFrames PROVE Inv'
<1>1. /\ phase = "assemble" /\ phase' = "correlate" /\ FinishActive /\ active' = None
      /\ next' = next /\ pending' = pending /\ used' = used /\ crossed' = crossed
      /\ next = Len(request) /\ UNCHANGED <<inputs, answers, attached, result>>
  BY DEF EndOfFrames, budget
<1>2. Detach(Frames(active)) BY <1>1, FinishActiveDetaches
<1>3. Continue /\ Frames(active') = {} BY <1>1 DEF Continue, Frames
<1>4. pending \notin Frames(active) BY DEF Inv, FrameInv
<1>5. Distribute({}, Frames(active)) BY <1>1, <1>3, <1>4 DEF Distribute
<1>6. used \in 0..limit.fields /\ crossed \in BOOLEAN /\ next \in Nat BY DEF Inv, TypeOK
<1>7. next' <= Len(request) BY <1>1, <1>6
<1> QED BY <1>1, <1>2, <1>3, <1>5, <1>6, <1>7, Turn

-----------------------------------------------------------------------------
(* After the loop *)

\* Two numbers with the same residue are the same or a whole turn apart.
LEMMA Residue ==
  ASSUME NEW M \in Nat, M > 0, NEW x \in Nat, NEW y \in Nat, x % M = y % M
  PROVE  x = y \/ x - y >= M \/ y - x >= M
<1> DEFINE p == x \div M
           q == y \div M
<1>1. x % M = x - M * p /\ y % M = y - M * q OBVIOUS
<1>2. p \in Int /\ q \in Int OBVIOUS
<1> HIDE DEF p, q
<1>3. x - M * p = y - M * q BY <1>1
<1>4. M * p \in Int /\ M * q \in Int /\ M * p - M * q = M * (p - q) /\ M * q - M * p = M * (q - p) BY <1>2
<1>5. \A d \in Int : d >= 1 => M * d \in Int /\ M * d >= M OBVIOUS
<1>6. CASE p = q BY <1>3, <1>4, <1>6
<1>7. CASE p - q >= 1
  <2>1. M * (p - q) >= M BY <1>2, <1>5, <1>7
  <2> QED BY <1>3, <1>4, <2>1
<1>8. CASE q - p >= 1
  <2>1. M * (q - p) >= M BY <1>2, <1>5, <1>8
  <2> QED BY <1>3, <1>4, <2>1
<1> QED BY <1>2, <1>6, <1>7, <1>8

LEMMA CaptureType ==
  ASSUME NEW R, NEW c \in Seq(R), NEW lost, NEW bad
  PROVE  Capture(c, lost, bad) \in Seq([pos : 1..Len(c), ok : BOOLEAN])
<1> DEFINE s == [p \in 1..Len(c) |-> [pos |-> p, ok |-> p \notin bad]]
           S == (1..Len(c)) \ lost
           T == [pos : 1..Len(c), ok : BOOLEAN]
<1>1. Len(c) \in Nat OBVIOUS
<1>2. \A i \in S : s[i] \in T OBVIOUS
<1>3. S \in SUBSET (1..Len(c)) OBVIOUS
<1>4. Capture(c, lost, bad) = Picked(s, S) BY DEF Capture
<1> HIDE DEF s, S, T
<1>5. Picked(s, S) \in Seq(T) BY <1>1, <1>2, <1>3, PickedType
<1> QED BY <1>4, <1>5 DEF T

LEMMA InitInv == Init => Inv
<1> SUFFICES ASSUME Init PROVE Inv OBVIOUS
<1>1. /\ conv \in Conversations /\ limit \in Limits /\ issues \in Earlier
      /\ response = <<>> /\ acks = 0 /\ next = 0 /\ active = None /\ pending = 0
      /\ documents = <<>> /\ omitting = FALSE /\ used = 0 /\ crossed = FALSE
      /\ phase = "assemble" /\ attached = 0 /\ result = None
  BY DEF Init
<1>2. request \in Seq(Captured)
  <2>1. conv \in Seq([cmd : Commands, val : Nat, sale : Nat])
    BY <1>1, AssemblyAssumption DEF Conversation
  <2>2. PICK lost, bad : request = Capture(conv, lost, bad) BY DEF Init
  <2> QED BY <2>1, <2>2, CaptureType DEF Captured
<1>3. Len(request) \in Nat BY <1>2
<1>4. issues \in Seq(Codes) /\ limit.fields \in Nat /\ limit.documents \in Nat
  BY <1>1, AssemblyAssumption
<1>5. TypeOK
  <2>1. next \in 0..Len(request) /\ pending \in 0..Len(request) BY <1>1, <1>3
  <2>2. documents \in Seq(Builder) /\ Len(documents) = 0 BY <1>1
  <2>3. Len(documents) <= limit.documents /\ attached \in 0..Len(documents) BY <1>1, <1>4, <2>2
  <2>4. used \in 0..limit.fields BY <1>1, <1>4
  <2>5. response \in Seq(Captured) /\ acks \in Nat BY <1>1
  <2>6. omitting \in BOOLEAN /\ crossed \in BOOLEAN BY <1>1
  <2>7. phase \in {"assemble", "correlate", "attach", "report", "done"} /\ phase # "done" BY <1>1
  <2> QED BY <1>1, <1>2, <1>4, <2>1, <2>2, <2>3, <2>4, <2>5, <2>6, <2>7 DEF TypeOK
<1>6. DOMAIN documents = {} BY <1>1
<1>7. Frames(active) = {} /\ 1..next = {} BY <1>1 DEF Frames
<1>8. FrameInv BY <1>1, <1>6, <1>7 DEF FrameInv
<1>9. FieldInv BY <1>1, <1>6 DEF FieldInv
<1>10. NumberInv BY <1>1, <1>6 DEF NumberInv, CounterIsOwn
<1>11. ReportInv BY <1>1 DEF ReportInv
<1> QED BY <1>5, <1>8, <1>9, <1>10, <1>11 DEF Inv

\* A step that changes no frames, items or totals of the documents.
LEMMA FrameInvKept ==
  ASSUME Inv, conv' = conv, request' = request, limit' = limit, next' = next, active' = active,
         pending' = pending, omitting' = omitting, used' \in 0..limit.fields, phase # "assemble",
         DOMAIN documents' = DOMAIN documents,
         \A i \in DOMAIN documents :
           /\ documents'[i] \in Builder
           /\ documents'[i].frames = documents[i].frames /\ documents'[i].kind = documents[i].kind
           /\ documents'[i].items = documents[i].items /\ documents'[i].totals = documents[i].totals
  PROVE  FrameInv' /\ FieldInv'
<1>1. documents \in Seq(Builder) BY DEF Inv, TypeOK
<1>2. \A i \in DOMAIN documents : documents[i] \in Builder BY <1>1
<1>3. \A i \in DOMAIN documents : Frames(documents'[i]) = Frames(documents[i])
  BY <1>2, FramesOfBuilder
<1>4. \A k : Content(k)' <=> Content(k) BY DEF Content, Cmd
<1>5. FrameInv' BY <1>3, <1>4 DEF Inv, FrameInv
<1>6. active = None BY DEF Inv, NumberInv
<1>7. \A i \in DOMAIN documents : Faithful(documents'[i])
  BY DEF Inv, FieldInv, Faithful
<1>8. (\A i \in DOMAIN documents : Faithful(documents[i]))' BY <1>7 DEF Faithful, Cmd, Val
<1>9. FieldInv' BY <1>6, <1>8 DEF FieldInv
<1> QED BY <1>5, <1>9

\* The last issues are what the correlation kept of its diagnostics.
EndsInDiagnostics ==
  \E n \in 0..Len(issues) : issues = SubSeq(issues, 1, n) \o Capped(Diagnostics(response, acks))

\* Diagnostics and its bound, with the requests and the limits as parameters.
DiagnosticsOf(r, n, a) ==
  LET OfAck(k)    == IF k > a THEN "missing_ack_candidate" ELSE "none"
      OfAnswer(k) == CASE k > Len(n) -> "missing_response_frame_candidate"
                       [] k <= Len(n) /\ Expected(n[k].pos) # Expected(r[k].pos) ->
                            "response_sequence_mismatch"
                       [] OTHER -> "none"
      turns == [i \in 1..(2 * Len(r)) |->
                  IF i % 2 = 1 THEN OfAck((i + 1) \div 2) ELSE OfAnswer(i \div 2)]
      Extra(m, code) == [i \in 1..(m - Len(r)) |-> code]
  IN  Picked(turns, {i \in DOMAIN turns : turns[i] # "none"}) \o
      Extra(Len(n), "unmatched_response_frame") \o Extra(a, "unmatched_ack")

CappedTo(l, all) == SubSeq(all, 1, IF Len(all) > l.issues THEN l.issues ELSE Len(all))

LEMMA CorrelationState ==
  /\ \A n, a : Capped(Diagnostics(n, a)) = CappedTo(limit, DiagnosticsOf(request, n, a))
  /\ Capped(Diagnostics(response, acks))' =
       CappedTo(limit', DiagnosticsOf(request', response', acks'))
<1>1. \A n, a : Diagnostics(n, a) = DiagnosticsOf(request, n, a) BY Zenon DEF Diagnostics, DiagnosticsOf
<1>2. Diagnostics(response, acks)' = DiagnosticsOf(request', response', acks')
  BY Zenon DEF Diagnostics, DiagnosticsOf, Expected, Picked, Nth, Rank
<1> DEFINE D == Diagnostics(response, acks)
<1>3. Capped(D)' = CappedTo(limit', D')
  <2> HIDE DEF D
  <2> QED BY Zenon DEF Capped, CappedTo
<1>4. \A n, a : Capped(Diagnostics(n, a)) = CappedTo(limit, Diagnostics(n, a))
  BY Zenon DEF Capped, CappedTo
<1> QED BY <1>1, <1>2, <1>3, <1>4, Zenon

LEMMA TailKept ==
  ASSUME Inv, phase \in {"attach", "report", "done"}, limit' = limit, request' = request,
         response' = response, acks' = acks, issues' = issues
  PROVE  EndsInDiagnostics'
<1> DEFINE C == Capped(Diagnostics(response, acks))
<1>2. C' = C BY CorrelationState, Zenon
<1>3. EndsInDiagnostics BY DEF Inv, ReportInv, EndsInDiagnostics
<1>4. \E n \in 0..Len(issues) : issues = SubSeq(issues, 1, n) \o C BY <1>3, Zenon DEF EndsInDiagnostics
<1> HIDE DEF C
<1>5. (\E n \in 0..Len(issues) : issues = SubSeq(issues, 1, n) \o C)' BY <1>2, <1>4
<1> QED BY <1>5, Zenon DEF EndsInDiagnostics, C

LEMMA StutterKeeps ==
  ASSUME Inv, UNCHANGED vars PROVE Inv'
<1>1. /\ conv' = conv /\ limit' = limit /\ request' = request /\ response' = response
      /\ acks' = acks /\ next' = next /\ active' = active /\ pending' = pending
      /\ documents' = documents /\ omitting' = omitting /\ used' = used /\ crossed' = crossed
      /\ issues' = issues /\ phase' = phase /\ attached' = attached /\ result' = result
  BY DEF vars, inputs, answers, budget
<1>2. TypeOK' BY <1>1 DEF Inv, TypeOK, Captured
<1>3. FrameInv' BY <1>1 DEF Inv, FrameInv, Content, Cmd
<1>4. FieldInv' BY <1>1 DEF Inv, FieldInv, Tallied, Faithful, Cmd, Val
<1>5. NumberInv' BY <1>1 DEF Inv, NumberInv, CounterIsOwn, OwnCounter, Cmd
<1>6. ReportInv'
  <2>1. Events' = Events BY <1>1 DEF Events
  <2>2. AllIssues' = AllIssues BY <1>1, <2>1, Zenon DEF AllIssues
  <2>3. Bounded(AllIssues)' = Bounded(AllIssues) BY <1>1, <2>2, Zenon DEF Bounded
  <2>4. phase' \in {"attach", "report", "done"} => EndsInDiagnostics' BY <1>1, TailKept
  <2> QED BY <1>1, <2>1, <2>3, <2>4 DEF Inv, ReportInv, EndsInDiagnostics
<1> QED BY <1>2, <1>3, <1>4, <1>5, <1>6 DEF Inv

LEMMA Repeated ==
  ASSUME NEW code \in Codes, NEW m \in Int PROVE [i \in 1..m |-> code] \in Seq(Codes)
<1>1. CASE m \in Nat BY <1>1
<1>2. CASE m \notin Nat
  <2>1. 1..m = 1..0 BY <1>2
  <2>2. [i \in 1..0 |-> code] \in Seq(Codes) OBVIOUS
  <2> QED BY <2>1, <2>2
<1> QED BY <1>1, <1>2

LEMMA DiagnosticsType ==
  ASSUME Inv, NEW n, Len(n) \in Nat, NEW a \in Nat PROVE Diagnostics(n, a) \in Seq(Codes)
<1> DEFINE OfAck(k) == IF k > a THEN "missing_ack_candidate" ELSE "none"
           OfAnswer(k) == CASE k > Len(n) -> "missing_response_frame_candidate"
                            [] k <= Len(n) /\ Expected(n[k].pos) # Expected(request[k].pos) ->
                                 "response_sequence_mismatch"
                            [] OTHER -> "none"
           turns == [i \in 1..(2 * Len(request)) |->
                       IF i % 2 = 1 THEN OfAck((i + 1) \div 2) ELSE OfAnswer(i \div 2)]
           S == {i \in DOMAIN turns : turns[i] # "none"}
           X == [i \in 1..(Len(n) - Len(request)) |-> "unmatched_response_frame"]
           Y == [i \in 1..(a - Len(request)) |-> "unmatched_ack"]
<1>1. Diagnostics(n, a) = Picked(turns, S) \o X \o Y BY DEF Diagnostics
<1>2. Len(request) \in Nat BY DEF Inv, TypeOK
<1>3. X \in Seq(Codes) /\ Y \in Seq(Codes)
  <2>1. "unmatched_response_frame" \in Codes /\ "unmatched_ack" \in Codes BY DEF Codes
  <2>2. Len(n) - Len(request) \in Int /\ a - Len(request) \in Int BY <1>2
  <2> QED BY <2>1, <2>2, Repeated
<1>4. \A k : OfAck(k) \in Codes \cup {"none"} BY DEF Codes
<1>5. \A k : OfAnswer(k) \in Codes \cup {"none"}
  <2> TAKE k
  <2>1. OfAnswer(k) \in {"missing_response_frame_candidate", "response_sequence_mismatch", "none"}
    OBVIOUS
  <2> HIDE DEF OfAnswer
  <2> QED BY <2>1 DEF Codes
<1>6. \A i \in S : turns[i] \in Codes
  <2> HIDE DEF OfAck, OfAnswer
  <2> QED BY <1>4, <1>5
<1>7. S \in SUBSET (1..(2 * Len(request))) /\ 2 * Len(request) \in Nat BY <1>2
<1> HIDE DEF turns, S, X, Y
<1>8. Picked(turns, S) \in Seq(Codes) BY <1>6, <1>7, PickedType
<1> QED BY <1>1, <1>3, <1>8

LEMMA CorrelateKeeps == ASSUME Inv, Correlate PROVE Inv'
<1> DEFINE all == Diagnostics(response', acks')
           m == IF Len(all) > limit.issues THEN limit.issues ELSE Len(all)
<1>1. /\ phase = "correlate" /\ phase' = "attach" /\ response' \in Responses
      /\ \E n \in Unacknowledged : acks' = IF n < Len(conv) THEN Len(conv) - n ELSE 0
      /\ issues' = issues \o SubSeq(all, 1, m)
      /\ conv' = conv /\ limit' = limit /\ request' = request /\ next' = next /\ active' = active
      /\ pending' = pending /\ documents' = documents /\ omitting' = omitting /\ used' = used
      /\ crossed' = crossed /\ attached' = attached /\ result' = result
  BY DEF Correlate, Capped, inputs, budget
<1>2. conv \in Seq([cmd : Commands, val : Nat, sale : Nat])
  BY AssemblyAssumption DEF Inv, TypeOK, Conversation
<1>3. response' \in Seq(Captured)
  <2>1. \E lost, bad : response' = Capture(conv, lost, bad)
    <3> DEFINE places == 1..(MaxFaults - RequestFaults)
               Gone(at, gap) == UNION {at[i]..(at[i] + gap[i] - 1) : i \in places}
               Bad(at, gap)  == {at[i] : i \in {j \in places : gap[j] = 0}}
               X == {Capture(conv, Gone(at, gap), Bad(at, gap)) :
                       at \in [places -> 0..Len(conv)], gap \in [places -> Gaps \cup {0}]}
    <3>0. Responses = X BY SMT DEF Responses
    <3>1. response' \in X
      <4> HIDE DEF X
      <4> QED BY <1>1, <3>0
    <3> HIDE DEF places, Gone, Bad
    <3>2. \E at, gap : response' = Capture(conv, Gone(at, gap), Bad(at, gap)) BY <3>1, SMT
    <3> QED BY <3>2, Zenon
  <2> QED BY <1>2, <2>1, CaptureType DEF Captured
<1>4. Len(response') \in Nat /\ acks' \in Nat BY <1>1, <1>2, <1>3, AssemblyAssumption
<1>5. all \in Seq(Codes) BY <1>4, DiagnosticsType
<1>6. limit.issues \in Nat BY AssemblyAssumption DEF Inv, TypeOK
<1> HIDE DEF all
<1>7. m \in 0..Len(all) BY <1>5, <1>6
<1> HIDE DEF m
<1>8. SubSeq(all, 1, m) \in Seq(Codes) BY <1>5, <1>7
<1>9. issues \in Seq(Codes) BY DEF Inv, TypeOK
<1>10. issues' \in Seq(Codes) /\ ToSet(issues) \subseteq ToSet(issues')
  <2>1. issues' \in Seq(Codes) BY <1>1, <1>8, <1>9
  <2>2. ASSUME NEW x \in ToSet(issues) PROVE x \in ToSet(issues')
    BY <1>1, <1>8, <1>9, ToSetConcat
  <2> QED BY <2>1, <2>2
<1>11. TypeOK' BY <1>1, <1>3, <1>4, <1>10 DEF Inv, TypeOK, Captured
<1>12. \A i \in DOMAIN documents : documents[i] \in Builder BY DEF Inv, TypeOK
<1>13. used' \in 0..limit.fields BY <1>1 DEF Inv, TypeOK
<1>14. FrameInv' /\ FieldInv' BY <1>1, <1>12, <1>13, FrameInvKept
<1>15. NumberInv' BY <1>1 DEF Inv, NumberInv, CounterIsOwn, OwnCounter, Cmd
<1>16. ReportInv'
  <2> DEFINE C == Capped(Diagnostics(response, acks))
  <2>1. C' = SubSeq(all, 1, m)
    <3>1. C' = CappedTo(limit, DiagnosticsOf(request, response', acks')) BY <1>1, CorrelationState, Zenon
    <3>2. Capped(all) = CappedTo(limit, DiagnosticsOf(request, response', acks'))
      BY CorrelationState, Zenon DEF all
    <3>3. Capped(all) = SubSeq(all, 1, m) BY Zenon DEF Capped, m
    <3> QED BY <3>1, <3>2, <3>3, Zenon
  <2> HIDE DEF C
  <2>3. SubSeq(issues', 1, Len(issues)) = issues /\ Len(issues) \in 0..Len(issues')
    <3> DEFINE y == SubSeq(all, 1, m)
    <3>1. y \in Seq(Codes) /\ issues' = issues \o y BY <1>1, <1>8
    <3> HIDE DEF y
    <3>2. Len(issues) \in Nat /\ Len(y) \in Nat /\ Len(issues') = Len(issues) + Len(y) BY <1>9, <3>1
    <3>3. Len(issues) \in 0..Len(issues') BY <3>2
    <3> QED BY <1>9, <3>1, <3>3
  <2>5. \E n \in 0..Len(issues') : issues' = SubSeq(issues', 1, n) \o C' BY <1>1, <2>1, <2>3
  <2>6. EndsInDiagnostics' BY <2>5, Zenon DEF EndsInDiagnostics, C
  <2> QED BY <1>1, <1>10, <2>6 DEF Inv, ReportInv, EndsInDiagnostics
<1> QED BY <1>11, <1>14, <1>15, <1>16 DEF Inv

LEMMA AttachCounterKeeps == ASSUME Inv, AttachCounter PROVE Inv'
<1> DEFINE a == attached + 1
           d == documents[a]
           C == Candidates(d)
           p == response[Max(C)].pos
           e == [d EXCEPT !.number = p]
<1>1. /\ phase = "attach" /\ attached < Len(documents) /\ attached' = a /\ phase' = phase
      /\ conv' = conv /\ limit' = limit /\ request' = request /\ response' = response
      /\ acks' = acks /\ next' = next /\ active' = active /\ pending' = pending
      /\ omitting' = omitting /\ issues' = issues /\ result' = result
  BY DEF AttachCounter, inputs, answers
<1>2. /\ documents \in Seq(Builder) /\ Len(documents) \in Nat /\ attached \in 0..Len(documents)
      /\ DOMAIN documents = 1..Len(documents) /\ request \in Seq(Captured)
      /\ response \in Seq(Captured) /\ next \in Nat
  BY DEF Inv, TypeOK
<1>3. a \in 1..Len(documents) /\ a \in 0..Len(documents) BY <1>1, <1>2
<1> HIDE DEF a
<1>4. d \in Builder BY <1>2, <1>3
<1>5. used \in 0..limit.fields /\ crossed \in BOOLEAN BY DEF Inv, TypeOK
<1>6. /\ used' \in 0..limit.fields /\ crossed' \in BOOLEAN
      /\ \/ documents' = documents
         \/ C # {} /\ documents' = [documents EXCEPT ![a].number = p]
  <2>1. CASE Spend(4) /\ C # {} /\ documents' = IF Fits(used, 4)
                                                THEN [documents EXCEPT ![a].number = p]
                                                ELSE documents
    <3>1. used' \in 0..limit.fields /\ crossed' \in BOOLEAN BY <2>1, SpendBound
    <3> QED BY <2>1, <3>1
  <2>2. CASE documents' = documents /\ used' = used /\ crossed' = crossed BY <1>5, <2>2
  <2>3. \/ Spend(4) /\ C # {} /\ documents' = IF Fits(used, 4)
                                              THEN [documents EXCEPT ![a].number = p]
                                              ELSE documents
        \/ documents' = documents /\ used' = used /\ crossed' = crossed
    BY Zenon DEF AttachCounter, budget, a
  <2> QED BY <2>1, <2>2, <2>3
\* The chosen query and its answer.
<1>7. ASSUME C # {}
      PROVE  p \in Nat /\ e \in Builder /\ OwnCounter(e) /\ e.frames = d.frames
             /\ e.kind = d.kind /\ e.items = d.items /\ e.totals = d.totals
  <2> DEFINE k == Max(C)
  <2>1. C \in SUBSET (0..next)
    <3>1. Frames(d) \subseteq 1..next BY <1>2, <1>3 DEF Inv, FrameInv
    <3>2. Frames(d) = ToSet(d.frames) BY <1>4, FramesOfBuilder
    <3>3. \A x \in 1..next : x \in 0..next BY <1>2
    <3>4. C \subseteq ToSet(d.frames) BY DEF Candidates
    <3> QED BY <3>1, <3>2, <3>3, <3>4
  <2>2. k \in C
    <3> HIDE DEF C
    <3> QED BY <1>2, <1>7, <2>1, MaxIsElement
  <2> HIDE DEF k
  <2>3. /\ k \in ToSet(d.frames) /\ Cmd(k) = "query"
        /\ \E j \in ToSet(d.frames) : j < k /\ Cmd(j) = "total"
        /\ SequenceMatches(k)
    BY <2>2 DEF Candidates
  <2>4. k \in 1..next
    <3>1. Frames(d) \subseteq 1..next BY <1>2, <1>3 DEF Inv, FrameInv
    <3> QED BY <1>4, <2>3, <3>1, FramesOfBuilder
  <2>5. k \in DOMAIN request /\ k \in DOMAIN response
    <3>1. next <= Len(request) /\ Len(request) \in Nat BY DEF Inv, TypeOK
    <3>2. k <= Len(response) BY <2>3 DEF SequenceMatches, Answered
    <3> QED BY <1>2, <2>4, <3>1, <3>2
  <2>6. /\ request[k].pos \in Nat /\ request[k].pos >= 1
        /\ response[k].pos \in Nat /\ response[k].pos >= 1
    <3>1. request[k] \in Captured /\ response[k] \in Captured BY <1>2, <2>5
    <3>2. Len(conv) \in Nat BY AssemblyAssumption DEF Inv, TypeOK, Conversation
    <3>3. request[k].pos \in 1..Len(conv) /\ response[k].pos \in 1..Len(conv)
      BY <3>1 DEF Captured
    <3> QED BY <3>2, <3>3
  <2> DEFINE x == request[k].pos
             y == response[k].pos
  <2>7. (x + Modulus - 2) % Modulus = (y + Modulus - 2) % Modulus
    BY <2>3 DEF SequenceMatches, Expected, Observed
  <2>8. p = y BY DEF k
  <2> HIDE DEF x, y
  <2>9. Modulus \in Nat /\ Modulus > 2 BY AssemblyAssumption
  <2>10. x + Modulus - 2 \in Nat /\ y + Modulus - 2 \in Nat /\ x \in Nat /\ y \in Nat
    BY <2>6, <2>9 DEF x, y
  <2>11. x = y \/ x - y >= Modulus \/ y - x >= Modulus
    <3>1. \/ x + Modulus - 2 = y + Modulus - 2
          \/ (x + Modulus - 2) - (y + Modulus - 2) >= Modulus
          \/ (y + Modulus - 2) - (x + Modulus - 2) >= Modulus
      BY <2>7, <2>9, <2>10, Residue
    <3> QED BY <2>9, <2>10, <3>1
  <2>12. p \in Nat BY <2>8, <2>10
  <2> HIDE DEF p
  <2>13. /\ e \in Builder /\ e.frames = d.frames /\ e.number = p
         /\ e.kind = d.kind /\ e.items = d.items /\ e.totals = d.totals
    <3> HIDE DEF d
    <3> QED BY <1>4, <2>12 DEF Builder
  <2> HIDE DEF e
  <2>14. OwnCounter(e) BY <2>3, <2>8, <2>11, <2>13 DEF OwnCounter, x
  <2> QED BY <2>12, <2>13, <2>14
<1>8. /\ DOMAIN documents' = DOMAIN documents
      /\ \A i \in DOMAIN documents : documents'[i] = documents[i] \/ (C # {} /\ i = a /\ documents'[i] = e)
  <2>1. CASE documents' = documents BY <2>1
  <2>2. CASE C # {} /\ documents' = [documents EXCEPT ![a].number = p]
    <3> HIDE DEF C, p
    <3>1. DOMAIN [documents EXCEPT ![a].number = p] = DOMAIN documents BY <1>2
    <3>2. \A i \in DOMAIN documents : [documents EXCEPT ![a].number = p][i] =
             IF i = a THEN [documents[a] EXCEPT !.number = p] ELSE documents[i]
      BY <1>2
    <3> QED BY <2>2, <3>1, <3>2
  <2> QED BY <1>6, <2>1, <2>2
<1>9. \A i \in DOMAIN documents :
         /\ documents'[i] \in Builder /\ OwnCounter(documents'[i])
         /\ documents'[i].frames = documents[i].frames /\ documents'[i].kind = documents[i].kind
         /\ documents'[i].items = documents[i].items /\ documents'[i].totals = documents[i].totals
  <2>1. \A i \in DOMAIN documents : documents[i] \in Builder /\ OwnCounter(documents[i])
    BY <1>2 DEF Inv, NumberInv, CounterIsOwn
  <2> HIDE DEF C, e
  <2> QED BY <1>7, <1>8, <2>1
<1>10. documents' \in Seq(Builder) /\ Len(documents') = Len(documents)
  <2>1. documents' \in Seq(Builder)
    <3>1. documents' = documents \/ documents' = [documents EXCEPT ![a].number = p] BY <1>6
    <3>2. documents' = [i \in 1..Len(documents) |-> documents'[i]]
      <4> HIDE DEF p
      <4>1. documents = [i \in 1..Len(documents) |-> documents[i]] BY <1>2
      <4>2. [documents EXCEPT ![a].number = p] =
              [i \in 1..Len(documents) |-> [documents EXCEPT ![a].number = p][i]]
        BY <1>2
      <4>3. CASE documents' = documents BY <4>1, <4>3
      <4>4. CASE documents' = [documents EXCEPT ![a].number = p] BY <4>2, <4>4
      <4> QED BY <3>1, <4>3, <4>4
    <3>3. documents' \in [1..Len(documents) -> Builder] BY <1>2, <1>9, <3>2
    <3> QED BY <1>2, <3>3
  <2> QED BY <1>2, <1>8, <2>1
<1>11. FrameInv' /\ FieldInv' BY <1>1, <1>6, <1>8, <1>9, FrameInvKept
<1>12. TypeOK'
  <2>1. attached' \in 0..Len(documents') BY <1>1, <1>3, <1>10
  <2>2. Len(documents') <= limit.documents BY <1>10 DEF Inv, TypeOK
  <2> QED BY <1>1, <1>6, <1>10, <2>1, <2>2 DEF Inv, TypeOK, Captured
<1>13. NumberInv'
  <2>1. (\A i \in DOMAIN documents : OwnCounter(documents[i]))' BY <1>1, <1>8, <1>9 DEF OwnCounter, Cmd
  <2>2. active = None BY <1>1 DEF Inv, NumberInv
  <2> QED BY <1>1, <2>1, <2>2 DEF NumberInv, CounterIsOwn
<1>14. ReportInv'
  <2>1. EndsInDiagnostics' BY <1>1, TailKept
  <2> QED BY <1>1, <2>1 DEF Inv, ReportInv, EndsInDiagnostics
<1> QED BY <1>11, <1>12, <1>13, <1>14 DEF Inv

Subtypes == {"", "COMMERCIALE", "COPIA", "COMANDA", "PRECONTO", "GENERICO"}

LEMMA SubtypedBuilder ==
  ASSUME Inv, NEW i \in 1..Len(documents)
  PROVE  LET d == documents[i]
             e == Subtyped(documents, i)
         IN  /\ e \in Builder /\ e.frames = d.frames /\ e.kind = d.kind /\ e.items = d.items
             /\ e.totals = d.totals /\ e.number = d.number /\ e.state = d.state
             /\ e.seenTotal = d.seenTotal /\ e.settled = d.settled /\ e.change = d.change
             /\ e.copyOf # 0 => d.kind # "commerciale" /\ e.copyOf \in CopySources(documents, i)
<1> DEFINE d == documents[i]
           S == CopySources(documents, i)
           As(subtype, of) == [d EXCEPT !.subtype = subtype, !.copyOf = of]
<1>1. d \in Builder BY DEF Inv, TypeOK
<1>2. S # {} => Max(S) \in Nat /\ Max(S) \in S
  <2> SUFFICES ASSUME S # {} PROVE Max(S) \in Nat /\ Max(S) \in S OBVIOUS
  <2>1. Len(documents) \in Nat BY DEF Inv, TypeOK
  <2>2. i - 1 \in Nat /\ 1..(i - 1) \subseteq 0..(i - 1) /\ 0..(i - 1) \subseteq Nat BY <2>1
  <2>3. S \subseteq 1..(i - 1) BY DEF CopySources
  <2> HIDE DEF S
  <2>4. S \in SUBSET (0..(i - 1)) BY <2>2, <2>3
  <2>5. Max(S) \in S BY <2>2, <2>4, MaxIsElement
  <2> QED BY <2>2, <2>4, <2>5
<1>3. \E sub \in Subtypes, of \in Nat :
         /\ Subtyped(documents, i) = As(sub, of)
         /\ of = 0 \/ (of \in S /\ d.kind # "commerciale")
  <2> DEFINE copia    == HasLine(d, {"copia"})
             comanda  == HasLine(d, {"portata"}) /\ HasLine(d, {"coperti"}) /\ d.totals = <<>>
             preconto == HasLine(d, {"preconto"})
             unpaid   == d.items # <<>> /\ d.totals # <<>> /\ d.settled = 0
             e == Subtyped(documents, i)
  <2>1. e = IF d.kind = "commerciale" THEN As("COMMERCIALE", 0)
            ELSE CASE copia -> As("COPIA", 0)
                   [] ~copia /\ comanda -> As("COMANDA", 0)
                   [] ~copia /\ ~comanda /\ preconto -> As("PRECONTO", 0)
                   [] OTHER -> IF S # {} THEN As("COPIA", Max(S))
                               ELSE As(IF unpaid THEN "PRECONTO" ELSE "GENERICO", 0)
    BY Zenon DEF Subtyped
  <2> HIDE DEF e, copia, comanda, preconto, unpaid, As, S, d
  <2>2. \/ e = As("COMMERCIALE", 0) \/ e = As("COPIA", 0) \/ e = As("COMANDA", 0)
        \/ e = As("PRECONTO", 0) \/ e = As("GENERICO", 0)
        \/ (S # {} /\ e = As("COPIA", Max(S)) /\ d.kind # "commerciale")
    BY <2>1
  <2>3. 0 \in Nat /\ "COMMERCIALE" \in Subtypes /\ "COPIA" \in Subtypes /\ "COMANDA" \in Subtypes
        /\ "PRECONTO" \in Subtypes /\ "GENERICO" \in Subtypes
    BY DEF Subtypes
  <2> QED BY <1>2, <2>2, <2>3, Zenon DEF e
<1>4. ASSUME NEW sub \in Subtypes, NEW of \in Nat
      PROVE  LET e == As(sub, of)
             IN  /\ e \in Builder /\ e.frames = d.frames /\ e.kind = d.kind /\ e.items = d.items
                 /\ e.totals = d.totals /\ e.number = d.number /\ e.state = d.state
                 /\ e.seenTotal = d.seenTotal /\ e.settled = d.settled /\ e.copyOf = of
                 /\ e.change = d.change
  <2> HIDE DEF d
  <2> QED BY <1>1 DEF Builder, Subtypes
<1>5. PICK sub \in Subtypes, of \in Nat :
         /\ Subtyped(documents, i) = As(sub, of)
         /\ of = 0 \/ (of \in S /\ d.kind # "commerciale")
  BY <1>3
<1> HIDE DEF As, S
<1> QED BY <1>4, <1>5 DEF S

LEMMA AssignSubtypesKeeps == ASSUME Inv, AssignSubtypes PROVE Inv'
<1>1. /\ phase = "attach" /\ phase' = "report"
      /\ documents' = [i \in 1..Len(documents) |-> Subtyped(documents, i)]
      /\ conv' = conv /\ limit' = limit /\ request' = request /\ response' = response
      /\ acks' = acks /\ next' = next /\ active' = active /\ pending' = pending
      /\ omitting' = omitting /\ issues' = issues /\ result' = result /\ attached' = attached
      /\ used' = used /\ crossed' = crossed
  BY DEF AssignSubtypes, inputs, answers, budget
<1>2. /\ documents \in Seq(Builder) /\ Len(documents) \in Nat /\ used \in 0..limit.fields
      /\ DOMAIN documents = 1..Len(documents)
  BY DEF Inv, TypeOK
<1>3. \A i \in DOMAIN documents :
         /\ documents'[i] \in Builder /\ documents'[i].number = documents[i].number
         /\ documents'[i].frames = documents[i].frames /\ documents'[i].kind = documents[i].kind
         /\ documents'[i].items = documents[i].items /\ documents'[i].totals = documents[i].totals
  <2> TAKE i \in DOMAIN documents
  <2>1. documents'[i] = Subtyped(documents, i) BY <1>1, <1>2
  <2> QED BY <1>2, <2>1, SubtypedBuilder
<1>4. documents' \in Seq(Builder) /\ Len(documents') = Len(documents) /\ DOMAIN documents' = DOMAIN documents
  <2>1. \A i \in 1..Len(documents) : Subtyped(documents, i) \in Builder BY SubtypedBuilder
  <2>2. documents' \in [1..Len(documents) -> Builder] BY <1>1, <2>1
  <2>3. documents' \in Seq(Builder) BY <1>2, <2>2
  <2> QED BY <1>2, <2>2, <2>3
<1>5. FrameInv' /\ FieldInv' BY <1>1, <1>2, <1>3, <1>4, FrameInvKept
<1>6. TypeOK' BY <1>1, <1>4 DEF Inv, TypeOK, Captured
<1>7. NumberInv'
  <2>1. \A i \in DOMAIN documents : OwnCounter(documents'[i])
    BY <1>3 DEF Inv, NumberInv, CounterIsOwn, OwnCounter
  <2>0. conv' = conv /\ request' = request BY <1>1
  <2>2. (\A i \in DOMAIN documents : OwnCounter(documents[i]))'
    BY <1>4, <2>0, <2>1 DEF OwnCounter, Cmd
  <2>3. active = None BY <1>1 DEF Inv, NumberInv
  <2> QED BY <1>1, <2>2, <2>3 DEF NumberInv, CounterIsOwn
<1>8. ReportInv'
  <2>1. EndsInDiagnostics' BY <1>1, TailKept
  <2> QED BY <1>1, <2>1 DEF Inv, ReportInv, EndsInDiagnostics
<1> QED BY <1>5, <1>6, <1>7, <1>8 DEF Inv

-----------------------------------------------------------------------------
(* The result *)

\* The elements of a set up to a rank are no more than that rank.
LEMMA FirstRanks ==
  ASSUME NEW n \in Nat, NEW S \in SUBSET (1..n), NEW c \in Nat
  PROVE  LET F == {i \in S : Rank(S, i) <= c}
         IN  IsFiniteSet(F) /\ Cardinality(F) \in Nat /\ Cardinality(F) <= c
<1> DEFINE F == {i \in S : Rank(S, i) <= c}
<1>1. IsFiniteSet(S) BY Finite
<1>2. F \in SUBSET S OBVIOUS
<1>3. IsFiniteSet(F) /\ Cardinality(F) \in Nat
  <2> HIDE DEF F
  <2>1. IsFiniteSet(F) BY <1>1, <1>2, FS_Subset
  <2> QED BY <2>1, FS_CardinalityType
<1>4. CASE F = {}
  <2>1. Cardinality(F) = 0 BY <1>4, FS_EmptySet
  <2> QED BY <1>3, <2>1
<1>5. CASE F # {}
  <2>1. \A j \in S : j \in 0..n OBVIOUS
  <2>2. PICK m \in F : \A y \in F : y <= m
    <3> HIDE DEF F
    <3>1. F \in SUBSET (0..n) BY <1>2, <2>1
    <3> QED BY <1>5, <3>1, GreatestNumber
  <2>3. m \in S /\ Rank(S, m) <= c BY <2>2
  <2> DEFINE L == {j \in S : j <= m}
  <2>4. F \in SUBSET L BY <1>2, <2>2
  <2>5. L \in SUBSET S OBVIOUS
  <2>6. Cardinality(L) = Rank(S, m) BY DEF Rank
  <2>7. IsFiniteSet(L) /\ Cardinality(F) <= Cardinality(L) /\ Cardinality(L) \in Nat
    <3> HIDE DEF L, F
    <3>1. IsFiniteSet(L) BY <1>1, <2>5, FS_Subset
    <3> QED BY <2>4, <3>1, FS_Subset, FS_CardinalityType
  <2> HIDE DEF L, F
  <2>8. Cardinality(F) <= c BY <1>3, <2>3, <2>6, <2>7
  <2> QED BY <1>3, <2>8 DEF F
<1> QED BY <1>4, <1>5

\* The bounded list fits, holds every crossing when the crossings fit, and says
\* when something was left out.
LEMMA BoundedList ==
  ASSUME NEW all \in Seq(Codes), NEW m \in Nat, m > 0, limit.issues = m
  PROVE  /\ Bounded(all) \in Seq(Codes) /\ Len(Bounded(all)) <= m
         /\ LET crossings == {i \in 1..Len(all) : all[i] \in LimitCodes}
            IN  Cardinality(crossings) < m =>
                  \A i \in crossings : all[i] \in ToSet(Bounded(all))
         /\ Len(all) <= m => Bounded(all) = all
         /\ Len(all) > m => "result_issue_limit_exceeded" \in ToSet(Bounded(all))
<1> DEFINE N == Len(all)
           capacity == m - 1
           crossings == {i \in 1..N : all[i] \in LimitCodes}
           first  == {i \in crossings : Rank(crossings, i) <= capacity}
           others == (1..N) \ first
           rest == capacity - Cardinality(first)
           filled == {i \in others : Rank(others, i) <= rest}
           P == first \cup filled
           B == Append(Picked(all, P), "result_issue_limit_exceeded")
<1>1. Bounded(all) = IF N <= m THEN all ELSE B BY Zenon DEF Bounded
<1>2. N \in Nat /\ capacity \in Nat /\ DOMAIN all = 1..N OBVIOUS
<1>3. crossings \in SUBSET (1..N) OBVIOUS
<1>4. first \in SUBSET (1..N) BY <1>3
<1>5. others \in SUBSET (1..N) OBVIOUS
<1>6. filled \in SUBSET (1..N) BY <1>5
<1>7. IsFiniteSet(first) /\ Cardinality(first) \in Nat /\ Cardinality(first) <= capacity
  <2> HIDE DEF crossings, capacity, N
  <2> QED BY <1>2, <1>3, FirstRanks
<1>8. rest \in Nat BY <1>2, <1>7
<1>9. IsFiniteSet(filled) /\ Cardinality(filled) \in Nat /\ Cardinality(filled) <= rest
  <2> HIDE DEF others, rest, N
  <2> QED BY <1>2, <1>5, <1>8, FirstRanks
<1> HIDE DEF first, filled, others
<1>10. P \in SUBSET (1..N) BY <1>4, <1>6
<1>11. Cardinality(P) \in Nat /\ Cardinality(P) <= capacity
  <2>1. IsFiniteSet(P) /\ Cardinality(P) <= Cardinality(first) + Cardinality(filled)
    <3>1. /\ IsFiniteSet(P)
          /\ Cardinality(P) = Cardinality(first) + Cardinality(filled) - Cardinality(first \cap filled)
      BY <1>7, <1>9, FS_Union
    <3>2. IsFiniteSet(first \cap filled) BY <1>7, FS_Intersection
    <3>3. Cardinality(first \cap filled) \in Nat BY <3>2, FS_CardinalityType
    <3> QED BY <1>7, <1>9, <3>1, <3>3
  <2>2. Cardinality(P) \in Nat BY <2>1, FS_CardinalityType
  <2> HIDE DEF P
  <2> QED BY <1>2, <1>7, <1>9, <2>1, <2>2
<1>12. /\ Picked(all, P) \in Seq(Codes) /\ Len(Picked(all, P)) = Cardinality(P)
  <2>1. \A i \in P : all[i] \in Codes BY <1>10
  <2> HIDE DEF P, N
  <2> QED BY <1>2, <1>10, <2>1, PickedType
<1>13. "result_issue_limit_exceeded" \in Codes BY DEF Codes, LimitCodes
<1>14. B \in Seq(Codes) /\ Len(B) <= m /\ ToSet(Picked(all, P)) \subseteq ToSet(B)
      /\ "result_issue_limit_exceeded" \in ToSet(B)
  <2> DEFINE q == Picked(all, P)
  <2>1. q \in Seq(Codes) /\ Len(q) = Cardinality(P) BY <1>12
  <2>2. B = Append(q, "result_issue_limit_exceeded") OBVIOUS
  <2> HIDE DEF q, P, B
  <2>3. Len(B) = Cardinality(P) + 1 BY <1>13, <2>1, <2>2
  <2>4. Len(B) <= m BY <1>2, <1>11, <2>3
  <2>5. ToSet(B) = ToSet(q) \cup {"result_issue_limit_exceeded"} /\ B \in Seq(Codes)
    BY <1>13, <2>1, <2>2, ToSetAppend
  <2> QED BY <2>4, <2>5 DEF q
<1>15. ASSUME Cardinality(crossings) < m, NEW i \in crossings
       PROVE  all[i] \in ToSet(Bounded(all))
  <2>1. i \in 1..N BY <1>15
  <2>2. CASE N <= m
    <3>1. Bounded(all) = all BY <1>1, <2>2
    <3> QED BY <1>2, <2>1, <3>1 DEF ToSet
  <2>3. CASE ~(N <= m)
    <3>1. Rank(crossings, i) <= capacity
      <4> HIDE DEF crossings, N
      <4>1. /\ Cardinality(crossings) \in Nat /\ Rank(crossings, i) \in Nat
            /\ Rank(crossings, i) <= Cardinality(crossings)
        BY <1>2, <1>3, Finite
      <4> QED BY <1>15, <4>1
    <3>2. i \in P BY <1>15, <3>1 DEF first
    <3> HIDE DEF P, N
    <3>3. \E j \in 1..Cardinality(P) : Picked(all, P)[j] = all[i] BY <1>2, <1>10, <3>2, PickedHas
    <3>4. all[i] \in ToSet(Picked(all, P)) BY <1>11, <1>12, <3>3 DEF ToSet
    <3> HIDE DEF B
    <3> QED BY <1>1, <1>14, <2>3, <3>4
  <2> QED BY <2>2, <2>3
<1>16. Bounded(all) \in Seq(Codes) /\ Len(Bounded(all)) <= m
  <2> HIDE DEF B
  <2> QED BY <1>1, <1>2, <1>14
<1>17. /\ N <= m => Bounded(all) = all
       /\ N > m => "result_issue_limit_exceeded" \in ToSet(Bounded(all))
  <2> HIDE DEF B
  <2> QED BY <1>1, <1>2, <1>14
<1> QED BY <1>15, <1>16, <1>17

LEMMA AllIssuesType ==
  ASSUME Inv
  PROVE  /\ AllIssues \in Seq(Codes) /\ ToSet(issues) \subseteq ToSet(AllIssues)
         /\ crossed => "semantic_field_limit_exceeded" \in ToSet(AllIssues)
         /\ Events > limit.messages => "message_limit_exceeded" \in ToSet(AllIssues)
<1> DEFINE c == "semantic_field_limit_exceeded"
           x == "message_limit_exceeded"
           s == IF crossed THEN <<c>> ELSE <<>>
           t == IF Events > limit.messages THEN <<x>> ELSE <<>>
<1>1. issues \in Seq(Codes) BY DEF Inv, TypeOK
<1>2. c \in Codes /\ x \in Codes BY DEF Codes, LimitCodes
<1>3. <<c>> \in Seq(Codes) /\ <<x>> \in Seq(Codes) /\ <<>> \in Seq(Codes) BY <1>2
<1>4. s \in Seq(Codes) /\ t \in Seq(Codes) BY <1>3
<1>5. AllIssues = (issues \o s) \o t BY Zenon DEF AllIssues
<1>6. issues \o s \in Seq(Codes) /\ (issues \o s) \o t \in Seq(Codes) BY <1>1, <1>4
<1>7. crossed => c \in ToSet(s)
  <2>1. crossed => s = <<c>> OBVIOUS
  <2> QED BY <2>1, ToSetOne
<1>8. Events > limit.messages => x \in ToSet(t)
  <2>1. Events > limit.messages => t = <<x>> OBVIOUS
  <2> QED BY <2>1, ToSetOne
<1> HIDE DEF s, t
<1>9. ToSet(issues) \subseteq ToSet(issues \o s) /\ ToSet(s) \subseteq ToSet(issues \o s)
  BY <1>1, <1>4, ToSetConcat
<1>10. ToSet(issues \o s) \subseteq ToSet(AllIssues) /\ ToSet(t) \subseteq ToSet(AllIssues)
  BY <1>4, <1>5, <1>6, ToSetConcat
<1> QED BY <1>5, <1>6, <1>7, <1>8, <1>9, <1>10

LEMMA EventsType ==
  ASSUME Inv
  PROVE  Events \in Nat /\ limit.messages \in Nat /\ limit.issues \in Nat /\ limit.issues > 0
<1>1. request \in Seq(Captured) /\ response \in Seq(Captured) /\ acks \in Nat /\ limit \in Limits
  BY DEF Inv, TypeOK
<1>2. Len(request) \in Nat /\ Len(response) \in Nat BY <1>1
<1>3. limit.messages \in Nat /\ limit.issues \in Nat /\ limit.issues # 0 BY <1>1, AssemblyAssumption
<1>4. limit.issues > 0 BY <1>3
<1> QED BY <1>1, <1>2, <1>3, <1>4 DEF Events

LEMMA ReportKeeps == ASSUME Inv, Report PROVE Inv'
<1>1. /\ phase = "report" /\ phase' = "done"
      /\ conv' = conv /\ limit' = limit /\ request' = request /\ response' = response
      /\ acks' = acks /\ next' = next /\ active' = active /\ pending' = pending
      /\ documents' = documents /\ omitting' = omitting /\ issues' = issues
      /\ attached' = attached /\ used' = used /\ crossed' = crossed
  BY DEF Report, inputs, answers, budget
<1> DEFINE B == Bounded(AllIssues)
           M == IF Events > limit.messages THEN limit.messages ELSE Events
<1>2. result' = [issues |-> B, messages |-> M] BY Zenon DEF Report
<1>3. /\ Events \in Nat /\ limit.messages \in Nat /\ limit.issues \in Nat /\ limit.issues > 0
  BY EventsType
<1>4. B \in Seq(Codes) /\ Len(B) <= limit.issues BY <1>3, AllIssuesType, BoundedList
<1>5. M \in 0..limit.messages BY <1>3
<1> HIDE DEF B, M
<1>6. result'.issues = B /\ result'.messages = M BY <1>2
<1>7. TypeOK' BY <1>1, <1>4, <1>5, <1>6 DEF Inv, TypeOK, Captured
<1>8. \A i \in DOMAIN documents : documents[i] \in Builder BY DEF Inv, TypeOK
<1>9. used' \in 0..limit.fields BY <1>1 DEF Inv, TypeOK
<1>10. FrameInv' /\ FieldInv' BY <1>1, <1>8, <1>9, FrameInvKept
<1>11. NumberInv' BY <1>1 DEF Inv, NumberInv, CounterIsOwn, OwnCounter, Cmd
<1>12. ReportInv'
  <2>1. Events' = Events BY <1>1 DEF Events
  <2>2. AllIssues' = AllIssues BY <1>1, <2>1, Zenon DEF AllIssues
  <2>3. Bounded(AllIssues)' = B BY <1>1, <2>2, Zenon DEF Bounded, B
  <2>4. omitting' => "document_limit_exceeded" \in ToSet(issues') BY <1>1 DEF Inv, ReportInv
  <2>5. result'.messages = IF Events' > limit'.messages THEN limit'.messages ELSE Events'
    BY <1>1, <1>6, <2>1 DEF M
  <2>6. EndsInDiagnostics' BY <1>1, TailKept
  <2> QED BY <1>6, <2>3, <2>4, <2>5, <2>6 DEF ReportInv, EndsInDiagnostics
<1> QED BY <1>7, <1>10, <1>11, <1>12 DEF Inv

-----------------------------------------------------------------------------
(* Theorems *)

\* The invariant holds of every conversation, capture and limits.
THEOREM Invariance == Spec => []Inv
<1>1. ASSUME Inv, [Next]_vars PROVE Inv'
  <2>1. ASSUME NEW k \in 1..Len(request),
               \/ Skip(k) \/ Control(k) \/ CommercialStart(k) \/ ManagementBoundary(k)
               \/ ManagementLine(k) \/ CommercialItem(k) \/ CommercialText(k) \/ CommercialTotal(k)
               \/ OtherCommand(k)
        PROVE  Inv'
    BY <1>1, <2>1, SkipKeeps, ControlKeeps, CommercialStartKeeps, ManagementBoundaryKeeps,
       ManagementLineKeeps, CommercialItemKeeps, CommercialTextKeeps, CommercialTotalKeeps,
       OtherCommandKeeps
  <2>2. CASE EndOfFrames BY <1>1, <2>2, EndOfFramesKeeps
  <2>3. CASE Correlate BY <1>1, <2>3, CorrelateKeeps
  <2>4. CASE AttachCounter BY <1>1, <2>4, AttachCounterKeeps
  <2>5. CASE AssignSubtypes BY <1>1, <2>5, AssignSubtypesKeeps
  <2>6. CASE Report BY <1>1, <2>6, ReportKeeps
  <2>7. CASE UNCHANGED vars BY <1>1, <2>7, StutterKeeps
  <2> QED BY <1>1, <2>1, <2>2, <2>3, <2>4, <2>5, <2>6, <2>7 DEF Next
<1> QED BY <1>1, InitInv, PTL DEF Spec

\* The document, field, message and issue limits hold in every state
\* (_SemanticBudget, finish_active, _bounded_result_issues).
THEOREM LimitsHold == Spec => []TypeOK
<1>1. Inv => TypeOK BY DEF Inv
<1> QED BY <1>1, Invariance, PTL

\* The documents and the builder, as the properties list them.
LEMMA CandidateParts ==
  ASSUME Inv
  PROVE  /\ DOMAIN documents = 1..Len(documents) /\ Len(documents) \in Nat
         /\ DOMAIN Candidate = 1..(IF active = None THEN Len(documents) ELSE Len(documents) + 1)
         /\ \A i \in 1..Len(documents) : Candidate[i] = documents[i] /\ documents[i] \in Builder
         /\ active # None => Candidate[Len(documents) + 1] = active /\ active \in Builder
<1>1. documents \in Seq(Builder) /\ (active # None => active \in Builder) BY DEF Inv, TypeOK
<1>2. CASE active = None
  <2>1. Candidate = documents BY <1>1, <1>2 DEF Candidate
  <2> QED BY <1>1, <1>2, <2>1
<1>3. CASE active # None
  <2>1. Candidate = documents \o <<active>> BY <1>3 DEF Candidate
  <2>2. <<active>> \in Seq(Builder) /\ Len(<<active>>) = 1 /\ <<active>>[1] = active BY <1>1, <1>3
  <2>3. /\ DOMAIN (documents \o <<active>>) = 1..(Len(documents) + 1)
        /\ \A i \in 1..Len(documents) : (documents \o <<active>>)[i] = documents[i]
        /\ (documents \o <<active>>)[Len(documents) + 1] = active
    BY <1>1, <2>2
  <2> QED BY <1>1, <1>3, <2>1, <2>3
<1> QED BY <1>2, <1>3

\* No frame is in two documents, and unless the document limit dropped some, no
\* printable command of the capture is in none (finish_active, add_frame and
\* pending_start of _parse_documents).
THEOREM EveryFrameOnce == Spec => []FramesInOneDocument
<1>1. ASSUME Inv PROVE FramesInOneDocument
  <2> DEFINE n == Len(documents)
             F(i) == ToSet(Candidate[i].frames)
  <2>1. /\ DOMAIN documents = 1..n /\ n \in Nat
        /\ DOMAIN Candidate = 1..(IF active = None THEN n ELSE n + 1)
        /\ \A i \in 1..n : Candidate[i] = documents[i] /\ documents[i] \in Builder
        /\ active # None => Candidate[n + 1] = active /\ active \in Builder
    BY <1>1, CandidateParts
  <2>2. \A i \in 1..n : F(i) = Frames(documents[i]) BY <2>1, FramesOfBuilder
  <2>3. active # None => F(n + 1) = Frames(active) BY <2>1, FramesOfBuilder
  <2>4. /\ \A i \in 1..n : Frames(documents[i]) \cap Frames(active) = {}
        /\ \A i, j \in 1..n : i # j => Frames(documents[i]) \cap Frames(documents[j]) = {}
        /\ ~omitting => \A k \in 1..next : Content(k) =>
             k \in Frames(active) \/ \E i \in 1..n : k \in Frames(documents[i])
    BY <1>1, <2>1 DEF Inv, FrameInv
  <2>5. active = None => Frames(active) = {} BY DEF Frames
  <2>6. n \in Nat BY <2>1
  <2>7. DOMAIN Candidate = 1..(IF active = None THEN n ELSE n + 1) BY <2>1
  <2> HIDE DEF n, F
  <2>8. \A i \in DOMAIN Candidate : i \in 1..n \/ (i = n + 1 /\ active # None) BY <2>6, <2>7
  <2>9. /\ \A i \in 1..n : i \in DOMAIN Candidate
        /\ active # None => n + 1 \in DOMAIN Candidate
    BY <2>6, <2>7
  <2>10. \A i, j \in DOMAIN Candidate : i # j => F(i) \cap F(j) = {}
    <3> TAKE i, j \in DOMAIN Candidate
    <3>1. CASE i \in 1..n /\ j \in 1..n BY <2>2, <2>4, <3>1
    <3>2. CASE i \in 1..n /\ j = n + 1 /\ active # None BY <2>2, <2>3, <2>4, <3>2
    <3>3. CASE j \in 1..n /\ i = n + 1 /\ active # None BY <2>2, <2>3, <2>4, <3>3
    <3> QED BY <2>8, <3>1, <3>2, <3>3
  <2>11. ~omitting => \A k \in 1..next : Content(k) => \E i \in DOMAIN Candidate : k \in F(i)
    BY <2>2, <2>3, <2>4, <2>5, <2>9
  <2> QED BY <2>10, <2>11 DEF FramesInOneDocument, F
<1> QED BY <1>1, Invariance, PTL

\* The number of a receipt answers a query of that receipt after its payment,
\* or one a whole turn of the sequence numbers away, for every modulus
\* (_expected_response_sequence, _attach_response_counters).
THEOREM NumberIsOwn == Spec => []CounterIsOwn
<1>1. Inv => CounterIsOwn BY DEF Inv, NumberInv
<1> QED BY <1>1, Invariance, PTL

\* What the correlation dropped, and nothing else, may go unmarked.
LEMMA DroppedIssues ==
  ASSUME Inv, phase = "done"
  PROVE  LET D == Diagnostics(response, acks)
         IN  Len(D) > limit.issues \/ Len(AllIssues) > limit.issues =>
               \/ "result_issue_limit_exceeded" \in ToSet(result.issues)
               \/ result.issues = SubSeq(D, 1, limit.issues)
<1> DEFINE D == Diagnostics(response, acks)
           L == limit.issues
           C == Capped(D)
           x == IF crossed THEN <<"semantic_field_limit_exceeded">> ELSE <<>>
           y == IF Events > limit.messages THEN <<"message_limit_exceeded">> ELSE <<>>
           all == AllIssues
<1>1. L \in Nat /\ L > 0 BY EventsType
<1>2. D \in Seq(Codes)
  <2>1. Len(response) \in Nat /\ acks \in Nat BY DEF Inv, TypeOK
  <2> QED BY <2>1, DiagnosticsType
<1>3. result.issues = Bounded(all) /\ all \in Seq(Codes) BY AllIssuesType DEF Inv, ReportInv
<1>4. /\ Len(all) <= L => Bounded(all) = all
      /\ Len(all) > L => "result_issue_limit_exceeded" \in ToSet(Bounded(all))
  <2> HIDE DEF all
  <2> QED BY <1>1, <1>3, BoundedList
<1>5. issues \in Seq(Codes) BY DEF Inv, TypeOK
<1>6. PICK n \in 0..Len(issues) : issues = SubSeq(issues, 1, n) \o C BY DEF Inv, ReportInv
<1>7. x \in Seq(Codes) /\ y \in Seq(Codes)
  <2>1. "semantic_field_limit_exceeded" \in Codes /\ "message_limit_exceeded" \in Codes
    BY DEF Codes, LimitCodes
  <2> QED BY <2>1
<1>8. all = (issues \o x) \o y BY Zenon DEF AllIssues
<1> HIDE DEF x, y, all, D
<1>9. ASSUME Len(D) > L, ~(Len(all) > L) PROVE all = SubSeq(D, 1, L)
  <2>1. C = SubSeq(D, 1, L) BY <1>9, Zenon DEF Capped
  <2>2. C \in Seq(Codes) /\ Len(C) = L
    <3>1. Len(D) \in Nat BY <1>2
    <3>2. L \in 0..Len(D) BY <1>1, <1>9, <3>1
    <3> QED BY <1>1, <1>2, <2>1, <3>2
  <2> DEFINE z == SubSeq(issues, 1, n)
  <2>3. z \in Seq(Codes) /\ Len(z) = n /\ n \in Nat
    <3>1. Len(issues) \in Nat BY <1>5
    <3> QED BY <1>5, <1>6, <3>1
  <2> HIDE DEF z, C
  <2>4. Len(issues) = n + L BY <1>6, <2>2, <2>3 DEF z
  <2>5. Len(all) = Len(issues) + Len(x) + Len(y) /\ Len(x) \in Nat /\ Len(y) \in Nat
    <3>1. Len(x) \in Nat /\ Len(y) \in Nat /\ Len(issues) \in Nat BY <1>5, <1>7
    <3>2. issues \o x \in Seq(Codes) /\ Len(issues \o x) = Len(issues) + Len(x) BY <1>5, <1>7
    <3>3. Len((issues \o x) \o y) = Len(issues \o x) + Len(y) BY <1>7, <3>2
    <3> QED BY <1>8, <3>1, <3>2, <3>3
  <2>6. n = 0 /\ Len(x) = 0 /\ Len(y) = 0 BY <1>1, <1>9, <2>3, <2>4, <2>5
  <2>7. x = <<>> /\ y = <<>> /\ z = <<>> BY <1>7, <2>3, <2>6
  <2>10. issues \o <<>> = issues BY <1>5
  <2>11. issues \o x = issues BY <2>7, <2>10
  <2>8. all = issues BY <1>8, <2>7, <2>10, <2>11
  <2>12. <<>> \o C = C BY <2>2
  <2>9. issues = C BY <1>6, <2>7, <2>12 DEF z
  <2> QED BY <2>1, <2>8, <2>9
<1>10. Len(all) \in Nat BY <1>3
<1> QED BY <1>1, <1>3, <1>4, <1>9, <1>10 DEF all, D

\* The document, field and message limits that were crossed are in the result,
\* however small the issue limit and whatever else there was to report
\* (_bounded_result_issues); dropped issues are marked unless the result is what
\* _correlate_directions kept of its own.
THEOREM CrossingsReported == Spec => []LimitsReported
<1>1. ASSUME Inv PROVE LimitsReported
  <2> SUFFICES ASSUME phase = "done" PROVE LimitsReported BY DEF LimitsReported
  <2> DEFINE all == AllIssues
             kept == ToSet(result.issues)
             crossings == {i \in DOMAIN all : all[i] \in LimitCodes}
  <2>1. /\ all \in Seq(Codes) /\ ToSet(issues) \subseteq ToSet(all)
        /\ crossed => "semantic_field_limit_exceeded" \in ToSet(all)
        /\ Events > limit.messages => "message_limit_exceeded" \in ToSet(all)
    BY <1>1, AllIssuesType
  <2>2. result.issues = Bounded(all)
        /\ result.messages = (IF Events > limit.messages THEN limit.messages ELSE Events)
    BY <1>1 DEF Inv, ReportInv
  <2>3. Events \in Nat /\ limit.messages \in Nat /\ limit.issues \in Nat /\ limit.issues > 0
    BY <1>1, EventsType
  <2>4. omitting => "document_limit_exceeded" \in ToSet(all)
    BY <1>1, <2>1 DEF Inv, ReportInv
  <2> HIDE DEF all
  <2>5. DOMAIN all = 1..Len(all) BY <2>1
  <2>6. Cardinality(crossings) < limit.issues => \A i \in crossings : all[i] \in kept
    BY <2>1, <2>2, <2>3, <2>5, BoundedList
  <2>7. \A x \in ToSet(all) : x \in LimitCodes => \E i \in crossings : all[i] = x
    BY DEF ToSet
  <2>8. /\ "document_limit_exceeded" \in LimitCodes
        /\ "semantic_field_limit_exceeded" \in LimitCodes
        /\ "message_limit_exceeded" \in LimitCodes
    BY DEF LimitCodes
  <2>9. Events > result.messages => Events > limit.messages BY <2>2, <2>3
  <2> HIDE DEF crossings, kept
  <2>10. Cardinality(crossings) < limit.issues =>
           /\ omitting => "document_limit_exceeded" \in kept
           /\ crossed => "semantic_field_limit_exceeded" \in kept
           /\ Events > result.messages => "message_limit_exceeded" \in kept
           /\ \A i \in crossings : all[i] \in kept
    BY <2>1, <2>4, <2>6, <2>7, <2>8, <2>9
  <2> DEFINE D == Diagnostics(response, acks)
  <2>11. Len(D) > limit.issues \/ Len(all) > limit.issues =>
           \/ "result_issue_limit_exceeded" \in kept
           \/ result.issues = SubSeq(D, 1, limit.issues)
    BY <1>1, DroppedIssues, Zenon DEF all, kept
  <2> HIDE DEF D
  <2> QED BY <2>10, <2>11, Zenon DEF LimitsReported, crossings, kept, all, D
<1> QED BY <1>1, Invariance, PTL
-----------------------------------------------------------------------------
(* Where sales begin and end *)

LEMMA NthGrows ==
  ASSUME NEW n \in Nat, NEW S \in SUBSET (1..n), NEW k \in 1..Cardinality(S),
         NEW l \in 1..Cardinality(S), k < l
  PROVE  Nth(S, k) < Nth(S, l)
<1> DEFINE a == Nth(S, k)
           b == Nth(S, l)
<1>1. a \in S /\ Rank(S, a) = k /\ b \in S /\ Rank(S, b) = l BY NthExists
<1>2. Cardinality(S) \in Nat BY Finite
<1> HIDE DEF a, b
<1>3. k \in Nat /\ l \in Nat /\ a \in 1..n /\ b \in 1..n BY <1>1, <1>2
<1>4. a # b BY <1>1, <1>3
<1>5. ~(b < a)
  <2> SUFFICES ASSUME b < a PROVE FALSE OBVIOUS
  <2>1. Rank(S, b) < Rank(S, a) BY <1>1, RankGrows
  <2> QED BY <1>1, <1>3, <2>1
<1>6. a < b BY <1>3, <1>4, <1>5
<1> QED BY <1>6 DEF a, b

LEMMA MinIsElement ==
  ASSUME NEW S \in SUBSET Nat, S # {} PROVE Min(S) \in S /\ \A y \in S : Min(S) <= y
<1>1. PICK x \in S : \A y \in S : x <= y BY LeastNumber
<1> QED BY <1>1 DEF Min

\* A capture keeps the order of the conversation.
LEMMA CaptureOrdered ==
  ASSUME NEW R, NEW c \in Seq(R), NEW lost, NEW bad,
         NEW i \in 1..Len(Capture(c, lost, bad)), NEW j \in 1..Len(Capture(c, lost, bad)), i < j
  PROVE  Capture(c, lost, bad)[i].pos < Capture(c, lost, bad)[j].pos
<1> DEFINE s == [p \in 1..Len(c) |-> [pos |-> p, ok |-> p \notin bad]]
           S == (1..Len(c)) \ lost
           T == [pos : 1..Len(c), ok : BOOLEAN]
<1>1. Len(c) \in Nat OBVIOUS
<1>2. \A x \in S : s[x] \in T OBVIOUS
<1>9. \A x \in S : s[x].pos = x OBVIOUS
<1>3. S \in SUBSET (1..Len(c)) OBVIOUS
<1>4. Capture(c, lost, bad) = Picked(s, S) BY DEF Capture
<1> HIDE DEF s, S, T
<1>5. /\ Len(Picked(s, S)) = Cardinality(S)
      /\ \A k \in 1..Cardinality(S) : Picked(s, S)[k] = s[Nth(S, k)]
  BY <1>1, <1>2, <1>3, PickedType
<1>6. i \in 1..Cardinality(S) /\ j \in 1..Cardinality(S) BY <1>4, <1>5
<1>7. Nth(S, i) \in S /\ Nth(S, j) \in S BY <1>1, <1>3, <1>6, NthExists
<1>8. Nth(S, i) < Nth(S, j) BY <1>1, <1>3, <1>6, NthGrows
<1> QED BY <1>4, <1>5, <1>6, <1>7, <1>8, <1>9

\* A frame's position is one of the conversation, which is orderly.
LEMMA Positions ==
  ASSUME Inv
  PROVE  /\ Len(request) \in Nat /\ Len(conv) \in Nat /\ Orderly(conv)
         /\ \A k \in 1..Len(request) : request[k].pos \in 1..Len(conv) /\ request[k].pos \in Nat
         /\ \A p \in 1..Len(conv) : conv[p].sale \in Nat
<1>1. request \in Seq(Captured) /\ conv \in Conversations BY DEF Inv, TypeOK
<1> DEFINE R == [cmd : Commands, val : Nat, sale : Nat]
<1>2. conv \in Seq(R) BY <1>1, AssemblyAssumption DEF Conversation
<1>3. \A x \in R : x.sale \in Nat OBVIOUS
<1> HIDE DEF R
<1>4. Len(conv) \in Nat /\ Len(request) \in Nat BY <1>1, <1>2
<1>5. \A p \in 1..Len(conv) : conv[p].sale \in Nat BY <1>2, <1>3
<1>6. \A k \in 1..Len(request) : request[k].pos \in 1..Len(conv)
  <2> TAKE k \in 1..Len(request)
  <2>1. request[k] \in Captured BY <1>1
  <2> QED BY <2>1 DEF Captured
<1> QED BY <1>1, <1>4, <1>5, <1>6, TillAssumption

InOrder == \A i, j \in 1..Len(request) : i < j => request[i].pos < request[j].pos

\* Frames, positions and sales have the same order.
LEMMA Order ==
  ASSUME Inv, InOrder, NEW i \in 1..Len(request), NEW j \in 1..Len(request)
  PROVE  /\ request[i].pos < request[j].pos => i < j
         /\ i <= j => Sale(i) <= Sale(j)
         /\ Sale(i) < Sale(j) => i < j
<1>1. /\ Len(request) \in Nat /\ Len(conv) \in Nat /\ Orderly(conv)
      /\ \A k \in 1..Len(request) : request[k].pos \in 1..Len(conv) /\ request[k].pos \in Nat
      /\ \A p \in 1..Len(conv) : conv[p].sale \in Nat
  BY Positions
<1> DEFINE p == request[i].pos
           q == request[j].pos
<1>2. p \in 1..Len(conv) /\ q \in 1..Len(conv) /\ p \in Nat /\ q \in Nat BY <1>1
<1>3. Sale(i) = conv[p].sale /\ Sale(j) = conv[q].sale /\ Sale(i) \in Nat /\ Sale(j) \in Nat
  BY <1>1, <1>2 DEF Sale
<1>4. (i < j => p < q) /\ (j < i => q < p) BY DEF InOrder
<1>5. i \in Nat /\ j \in Nat BY <1>1
<1>6. (p < q => Sale(i) <= Sale(j)) /\ (q < p => Sale(j) <= Sale(i)) BY <1>1, <1>2, <1>3 DEF Orderly
<1> HIDE DEF p, q
<1>7. p < q => i < j
  <2>1. i = j => p = q BY DEF p, q
  <2> QED BY <1>2, <1>4, <1>5, <2>1
<1>8. i = j => Sale(i) = Sale(j) OBVIOUS
<1>9. i <= j => Sale(i) <= Sale(j) BY <1>3, <1>4, <1>5, <1>6, <1>8
<1>10. Sale(i) < Sale(j) => i < j
  <2>1. j < i => Sale(j) <= Sale(i) BY <1>4, <1>6
  <2> QED BY <1>3, <1>5, <1>8, <2>1
<1> QED BY <1>7, <1>9, <1>10 DEF p, q

\* The end of a sale, after everything it prints and of the kind that finishes
\* its document, and its beginning, before all of it.
LEMMA SaleBounds ==
  ASSUME Inv, NEW f \in 1..Len(request), Content(f)
  PROVE  /\ Ending(Sale(f)) \in 1..Len(conv) /\ request[f].pos < Ending(Sale(f))
         /\ conv[Ending(Sale(f))].sale = Sale(f)
         /\ conv[Ending(Sale(f))].cmd = IF Cmd(f) \in Lines THEN "=o" ELSE "close"
         /\ Opening(Sale(f)) \in 1..Len(conv) /\ Opening(Sale(f)) < request[f].pos
         /\ conv[Opening(Sale(f))].sale = Sale(f)
         /\ conv[Opening(Sale(f))].cmd \in {"=K", "=o"}
<1>1. /\ Len(conv) \in Nat /\ Orderly(conv)
      /\ request[f].pos \in 1..Len(conv) /\ request[f].pos \in Nat
  BY Positions
<1> DEFINE p == request[f].pos
           s == Sale(f)
           E == {q \in 1..Len(conv) : conv[q].sale = s /\ conv[q].cmd \in {"close", "=o"}}
           O == {q \in 1..Len(conv) : conv[q].sale = s /\ conv[q].cmd \in {"=K", "=o"}}
<1>2. conv[p].cmd = Cmd(f) /\ conv[p].sale = s /\ Cmd(f) \in Lines \cup Items \cup {"total"}
  BY DEF Cmd, Sale, Content
<1>3. PICK o \in 1..Len(conv), e \in 1..Len(conv) :
           /\ conv[o].sale = s /\ conv[e].sale = s /\ o < p /\ p < e
           /\ conv[o].cmd \in {"=K", "=o"}
           /\ conv[e].cmd = IF Cmd(f) \in Lines THEN "=o" ELSE "close"
           /\ \A q \in 1..Len(conv) : q > e /\ conv[q].sale = s => conv[q].cmd \notin {"close", "=o"}
  <2>1. \A x \in 1..Len(conv) : conv[x].cmd \in Lines \cup Items \cup {"total"} =>
          \E o, e \in 1..Len(conv) :
             /\ conv[o].sale = conv[x].sale /\ conv[e].sale = conv[x].sale /\ o < x /\ x < e
             /\ conv[o].cmd \in {"=K", "=o"}
             /\ conv[e].cmd = IF conv[x].cmd \in Lines THEN "=o" ELSE "close"
             /\ \A q \in 1..Len(conv) :
                  q > e /\ conv[q].sale = conv[x].sale => conv[q].cmd \notin {"close", "=o"}
    BY <1>1, Zenon DEF Orderly
  <2>2. p \in 1..Len(conv) BY <1>1
  <2> HIDE DEF p, s
  <2>3. conv[p].cmd \in Lines \cup Items \cup {"total"} BY <1>2
  <2>4. \E o, e \in 1..Len(conv) :
           /\ conv[o].sale = conv[p].sale /\ conv[e].sale = conv[p].sale /\ o < p /\ p < e
           /\ conv[o].cmd \in {"=K", "=o"}
           /\ conv[e].cmd = IF conv[p].cmd \in Lines THEN "=o" ELSE "close"
           /\ \A q \in 1..Len(conv) :
                q > e /\ conv[q].sale = conv[p].sale => conv[q].cmd \notin {"close", "=o"}
    BY <2>1, <2>2, <2>3, Zenon
  <2> QED BY <1>2, <2>4
<1>4. Ending(s) = Max(E) /\ Opening(s) = Min(O) BY DEF Ending, Opening
<1>5. e \in E /\ o \in O BY <1>3
<1>6. E \in SUBSET (0..Len(conv)) /\ O \in SUBSET Nat BY <1>1
<1>7. \A q \in E : q \in 1..Len(conv) /\ ~(q > e) BY <1>3
<1>8. \A q \in O : q \in 1..Len(conv) /\ conv[q].sale = s /\ conv[q].cmd \in {"=K", "=o"} OBVIOUS
<1> HIDE DEF E, O, s, p
<1>9. Max(E) \in E /\ \A y \in E : y <= Max(E) BY <1>1, <1>5, <1>6, MaxIsElement
<1>10. Max(E) = e
  <2>1. Max(E) \in 1..Len(conv) /\ ~(Max(E) > e) /\ e <= Max(E) BY <1>5, <1>7, <1>9
  <2> QED BY <1>1, <2>1
<1>11. Min(O) \in O /\ Min(O) <= o BY <1>5, <1>6, MinIsElement
<1>12. Min(O) < p /\ Min(O) \in 1..Len(conv)
  <2>1. Min(O) \in 1..Len(conv) BY <1>8, <1>11
  <2> QED BY <1>1, <1>3, <1>11, <2>1 DEF p
<1> QED BY <1>3, <1>4, <1>8, <1>10, <1>11, <1>12 DEF s, p

\* A builder that nothing interrupted holds two sales only if the capture lacks
\* the end of the one and the beginning of the other.
LEMMA UninterruptedApart ==
  ASSUME Inv, InOrder, NEW d \in Builder, NEW n \in Nat, Frames(d) \subseteq 1..(n + 1),
         Frames(d) \subseteq 1..Len(request), OfItsKind(d), Uninterrupted(d, n)
  PROVE  SalesApart(d)
<1> SUFFICES ASSUME NEW a \in ContentSales(d), NEW b \in ContentSales(d), a < b
             PROVE  ~Heard(Ending(a)) /\ ~Heard(Opening(b))
  BY DEF SalesApart
<1>1. Frames(d) = ToSet(d.frames) BY FramesOfBuilder
<1>2. PICK f \in Frames(d) : Content(f) /\ a = Sale(f) BY <1>1 DEF ContentSales
<1>3. PICK g \in Frames(d) : Content(g) /\ b = Sale(g) BY <1>1 DEF ContentSales
<1>4. f \in 1..Len(request) /\ g \in 1..Len(request) /\ f \in 1..(n + 1) /\ g \in 1..(n + 1)
  BY <1>2, <1>3
<1>5. /\ Len(request) \in Nat /\ Len(conv) \in Nat
      /\ \A k \in 1..Len(request) : request[k].pos \in 1..Len(conv) /\ request[k].pos \in Nat
  BY Positions
\* A frame of either command would lie between f and g.
<1>6. ASSUME NEW k \in 1..Len(request), f < k, k < g, request[k].ok PROVE Cmd(k) \notin Finishing(d.kind)
  <2>1. k \in 1..n BY <1>4, <1>5, <1>6
  <2> QED BY <1>2, <1>6, <2>1 DEF Uninterrupted
<1>7. ~Heard(Ending(a))
  <2> SUFFICES ASSUME NEW k \in 1..Len(request), request[k].pos = Ending(a), request[k].ok
               PROVE  FALSE
    BY DEF Heard
  <2>1. /\ request[f].pos < Ending(a) /\ conv[Ending(a)].sale = a
        /\ conv[Ending(a)].cmd = IF Cmd(f) \in Lines THEN "=o" ELSE "close"
    BY <1>2, <1>4, SaleBounds
  <2>2. Sale(k) = a /\ Cmd(k) = IF Cmd(f) \in Lines THEN "=o" ELSE "close" BY <2>1 DEF Sale, Cmd
  <2>3. f < k BY <1>4, <2>1, Order
  <2>4. k < g BY <1>3, <1>4, <2>2, Order
  <2>5. Cmd(k) \notin Finishing(d.kind) BY <1>6, <2>3, <2>4
  <2>6. d.kind = "gestionale" <=> Cmd(f) \in Lines BY <1>2 DEF OfItsKind
  <2>7. d.kind \in {"commerciale", "gestionale"} BY DEF Builder
  <2> QED BY <2>2, <2>5, <2>6, <2>7 DEF Finishing
<1>8. ~Heard(Opening(b))
  <2> SUFFICES ASSUME NEW k \in 1..Len(request), request[k].pos = Opening(b), request[k].ok
               PROVE  FALSE
    BY DEF Heard
  <2>1. /\ Opening(b) < request[g].pos /\ conv[Opening(b)].sale = b
        /\ conv[Opening(b)].cmd \in {"=K", "=o"}
    BY <1>3, <1>4, SaleBounds
  <2>2. Sale(k) = b /\ Cmd(k) \in {"=K", "=o"} BY <2>1 DEF Sale, Cmd
  <2>3. k < g BY <1>4, <2>1, Order
  <2>4. f < k BY <1>2, <1>4, <2>2, Order
  <2>5. Cmd(k) \notin Finishing(d.kind) BY <1>6, <2>3, <2>4
  <2> QED BY <2>2, <2>5 DEF Finishing
<1> QED BY <1>7, <1>8

\* If the capture has the end of a sale, the frame that closes the document is
\* that end or comes before it.
LEMMA UninterruptedClosed ==
  ASSUME Inv, InOrder, NEW d \in Builder, NEW n \in Nat, Frames(d) \subseteq 1..(n + 1),
         OfItsKind(d), Uninterrupted(d, n), Last(d.frames) = n + 1, n + 1 \in 1..Len(request)
  PROVE  ClosedByOwn(d)
<1> SUFFICES ASSUME NEW a \in ContentSales(d), Heard(Ending(a)) PROVE Sale(n + 1) = a
  BY DEF ClosedByOwn
<1>0. Len(request) \in Nat /\ \A p \in 1..Len(conv) : conv[p].sale \in Nat BY Positions
<1>1. Frames(d) = ToSet(d.frames) BY FramesOfBuilder
<1>2. PICK f \in Frames(d) : Content(f) /\ a = Sale(f) BY <1>1 DEF ContentSales
<1>3. f \in 1..(n + 1) /\ f \in 1..Len(request) BY <1>0, <1>2
<1>4. PICK k \in 1..Len(request) : request[k].pos = Ending(a) /\ request[k].ok BY DEF Heard
<1>5. /\ request[f].pos < Ending(a) /\ conv[Ending(a)].sale = a
      /\ conv[Ending(a)].cmd = IF Cmd(f) \in Lines THEN "=o" ELSE "close"
  BY <1>2, <1>3, SaleBounds
<1>6. Sale(k) = a /\ Cmd(k) = IF Cmd(f) \in Lines THEN "=o" ELSE "close" BY <1>4, <1>5 DEF Sale, Cmd
<1>7. f < k BY <1>3, <1>4, <1>5, Order
<1>8. k \notin 1..n
  <2> SUFFICES ASSUME k \in 1..n PROVE FALSE OBVIOUS
  <2>1. Cmd(k) \notin Finishing(d.kind) BY <1>2, <1>4, <1>7 DEF Uninterrupted
  <2>2. d.kind = "gestionale" <=> Cmd(f) \in Lines BY <1>2 DEF OfItsKind
  <2>3. d.kind \in {"commerciale", "gestionale"} BY DEF Builder
  <2> QED BY <1>6, <2>1, <2>2, <2>3 DEF Finishing
<1>9. f <= n + 1 /\ n + 1 <= k BY <1>0, <1>3, <1>8
<1>10. Sale(f) <= Sale(n + 1) /\ Sale(n + 1) <= Sale(k) BY <1>3, <1>9, Order
<1>11. Sale(n + 1) \in Nat /\ a \in Nat
  <2>1. request[n + 1].pos \in 1..Len(conv) /\ request[f].pos \in 1..Len(conv) BY <1>3, Positions
  <2> QED BY <1>0, <1>2, <2>1 DEF Sale
<1> QED BY <1>2, <1>6, <1>10, <1>11

\* What becomes of the documents: nothing, or the active builder follows them.
Appended(e, n) ==
  /\ e \in Builder /\ documents' = Append(documents, e)
  /\ OfItsKind(e) /\ Uninterrupted(e, n) /\ Frames(e) \subseteq 1..(n + 1)
  /\ Frames(e) \subseteq 1..Len(request)
  /\ e.state = "complete" => Last(e.frames) = n + 1 /\ n + 1 \in 1..Len(request)

LEMMA SaleTurn ==
  ASSUME Inv, SaleInv, conv' = conv, request' = request,
         documents' = documents \/ \E e : Appended(e, next),
         active' = None \/ (OfItsKind(active') /\ Uninterrupted(active', next')),
         pending' # 0 => Cmd(pending') = "query"
  PROVE  SaleInv'
<1>1. InOrder BY DEF SaleInv, InOrder
<1>2. next \in Nat /\ documents \in Seq(Builder) BY DEF Inv, TypeOK
<1>3. \A i \in DOMAIN documents :
        OfItsKind(documents[i]) /\ SalesApart(documents[i]) /\ ClosedByOwn(documents[i])
  BY DEF SaleInv
<1>4. \A i \in DOMAIN documents' :
        OfItsKind(documents'[i]) /\ SalesApart(documents'[i]) /\ ClosedByOwn(documents'[i])
  <2>1. CASE documents' = documents BY <1>3, <2>1
  <2>2. ASSUME NEW e, Appended(e, next)
        PROVE  \A i \in DOMAIN documents' :
                 OfItsKind(documents'[i]) /\ SalesApart(documents'[i]) /\ ClosedByOwn(documents'[i])
    <3>1. e \in Builder /\ documents' = Append(documents, e) BY <2>2 DEF Appended
    <3>2. SalesApart(e) BY <1>1, <1>2, <2>2, UninterruptedApart DEF Appended
    <3>3. ClosedByOwn(e)
      <4>1. CASE e.state = "complete" BY <1>1, <1>2, <2>2, <4>1, UninterruptedClosed DEF Appended
      <4>2. CASE e.state # "complete" BY <4>2 DEF ClosedByOwn
      <4> QED BY <4>1, <4>2
    <3>4. OfItsKind(e) BY <2>2 DEF Appended
    <3> TAKE i \in DOMAIN documents'
    <3>5. i \in DOMAIN documents \/ documents'[i] = e BY <1>2, <3>1
    <3>6. i \in DOMAIN documents => documents'[i] = documents[i] BY <1>2, <3>1
    <3> QED BY <1>3, <3>2, <3>3, <3>4, <3>5, <3>6
  <2> QED BY <2>1, <2>2
<1>5. /\ \A d : OfItsKind(d)' <=> OfItsKind(d)
      /\ \A d : ClosedByOwn(d)' <=> ClosedByOwn(d)
      /\ \A d : SalesApart(d)' <=> SalesApart(d)
      /\ \A d, n : Uninterrupted(d, n)' <=> Uninterrupted(d, n)
  BY DEF OfItsKind, ClosedByOwn, SalesApart, Uninterrupted, ContentSales, Content, Sale, Cmd, Heard,
         Ending, Opening
<1>6. (\A i \in DOMAIN documents :
         OfItsKind(documents[i]) /\ SalesApart(documents[i]) /\ ClosedByOwn(documents[i]))'
  BY <1>4, <1>5
<1>7. (active # None => OfItsKind(active) /\ Uninterrupted(active, next))' BY <1>5
<1>8. (pending # 0 => Cmd(pending) = "query")' BY DEF Cmd
<1>9. (\A i, j \in 1..Len(request) : i < j => request[i].pos < request[j].pos)' BY DEF SaleInv
<1> QED BY <1>6, <1>7, <1>8, <1>9 DEF SaleInv

\* The active builder as a document.
LEMMA ActiveAppended ==
  ASSUME Inv, SaleInv, FinishActive PROVE documents' = documents \/ \E e : Appended(e, next)
<1> SUFFICES ASSUME documents' # documents PROVE \E e : Appended(e, next) OBVIOUS
<1> DEFINE e == Closing(active, FALSE)
<1>1. active # None /\ Finish(active, FALSE) BY DEF FinishActive, Keep
<1>2. documents' = Append(documents, e) BY <1>1 DEF Finish
<1>3. active \in Builder /\ next \in 0..Len(request) /\ Len(request) \in Nat
  BY <1>1 DEF Inv, TypeOK
<1>4. e \in Builder /\ e.frames = active.frames /\ e.state = "incomplete" /\ e.kind = active.kind
  BY <1>3, ClosingBuilder DEF Alike
<1> HIDE DEF e
<1>5. Frames(e) = Frames(active) BY <1>3, <1>4, FramesOfBuilder
<1>6. Frames(active) \subseteq 1..next BY DEF Inv, FrameInv
<1>7. OfItsKind(active) /\ Uninterrupted(active, next) BY <1>1 DEF SaleInv
<1>8. OfItsKind(e) /\ Uninterrupted(e, next) BY <1>4, <1>5, <1>7 DEF OfItsKind, Uninterrupted
<1>9. \A x \in 1..next : x \in 1..(next + 1) /\ x \in 1..Len(request) BY <1>3
<1>10. Frames(e) \subseteq 1..(next + 1) /\ Frames(e) \subseteq 1..Len(request)
  BY <1>5, <1>6, <1>9
<1>11. e.state # "complete" BY <1>4
<1> QED BY <1>2, <1>4, <1>8, <1>10, <1>11 DEF Appended

LEMMA LastAdded ==
  ASSUME NEW b \in Builder, NEW k \in Nat PROVE Last(AddFrame(b, k).frames) = k
<1>1. b.frames \in Seq(Nat) BY DEF Builder
<1>2. CASE Last(b.frames) = k BY <1>2 DEF AddFrame
<1>3. CASE Last(b.frames) # k
  <2> DEFINE f == Append(b.frames, k)
  <2>1. AddFrame(b, k).frames = f BY <1>3 DEF AddFrame, Builder
  <2>2. Last(f) = k BY <1>1 DEF Last
  <2> QED BY <2>1, <2>2
<1> QED BY <1>2, <1>3

\* The builder closed by a command that is no content of it.
LEMMA ClosedAppended ==
  ASSUME Inv, SaleInv, NEW k \in 1..Len(request), k = next + 1, active # None, ~Content(k),
         Finish(AddFrame(active, k), TRUE)
  PROVE  documents' = documents \/ \E e : Appended(e, next)
<1> SUFFICES ASSUME documents' # documents PROVE \E e : Appended(e, next) OBVIOUS
<1> DEFINE b == AddFrame(active, k)
           e == Closing(b, TRUE)
<1>1. documents' = Append(documents, e) BY DEF Finish
<1>2. /\ active \in Builder /\ next \in 0..Len(request) /\ Len(request) \in Nat /\ k \in Nat
      /\ active.frames # <<>>
  BY DEF Inv, TypeOK, FrameInv
<1>3. /\ b \in Builder /\ ToSet(b.frames) = ToSet(active.frames) \cup {k} /\ Alike(active, b)
  BY <1>2, AddFrameBuilder
<1>4. Last(b.frames) = k BY <1>2, LastAdded
<1> HIDE DEF b
<1>5. e \in Builder /\ e.frames = b.frames /\ e.kind = b.kind BY <1>3, ClosingBuilder DEF Alike
<1> HIDE DEF e
<1>6. Frames(e) = Frames(active) \cup {k} /\ e.kind = active.kind
  <2>1. Frames(e) = ToSet(e.frames) /\ Frames(active) = ToSet(active.frames)
    BY <1>2, <1>5, FramesOfBuilder
  <2> QED BY <1>3, <1>5, <2>1 DEF Alike
<1>7. Frames(active) \subseteq 1..next BY DEF Inv, FrameInv
<1>8. OfItsKind(active) /\ Uninterrupted(active, next) BY DEF SaleInv
<1>9. OfItsKind(e) /\ Uninterrupted(e, next) BY <1>6, <1>8 DEF OfItsKind, Uninterrupted
<1>10. \A x \in 1..next : x \in 1..(next + 1) /\ x \in 1..Len(request) BY <1>2
<1>11. k \in 1..(next + 1) BY <1>2
<1>12. Frames(e) \subseteq 1..(next + 1) /\ Frames(e) \subseteq 1..Len(request)
  BY <1>6, <1>7, <1>10, <1>11
<1>13. Last(e.frames) = next + 1 /\ next + 1 \in 1..Len(request) BY <1>4, <1>5
<1> QED BY <1>1, <1>5, <1>9, <1>12, <1>13 DEF Appended

\* A builder with frame k and what was there before: a marker, or the frames of
\* a builder that k does not finish.
LEMMA Proceeds ==
  ASSUME Inv, SaleInv, NEW k \in Nat, k = next + 1, NEW c,
         \/ Frames(c) \subseteq {k} \cup ({pending} \ {0})
         \/ /\ active # None /\ c.kind = active.kind /\ Frames(c) \subseteq Frames(active) \cup {k}
            /\ request[k].ok => Cmd(k) \notin Finishing(c.kind),
         (k \in Frames(c) /\ Content(k)) => (c.kind = "gestionale" <=> Cmd(k) \in Lines)
  PROVE  OfItsKind(c) /\ Uninterrupted(c, k)
<1>1. next \in Nat /\ pending \in Nat BY DEF Inv, TypeOK
<1>2. \A j \in 1..k : ~(k < j) /\ (j \in 1..next \/ j = k) BY <1>1
<1>3. pending # 0 => ~Content(pending)
  BY DEF SaleInv, Content, Lines, Plain, Printed, Items
<1>4. CASE Frames(c) \subseteq {k} \cup ({pending} \ {0})
  <2>1. \A f \in Frames(c) : Content(f) => f = k BY <1>3, <1>4
  <2> QED BY <1>2, <2>1 DEF OfItsKind, Uninterrupted
<1>5. CASE /\ active # None /\ c.kind = active.kind /\ Frames(c) \subseteq Frames(active) \cup {k}
           /\ request[k].ok => Cmd(k) \notin Finishing(c.kind)
  <2>1. OfItsKind(active) /\ Uninterrupted(active, next) BY <1>5 DEF SaleInv
  <2>2. OfItsKind(c) BY <1>5, <2>1 DEF OfItsKind
  <2>3. ASSUME NEW f \in Frames(c), NEW j \in 1..k, Content(f), f < j, request[j].ok
        PROVE  Cmd(j) \notin Finishing(c.kind)
    <3>1. f # k BY <1>2, <2>3
    <3>2. f \in Frames(active) BY <1>5, <2>3, <3>1
    <3>3. CASE j = k BY <1>5, <2>3, <3>3
    <3>4. CASE j \in 1..next BY <1>5, <2>1, <2>3, <3>2, <3>4 DEF Uninterrupted
    <3> QED BY <1>2, <3>3, <3>4
  <2> QED BY <2>2, <2>3 DEF Uninterrupted
<1> QED BY <1>4, <1>5

\* A command that goes to a builder of its kind.
LEMMA TargetSale ==
  ASSUME Inv, SaleInv, NEW k \in 1..Len(request), Consume(k), NEW kind \in {"commerciale", "gestionale"},
         NEW notes \in Seq(Codes), SwitchTo(kind), Written(Target(kind, k, notes), k),
         pending' = pending, Cmd(k) \in Lines \cup Items \cup {"total"},
         kind = "gestionale" <=> Cmd(k) \in Lines
  PROVE  SaleInv'
<1> DEFINE b == Target(kind, k, notes)
<1>1. k \in Nat /\ k = next + 1 /\ next' = k /\ conv' = conv /\ request' = request
  BY TurnFacts DEF inputs
<1>2. Ready(b, k) /\ b.kind = kind /\ Frames(b) = (IF Is(kind) THEN Frames(active) ELSE {}) \cup {k}
  BY <1>1, TargetReady
<1>3. Base(b, active') BY DEF Written
<1> HIDE DEF b
<1>4. active' \in Builder /\ active'.kind = kind /\ Frames(active') = Frames(b)
  <2>1. active' \in Builder /\ active'.frames = b.frames /\ b \in Builder /\ active'.kind = b.kind
    BY <1>2, <1>3 DEF Base, Ready
  <2> QED BY <1>2, <2>1, FramesOfBuilder
<1>5. documents' = documents \/ \E e : Appended(e, next)
  <2>1. CASE Is(kind) BY <2>1 DEF SwitchTo, Keep
  <2>2. CASE ~Is(kind) BY <2>2, ActiveAppended DEF SwitchTo
  <2> QED BY <2>1, <2>2
<1>6. Cmd(k) \notin Finishing(kind) BY DEF Finishing, Lines, Plain, Printed, Items
<1>7. OfItsKind(active') /\ Uninterrupted(active', k)
  <2>1. CASE Is(kind)
    <3>1. active # None /\ active.kind = kind BY <2>1 DEF Is
    <3> QED BY <1>1, <1>2, <1>4, <1>6, <2>1, <3>1, Proceeds
  <2>2. CASE ~Is(kind) BY <1>1, <1>2, <1>4, <2>2, Proceeds
  <2> QED BY <2>1, <2>2
<1>8. pending' # 0 => Cmd(pending') = "query" BY DEF SaleInv
<1> QED BY <1>1, <1>5, <1>7, <1>8, SaleTurn

\* A command after which the builder has at most its frame more.
LEMMA QuietSale ==
  ASSUME Inv, SaleInv, NEW k \in 1..Len(request), Consume(k), documents' = documents,
         \/ active' = None
         \/ /\ active # None /\ active'.kind = active.kind
            /\ Frames(active') \subseteq Frames(active) \cup {k},
         active # None /\ request[k].ok => Cmd(k) \notin Finishing(active.kind), ~Content(k),
         pending' # 0 => Cmd(pending') = "query"
  PROVE  SaleInv'
<1>1. k \in Nat /\ k = next + 1 /\ next' = k /\ conv' = conv /\ request' = request
  BY TurnFacts DEF inputs
<1>2. active' = None \/ (OfItsKind(active') /\ Uninterrupted(active', k)) BY <1>1, Proceeds
<1> QED BY <1>1, <1>2, SaleTurn

\* The builder has frame k and nothing else of what the invariants speak of.
Grown(k) ==
  /\ active # None /\ active' \in Builder /\ active'.kind = active.kind
  /\ Frames(active') = Frames(active) \cup {k}
  /\ active'.items = active.items /\ active'.totals = active.totals
  /\ active'.seenTotal = active.seenTotal /\ active'.copyOf = active.copyOf
  /\ used <= used' /\ used' <= limit.fields

LEMMA AddedGrown ==
  ASSUME Inv, active # None, NEW k \in Nat, k = next + 1, used <= used', used' <= limit.fields,
         Base(AddFrame(active, k), active'), active'.items = AddFrame(active, k).items,
         active'.totals = AddFrame(active, k).totals, active'.seenTotal = AddFrame(active, k).seenTotal
  PROVE  Grown(k)
<1> DEFINE b == AddFrame(active, k)
<1>1. active \in Builder /\ active.frames # <<>> BY DEF Inv, TypeOK, FrameInv
<1>2. b \in Builder /\ ToSet(b.frames) = ToSet(active.frames) \cup {k} /\ Alike(active, b)
  BY <1>1, AddFrameBuilder
<1> HIDE DEF b
<1>3. active' \in Builder /\ active'.frames = b.frames /\ active'.kind = b.kind /\ active'.copyOf = b.copyOf
  BY DEF Base, b
<1>4. Frames(active') = Frames(active) \cup {k}
  <2>1. Frames(active') = ToSet(active'.frames) /\ Frames(active) = ToSet(active.frames)
    BY <1>1, <1>3, FramesOfBuilder
  <2> QED BY <1>2, <1>3, <2>1
<1>5. active'.items = b.items /\ active'.totals = b.totals /\ active'.seenTotal = b.seenTotal BY DEF b
<1> QED BY <1>2, <1>3, <1>4, <1>5 DEF Grown, Alike

LEMMA SpendGrows ==
  ASSUME Inv, NEW n \in Nat, Spend(n) PROVE used <= used' /\ used' <= limit.fields
<1>1. used \in Nat /\ used <= limit.fields /\ limit.fields \in Nat BY Budget
<1>2. used' = Reserve(used, n) BY DEF Spend
<1> QED BY <1>1, <1>2 DEF Reserve, Fits

LEMMA TextGrows ==
  ASSUME Inv, NEW k \in 1..Len(request), CommercialText(k) PROVE Grown(k)
<1> DEFINE b == AddFrame(active, k)
           l == Append(b.lines, k)
           c == [b EXCEPT !.lines = l]
<1>1. /\ Consume(k) /\ active # None /\ Spend(1)
      /\ active' = IF Fits(used, 1) THEN [b EXCEPT !.lines = Append(@, k)] ELSE b
  BY DEF CommercialText, Accept, Is
<1>2. k \in Nat /\ k = next + 1 BY <1>1, TurnFacts
<1>3. used <= used' /\ used' <= limit.fields BY <1>1, SpendGrows
<1>4. b \in Builder BY <1>1, <1>2, AddedReady DEF Ready
<1> HIDE DEF b
<1>5. Base(b, active') /\ active'.items = b.items /\ active'.totals = b.totals
      /\ active'.seenTotal = b.seenTotal
  <2>0. b.lines \in Seq(Nat) BY <1>4 DEF Builder
  <2>1. CASE Fits(used, 1)
    <3>1. active' = c BY <1>1, <1>4, <2>1 DEF Builder
    <3>2. l \in Seq(Nat) BY <1>2, <2>0
    <3> HIDE DEF l
    <3>3. Base(b, c) /\ c.items = b.items /\ c.totals = b.totals /\ c.seenTotal = b.seenTotal
      BY <1>4, <3>2 DEF Base, Builder
    <3> QED BY <3>1, <3>3
  <2>2. CASE ~Fits(used, 1) BY <1>1, <1>4, <2>2 DEF Base
  <2> QED BY <2>1, <2>2
<1> QED BY <1>1, <1>2, <1>3, <1>5, AddedGrown DEF b

LEMMA ControlGrows ==
  ASSUME Inv, NEW k \in 1..Len(request), Control(k), Is("commerciale"), Cmd(k) # "close"
  PROVE  Grown(k)
<1> DEFINE b == AddFrame(active, k)
           x == IF b.state = "commercial_payment" THEN "commercial_postlude" ELSE b.state
           c == [b EXCEPT !.state = x]
<1>1. Consume(k) /\ active # None /\ used' = used BY DEF Control, Accept, Is, budget
<1>2. active' = [b EXCEPT !.state = IF @ = "commercial_payment" THEN "commercial_postlude" ELSE @]
  BY DEF Control, Is
<1>3. k \in Nat /\ k = next + 1 BY <1>1, TurnFacts
<1>4. used \in Nat /\ used <= limit.fields BY Budget
<1>5. b \in Builder BY <1>1, <1>3, AddedReady DEF Ready
<1> HIDE DEF b
<1>6. active' = c BY <1>2, <1>5 DEF Builder
<1>7. x \in {"commercial_payment", "commercial_postlude", b.state} OBVIOUS
<1> HIDE DEF x
<1>8. Base(b, c) /\ c.items = b.items /\ c.totals = b.totals /\ c.seenTotal = b.seenTotal
  BY <1>5, <1>7, SetState
<1> HIDE DEF c
<1>9. used <= used' BY <1>1, <1>4
<1> QED BY <1>1, <1>3, <1>4, <1>6, <1>8, <1>9, AddedGrown DEF b

LEMMA OtherGrows ==
  ASSUME Inv, NEW k \in 1..Len(request), OtherCommand(k)
  PROVE  Grown(k) \/ active' = active
<1>1. /\ Consume(k) /\ used' = used
      /\ active' = IF active # None /\ Cmd(k) # "display" THEN AddFrame(active, k) ELSE active
  BY DEF OtherCommand, Accept, budget
<1>2. CASE active # None /\ Cmd(k) # "display"
  <2> DEFINE b == AddFrame(active, k)
  <2>1. active' = b BY <1>1, <1>2
  <2>2. k \in Nat /\ k = next + 1 BY <1>1, TurnFacts
  <2>3. b \in Builder BY <1>2, <2>2, AddedReady DEF Ready
  <2>4. used <= used' /\ used' <= limit.fields
    <3>1. used \in Nat /\ used <= limit.fields BY Budget
    <3> QED BY <1>1, <3>1
  <2> HIDE DEF b
  <2>5. Base(b, active') BY <2>1, <2>3 DEF Base
  <2> QED BY <1>2, <2>1, <2>2, <2>4, <2>5, AddedGrown DEF b
<1>3. CASE ~(active # None /\ Cmd(k) # "display") BY <1>1, <1>3
<1> QED BY <1>2, <1>3

-----------------------------------------------------------------------------
(* Every action keeps the sales apart *)

LEMMA LoopSales ==
  ASSUME Inv, SaleInv, NEW k \in 1..Len(request),
         \/ Skip(k) \/ Control(k) \/ CommercialStart(k) \/ ManagementBoundary(k)
         \/ ManagementLine(k) \/ CommercialItem(k) \/ CommercialText(k) \/ CommercialTotal(k)
         \/ OtherCommand(k)
  PROVE  SaleInv'
<1>0. Consume(k)
  BY DEF Skip, Control, CommercialStart, ManagementBoundary, ManagementLine, CommercialItem,
         CommercialText, CommercialTotal, OtherCommand, Accept
<1>1. /\ k \in Nat /\ k = next + 1 /\ next' = k /\ conv' = conv /\ request' = request
  BY <1>0, TurnFacts DEF inputs
<1>2. pending # 0 => Cmd(pending) = "query" BY DEF SaleInv
<1>3. CASE Skip(k)
  <2>1. ~request[k].ok /\ active' = active /\ pending' = pending /\ documents' = documents
    BY <1>3 DEF Skip, Keep
  <2>2. ~Content(k) BY <2>1 DEF Content
  <2> QED BY <1>0, <1>2, <2>1, <2>2, QuietSale
<1>4. CASE Control(k)
  <2>1. Cmd(k) \in Controls BY <1>4 DEF Control, Accept
  <2>2. ~Content(k) BY <2>1 DEF Content, Lines, Plain, Printed, Items, Controls
  <2>3. CASE Is("commerciale") /\ Cmd(k) = "close"
    <3>1. active # None /\ Finish(AddFrame(active, k), TRUE) /\ active' = None /\ pending' = pending
      BY <1>4, <2>3 DEF Control, Is
    <3>2. documents' = documents \/ \E e : Appended(e, next) BY <1>1, <2>2, <3>1, ClosedAppended
    <3> QED BY <1>1, <1>2, <3>1, <3>2, SaleTurn
  <2>4. CASE Is("commerciale") /\ Cmd(k) # "close"
    <3>1. Grown(k) BY <1>4, <2>4, ControlGrows
    <3>2. documents' = documents /\ pending' = pending BY <1>4, <2>4 DEF Control, Keep
    <3>3. Cmd(k) \notin Finishing(active.kind) BY <2>1, <2>4 DEF Finishing, Controls
    <3> QED BY <1>0, <1>2, <2>2, <3>1, <3>2, <3>3, QuietSale DEF Grown
  <2>5. CASE ~Is("commerciale")
    <3>1. active' = active /\ documents' = documents /\ pending' = IF Cmd(k) = "query" THEN k ELSE 0
      BY <1>4, <2>5 DEF Control, Keep
    <3>2. active # None => Cmd(k) \notin Finishing(active.kind)
      BY <2>1, <2>5 DEF Finishing, Controls, Is
    <3>3. pending' # 0 => Cmd(pending') = "query" BY <3>1
    <3> QED BY <1>0, <2>2, <3>1, <3>2, <3>3, QuietSale
  <2> QED BY <2>3, <2>4, <2>5
<1>5. CASE CommercialStart(k)
  <2> DEFINE j == IF pending # 0 THEN pending ELSE k
             notes == <<>>
             b == AddFrame(New("commerciale", j, notes), k)
  <2>1. Cmd(k) = "=K" /\ FinishActive /\ active' = b /\ pending' = 0
    BY <1>5 DEF CommercialStart, Accept
  <2>2. j \in Nat /\ notes \in Seq(Codes)
    <3>1. pending \in Nat BY DEF Inv, TypeOK
    <3> QED BY <1>1, <3>1
  <2>3. j = k \/ (j = pending /\ pending # 0) OBVIOUS
  <2> HIDE DEF j, notes
  <2>4. Frames(b) = {j, k} BY <1>1, <2>2, NewReady
  <2> HIDE DEF b
  <2>5. Frames(active') \subseteq {k} \cup ({pending} \ {0}) BY <2>1, <2>3, <2>4
  <2>6. ~Content(k) BY <2>1 DEF Content, Lines, Plain, Printed, Items
  <2>7. OfItsKind(active') /\ Uninterrupted(active', k) BY <1>1, <2>5, <2>6, Proceeds
  <2>8. documents' = documents \/ \E e : Appended(e, next) BY <2>1, ActiveAppended
  <2> QED BY <1>1, <2>1, <2>7, <2>8, SaleTurn
<1>6. CASE ManagementBoundary(k)
  <2>1. Cmd(k) = "=o" /\ pending' = 0 BY <1>6 DEF ManagementBoundary, Accept
  <2>2. ~Content(k) BY <2>1 DEF Content, Lines, Plain, Printed, Items
  <2>3. CASE Is("gestionale")
    <3>1. active # None /\ Finish(AddFrame(active, k), TRUE) /\ active' = None
      BY <1>6, <2>3 DEF ManagementBoundary, Is
    <3>2. documents' = documents \/ \E e : Appended(e, next) BY <1>1, <2>2, <3>1, ClosedAppended
    <3> QED BY <1>1, <2>1, <3>1, <3>2, SaleTurn
  <2>4. CASE ~Is("gestionale")
    <3> DEFINE notes == <<>>
               a == New("gestionale", k, notes)
    <3>1. FinishActive /\ active' = a BY <1>6, <2>4 DEF ManagementBoundary
    <3>2. notes \in Seq(Codes) OBVIOUS
    <3> HIDE DEF notes
    <3>3. a \in Builder /\ a.frames = <<k>> BY <1>1, <3>2, NewBuilder
    <3> HIDE DEF a
    <3>4. Frames(a) = {k} BY <3>3, FramesOfBuilder, ToSetOne
    <3>5. OfItsKind(active') /\ Uninterrupted(active', k) BY <1>1, <2>2, <3>1, <3>4, Proceeds
    <3>6. documents' = documents \/ \E e : Appended(e, next) BY <3>1, ActiveAppended
    <3> QED BY <1>1, <2>1, <3>5, <3>6, SaleTurn
  <2> QED BY <2>3, <2>4
<1>7. CASE ManagementLine(k)
  <2> DEFINE notes == IF active = None THEN <<"missing_open_boundary">> ELSE <<>>
             b == Target("gestionale", k, notes)
  <2>1. Cmd(k) \in Lines /\ SwitchTo("gestionale") /\ pending' = pending
    BY <1>7 DEF ManagementLine, Accept
  <2>2. notes \in Seq(Codes) /\ Written(b, k) BY <1>7, LineIsWritten
  <2> HIDE DEF notes
  <2> QED BY <1>0, <2>1, <2>2, TargetSale
<1>8. CASE CommercialItem(k)
  <2> DEFINE notes == <<"missing_commercial_start">>
             b == Target("commerciale", k, notes)
  <2>1. Cmd(k) \in Items /\ SwitchTo("commerciale") /\ pending' = pending
    BY <1>8 DEF CommercialItem, Accept
  <2>2. notes \in Seq(Codes) /\ Written(b, k) BY <1>8, ItemIsWritten
  <2>3. Cmd(k) \notin Lines BY <2>1 DEF Lines, Plain, Printed, Items
  <2> HIDE DEF notes
  <2> QED BY <1>0, <2>1, <2>2, <2>3, TargetSale
<1>9. CASE CommercialTotal(k)
  <2> DEFINE notes == <<"missing_commercial_start">>
             b == Target("commerciale", k, notes)
  <2>1. Cmd(k) = "total" /\ SwitchTo("commerciale") /\ pending' = pending
    BY <1>9 DEF CommercialTotal, Accept
  <2>2. notes \in Seq(Codes) /\ Written(b, k) BY <1>9, TotalIsWritten
  <2>3. Cmd(k) \notin Lines BY <2>1 DEF Lines, Plain, Printed
  <2> HIDE DEF notes
  <2> QED BY <1>0, <2>1, <2>2, <2>3, TargetSale
<1>10. CASE CommercialText(k)
  <2>1. Cmd(k) = "text" /\ documents' = documents /\ pending' = pending
    BY <1>10 DEF CommercialText, Accept, Keep
  <2>2. Grown(k) BY <1>10, TextGrows
  <2>3. ~Content(k) /\ \A kind : Cmd(k) \notin Finishing(kind)
    BY <2>1 DEF Content, Lines, Plain, Printed, Items, Finishing
  <2> QED BY <1>0, <1>2, <2>1, <2>2, <2>3, QuietSale DEF Grown
<1>11. CASE OtherCommand(k)
  <2>1. Cmd(k) \in {"text", "display", "unknown"} /\ documents' = documents /\ pending' = pending
    BY <1>11 DEF OtherCommand, Accept, Keep
  <2>2. Grown(k) \/ active' = active BY <1>11, OtherGrows
  <2>3. ~Content(k) /\ \A kind : Cmd(k) \notin Finishing(kind)
    BY <2>1 DEF Content, Lines, Plain, Printed, Items, Finishing
  <2> QED BY <1>0, <1>2, <2>1, <2>2, <2>3, QuietSale DEF Grown
<1> QED BY <1>3, <1>4, <1>5, <1>6, <1>7, <1>8, <1>9, <1>10, <1>11

-----------------------------------------------------------------------------
(* After the loop *)

\* Number, subtype and original are all that may change in a document.
Relabelled ==
  /\ DOMAIN documents' = DOMAIN documents
  /\ \A i \in DOMAIN documents :
       /\ documents'[i].kind = documents[i].kind /\ documents'[i].state = documents[i].state
       /\ documents'[i].frames = documents[i].frames /\ documents'[i].items = documents[i].items
       /\ documents'[i].totals = documents[i].totals
       /\ documents'[i].seenTotal = documents[i].seenTotal
       /\ documents'[i].settled = documents[i].settled /\ documents'[i].change = documents[i].change
  /\ conv' = conv /\ request' = request /\ limit' = limit /\ active' = active
  /\ pending' = pending /\ next' = next
  /\ used <= used' /\ used' <= limit.fields /\ (crossed => crossed')

LEMMA LaterSteps ==
  ASSUME Inv, Correlate \/ AttachCounter \/ AssignSubtypes \/ Report \/ UNCHANGED vars
  PROVE  Relabelled
<1>1. /\ used \in Nat /\ used <= limit.fields /\ limit.fields \in Nat BY Budget
<1>2. documents \in Seq(Builder) /\ \A i \in DOMAIN documents : documents[i] \in Builder
  BY DEF Inv, TypeOK
<1>3. CASE Correlate \/ Report \/ UNCHANGED vars
  <2>1. /\ documents' = documents /\ conv' = conv /\ request' = request /\ limit' = limit
        /\ active' = active /\ pending' = pending /\ next' = next /\ used' = used
        /\ crossed' = crossed
    BY <1>3 DEF Correlate, Report, vars, inputs, budget
  <2> QED BY <1>1, <2>1 DEF Relabelled
<1>4. CASE AttachCounter
  <2> DEFINE a == attached + 1
             p == response[Max(Candidates(documents[a]))].pos
  <2>1. /\ conv' = conv /\ request' = request /\ limit' = limit
        /\ active' = active /\ pending' = pending /\ next' = next
    BY <1>4 DEF AttachCounter, inputs
  <2>2. \/ Spend(4) /\ documents' = IF Fits(used, 4) THEN [documents EXCEPT ![a].number = p]
                                    ELSE documents
        \/ documents' = documents /\ used' = used /\ crossed' = crossed
    BY <1>4, Zenon DEF AttachCounter, budget
  <2>3. used <= used' /\ used' <= limit.fields
    <3>1. Spend(4) \/ used' = used BY <2>2
    <3>2. CASE Spend(4) BY <3>2, SpendGrows
    <3> QED BY <1>1, <3>1, <3>2
  <2>4. documents' = documents \/ documents' = [documents EXCEPT ![a].number = p] BY <2>2
  <2> HIDE DEF p, a
  <2>5. DOMAIN documents' = DOMAIN documents BY <1>2, <2>4
  <2>6. ASSUME NEW i \in DOMAIN documents
        PROVE  documents'[i] = documents[i] \/ documents'[i] = [documents[i] EXCEPT !.number = p]
    <3>1. [documents EXCEPT ![a].number = p][i] =
             IF i = a THEN [documents[a] EXCEPT !.number = p] ELSE documents[i]
      BY <1>2
    <3> QED BY <2>4, <3>1
  <2>7. ASSUME NEW d \in Builder
        PROVE  LET e == [d EXCEPT !.number = p]
               IN  /\ e.kind = d.kind /\ e.state = d.state /\ e.frames = d.frames
                   /\ e.items = d.items /\ e.totals = d.totals /\ e.seenTotal = d.seenTotal
                   /\ e.settled = d.settled /\ e.change = d.change
    BY DEF Builder
  <2>8. \A i \in DOMAIN documents :
       /\ documents'[i].kind = documents[i].kind /\ documents'[i].state = documents[i].state
       /\ documents'[i].frames = documents[i].frames /\ documents'[i].items = documents[i].items
       /\ documents'[i].totals = documents[i].totals
       /\ documents'[i].seenTotal = documents[i].seenTotal
       /\ documents'[i].settled = documents[i].settled /\ documents'[i].change = documents[i].change
    <3> TAKE i \in DOMAIN documents
    <3>1. CASE documents'[i] = documents[i] BY <3>1
    <3>2. CASE documents'[i] = [documents[i] EXCEPT !.number = p] BY <1>2, <2>7, <3>2
    <3> QED BY <2>6, <3>1, <3>2
  <2>9. crossed => crossed' BY <2>2 DEF Spend
  <2> QED BY <2>1, <2>3, <2>5, <2>8, <2>9 DEF Relabelled
<1>5. CASE AssignSubtypes
  <2>1. /\ documents' = [i \in 1..Len(documents) |-> Subtyped(documents, i)]
        /\ conv' = conv /\ request' = request /\ limit' = limit /\ active' = active
        /\ pending' = pending /\ next' = next /\ used' = used /\ crossed' = crossed
    BY <1>5 DEF AssignSubtypes, inputs, budget
  <2>2. DOMAIN documents = 1..Len(documents) BY <1>2
  <2>3. DOMAIN documents' = DOMAIN documents BY <2>1, <2>2
  <2>4. \A i \in DOMAIN documents : documents'[i] = Subtyped(documents, i) BY <2>1, <2>2
  <2>5. \A i \in DOMAIN documents :
       /\ documents'[i].kind = documents[i].kind /\ documents'[i].state = documents[i].state
       /\ documents'[i].frames = documents[i].frames /\ documents'[i].items = documents[i].items
       /\ documents'[i].totals = documents[i].totals
       /\ documents'[i].seenTotal = documents[i].seenTotal
       /\ documents'[i].settled = documents[i].settled /\ documents'[i].change = documents[i].change
    <3> TAKE i \in DOMAIN documents
    <3>1. i \in 1..Len(documents) BY <2>2
    <3> DEFINE d == documents[i]
               e == Subtyped(documents, i)
    <3>2. /\ e.kind = d.kind /\ e.state = d.state /\ e.frames = d.frames /\ e.items = d.items
          /\ e.totals = d.totals /\ e.seenTotal = d.seenTotal /\ e.settled = d.settled
          /\ e.change = d.change
      BY <3>1, SubtypedBuilder
    <3>3. documents'[i] = e BY <2>4
    <3> HIDE DEF e
    <3> QED BY <3>2, <3>3
  <2>6. /\ conv' = conv /\ request' = request /\ limit' = limit /\ active' = active
        /\ pending' = pending /\ next' = next
        /\ used <= used' /\ used' <= limit.fields /\ (crossed => crossed')
    BY <1>1, <2>1
  <2> QED BY <2>3, <2>5, <2>6 DEF Relabelled
<1> QED BY <1>3, <1>4, <1>5

LEMMA SaleInvKept == ASSUME Inv, Inv', SaleInv, Relabelled PROVE SaleInv'
<1>1. /\ \A i \in DOMAIN documents : documents[i] \in Builder
      /\ \A i \in DOMAIN documents' : documents'[i] \in Builder
  <2>1. documents \in Seq(Builder) /\ documents' \in Seq(Builder) BY DEF Inv, TypeOK
  <2> QED BY <2>1
<1>2. /\ conv' = conv /\ request' = request /\ active' = active /\ pending' = pending /\ next' = next
      /\ DOMAIN documents' = DOMAIN documents
  BY DEF Relabelled
<1>3. \A i \in DOMAIN documents :
        /\ documents'[i].frames = documents[i].frames /\ documents'[i].kind = documents[i].kind
        /\ documents'[i].state = documents[i].state
        /\ Frames(documents'[i]) = Frames(documents[i])
  BY <1>1, <1>2, FramesOfBuilder DEF Relabelled
<1>4. \A i \in DOMAIN documents :
        OfItsKind(documents[i]) /\ SalesApart(documents[i]) /\ ClosedByOwn(documents[i])
  BY DEF SaleInv
<1>5. \A i \in DOMAIN documents : OfItsKind(documents'[i]) BY <1>3, <1>4 DEF OfItsKind
<1>6. \A i \in DOMAIN documents : ContentSales(documents'[i]) = ContentSales(documents[i])
  BY <1>3 DEF ContentSales
<1>7. \A i \in DOMAIN documents : SalesApart(documents'[i]) /\ ClosedByOwn(documents'[i])
  BY <1>3, <1>4, <1>6 DEF SalesApart, ClosedByOwn
<1>8. /\ \A d : OfItsKind(d)' <=> OfItsKind(d)
      /\ \A d : ClosedByOwn(d)' <=> ClosedByOwn(d)
      /\ \A d : SalesApart(d)' <=> SalesApart(d)
      /\ \A d, n : Uninterrupted(d, n)' <=> Uninterrupted(d, n)
  BY <1>2 DEF OfItsKind, ClosedByOwn, SalesApart, Uninterrupted, ContentSales, Content, Sale, Cmd,
              Heard, Ending, Opening
<1>9. (\A i \in DOMAIN documents :
         OfItsKind(documents[i]) /\ SalesApart(documents[i]) /\ ClosedByOwn(documents[i]))'
  BY <1>2, <1>5, <1>7, <1>8
<1>10. (active # None => OfItsKind(active) /\ Uninterrupted(active, next))'
  BY <1>2, <1>8 DEF SaleInv
<1>11. (pending # 0 => Cmd(pending) = "query")' BY <1>2 DEF SaleInv, Cmd
<1>12. (\A i, j \in 1..Len(request) : i < j => request[i].pos < request[j].pos)' BY <1>2 DEF SaleInv
<1> QED BY <1>9, <1>10, <1>11, <1>12 DEF SaleInv

LEMMA EndOfFramesSales == ASSUME Inv, SaleInv, EndOfFrames PROVE SaleInv'
<1>1. /\ FinishActive /\ active' = None /\ pending' = pending /\ conv' = conv /\ request' = request
  BY DEF EndOfFrames, inputs
<1>2. documents' = documents \/ \E e : Appended(e, next) BY <1>1, ActiveAppended
<1> QED BY <1>1, <1>2, SaleTurn DEF SaleInv

LEMMA InitSales == Init => SaleInv
<1> SUFFICES ASSUME Init PROVE SaleInv OBVIOUS
<1>1. active = None /\ pending = 0 /\ documents = <<>> /\ conv \in Conversations BY DEF Init
<1>2. conv \in Seq([cmd : Commands, val : Nat, sale : Nat])
  BY <1>1, AssemblyAssumption DEF Conversation
<1>3. PICK lost, bad : request = Capture(conv, lost, bad) BY DEF Init
<1>4. \A i, j \in 1..Len(request) : i < j => request[i].pos < request[j].pos
  BY <1>2, <1>3, CaptureOrdered
<1>5. DOMAIN documents = {} BY <1>1
<1> QED BY <1>1, <1>4, <1>5 DEF SaleInv

\* A builder takes in only what is of its kind, and nothing that would have
\* finished it came after that, in every state.
THEOREM SalesInvariance == Spec => []SaleInv
<1>1. ASSUME Inv, Inv', SaleInv, [Next]_vars PROVE SaleInv'
  <2>1. ASSUME NEW k \in 1..Len(request),
               \/ Skip(k) \/ Control(k) \/ CommercialStart(k) \/ ManagementBoundary(k)
               \/ ManagementLine(k) \/ CommercialItem(k) \/ CommercialText(k) \/ CommercialTotal(k)
               \/ OtherCommand(k)
        PROVE  SaleInv'
    BY <1>1, <2>1, LoopSales
  <2>2. CASE EndOfFrames BY <1>1, <2>2, EndOfFramesSales
  <2>3. CASE Correlate \/ AttachCounter \/ AssignSubtypes \/ Report \/ UNCHANGED vars
    BY <1>1, <2>3, LaterSteps, SaleInvKept
  <2> QED BY <1>1, <2>1, <2>2, <2>3 DEF Next
<1> QED BY <1>1, InitSales, Invariance, PTL DEF Spec

\* A document takes items, totals or printed lines of two sales only if the
\* capture lacks both the end of the earlier sale and the beginning of the later
\* one (the opening and closing branches of _parse_documents).
THEOREM SalesStayApart == Spec => []SalesSeparate
<1>1. ASSUME Inv, SaleInv PROVE SalesSeparate
  <2> DEFINE n == Len(documents)
  <2>1. /\ DOMAIN documents = 1..n /\ n \in Nat
        /\ DOMAIN Candidate = 1..(IF active = None THEN n ELSE n + 1)
        /\ \A i \in 1..n : Candidate[i] = documents[i]
        /\ active # None => Candidate[n + 1] = active /\ active \in Builder
    BY <1>1, CandidateParts
  <2>2. \A i \in 1..n : SalesApart(Candidate[i]) BY <1>1, <2>1 DEF SaleInv
  <2>3. active # None => SalesApart(Candidate[n + 1])
    <3> SUFFICES ASSUME active # None PROVE SalesApart(active) BY <2>1
    <3>1. next \in 0..Len(request) /\ Len(request) \in Nat /\ next \in Nat BY <1>1 DEF Inv, TypeOK
    <3>2. Frames(active) \subseteq 1..next BY <1>1 DEF Inv, FrameInv
    <3>3. \A x \in 1..next : x \in 1..(next + 1) /\ x \in 1..Len(request) BY <3>1
    <3>4. Frames(active) \subseteq 1..(next + 1) /\ Frames(active) \subseteq 1..Len(request)
      BY <3>2, <3>3
    <3>5. InOrder /\ OfItsKind(active) /\ Uninterrupted(active, next) BY <1>1 DEF SaleInv, InOrder
    <3> QED BY <1>1, <2>1, <3>1, <3>4, <3>5, UninterruptedApart
  <2>4. ASSUME NEW i \in DOMAIN Candidate PROVE SalesApart(Candidate[i])
    <3>1. CASE active = None BY <2>1, <2>2, <2>4, <3>1
    <3>2. CASE active # None
      <4>1. i \in 1..n \/ i = n + 1 BY <2>1, <2>4, <3>2
      <4> QED BY <2>2, <2>3, <3>2, <4>1
    <3> QED BY <3>1, <3>2
  <2> QED BY <2>4 DEF SalesSeparate, SalesApart
<1> QED BY <1>1, Invariance, SalesInvariance, PTL

\* A document is complete through the closing command of its own sale, or the
\* capture lacks that command (finish_active at a close and at "=o").
THEOREM ClosedByTheirOwn == Spec => []CompleteByOwnClose
<1>1. SaleInv => CompleteByOwnClose BY DEF SaleInv, ClosedByOwn, CompleteByOwnClose
<1> QED BY <1>1, SalesInvariance, PTL

-----------------------------------------------------------------------------
(* The change *)

Told(b) == b.change = "earlier" => crossed

LEMMA FinishTold ==
  ASSUME Inv, ChangeInv, NEW b \in Builder, Told(b), NEW complete \in BOOLEAN, Finish(b, complete)
  PROVE  \A i \in DOMAIN documents' : Told(documents'[i])
<1> DEFINE c == Closing(b, complete)
<1>1. Told(c) /\ c \in Builder BY ClosingBuilder DEF Told, Alike
<1>2. documents' = documents \/ documents' = Append(documents, c) BY DEF Finish
<1>3. documents \in Seq(Builder) /\ \A i \in DOMAIN documents : Told(documents[i])
  BY DEF Inv, TypeOK, ChangeInv, Told
<1> HIDE DEF c
<1>4. CASE documents' = documents BY <1>3, <1>4
<1>5. CASE documents' = Append(documents, c)
  <2>1. \A i \in DOMAIN documents' :
           (i \in DOMAIN documents /\ documents'[i] = documents[i]) \/ documents'[i] = c
    BY <1>1, <1>3, <1>5
  <2> QED BY <1>1, <1>3, <2>1
<1> QED BY <1>2, <1>4, <1>5

LEMMA FinishActiveTold ==
  ASSUME Inv, ChangeInv, FinishActive PROVE \A i \in DOMAIN documents' : Told(documents'[i])
<1>1. CASE active = None BY <1>1 DEF FinishActive, Keep, ChangeInv, Told
<1>2. CASE active # None
  <2>1. active \in Builder /\ Told(active) BY <1>2 DEF Inv, TypeOK, ChangeInv, Told
  <2>2. Finish(active, FALSE) BY <1>2 DEF FinishActive
  <2> QED BY <2>1, <2>2, FinishTold
<1> QED BY <1>1, <1>2

LEMMA AddedTold ==
  ASSUME Inv, ChangeInv, active # None, NEW k \in Nat
  PROVE  AddFrame(active, k) \in Builder /\ Told(AddFrame(active, k))
<1>1. active \in Builder /\ active.frames # <<>> /\ Told(active)
  BY DEF Inv, TypeOK, FrameInv, ChangeInv, Told
<1> QED BY <1>1, AddFrameBuilder DEF Alike, Told

LEMMA NewTold ==
  ASSUME NEW kind \in {"commerciale", "gestionale"}, NEW notes \in Seq(Codes), NEW j \in Nat, NEW k \in Nat
  PROVE  /\ AddFrame(New(kind, j, notes), k) \in Builder /\ Told(AddFrame(New(kind, j, notes), k))
         /\ Told(New(kind, j, notes))
<1> DEFINE a == New(kind, j, notes)
<1>1. a \in Builder /\ a.frames = <<j>> /\ a.change = "none"
  <2>1. a \in Builder /\ a.frames = <<j>> BY NewBuilder
  <2> QED BY <2>1, NewChange
<1>2. <<j>> # <<>> BY ToSetOne
<1> HIDE DEF a
<1>3. AddFrame(a, k) \in Builder /\ Alike(a, AddFrame(a, k)) BY <1>1, <1>2, AddFrameBuilder
<1>4. AddFrame(a, k).change = "none" BY <1>1, <1>3 DEF Alike
<1> QED BY <1>1, <1>3, <1>4 DEF a, Told

LEMMA TargetTold ==
  ASSUME Inv, ChangeInv, NEW kind \in {"commerciale", "gestionale"}, NEW notes \in Seq(Codes),
         NEW k \in Nat
  PROVE  Target(kind, k, notes) \in Builder /\ Told(Target(kind, k, notes))
<1>1. CASE Is(kind)
  <2>1. Target(kind, k, notes) = AddFrame(active, k) /\ active # None BY <1>1 DEF Target, Is
  <2> QED BY <2>1, AddedTold
<1>2. CASE ~Is(kind)
  <2>1. Target(kind, k, notes) = AddFrame(New(kind, k, notes), k) BY <1>2 DEF Target
  <2> QED BY <2>1, NewTold
<1> QED BY <1>1, <1>2

LEMMA SwitchTold ==
  ASSUME Inv, ChangeInv, NEW kind, SwitchTo(kind) PROVE \A i \in DOMAIN documents' : Told(documents'[i])
  BY FinishActiveTold DEF SwitchTo, Keep, ChangeInv, Told

\* What was noted stays noted.
LEMMA ChangeKept ==
  ASSUME \A i \in DOMAIN documents' : Told(documents'[i]), crossed => crossed',
         active' # None => (active'.change = "earlier" => crossed')
  PROVE  ChangeInv'
  BY DEF ChangeInv, Told

\* A line with an amount that was not read crosses the limit.
LEMMA LineTold ==
  ASSUME Inv, NEW b \in Builder, Told(b), NEW k, ApplyManagementLine(b, k)
  PROVE  (crossed => crossed') /\ (active'.change = "earlier" => crossed')
<1> DEFINE n == AmountsIn(Cmd(k))
           u == Reserve(used, 1)
           got == AmountsRead(n, u)
           as == TakenFor(Cmd(k), got, b.seenTotal)
           fits == Fits(u + got, FieldsOf(as))
           l == IF Fits(used, 1) THEN Append(b.lines, k) ELSE b.lines
           s == b.seenTotal \/ as = "total"
           read == [b EXCEPT !.lines = l, !.seenTotal = s]
<1>1. /\ crossed' = (crossed \/ ~Fits(used, 1) \/ got < n \/ ~fits)
      /\ active' = IF fits THEN Recorded(read, k, as, got) ELSE read
  <2>1. [b EXCEPT !.lines = IF Fits(used, 1) THEN Append(@, k) ELSE @,
                  !.seenTotal = @ \/ as = "total"] = read
    BY DEF Builder
  <2> HIDE DEF read
  <2> QED BY <2>1, Zenon DEF ApplyManagementLine
<1>2. got # n => got < n
  <2>1. u \in Nat /\ limit.fields \in Nat BY Budget, ReserveBound
  <2>2. n \in Nat BY DEF AmountsIn
  <2> HIDE DEF n, u
  <2> QED BY <2>1, <2>2 DEF AmountsRead
<1> HIDE DEF got, l, s, fits
<1>3. read.change = b.change /\ DOMAIN read = DOMAIN b BY DEF Builder
<1>4. DOMAIN b = {"kind", "state", "frames", "issues", "lines", "items", "totals", "settled",
                  "change", "seenTotal", "number", "copyOf", "subtype"}
  BY DEF Builder
<1> HIDE DEF read
<1>5. \/ Recorded(read, k, as, got).change = read.change
      \/ Recorded(read, k, as, got).change = IF got = n THEN "last" ELSE "earlier"
  BY <1>3, <1>4 DEF Recorded
<1>6. active'.change = b.change \/ active'.change = (IF got = n THEN "last" ELSE "earlier")
  BY <1>1, <1>3, <1>5
<1>7. crossed => crossed' BY <1>1, Zenon
<1>8. got < n => crossed' BY <1>1, Zenon
<1> QED BY <1>2, <1>6, <1>7, <1>8 DEF Told

LEMMA ItemTold ==
  ASSUME NEW b \in Builder, Told(b), NEW k, ApplyCommercialItem(b, k)
  PROVE  (crossed => crossed') /\ (active'.change = "earlier" => crossed')
<1> DEFINE x == Append(b.items, [frame |-> k, val |-> Val(k)])
           l == Append(b.lines, k)
           c == [b EXCEPT !.items = x, !.lines = l]
<1>1. active' = b \/ active' = c BY DEF ApplyCommercialItem, Builder
<1>2. crossed => crossed' BY DEF ApplyCommercialItem, Spend
<1> HIDE DEF x, l
<1>3. c.change = b.change BY DEF Builder
<1> QED BY <1>1, <1>2, <1>3 DEF Told

LEMMA TotalTold ==
  ASSUME NEW b \in Builder, Told(b), NEW k, ApplyCommercialTotal(b, k)
  PROVE  (crossed => crossed') /\ (active'.change = "earlier" => crossed')
<1> DEFINE p == [b EXCEPT !.state = "commercial_payment"]
           x == Append(p.totals, [frame |-> k, val |-> Val(k)])
           z == p.settled + 1
           l == p.lines \o <<k, k>>
           c == [p EXCEPT !.totals = x, !.settled = z, !.lines = l]
<1>1. p.change = b.change /\ DOMAIN p = DOMAIN b BY DEF Builder
<1>2. active' = p \/ active' = c BY <1>1 DEF ApplyCommercialTotal, Builder
<1>3. crossed => crossed' BY DEF ApplyCommercialTotal, Spend
<1>4. c.change = p.change
  <2>1. DOMAIN b = {"kind", "state", "frames", "issues", "lines", "items", "totals", "settled",
                    "change", "seenTotal", "number", "copyOf", "subtype"}
    BY DEF Builder
  <2> HIDE DEF x, z, l, p
  <2> QED BY <1>1, <2>1
<1> QED BY <1>1, <1>2, <1>3, <1>4 DEF Told

LEMMA LoopTold ==
  ASSUME Inv, ChangeInv, NEW k \in 1..Len(request),
         \/ Skip(k) \/ Control(k) \/ CommercialStart(k) \/ ManagementBoundary(k)
         \/ ManagementLine(k) \/ CommercialItem(k) \/ CommercialText(k) \/ CommercialTotal(k)
         \/ OtherCommand(k)
  PROVE  ChangeInv'
<1>1. k \in Nat BY DEF Inv, TypeOK
<1>2. Keep => \A i \in DOMAIN documents' : Told(documents'[i]) BY DEF Keep, ChangeInv, Told
<1>3. active # None => (active.change = "earlier" => crossed) BY DEF ChangeInv
<1>4. <<>> \in Seq(Codes) OBVIOUS
<1>5. CASE Skip(k)
  <2>1. Keep /\ active' = active /\ crossed' = crossed BY <1>5 DEF Skip, budget
  <2> QED BY <1>2, <1>3, <2>1, ChangeKept
<1>6. CASE Control(k)
  <2>1. crossed' = crossed BY <1>6 DEF Control, budget
  <2>2. CASE Is("commerciale") /\ Cmd(k) = "close"
    <3>1. active # None /\ Finish(AddFrame(active, k), TRUE) /\ active' = None
      BY <1>6, <2>2 DEF Control, Is
    <3>2. \A i \in DOMAIN documents' : Told(documents'[i]) BY <1>1, <3>1, AddedTold, FinishTold
    <3> QED BY <2>1, <3>1, <3>2, ChangeKept
  <2>3. CASE Is("commerciale") /\ Cmd(k) # "close"
    <3> DEFINE b == AddFrame(active, k)
               x == IF b.state = "commercial_payment" THEN "commercial_postlude" ELSE b.state
               c == [b EXCEPT !.state = x]
    <3>1. active # None /\ Keep
          /\ active' = [b EXCEPT !.state = IF @ = "commercial_payment" THEN "commercial_postlude" ELSE @]
      BY <1>6, <2>3 DEF Control, Is
    <3>2. b \in Builder /\ Told(b) BY <1>1, <3>1, AddedTold
    <3> HIDE DEF b
    <3>3. active' = c BY <3>1, <3>2 DEF Builder
    <3> HIDE DEF x
    <3>4. c.change = b.change BY <3>2 DEF Builder
    <3> QED BY <1>2, <2>1, <3>1, <3>2, <3>3, <3>4, ChangeKept DEF Told
  <2>4. CASE ~Is("commerciale")
    <3>1. Keep /\ active' = active BY <1>6, <2>4 DEF Control
    <3> QED BY <1>2, <1>3, <2>1, <3>1, ChangeKept
  <2> QED BY <2>2, <2>3, <2>4
<1>7. CASE CommercialStart(k)
  <2> DEFINE j == IF pending # 0 THEN pending ELSE k
  <2>1. FinishActive /\ active' = AddFrame(New("commerciale", j, <<>>), k) /\ crossed' = crossed
    BY <1>7 DEF CommercialStart, budget
  <2>2. j \in Nat BY <1>1 DEF Inv, TypeOK
  <2> HIDE DEF j
  <2>3. Told(active') BY <1>1, <1>4, <2>1, <2>2, NewTold
  <2> QED BY <2>1, <2>3, FinishActiveTold, ChangeKept DEF Told
<1>8. CASE ManagementBoundary(k)
  <2>1. crossed' = crossed BY <1>8 DEF ManagementBoundary, budget
  <2>2. CASE Is("gestionale")
    <3>1. active # None /\ Finish(AddFrame(active, k), TRUE) /\ active' = None
      BY <1>8, <2>2 DEF ManagementBoundary, Is
    <3>2. \A i \in DOMAIN documents' : Told(documents'[i]) BY <1>1, <3>1, AddedTold, FinishTold
    <3> QED BY <2>1, <3>1, <3>2, ChangeKept
  <2>3. CASE ~Is("gestionale")
    <3>1. FinishActive /\ active' = New("gestionale", k, <<>>) BY <1>8, <2>3 DEF ManagementBoundary
    <3>2. Told(active') BY <1>1, <1>4, <3>1, NewTold
    <3> QED BY <2>1, <3>1, <3>2, FinishActiveTold, ChangeKept DEF Told
  <2> QED BY <2>2, <2>3
<1>9. CASE ManagementLine(k)
  <2> DEFINE notes == IF active = None THEN <<"missing_open_boundary">> ELSE <<>>
             b == Target("gestionale", k, notes)
  <2>1. SwitchTo("gestionale") /\ ApplyManagementLine(b, k) BY <1>9 DEF ManagementLine
  <2>2. notes \in Seq(Codes)
    <3>1. "missing_open_boundary" \in Codes BY DEF Codes
    <3> QED BY <3>1
  <2> HIDE DEF notes
  <2>3. b \in Builder /\ Told(b) BY <1>1, <2>2, TargetTold
  <2> HIDE DEF b
  <2> QED BY <2>1, <2>3, LineTold, SwitchTold, ChangeKept
<1>10. <<"missing_commercial_start">> \in Seq(Codes) BY DEF Codes
<1>11. CASE CommercialItem(k)
  <2> DEFINE b == Target("commerciale", k, <<"missing_commercial_start">>)
  <2>1. SwitchTo("commerciale") /\ ApplyCommercialItem(b, k) BY <1>11 DEF CommercialItem
  <2>2. b \in Builder /\ Told(b) BY <1>1, <1>10, TargetTold
  <2> HIDE DEF b
  <2> QED BY <2>1, <2>2, ItemTold, SwitchTold, ChangeKept
<1>12. CASE CommercialTotal(k)
  <2> DEFINE b == Target("commerciale", k, <<"missing_commercial_start">>)
  <2>1. SwitchTo("commerciale") /\ ApplyCommercialTotal(b, k) BY <1>12 DEF CommercialTotal
  <2>2. b \in Builder /\ Told(b) BY <1>1, <1>10, TargetTold
  <2> HIDE DEF b
  <2> QED BY <2>1, <2>2, TotalTold, SwitchTold, ChangeKept
<1>13. CASE CommercialText(k)
  <2> DEFINE b == AddFrame(active, k)
             l == Append(b.lines, k)
             c == [b EXCEPT !.lines = l]
  <2>1. active # None /\ Keep /\ Spend(1)
        /\ active' = IF Fits(used, 1) THEN [b EXCEPT !.lines = Append(@, k)] ELSE b
    BY <1>13 DEF CommercialText, Is
  <2>2. b \in Builder /\ Told(b) BY <1>1, <2>1, AddedTold
  <2> HIDE DEF b
  <2>3. active' = b \/ active' = c BY <2>1, <2>2 DEF Builder
  <2> HIDE DEF l
  <2>4. c.change = b.change BY <2>2 DEF Builder
  <2>5. crossed => crossed' BY <2>1 DEF Spend
  <2> QED BY <1>2, <2>1, <2>2, <2>3, <2>4, <2>5, ChangeKept DEF Told
<1>14. CASE OtherCommand(k)
  <2>1. Keep /\ crossed' = crossed /\ (active' = active \/ (active # None /\ active' = AddFrame(active, k)))
    BY <1>14 DEF OtherCommand, budget
  <2>2. active # None => Told(AddFrame(active, k)) BY <1>1, AddedTold
  <2> QED BY <1>2, <1>3, <2>1, <2>2, ChangeKept DEF Told
<1> QED BY <1>5, <1>6, <1>7, <1>8, <1>9, <1>11, <1>12, <1>13, <1>14

\* A change that is another amount of its line comes with the crossing noted, in
\* every state (_apply_management_line, _amount_fields).
THEOREM ChangeTold == Spec => []ChangeInv
<1>1. Init => ChangeInv BY DEF Init, ChangeInv
<1>2. ASSUME Inv, ChangeInv, [Next]_vars PROVE ChangeInv'
  <2>1. ASSUME NEW k \in 1..Len(request),
               \/ Skip(k) \/ Control(k) \/ CommercialStart(k) \/ ManagementBoundary(k)
               \/ ManagementLine(k) \/ CommercialItem(k) \/ CommercialText(k) \/ CommercialTotal(k)
               \/ OtherCommand(k)
        PROVE  ChangeInv'
    BY <1>2, <2>1, LoopTold
  <2>2. CASE EndOfFrames
    <3>1. FinishActive /\ active' = None /\ crossed' = crossed BY <2>2 DEF EndOfFrames, budget
    <3> QED BY <1>2, <3>1, FinishActiveTold, ChangeKept
  <2>3. CASE Correlate \/ AttachCounter \/ AssignSubtypes \/ Report \/ UNCHANGED vars
    <3>1. Relabelled BY <1>2, <2>3, LaterSteps
    <3> QED BY <1>2, <3>1 DEF Relabelled, ChangeInv
  <2> QED BY <1>2, <2>1, <2>2, <2>3 DEF Next
<1> QED BY <1>1, <1>2, Invariance, PTL DEF Spec

\* A field budget that runs out anywhere in a line leaves items and totals out and
\* alters none; the change may be another amount, with the crossing noted
\* (_SemanticBudget.reserve, _amount_fields, _apply_management_line).
THEOREM OnlyOmits == Spec => []TruncationOnlyOmits
<1>1. ASSUME Inv, ChangeInv PROVE TruncationOnlyOmits
  <2> DEFINE n == Len(documents)
  <2>1. /\ DOMAIN documents = 1..n /\ n \in Nat
        /\ DOMAIN Candidate = 1..(IF active = None THEN n ELSE n + 1)
        /\ \A i \in 1..n : Candidate[i] = documents[i]
        /\ active # None => Candidate[n + 1] = active
    BY <1>1, CandidateParts
  <2>2. \A i \in 1..n : Faithful(documents[i]) /\ (documents[i].change = "earlier" => crossed)
    BY <1>1, <2>1 DEF Inv, FieldInv, ChangeInv
  <2>3. active # None => Faithful(active) /\ (active.change = "earlier" => crossed)
    BY <1>1 DEF Inv, FieldInv, Tallied, ChangeInv
  <2>4. n \in Nat /\ DOMAIN Candidate = 1..(IF active = None THEN n ELSE n + 1) BY <2>1
  <2> HIDE DEF n
  <2>5. \A i \in DOMAIN Candidate : i \in 1..n \/ (i = n + 1 /\ active # None) BY <2>4
  <2> QED BY <2>1, <2>2, <2>3, <2>5 DEF TruncationOnlyOmits
<1> QED BY <1>1, Invariance, ChangeTold, PTL

-----------------------------------------------------------------------------
(* What a frame adds to the items and totals *)

Measured == {"mtotal", "mtotals"}
ItemCommands == Items \cup {"mitem"}

\* c is a with frame k, and what that frame says of the fields.
Step(a, c, k) ==
  /\ a \in Builder /\ c \in Builder /\ c.kind = a.kind
  /\ ToSet(c.frames) = ToSet(a.frames) \cup {k} /\ \A f \in ToSet(a.frames) : f \in Nat /\ f < k
  /\ Faithful(c) /\ Noted(a, c, k) /\ Val(k) \in Nat
  /\ Cmd(k) \in Items \cup {"total"} => a.kind = "commerciale"
  /\ Cmd(k) \in Lines => a.kind = "gestionale"

\* An item before the printed totals is an item of the document.
LEMMA ItemsGrow ==
  ASSUME NEW a, NEW c, NEW k \in Nat, Step(a, c, k)
  PROVE  /\ TrueItems(a) \subseteq ToSet(a.frames) /\ k \notin ToSet(a.frames)
         /\ (Cmd(k) \in ItemCommands /\
               (a.kind = "gestionale" => \A j \in ToSet(a.frames) : Cmd(j) \notin Measured)) =>
              TrueItems(c) = TrueItems(a) \cup {k}
         /\ ~(Cmd(k) \in ItemCommands /\
               (a.kind = "gestionale" => \A j \in ToSet(a.frames) : Cmd(j) \notin Measured)) =>
              TrueItems(c) = TrueItems(a)
<1> DEFINE F == ToSet(a.frames)
           new == /\ Cmd(k) \in ItemCommands
                  /\ a.kind = "gestionale" => \A j \in F : Cmd(j) \notin Measured
<1>1. /\ c.kind = a.kind /\ ToSet(c.frames) = F \cup {k} /\ \A f \in F : f \in Nat /\ f < k BY DEF Step
<1>2. ~(k < k) /\ \A f \in F : f # k /\ ~(k < f) BY <1>1
<1>3. Cmd(k) \in ItemCommands => Cmd(k) \notin Measured BY DEF ItemCommands, Items, Measured
<1>4. \A f : f \in TrueItems(a) <=>
         /\ f \in F /\ Cmd(f) \in ItemCommands
         /\ a.kind = "gestionale" => \A j \in F : Cmd(j) \in Measured => f < j
  BY DEF TrueItems, ItemCommands, Measured
<1>5. \A f : f \in TrueItems(c) <=>
         /\ f \in F \cup {k} /\ Cmd(f) \in ItemCommands
         /\ a.kind = "gestionale" => \A j \in F \cup {k} : Cmd(j) \in Measured => f < j
  BY <1>1 DEF TrueItems, ItemCommands, Measured
<1> HIDE DEF F
<1>6. \A f \in F : f \in TrueItems(c) <=> f \in TrueItems(a)
  <2> TAKE f \in F
  <2>1. f < k BY <1>1
  <2> QED BY <1>4, <1>5, <2>1
<1>7. k \in TrueItems(c) <=> new
  <2>1. (a.kind = "gestionale" => \A j \in F \cup {k} : Cmd(j) \in Measured => k < j) <=>
        (a.kind = "gestionale" => Cmd(k) \notin Measured /\ \A j \in F : Cmd(j) \notin Measured)
    BY <1>2
  <2> QED BY <1>3, <1>5, <2>1
<1>8. k \notin TrueItems(a) BY <1>2, <1>4
<1> HIDE DEF new
<1>9. TrueItems(a) \subseteq F /\ TrueItems(c) \subseteq F \cup {k} BY <1>4, <1>5
<1>10. new => TrueItems(c) = TrueItems(a) \cup {k} BY <1>6, <1>7, <1>9
<1>11. ~new => TrueItems(c) = TrueItems(a) BY <1>6, <1>7, <1>9
<1> QED BY <1>2, <1>9, <1>10, <1>11 DEF new, F

LEMMA TotalsGrow ==
  ASSUME NEW a, NEW c, NEW k \in Nat, Step(a, c, k)
  PROVE  /\ TrueTotals(a) \subseteq ToSet(a.frames)
         /\ Cmd(k) \in {"total", "mtotal"} => TrueTotals(c) = TrueTotals(a) \cup {k}
         /\ Cmd(k) \notin {"total", "mtotal"} => TrueTotals(c) = TrueTotals(a)
<1>1. ToSet(c.frames) = ToSet(a.frames) \cup {k} BY DEF Step
<1> QED BY <1>1 DEF TrueTotals

LEMMA AscendingAppend ==
  ASSUME NEW S, NEW s \in Seq(S), NEW r \in S, Ascending(s), \A t \in ToSet(s) : t.frame < r.frame
  PROVE  Ascending(Append(s, r))
<1> DEFINE z == Append(s, r)
<1>1. /\ Len(s) \in Nat /\ DOMAIN s = 1..Len(s) /\ DOMAIN z = 1..(Len(s) + 1)
      /\ \A i \in 1..Len(s) : z[i] = s[i]
      /\ z[Len(s) + 1] = r
  OBVIOUS
<1> HIDE DEF z
<1> SUFFICES ASSUME NEW i \in DOMAIN z, NEW j \in DOMAIN z, i < j PROVE z[i].frame < z[j].frame
  BY DEF Ascending, z
<1>2. i \in 1..Len(s) /\ (j \in 1..Len(s) \/ j = Len(s) + 1) BY <1>1
<1>3. s[i] \in ToSet(s) BY <1>1, <1>2 DEF ToSet
<1>4. CASE j \in 1..Len(s) BY <1>1, <1>2, <1>4 DEF Ascending
<1>5. CASE j = Len(s) + 1 BY <1>1, <1>2, <1>3, <1>5
<1> QED BY <1>2, <1>4, <1>5

LEMMA ItemsOf ==
  ASSUME NEW b \in Builder
  PROVE  /\ b.items \in Seq(Item) /\ b.totals \in Seq(Total)
         /\ \A f : f \in ItemFrames(b) <=> \E t \in ToSet(b.items) : t.frame = f
         /\ \A f : f \in TotalFrames(b) <=> \E t \in ToSet(b.totals) : t.val # -1 /\ t.frame = f
<1>1. b.items \in Seq(Item) /\ b.totals \in Seq(Total) BY DEF Builder, Item, Total
<1>2. \A f : f \in ItemFrames(b) <=> \E t \in ToSet(b.items) : t.frame = f BY DEF ItemFrames
<1>3. \A f : f \in TotalFrames(b) <=> \E t \in ToSet(b.totals) : t.val # -1 /\ t.frame = f
  BY DEF TotalFrames
<1> QED BY <1>1, <1>2, <1>3

\* The three things a frame may do to what is recorded.
TookItem(a, c, k) ==
  /\ Cmd(k) \in ItemCommands /\ ItemFrames(c) = ItemFrames(a) \cup {k}
  /\ TotalFrames(c) = TotalFrames(a) /\ c.totals = a.totals
  /\ TrueItems(c) = TrueItems(a) \cup {k} /\ TrueTotals(c) = TrueTotals(a)
TookTotal(a, c, k) ==
  /\ Cmd(k) \in {"total", "mtotal", "mtotals"}
  /\ ItemFrames(c) = ItemFrames(a) /\ TrueItems(c) = TrueItems(a) /\ c.items = a.items
  /\ \/ /\ Cmd(k) \in {"total", "mtotal"} /\ TotalFrames(c) = TotalFrames(a) \cup {k}
        /\ TrueTotals(c) = TrueTotals(a) \cup {k}
     \/ /\ Cmd(k) = "mtotals" /\ TotalFrames(c) = TotalFrames(a) /\ TrueTotals(c) = TrueTotals(a)
TookNothing(a, c) ==
  /\ ItemFrames(c) = ItemFrames(a) /\ TotalFrames(c) = TotalFrames(a)
  /\ c.items = a.items /\ c.totals = a.totals

LEMMA TakesItem ==
  ASSUME NEW a, NEW c, NEW k \in Nat, Step(a, c, k), Ledger(a), Cmd(k) \in ItemCommands,
         c.items = Append(a.items, [frame |-> k, val |-> Val(k)]), c.totals = a.totals
  PROVE  TookItem(a, c, k) /\ Ledger(c)
<1> DEFINE r == [frame |-> k, val |-> Val(k)]
<1>0. /\ a \in Builder /\ c \in Builder /\ c.kind = a.kind /\ Faithful(c)
      /\ ToSet(c.frames) = ToSet(a.frames) \cup {k} /\ Val(k) \in Nat
      /\ \A f \in ToSet(a.frames) : f < k
  BY DEF Step
<1>1. r \in Item /\ r.frame = k BY <1>0 DEF Item
<1> HIDE DEF r
<1>2. a.items \in Seq(Item) /\ c.items = Append(a.items, r) BY <1>0, ItemsOf DEF r
<1>3. ToSet(c.items) = ToSet(a.items) \cup {r} BY <1>1, <1>2, ToSetAppend
<1>4. ItemFrames(c) = ItemFrames(a) \cup {k}
  <2>1. \A f : f \in ItemFrames(a) <=> \E t \in ToSet(a.items) : t.frame = f BY <1>0, ItemsOf
  <2>2. \A f : f \in ItemFrames(c) <=> \E t \in ToSet(c.items) : t.frame = f BY <1>0, ItemsOf
  <2>3. \A f : f \in ItemFrames(c) <=> f \in ItemFrames(a) \/ f = k BY <1>1, <1>3, <2>1, <2>2
  <2> QED BY <2>3
<1>5. TotalFrames(c) = TotalFrames(a) BY DEF TotalFrames
<1>6. a.kind = "gestionale" => \A j \in ToSet(a.frames) : Cmd(j) \notin Measured
  <2> SUFFICES ASSUME a.kind = "gestionale", NEW j \in ToSet(a.frames), Cmd(j) \in Measured
               PROVE  FALSE
    OBVIOUS
  <2>1. r \in ToSet(c.items) /\ j \in ToSet(c.frames) BY <1>0, <1>3
  <2>2. r.frame < j BY <1>0, <2>1 DEF Faithful, Measured
  <2>3. j < k /\ j \in Nat BY DEF Step
  <2> QED BY <1>1, <2>2, <2>3
<1>7. TrueItems(c) = TrueItems(a) \cup {k} BY <1>6, ItemsGrow
<1>8. Cmd(k) \notin {"total", "mtotal"} BY DEF ItemCommands, Items
<1>9. TrueTotals(c) = TrueTotals(a) BY <1>8, TotalsGrow
<1>10. Ascending(c.items)
  <2>1. \A t \in ToSet(a.items) : t.frame \in TrueItems(a) BY <1>0, ItemsOf DEF Ledger
  <2>2. TrueItems(a) \subseteq ToSet(a.frames) BY ItemsGrow
  <2>3. \A t \in ToSet(a.items) : t.frame < r.frame BY <1>0, <1>1, <2>1, <2>2
  <2> QED BY <1>1, <1>2, <2>3, AscendingAppend DEF Ledger
<1>11. Ledger(c) BY <1>0, <1>4, <1>5, <1>7, <1>9, <1>10 DEF Ledger
<1> QED BY <1>4, <1>5, <1>7, <1>9, <1>11 DEF TookItem

LEMMA TakesTotal ==
  ASSUME NEW a, NEW c, NEW k \in Nat, Step(a, c, k), Ledger(a), Cmd(k) \in {"total", "mtotal", "mtotals"},
         c.totals = Append(a.totals, [frame |-> k, val |-> IF Cmd(k) = "mtotals" THEN -1 ELSE Val(k)]),
         c.items = a.items
  PROVE  TookTotal(a, c, k) /\ Ledger(c)
<1> DEFINE v == IF Cmd(k) = "mtotals" THEN -1 ELSE Val(k)
           r == [frame |-> k, val |-> v]
<1>0. /\ a \in Builder /\ c \in Builder /\ c.kind = a.kind
      /\ ToSet(c.frames) = ToSet(a.frames) \cup {k} /\ Val(k) \in Nat
      /\ \A f \in ToSet(a.frames) : f < k
  BY DEF Step
<1>1. v \in Int /\ (v = -1 <=> Cmd(k) = "mtotals") BY <1>0
<1> HIDE DEF v
<1>2. r \in Total /\ r.frame = k /\ r.val = v BY <1>1 DEF Total
<1> HIDE DEF r
<1>3. a.totals \in Seq(Total) /\ c.totals = Append(a.totals, r) BY <1>0, ItemsOf DEF r, v
<1>4. ToSet(c.totals) = ToSet(a.totals) \cup {r} BY <1>2, <1>3, ToSetAppend
<1>5. ItemFrames(c) = ItemFrames(a) BY DEF ItemFrames
<1>6. TotalFrames(c) = TotalFrames(a) \cup (IF v = -1 THEN {} ELSE {k})
  <2>1. \A f : f \in TotalFrames(a) <=> \E t \in ToSet(a.totals) : t.val # -1 /\ t.frame = f
    BY <1>0, ItemsOf
  <2>2. \A f : f \in TotalFrames(c) <=> \E t \in ToSet(c.totals) : t.val # -1 /\ t.frame = f
    BY <1>0, ItemsOf
  <2>3. \A f : f \in TotalFrames(c) <=> f \in TotalFrames(a) \/ (v # -1 /\ f = k)
    BY <1>2, <1>4, <2>1, <2>2
  <2> QED BY <2>3
<1>7. Cmd(k) \notin ItemCommands BY DEF ItemCommands, Items
<1>8. TrueItems(c) = TrueItems(a) BY <1>7, ItemsGrow
<1>9. /\ Cmd(k) \in {"total", "mtotal"} => TrueTotals(c) = TrueTotals(a) \cup {k}
      /\ Cmd(k) \notin {"total", "mtotal"} => TrueTotals(c) = TrueTotals(a)
  BY TotalsGrow
<1>10. Ascending(c.totals)
  <2>1. \A t \in ToSet(a.totals) : t.frame < r.frame BY <1>0, <1>2 DEF Ledger
  <2> QED BY <1>2, <1>3, <2>1, AscendingAppend DEF Ledger
<1>11. \A t \in ToSet(c.totals) : t.frame \in ToSet(c.frames) BY <1>0, <1>2, <1>4 DEF Ledger
<1>12. TookTotal(a, c, k) BY <1>1, <1>5, <1>6, <1>8, <1>9 DEF TookTotal
<1>13. TotalFrames(c) \subseteq TrueTotals(c) BY <1>1, <1>6, <1>9 DEF Ledger
<1>14. Ledger(c) BY <1>5, <1>8, <1>10, <1>11, <1>13 DEF Ledger
<1> QED BY <1>12, <1>14

LEMMA TakesNothing ==
  ASSUME NEW a, NEW c, NEW k \in Nat, Step(a, c, k), Ledger(a), c.items = a.items, c.totals = a.totals
  PROVE  TookNothing(a, c) /\ Ledger(c)
<1>0. ToSet(c.frames) = ToSet(a.frames) \cup {k} BY DEF Step
<1>1. ItemFrames(c) = ItemFrames(a) /\ TotalFrames(c) = TotalFrames(a) BY DEF ItemFrames, TotalFrames
<1>2. TrueItems(a) \subseteq TrueItems(c) BY ItemsGrow
<1>3. TrueTotals(a) \subseteq TrueTotals(c) BY TotalsGrow
<1> QED BY <1>0, <1>1, <1>2, <1>3 DEF Ledger, TookNothing

\* The fields left only get fewer.
LEMMA ShortfallLater ==
  ASSUME NEW b, NEW m \in Nat, NEW n \in Nat, n <= m, Shortfall(b, m) PROVE Shortfall(b, n)
<1>1. (m <= 4 => n <= 4) /\ (m <= 1 => n <= 1) /\ (m = 0 => n = 0) OBVIOUS
<1> QED BY <1>1 DEF Shortfall

LEMMA PoorLater ==
  ASSUME NEW b, NEW m \in Nat, NEW n \in Nat, n <= m, Poor(b, m) PROVE Poor(b, n)
<1>1. (m <= 4 => n <= 4) /\ (m <= 1 => n <= 1) /\ (m = 0 => n = 0) OBVIOUS
<1> QED BY <1>1 DEF Poor

\* A frame keeps the account of the builder it goes to.
LEMMA StepKeepsAccount ==
  ASSUME NEW a, NEW c, NEW k \in Nat, Step(a, c, k), Ledger(a), NEW m \in Nat, NEW n \in Nat,
         m = limit.fields - used, n = limit.fields - used', used \in Nat, used' \in Nat,
         limit.fields \in Nat, Shortfall(a, m)
  PROVE  Ledger(c) /\ Shortfall(c, n)
<1> DEFINE comm == a.kind = "commerciale"
           gest == a.kind = "gestionale"
<1>0. /\ c.kind = a.kind /\ ToSet(c.frames) = ToSet(a.frames) \cup {k} /\ Noted(a, c, k)
      /\ \A f \in ToSet(a.frames) : f \in Nat /\ f < k
      /\ Cmd(k) \in Items \cup {"total"} => comm
      /\ Cmd(k) \in Lines => gest
      /\ ~(comm /\ gest)
  BY DEF Step
<1>1. n <= m
  <2>1. used <= used' BY <1>0 DEF Noted
  <2> QED BY <2>1
<1>2. (m <= 4 => n <= 4) /\ (m <= 1 => n <= 1) /\ (m = 0 => n = 0) BY <1>1
<1>3. gest => \A f \in ToSet(c.frames) : Cmd(f) # "total" BY <1>0 DEF Shortfall
<1>4. (gest /\ c.seenTotal) => \E f \in ToSet(c.frames) : Cmd(f) \in Measured
  <2>1. c.seenTotal => a.seenTotal \/ Cmd(k) \in Measured BY <1>0 DEF Noted, Measured
  <2> QED BY <1>0, <2>1 DEF Shortfall, Measured
<1>5. CASE TookItem(a, c, k) /\ Ledger(c)
  <2>1. k \notin ItemFrames(a) /\ k \notin TrueItems(a) BY ItemsGrow DEF Ledger
  <2>2. ItemFrames(c) = TrueItems(c) <=> ItemFrames(a) = TrueItems(a)
    <3>1. ItemFrames(c) = ItemFrames(a) \cup {k} /\ TrueItems(c) = TrueItems(a) \cup {k}
      BY <1>5 DEF TookItem
    <3>2. ASSUME NEW X, NEW Y, k \notin X, k \notin Y, X \cup {k} = Y \cup {k} PROVE X = Y
      <4>1. X = (X \cup {k}) \ {k} /\ Y = (Y \cup {k}) \ {k} BY <3>2
      <4> QED BY <3>2, <4>1
    <3> QED BY <2>1, <3>1, <3>2
  <2>3. Lacking(c) => Lacking(a) BY <1>5, <2>2 DEF Lacking, TookItem
  <2>4. TotalFrames(c) = TotalFrames(a) /\ TrueTotals(c) = TrueTotals(a) BY <1>5 DEF TookItem
  <2> QED BY <1>0, <1>2, <1>3, <1>4, <1>5, <2>2, <2>3, <2>4 DEF Shortfall, Measured
<1>6. CASE TookTotal(a, c, k) /\ Ledger(c) /\ used + 3 <= used'
  <2>1. ItemFrames(c) = ItemFrames(a) /\ TrueItems(c) = TrueItems(a) BY <1>6 DEF TookTotal
  <2>2. m >= 3 /\ m # 0 /\ ~(m <= 1) BY <1>6
  <2>3. k \notin TotalFrames(a) /\ k \notin TrueTotals(a) BY ItemsGrow, TotalsGrow DEF Ledger
  <2>4. Lacking(c) => Lacking(a) BY <1>6, <2>1, <2>3 DEF Lacking, TookTotal
  <2>5. gest => ItemFrames(c) = TrueItems(c) BY <2>1, <2>2 DEF Shortfall
  <2>6. gest => \A f \in TrueTotals(a) : \E t \in TotalFrames(a) : t <= f BY <2>2 DEF Shortfall
  <2>7. k <= k OBVIOUS
  <2>8. gest => \A f \in TrueTotals(c) : \E t \in TotalFrames(c) : t <= f
    BY <1>6, <2>6, <2>7 DEF TookTotal
  <2> QED BY <1>0, <1>2, <1>3, <1>4, <1>6, <2>4, <2>5, <2>8 DEF Shortfall, Measured
<1>7. CASE /\ TookNothing(a, c) /\ Ledger(c)
           /\ Cmd(k) \in Items \cup {"total"} => limit.fields - used <= 4
           /\ Cmd(k) = "mitem" => a.seenTotal \/ limit.fields - used' <= 1
           /\ Cmd(k) = "mtotal" => used' = limit.fields
  <2>1. ItemFrames(c) = ItemFrames(a) /\ TotalFrames(c) = TotalFrames(a) BY <1>7 DEF TookNothing
  <2>2. Cmd(k) \notin ItemCommands => TrueItems(c) = TrueItems(a) BY ItemsGrow
  <2>3. Cmd(k) \notin {"total", "mtotal"} => TrueTotals(c) = TrueTotals(a) BY TotalsGrow
  <2>4. "mitem" \in Lines /\ "mtotal" \in Lines BY DEF Lines, Printed
  <2>5. (comm /\ Lacking(c)) => n <= 4
    <3> SUFFICES ASSUME comm, Lacking(c), ~Lacking(a) PROVE n <= 4 BY <1>2 DEF Shortfall
    <3>1. TrueItems(c) # TrueItems(a) \/ TrueTotals(c) # TrueTotals(a) BY <2>1 DEF Lacking
    <3>2. Cmd(k) \in ItemCommands \/ Cmd(k) \in {"total", "mtotal"} BY <2>2, <2>3, <3>1
    <3>3. Cmd(k) \in Items \cup {"total"} BY <1>0, <2>4, <3>2 DEF ItemCommands
    <3> QED BY <1>2, <1>7, <3>3
  <2>6. (gest /\ ItemFrames(c) # TrueItems(c)) => n <= 1 /\ TotalFrames(c) = {}
    <3> SUFFICES ASSUME gest, ItemFrames(c) # TrueItems(c), ItemFrames(a) = TrueItems(a)
                 PROVE  n <= 1 /\ TotalFrames(c) = {}
      BY <1>2, <2>1 DEF Shortfall
    <3>1. TrueItems(c) # TrueItems(a) BY <2>1
    <3>2. Cmd(k) \in ItemCommands /\ \A j \in ToSet(a.frames) : Cmd(j) \notin Measured
      BY <3>1, ItemsGrow
    <3>3. Cmd(k) = "mitem" BY <1>0, <3>2 DEF ItemCommands
    <3>4. ~a.seenTotal BY <3>2 DEF Shortfall, Measured
    <3>5. n <= 1 BY <1>7, <3>3, <3>4
    <3>6. TrueTotals(a) = {} BY <3>2 DEF TrueTotals, Shortfall, Measured
    <3> QED BY <2>1, <3>5, <3>6 DEF Ledger
  <2>7. gest => \/ \A f \in TrueTotals(c) : \E t \in TotalFrames(c) : t <= f
                \/ n = 0 /\ TotalFrames(c) = {}
    <3> SUFFICES ASSUME gest PROVE \/ \A f \in TrueTotals(c) : \E t \in TotalFrames(c) : t <= f
                                   \/ n = 0 /\ TotalFrames(c) = {}
      OBVIOUS
    <3>1. \/ \A f \in TrueTotals(a) : \E t \in TotalFrames(a) : t <= f
          \/ n = 0 /\ TotalFrames(a) = {}
      BY <1>2 DEF Shortfall
    <3>2. CASE Cmd(k) = "mtotal"
      <4>1. n = 0 /\ TrueTotals(c) = TrueTotals(a) \cup {k} BY <1>7, <3>2, TotalsGrow
      <4>2. CASE TotalFrames(a) = {} BY <2>1, <4>1, <4>2
      <4>3. CASE TotalFrames(a) # {}
        <5>1. PICK t : t \in TotalFrames(a) BY <4>3
        <5>2. t \in ToSet(a.frames) BY <5>1, TotalsGrow DEF Ledger
        <5>3. t \in Nat /\ t < k BY <1>0, <5>2
        <5>4. t <= k BY <5>3
        <5> QED BY <2>1, <3>1, <4>1, <4>3, <5>1, <5>4
      <4> QED BY <4>2, <4>3
    <3>3. CASE Cmd(k) # "mtotal"
      <4>1. Cmd(k) # "total" BY <1>0
      <4> QED BY <2>1, <2>3, <3>1, <3>3, <4>1
    <3> QED BY <3>2, <3>3
  <2> QED BY <1>0, <1>3, <1>4, <1>7, <2>5, <2>6, <2>7 DEF Shortfall, Measured
<1> QED
  <2>1. CASE /\ c.items = Append(a.items, [frame |-> k, val |-> Val(k)]) /\ c.totals = a.totals
             /\ Cmd(k) \in Items \cup {"mitem"}
    <3>1. Cmd(k) \in ItemCommands BY <2>1 DEF ItemCommands
    <3> QED BY <1>5, <2>1, <3>1, TakesItem
  <2>2. CASE /\ c.totals = Append(a.totals,
                   [frame |-> k, val |-> IF Cmd(k) = "mtotals" THEN -1 ELSE Val(k)])
             /\ c.items = a.items /\ used + 3 <= used' /\ Cmd(k) \in {"total", "mtotal", "mtotals"}
    BY <1>6, <2>2, TakesTotal
  <2>3. CASE /\ c.items = a.items /\ c.totals = a.totals
             /\ Cmd(k) \in Items \cup {"total"} => limit.fields - used <= 4
             /\ Cmd(k) = "mitem" => a.seenTotal \/ limit.fields - used' <= 1
             /\ Cmd(k) = "mtotal" => used' = limit.fields
    BY <1>7, <2>3, TakesNothing
  <2> QED BY <1>0, <2>1, <2>2, <2>3 DEF Noted

\* Four fields do not pay for an item and a total.
LEMMA StepKeepsPoor ==
  ASSUME NEW a, NEW c, NEW k \in Nat, Step(a, c, k), Ledger(a), NEW m \in Nat, NEW n \in Nat,
         m = limit.fields - used, n = limit.fields - used', used \in Nat, used' \in Nat,
         limit.fields \in Nat, Poor(a, m)
  PROVE  Poor(c, n)
<1>0. used <= used' /\ Noted(a, c, k) BY DEF Step, Noted
<1>1. n <= m /\ m <= 4 BY <1>0 DEF Poor
<1>2. (m <= 4 => n <= 4) /\ (m <= 1 => n <= 1) /\ (m = 0 => n = 0) BY <1>1
<1>3. CASE TookItem(a, c, k) /\ used + 4 <= used'
  <2>1. n = 0 /\ ~(m <= 1) BY <1>1, <1>3
  <2>2. TotalFrames(c) = {} BY <1>3, <2>1 DEF TookItem, Poor
  <2> QED BY <1>1, <1>2, <2>1, <2>2 DEF Poor
<1>4. CASE TookTotal(a, c, k) /\ used + 3 <= used'
  <2>1. n <= 1 /\ m # 0 BY <1>1, <1>4
  <2>2. c.items = <<>> BY <1>4, <2>1 DEF TookTotal, Poor
  <2> QED BY <1>1, <1>2, <2>1, <2>2 DEF Poor
<1>5. CASE TookNothing(a, c) BY <1>1, <1>2, <1>5 DEF TookNothing, Poor
<1> QED
  <2>1. CASE /\ c.items = Append(a.items, [frame |-> k, val |-> Val(k)]) /\ c.totals = a.totals
             /\ used + 4 <= used' /\ Cmd(k) \in Items \cup {"mitem"}
    <3>1. Cmd(k) \in ItemCommands BY <2>1 DEF ItemCommands
    <3> QED BY <1>3, <2>1, <3>1, TakesItem
  <2>2. CASE /\ c.totals = Append(a.totals,
                   [frame |-> k, val |-> IF Cmd(k) = "mtotals" THEN -1 ELSE Val(k)])
             /\ c.items = a.items /\ used + 3 <= used' /\ Cmd(k) \in {"total", "mtotal", "mtotals"}
    BY <1>4, <2>2, TakesTotal
  <2>3. CASE c.items = a.items /\ c.totals = a.totals BY <1>5, <2>3, TakesNothing
  <2> QED BY <1>0, <2>1, <2>2, <2>3 DEF Noted

\* A builder that has recorded nothing and missed nothing.
LEMMA EmptyAccount ==
  ASSUME NEW b, NEW m \in Nat, b.items = <<>>, b.totals = <<>>, b.seenTotal = FALSE,
         \A f \in ToSet(b.frames) : Cmd(f) \notin ItemCommands \cup {"total", "mtotal"}
  PROVE  Ledger(b) /\ Shortfall(b, m) /\ (m <= 4 => Poor(b, m))
<1>1. ToSet(b.items) = {} /\ ToSet(b.totals) = {} BY ToSetEmpty
<1>2. ItemFrames(b) = {} /\ TotalFrames(b) = {} BY <1>1 DEF ItemFrames, TotalFrames
<1>3. TrueItems(b) = {} BY DEF TrueItems, ItemCommands
<1>4. TrueTotals(b) = {} BY DEF TrueTotals
<1>5. Ascending(b.items) /\ Ascending(b.totals)
  <2>1. DOMAIN b.items = {} /\ DOMAIN b.totals = {} OBVIOUS
  <2> QED BY <2>1 DEF Ascending
<1>6. Ledger(b) BY <1>1, <1>2, <1>5 DEF Ledger
<1>7. ~Lacking(b) BY <1>2, <1>3, <1>4 DEF Lacking
<1>8. Shortfall(b, m) BY <1>2, <1>3, <1>4, <1>7 DEF Shortfall
<1>9. m <= 4 => Poor(b, m) BY <1>2 DEF Poor
<1> QED BY <1>6, <1>8, <1>9

\* The active builder as the next document.
Filed(e) ==
  /\ active # None /\ documents' = Append(documents, e)
  /\ e.kind = active.kind /\ e.copyOf = 0 /\ Ledger(e) /\ Shortfall(e, Left)
  /\ Poor(active, Left) => Poor(e, Left)

\* The builder after the turn: the active one with a frame, or a new one.
Onward(c) ==
  /\ c.copyOf = 0 /\ Ledger(c) /\ Shortfall(c, Left')
  /\ c.kind = "gestionale" =>
       \/ Is("gestionale") /\ documents' = documents /\ (Poor(active, Left) => Poor(c, Left'))
       \/ Left <= 4 => Poor(c, Left')

LEMMA Fields ==
  ASSUME Inv, limit' = limit, used <= used', used' <= limit.fields, used' \in Nat
  PROVE  Left \in Nat /\ Left' \in Nat /\ Left' <= Left
<1>1. limit.fields \in Nat /\ used \in Nat /\ used <= limit.fields BY Budget
<1>2. Left' = limit.fields - used' BY DEF Left
<1> QED BY <1>1, <1>2 DEF Left

LEMMA AccountsAreConstant ==
  ASSUME conv' = conv, request' = request
  PROVE  /\ \A d : Ledger(d)' <=> Ledger(d)
         /\ \A d, m : Shortfall(d, m)' <=> Shortfall(d, m)
         /\ \A d : Lacking(d)' <=> Lacking(d)
         /\ \A d, m : Poor(d, m)' <=> Poor(d, m)
<1>1. \A k : Cmd(k)' = Cmd(k) BY DEF Cmd
<1>2. \A d : TrueItems(d)' = TrueItems(d) /\ TrueTotals(d)' = TrueTotals(d)
  BY <1>1 DEF TrueItems, TrueTotals
<1>3. \A d : ItemFrames(d)' = ItemFrames(d) /\ TotalFrames(d)' = TotalFrames(d)
  BY DEF ItemFrames, TotalFrames
<1>4. \A d : Lacking(d)' <=> Lacking(d) BY <1>2, <1>3 DEF Lacking
<1>5. \A d : Ledger(d)' <=> Ledger(d) BY <1>2, <1>3 DEF Ledger, Ascending
<1>6. \A d, m : Shortfall(d, m)' <=> Shortfall(d, m) BY <1>1, <1>2, <1>3, <1>4 DEF Shortfall
<1>7. \A d, m : Poor(d, m)' <=> Poor(d, m) BY <1>3 DEF Poor
<1> QED BY <1>4, <1>5, <1>6, <1>7

LEMMA CopyTurn ==
  ASSUME Inv, CopyInv, phase = "assemble", limit' = limit, conv' = conv, request' = request,
         used <= used', used' <= limit.fields, used' \in Nat,
         documents' = documents \/ \E e : Filed(e),
         active' = None \/ Onward(active'), pending' # 0 => Cmd(pending') = "query"
  PROVE  CopyInv'
<1>1. Left \in Nat /\ Left' \in Nat /\ Left' <= Left BY Fields
<1>2. documents \in Seq(Builder) BY DEF Inv, TypeOK
<1>3. DOMAIN documents = 1..Len(documents) /\ Len(documents) \in Nat BY <1>2
<1>4. ASSUME NEW i \in DOMAIN documents'
      PROVE  \/ i \in DOMAIN documents /\ documents'[i] = documents[i]
             \/ i = Len(documents) + 1 /\ Filed(documents'[i])
  <2>1. CASE documents' = documents BY <1>4, <2>1
  <2>2. ASSUME NEW e, Filed(e)
        PROVE  \/ i \in DOMAIN documents /\ documents'[i] = documents[i]
               \/ i = Len(documents) + 1 /\ Filed(documents'[i])
    <3>1. documents' = Append(documents, e) BY <2>2 DEF Filed
    <3>2. i \in 1..Len(documents) \/ i = Len(documents) + 1 BY <1>2, <1>4, <3>1
    <3>3. CASE i \in 1..Len(documents)
      <4>1. documents'[i] = documents[i] BY <1>2, <3>1, <3>3
      <4> QED BY <1>3, <3>3, <4>1
    <3>4. CASE i = Len(documents) + 1
      <4>1. documents'[i] = e BY <1>2, <3>1, <3>4
      <4> QED BY <2>2, <3>4, <4>1
    <3> QED BY <3>2, <3>3, <3>4
  <2> QED BY <2>1, <2>2
<1>5. \A i \in DOMAIN documents :
        /\ documents[i].copyOf = 0 /\ Ledger(documents[i]) /\ Shortfall(documents[i], Left)
        /\ (documents[i].kind = "commerciale" /\ Lacking(documents[i])) =>
             /\ Is("gestionale") => Poor(active, Left)
             /\ \A l \in DOMAIN documents :
                  (l > i /\ documents[l].kind = "gestionale") => Poor(documents[l], Left)
  BY DEF CopyInv
<1>6. \A i \in DOMAIN documents' :
        documents'[i].copyOf = 0 /\ Ledger(documents'[i]) /\ Shortfall(documents'[i], Left)
  BY <1>4, <1>5 DEF Filed
<1>7. \A i \in DOMAIN documents' : Shortfall(documents'[i], Left') BY <1>1, <1>6, ShortfallLater
<1>8. ASSUME NEW j \in DOMAIN documents', documents'[j].kind = "commerciale", Lacking(documents'[j]),
             active' # None, active'.kind = "gestionale"
      PROVE  Poor(active', Left')
  <2>1. Left <= 4 BY <1>6, <1>8 DEF Shortfall
  <2>2. Onward(active') BY <1>8
  <2>3. \/ Is("gestionale") /\ documents' = documents /\ (Poor(active, Left) => Poor(active', Left'))
        \/ Left <= 4 => Poor(active', Left')
    BY <1>8, <2>2 DEF Onward
  <2>4. CASE Is("gestionale") /\ documents' = documents /\ (Poor(active, Left) => Poor(active', Left'))
    <3>1. j \in DOMAIN documents /\ documents'[j] = documents[j] BY <1>8, <2>4
    <3>2. Poor(active, Left) BY <1>5, <1>8, <2>4, <3>1
    <3> QED BY <2>4, <3>2
  <2> QED BY <2>1, <2>3, <2>4
<1>9. ASSUME NEW j \in DOMAIN documents', documents'[j].kind = "commerciale", Lacking(documents'[j]),
             NEW i \in DOMAIN documents', i > j, documents'[i].kind = "gestionale"
      PROVE  Poor(documents'[i], Left')
  <2>1. Poor(documents'[i], Left)
    <3>1. j \in DOMAIN documents /\ documents'[j] = documents[j]
      <4> SUFFICES ASSUME j = Len(documents) + 1 PROVE FALSE BY <1>4, <1>9
      <4>1. i \in 1..(Len(documents) + 1) BY <1>3, <1>4, <1>9
      <4> QED BY <1>3, <1>9, <4>1
    <3>2. CASE i \in DOMAIN documents /\ documents'[i] = documents[i] BY <1>5, <1>9, <3>1, <3>2
    <3>3. CASE Filed(documents'[i])
      <4>1. Is("gestionale") /\ (Poor(active, Left) => Poor(documents'[i], Left))
        BY <1>9, <3>3 DEF Filed, Is
      <4> QED BY <1>5, <1>9, <3>1, <4>1
    <3> QED BY <1>4, <1>9, <3>2, <3>3
  <2> QED BY <1>1, <2>1, PoorLater
<1>10. active' # None => active'.copyOf = 0 /\ Ledger(active') /\ Shortfall(active', Left') BY DEF Onward
<1>11. /\ \A d : Ledger(d)' <=> Ledger(d)
       /\ \A d, m : Shortfall(d, m)' <=> Shortfall(d, m)
       /\ \A d : Lacking(d)' <=> Lacking(d)
       /\ \A d, m : Poor(d, m)' <=> Poor(d, m)
  BY AccountsAreConstant
<1>12. CopiesAreReal' BY <1>6 DEF CopiesAreReal
<1>13. (active # None => active.copyOf = 0 /\ Ledger(active) /\ Shortfall(active, Left))'
  BY <1>10, <1>11
<1>14. (\A j \in DOMAIN documents :
         /\ phase \in {"assemble", "correlate", "attach"} => documents[j].copyOf = 0
         /\ Ledger(documents[j]) /\ Shortfall(documents[j], Left))'
  BY <1>6, <1>7, <1>11
<1>15. (\A j \in DOMAIN documents : (documents[j].kind = "commerciale" /\ Lacking(documents[j])) =>
         /\ Is("gestionale") => Poor(active, Left)
         /\ \A i \in DOMAIN documents :
              (i > j /\ documents[i].kind = "gestionale") => Poor(documents[i], Left))'
  BY <1>8, <1>9, <1>11 DEF Is
<1>16. (pending # 0 => Cmd(pending) = "query")' BY DEF Cmd
<1> QED BY <1>12, <1>13, <1>14, <1>15, <1>16 DEF CopyInv

\* The active builder with one more frame: its predecessor keeps the account.
LEMMA StepOnward ==
  ASSUME Inv, limit' = limit, used' \in Nat, used' <= limit.fields, NEW a, NEW c, NEW k \in Nat,
         Step(a, c, k), c.copyOf = 0, Ledger(a), Shortfall(a, Left)
  PROVE  /\ Ledger(c) /\ Shortfall(c, Left') /\ (Poor(a, Left) => Poor(c, Left'))
         /\ used <= used'
<1>1. limit.fields \in Nat /\ used \in Nat /\ used <= limit.fields BY Budget
<1>2. used <= used' BY DEF Step, Noted
<1>3. Left \in Nat /\ Left' \in Nat BY <1>2, Fields
<1>4. Left = limit.fields - used /\ Left' = limit.fields - used' BY DEF Left
<1>5. Ledger(c) /\ Shortfall(c, Left') BY <1>1, <1>3, <1>4, StepKeepsAccount
<1>6. Poor(a, Left) => Poor(c, Left') BY <1>1, <1>3, <1>4, StepKeepsPoor
<1> QED BY <1>2, <1>5, <1>6

\* A command that records nothing.
LEMMA QuietStep ==
  ASSUME Inv, active # None, NEW c \in Builder, NEW k \in Nat, k = next + 1, c.kind = active.kind,
         ToSet(c.frames) = ToSet(active.frames) \cup {k}, c.items = active.items,
         c.totals = active.totals, c.seenTotal = active.seenTotal, used <= used', Val(k) \in Nat,
         Cmd(k) \notin Items \cup Lines \cup {"total"}
  PROVE  Step(active, c, k)
<1>1. active \in Builder /\ next \in Nat BY DEF Inv, TypeOK
<1>2. Faithful(active) BY DEF Inv, FieldInv, Tallied
<1>3. \A f \in ToSet(active.frames) : f \in Nat /\ f < k
  <2>1. Frames(active) = ToSet(active.frames) BY <1>1, FramesOfBuilder
  <2>2. Frames(active) \subseteq 1..next BY DEF Inv, FrameInv
  <2>3. \A f \in 1..next : f \in Nat /\ f < k BY <1>1
  <2> QED BY <2>1, <2>2, <2>3
<1>4. Cmd(k) \notin {"mitem", "mtotal", "mtotals"} BY DEF Lines, Printed
<1>5. Faithful(c) BY <1>2, <1>4 DEF Faithful
<1>6. Noted(active, c, k) BY <1>4 DEF Noted
<1> QED BY <1>1, <1>3, <1>5, <1>6 DEF Step

LEMMA SameAccount ==
  ASSUME NEW a, NEW e, e.kind = a.kind, e.frames = a.frames, e.items = a.items, e.totals = a.totals,
         e.seenTotal = a.seenTotal, NEW m
  PROVE  /\ Ledger(a) => Ledger(e)
         /\ Shortfall(a, m) => Shortfall(e, m)
         /\ Poor(a, m) => Poor(e, m)
         /\ Lacking(e) <=> Lacking(a)
<1>1. TrueItems(e) = TrueItems(a) /\ TrueTotals(e) = TrueTotals(a) BY DEF TrueItems, TrueTotals
<1>2. ItemFrames(e) = ItemFrames(a) /\ TotalFrames(e) = TotalFrames(a) BY DEF ItemFrames, TotalFrames
<1>3. Lacking(e) <=> Lacking(a) BY <1>1, <1>2 DEF Lacking
<1>4. Ledger(a) => Ledger(e) BY <1>1, <1>2 DEF Ledger
<1>5. Shortfall(a, m) => Shortfall(e, m) BY <1>1, <1>2, <1>3 DEF Shortfall
<1>6. Poor(a, m) => Poor(e, m) BY <1>2 DEF Poor
<1> QED BY <1>3, <1>4, <1>5, <1>6

LEMMA ActiveFiled ==
  ASSUME Inv, CopyInv, FinishActive PROVE documents' = documents \/ \E e : Filed(e)
<1> SUFFICES ASSUME documents' # documents PROVE \E e : Filed(e) OBVIOUS
<1> DEFINE e == Closing(active, FALSE)
<1>1. active # None /\ Finish(active, FALSE) BY DEF FinishActive, Keep
<1>2. documents' = Append(documents, e) BY <1>1 DEF Finish
<1>3. active \in Builder BY <1>1 DEF Inv, TypeOK
<1>4. e.frames = active.frames /\ Alike(active, e) BY <1>3, ClosingBuilder
<1> HIDE DEF e
<1>5. active.copyOf = 0 /\ Ledger(active) /\ Shortfall(active, Left) BY <1>1 DEF CopyInv
<1>6. e.kind = active.kind /\ e.copyOf = 0 BY <1>4, <1>5 DEF Alike
<1>7. Ledger(e) /\ Shortfall(e, Left) /\ (Poor(active, Left) => Poor(e, Left))
  BY <1>4, <1>5, SameAccount DEF Alike
<1> QED BY <1>1, <1>2, <1>6, <1>7 DEF Filed

LEMMA ClosedFiled ==
  ASSUME Inv, CopyInv, NEW k \in Nat, k = next + 1, active # None, Val(k) \in Nat,
         Cmd(k) \in {"close", "=o"}, used' = used, limit' = limit, Finish(AddFrame(active, k), TRUE)
  PROVE  documents' = documents \/ \E e : Filed(e)
<1> SUFFICES ASSUME documents' # documents PROVE \E e : Filed(e) OBVIOUS
<1> DEFINE b == AddFrame(active, k)
           e == Closing(b, TRUE)
<1>1. documents' = Append(documents, e) BY DEF Finish
<1>2. active \in Builder /\ active.frames # <<>> BY DEF Inv, TypeOK, FrameInv
<1>3. b \in Builder /\ ToSet(b.frames) = ToSet(active.frames) \cup {k} /\ Alike(active, b)
  BY <1>2, AddFrameBuilder
<1> HIDE DEF b
<1>4. e \in Builder /\ e.frames = b.frames /\ Alike(b, e) BY <1>3, ClosingBuilder
<1> HIDE DEF e
<1>5. active.copyOf = 0 /\ Ledger(active) /\ Shortfall(active, Left) BY DEF CopyInv
<1>6. /\ e.kind = active.kind /\ e.copyOf = 0 /\ e.items = active.items /\ e.totals = active.totals
      /\ e.seenTotal = active.seenTotal /\ ToSet(e.frames) = ToSet(active.frames) \cup {k}
  BY <1>3, <1>4, <1>5 DEF Alike
<1>7. Cmd(k) \notin Items \cup Lines \cup {"total"} BY DEF Items, Lines, Plain, Printed
<1>8. used' \in Nat /\ used' <= limit.fields /\ used <= used'
  <2>1. used \in Nat /\ used <= limit.fields BY Budget
  <2> QED BY <2>1
<1>9. Step(active, e, k) BY <1>4, <1>6, <1>7, <1>8, QuietStep
<1>10. Ledger(e) /\ Shortfall(e, Left') /\ (Poor(active, Left) => Poor(e, Left'))
  BY <1>5, <1>6, <1>8, <1>9, StepOnward
<1>11. Left' = Left BY DEF Left
<1> QED BY <1>1, <1>6, <1>10, <1>11 DEF Filed

\* The active builder with a frame that records nothing.
LEMMA GrownCopies ==
  ASSUME Inv, Inv', CopyInv, NEW k \in 1..Len(request), Consume(k), Grown(k), documents' = documents,
         pending' = pending, Cmd(k) \notin Items \cup Lines \cup {"total"}
  PROVE  CopyInv'
<1>1. /\ k \in Nat /\ k = next + 1 /\ Val(k) \in Nat /\ phase = "assemble"
      /\ conv' = conv /\ request' = request /\ limit' = limit
  BY TurnFacts DEF inputs
<1>2. /\ active # None /\ active' \in Builder /\ active'.kind = active.kind
      /\ Frames(active') = Frames(active) \cup {k}
      /\ active'.items = active.items /\ active'.totals = active.totals
      /\ active'.seenTotal = active.seenTotal /\ active'.copyOf = active.copyOf
      /\ used <= used' /\ used' <= limit.fields
  BY DEF Grown
<1>3. active \in Builder BY <1>2 DEF Inv, TypeOK
<1>4. ToSet(active'.frames) = ToSet(active.frames) \cup {k} BY <1>2, <1>3, FramesOfBuilder
<1>5. Step(active, active', k) BY <1>1, <1>2, <1>4, QuietStep
<1>6. active.copyOf = 0 /\ Ledger(active) /\ Shortfall(active, Left) BY <1>2 DEF CopyInv
<1>7. used' \in Nat
  <2>1. used' \in 0..limit.fields /\ limit.fields \in Nat BY <1>1, Budget DEF Inv, TypeOK
  <2> QED BY <2>1
<1>8. Ledger(active') /\ Shortfall(active', Left') /\ (Poor(active, Left) => Poor(active', Left'))
  BY <1>1, <1>2, <1>5, <1>6, <1>7, StepOnward
<1>9. Onward(active') BY <1>2, <1>6, <1>8 DEF Onward, Is
<1>10. pending' # 0 => Cmd(pending') = "query" BY DEF CopyInv
<1> QED BY <1>1, <1>2, <1>7, <1>9, <1>10, CopyTurn

\* A command that goes to a builder of its kind.
LEMMA TargetCopies ==
  ASSUME Inv, CopyInv, NEW k \in 1..Len(request), Consume(k), NEW kind \in {"commerciale", "gestionale"},
         NEW notes \in Seq(Codes), SwitchTo(kind), Written(Target(kind, k, notes), k),
         pending' = pending, Cmd(k) \in Items \cup {"total"} => kind = "commerciale",
         Cmd(k) \in Lines => kind = "gestionale"
  PROVE  CopyInv'
<1> DEFINE b == Target(kind, k, notes)
           w == New(kind, k, notes)
           none == <<>>
           a == IF Is(kind) THEN active ELSE [w EXCEPT !.frames = none]
<1>1. /\ k \in Nat /\ k = next + 1 /\ Val(k) \in Nat /\ phase = "assemble"
      /\ conv' = conv /\ request' = request /\ limit' = limit
  BY TurnFacts DEF inputs
<1>2. b \in Builder /\ b.kind = kind /\ Frames(b) = (IF Is(kind) THEN Frames(active) ELSE {}) \cup {k}
  BY <1>1, TargetReady DEF Ready
<1>3. /\ Base(b, active') /\ Tallied(active', used', k) /\ Noted(b, active', k)
      /\ used' \in 0..limit.fields
  BY DEF Written
<1>4. used' \in Nat /\ used' <= limit.fields
  <2>1. limit.fields \in Nat BY Budget
  <2> QED BY <1>3, <2>1
<1>5. /\ a \in Builder /\ a.kind = kind /\ a.items = b.items /\ a.totals = b.totals
      /\ a.seenTotal = b.seenTotal /\ a.copyOf = b.copyOf /\ a.copyOf = 0
      /\ ToSet(a.frames) = (IF Is(kind) THEN Frames(active) ELSE {})
      /\ Ledger(a) /\ Shortfall(a, Left) /\ (Is(kind) => a = active)
      /\ ~Is(kind) => (Left <= 4 => Poor(a, Left))
  <2>1. CASE Is(kind)
    <3>1. a = active /\ active # None /\ active.kind = kind BY <2>1 DEF Is
    <3>2. active \in Builder /\ active.frames # <<>> BY <3>1 DEF Inv, TypeOK, FrameInv
    <3>3. b = AddFrame(active, k) BY <2>1 DEF Target
    <3>4. Alike(active, b) BY <1>1, <3>2, <3>3, AddFrameBuilder
    <3>5. active.copyOf = 0 /\ Ledger(active) /\ Shortfall(active, Left) BY <3>1 DEF CopyInv
    <3>6. ToSet(active.frames) = Frames(active) BY <3>2, FramesOfBuilder
    <3> HIDE DEF a, b
    <3> QED BY <2>1, <3>1, <3>2, <3>4, <3>5, <3>6 DEF Alike
  <2>2. CASE ~Is(kind)
    <3> DEFINE x == [w EXCEPT !.frames = none]
    <3>1. a = x /\ none \in Seq(Nat) BY <2>2
    <3>2. /\ w \in Builder /\ w.kind = kind /\ w.frames = <<k>> /\ w.items = <<>> /\ w.totals = <<>>
          /\ w.copyOf = 0 /\ w.seenTotal = FALSE
      BY <1>1, NewBuilder
    <3>3. b = AddFrame(w, k) BY <2>2 DEF Target
    <3> HIDE DEF w, a, b, none
    <3>4. w.frames # <<>> BY <3>2, ToSetOne
    <3>5. Alike(w, b) BY <1>1, <3>2, <3>3, <3>4, AddFrameBuilder
    <3>6. /\ x \in Builder /\ x.kind = w.kind /\ x.items = w.items /\ x.totals = w.totals
          /\ x.copyOf = w.copyOf /\ x.seenTotal = w.seenTotal /\ x.frames = none
      BY <3>1, <3>2 DEF Builder
    <3> HIDE DEF x
    <3>7. ToSet(x.frames) = {} BY <3>6, ToSetEmpty DEF none
    <3>8. Left \in Nat
      <4>1. limit.fields \in Nat /\ used \in Nat /\ used <= limit.fields BY Budget
      <4> QED BY <4>1 DEF Left
    <3>9. Ledger(x) /\ Shortfall(x, Left) /\ (Left <= 4 => Poor(x, Left))
      BY <3>2, <3>6, <3>7, <3>8, EmptyAccount
    <3> QED BY <2>2, <3>1, <3>2, <3>5, <3>6, <3>7, <3>9 DEF Alike
  <2> QED BY <2>1, <2>2
<1> HIDE DEF a, b, w, none
<1>6. /\ active' \in Builder /\ active'.kind = kind /\ active'.copyOf = 0
      /\ ToSet(active'.frames) = ToSet(a.frames) \cup {k}
  <2>1. active' \in Builder /\ active'.frames = b.frames /\ active'.kind = b.kind
        /\ active'.copyOf = b.copyOf
    BY <1>3 DEF Base
  <2>2. ToSet(b.frames) = Frames(b) BY <1>2, FramesOfBuilder
  <2> QED BY <1>2, <1>5, <2>1, <2>2
<1>7. Step(a, active', k)
  <2>1. \A f \in ToSet(a.frames) : f \in Nat /\ f < k
    <3>1. Frames(active) \subseteq 1..next /\ next \in Nat BY DEF Inv, TypeOK, FrameInv
    <3>2. \A f \in 1..next : f \in Nat /\ f < k BY <1>1, <3>1
    <3> QED BY <1>5, <3>1, <3>2
  <2>2. Noted(a, active', k) BY <1>3, <1>5 DEF Noted
  <2>3. Faithful(active') BY <1>3 DEF Tallied
  <2> QED BY <1>1, <1>5, <1>6, <2>1, <2>2, <2>3 DEF Step
<1>8. /\ Ledger(active') /\ Shortfall(active', Left') /\ (Poor(a, Left) => Poor(active', Left'))
      /\ used <= used'
  BY <1>1, <1>4, <1>5, <1>6, <1>7, StepOnward
<1>9. Onward(active')
  <2>1. CASE Is(kind)
    <3>1. documents' = documents /\ a = active BY <1>5, <2>1 DEF SwitchTo, Keep
    <3> QED BY <1>6, <1>8, <2>1, <3>1 DEF Onward
  <2>2. CASE ~Is(kind) BY <1>5, <1>6, <1>8, <2>2 DEF Onward
  <2> QED BY <2>1, <2>2
<1>10. documents' = documents \/ \E e : Filed(e)
  <2>1. CASE Is(kind) BY <2>1 DEF SwitchTo, Keep
  <2>2. CASE ~Is(kind) BY <2>2, ActiveFiled DEF SwitchTo
  <2> QED BY <2>1, <2>2
<1>11. pending' # 0 => Cmd(pending') = "query" BY DEF CopyInv
<1> QED BY <1>1, <1>4, <1>8, <1>9, <1>10, <1>11, CopyTurn

-----------------------------------------------------------------------------
(* Every action keeps the account of the fields *)

LEMMA LoopCopies ==
  ASSUME Inv, Inv', CopyInv, NEW k \in 1..Len(request),
         \/ Skip(k) \/ Control(k) \/ CommercialStart(k) \/ ManagementBoundary(k)
         \/ ManagementLine(k) \/ CommercialItem(k) \/ CommercialText(k) \/ CommercialTotal(k)
         \/ OtherCommand(k)
  PROVE  CopyInv'
<1>0. Consume(k)
  BY DEF Skip, Control, CommercialStart, ManagementBoundary, ManagementLine, CommercialItem,
         CommercialText, CommercialTotal, OtherCommand, Accept
<1>1. /\ k \in Nat /\ k = next + 1 /\ Val(k) \in Nat /\ phase = "assemble"
      /\ conv' = conv /\ request' = request /\ limit' = limit
  BY <1>0, TurnFacts DEF inputs
<1>2. limit.fields \in Nat /\ used \in Nat /\ used <= limit.fields /\ used <= used BY Budget
<1>3. Left \in Nat BY <1>2 DEF Left
<1>4. pending # 0 => Cmd(pending) = "query" BY DEF CopyInv
\* The builder is left as it is.
<1>5. ASSUME active' = active, documents' = documents, used' = used,
             pending' # 0 => Cmd(pending') = "query"
      PROVE  CopyInv'
  <2>1. Left' = Left BY <1>1, <1>5 DEF Left
  <2>2. active' = None \/ Onward(active') BY <1>5, <2>1 DEF CopyInv, Onward, Is
  <2> QED BY <1>1, <1>2, <1>5, <2>2, CopyTurn
<1>6. CASE Skip(k) BY <1>4, <1>5, <1>6 DEF Skip, Keep, budget
<1>7. CASE Control(k)
  <2>1. Cmd(k) \in Controls /\ used' = used BY <1>7 DEF Control, Accept, budget
  <2>2. CASE Is("commerciale") /\ Cmd(k) = "close"
    <3>1. active # None /\ Finish(AddFrame(active, k), TRUE) /\ active' = None /\ pending' = pending
      BY <1>7, <2>2 DEF Control, Is
    <3>2. documents' = documents \/ \E e : Filed(e) BY <1>1, <2>1, <2>2, <3>1, ClosedFiled
    <3> QED BY <1>1, <1>2, <1>4, <2>1, <3>1, <3>2, CopyTurn
  <2>3. CASE Is("commerciale") /\ Cmd(k) # "close"
    <3>1. Grown(k) BY <1>7, <2>3, ControlGrows
    <3>2. documents' = documents /\ pending' = pending BY <1>7, <2>3 DEF Control, Keep
    <3>3. Cmd(k) \notin Items \cup Lines \cup {"total"}
      BY <2>1 DEF Controls, Items, Lines, Plain, Printed
    <3> QED BY <1>0, <3>1, <3>2, <3>3, GrownCopies
  <2>4. CASE ~Is("commerciale")
    <3>1. active' = active /\ documents' = documents /\ pending' = IF Cmd(k) = "query" THEN k ELSE 0
      BY <1>7, <2>4 DEF Control, Keep
    <3> QED BY <1>5, <2>1, <3>1
  <2> QED BY <2>2, <2>3, <2>4
<1>8. CASE CommercialStart(k)
  <2> DEFINE j == IF pending # 0 THEN pending ELSE k
             notes == <<>>
             w == New("commerciale", j, notes)
             b == AddFrame(w, k)
  <2>1. Cmd(k) = "=K" /\ FinishActive /\ active' = b /\ pending' = 0 /\ used' = used
    BY <1>8 DEF CommercialStart, Accept, budget
  <2>2. j \in Nat /\ notes \in Seq(Codes)
    <3>1. pending \in Nat BY DEF Inv, TypeOK
    <3> QED BY <1>1, <3>1
  <2>3. Cmd(j) \in {"=K", "query"} BY <1>4, <2>1
  <2> HIDE DEF j, notes
  <2>4. /\ w \in Builder /\ w.kind = "commerciale" /\ w.frames = <<j>> /\ w.items = <<>>
        /\ w.totals = <<>> /\ w.copyOf = 0 /\ w.seenTotal = FALSE
    BY <2>2, NewBuilder
  <2> HIDE DEF w
  <2>5. w.frames # <<>> /\ ToSet(w.frames) = {j} BY <2>4, ToSetOne
  <2>6. ToSet(b.frames) = ToSet(w.frames) \cup {k} /\ Alike(w, b) BY <1>1, <2>4, <2>5, AddFrameBuilder
  <2> HIDE DEF b
  <2>7. \A f \in ToSet(b.frames) : Cmd(f) \in {"=K", "query"} BY <2>1, <2>3, <2>5, <2>6
  <2>8. \A f \in ToSet(b.frames) : Cmd(f) \notin ItemCommands \cup {"total", "mtotal"}
    BY <2>7 DEF ItemCommands, Items
  <2>9. /\ b.kind = "commerciale" /\ b.items = <<>> /\ b.totals = <<>> /\ b.copyOf = 0
        /\ b.seenTotal = FALSE
    BY <2>4, <2>6 DEF Alike
  <2>10. Ledger(b) /\ Shortfall(b, Left) BY <1>3, <2>8, <2>9, EmptyAccount
  <2>11. Left' = Left BY <1>1, <2>1 DEF Left
  <2>12. Onward(active') BY <2>1, <2>9, <2>10, <2>11 DEF Onward
  <2>13. documents' = documents \/ \E e : Filed(e) BY <2>1, ActiveFiled
  <2> QED BY <1>1, <1>2, <2>1, <2>12, <2>13, CopyTurn
<1>9. CASE ManagementBoundary(k)
  <2>1. Cmd(k) = "=o" /\ pending' = 0 /\ used' = used BY <1>9 DEF ManagementBoundary, Accept, budget
  <2>2. CASE Is("gestionale")
    <3>1. active # None /\ Finish(AddFrame(active, k), TRUE) /\ active' = None
      BY <1>9, <2>2 DEF ManagementBoundary, Is
    <3>2. documents' = documents \/ \E e : Filed(e) BY <1>1, <2>1, <3>1, ClosedFiled
    <3> QED BY <1>1, <1>2, <2>1, <3>1, <3>2, CopyTurn
  <2>3. CASE ~Is("gestionale")
    <3> DEFINE notes == <<>>
               w == New("gestionale", k, notes)
    <3>1. FinishActive /\ active' = w BY <1>9, <2>3 DEF ManagementBoundary
    <3>2. notes \in Seq(Codes) OBVIOUS
    <3> HIDE DEF notes
    <3>3. /\ w.kind = "gestionale" /\ w.frames = <<k>> /\ w.items = <<>>
          /\ w.totals = <<>> /\ w.copyOf = 0 /\ w.seenTotal = FALSE
      BY <1>1, <3>2, NewBuilder
    <3> HIDE DEF w
    <3>4. \A f \in ToSet(w.frames) : Cmd(f) = "=o" BY <2>1, <3>3, ToSetOne
    <3>5. \A f \in ToSet(w.frames) : Cmd(f) \notin ItemCommands \cup {"total", "mtotal"}
      BY <3>4 DEF ItemCommands, Items
    <3>6. Ledger(w) /\ Shortfall(w, Left) /\ (Left <= 4 => Poor(w, Left))
      BY <1>3, <3>3, <3>5, EmptyAccount
    <3>7. Left' = Left BY <1>1, <2>1 DEF Left
    <3>8. Onward(active') BY <3>1, <3>3, <3>6, <3>7 DEF Onward
    <3>9. documents' = documents \/ \E e : Filed(e) BY <3>1, ActiveFiled
    <3> QED BY <1>1, <1>2, <2>1, <3>8, <3>9, CopyTurn
  <2> QED BY <2>2, <2>3
<1>10. CASE ManagementLine(k)
  <2> DEFINE notes == IF active = None THEN <<"missing_open_boundary">> ELSE <<>>
             b == Target("gestionale", k, notes)
  <2>1. Cmd(k) \in Lines /\ SwitchTo("gestionale") /\ pending' = pending
    BY <1>10 DEF ManagementLine, Accept
  <2>2. notes \in Seq(Codes) /\ Written(b, k) BY <1>10, LineIsWritten
  <2>3. Cmd(k) \notin Items \cup {"total"} BY <2>1 DEF Lines, Plain, Printed, Items
  <2> HIDE DEF notes
  <2> QED BY <1>0, <2>1, <2>2, <2>3, TargetCopies
<1>11. CASE CommercialItem(k)
  <2> DEFINE notes == <<"missing_commercial_start">>
             b == Target("commerciale", k, notes)
  <2>1. Cmd(k) \in Items /\ SwitchTo("commerciale") /\ pending' = pending
    BY <1>11 DEF CommercialItem, Accept
  <2>2. notes \in Seq(Codes) /\ Written(b, k) BY <1>11, ItemIsWritten
  <2>3. Cmd(k) \notin Lines BY <2>1 DEF Lines, Plain, Printed, Items
  <2> HIDE DEF notes
  <2> QED BY <1>0, <2>1, <2>2, <2>3, TargetCopies
<1>12. CASE CommercialTotal(k)
  <2> DEFINE notes == <<"missing_commercial_start">>
             b == Target("commerciale", k, notes)
  <2>1. Cmd(k) = "total" /\ SwitchTo("commerciale") /\ pending' = pending
    BY <1>12 DEF CommercialTotal, Accept
  <2>2. notes \in Seq(Codes) /\ Written(b, k) BY <1>12, TotalIsWritten
  <2>3. Cmd(k) \notin Lines BY <2>1 DEF Lines, Plain, Printed
  <2> HIDE DEF notes
  <2> QED BY <1>0, <2>1, <2>2, <2>3, TargetCopies
<1>13. CASE CommercialText(k)
  <2>1. Cmd(k) = "text" /\ documents' = documents /\ pending' = pending
    BY <1>13 DEF CommercialText, Accept, Keep
  <2>2. Grown(k) BY <1>13, TextGrows
  <2>3. Cmd(k) \notin Items \cup Lines \cup {"total"} BY <2>1 DEF Lines, Plain, Printed, Items
  <2> QED BY <1>0, <2>1, <2>2, <2>3, GrownCopies
<1>14. CASE OtherCommand(k)
  <2>1. /\ Cmd(k) \in {"text", "display", "unknown"} /\ documents' = documents /\ pending' = pending
        /\ used' = used
    BY <1>14 DEF OtherCommand, Accept, Keep, budget
  <2>2. Cmd(k) \notin Items \cup Lines \cup {"total"} BY <2>1 DEF Lines, Plain, Printed, Items
  <2>3. CASE Grown(k) BY <1>0, <2>1, <2>2, <2>3, GrownCopies
  <2>4. CASE active' = active BY <1>4, <1>5, <2>1, <2>4
  <2> QED BY <1>14, <2>3, <2>4, OtherGrows
<1> QED BY <1>6, <1>7, <1>8, <1>9, <1>10, <1>11, <1>12, <1>13, <1>14

LEMMA EndOfFramesCopies == ASSUME Inv, CopyInv, EndOfFrames PROVE CopyInv'
<1>1. /\ phase = "assemble" /\ FinishActive /\ active' = None /\ pending' = pending
      /\ conv' = conv /\ request' = request /\ limit' = limit /\ used' = used
  BY DEF EndOfFrames, inputs, budget
<1>2. used \in Nat /\ used <= limit.fields /\ used <= used BY Budget
<1>3. documents' = documents \/ \E e : Filed(e) BY <1>1, ActiveFiled
<1>4. pending' # 0 => Cmd(pending') = "query" BY <1>1 DEF CopyInv
<1> QED BY <1>1, <1>2, <1>3, <1>4, CopyTurn

LEMMA InitCopies == Init => CopyInv
<1> SUFFICES ASSUME Init PROVE CopyInv OBVIOUS
<1>1. active = None /\ pending = 0 /\ documents = <<>> BY DEF Init
<1>2. DOMAIN documents = {} BY <1>1
<1> QED BY <1>1, <1>2 DEF CopyInv, CopiesAreReal

-----------------------------------------------------------------------------
(* Documents that lack nothing show what was captured *)

LEMMA Counted ==
  ASSUME NEW n \in Nat, NEW S, NEW f, f \in [1..n -> S],
         \A x \in S : \E i \in 1..n : f[i] = x,
         \A i, j \in 1..n : i # j => f[i] # f[j]
  PROVE  Cardinality(S) = n
<1>1. \A i, j \in DOMAIN f : f[i] = f[j] => i = j OBVIOUS
<1>3. f \in Bijection(1..n, S) BY <1>1 DEF Bijection, Injection, Surjection, IsInjective
<1>2. ExistsBijection(1..n, S) BY <1>3 DEF ExistsBijection
<1> QED BY <1>2, FS_CountingElements

LEMMA CountedFrames ==
  ASSUME NEW n \in Nat, NEW S, NEW s, \A x : x \in S <=> \E i \in 1..n : s[i].frame = x,
         \A i, j \in 1..n : i # j => s[i].frame # s[j].frame
  PROVE  Cardinality(S) = n
<1> DEFINE f == [i \in 1..n |-> s[i].frame]
<1>1. f \in [1..n -> S] OBVIOUS
<1>2. \A x \in S : \E i \in 1..n : f[i] = x OBVIOUS
<1>3. \A i, j \in 1..n : i # j => f[i] # f[j] OBVIOUS
<1> HIDE DEF f
<1> QED BY <1>1, <1>2, <1>3, Counted

\* In ascending order, the i-th entry has the i-th smallest frame.
LEMMA AscendingNth ==
  ASSUME NEW s \in Seq(Item), Ascending(s), NEW n \in Nat, NEW S \in SUBSET (1..n),
         \A x : x \in S <=> \E t \in ToSet(s) : t.frame = x
  PROVE  /\ Cardinality(S) = Len(s)
         /\ \A i \in 1..Len(s) : Nth(S, i) = s[i].frame
<1>1. Len(s) \in Nat /\ DOMAIN s = 1..Len(s) OBVIOUS
<1>2. \A x : x \in S <=> \E i \in 1..Len(s) : s[i].frame = x BY <1>1 DEF ToSet
<1>3. \A i \in 1..Len(s) : s[i].frame \in S /\ s[i].frame \in Nat
  <2>1. \A x \in S : x \in Nat OBVIOUS
  <2> QED BY <1>2, <2>1
<1>4. \A i, j \in 1..Len(s) : i < j => s[i].frame < s[j].frame BY <1>1 DEF Ascending
<1>5. \A i, j \in 1..Len(s) : i # j => s[i].frame # s[j].frame
  <2> TAKE i, j \in 1..Len(s)
  <2>1. i < j \/ j < i \/ i = j BY <1>1
  <2> QED BY <1>3, <1>4, <2>1
<1>6. Cardinality(S) = Len(s)
  <2> DEFINE l == Len(s)
  <2>1. l \in Nat BY <1>1
  <2>2. \A x : x \in S <=> \E i \in 1..l : s[i].frame = x BY <1>2
  <2>3. \A i, j \in 1..l : i # j => s[i].frame # s[j].frame BY <1>5
  <2> HIDE DEF l
  <2>4. Cardinality(S) = l BY <2>1, <2>2, <2>3, CountedFrames
  <2> QED BY <2>4 DEF l
<1>7. ASSUME NEW i \in 1..Len(s) PROVE Rank(S, s[i].frame) = i
  <2> DEFINE L == {x \in S : x <= s[i].frame}
  <2>1. i \in Nat /\ \A j \in 1..i : j \in 1..Len(s) BY <1>1, <1>7
  <2>2. \A j \in 1..i : s[j].frame \in L
    <3> TAKE j \in 1..i
    <3>1. j = i \/ j < i BY <2>1
    <3>2. s[j].frame <= s[i].frame BY <1>3, <1>4, <2>1, <3>1
    <3> QED BY <1>3, <2>1, <3>2
  <2>3. \A x \in L : \E j \in 1..i : s[j].frame = x
    <3> TAKE x \in L
    <3>1. PICK j \in 1..Len(s) : s[j].frame = x BY <1>2
    <3>2. ~(i < j)
      <4> SUFFICES ASSUME i < j PROVE FALSE OBVIOUS
      <4>1. s[i].frame < s[j].frame BY <1>4
      <4>2. s[j].frame <= s[i].frame BY <3>1
      <4> QED BY <1>3, <4>1, <4>2
    <3>3. j \in 1..i BY <1>1, <2>1, <3>2
    <3> QED BY <3>1, <3>3
  <2>4. \A x : x \in L <=> \E j \in 1..i : s[j].frame = x BY <2>2, <2>3
  <2>5. \A j, l \in 1..i : j # l => s[j].frame # s[l].frame BY <1>5, <2>1
  <2>6. Cardinality(L) = i
    <3> HIDE DEF L
    <3> QED BY <2>1, <2>4, <2>5, CountedFrames
  <2> QED BY <2>6 DEF Rank
<1>8. ASSUME NEW i \in 1..Len(s) PROVE Nth(S, i) = s[i].frame
  <2>1. i \in 1..Cardinality(S) BY <1>6
  <2>2. Nth(S, i) \in S /\ Rank(S, Nth(S, i)) = i BY <2>1, NthExists
  <2>3. PICK j \in 1..Len(s) : s[j].frame = Nth(S, i) BY <1>2, <2>2
  <2>4. j = i BY <1>7, <2>2, <2>3
  <2> QED BY <2>3, <2>4
<1> QED BY <1>6, <1>8

LEMMA SignatureTrue ==
  ASSUME NEW d \in Builder, NEW n \in Nat, ToSet(d.frames) \subseteq 1..n, Faithful(d), Ledger(d),
         ItemFrames(d) = TrueItems(d)
  PROVE  Signature(d) = TrueSignature(d)
<1> DEFINE S == TrueItems(d)
<1>1. d.items \in Seq(Item) /\ \A f : f \in ItemFrames(d) <=> \E t \in ToSet(d.items) : t.frame = f
  BY ItemsOf
<1>2. S \in SUBSET (1..n) BY DEF TrueItems
<1>3. Ascending(d.items) BY DEF Ledger
<1> HIDE DEF S
<1>4. \A x : x \in S <=> \E t \in ToSet(d.items) : t.frame = x BY <1>1 DEF S
<1>5. Cardinality(S) = Len(d.items) /\ \A i \in 1..Len(d.items) : Nth(S, i) = d.items[i].frame
  BY <1>1, <1>2, <1>3, <1>4, AscendingNth
<1>6. \A i \in 1..Len(d.items) : d.items[i].val = Val(d.items[i].frame)
  <2> TAKE i \in 1..Len(d.items)
  <2>1. d.items[i] \in ToSet(d.items) BY <1>1 DEF ToSet
  <2> QED BY <2>1 DEF Faithful
<1>7. \A i \in 1..Len(d.items) : d.items[i].val = Val(Nth(S, i)) BY <1>5, <1>6
<1>8. TrueSignature(d) = [i \in 1..Len(d.items) |-> Val(Nth(S, i))] BY <1>5 DEF TrueSignature, S
<1>9. Signature(d) = [i \in 1..Len(d.items) |-> Val(Nth(S, i))] BY <1>7 DEF Signature
<1> QED BY <1>8, <1>9

LEMMA TotalTrue ==
  ASSUME NEW d \in Builder, NEW n \in Nat, ToSet(d.frames) \subseteq 1..n, Faithful(d), Ledger(d),
         \A k \in TrueTotals(d) : \E t \in TotalFrames(d) : t <= k
  PROVE  PrimaryTotal(d) = TrueTotal(d) /\ (PrimaryTotal(d) # -1 => TotalFrames(d) # {})
<1> DEFINE known == {t \in DOMAIN d.totals : d.totals[t].val # -1}
           m == Min(known)
           f == d.totals[m].frame
<1>1. /\ d.totals \in Seq(Total)
      /\ \A x : x \in TotalFrames(d) <=> \E t \in ToSet(d.totals) : t.val # -1 /\ t.frame = x
  BY ItemsOf
<1>2. DOMAIN d.totals = 1..Len(d.totals) /\ Len(d.totals) \in Nat BY <1>1
<1>3. \A x : x \in TotalFrames(d) <=> \E i \in known : d.totals[i].frame = x BY <1>1 DEF ToSet
<1>4. TrueTotals(d) \subseteq 1..n /\ TotalFrames(d) \subseteq TrueTotals(d) BY DEF TrueTotals, Ledger
<1>5. known \in SUBSET Nat BY <1>2
<1>6. PrimaryTotal(d) = IF known = {} THEN -1 ELSE d.totals[m].val BY DEF PrimaryTotal
<1>7. CASE known = {}
  <2>1. TotalFrames(d) = {} /\ TrueTotals(d) = {} BY <1>3, <1>7
  <2> QED BY <1>6, <1>7, <2>1 DEF TrueTotal
<1>8. CASE known # {}
  <2> HIDE DEF known
  <2>1. m \in known /\ \A y \in known : m <= y BY <1>5, <1>8, MinIsElement
  <2>2. m \in DOMAIN d.totals BY <2>1 DEF known
  <2> HIDE DEF m
  <2>3. f \in TotalFrames(d) /\ f \in TrueTotals(d) /\ f \in 1..n BY <1>3, <1>4, <2>1
  <2>4. ASSUME NEW k \in TrueTotals(d) PROVE f <= k
    <3>1. PICK t \in TotalFrames(d) : t <= k BY <2>4
    <3>2. PICK i \in known : d.totals[i].frame = t BY <1>3, <3>1
    <3>3. m <= i /\ i \in DOMAIN d.totals BY <2>1, <3>2 DEF known
    <3>4. m \in Nat /\ i \in Nat BY <1>5, <2>1, <3>2
    <3>5. m = i \/ m < i BY <3>3, <3>4
    <3>6. f = t \/ f < t
      <4>1. m < i => d.totals[m].frame < d.totals[i].frame BY <2>2, <3>3 DEF Ledger, Ascending
      <4> QED BY <3>2, <3>5, <4>1
    <3>7. t \in 1..n /\ k \in 1..n BY <1>4, <2>4, <3>1
    <3> HIDE DEF f
    <3> QED BY <2>3, <3>1, <3>6, <3>7
  <2>5. Min(TrueTotals(d)) = f
    <3>1. TrueTotals(d) \in SUBSET Nat /\ TrueTotals(d) # {} BY <1>4, <2>3
    <3>2. Min(TrueTotals(d)) \in TrueTotals(d) /\ Min(TrueTotals(d)) <= f BY <2>3, <3>1, MinIsElement
    <3>3. f <= Min(TrueTotals(d)) BY <2>4, <3>2
    <3>4. Min(TrueTotals(d)) \in Nat BY <3>1, <3>2
    <3> HIDE DEF f
    <3> QED BY <2>3, <3>2, <3>3, <3>4
  <2>6. TrueTotal(d) = Val(f) BY <2>3, <2>5 DEF TrueTotal
  <2>7. d.totals[m].val = Val(f)
    <3>1. d.totals[m] \in ToSet(d.totals) BY <2>2 DEF ToSet
    <3>2. Cmd(f) # "mtotals" BY <2>3 DEF TrueTotals
    <3> QED BY <3>1, <3>2 DEF Faithful
  <2> QED BY <1>6, <1>8, <2>3, <2>6, <2>7
<1> QED BY <1>7, <1>8

\* A management document with items and a total has had the fields for both: it
\* lacks neither, and no receipt before it lacks anything.
LEMMA CopyIsReal ==
  ASSUME Inv, CopyInv, NEW i \in DOMAIN documents, NEW j \in CopySources(documents, i),
         documents[i].kind # "commerciale"
  PROVE  /\ j \in DOMAIN documents
         /\ TrueSignature(documents[i]) = TrueSignature(documents[j])
         /\ TrueTotal(documents[i]) = TrueTotal(documents[j])
<1> DEFINE d == documents[i]
           o == documents[j]
<1>1. documents \in Seq(Builder) /\ Len(documents) \in Nat /\ DOMAIN documents = 1..Len(documents)
  BY DEF Inv, TypeOK
<1>2. /\ j \in 1..(i - 1) /\ o.kind = "commerciale" /\ d.items # <<>>
      /\ Signature(d) = Signature(o) /\ PrimaryTotal(d) # -1 /\ PrimaryTotal(d) = PrimaryTotal(o)
  BY DEF CopySources
<1>3. j \in DOMAIN documents /\ i > j BY <1>1, <1>2
<1>4. d \in Builder /\ o \in Builder BY <1>1, <1>3
<1>5. d.kind = "gestionale" BY <1>4 DEF Builder
<1>6. /\ Ledger(d) /\ Shortfall(d, Left) /\ Ledger(o) /\ Shortfall(o, Left)
      /\ Lacking(o) => Poor(d, Left)
  BY <1>2, <1>3, <1>5 DEF CopyInv
<1>7. next \in Nat /\ Faithful(d) /\ Faithful(o) BY <1>3 DEF Inv, TypeOK, FieldInv
<1>8. ToSet(d.frames) \subseteq 1..next /\ ToSet(o.frames) \subseteq 1..next
  <2>1. Frames(d) = ToSet(d.frames) /\ Frames(o) = ToSet(o.frames) BY <1>4, FramesOfBuilder
  <2> QED BY <1>3, <2>1 DEF Inv, FrameInv
<1>9. TotalFrames(d) # {}
  <2> DEFINE known == {t \in DOMAIN d.totals : d.totals[t].val # -1}
  <2>1. known # {} BY <1>2 DEF PrimaryTotal
  <2>2. PICK t \in DOMAIN d.totals : d.totals[t].val # -1 BY <2>1
  <2>3. d.totals[t] \in ToSet(d.totals) BY <2>2 DEF ToSet
  <2>4. d.totals[t].frame \in TotalFrames(d) BY <1>4, <2>2, <2>3, ItemsOf
  <2> QED BY <2>4
<1> HIDE DEF d, o
<1>10. ~Poor(d, Left) BY <1>2, <1>9 DEF Poor
<1>11. ItemFrames(o) = TrueItems(o) /\ TotalFrames(o) = TrueTotals(o) BY <1>6, <1>10 DEF Lacking
<1>12. ItemFrames(d) = TrueItems(d) /\ \A k \in TrueTotals(d) : \E t \in TotalFrames(d) : t <= k
  BY <1>5, <1>6, <1>9 DEF Shortfall
<1>13. \A k \in TrueTotals(o) : \E t \in TotalFrames(o) : t <= k
  <2> TAKE k \in TrueTotals(o)
  <2>1. k \in 1..next BY <1>8 DEF TrueTotals
  <2>2. k <= k BY <1>7, <2>1
  <2> QED BY <1>11, <2>2
<1>14. Signature(d) = TrueSignature(d) BY <1>4, <1>6, <1>7, <1>8, <1>12, SignatureTrue
<1>15. Signature(o) = TrueSignature(o) BY <1>4, <1>6, <1>7, <1>8, <1>11, SignatureTrue
<1>16. PrimaryTotal(d) = TrueTotal(d) BY <1>4, <1>6, <1>7, <1>8, <1>12, TotalTrue
<1>17. PrimaryTotal(o) = TrueTotal(o) BY <1>4, <1>6, <1>7, <1>8, <1>13, TotalTrue
<1> QED BY <1>2, <1>3, <1>14, <1>15, <1>16, <1>17 DEF d, o

LEMMA TrueOnes ==
  ASSUME conv' = conv, request' = request
  PROVE  \A d, e : e.frames = d.frames /\ e.kind = d.kind =>
           TrueSignature(e)' = TrueSignature(d) /\ TrueTotal(e)' = TrueTotal(d)
<1>1. \A k : Cmd(k)' = Cmd(k) /\ Val(k)' = Val(k) BY DEF Cmd, Val
<1> TAKE d, e
<1> HAVE e.frames = d.frames /\ e.kind = d.kind
<1>2. TrueItems(e)' = TrueItems(d) /\ TrueTotals(e)' = TrueTotals(d)
  BY <1>1 DEF TrueItems, TrueTotals
<1>3. TrueTotal(e)' = TrueTotal(d) BY <1>1, <1>2 DEF TrueTotal
<1>4. \A S, k : Nth(S, k)' = Nth(S, k) BY DEF Nth, Rank
<1>5. TrueSignature(e)' = TrueSignature(d) BY <1>1, <1>2, <1>4 DEF TrueSignature
<1> QED BY <1>3, <1>5

\* Once the documents are assembled only the fields left change, and the labels.
LEMMA CopyInvKept ==
  ASSUME Inv, Inv', CopyInv, Relabelled, CopiesAreReal',
         phase' \in {"assemble", "correlate", "attach"} =>
           \A i \in DOMAIN documents : documents'[i].copyOf = 0
  PROVE  CopyInv'
<1>1. /\ conv' = conv /\ request' = request /\ limit' = limit /\ active' = active /\ pending' = pending
      /\ DOMAIN documents' = DOMAIN documents /\ used <= used' /\ used' <= limit.fields
  BY DEF Relabelled
<1>2. used' \in Nat
  <2>1. used' \in 0..limit.fields /\ limit.fields \in Nat BY <1>1, Budget DEF Inv, TypeOK
  <2> QED BY <2>1
<1>3. Left \in Nat /\ Left' \in Nat /\ Left' <= Left BY <1>1, <1>2, Fields
<1>4. \A i \in DOMAIN documents :
        /\ documents'[i].kind = documents[i].kind
        /\ Ledger(documents[i]) => Ledger(documents'[i])
        /\ Shortfall(documents[i], Left) => Shortfall(documents'[i], Left)
        /\ Poor(documents[i], Left) => Poor(documents'[i], Left)
        /\ Lacking(documents'[i]) <=> Lacking(documents[i])
  <2> TAKE i \in DOMAIN documents
  <2>1. /\ documents'[i].kind = documents[i].kind /\ documents'[i].frames = documents[i].frames
        /\ documents'[i].items = documents[i].items /\ documents'[i].totals = documents[i].totals
        /\ documents'[i].seenTotal = documents[i].seenTotal
    BY DEF Relabelled
  <2> QED BY <2>1, SameAccount
<1>5. \A i \in DOMAIN documents : Ledger(documents'[i]) /\ Shortfall(documents'[i], Left')
  <2>1. \A i \in DOMAIN documents : Ledger(documents'[i]) /\ Shortfall(documents'[i], Left)
    BY <1>4 DEF CopyInv
  <2> QED BY <1>3, <2>1, ShortfallLater
<1>6. active' # None => active'.copyOf = 0 /\ Ledger(active') /\ Shortfall(active', Left')
  <2>1. active # None => active.copyOf = 0 /\ Ledger(active) /\ Shortfall(active, Left) BY DEF CopyInv
  <2>2. Shortfall(active, Left) => Shortfall(active, Left') BY <1>3, ShortfallLater
  <2> QED BY <1>1, <2>1, <2>2
<1>7. ASSUME NEW j \in DOMAIN documents, documents'[j].kind = "commerciale", Lacking(documents'[j])
      PROVE  /\ Is("gestionale") => Poor(active, Left')
             /\ \A i \in DOMAIN documents :
                  (i > j /\ documents'[i].kind = "gestionale") => Poor(documents'[i], Left')
  <2>1. /\ Is("gestionale") => Poor(active, Left)
        /\ \A i \in DOMAIN documents :
             (i > j /\ documents[i].kind = "gestionale") => Poor(documents[i], Left)
    BY <1>4, <1>7 DEF CopyInv
  <2>2. Is("gestionale") => Poor(active, Left') BY <1>3, <2>1, PoorLater
  <2>3. ASSUME NEW i \in DOMAIN documents, i > j, documents'[i].kind = "gestionale"
        PROVE  Poor(documents'[i], Left')
    <3>1. Poor(documents'[i], Left) BY <1>4, <2>1, <2>3
    <3> QED BY <1>3, <3>1, PoorLater
  <2> QED BY <2>2, <2>3
<1>8. /\ \A d : Ledger(d)' <=> Ledger(d)
      /\ \A d, m : Shortfall(d, m)' <=> Shortfall(d, m)
      /\ \A d : Lacking(d)' <=> Lacking(d)
      /\ \A d, m : Poor(d, m)' <=> Poor(d, m)
  BY <1>1, AccountsAreConstant
<1>9. (active # None => active.copyOf = 0 /\ Ledger(active) /\ Shortfall(active, Left))'
  BY <1>6, <1>8
<1>10. (\A j \in DOMAIN documents :
         /\ phase \in {"assemble", "correlate", "attach"} => documents[j].copyOf = 0
         /\ Ledger(documents[j]) /\ Shortfall(documents[j], Left))'
  BY <1>1, <1>5, <1>8
<1>11. (\A j \in DOMAIN documents : (documents[j].kind = "commerciale" /\ Lacking(documents[j])) =>
         /\ Is("gestionale") => Poor(active, Left)
         /\ \A i \in DOMAIN documents :
              (i > j /\ documents[i].kind = "gestionale") => Poor(documents[i], Left))'
  BY <1>1, <1>7, <1>8 DEF Is
<1>12. (pending # 0 => Cmd(pending) = "query")' BY <1>1 DEF CopyInv, Cmd
<1> QED BY <1>9, <1>10, <1>11, <1>12 DEF CopyInv

LEMMA LaterCopies ==
  ASSUME Inv, Inv', CopyInv, Correlate \/ AttachCounter \/ AssignSubtypes \/ Report \/ UNCHANGED vars
  PROVE  CopyInv'
<1>1. Relabelled BY LaterSteps
<1>2. /\ conv' = conv /\ request' = request /\ DOMAIN documents' = DOMAIN documents
      /\ \A i \in DOMAIN documents :
           documents'[i].frames = documents[i].frames /\ documents'[i].kind = documents[i].kind
  BY <1>1 DEF Relabelled
<1>3. CopiesAreReal BY DEF CopyInv
<1>4. phase \in {"assemble", "correlate", "attach"} => \A i \in DOMAIN documents : documents[i].copyOf = 0
  BY DEF CopyInv
<1>5. CASE Correlate \/ Report \/ UNCHANGED vars
  <2>1. documents' = documents /\ (phase' = phase \/ phase = "correlate" \/ phase' = "done")
    BY <1>5 DEF Correlate, Report, vars
  <2>2. CopiesAreReal'
    <3>1. \A d : TrueSignature(d)' = TrueSignature(d) /\ TrueTotal(d)' = TrueTotal(d)
      BY <1>2, TrueOnes
    <3> QED BY <1>3, <2>1, <3>1 DEF CopiesAreReal
  <2> QED BY <1>1, <1>4, <2>1, <2>2, CopyInvKept
<1>6. CASE AttachCounter
  <2> DEFINE a == attached + 1
             p == response[Max(Candidates(documents[a]))].pos
  <2>1. documents' = documents \/ documents' = [documents EXCEPT ![a].number = p]
    BY <1>6 DEF AttachCounter
  <2>2. phase = "attach" BY <1>6 DEF AttachCounter
  <2> HIDE DEF a, p
  <2>3. documents \in Seq(Builder) /\ \A i \in DOMAIN documents : documents[i] \in Builder
    BY DEF Inv, TypeOK
  <2>4. ASSUME NEW i \in DOMAIN documents PROVE documents'[i].copyOf = 0
    <3>1. documents[i].copyOf = 0 BY <1>4, <2>2
    <3>2. CASE documents' = documents BY <3>1, <3>2
    <3>3. CASE documents' = [documents EXCEPT ![a].number = p]
      <4>1. documents'[i] = documents[i] \/ documents'[i] = [documents[i] EXCEPT !.number = p]
        BY <2>3, <3>3
      <4>2. ASSUME NEW d \in Builder PROVE [d EXCEPT !.number = p].copyOf = d.copyOf BY DEF Builder
      <4> QED BY <2>3, <3>1, <4>1, <4>2
    <3> QED BY <2>1, <3>2, <3>3
  <2>5. CopiesAreReal' BY <1>2, <2>4 DEF CopiesAreReal
  <2> QED BY <1>1, <2>4, <2>5, CopyInvKept
<1>7. CASE AssignSubtypes
  <2>1. /\ documents' = [i \in 1..Len(documents) |-> Subtyped(documents, i)] /\ phase' = "report"
    BY <1>7 DEF AssignSubtypes
  <2>2. DOMAIN documents = 1..Len(documents) BY DEF Inv, TypeOK
  <2>3. CopiesAreReal'
    <3>1. ASSUME NEW i \in DOMAIN documents, documents'[i].copyOf # 0
          PROVE  /\ documents'[i].copyOf \in DOMAIN documents
                 /\ TrueSignature(documents[i]) = TrueSignature(documents[documents'[i].copyOf])
                 /\ TrueTotal(documents[i]) = TrueTotal(documents[documents'[i].copyOf])
      <4> DEFINE j == documents'[i].copyOf
      <4>1. documents'[i] = Subtyped(documents, i) BY <2>1, <2>2
      <4>2. documents[i].kind # "commerciale" /\ j \in CopySources(documents, i)
        BY <2>2, <3>1, <4>1, SubtypedBuilder
      <4> HIDE DEF j
      <4>3. /\ j \in DOMAIN documents /\ TrueSignature(documents[i]) = TrueSignature(documents[j])
            /\ TrueTotal(documents[i]) = TrueTotal(documents[j])
        BY <4>2, CopyIsReal
      <4> QED BY <4>3 DEF j
    <3>2. \A i \in DOMAIN documents :
            /\ TrueSignature(documents[i])' = TrueSignature(documents[i])
            /\ TrueTotal(documents[i])' = TrueTotal(documents[i])
      BY <1>2, TrueOnes
    <3> QED BY <1>2, <3>1, <3>2 DEF CopiesAreReal
  <2> QED BY <1>1, <2>1, <2>3, CopyInvKept
<1> QED BY <1>5, <1>6, <1>7

\* The account of the fields holds in every state, for every conversation.
THEOREM CopyInvariance == Spec => []CopyInv
<1>1. ASSUME Inv, Inv', CopyInv, [Next]_vars PROVE CopyInv'
  <2>1. ASSUME NEW k \in 1..Len(request),
               \/ Skip(k) \/ Control(k) \/ CommercialStart(k) \/ ManagementBoundary(k)
               \/ ManagementLine(k) \/ CommercialItem(k) \/ CommercialText(k) \/ CommercialTotal(k)
               \/ OtherCommand(k)
        PROVE  CopyInv'
    BY <1>1, <2>1, LoopCopies
  <2>2. CASE EndOfFrames BY <1>1, <2>2, EndOfFramesCopies
  <2>3. CASE Correlate \/ AttachCounter \/ AssignSubtypes \/ Report \/ UNCHANGED vars
    BY <1>1, <2>3, LaterCopies
  <2> QED BY <1>1, <2>1, <2>2, <2>3 DEF Next
<1> QED BY <1>1, InitCopies, Invariance, PTL DEF Spec

\* A document taken for a conforming copy repeats every item and the total of
\* the captured receipt, whatever the field limit cut off
\* (_assign_document_subtypes and _SemanticBudget.reserve).
THEOREM CopiesRepeatTheOriginal == Spec => []CopiesAreReal
<1>1. CopyInv => CopiesAreReal BY DEF CopyInv
<1> QED BY <1>1, CopyInvariance, PTL
=============================================================================
