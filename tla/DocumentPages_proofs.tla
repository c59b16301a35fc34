------------------------ MODULE DocumentPages_proofs ------------------------
(***************************************************************************)
(* Proofs about the listings, for every document: the rows of the catalog  *)
(* select what the analyzer lists, its tags count what it lists, and the   *)
(* pages a client is given are the listing.                                *)
(***************************************************************************)
EXTENDS DocumentWalk_proofs, FiniteSetTheorems

\* While nothing was indexed, the next page starts no earlier than the first did.
PagesInv ==
  /\ Frame
  /\ limit \in Int /\ first \in Int
  /\ PagesAreTheListing
  /\ ~changed => /\ listing \in Seq(Range(listing)) /\ offset \in Int
                 /\ PagesFrom <= PageStart(Len(listing), offset)

-----------------------------------------------------------------------------
(* Finite sets in an order *)

IsOrder(R, U) ==
  /\ \A a, b \in U : a # b => <<a, b>> \in R \/ <<b, a>> \in R
  /\ \A a, b, c \in U : <<a, b>> \in R /\ <<b, c>> \in R => <<a, c>> \in R

Arranged(s, S, R) ==
  /\ s \in [1..Cardinality(S) -> S]
  /\ Range(s) = S
  /\ \A i, j \in DOMAIN s : i < j => <<s[i], s[j]>> \in R

\* An element comes after all the others.
LEMMA LastExists ==
  ASSUME NEW U, NEW R, IsOrder(R, U), NEW S \in SUBSET U, IsFiniteSet(S), S # {}
  PROVE  \E m \in S : \A x \in S \ {m} : <<x, m>> \in R
<1> DEFINE HasLast(V) == \E m \in V : \A x \in V \ {m} : <<x, m>> \in R
           T == {n \in Nat : \A V \in SUBSET U :
                   IsFiniteSet(V) /\ Cardinality(V) = n /\ V # {} => HasLast(V)}
<1>1. 0 \in T
  BY FS_EmptySet
<1>2. ASSUME NEW n \in Nat, n \in T PROVE n + 1 \in T
  <2> SUFFICES ASSUME NEW V \in SUBSET U, IsFiniteSet(V), Cardinality(V) = n + 1, V # {}
               PROVE  HasLast(V)
    OBVIOUS
  <2>1. PICK x \in V : TRUE
    OBVIOUS
  <2>2. IsFiniteSet(V \ {x}) /\ Cardinality(V \ {x}) = n
    <3>1. IsFiniteSet(V \ {x}) /\ Cardinality(V \ {x}) = Cardinality(V) - 1
      BY FS_RemoveElement, Zenon
    <3> QED
      BY <3>1
  <2>3. CASE V \ {x} = {}
    BY <2>3
  <2>4. CASE V \ {x} # {}
    <3>1. PICK m \in V \ {x} : \A y \in (V \ {x}) \ {m} : <<y, m>> \in R
      BY <1>2, <2>2, <2>4
    <3>2. CASE <<x, m>> \in R
      BY <3>1, <3>2
    <3>3. CASE <<m, x>> \in R
      <4>1. ASSUME NEW y \in V \ {x} PROVE <<y, x>> \in R
        BY <3>1, <3>3 DEF IsOrder
      <4> QED
        BY <4>1
    <3> QED
      BY <3>2, <3>3 DEF IsOrder
  <2> QED
    BY <2>3, <2>4
<1>3. Nat \subseteq T
  <2> HIDE DEF T
  <2> QED
    BY <1>1, <1>2, NatsByInduction
<1>4. Cardinality(S) \in T
  BY <1>3, FS_CardinalityType
<1> QED
  BY <1>4

\* The elements can be put one after the other.
LEMMA ArrangementExists ==
  ASSUME NEW U, NEW R, IsOrder(R, U), NEW S \in SUBSET U, IsFiniteSet(S)
  PROVE  \E s : Arranged(s, S, R)
<1> DEFINE T == {n \in Nat : \A V \in SUBSET U :
                   IsFiniteSet(V) /\ Cardinality(V) = n => \E s : Arranged(s, V, R)}
<1>1. 0 \in T
  <2> SUFFICES ASSUME NEW V \in SUBSET U, IsFiniteSet(V), Cardinality(V) = 0
               PROVE  \E s : Arranged(s, V, R)
    OBVIOUS
  <2>1. V = {}
    BY FS_EmptySet
  <2>2. 1..0 = {}
    OBVIOUS
  <2>3. Arranged([i \in 1..0 |-> 0], V, R)
    BY <2>1, <2>2 DEF Arranged, Range
  <2> QED
    BY <2>3
<1>2. ASSUME NEW n \in Nat, n \in T PROVE n + 1 \in T
  <2> SUFFICES ASSUME NEW V \in SUBSET U, IsFiniteSet(V), Cardinality(V) = n + 1
               PROVE  \E s : Arranged(s, V, R)
    OBVIOUS
  <2>1. V # {}
    BY FS_EmptySet
  <2>2. PICK m \in V : \A x \in V \ {m} : <<x, m>> \in R
    BY <2>1, LastExists
  <2>3. IsFiniteSet(V \ {m}) /\ Cardinality(V \ {m}) = n
    <3>1. IsFiniteSet(V \ {m}) /\ Cardinality(V \ {m}) = Cardinality(V) - 1
      BY FS_RemoveElement, Zenon
    <3> QED
      BY <3>1
  <2>4. PICK s : Arranged(s, V \ {m}, R)
    BY <1>2, <2>3
  <2>5. /\ s \in [1..n -> V \ {m}] /\ Range(s) = V \ {m}
        /\ \A i, j \in 1..n : i < j => <<s[i], s[j]>> \in R
    BY <2>3, <2>4 DEF Arranged
  <2> DEFINE t == [i \in 1..(n + 1) |-> IF i = n + 1 THEN m ELSE s[i]]
  <2>6. \A i \in 1..(n + 1) : i = n + 1 \/ i \in 1..n
    OBVIOUS
  <2>7. t \in [1..(n + 1) -> V]
    BY <2>5, <2>6
  <2>8. Range(t) = V
    <3>1. t[n + 1] = m /\ n + 1 \in 1..(n + 1)
      OBVIOUS
    <3>2. \A i \in 1..n : i \in 1..(n + 1) /\ t[i] = s[i]
      OBVIOUS
    <3>3. \A x \in V \ {m} : \E i \in 1..n : s[i] = x
      BY <2>5 DEF Range
    <3> HIDE DEF t
    <3> QED
      BY <2>7, <3>1, <3>2, <3>3 DEF Range
  <2>9. ASSUME NEW i \in 1..(n + 1), NEW j \in 1..(n + 1), i < j
        PROVE  <<t[i], t[j]>> \in R
    <3>1. i \in 1..n /\ t[i] = s[i] /\ s[i] \in V \ {m}
      BY <2>5, <2>9
    <3>2. CASE j = n + 1
      BY <2>2, <3>1, <3>2
    <3>3. CASE j # n + 1
      <4>1. j \in 1..n /\ t[j] = s[j]
        BY <3>3
      <4> QED
        BY <2>5, <2>9, <3>1, <4>1
    <3> QED
      BY <3>2, <3>3
  <2>10. Arranged(t, V, R)
    BY <2>7, <2>8, <2>9 DEF Arranged
  <2> QED
    BY <2>10
<1>3. Nat \subseteq T
  <2> HIDE DEF T
  <2> QED
    BY <1>1, <1>2, NatsByInduction
<1>4. Cardinality(S) \in T
  BY <1>3, FS_CardinalityType
<1> QED
  BY <1>4

\* Every order the listings are sorted in puts all in their places.
LEMMA SortedKeys ==
  ASSUME NEW S \in SUBSET (Nat \X Nat), IsFiniteSet(S)
  PROVE  /\ Sorted(S, ByPathThenMethod) \in Seq(S)
         /\ Range(Sorted(S, ByPathThenMethod)) = S
         /\ Len(Sorted(S, ByPathThenMethod)) = Cardinality(S)
<1> DEFINE R == {p \in S \X S : ByPathThenMethod(p[1], p[2])}
           Fits(t) == Range(t) = S /\ \A i, j \in DOMAIN t : i < j => ByPathThenMethod(t[i], t[j])
           s == CHOOSE t \in [1..Cardinality(S) -> S] : Fits(t)
<1>0. \A k \in S : k[1] \in Nat /\ k[2] \in Nat /\ k = <<k[1], k[2]>>
  OBVIOUS
<1>1. IsOrder(R, S)
  <2>1. ASSUME NEW a \in S, NEW b \in S, a # b PROVE ByPathThenMethod(a, b) \/ ByPathThenMethod(b, a)
    BY <1>0, <2>1 DEF ByPathThenMethod
  <2>2. ASSUME NEW a \in S, NEW b \in S, NEW c \in S, ByPathThenMethod(a, b), ByPathThenMethod(b, c)
        PROVE  ByPathThenMethod(a, c)
    BY <1>0, <2>2 DEF ByPathThenMethod
  <2> QED
    BY <2>1, <2>2 DEF IsOrder
<1>2. PICK t : Arranged(t, S, R)
  BY <1>1, ArrangementExists
<1>3. t \in [1..Cardinality(S) -> S] /\ Fits(t)
  BY <1>2 DEF Arranged
<1>4. s \in [1..Cardinality(S) -> S] /\ Fits(s)
  <2> HIDE DEF Fits
  <2> QED
    BY <1>3
<1>5. s \in Seq(S) /\ Fits(s) /\ Len(s) = Cardinality(S)
  <2> HIDE DEF s, Fits
  <2>1. s \in Seq(S) /\ Cardinality(S) \in Nat /\ DOMAIN s = 1..Cardinality(S)
    BY <1>4, FS_CardinalityType, SeqDef
  <2> QED
    BY <1>4, <2>1, LenProperties
<1> QED
  BY <1>5 DEF Sorted

LEMMA SortedHits ==
  ASSUME NEW S \in SUBSET [key : Nat \X Nat, score : Int], IsFiniteSet(S)
  PROVE  /\ Sorted(S, ByScoreThenKey) \in Seq(S)
         /\ Range(Sorted(S, ByScoreThenKey)) = S
<1> DEFINE R == {p \in S \X S : ByScoreThenKey(p[1], p[2])}
           Fits(t) == Range(t) = S /\ \A i, j \in DOMAIN t : i < j => ByScoreThenKey(t[i], t[j])
           s == CHOOSE t \in [1..Cardinality(S) -> S] : Fits(t)
<1>0. ASSUME NEW x \in S
      PROVE  /\ x.score \in Int /\ x.key[1] \in Nat /\ x.key[2] \in Nat
             /\ \A y \in S : y.score = x.score /\ y.key[1] = x.key[1] /\ y.key[2] = x.key[2] => y = x
  <2>1. ASSUME NEW y \in S
        PROVE  /\ y = [key |-> y.key, score |-> y.score] /\ y.key = <<y.key[1], y.key[2]>>
               /\ y.key[1] \in Nat /\ y.key[2] \in Nat /\ y.score \in Int
    OBVIOUS
  <2> QED
    BY <2>1
<1>1. IsOrder(R, S)
  <2>1. ASSUME NEW a \in S, NEW b \in S, a # b PROVE ByScoreThenKey(a, b) \/ ByScoreThenKey(b, a)
    BY <1>0, <2>1 DEF ByPathThenMethod, ByScoreThenKey
  <2>2. ASSUME NEW a \in S, NEW b \in S, NEW c \in S, ByScoreThenKey(a, b), ByScoreThenKey(b, c)
        PROVE  ByScoreThenKey(a, c)
    BY <1>0, <2>2 DEF ByPathThenMethod, ByScoreThenKey
  <2> QED
    BY <2>1, <2>2 DEF IsOrder
<1>2. PICK t : Arranged(t, S, R)
  BY <1>1, ArrangementExists
<1>3. t \in [1..Cardinality(S) -> S] /\ Fits(t)
  BY <1>2 DEF Arranged
<1>4. s \in [1..Cardinality(S) -> S] /\ Fits(s)
  <2> HIDE DEF Fits
  <2> QED
    BY <1>3
<1>5. s \in Seq(S) /\ Fits(s)
  <2> HIDE DEF s, Fits
  <2> QED
    BY <1>4, FS_CardinalityType, SeqDef
<1> QED
  BY <1>5 DEF Sorted

LEMMA SortedSchemas ==
  ASSUME NEW S, IsFiniteSet(S), \A x \in S : x.name \in Nat /\ x.usedBy \in Nat,
         \A x, y \in S : x.name = y.name => x = y
  PROVE  /\ Sorted(S, ByUseThenName) \in Seq(S)
         /\ Range(Sorted(S, ByUseThenName)) = S
<1> DEFINE R == {p \in S \X S : ByUseThenName(p[1], p[2])}
           Fits(t) == Range(t) = S /\ \A i, j \in DOMAIN t : i < j => ByUseThenName(t[i], t[j])
           s == CHOOSE t \in [1..Cardinality(S) -> S] : Fits(t)
<1>1. IsOrder(R, S)
  <2>1. ASSUME NEW a \in S, NEW b \in S, a # b PROVE ByUseThenName(a, b) \/ ByUseThenName(b, a)
    BY <2>1 DEF ByUseThenName
  <2>2. ASSUME NEW a \in S, NEW b \in S, NEW c \in S, ByUseThenName(a, b), ByUseThenName(b, c)
        PROVE  ByUseThenName(a, c)
    BY <2>2 DEF ByUseThenName
  <2> QED
    BY <2>1, <2>2 DEF IsOrder
<1>2. PICK t : Arranged(t, S, R)
  BY <1>1, ArrangementExists
<1>3. t \in [1..Cardinality(S) -> S] /\ Fits(t)
  BY <1>2 DEF Arranged
<1>4. s \in [1..Cardinality(S) -> S] /\ Fits(s)
  <2> HIDE DEF Fits
  <2> QED
    BY <1>3
<1>5. s \in Seq(S) /\ Fits(s)
  <2> HIDE DEF s, Fits
  <2> QED
    BY <1>4, FS_CardinalityType, SeqDef
<1> QED
  BY <1>5 DEF Sorted

LEMMA SortedTags ==
  ASSUME NEW S, IsFiniteSet(S), \A x \in S : x[1] \in Nat,
         \A x, y \in S : x[1] = y[1] => x = y
  PROVE  /\ Sorted(S, ByPosition) \in Seq(S)
         /\ Range(Sorted(S, ByPosition)) = S
         /\ \A i, j \in DOMAIN Sorted(S, ByPosition) :
              i < j => ByPosition(Sorted(S, ByPosition)[i], Sorted(S, ByPosition)[j])
<1> DEFINE R == {p \in S \X S : ByPosition(p[1], p[2])}
           Fits(t) == Range(t) = S /\ \A i, j \in DOMAIN t : i < j => ByPosition(t[i], t[j])
           s == CHOOSE t \in [1..Cardinality(S) -> S] : Fits(t)
<1>1. IsOrder(R, S)
  <2>1. ASSUME NEW a \in S, NEW b \in S, a # b PROVE ByPosition(a, b) \/ ByPosition(b, a)
    BY <2>1 DEF ByPosition
  <2>2. ASSUME NEW a \in S, NEW b \in S, NEW c \in S, ByPosition(a, b), ByPosition(b, c)
        PROVE  ByPosition(a, c)
    BY <2>2 DEF ByPosition
  <2> QED
    BY <2>1, <2>2 DEF IsOrder
<1>2. PICK t : Arranged(t, S, R)
  BY <1>1, ArrangementExists
<1>3. t \in [1..Cardinality(S) -> S] /\ Fits(t)
  BY <1>2 DEF Arranged
<1>4. s \in [1..Cardinality(S) -> S] /\ Fits(s)
  <2> HIDE DEF Fits
  <2> QED
    BY <1>3
<1>5. s \in Seq(S) /\ Fits(s)
  <2> HIDE DEF s, Fits
  <2> QED
    BY <1>4, FS_CardinalityType, SeqDef
<1> QED
  BY <1>5 DEF Sorted

LEMMA LeastExists ==
  ASSUME NEW S \in SUBSET Nat, S # {} PROVE Min(S) \in S /\ \A y \in S : Min(S) <= y
<1>1. PICK x \in S : \A y \in S : ~(<<y, x>> \in OpToRel(<, Nat))
  BY NatLessThanWellFounded, WFMin
<1>2. ASSUME NEW y \in S PROVE x <= y
  <2>1. x \in Nat /\ y \in Nat /\ <<y, x>> \in Nat \X Nat
    OBVIOUS
  <2>2. ~(y < x)
    BY <1>1, <2>1 DEF OpToRel
  <2> QED
    BY <2>1, <2>2
<1> QED
  BY <1>2 DEF Min

\* What is made of the elements of a finite set is finite.
LEMMA FiniteImage ==
  ASSUME NEW S, IsFiniteSet(S), NEW f, DOMAIN f = S PROVE IsFiniteSet({f[x] : x \in S})
<1> DEFINE T == {f[x] : x \in S}
           g == [x \in S |-> f[x]]
<1>1. g \in Surjection(S, T)
  BY DEF Surjection
<1> HIDE DEF T
<1> QED
  BY <1>1, FS_Surjection DEF T

-----------------------------------------------------------------------------
(* The listings of a document *)

\* All that is kept is listed.
LEMMA EndpointsListed ==
  ASSUME NEW d, WellFormed(d), NEW f
  PROVE  /\ ListEndpoints(d, f) \in Seq(Nat \X Nat)
         /\ Range(ListEndpoints(d, f)) = {k \in Keys(d) : KeepsEndpoint(d, f, k)}
         /\ Len(ListEndpoints(d, f)) = Cardinality({k \in Keys(d) : KeepsEndpoint(d, f, k)})
<1> DEFINE S == {k \in Keys(d) : KeepsEndpoint(d, f, k)}
<1>1. S \in SUBSET (Nat \X Nat) /\ S \in SUBSET Keys(d) /\ IsFiniteSet(Keys(d))
  BY DEF WellFormed, Keys
<1>2. IsFiniteSet(S)
  BY <1>1, FS_Subset
<1>3. ListEndpoints(d, f) = Sorted(S, ByPathThenMethod)
  BY DEF ListEndpoints
<1> HIDE DEF S
<1>4. /\ ListEndpoints(d, f) \in Seq(S) /\ Range(ListEndpoints(d, f)) = S
      /\ Len(ListEndpoints(d, f)) = Cardinality(S)
  BY <1>1, <1>2, <1>3, SortedKeys
<1>5. ListEndpoints(d, f) \in Seq(Nat \X Nat)
  BY <1>1, <1>4, SeqDef
<1> QED
  BY <1>4, <1>5 DEF S

\* A row for every operation.
LEMMA RowsOfKeys ==
  ASSUME NEW d, WellFormed(d) PROVE EndpointRows(d) = {EndpointRow(d, k) : k \in Keys(d)}
<1>1. \A k \in Keys(d) : KeepsEndpoint(d, Filter(None, None, None, None), k)
  BY DEF KeepsEndpoint, Filter
<1>2. Range(ListEndpoints(d, Filter(None, None, None, None))) = Keys(d)
  BY <1>1, EndpointsListed
<1> QED
  BY <1>2 DEF EndpointRows

\* Of every tag the first position is stored, and no other.
LEMMA TagRowsHold ==
  ASSUME NEW op, op.tags \in Seq(Nat \X Nat)
  PROVE  /\ IsFiniteSet(TagRows(op))
         /\ \A t \in TagRows(op) :
              /\ t[1] \in DOMAIN op.tags /\ t[1] \in Nat /\ t[2] = op.tags[t[1]]
              /\ t = <<t[1], t[2]>>
              /\ \A h \in 1..t[1] - 1 : op.tags[h] # t[2]
         /\ \A i \in DOMAIN op.tags : \E t \in TagRows(op) : t[2] = op.tags[i]
<1>1. Len(op.tags) \in Nat /\ DOMAIN op.tags = 1..Len(op.tags)
  BY LenProperties
<1> DEFINE First == {j \in DOMAIN op.tags : \A h \in 1..j-1 : op.tags[h] # op.tags[j]}
           f == [i \in First |-> <<i, op.tags[i]>>]
<1>2. TagRows(op) = {f[i] : i \in First}
  BY DEF TagRows
<1>3. IsFiniteSet(First)
  <2>1. IsFiniteSet(1..Len(op.tags))
    BY <1>1, FS_Interval
  <2> QED
    BY <1>1, <2>1, FS_Subset
<1>4. IsFiniteSet(TagRows(op))
  <2>1. DOMAIN f = First
    OBVIOUS
  <2> HIDE DEF First, f
  <2> QED
    BY <1>2, <1>3, <2>1, FiniteImage
<1>5. ASSUME NEW i \in DOMAIN op.tags PROVE \E t \in TagRows(op) : t[2] = op.tags[i]
  <2> DEFINE S == {j \in DOMAIN op.tags : op.tags[j] = op.tags[i]}
  <2>1. S \in SUBSET Nat /\ S # {}
    BY <1>1
  <2>2. PICK m \in S : \A y \in S : m <= y
    <3> HIDE DEF S
    <3> QED
      BY <2>1, LeastExists
  <2>3. ASSUME NEW h \in 1..m - 1 PROVE op.tags[h] # op.tags[m]
    <3>1. m \in 1..Len(op.tags) /\ Len(op.tags) \in Nat
      BY <1>1
    <3>2. h \in 1..Len(op.tags) /\ ~(m <= h)
      <4> HIDE DEF S
      <4> QED
        BY ONLY <3>1, h \in 1..m - 1
    <3> QED
      BY <1>1, <2>2, <3>2
  <2>4. m \in First /\ f[m][2] = op.tags[i]
    BY <2>3
  <2> QED
    BY <1>2, <2>4
<1>6. ASSUME NEW t \in TagRows(op)
      PROVE  /\ t[1] \in DOMAIN op.tags /\ t[1] \in Nat /\ t[2] = op.tags[t[1]]
             /\ t = <<t[1], t[2]>>
             /\ \A h \in 1..t[1] - 1 : op.tags[h] # t[2]
  BY <1>1 DEF TagRows
<1> QED
  BY <1>4, <1>5, <1>6

\* The rows of a document select what the analyzer lists of it.
LEMMA EndpointParity ==
  ASSUME NEW d, WellFormed(d), NEW f
  PROVE  SelectEndpoints(EndpointRows(d), f) = ListEndpoints(d, f)
<1> DEFINE kept(x) == /\ f.method = None \/ x.key[2] = f.method
                      /\ f.paths = None \/ x.key[1] \in f.paths
                      /\ f.deprecated = None \/ x.deprecated = f.deprecated
                      /\ f.tag = None \/ \E t \in x.tags : Fold(t[2]) = f.tag
           S == {r.key : r \in {x \in EndpointRows(d) : kept(x)}}
<1>1. ASSUME NEW k \in Keys(d)
      PROVE  /\ EndpointRow(d, k).key = k
             /\ kept(EndpointRow(d, k)) <=> KeepsEndpoint(d, f, k)
  <2>1. d.ops[k].tags \in Seq(Nat \X Nat)
    BY DEF WellFormed, Keys
  <2>2. (\E t \in TagRows(d.ops[k]) : Fold(t[2]) = f.tag) <=> HasTag(d.ops[k], f.tag)
    BY <2>1, TagRowsHold DEF HasTag, Range
  <2> QED
    BY <2>2 DEF EndpointRow, KeepsEndpoint
<1> HIDE DEF kept
<1>2. S = {k \in Keys(d) : KeepsEndpoint(d, f, k)}
  BY <1>1, RowsOfKeys
<1> QED
  BY <1>2 DEF SelectEndpoints, ListEndpoints, kept

\* A search looks in the rows for what it looks for in the document.
LEMMA SearchFieldsAreRecorded ==
  ASSUME NEW d, NEW op
  PROVE  FieldRows(d, op) =
           <<{p.name : p \in Range(op.params)}, BodyFields(d, op.request), ResponseFields(d, op)>>
<1> DEFINE fields(v) == Labels(d, v) \cup UNION {Labels(d, u) : u \in Held(d, v, "items")}
           ofBody(content) == UNION {fields(v) : v \in Media(content)}
<1>1. \A content : BodyFields(d, content) = ofBody(content)
  BY DEF BodyFields, FieldNames
<1>2. ResponseFields(d, op) = UNION {ofBody(op.responses[i].content) : i \in DOMAIN op.responses}
  BY <1>1 DEF ResponseFields
<1> HIDE DEF fields
<1>3. UNION {ofBody(op.responses[i].content) : i \in DOMAIN op.responses}
        = UNION {ofBody(r.content) : r \in Range(op.responses)}
  <2> HIDE DEF ofBody
  <2> QED
    BY DEF Range
<1>4. FieldRows(d, op) = <<{p.name : p \in Range(op.params)}, ofBody(op.request),
                          UNION {ofBody(r.content) : r \in Range(op.responses)}>>
  BY DEF FieldRows, fields
<1> QED
  BY <1>1, <1>2, <1>3, <1>4

LEMMA SearchesAgree ==
  ASSUME NEW d, WellFormed(d), NEW word
  PROVE  SearchEndpoints(EndpointRows(d), word) = SearchSpec(d, word)
<1> DEFINE inRow(r) == [key |-> r.key, score |-> MatchScore(r.text \o r.fields, word)]
           inDoc(k) == [key |-> k, score |-> MatchScore(Places(d, d.ops[k]), word)]
<1>1. ASSUME NEW k PROVE inRow(EndpointRow(d, k)) = inDoc(k)
  <2>1. EndpointRow(d, k).text \o EndpointRow(d, k).fields = Places(d, d.ops[k])
    BY SearchFieldsAreRecorded DEF EndpointRow, Places
  <2>2. EndpointRow(d, k).key = k
    BY DEF EndpointRow
  <2> QED
    BY <2>1, <2>2
<1> HIDE DEF inRow, inDoc
<1>2. {inRow(r) : r \in EndpointRows(d)} = {inDoc(k) : k \in Keys(d)}
  BY <1>1, RowsOfKeys
<1> QED
  BY <1>2 DEF SearchEndpoints, SearchSpec, inRow, inDoc

\* A component is listed once, with its count of the finitely many uses.
KeptSchemas(filter) == {v \in Components : filter = None \/ v \in filter}
Infos(d, filter) == {SchemaInfo(d, v, Usage(d)) : v \in KeptSchemas(filter)}

LEMMA SchemasListed ==
  ASSUME NEW d, WellFormed(d), NEW filter
  PROVE  /\ ListSchemas(d, filter) \in Seq(Infos(d, filter))
         /\ Range(ListSchemas(d, filter)) = Infos(d, filter)
<1> DEFINE S == Infos(d, filter)
           info == [v \in KeptSchemas(filter) |-> SchemaInfo(d, v, Usage(d))]
<1>1. IsFiniteSet(Usage(d))
  <2>1. IsFiniteSet(Keys(d)) /\ IsFiniteSet(Components)
    BY DocumentsAssumption DEF WellFormed, Keys
  <2>2. Usage(d) \subseteq Keys(d) \X Components
    BY DEF Usage, CollectOperationRefs
  <2> QED
    BY <2>1, <2>2, FS_Product, FS_Subset
<1>2. ASSUME NEW v \in KeptSchemas(filter)
      PROVE  /\ info[v].name = v /\ v \in Nat
             /\ info[v].usedBy \in Nat
  <2>1. IsFiniteSet({u \in Usage(d) : u[2] = v})
    BY <1>1, FS_Subset
  <2>2. Cardinality({u \in Usage(d) : u[2] = v}) \in Nat
    BY <2>1, FS_CardinalityType
  <2> QED
    BY <2>2, GraphAssumption DEF SchemaInfo, KeptSchemas
<1>3. S = {info[v] : v \in KeptSchemas(filter)} /\ DOMAIN info = KeptSchemas(filter)
  BY DEF Infos
<1>4. IsFiniteSet(KeptSchemas(filter))
  BY DocumentsAssumption, FS_Subset DEF KeptSchemas
<1>5. ListSchemas(d, filter) = Sorted(S, ByUseThenName)
  BY DEF ListSchemas, Infos, KeptSchemas
<1> HIDE DEF S, info
<1>6. IsFiniteSet(S)
  BY <1>3, <1>4, FiniteImage
<1>7. /\ \A x \in S : x.name \in Nat /\ x.usedBy \in Nat
      /\ \A x, y \in S : x.name = y.name => x = y
  BY <1>2, <1>3
<1> QED
  BY <1>5, <1>6, <1>7, SortedSchemas DEF S

LEMMA SchemaParity ==
  ASSUME NEW d, WellFormed(d), NEW filter
  PROVE  SelectSchemas(SchemaRows(d), filter) = ListSchemas(d, filter)
<1>1. SchemaRows(d) = Infos(d, None) /\ KeptSchemas(None) = Components
  BY SchemasListed DEF SchemaRows, KeptSchemas
<1>2. \A v : SchemaInfo(d, v, Usage(d)).name = v
  BY DEF SchemaInfo
<1>3. {r \in SchemaRows(d) : filter = None \/ r.name \in filter} = Infos(d, filter)
  <2>1. {r \in Infos(d, None) : filter = None \/ r.name \in filter} = Infos(d, filter)
    BY <1>1, <1>2 DEF Infos, KeptSchemas
  <2> QED
    BY <1>1, <2>1
<1> QED
  BY <1>3 DEF SelectSchemas, ListSchemas, Infos, KeptSchemas

\* An operation's tags are shown in their order, each once.
LEMMA TagsShown ==
  ASSUME NEW op, op.tags \in Seq(Nat \X Nat), NEW r, r.tags = TagRows(op),
         NEW shown, shown = EndpointTags(r)
  PROVE  LET at(t) == Min({i \in DOMAIN op.tags : op.tags[i] = t}) IN
         /\ Range(shown) = Range(op.tags)
         /\ \A i, j \in DOMAIN shown : i < j => at(shown[i]) < at(shown[j])
<1> DEFINE at(t) == Min({i \in DOMAIN op.tags : op.tags[i] = t})
           rows == Sorted(TagRows(op), ByPosition)
<1>1. Len(op.tags) \in Nat /\ DOMAIN op.tags = 1..Len(op.tags)
  BY LenProperties
<1>2. ASSUME NEW t \in TagRows(op) PROVE at(t[2]) = t[1] /\ t[1] \in Nat /\ t[2] \in Range(op.tags)
  <2> DEFINE S == {i \in DOMAIN op.tags : op.tags[i] = t[2]}
  <2>1. t[1] \in S /\ S \in SUBSET Nat
    BY <1>1, TagRowsHold
  <2>2. ASSUME NEW y \in S PROVE t[1] <= y
    <3>1. y \in 1..Len(op.tags) /\ op.tags[y] = t[2]
      BY <1>1
    <3>2. t[1] \in Nat /\ \A h \in 1..t[1] - 1 : op.tags[h] # t[2]
      BY TagRowsHold
    <3>3. y \in Nat /\ y >= 1 /\ y \notin 1..t[1] - 1
      BY <1>1, <3>1, <3>2
    <3> HIDE DEF S
    <3> QED
      BY <3>2, <3>3
  <2>3. Min(S) \in S /\ \A y \in S : Min(S) <= y
    <3> HIDE DEF S
    <3> QED
      BY <2>1, LeastExists
  <2>4. Min(S) = t[1]
    <3> HIDE DEF S
    <3>1. Min(S) \in Nat /\ t[1] \in Nat /\ Min(S) <= t[1] /\ t[1] <= Min(S)
      BY <2>1, <2>2, <2>3
    <3> QED
      BY <3>1
  <2>5. t[2] \in Range(op.tags)
    BY <2>1 DEF Range
  <2> QED
    BY <2>1, <2>4, <2>5
<1>3. /\ IsFiniteSet(TagRows(op)) /\ \A t \in TagRows(op) : t[1] \in Nat
      /\ \A t, u \in TagRows(op) : t[1] = u[1] => t = u
  BY TagRowsHold
<1>4. /\ rows \in Seq(TagRows(op)) /\ Range(rows) = TagRows(op)
      /\ \A i, j \in DOMAIN rows : i < j => rows[i][1] < rows[j][1]
  BY <1>3, SortedTags DEF ByPosition
<1>5. shown = [i \in DOMAIN rows |-> rows[i][2]]
  BY DEF EndpointTags
<1> HIDE DEF rows, at
<1>6. \A i \in DOMAIN rows : rows[i] \in TagRows(op)
  BY <1>4 DEF Range
<1>7. Range(shown) = Range(op.tags)
  <2>1. Range(shown) = {t[2] : t \in TagRows(op)}
    BY <1>4, <1>5 DEF Range
  <2>2. \A x \in Range(op.tags) : \E t \in TagRows(op) : t[2] = x
    BY TagRowsHold DEF Range
  <2> QED
    BY <1>2, <2>1, <2>2
<1>8. ASSUME NEW i \in DOMAIN shown, NEW j \in DOMAIN shown, i < j PROVE at(shown[i]) < at(shown[j])
  <2>1. at(shown[i]) = rows[i][1] /\ at(shown[j]) = rows[j][1] /\ i \in DOMAIN rows /\ j \in DOMAIN rows
    BY <1>2, <1>5, <1>6
  <2> QED
    BY <1>4, <1>8, <2>1
<1> QED
  BY <1>7, <1>8 DEF at

\* A document of a call is one a spec may have.
LEMMA DocumentsAreWellFormed == ToolsSpec => [](doc \in Documents /\ WellFormed(doc))
<1>1. TypesInv => doc \in Documents /\ WellFormed(doc)
  BY DocumentsAssumption DEF TypesInv, Frame
<1> QED
  BY <1>1, TypesInvariance, PTL

\* A listing selected from the catalog is the one the analyzer makes of the
\* document, for every document and filter (record.go:105-106, store.go:455).
THEOREM ListingParityTheorem == ToolsSpec => []ListingParity
<1>1. ASSUME WellFormed(doc) PROVE ListingParity
  <2>1. \A f : SelectEndpoints(Rows, f) = ListEndpoints(doc, f)
    BY <1>1, EndpointParity DEF Rows
  <2>2. \A f : SelectSchemas(SchemaRows(doc), f) = ListSchemas(doc, f)
    BY <1>1, SchemaParity
  <2>3. \A k : EndpointRow(doc, k).key = k /\ EndpointRow(doc, k).tags = TagRows(doc.ops[k])
    BY DEF EndpointRow
  <2>4. Rows = {EndpointRow(doc, k) : k \in Keys(doc)}
    BY <1>1, RowsOfKeys DEF Rows
  <2>5. {r.key : r \in Rows} = Keys(doc)
    BY <2>3, <2>4
  <2>6. ASSUME NEW r \in Rows
        PROVE  LET tags == doc.ops[r.key].tags
                   shown == EndpointTags(r)
                   at(t) == Min({i \in DOMAIN tags : tags[i] = t}) IN
               /\ Range(shown) = Range(tags)
               /\ \A i, j \in DOMAIN shown : i < j => at(shown[i]) < at(shown[j])
    <3>1. r.key \in Keys(doc) /\ r.tags = TagRows(doc.ops[r.key])
      BY <2>3, <2>4
    <3>2. doc.ops[r.key].tags \in Seq(Nat \X Nat)
      BY <1>1, <3>1 DEF WellFormed, Keys
    <3> QED
      BY <3>1, <3>2, TagsShown
  <2> QED
    BY <2>1, <2>2, <2>5, <2>6 DEF ListingParity
<1> QED
  BY <1>1, DocumentsAreWellFormed, PTL

\* A search finds the same operations in the same order in the catalog as in the
\* document, for every word (query.go:158-181, analyzer.go:207-270).
THEOREM SearchParityTheorem == ToolsSpec => []SearchParity
<1>1. WellFormed(doc) => SearchParity
  BY SearchesAgree DEF SearchParity, Rows
<1> QED
  BY <1>1, DocumentsAreWellFormed, PTL

\* What diff_endpoints reports accounts for the two listings under its filter
\* (analyzer.go:277-339).
THEOREM DiffTheorem == ToolsSpec => []DiffAccountsForListings
<1>1. ASSUME WellFormed(doc) PROVE DiffAccountsForListings
  <2> SUFFICES ASSUME NEW d \in Documents,
                      NEW f \in {x \in Filters : x.tag = None /\ x.deprecated = None}
               PROVE  LET old == Range(ListEndpoints(doc, f))
                          new == Range(ListEndpoints(d, f))
                          diff == DiffSpecs(doc, d, f) IN
                      /\ diff.added = new \ old /\ diff.removed = old \ new
                      /\ diff.changed \subseteq old \cap new
                      /\ d = doc => diff.changed = {}
    BY DEF DiffAccountsForListings
  <2>1. /\ Range(ListEndpoints(doc, f)) = {k \in Keys(doc) : KeepsEndpoint(doc, f, k)}
        /\ Range(ListEndpoints(d, f)) = {k \in Keys(d) : KeepsEndpoint(d, f, k)}
    BY <1>1, DocumentsAssumption, EndpointsListed
  <2>2. \A k : KeepsEndpoint(doc, f, k) = KeepsEndpoint(d, f, k)
    BY DEF KeepsEndpoint
  <2>3. \A op : Changes(op, op) = {}
    BY DEF Changes
  <2> QED
    BY <2>1, <2>2, <2>3 DEF DiffSpecs
<1> QED
  BY <1>1, DocumentsAreWellFormed, PTL

-----------------------------------------------------------------------------
(* The tags of a document *)

Chosen(s) == CHOOSE x \in s : TRUE

\* A sum over a set, taken element by element: MapThenSumSet's recursion.
SumsTo(g, f, S, n) ==
  /\ g = [s \in SUBSET S |-> g[s]]
  /\ \A s \in SUBSET S : Cardinality(s) <= n =>
       g[s] = IF s = {} THEN 0 ELSE f[Chosen(s)] + g[s \ {Chosen(s)}]

\* The element taken leaves one less.
LEMMA OneLess ==
  ASSUME NEW S, IsFiniteSet(S), NEW s \in SUBSET S
  PROVE  /\ IsFiniteSet(s) /\ Cardinality(s) \in Nat
         /\ s # {} => /\ Chosen(s) \in s
                      /\ s \ {Chosen(s)} \in SUBSET S
                      /\ Cardinality(s \ {Chosen(s)}) = Cardinality(s) - 1
<1>1. IsFiniteSet(s) /\ Cardinality(s) \in Nat
  BY FS_Subset, FS_CardinalityType
<1>2. s # {} => Chosen(s) \in s
  BY DEF Chosen
<1>3. s # {} => Cardinality(s \ {Chosen(s)}) = Cardinality(s) - 1
  BY <1>1, <1>2, FS_RemoveElement, Zenon
<1> QED
  BY <1>1, <1>2, <1>3

\* There is one.
LEMMA SumExists ==
  ASSUME NEW S, IsFiniteSet(S), NEW f \in [S -> Nat]
  PROVE  \E g : SumsTo(g, f, S, Cardinality(S))
<1> DEFINE T == {n \in Nat : \E g : SumsTo(g, f, S, n)}
<1>1. 0 \in T
  <2> DEFINE g == [s \in SUBSET S |-> 0]
  <2>1. \A s \in SUBSET S : Cardinality(s) <= 0 => s = {}
    <3>1. \A s \in SUBSET S : IsFiniteSet(s) /\ Cardinality(s) \in Nat
      BY OneLess
    <3> QED
      BY <3>1, FS_EmptySet
  <2>2. SumsTo(g, f, S, 0)
    BY <2>1 DEF SumsTo
  <2> QED
    BY <2>2
<1>2. ASSUME NEW n \in Nat, n \in T PROVE n + 1 \in T
  <2>1. PICK g : SumsTo(g, f, S, n)
    BY <1>2
  <2> DEFINE less(s) == s \ {Chosen(s)}
             h == [s \in SUBSET S |-> IF Cardinality(s) = n + 1 THEN f[Chosen(s)] + g[less(s)] ELSE g[s]]
  <2>2. ASSUME NEW s \in SUBSET S
        PROVE  /\ Cardinality(s) \in Nat
               /\ Cardinality(s) = n + 1 => s # {}
               /\ s # {} => /\ Chosen(s) \in S /\ less(s) \in SUBSET S
                            /\ Cardinality(less(s)) = Cardinality(s) - 1
    BY OneLess, FS_EmptySet
  <2>3. h = [s \in SUBSET S |-> h[s]]
    OBVIOUS
  <2>4. ASSUME NEW s \in SUBSET S, Cardinality(s) <= n + 1
        PROVE  h[s] = IF s = {} THEN 0 ELSE f[Chosen(s)] + h[less(s)]
    <3> HIDE DEF less
    <3>1. CASE Cardinality(s) = n + 1
      <4>1. s # {} /\ less(s) \in SUBSET S /\ Cardinality(less(s)) # n + 1
        BY <2>2, <3>1
      <4> QED
        BY <3>1, <4>1
    <3>2. CASE Cardinality(s) # n + 1
      <4>1. Cardinality(s) <= n
        BY <2>2, <2>4, <3>2
      <4>2. g[s] = IF s = {} THEN 0 ELSE f[Chosen(s)] + g[less(s)]
        BY <2>1, <4>1 DEF SumsTo, less
      <4>3. s # {} => less(s) \in SUBSET S /\ Cardinality(less(s)) # n + 1
        BY <2>2, <4>1
      <4> QED
        BY <3>2, <4>2, <4>3
    <3> QED
      BY <3>1, <3>2
  <2> HIDE DEF h
  <2>5. SumsTo(h, f, S, n + 1)
    BY <2>3, <2>4 DEF SumsTo
  <2> QED
    BY <2>5
<1>3. Cardinality(S) \in T
  <2>1. Cardinality(S) \in Nat
    BY FS_CardinalityType
  <2> HIDE DEF T
  <2> QED
    BY <1>1, <1>2, <2>1, NatsByInduction
<1> QED
  BY <1>3

\* The sum of the sizes of sets without a common element is the size of their union.
Sizes(f, W, S) ==
  /\ \A x \in S : IsFiniteSet(W[x]) /\ Cardinality(W[x]) = f[x]
  /\ \A x, y \in S : x # y => W[x] \cap W[y] = {}

LEMMA SumOfSizes ==
  ASSUME NEW S, IsFiniteSet(S), NEW f \in [S -> Nat], NEW W, Sizes(f, W, S),
         NEW g, SumsTo(g, f, S, Cardinality(S))
  PROVE  g[S] = Cardinality(UNION {W[x] : x \in S})
<1> DEFINE All(s) == UNION {W[x] : x \in s}
           Right(s) == IsFiniteSet(All(s)) /\ g[s] = Cardinality(All(s))
           T == {n \in Nat : \A s \in SUBSET S : Cardinality(s) = n => Right(s)}
<1>1. ASSUME NEW s \in SUBSET S
      PROVE  /\ IsFiniteSet(s) /\ Cardinality(s) \in Nat /\ Cardinality(s) <= Cardinality(S)
             /\ g[s] = IF s = {} THEN 0 ELSE f[Chosen(s)] + g[s \ {Chosen(s)}]
  <2>1. IsFiniteSet(s) /\ Cardinality(s) \in Nat /\ Cardinality(s) <= Cardinality(S)
    BY OneLess, FS_Subset
  <2> QED
    BY <2>1 DEF SumsTo
<1>2. 0 \in T
  <2> SUFFICES ASSUME NEW s \in SUBSET S, Cardinality(s) = 0 PROVE Right(s)
    OBVIOUS
  <2>1. s = {} /\ All(s) = {}
    BY <1>1, FS_EmptySet
  <2> QED
    BY <1>1, <2>1, FS_EmptySet
<1>3. ASSUME NEW n \in Nat, n \in T PROVE n + 1 \in T
  <2> SUFFICES ASSUME NEW s \in SUBSET S, Cardinality(s) = n + 1 PROVE Right(s)
    OBVIOUS
  <2> DEFINE c == Chosen(s)
             r == s \ {c}
  <2>1. s # {}
    BY FS_EmptySet
  <2>2. c \in s /\ r \in SUBSET S /\ Cardinality(r) = n
    BY <2>1, OneLess
  <2>3. g[s] = f[c] + g[r]
    BY <1>1, <2>1
  <2>4. Right(r)
    BY <1>3, <2>2
  <2> HIDE DEF c
  <2>5. All(s) = W[c] \cup All(r) /\ W[c] \cap All(r) = {}
    BY <2>2 DEF Sizes
  <2>6. IsFiniteSet(W[c]) /\ Cardinality(W[c]) = f[c] /\ f[c] \in Nat
    BY <2>2 DEF Sizes
  <2> HIDE DEF All, r
  <2>7. /\ IsFiniteSet(W[c] \cup All(r))
        /\ Cardinality(W[c] \cup All(r)) = Cardinality(W[c]) + Cardinality(All(r)) - Cardinality(W[c] \cap All(r))
    BY <2>4, <2>6, FS_Union
  <2>8. Cardinality(W[c] \cap All(r)) = 0 /\ Cardinality(All(r)) \in Nat
    BY <2>4, <2>5, FS_EmptySet, FS_CardinalityType
  <2> QED
    BY <2>3, <2>4, <2>5, <2>6, <2>7, <2>8
<1>4. Cardinality(S) \in T
  <2>1. Cardinality(S) \in Nat
    BY FS_CardinalityType
  <2> HIDE DEF T
  <2> QED
    BY <1>2, <1>3, <2>1, NatsByInduction
<1> QED
  BY <1>4

\* A tag of an operation that has no tag twice is counted once.
LEMMA CountedIs ==
  ASSUME NEW d, NEW tag, NEW keys, IsFiniteSet(keys),
         \A k \in keys : Occurrences(d.ops[k], tag) = 1
  PROVE  Counted(d, tag, keys) = Cardinality(keys)
<1> DEFINE f == [k \in keys |-> 1]
           W == [k \in keys |-> {k}]
           Made(g) == g = [s \in SUBSET keys |->
                             IF s = {} THEN 0
                             ELSE Occurrences(d.ops[Chosen(s)], tag) + g[s \ {Chosen(s)}]]
           made == CHOOSE g : Made(g)
<1>1. ASSUME NEW s \in SUBSET keys, s # {} PROVE Occurrences(d.ops[Chosen(s)], tag) = 1 /\ f[Chosen(s)] = 1
  <2>1. Chosen(s) \in keys
    BY <1>1, OneLess
  <2> HIDE DEF W, made
  <2> QED
    BY <2>1
<1>2. \E g : Made(g)
  <2>1. PICK g : SumsTo(g, f, keys, Cardinality(keys))
    BY SumExists
  <2>2. \A s \in SUBSET keys : Cardinality(s) <= Cardinality(keys)
    BY FS_Subset
  <2>3. g = [s \in SUBSET keys |-> g[s]]
    BY <2>1 DEF SumsTo
  <2> HIDE DEF f
  <2>4. Made(g)
    BY <1>1, <2>1, <2>2, <2>3 DEF SumsTo
  <2> QED
    BY <2>4
<1>3. Made(made)
  <2> HIDE DEF Made
  <2> QED
    BY <1>2
<1>4. Counted(d, tag, keys) = made[keys]
  BY DEF Counted, MapThenSumSet, MapThenFoldSet, Chosen
<1> HIDE DEF made
<1>5. ASSUME NEW s \in SUBSET keys
      PROVE  made[s] = IF s = {} THEN 0 ELSE f[Chosen(s)] + made[s \ {Chosen(s)}]
  <2>1. made[s] = IF s = {} THEN 0 ELSE Occurrences(d.ops[Chosen(s)], tag) + made[s \ {Chosen(s)}]
    BY <1>3
  <2> HIDE DEF f
  <2> QED
    BY <1>1, <2>1
<1>6. SumsTo(made, f, keys, Cardinality(keys))
  <2>1. made = [s \in SUBSET keys |-> made[s]]
    BY <1>3
  <2> HIDE DEF f, Made
  <2> QED
    BY <1>5, <2>1 DEF SumsTo
<1>7. Sizes(f, W, keys)
  BY FS_Singleton DEF Sizes
<1>8. f \in [keys -> Nat] /\ UNION {W[k] : k \in keys} = keys
  OBVIOUS
<1> HIDE DEF f, W
<1> QED
  BY <1>4, <1>6, <1>7, <1>8, SumOfSizes

\* A tag that an operation has at all it has once.
LEMMA OccursOnce ==
  ASSUME NEW op, op.tags \in Seq(Nat \X Nat), NEW tag, Fold(tag) # Fold(Untagged),
         \A i, j \in DOMAIN op.tags : Fold(op.tags[i]) = Fold(op.tags[j]) => i = j
  PROVE  /\ Occurrences(op, tag) > 0 <=> tag \in Range(op.tags)
         /\ Occurrences(op, tag) > 0 => Occurrences(op, tag) = 1
<1> DEFINE At(s) == {i \in DOMAIN s : s[i] = tag}
<1>1. Occurrences(op, tag) = Cardinality(At(TagsOf(op)))
  BY DEF Occurrences
<1>2. CASE op.tags = << >>
  <2>1. TagsOf(op) = <<Untagged>> /\ Range(op.tags) = {}
    BY <1>2 DEF TagsOf, Range
  <2>2. At(TagsOf(op)) = {}
    BY <2>1 DEF Fold
  <2>3. Occurrences(op, tag) = 0
    BY <1>1, <2>2, FS_EmptySet
  <2> QED
    BY <2>1, <2>3
<1>3. CASE op.tags # << >> /\ tag \notin Range(op.tags)
  <2>1. At(TagsOf(op)) = {}
    BY <1>3 DEF TagsOf, Range
  <2>2. Occurrences(op, tag) = 0
    BY <1>1, <2>1, FS_EmptySet
  <2> QED
    BY <1>3, <2>2
<1>4. CASE op.tags # << >> /\ tag \in Range(op.tags)
  <2>1. PICK i \in DOMAIN op.tags : op.tags[i] = tag
    BY <1>4 DEF Range
  <2>2. At(TagsOf(op)) = {i}
    BY <1>4, <2>1 DEF TagsOf
  <2>3. Cardinality(At(TagsOf(op))) = 1
    BY <2>2, FS_Singleton
  <2> QED
    BY <1>1, <1>4, <2>3
<1> QED
  BY <1>2, <1>3, <1>4

\* analyze_tags and list_endpoints count an operation alike by a tag it has once,
\* for every document and word (analyzer.go:112-126, query.go:107-113).
THEOREM TagCountsTheorem == ToolsSpec => []TagCountsMatchListing
<1>1. ASSUME WellFormed(doc), \A k \in Keys(doc) : LET tags == doc.ops[k].tags IN
                 \A i, j \in DOMAIN tags : Fold(tags[i]) = Fold(tags[j]) => i = j,
             NEW w \in Tags \ {Fold(Untagged)}
      PROVE  LET summary == AnalyzeTags(doc) IN
             MapThenSumSet(LAMBDA t : summary[t].count, {t \in DOMAIN summary : Fold(t) = w})
               = Len(ListEndpoints(doc, [NoFilter EXCEPT !.tag = w]))
  <2> DEFINE summary == AnalyzeTags(doc)
             S == {t \in DOMAIN summary : Fold(t) = w}
             Under(t) == {k \in Keys(doc) : t \in Range(doc.ops[k].tags)}
             listed == {k \in Keys(doc) : HasTag(doc.ops[k], w)}
  <2>1. ASSUME NEW k \in Keys(doc), NEW t, Fold(t) = w
        PROVE  /\ Occurrences(doc.ops[k], t) > 0 <=> k \in Under(t)
               /\ k \in Under(t) => Occurrences(doc.ops[k], t) = 1
    <3>1. doc.ops[k].tags \in Seq(Nat \X Nat)
      BY <1>1, <2>1 DEF WellFormed, Keys
    <3> QED
      BY <1>1, <2>1, <3>1, OccursOnce
  <2>2. IsFiniteSet(Keys(doc))
    BY <1>1 DEF WellFormed, Keys
  <2>3. ASSUME NEW t \in S
        PROVE  IsFiniteSet(Under(t)) /\ Cardinality(Under(t)) \in Nat /\ summary[t].count = Cardinality(Under(t))
    <3>1. IsFiniteSet(Under(t)) /\ Cardinality(Under(t)) \in Nat
      BY <2>2, FS_Subset, FS_CardinalityType
    <3> DEFINE tagged == {k \in Keys(doc) : Occurrences(doc.ops[k], t) > 0}
    <3>2. tagged = Under(t)
      BY <2>1
    <3>3. summary[t].count = Counted(doc, t, Under(t))
      <4> HIDE DEF Under
      <4>1. t \in UNION {Range(TagsOf(doc.ops[k])) : k \in Keys(doc)}
        BY DEF AnalyzeTags
      <4>2. summary[t] = TagSummary(doc, t)
        BY <4>1 DEF AnalyzeTags
      <4>3. TagSummary(doc, t).count = Counted(doc, t, tagged)
        BY DEF TagSummary
      <4> HIDE DEF tagged, summary
      <4> QED
        BY <3>2, <4>2, <4>3
    <3>4. \A k \in Under(t) : Occurrences(doc.ops[k], t) = 1
      BY <2>1
    <3> HIDE DEF Under, summary
    <3> QED
      BY <3>1, <3>3, <3>4, CountedIs
  <2>4. UNION {Under(t) : t \in S} = listed
    <3>1. ASSUME NEW k \in Keys(doc), NEW t \in Range(doc.ops[k].tags) PROVE t \in DOMAIN summary
      <4>1. t \in Range(TagsOf(doc.ops[k]))
        <5>1. doc.ops[k].tags # << >>
          BY <3>1 DEF Range
        <5> QED
          BY <3>1, <5>1 DEF TagsOf
      <4> QED
        BY <4>1 DEF AnalyzeTags
    <3> HIDE DEF summary
    <3> QED
      BY <3>1 DEF HasTag
  <2>5. ASSUME NEW t \in S, NEW u \in S, t # u PROVE Under(t) \cap Under(u) = {}
    <3> SUFFICES ASSUME NEW k \in Keys(doc), t \in Range(doc.ops[k].tags), u \in Range(doc.ops[k].tags)
                 PROVE  FALSE
      OBVIOUS
    <3>1. PICK i \in DOMAIN doc.ops[k].tags, j \in DOMAIN doc.ops[k].tags :
            t = doc.ops[k].tags[i] /\ u = doc.ops[k].tags[j]
      BY DEF Range
    <3> QED
      BY <1>1, <2>5, <3>1
  <2>6. IsFiniteSet(S)
    <3> DEFINE its == [k \in listed |-> CHOOSE t \in Range(doc.ops[k].tags) : Fold(t) = w]
    <3>1. IsFiniteSet(listed) /\ DOMAIN its = listed
      BY <2>2, FS_Subset
    <3>2. ASSUME NEW t \in S PROVE \E k \in listed : its[k] = t
      <4>1. PICK k \in Keys(doc) : t \in Range(TagsOf(doc.ops[k]))
        BY DEF AnalyzeTags
      <4>2. t \in Range(doc.ops[k].tags) /\ Fold(t) = w /\ k \in listed
        <5>1. doc.ops[k].tags # << >>
          BY <4>1 DEF TagsOf, Range, Fold
        <5> QED
          BY <4>1, <5>1 DEF TagsOf, HasTag
      <4>3. its[k] \in Range(doc.ops[k].tags) /\ Fold(its[k]) = w
        BY <4>2
      <4> HIDE DEF its
      <4>4. its[k] = t
        <5>1. PICK i \in DOMAIN doc.ops[k].tags, j \in DOMAIN doc.ops[k].tags :
                t = doc.ops[k].tags[i] /\ its[k] = doc.ops[k].tags[j]
          BY <4>2, <4>3 DEF Range
        <5> QED
          BY <1>1, <4>2, <4>3, <5>1
      <4> QED
        BY <4>2, <4>4
    <3> HIDE DEF its, S, listed
    <3>3. IsFiniteSet({its[k] : k \in listed})
      BY <3>1, FiniteImage
    <3> QED
      BY <3>2, <3>3, FS_Subset
  <2>7. Len(ListEndpoints(doc, [NoFilter EXCEPT !.tag = w])) = Cardinality(listed)
    <3> DEFINE f == [NoFilter EXCEPT !.tag = w]
    <3>1. f.tag = w /\ f.paths = None /\ f.method = None /\ f.deprecated = None /\ w # None
      BY NoneAssumption DEF NoFilter, Filter
    <3>2. {k \in Keys(doc) : KeepsEndpoint(doc, f, k)} = listed
      BY <3>1 DEF KeepsEndpoint
    <3> HIDE DEF f
    <3>3. Len(ListEndpoints(doc, f)) = Cardinality(listed)
      BY <1>1, <3>2, EndpointsListed
    <3> QED
      BY <3>3 DEF f
  <2>8. IsFiniteSet(listed)
    BY <2>2, FS_Subset
  <2> DEFINE f == [t \in S |-> summary[t].count]
             W == [t \in S |-> Under(t)]
             Made(g) == g = [s \in SUBSET S |->
                               IF s = {} THEN 0
                               ELSE summary[Chosen(s)].count + g[s \ {Chosen(s)}]]
             made == CHOOSE g : Made(g)
             total == MapThenSumSet(LAMBDA t : summary[t].count, S)
  <2>9. total = made[S]
    <3> HIDE DEF summary
    <3> QED
      BY DEF MapThenSumSet, MapThenFoldSet, Chosen
  <2> HIDE DEF summary, S, Under, listed
  <2>10. ASSUME NEW s \in SUBSET S, s # {} PROVE f[Chosen(s)] = summary[Chosen(s)].count
    <3>1. Chosen(s) \in S
      BY <2>6, <2>10, OneLess
    <3> QED
      BY <3>1
  <2>11. f \in [S -> Nat] /\ Sizes(f, W, S) /\ UNION {W[t] : t \in S} = listed
    BY <2>3, <2>4, <2>5 DEF Sizes
  <2>12. \E g : Made(g)
    <3>1. PICK g : SumsTo(g, f, S, Cardinality(S))
      BY <2>6, <2>11, SumExists
    <3>2. \A s \in SUBSET S : Cardinality(s) <= Cardinality(S)
      BY <2>6, FS_Subset
    <3>3. g = [s \in SUBSET S |-> g[s]]
      BY <3>1 DEF SumsTo
    <3> HIDE DEF f
    <3>4. Made(g)
      BY <2>10, <3>1, <3>2, <3>3 DEF SumsTo
    <3> QED
      BY <3>4
  <2>13. Made(made)
    <3> HIDE DEF Made
    <3> QED
      BY <2>12
  <2> HIDE DEF made
  <2>14. SumsTo(made, f, S, Cardinality(S))
    <3>1. made = [s \in SUBSET S |-> made[s]]
      BY <2>13
    <3> HIDE DEF f
    <3>2. ASSUME NEW s \in SUBSET S
          PROVE  made[s] = IF s = {} THEN 0 ELSE f[Chosen(s)] + made[s \ {Chosen(s)}]
      <4>1. made[s] = IF s = {} THEN 0 ELSE summary[Chosen(s)].count + made[s \ {Chosen(s)}]
        BY <2>13
      <4> QED
        BY <2>10, <4>1
    <3> HIDE DEF Made
    <3> QED
      BY <3>1, <3>2 DEF SumsTo
  <2> HIDE DEF f, W, Made
  <2>15. made[S] = Cardinality(listed)
    BY <2>6, <2>11, <2>14, SumOfSizes
  <2>16. total = Len(ListEndpoints(doc, [NoFilter EXCEPT !.tag = w]))
    <3> HIDE DEF total
    <3> QED
      BY <2>7, <2>9, <2>15
  <2> QED
    BY <2>16 DEF summary, S
<1>2. ASSUME WellFormed(doc) PROVE TagCountsMatchListing
  BY <1>1, <1>2 DEF TagCountsMatchListing
<1> QED
  BY <1>2, DocumentsAreWellFormed, PTL

-----------------------------------------------------------------------------
(* The pages of a listing *)

\* A page, cut by SQL or by slicing, is the listing from its start to its end.
LEMMA PageIsASlice ==
  ASSUME NEW S, NEW rows \in Seq(S), NEW lim \in Int, NEW off \in Int
  PROVE  LET total == Len(rows)
             from == PageStart(total, off)
             to == PageEnd(total, lim, off) IN
         /\ total \in Nat /\ from \in 0..total /\ to \in from..total
         /\ ~Truncated(total, lim, off) => to = total
         /\ SqlPage(rows, lim, off) = SubSeq(rows, from + 1, to)
         /\ SlicedPage(rows, lim, off) = SubSeq(rows, from + 1, to)
         /\ Len(SubSeq(rows, from + 1, to)) = to - from
         /\ \A next \in from..total : PageStart(total, next) = next
<1> DEFINE total == Len(rows)
           from == PageStart(total, off)
           to == PageEnd(total, lim, off)
           skip == GetOffset(off)
           take == IF GetLimit(lim) <= 0 THEN total ELSE GetLimit(lim)
<1>1. total \in Nat /\ GetLimit(lim) \in Nat /\ skip \in Nat
  BY LenProperties, PagingAssumption DEF GetLimit, GetOffset
<1>2. from \in 0..total /\ from = IF skip <= total THEN skip ELSE total
  BY <1>1 DEF PageStart, Least
<1>3. to \in from..total /\ (~Truncated(total, lim, off) => to = total)
  BY <1>1, <1>2 DEF PageEnd, Truncated
<1>4. SqlPage(rows, lim, off) = SubSeq(rows, skip + 1, Least(skip + take, total))
  BY DEF SqlPage
<1>5. ASSUME skip <= total PROVE SqlPage(rows, lim, off) = SubSeq(rows, from + 1, to)
  <2>1. Least(skip + take, total) = to /\ skip = from
    BY <1>1, <1>2, <1>5 DEF PageEnd, Truncated, Least
  <2> HIDE DEF total, from, to, skip, take
  <2> QED
    BY <1>4, <2>1
<1>6. ASSUME ~(skip <= total) PROVE SqlPage(rows, lim, off) = SubSeq(rows, from + 1, to)
  <2>1. /\ Least(skip + take, total) = total /\ from = total /\ to = total
        /\ total < skip + 1 /\ total < total + 1 /\ skip + 1 \in Int /\ total + 1 \in Int
    BY <1>1, <1>2, <1>3, <1>6 DEF Least
  <2> HIDE DEF total, from, to, skip, take
  <2>2. SubSeq(rows, skip + 1, total) = << >> /\ SubSeq(rows, total + 1, total) = << >>
    BY <1>1, <2>1, SubSeqEmpty
  <2> QED
    BY <1>4, <2>1, <2>2
<1>7. SqlPage(rows, lim, off) = SubSeq(rows, from + 1, to)
  BY <1>5, <1>6
<1>8. SlicedPage(rows, lim, off) = SubSeq(rows, from + 1, to)
  BY DEF SlicedPage
<1>9. Len(SubSeq(rows, from + 1, to)) = to - from
  <2>1. \A i \in 1..total : rows[i] \in S
    BY ElementOfSeq
  <2> HIDE DEF total, from, to
  <2>2. /\ from + 1 \in Int /\ to \in Int
        /\ \A i \in (from + 1)..to : i \in 1..total
    BY <1>1, <1>2, <1>3
  <2>3. Len(SubSeq(rows, from + 1, to)) = IF from + 1 <= to THEN to - (from + 1) + 1 ELSE 0
    BY <2>1, <2>2, SubSeqProperties
  <2> QED
    BY <1>1, <1>2, <1>3, <2>3
<1>10. \A next \in from..total : PageStart(total, next) = next
  BY <1>1, <1>2 DEF PageStart, GetOffset, Least
<1> QED
  BY <1>1, <1>2, <1>3, <1>7, <1>8, <1>9, <1>10

\* A page more, and the pages are the listing up to where the next one starts.
LEMMA FetchPageInv ==
  ASSUME PagesInv, NEW sweep, FetchPage(sweep), Frame'
  PROVE  PagesInv'
<1> DEFINE total == Len(listing)
           from == PageStart(total, offset)
           to == PageEnd(total, limit, offset)
           page == IF sweep THEN SlicedPage(listing, limit, offset)
                            ELSE SqlPage(listing, limit, offset)
<1>1. /\ got' = got \o page /\ offset' = from + Len(page)
      /\ more' = Truncated(total, limit, offset)
      /\ listing' = listing /\ limit' = limit /\ first' = first /\ changed' = changed
  BY DEF FetchPage
<1>2. limit \in Int /\ first \in Int
  BY DEF PagesInv
<1>3. CASE ~changed
  <2>1. /\ listing \in Seq(Range(listing)) /\ offset \in Int /\ PagesFrom <= from
        /\ got = SubSeq(listing, PagesFrom + 1, from)
    BY <1>3 DEF PagesInv, PagesAreTheListing
  <2>2. /\ total \in Nat /\ from \in 0..total /\ to \in from..total
        /\ ~Truncated(total, limit, offset) => to = total
        /\ page = SubSeq(listing, from + 1, to)
        /\ Len(page) = to - from
        /\ PageStart(total, to) = to
    <3>1. listing \in Seq(Range(listing)) /\ limit \in Int /\ offset \in Int
      BY <1>2, <2>1
    <3>2. /\ total \in Nat /\ from \in 0..total /\ to \in from..total
          /\ ~Truncated(total, limit, offset) => to = total
          /\ SqlPage(listing, limit, offset) = SubSeq(listing, from + 1, to)
          /\ SlicedPage(listing, limit, offset) = SubSeq(listing, from + 1, to)
          /\ Len(SubSeq(listing, from + 1, to)) = to - from
          /\ \A next \in from..total : PageStart(total, next) = next
      BY ONLY <3>1, PageIsASlice
    <3>3. page = SubSeq(listing, from + 1, to)
      BY <3>2
    <3> HIDE DEF total, from, to, page
    <3>4. to \in from..total /\ to \in Int
      BY <3>2
    <3> QED
      BY <3>2, <3>3, <3>4
  <2>3. PagesFrom \in 0..from
    <3>1. PagesFrom \in 0..total
      BY <1>2, <2>1, PageIsASlice DEF PagesFrom
    <3> QED
      BY <2>1, <2>2, <3>1
  <2> HIDE DEF total, from, to, page
  <2>4. offset' = to /\ to \in Int
    BY <1>1, <2>2
  <2>5. PagesFrom' = PagesFrom /\ PageStart(Len(listing), offset)' = to
    BY <1>1, <2>2, <2>4 DEF PagesFrom, PageStart, total
  <2>6. got' = SubSeq(listing, PagesFrom + 1, to)
    <3>1. /\ PagesFrom + 1 \in 1..Len(listing) + 1 /\ from \in (PagesFrom + 1) - 1..Len(listing)
          /\ to \in from..Len(listing)
      BY <2>2, <2>3 DEF total
    <3>2. SubSeq(listing, PagesFrom + 1, from) \o SubSeq(listing, from + 1, to)
            = SubSeq(listing, PagesFrom + 1, to)
      BY <2>1, <3>1, ConcatAdjacentSubSeq
    <3> QED
      BY <1>1, <2>1, <2>2, <3>2
  <2>7. PagesAreTheListing'
    BY <1>1, <2>2, <2>5, <2>6 DEF PagesAreTheListing, total
  <2>8. PagesFrom' <= PageStart(Len(listing), offset)'
    BY <2>2, <2>3, <2>5
  <2> QED
    BY <1>1, <1>2, <2>1, <2>4, <2>7, <2>8 DEF PagesInv
<1>4. CASE changed
  BY <1>1, <1>2, <1>4 DEF PagesInv, PagesAreTheListing
<1> QED
  BY <1>3, <1>4

\* A list of lists, put after one another: FlattenSeq's recursion.
Flattens(f, n, lists) ==
  f = [i \in 1..n |-> IF i = 1 THEN lists[i] ELSE f[i - 1] \o lists[i]]

LEMMA FlatteningExists == ASSUME NEW lists, NEW N \in Nat PROVE \E f : Flattens(f, N, lists)
<1> DEFINE T == {n \in Nat : \E f : Flattens(f, n, lists)}
<1>1. 0 \in T
  <2>1. 1..0 = {}
    OBVIOUS
  <2>2. Flattens([i \in 1..0 |-> 0], 0, lists)
    BY <2>1 DEF Flattens
  <2> QED
    BY <2>2
<1>2. ASSUME NEW n \in Nat, n \in T PROVE n + 1 \in T
  <2>1. PICK f : Flattens(f, n, lists)
    BY <1>2
  <2>2. ASSUME NEW i \in 1..n PROVE f[i] = IF i = 1 THEN lists[i] ELSE f[i - 1] \o lists[i]
    BY <2>1 DEF Flattens
  <2> DEFINE last == IF n + 1 = 1 THEN lists[n + 1] ELSE f[n] \o lists[n + 1]
             g == [i \in 1..(n + 1) |-> IF i = n + 1 THEN last ELSE f[i]]
  <2>3. ASSUME NEW i \in 1..(n + 1)
        PROVE  g[i] = IF i = 1 THEN lists[i] ELSE g[i - 1] \o lists[i]
    <3>1. CASE i = 1
      BY <2>2, <3>1
    <3>2. CASE i = n + 1 /\ i # 1
      <4>1. i - 1 = n /\ i - 1 \in 1..(n + 1) /\ i - 1 # n + 1
        BY <3>2
      <4>2. g[i - 1] = f[n] /\ g[i] = last
        BY <3>2, <4>1
      <4> QED
        BY <3>2, <4>2
    <3>3. CASE i # n + 1 /\ i # 1
      <4>1. i \in 1..n /\ i - 1 \in 1..(n + 1) /\ i - 1 # n + 1
        BY <3>3
      <4>2. g[i] = f[i] /\ g[i - 1] = f[i - 1]
        BY <3>3, <4>1
      <4> QED
        BY <2>2, <3>3, <4>1, <4>2
    <3> QED
      BY <3>1, <3>2, <3>3
  <2>4. Flattens(g, n + 1, lists)
    <3>1. g = [i \in 1..(n + 1) |-> g[i]]
      OBVIOUS
    <3> HIDE DEF g
    <3> QED
      BY <2>3, <3>1 DEF Flattens
  <2> HIDE DEF g
  <2> QED
    BY <2>4
<1>3. N \in T
  <2> HIDE DEF T
  <2> QED
    BY <1>1, <1>2, NatsByInduction
<1> QED
  BY <1>3

LEMMA FlattenedIsList ==
  ASSUME NEW S, NEW N \in Nat, N # 0, NEW lists \in [1..N -> Seq(S)]
  PROVE  FlattenSeq(lists) \in Seq(S)
<1>1. Len(lists) = N /\ Len(lists) # 0
  <2>1. lists \in Seq(Seq(S)) /\ DOMAIN lists = 1..N
    BY SeqDef
  <2> QED
    BY <2>1, LenProperties
<1>2. PICK f : Flattens(f, N, lists) /\ FlattenSeq(lists) = f[N]
  <2> DEFINE Made(f) == f = [i \in 1..N |-> IF i = 1 THEN lists[i] ELSE f[i - 1] \o lists[i]]
             made == CHOOSE f : Made(f)
  <2>1. \E f : Made(f)
    BY FlatteningExists DEF Flattens
  <2>2. Made(made)
    <3> HIDE DEF Made
    <3> QED
      BY <2>1
  <2>3. FlattenSeq(lists) = made[N]
    BY <1>1 DEF FlattenSeq
  <2>4. Flattens(made, N, lists)
    <3> HIDE DEF made
    <3> QED
      BY <2>2 DEF Flattens
  <2> HIDE DEF made
  <2> QED
    BY <2>3, <2>4
<1>3. ASSUME NEW i \in 1..N PROVE f[i] = IF i = 1 THEN lists[i] ELSE f[i - 1] \o lists[i]
  BY <1>2 DEF Flattens
<1> DEFINE T == {n \in Nat : n + 1 <= N => f[n + 1] \in Seq(S)}
<1>4. 0 \in T
  BY <1>3
<1>5. ASSUME NEW n \in Nat, n \in T PROVE n + 1 \in T
  <2> SUFFICES ASSUME (n + 1) + 1 <= N PROVE f[(n + 1) + 1] \in Seq(S)
    OBVIOUS
  <2>1. /\ (n + 1) + 1 \in 1..N /\ (n + 1) + 1 # 1 /\ ((n + 1) + 1) - 1 = n + 1 /\ n + 1 <= N
    OBVIOUS
  <2>2. f[(n + 1) + 1] = f[n + 1] \o lists[(n + 1) + 1]
    BY <1>3, <2>1
  <2>3. f[n + 1] \in Seq(S) /\ lists[(n + 1) + 1] \in Seq(S)
    BY <1>5, <2>1
  <2> QED
    BY <2>2, <2>3, ConcatProperties
<1>6. N - 1 \in T
  <2>1. N - 1 \in Nat
    OBVIOUS
  <2> HIDE DEF T
  <2> QED
    BY <1>4, <1>5, <2>1, NatsByInduction
<1> QED
  BY <1>2, <1>6

LEMMA ListOfItsOwn == ASSUME NEW S, NEW s \in Seq(S) PROVE s \in Seq(Range(s))
<1>1. Len(s) \in Nat /\ s \in [1..Len(s) -> Range(s)]
  BY LenProperties, SeqDef DEF Range
<1> QED
  BY <1>1, SeqDef

\* What a search finds is a list of operations, the better place first.
LEMMA SearchIsList ==
  ASSUME NEW d, WellFormed(d), NEW word
  PROVE  SearchEndpoints(EndpointRows(d), word) \in Seq(Nat \X Nat)
<1> DEFINE scored(k) == [key |-> k, score |-> MatchScore(Places(d, d.ops[k]), word)]
           S == {x \in {scored(k) : k \in Keys(d)} : x.score >= 0}
           hits == Sorted(S, ByScoreThenKey)
<1>1. ASSUME NEW k \in Keys(d) PROVE scored(k) \in [key : Nat \X Nat, score : Int]
  <2> DEFINE op == d.ops[k]
             places == Places(d, op)
             found == {i \in DOMAIN places : word \in places[i]}
  <2>1. k \in Nat \X Nat /\ op.text \in Seq(SUBSET Nat)
    BY DEF WellFormed, Keys
  <2>2. DOMAIN places \subseteq Nat
    <3> DEFINE a == {p.name : p \in Range(op.params)}
               b == BodyFields(d, op.request)
               c == ResponseFields(d, op)
               V == (SUBSET Nat) \cup {a, b, c}
    <3>1. op.text \in Seq(V)
      BY <2>1, SeqDef
    <3>2. <<a, b, c>> \in Seq(V)
      <4> HIDE DEF a, b, c
      <4> QED
        OBVIOUS
    <3>3. places = op.text \o <<a, b, c>>
      BY DEF Places
    <3> HIDE DEF a, b, c, V, places
    <3>4. places \in Seq(V)
      BY <3>1, <3>2, <3>3, ConcatProperties
    <3> QED
      BY <3>4, LenProperties
  <2>3. MatchScore(places, word) \in Int
    <3>1. found # {} => Min(found) \in found
      <4>1. found \in SUBSET Nat
        BY <2>2
      <4> HIDE DEF found
      <4> QED
        BY <4>1, LeastExists
    <3>2. MatchScore(places, word) = IF found = {} THEN -1 ELSE Min(found)
      BY DEF MatchScore
    <3> HIDE DEF places
    <3> QED
      BY <2>2, <3>1, <3>2
  <2> QED
    BY <2>1, <2>3
<1>2. S \in SUBSET [key : Nat \X Nat, score : Int] /\ IsFiniteSet(S)
  <2> DEFINE f == [k \in Keys(d) |-> scored(k)]
  <2>1. IsFiniteSet(Keys(d)) /\ DOMAIN f = Keys(d)
    BY DEF WellFormed, Keys
  <2>2. {scored(k) : k \in Keys(d)} = {f[k] : k \in Keys(d)}
    OBVIOUS
  <2> HIDE DEF f, scored
  <2>3. IsFiniteSet({scored(k) : k \in Keys(d)})
    BY <2>1, <2>2, FiniteImage
  <2> QED
    BY <1>1, <2>3, FS_Subset
<1> HIDE DEF S
<1>3. hits \in Seq(S)
  BY <1>2, SortedHits
<1>4. SearchSpec(d, word) = [i \in DOMAIN hits |-> hits[i].key]
  BY DEF SearchSpec, Ranked, S
<1> HIDE DEF hits
<1>5. Len(hits) \in Nat /\ [i \in DOMAIN hits |-> hits[i].key] \in [1..Len(hits) -> Nat \X Nat]
  <2>1. Len(hits) \in Nat /\ DOMAIN hits = 1..Len(hits) /\ \A i \in DOMAIN hits : hits[i] \in S
    BY <1>3, LenProperties, ElementOfSeq
  <2> QED
    BY <1>2, <2>1
<1> QED
  BY <1>4, <1>5, SeqDef, SearchesAgree

\* Whatever is listed is a finite list.
LEMMA ListingOfIsList ==
  ASSUME NEW d, WellFormed(d), NEW tool \in Listings, NEW filter
  PROVE  ListingOf(d, tool, filter) \in Seq(Range(ListingOf(d, tool, filter)))
<1>1. \E S : ListingOf(d, tool, filter) \in Seq(S)
  <2>1. CASE tool = "list_endpoints"
    <3>1. ListingOf(d, tool, filter) = ListEndpoints(d, filter)
      BY <2>1, EndpointParity DEF ListingOf
    <3> QED
      BY <3>1, EndpointsListed
  <2>2. CASE tool = "search_spec"
    BY <2>2, SearchIsList DEF ListingOf
  <2>3. CASE tool = "list_schemas"
    <3>1. ListingOf(d, tool, filter) = ListSchemas(d, filter)
      BY <2>3, SchemaParity DEF ListingOf
    <3> QED
      BY <3>1, SchemasListed
  <2> QED
    BY <2>1, <2>2, <2>3 DEF Listings
<1> QED
  BY <1>1, ListOfItsOwn

LEMMA ListingIsList ==
  ASSUME NEW d \in Documents, NEW tool \in Listings, NEW mode, NEW filter
  PROVE  Listing(d, tool, mode, filter) \in Seq(Range(Listing(d, tool, mode, filter)))
<1> DEFINE specs == <<d>> \o Others
           list(i) == ListingOf(specs[i], tool, filter)
           rows == [i \in DOMAIN specs |-> [j \in DOMAIN list(i) |-> <<i, list(i)[j]>>]]
           V == UNION {Range(rows[i]) : i \in DOMAIN specs}
<1>1. /\ Len(specs) \in Nat /\ Len(specs) # 0 /\ DOMAIN specs = 1..Len(specs)
      /\ \A i \in DOMAIN specs : WellFormed(specs[i])
  <2> DEFINE W == {d} \cup Range(Others)
  <2>1. <<d>> \in Seq(W) /\ Others \in Seq(W) /\ Len(<<d>>) = 1
    BY DocumentsAssumption, SeqDef
  <2>2. \A w \in W : WellFormed(w)
    BY DocumentsAssumption
  <2> HIDE DEF W
  <2>3. specs \in Seq(W) /\ Len(specs) = 1 + Len(Others) /\ Len(Others) \in Nat
    BY <2>1, ConcatProperties, LenProperties
  <2> HIDE DEF specs
  <2>4. DOMAIN specs = 1..Len(specs) /\ \A i \in DOMAIN specs : specs[i] \in W
    BY <2>3, LenProperties, ElementOfSeq
  <2> QED
    BY <2>2, <2>3, <2>4
<1>2. ASSUME NEW i \in DOMAIN specs PROVE rows[i] \in Seq(V)
  <2>1. list(i) \in Seq(Range(list(i)))
    BY <1>1, ListingOfIsList
  <2>2. rows[i] = [j \in DOMAIN list(i) |-> <<i, list(i)[j]>>]
    OBVIOUS
  <2>3. Range(rows[i]) \subseteq V
    OBVIOUS
  <2> HIDE DEF list, rows, V
  <2>4. Len(list(i)) \in Nat /\ DOMAIN rows[i] = 1..Len(list(i)) /\ rows[i] = [j \in DOMAIN rows[i] |-> rows[i][j]]
    BY <2>1, <2>2, LenProperties
  <2>5. rows[i] \in [1..Len(list(i)) -> V]
    BY <2>3, <2>4 DEF Range
  <2> QED
    BY <2>4, <2>5, SeqDef
<1>3. Sweep(d, tool, filter) = FlattenSeq(rows)
  BY DEF Sweep
<1>4. rows \in [1..Len(specs) -> Seq(V)]
  <2>1. rows = [i \in DOMAIN specs |-> rows[i]]
    OBVIOUS
  <2> HIDE DEF rows, specs, V
  <2> QED
    BY <1>1, <1>2, <2>1
<1> HIDE DEF rows, specs, V
<1>5. Sweep(d, tool, filter) \in Seq(V)
  BY <1>1, <1>3, <1>4, FlattenedIsList
<1>6. Sweep(d, tool, filter) \in Seq(Range(Sweep(d, tool, filter)))
  BY <1>5, ListOfItsOwn
<1>7. ListingOf(d, tool, filter) \in Seq(Range(ListingOf(d, tool, filter)))
  BY DocumentsAssumption, ListingOfIsList
<1> QED
  BY <1>6, <1>7 DEF Listing

LEMMA StartListingInv ==
  ASSUME Frame, Frame', NEW tool \in Listings, NEW mode, NEW f, NEW l \in Limits, NEW o \in Offsets,
         StartListing(tool, mode, f, l, o)
  PROVE  PagesInv'
<1> DEFINE rows == Listing(doc, tool, mode, f)
<1>1. /\ listing' = rows /\ limit' = l /\ offset' = o /\ first' = o
      /\ got' = << >> /\ more' = TRUE /\ changed' = FALSE
  BY DEF StartListing, StartPaging
<1>2. rows \in Seq(Range(rows))
  BY ListingIsList DEF Frame
<1>3. l \in Int /\ o \in Int
  BY PageArguments
<1> HIDE DEF rows
<1>4. Len(rows) \in Nat /\ PageStart(Len(rows), o) \in Nat
  <2>1. PageStart(Len(rows), o) \in 0..Len(rows) /\ Len(rows) \in Nat
    BY <1>2, <1>3, PageIsASlice
  <2> QED
    BY <2>1
<1>5. PagesFrom' = PageStart(Len(rows), o) /\ PageStart(Len(listing), offset)' = PageStart(Len(rows), o)
  BY <1>1 DEF PagesFrom, PageStart
<1>6. SubSeq(rows, PageStart(Len(rows), o) + 1, PageStart(Len(rows), o)) = << >>
  BY <1>4, SubSeqEmpty
<1>7. PagesAreTheListing'
  BY <1>1, <1>5, <1>6 DEF PagesAreTheListing
<1> QED
  BY <1>1, <1>2, <1>3, <1>4, <1>5, <1>7 DEF PagesInv

\* No call pages: nothing is listed and nothing was given.
LEMMA NothingPaged ==
  ASSUME Frame', listing' = << >>, got' = << >>, limit' = 0, offset' = 0, first' = 0
  PROVE  PagesInv'
<1>1. << >> \in Seq(Range(<< >>)) /\ Len(<< >>) = 0
  BY EmptySeq
<1>2. Len(listing)' = 0 /\ PagesFrom' = 0 /\ PageStart(Len(listing), offset)' = 0
  BY <1>1 DEF PagesFrom, PageStart, GetOffset, Least
<1>3. SubSeq(<< >>, 0 + 1, 0) = << >>
  BY SubSeqEmpty
<1>4. PagesAreTheListing'
  BY <1>2, <1>3 DEF PagesAreTheListing
<1> QED
  BY <1>1, <1>2, <1>4 DEF PagesInv

LEMMA PagesStep == ASSUME PagesInv, [ToolsNext]_toolVars PROVE PagesInv'
<1>1. Frame /\ Frame'
  BY FrameStep DEF PagesInv
<1>2. ASSUME UNCHANGED pageVars PROVE PagesInv'
  <2>1. UNCHANGED <<listing, limit, offset, first, got, more, changed>>
    BY <1>2 DEF pageVars
  <2>2. PagesFrom' = PagesFrom /\ PageStart(Len(listing), offset)' = PageStart(Len(listing), offset)
    BY <2>1 DEF PagesFrom, PageStart
  <2>3. PagesAreTheListing'
    BY <2>1, <2>2 DEF PagesInv, PagesAreTheListing
  <2> QED
    BY <1>1, <2>1, <2>2, <2>3 DEF PagesInv
<1>3. CASE Refuse
  BY <1>2, <1>3 DEF Refuse
<1>4. ASSUME NEW k, NEW n, GetEndpoint(k, n) PROVE PagesInv'
  BY <1>2, <1>3, <1>4 DEF GetEndpoint
<1>5. ASSUME NEW v, NEW n, GetSchema(v, n) PROVE PagesInv'
  BY <1>2, <1>3, <1>5 DEF GetSchema
<1>6. ASSUME NEW w, NEW v, NEW k, GenerateTypes(w, v, k) PROVE PagesInv'
  BY <1>2, <1>3, <1>6 DEF GenerateTypes
<1>7. ASSUME NEW tool \in Listings, NEW mode, NEW f, NEW l \in Limits, NEW o \in Offsets,
             StartListing(tool, mode, f, l, o)
      PROVE  PagesInv'
  BY <1>1, <1>7, StartListingInv
<1>8. CASE WalkStep \/ CollectStep \/ UNCHANGED toolVars
  BY <1>2, <1>8 DEF WalkStep, CollectStep, toolVars
<1>9. CASE NextPage
  <2>1. FetchPage(call.mode = "sweep")
    BY <1>9 DEF NextPage
  <2> QED
    BY <1>1, <2>1, FetchPageInv
\* An indexing that leaves the listing as it was leaves the pages right.
<1>10. CASE Reindex
  <2>1. /\ changed' = (changed \/ listing' # listing)
        /\ UNCHANGED <<limit, offset, first, got, more>>
    BY <1>10 DEF Reindex, Reindexed
  <2>2. CASE changed'
    BY <1>1, <2>1, <2>2 DEF PagesInv, PagesAreTheListing
  <2>3. CASE ~changed'
    <3>1. ~changed /\ listing' = listing
      BY <2>1, <2>3
    <3>2. PagesFrom' = PagesFrom /\ PageStart(Len(listing), offset)' = PageStart(Len(listing), offset)
      BY <2>1, <3>1 DEF PagesFrom, PageStart
    <3>3. PagesAreTheListing'
      BY <2>1, <3>1, <3>2 DEF PagesInv, PagesAreTheListing
    <3> QED
      BY <1>1, <2>1, <3>1, <3>2, <3>3 DEF PagesInv
  <2> QED
    BY <2>2, <2>3
<1>11. CASE Reply
  BY <1>1, <1>11, NothingPaged DEF Reply, NoPages
<1> QED
  BY <1>4, <1>5, <1>6, <1>7, <1>8, <1>9, <1>10, <1>11
  DEF ToolsNext, StartCall, Continue, Listings

\* Offset plus showing is a sound place to ask on from: whatever the listing, the
\* limit and the first offset, while the listing stays what it was the pages given
\* are its rows from there on, none skipped and none twice (tools.go:362-374,
\* query.go:401-411).
THEOREM PagesTheorem == ToolsSpec => []PagesAreTheListing
<1>1. ASSUME ToolsInit PROVE PagesInv
  <2>1. Frame
    BY <1>1, FrameStart
  <2>2. /\ listing = << >> /\ got = << >> /\ limit = 0 /\ offset = 0 /\ first = 0
    BY <1>1 DEF ToolsInit
  <2>3. << >> \in Seq(Range(<< >>)) /\ Len(<< >>) = 0 /\ SubSeq(<< >>, 0 + 1, 0) = << >>
    BY EmptySeq, SubSeqEmpty
  <2>4. PagesFrom = 0 /\ PageStart(Len(listing), offset) = 0 /\ Len(listing) = 0
    BY <2>2, <2>3 DEF PagesFrom, PageStart, GetOffset, Least
  <2>5. PagesAreTheListing
    BY <2>2, <2>3, <2>4 DEF PagesAreTheListing
  <2> QED
    BY <2>1, <2>2, <2>3, <2>4, <2>5 DEF PagesInv
<1>2. PagesInv => PagesAreTheListing
  BY DEF PagesInv
<1> QED
  BY <1>1, <1>2, PagesStep, PTL DEF ToolsSpec
=============================================================================
