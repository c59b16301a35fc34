------------------------ MODULE DocumentWalk_proofs ------------------------
(***************************************************************************)
(* Proofs about the answers get_endpoint and get_schema resolve, for every *)
(* document and every depth: what is in an answer, what waits and what is  *)
(* still in the slots account for all that the operation uses.             *)
(***************************************************************************)
EXTENDS DocumentTools_proofs, WellFoundedInduction

Parts == {"path", "operation", "content", "header", "schema"}
Own == {"operation", "content"}

SlotShape == [part : Parts, body : Nat, key : Nat \cup {None}, schema : Schemas \cup {None}]
PlaceShape == [schema : Schemas, byRef : BOOLEAN, slot : SlotShape, path : Seq(Nat)]
NodeShape == [place : PlaceShape, what : {"full", "ref", "cut"}]

WalkShapes ==
  /\ slots \in Seq(SUBSET SlotShape)
  /\ maxDepth \in Int
  /\ pending \in Seq(PlaceShape)
  /\ answer \in Seq(NodeShape)

\* The slots still to be taken, and the schemas of the answer, of the places
\* that wait and of those slots.
Ahead == UNION Range(slots)
Answered == {n.place.schema : n \in Range(answer)}
Waiting == {p.schema : p \in Range(pending)}
Slotted == {s.schema : s \in Ahead}

\* A name counts as expanded when its schema is in the answer, once; a mere name
\* above the depth limit is one of those.
NamesInv ==
  /\ seen = {n.place.schema : n \in {x \in Range(answer) : Full(x)}}
  /\ NamedOnce
  /\ \A n \in Range(answer) : n.what = "ref" /\ Len(n.place.path) < maxDepth => n.place.schema \in seen

\* What a schema in the answer holds is in the answer or waits.
Unfolded ==
  \A n \in Range(answer) : n.what = "full" =>
    Targets(doc, n.place.schema) \subseteq Answered \cup Waiting

\* An operation's parameters and bodies lead to no more than what is counted for
\* it, and all they begin with is somewhere.
Reached == Reachable(doc, OperationSchemas(Operation))
EndpointInv ==
  /\ \A n \in Range(answer) : n.place.slot.part \in Own => n.place.schema \in Reached
  /\ \A p \in Range(pending) : p.slot.part \in Own => p.schema \in Reached
  /\ \A s \in Ahead : s.part \in Own => s.schema \in OperationSchemas(Operation) \cup {None}
  /\ OperationSchemas(Operation) \subseteq Answered \cup Waiting \cup Slotted

WalkInv ==
  /\ Frame
  /\ WalkShapes
  /\ NamesInv
  /\ Unfolded
  /\ call.tool = "get_endpoint" => EndpointInv

-----------------------------------------------------------------------------
(* Sequences *)

\* Induction on the naturals, on sets of them.
LEMMA NatsByInduction ==
  ASSUME NEW T, 0 \in T, \A n \in Nat : n \in T => n + 1 \in T
  PROVE  Nat \subseteq T
<1> SUFFICES ASSUME Nat \ T # {} PROVE FALSE
  OBVIOUS
<1>1. PICK x \in Nat \ T : \A y \in Nat \ T : ~(<<y, x>> \in OpToRel(<, Nat))
  BY NatLessThanWellFounded, WFMin
<1>2. x # 0 /\ x - 1 \in Nat /\ (x - 1) + 1 = x /\ x - 1 < x
  <2>1. x \in Nat /\ x # 0
    BY <1>1
  <2> QED
    BY <2>1
<1>3. x - 1 \in Nat \ T
  BY <1>1, <1>2
<1>4. <<x - 1, x>> \in OpToRel(<, Nat)
  BY <1>1, <1>2 DEF OpToRel
<1> QED
  BY <1>1, <1>3, <1>4

LEMMA RangeOfAppend ==
  ASSUME NEW S, NEW s \in Seq(S), NEW x \in S
  PROVE  /\ Append(s, x) \in Seq(S)
         /\ Range(Append(s, x)) = Range(s) \cup {x}
<1>1. /\ Append(s, x) = s \o <<x>> /\ <<x>> \in Seq(S)
      /\ Append(s, x) \in Seq(S)
  BY AppendIsConcat, AppendProperties
<1>2. Range(<<x>>) = {x}
  BY DEF Range
<1>3. Range(s \o <<x>>) = Range(s) \cup Range(<<x>>)
  BY <1>1, RangeConcatenation
<1> QED
  BY <1>1, <1>2, <1>3

LEMMA RangeOfHeadAndTail ==
  ASSUME NEW S, NEW s \in Seq(S), s # << >>
  PROVE  /\ Head(s) \in S /\ Tail(s) \in Seq(S)
         /\ Range(s) = {Head(s)} \cup Range(Tail(s))
<1>1. /\ Head(s) \in S /\ Tail(s) \in Seq(S)
      /\ s = <<Head(s)>> \o Tail(s)
  <2>1. Len(s) \in Nat \ {0} /\ SubSeq(s, 1, Len(s)) = s
    BY EmptySeq, SubSeqFull
  <2>2. s = <<s[1]>> \o SubSeq(s, 2, Len(s))
    BY <2>1, SubSeqRecursiveFirst
  <2> QED
    BY <2>2, HeadTailProperties, TailIsSubSeq
<1>2. Range(<<Head(s)>>) = {Head(s)} /\ <<Head(s)>> \in Seq(S)
  BY <1>1 DEF Range
<1> DEFINE h == <<Head(s)>>
<1>3. h \in Seq(S) /\ Tail(s) \in Seq(S)
  BY <1>1, <1>2
<1>4. Range(h) = {Head(s)} /\ s = h \o Tail(s)
  BY <1>1, <1>2
<1> HIDE DEF h
<1>5. Range(h \o Tail(s)) = Range(h) \cup Range(Tail(s))
  BY <1>3, RangeConcatenation
<1> QED
  BY <1>1, <1>4, <1>5

\* A recursion that puts two lists after the ones before.
Accumulates(f, N, a, b) ==
  f = [i \in 0..N |-> IF i = 0 THEN << >> ELSE f[i - 1] \o a[i] \o b[i]]

Gathered(s, N, a, b) ==
  \A x : x \in Range(s) <=> \E i \in 1..N : x \in Range(a[i]) \cup Range(b[i])

\* It holds what they hold.
LEMMA Accumulated ==
  ASSUME NEW S, NEW N \in Nat, NEW f,
         NEW a \in [1..N -> Seq(S)], NEW b \in [1..N -> Seq(S)], Accumulates(f, N, a, b)
  PROVE  f[N] \in Seq(S) /\ Gathered(f[N], N, a, b)
<1> DEFINE Part(i) == Range(a[i]) \cup Range(b[i])
           Good(n) == f[n] \in Seq(S) /\ \A x : x \in Range(f[n]) <=> \E i \in 1..n : x \in Part(i)
           T == {n \in Nat : n <= N => Good(n)}
<1>0. ASSUME NEW i \in 0..N
      PROVE  f[i] = IF i = 0 THEN << >> ELSE f[i - 1] \o a[i] \o b[i]
  BY DEF Accumulates
<1>1. 0 \in T
  <2>1. f[0] = << >>
    BY <1>0
  <2>2. << >> \in Seq(S) /\ Range(<< >>) = {}
    BY EmptySeq DEF Range
  <2>3. 1..0 = {}
    OBVIOUS
  <2> QED
    BY <2>1, <2>2, <2>3
<1>2. ASSUME NEW n \in Nat, n \in T PROVE n + 1 \in T
  <2> SUFFICES ASSUME n + 1 <= N PROVE Good(n + 1)
    OBVIOUS
  <2>1. /\ n <= N /\ n + 1 \in 0..N /\ n + 1 # 0 /\ (n + 1) - 1 = n /\ n + 1 \in 1..N
        /\ 1..(n + 1) = (1..n) \cup {n + 1}
    <3>1. n \in Nat /\ N \in Nat /\ n + 1 <= N
      OBVIOUS
    <3>2. n <= N /\ n + 1 \in 0..N /\ n + 1 # 0 /\ (n + 1) - 1 = n /\ n + 1 \in 1..N
      BY <3>1
    <3>3. 1..(n + 1) = (1..n) \cup {n + 1}
      BY <3>1
    <3> QED
      BY <3>2, <3>3
  <2>2. f[n + 1] = f[n] \o a[n + 1] \o b[n + 1]
    BY <1>0, <2>1
  <2>3. Good(n)
    BY <1>2, <2>1
  <2>4. a[n + 1] \in Seq(S) /\ b[n + 1] \in Seq(S)
    BY <2>1
  <2>5. /\ f[n] \o a[n + 1] \in Seq(S)
        /\ Range(f[n] \o a[n + 1]) = Range(f[n]) \cup Range(a[n + 1])
    BY <2>3, <2>4, ConcatProperties, RangeConcatenation
  <2> DEFINE u == f[n] \o a[n + 1]
             v == b[n + 1]
  <2>6. u \in Seq(S) /\ v \in Seq(S)
    BY <2>4, <2>5
  <2>7. u \o v \in Seq(S) /\ Range(u \o v) = Range(u) \cup Range(v)
    <3> HIDE DEF u, v
    <3> QED
      BY <2>6, ConcatProperties, RangeConcatenation
  <2>8. f[n + 1] \in Seq(S) /\ Range(f[n + 1]) = Range(f[n]) \cup Part(n + 1)
    <3>1. Range(f[n + 1]) = (Range(f[n]) \cup Range(a[n + 1])) \cup Range(b[n + 1])
      BY <2>2, <2>5, <2>7
    <3> QED
      BY <2>2, <2>7, <3>1
  <2>9. ASSUME NEW x
        PROVE  (\E i \in 1..(n + 1) : x \in Part(i)) <=> (\E i \in 1..n : x \in Part(i)) \/ x \in Part(n + 1)
    <3> HIDE DEF Part
    <3> QED
      BY <2>1
  <2>10. ASSUME NEW x PROVE x \in Range(f[n + 1]) <=> \E i \in 1..(n + 1) : x \in Part(i)
    <3>1. x \in Range(f[n]) <=> \E i \in 1..n : x \in Part(i)
      BY <2>3
    <3> HIDE DEF Part
    <3> QED
      BY <2>8, <2>9, <3>1
  <2> QED
    BY <2>8, <2>10
<1>3. Nat \subseteq T
  <2> HIDE DEF T
  <2> QED
    BY <1>1, <1>2, NatsByInduction
<1>4. Good(N)
  <2> HIDE DEF Good
  <2>1. N \in T /\ N <= N
    BY <1>3
  <2> QED
    BY <2>1
<1> QED
  BY <1>4 DEF Gathered

\* There is one.
LEMMA AccumulationExists ==
  ASSUME NEW S, NEW N \in Nat, NEW a \in [1..N -> Seq(S)], NEW b \in [1..N -> Seq(S)]
  PROVE  \E f : Accumulates(f, N, a, b)
<1> DEFINE Rec(f, n) == Accumulates(f, n, a, b)
           T == {n \in Nat : \E f : Rec(f, n)}
<1>1. 0 \in T
  <2>1. Rec([i \in 0..0 |-> << >>], 0)
    BY DEF Accumulates
  <2> QED
    BY <2>1
<1>2. ASSUME NEW n \in Nat, n \in T PROVE n + 1 \in T
  <2>1. PICK f : Rec(f, n)
    BY <1>2
  <2>0. ASSUME NEW i \in 0..n
        PROVE  f[i] = IF i = 0 THEN << >> ELSE f[i - 1] \o a[i] \o b[i]
    BY <2>1 DEF Accumulates
  <2> DEFINE g == [i \in 0..(n + 1) |-> IF i = n + 1 THEN f[n] \o a[n + 1] \o b[n + 1] ELSE f[i]]
  <2>2. ASSUME NEW i \in 0..(n + 1)
        PROVE  g[i] = IF i = 0 THEN << >> ELSE g[i - 1] \o a[i] \o b[i]
    <3>1. CASE i = n + 1
      <4>1. i # 0 /\ i - 1 = n /\ i - 1 \in 0..(n + 1) /\ i - 1 # n + 1
        BY <3>1
      <4>2. g[i - 1] = f[n] /\ g[i] = f[n] \o a[n + 1] \o b[n + 1]
        BY <3>1, <4>1
      <4> QED
        BY <3>1, <4>1, <4>2
    <3>2. CASE i = 0
      BY <2>0, <3>2
    <3>3. CASE i # n + 1 /\ i # 0
      <4>1. i \in 0..n /\ i - 1 \in 0..(n + 1) /\ i - 1 # n + 1
        BY <3>3
      <4>2. g[i] = f[i] /\ g[i - 1] = f[i - 1]
        BY <3>3, <4>1
      <4> QED
        BY <2>0, <3>3, <4>1, <4>2
    <3> QED
      BY <3>1, <3>2, <3>3
  <2>3. g = [i \in 0..(n + 1) |-> IF i = 0 THEN << >> ELSE g[i - 1] \o a[i] \o b[i]]
    <3>1. g = [i \in 0..(n + 1) |-> g[i]]
      OBVIOUS
    <3> HIDE DEF g
    <3> QED
      BY <2>2, <3>1
  <2> HIDE DEF g
  <2>4. Rec(g, n + 1)
    BY <2>3 DEF Accumulates
  <2>5. n + 1 \in Nat
    OBVIOUS
  <2> QED
    BY <2>4, <2>5
<1>3. N \in T
  <2> HIDE DEF T
  <2> QED
    BY <1>1, <1>2, NatsByInduction
<1> QED
  <2> HIDE DEF Rec
  <2>1. \E f : Rec(f, N)
    BY <1>3
  <2> QED
    BY <2>1 DEF Rec

-----------------------------------------------------------------------------
(* Where the trees of an answer start *)

LEMMA ParamSlotsShape ==
  ASSUME NEW params \in Seq([name : Nat, schema : Schemas \cup {None}]), NEW level \in Parts
  PROVE  /\ ParamSlots(level, params) \in Seq(SUBSET SlotShape)
         /\ Range(ParamSlots(level, params)) = {{Slot(level, 0, p.name, p.schema)} : p \in Range(params)}
<1>1. /\ Len(params) \in Nat /\ DOMAIN params = 1..Len(params)
      /\ \A i \in DOMAIN params : params[i] \in [name : Nat, schema : Schemas \cup {None}]
  BY LenProperties, ElementOfSeq
<1>2. \A i \in DOMAIN params :
        {Slot(level, 0, params[i].name, params[i].schema)} \in SUBSET SlotShape
  BY <1>1 DEF Slot, SlotShape
<1>3. ParamSlots(level, params) \in [1..Len(params) -> SUBSET SlotShape]
  BY <1>1, <1>2 DEF ParamSlots
<1> QED
  BY <1>1, <1>3, SeqDef DEF ParamSlots, Range

LEMMA HeaderSlotsShape ==
  ASSUME NEW i \in Nat, NEW headers \in Seq(Schemas \cup {None})
  PROVE  /\ HeaderSlots(i, headers) \in Seq(SUBSET SlotShape)
         /\ \A group \in Range(HeaderSlots(i, headers)) : \A s \in group : s.part = "header"
<1>1. /\ Len(headers) \in Nat /\ DOMAIN headers = 1..Len(headers)
      /\ \A k \in DOMAIN headers : headers[k] \in Schemas \cup {None} /\ k \in Nat
  BY LenProperties, ElementOfSeq
<1>2. \A k \in DOMAIN headers : {Slot("header", i, k, headers[k])} \in SUBSET SlotShape
  BY <1>1 DEF Slot, SlotShape, Parts
<1>3. HeaderSlots(i, headers) \in [1..Len(headers) -> SUBSET SlotShape]
  BY <1>1, <1>2 DEF HeaderSlots
<1> QED
  BY <1>1, <1>3, SeqDef DEF HeaderSlots, Range, Slot

LEMMA ContentSlotsShape ==
  ASSUME NEW i \in Nat, NEW content, HoldsSchemas(content)
  PROVE  /\ ContentSlots(i, content) \in SUBSET SlotShape
         /\ \A s \in ContentSlots(i, content) : s.schema \in Media(content) \cup {None}
         /\ \A v \in Media(content) : \E s \in ContentSlots(i, content) : s.schema = v
<1>1. ContentSlots(i, content) = {Slot("content", i, m, content[m]) : m \in DOMAIN content}
  BY DEF ContentSlots
<1>2. ASSUME NEW m \in DOMAIN content
      PROVE  /\ Slot("content", i, m, content[m]) \in SlotShape
             /\ Slot("content", i, m, content[m]).schema = content[m]
  <2>1. m \in Nat /\ content[m] \in Schemas \cup {None}
    BY DEF HoldsSchemas
  <2> QED
    BY <2>1 DEF Slot, SlotShape, Parts
<1> HIDE DEF Slot
<1> QED
  BY <1>1, <1>2 DEF Media

\* The slots of the responses: headers, and then the bodies.
LEMMA ResponseSlots ==
  ASSUME NEW d, WellFormed(d), NEW k \in DOMAIN d.ops
  PROVE  \E rest \in Seq(SUBSET SlotShape) :
           /\ EndpointSlots(d.ops[k]) =
                ParamSlots("path", d.ops[k].pathParams) \o ParamSlots("operation", d.ops[k].params)
                  \o <<ContentSlots(1, d.ops[k].request)>> \o rest
           /\ \A group : group \in Range(rest) <=>
                \E i \in DOMAIN d.ops[k].responses :
                  \/ group \in Range(HeaderSlots(i + 1, d.ops[k].responses[i].headers))
                  \/ group = ContentSlots(i + 1, d.ops[k].responses[i].content)
<1> DEFINE op == d.ops[k]
           N == Len(op.responses)
           Groups == SUBSET SlotShape
           a == [i \in 1..N |-> HeaderSlots(i + 1, op.responses[i].headers)]
           b == [i \in 1..N |-> <<ContentSlots(i + 1, op.responses[i].content)>>]
           Made(f) == f = [i \in 0..N |->
             IF i = 0 THEN << >>
             ELSE f[i - 1] \o HeaderSlots(i + 1, op.responses[i].headers)
                           \o <<ContentSlots(i + 1, op.responses[i].content)>>]
<1>1. /\ op.responses \in Seq(Range(op.responses))
      /\ \A r \in Range(op.responses) : /\ r.headers \in Seq(Schemas \cup {None})
                                       /\ HoldsSchemas(r.content)
  BY DEF WellFormed
<1>2. N \in Nat /\ DOMAIN op.responses = 1..N
  BY <1>1, LenProperties
<1>3. ASSUME NEW i \in 1..N
      PROVE  /\ i + 1 \in Nat
             /\ op.responses[i].headers \in Seq(Schemas \cup {None})
             /\ HoldsSchemas(op.responses[i].content)
  <2>1. op.responses[i] \in Range(op.responses)
    BY <1>2 DEF Range
  <2>2. i + 1 \in Nat
    OBVIOUS
  <2> QED
    BY <1>1, <2>1, <2>2
<1>4. a \in [1..N -> Seq(Groups)] /\ b \in [1..N -> Seq(Groups)]
  <2>1. ASSUME NEW i \in 1..N
        PROVE  /\ HeaderSlots(i + 1, op.responses[i].headers) \in Seq(Groups)
               /\ <<ContentSlots(i + 1, op.responses[i].content)>> \in Seq(Groups)
    BY <1>3, HeaderSlotsShape, ContentSlotsShape
  <2> QED
    BY <2>1
<1>5. \E f : Made(f)
  <2>1. PICK f : Accumulates(f, N, a, b)
    <3>1. N \in Nat
      BY <1>2
    <3> HIDE DEF a, b, N, op, Groups
    <3> QED
      BY <3>1, <1>4, AccumulationExists
  <2>2. \A i \in 0..N : i # 0 => /\ a[i] = HeaderSlots(i + 1, op.responses[i].headers)
                                 /\ b[i] = <<ContentSlots(i + 1, op.responses[i].content)>>
    BY <1>2
  <2> HIDE DEF a, b, N, op
  <2>3. Made(f)
    BY <2>1, <2>2 DEF Accumulates
  <2> QED
    BY <2>3
<1>6. PICK f : /\ Made(f)
               /\ EndpointSlots(op) = ParamSlots("path", op.pathParams)
                    \o ParamSlots("operation", op.params)
                    \o <<ContentSlots(1, op.request)>> \o f[N]
  BY <1>5 DEF EndpointSlots
<1>7. Accumulates(f, N, a, b)
  <2>1. \A i \in 0..N : i # 0 => /\ a[i] = HeaderSlots(i + 1, op.responses[i].headers)
                                 /\ b[i] = <<ContentSlots(i + 1, op.responses[i].content)>>
    BY <1>2
  <2> HIDE DEF a, b, N, op
  <2> QED
    BY <1>6, <2>1 DEF Accumulates
<1>8. ASSUME NEW i \in 1..N, NEW group
      PROVE  group \in Range(a[i]) \cup Range(b[i]) <=>
               \/ group \in Range(HeaderSlots(i + 1, op.responses[i].headers))
               \/ group = ContentSlots(i + 1, op.responses[i].content)
  <2>1. \A x : Range(<<x>>) = {x}
    BY DEF Range
  <2> QED
    BY <2>1
<1> HIDE DEF a, b, N, Made, Groups
<1>9. /\ f[N] \in Seq(Groups)
      /\ \A group : group \in Range(f[N]) <=> \E i \in 1..N : group \in Range(a[i]) \cup Range(b[i])
  <2>1. N \in Nat
    BY <1>2
  <2> HIDE DEF op
  <2> QED
    <3>1. f[N] \in Seq(Groups) /\ Gathered(f[N], N, a, b)
      BY <2>1, <1>4, <1>7, Accumulated
    <3> QED
      BY <3>1 DEF Gathered
<1> QED
  BY <1>2, <1>6, <1>8, <1>9 DEF Groups

\* The answer of an operation starts from slots, and those of its own parameters
\* and bodies hold what the analyzer and the generator start from.
LEMMA EndpointSlotsHold ==
  ASSUME NEW d, WellFormed(d), NEW k \in DOMAIN d.ops,
         NEW groups, groups = EndpointSlots(d.ops[k])
  PROVE  /\ groups \in Seq(SUBSET SlotShape)
         /\ \A s \in UNION Range(groups) :
              s.part \in Own => s.schema \in OperationSchemas(d.ops[k]) \cup {None}
         /\ \A v \in OperationSchemas(d.ops[k]) : \E s \in UNION Range(groups) : s.schema = v
<1> DEFINE op == d.ops[k]
           S == SUBSET SlotShape
           pathSlots == ParamSlots("path", op.pathParams)
           ownSlots == ParamSlots("operation", op.params)
           request == ContentSlots(1, op.request)
<1>1. /\ op.params \in Seq([name : Nat, schema : Schemas \cup {None}])
      /\ op.pathParams \in Seq([name : Nat, schema : Schemas \cup {None}])
      /\ op.responses \in Seq(Range(op.responses))
      /\ HoldsSchemas(op.request)
      /\ \A r \in Range(op.responses) : /\ r.headers \in Seq(Schemas \cup {None})
                                       /\ HoldsSchemas(r.content)
  BY DEF WellFormed
<1>2. ASSUME NEW i \in DOMAIN op.responses
      PROVE  /\ i + 1 \in Nat
             /\ op.responses[i].headers \in Seq(Schemas \cup {None})
             /\ HoldsSchemas(op.responses[i].content)
  <2>1. op.responses[i] \in Range(op.responses)
    BY DEF Range
  <2>2. i \in Nat
    BY <1>1, LenProperties
  <2> QED
    BY <1>1, <2>1, <2>2
<1>3. PICK rest \in Seq(S) :
        /\ groups = pathSlots \o ownSlots \o <<request>> \o rest
        /\ \A group : group \in Range(rest) <=>
             \E i \in DOMAIN op.responses :
               \/ group \in Range(HeaderSlots(i + 1, op.responses[i].headers))
               \/ group = ContentSlots(i + 1, op.responses[i].content)
  BY ResponseSlots
<1>4. /\ pathSlots \in Seq(S) /\ ownSlots \in Seq(S)
      /\ Range(pathSlots) = {{Slot("path", 0, p.name, p.schema)} : p \in Range(op.pathParams)}
      /\ Range(ownSlots) = {{Slot("operation", 0, p.name, p.schema)} : p \in Range(op.params)}
  BY <1>1, ParamSlotsShape DEF Parts
<1>5. /\ request \in S
      /\ \A s \in request : s.schema \in Media(op.request) \cup {None}
      /\ \A v \in Media(op.request) : \E s \in request : s.schema = v
  BY <1>1, ContentSlotsShape
<1> HIDE DEF op, S, pathSlots, ownSlots, request
<1>6. /\ groups \in Seq(S)
      /\ Range(groups) = Range(pathSlots) \cup Range(ownSlots) \cup {request} \cup Range(rest)
  <2> DEFINE u == pathSlots \o ownSlots
             r == <<request>>
             w == u \o r
  <2>1. u \in Seq(S) /\ Range(u) = Range(pathSlots) \cup Range(ownSlots)
    BY <1>4, ConcatProperties, RangeConcatenation
  <2>2. r \in Seq(S) /\ Range(r) = {request}
    BY <1>5 DEF Range
  <2> HIDE DEF u, r
  <2>3. w \in Seq(S) /\ Range(w) = Range(u) \cup Range(r)
    BY <2>1, <2>2, ConcatProperties, RangeConcatenation
  <2>4. groups = w \o rest
    BY <1>3 DEF u, r
  <2> HIDE DEF w
  <2>5. w \o rest \in Seq(S) /\ Range(w \o rest) = Range(w) \cup Range(rest)
    BY <2>3, ConcatProperties, RangeConcatenation
  <2> QED
    BY <2>1, <2>2, <2>3, <2>4, <2>5
<1>7. ASSUME NEW group \in Range(groups), NEW s \in group, s.part \in Own
      PROVE  s.schema \in OperationSchemas(op) \cup {None}
  <2>1. CASE group \in Range(pathSlots)
    BY <1>4, <1>7, <2>1 DEF Slot, Own
  <2>2. CASE group \in Range(ownSlots)
    BY <1>4, <2>2 DEF Slot, OperationSchemas
  <2>3. CASE group = request
    BY <1>5, <2>3 DEF OperationSchemas, BodySchemas
  <2>4. CASE group \in Range(rest)
    <3>1. PICK i \in DOMAIN op.responses :
            \/ group \in Range(HeaderSlots(i + 1, op.responses[i].headers))
            \/ group = ContentSlots(i + 1, op.responses[i].content)
      BY <1>3, <2>4
    <3>2. CASE group \in Range(HeaderSlots(i + 1, op.responses[i].headers))
      BY <1>2, <1>7, <3>2, HeaderSlotsShape DEF Own
    <3>3. CASE group = ContentSlots(i + 1, op.responses[i].content)
      <4>1. s.schema \in Media(op.responses[i].content) \cup {None}
        BY <1>2, <3>3, ContentSlotsShape
      <4> QED
        BY <4>1 DEF OperationSchemas, BodySchemas
    <3> QED
      BY <3>1, <3>2, <3>3
  <2> QED
    BY <1>6, <2>1, <2>2, <2>3, <2>4
<1>8. ASSUME NEW v \in OperationSchemas(op)
      PROVE  \E group \in Range(groups) : \E s \in group : s.schema = v
  <2>1. CASE v \in Media(op.request)
    BY <1>5, <1>6, <2>1
  <2>2. CASE \E p \in Range(op.params) : v = p.schema
    <3>1. PICK p \in Range(op.params) : v = p.schema
      BY <2>2
    <3>2. {Slot("operation", 0, p.name, p.schema)} \in Range(groups)
      BY <1>4, <1>6
    <3>3. Slot("operation", 0, p.name, p.schema).schema = v
      BY <3>1 DEF Slot
    <3> QED
      BY <3>2, <3>3
  <2>3. CASE \E i \in DOMAIN op.responses : v \in Media(op.responses[i].content)
    <3>1. PICK i \in DOMAIN op.responses : v \in Media(op.responses[i].content)
      BY <2>3
    <3>2. ContentSlots(i + 1, op.responses[i].content) \in Range(groups)
      BY <1>3, <1>6
    <3>3. \E s \in ContentSlots(i + 1, op.responses[i].content) : s.schema = v
      BY <1>2, <3>1, ContentSlotsShape
    <3> QED
      BY <3>2, <3>3
  <2> QED
    BY <2>1, <2>2, <2>3 DEF OperationSchemas, BodySchemas
<1> QED
  BY <1>6, <1>7, <1>8 DEF op, S

LEMMA SchemaSlotsHold ==
  ASSUME NEW v \in Components PROVE SchemaSlots(v) \in Seq(SUBSET SlotShape)
<1>1. {Slot("schema", 0, None, v)} \in SUBSET SlotShape
  BY DEF Slot, SlotShape, Parts, Schemas
<1> QED
  BY <1>1 DEF SchemaSlots

-----------------------------------------------------------------------------
(* The walk *)

LEMMA SameDocument ==
  ASSUME doc' = doc, call' = call
  PROVE  /\ \A v : Targets(doc, v)' = Targets(doc, v)
         /\ OperationSchemas(Operation)' = OperationSchemas(Operation)
         /\ Reached' = Reached
<1>1. Operation' = Operation
  BY DEF Operation
<1>2. OperationSchemas(Operation)' = OperationSchemas(Operation)
  BY <1>1 DEF OperationSchemas, BodySchemas, Media, Range
<1>3. \A v : Targets(doc, v)' = Targets(doc, v)
  BY DEF Targets, EdgeSet, Edges
<1>4. Reached' = Reached
  BY <1>2, <1>3 DEF Reached, Reachable, Closure
<1> QED
  BY <1>2, <1>3, <1>4

\* A slot taken leaves the others; its schema waits.
LEMMA NextSlotInv ==
  ASSUME WalkInv, NextSlot, doc' = doc, call' = call
  PROVE  /\ WalkShapes' /\ NamesInv' /\ Unfolded'
         /\ call.tool = "get_endpoint" => EndpointInv'
<1> DEFINE S == SUBSET SlotShape
<1>1. /\ slots \in Seq(S) /\ slots # << >> /\ pending = << >>
      /\ UNCHANGED <<maxDepth, seen, answer>>
  BY DEF WalkInv, WalkShapes, NextSlot
<1>2. /\ Head(slots) \in S /\ Tail(slots) \in Seq(S)
      /\ Range(slots) = {Head(slots)} \cup Range(Tail(slots))
  BY <1>1, RangeOfHeadAndTail
<1>3. Range(pending) = {} /\ Waiting = {}
  BY <1>1 DEF Range, Waiting
<1>4. CASE Head(slots) = {}
  <2>1. slots' = Tail(slots) /\ pending' = pending
    BY <1>4 DEF NextSlot
  <2>2. Ahead' = Ahead
    BY <1>2, <1>4, <2>1 DEF Ahead
  <2>3. WalkShapes'
    BY <1>1, <1>2, <2>1 DEF WalkInv, WalkShapes
  <2>4. NamesInv' /\ Unfolded'
    BY <1>1, <2>1, SameDocument DEF WalkInv, NamesInv, NamedOnce, Unfolded, Answered, Waiting
  <2>5. EndpointInv => EndpointInv'
    BY <1>1, <2>1, <2>2, SameDocument DEF EndpointInv, Answered, Waiting, Slotted
  <2> QED
    BY <2>3, <2>4, <2>5 DEF WalkInv
<1>5. SUFFICES ASSUME Head(slots) # {}
             PROVE  /\ WalkShapes' /\ NamesInv' /\ Unfolded'
                    /\ call.tool = "get_endpoint" => EndpointInv'
  BY <1>4
<1>6. PICK s : /\ slots' \in Seq(S)
                /\ s \in Ahead /\ s \in SlotShape
                /\ Ahead' \subseteq Ahead /\ Ahead \subseteq Ahead' \cup {s}
                /\ pending' = IF s.schema = None THEN << >> ELSE <<Root(s)>>
  <2>1. PICK s \in Head(slots) :
          /\ slots' = [slots EXCEPT ![1] = @ \ {s}]
          /\ pending' = IF s.schema = None THEN << >> ELSE <<Root(s)>>
    BY <1>5 DEF NextSlot
  <2>2. Len(slots) \in Nat \ {0} /\ DOMAIN slots = 1..Len(slots) /\ Head(slots) = slots[1]
    BY <1>1, EmptySeq, LenProperties
  <2>3. 1 \in 1..Len(slots)
    BY <2>2
  <2>4. /\ slots' \in Seq(S) /\ DOMAIN slots' = DOMAIN slots
        /\ \A j \in DOMAIN slots : slots'[j] = IF j = 1 THEN slots[1] \ {s} ELSE slots[j]
    <3>1. slots[1] \ {s} \in S
      BY <1>2, <2>2
    <3>2. slots' = [slots EXCEPT ![1] = slots[1] \ {s}]
      BY <2>1, <2>2, <2>3
    <3> QED
      BY <1>1, <2>2, <2>3, <3>1, <3>2, ExceptSeq
  <2>5. s \in Ahead /\ s \in SlotShape
    BY <1>2, <2>1 DEF Ahead
  <2>6. ASSUME NEW x \in Ahead' PROVE x \in Ahead
    <3>1. PICK j \in DOMAIN slots : x \in slots'[j]
      BY <2>4 DEF Ahead, Range
    <3>2. x \in slots[j]
      BY <2>4, <3>1
    <3> QED
      BY <3>2 DEF Ahead, Range
  <2>7. ASSUME NEW x \in Ahead, x # s PROVE x \in Ahead'
    <3>1. PICK j \in DOMAIN slots : x \in slots[j]
      BY DEF Ahead, Range
    <3>2. x \in slots'[j] /\ j \in DOMAIN slots'
      BY <2>4, <2>7, <3>1
    <3> QED
      BY <3>2 DEF Ahead, Range
  <2>8. Ahead' \subseteq Ahead /\ Ahead \subseteq Ahead' \cup {s}
    BY <2>6, <2>7
  <2> QED
    BY <2>1, <2>4, <2>5, <2>8
<1> HIDE DEF S
<1>7. /\ pending' \in Seq(PlaceShape)
      /\ \A p \in Range(pending') : p.slot = s /\ p.schema = s.schema
      /\ s.schema # None => s.schema \in Waiting'
  <2>1. CASE s.schema = None
    BY <1>6, <2>1, EmptySeq DEF Range
  <2>2. CASE s.schema # None
    <3>1. s.schema \in Schemas
      BY <1>6, <2>2 DEF SlotShape
    <3>2. /\ Root(s) \in PlaceShape /\ Root(s).slot = s /\ Root(s).schema = s.schema
      <4>1. << >> \in Seq(Nat)
        BY EmptySeq
      <4>2. (Named(s.schema) /\ s.part # "schema") \in BOOLEAN
        BY DEF Named
      <4> QED
        BY <1>6, <3>1, <4>1, <4>2 DEF Root, Place, PlaceShape
    <3>3. Range(pending') = {Root(s)}
      BY <1>6, <2>2 DEF Range
    <3>4. pending' \in Seq(PlaceShape)
      BY <1>6, <2>2, <3>2
    <3> QED
      BY <2>2, <3>2, <3>3, <3>4 DEF Waiting
  <2> QED
    BY <2>1, <2>2
<1>8. WalkShapes'
  BY <1>1, <1>6, <1>7 DEF WalkInv, WalkShapes, S
<1>9. NamesInv'
  BY <1>1 DEF WalkInv, NamesInv, NamedOnce
<1>10. Unfolded'
  BY <1>1, <1>3, SameDocument DEF WalkInv, Unfolded, Answered
<1>11. ASSUME call.tool = "get_endpoint" PROVE EndpointInv'
  <2>1. EndpointInv
    BY <1>11 DEF WalkInv
  <2>2. \A n \in Range(answer)' : n.place.slot.part \in Own => n.place.schema \in Reached'
    BY <1>1, <2>1, SameDocument DEF EndpointInv
  <2>3. \A x \in Ahead' : x.part \in Own => x.schema \in OperationSchemas(Operation)' \cup {None}
    BY <1>6, <2>1, SameDocument DEF EndpointInv
  <2>4. OperationSchemas(Operation) \subseteq Schemas \cap Reached
    BY <1>11, DocumentsAssumption, OperationSchemasAreSchemas, ReachableHolds
    DEF WalkInv, Frame, Operation, Keys, Reached
  <2>5. None \notin Schemas
    BY GraphAssumption DEF Schemas
  <2>6. ASSUME NEW p \in Range(pending'), p.slot.part \in Own PROVE p.schema \in Reached
    <3>1. p.schema \in OperationSchemas(Operation) \cup {None} /\ p.schema \in Schemas
      <4>1. p \in PlaceShape
        BY <1>7, RangeOfSeq
      <4> QED
        BY <1>7, <1>6, <2>1, <2>6, <4>1 DEF EndpointInv, PlaceShape
    <3> QED
      BY <2>4, <2>5, <3>1
  <2>7. ASSUME NEW v \in OperationSchemas(Operation)
        PROVE  v \in Answered' \cup Waiting' \cup Slotted'
    <3>1. CASE v \in Answered
      BY <1>1, <3>1 DEF Answered
    <3>2. CASE v \in Slotted
      <4>1. PICK x \in Ahead : x.schema = v
        BY <3>2 DEF Slotted
      <4>2. CASE x \in Ahead'
        BY <4>1, <4>2 DEF Slotted
      <4>3. CASE x = s
        BY <1>7, <2>4, <2>5, <4>1, <4>3
      <4> QED
        BY <1>6, <4>2, <4>3
    <3> QED
      BY <1>3, <2>1, <3>1, <3>2 DEF EndpointInv
  <2> QED
    BY <2>2, <2>3, <2>6, <2>7, SameDocument DEF EndpointInv
<1> QED
  BY <1>8, <1>9, <1>10, <1>11

\* A schema in the answer is a name for the second time only if it was before.
LEMMA NamedOnceStep ==
  ASSUME answer \in Seq(NodeShape), NEW n \in NodeShape, answer' = Append(answer, n), NamedOnce,
         Full(n) => \A m \in Range(answer) : Full(m) => m.place.schema # n.place.schema
  PROVE  NamedOnce'
<1> DEFINE N == Len(answer)
<1>1. /\ N \in Nat /\ DOMAIN answer = 1..N /\ DOMAIN answer' = 1..(N + 1)
      /\ \A i \in 1..N : answer'[i] = answer[i]
      /\ answer'[N + 1] = n
  BY LenProperties, AppendProperties
<1> HIDE DEF N
<1>2. ASSUME NEW i \in 1..(N + 1), i # N + 1 PROVE i \in DOMAIN answer /\ answer'[i] \in Range(answer)
  <2>1. i \in 1..N
    BY <1>1, <1>2
  <2> QED
    BY <1>1, <2>1 DEF Range
<1>3. SUFFICES ASSUME NEW i \in 1..(N + 1), NEW j \in 1..(N + 1),
                      Full(answer'[i]), Full(answer'[j]),
                      answer'[i].place.schema = answer'[j].place.schema
               PROVE  i = j
  BY <1>1 DEF NamedOnce, Full
<1>4. CASE i = N + 1 /\ j # N + 1
  BY <1>1, <1>2, <1>3, <1>4
<1>5. CASE j = N + 1 /\ i # N + 1
  BY <1>1, <1>2, <1>3, <1>5
<1>6. CASE i # N + 1 /\ j # N + 1
  BY <1>1, <1>2, <1>3, <1>6 DEF NamedOnce
<1> QED
  BY <1>4, <1>5, <1>6

\* What a place leads to is reached by the edges of its schema.
LEMMA ChildrenAreTargets ==
  ASSUME WellFormed(doc), NEW p \in PlaceShape, p.schema \in Schemas
  PROVE  /\ Children(p) \in Seq(PlaceShape)
         /\ \A q \in Range(Children(p)) : q.slot = p.slot /\ q.schema \in Targets(doc, p.schema)
         /\ \A v \in Targets(doc, p.schema) : \E q \in Range(Children(p)) : q.schema = v
<1> DEFINE es == Edges(doc, p.schema)
           child(i) == Place(es[i].to, Named(es[i].to), p.slot, Append(p.path, i))
<1>1. /\ Len(es) \in Nat /\ DOMAIN es = 1..Len(es)
      /\ \A i \in DOMAIN es : es[i] \in [kind : STRING, label : Nat, to : Schemas]
  <2>1. es \in Seq([kind : STRING, label : Nat, to : Schemas])
    BY DEF WellFormed
  <2> HIDE DEF es
  <2> QED
    BY <2>1, LenProperties, ElementOfSeq
<1>2. ASSUME NEW i \in DOMAIN es
      PROVE  /\ child(i) \in PlaceShape /\ child(i).slot = p.slot /\ child(i).schema = es[i].to
             /\ es[i].to \in Targets(doc, p.schema)
  <2>1. i \in Nat /\ es[i].to \in Schemas
    BY <1>1
  <2>2. Append(p.path, i) \in Seq(Nat)
    BY <2>1, AppendProperties DEF PlaceShape
  <2>3. es[i].to \in Targets(doc, p.schema)
    BY DEF Targets, EdgeSet
  <2>4. Named(es[i].to) \in BOOLEAN
    BY DEF Named
  <2> QED
    BY <2>1, <2>2, <2>3, <2>4 DEF Place, PlaceShape
<1>3. ASSUME NEW v \in Targets(doc, p.schema) PROVE \E i \in DOMAIN es : es[i].to = v
  BY DEF Targets, EdgeSet
<1>4. Children(p) = [i \in DOMAIN es |-> child(i)]
  BY DEF Children
<1> HIDE DEF es, child
<1>5. Children(p) \in [1..Len(es) -> PlaceShape]
  BY <1>1, <1>2, <1>4
<1> QED
  BY <1>1, <1>2, <1>3, <1>4, <1>5, SeqDef DEF Range

\* A place resolved joins the answer; what its schema holds comes next.
LEMMA ResolveSchemaInv ==
  ASSUME WalkInv, ResolveSchema, doc' = doc, call' = call
  PROVE  /\ WalkShapes' /\ NamesInv' /\ Unfolded'
         /\ call.tool = "get_endpoint" => EndpointInv'
<1> DEFINE p == Head(pending)
           rest == Tail(pending)
<1>1. /\ pending # << >>
      /\ NameOnly(p) \/ Expand(p)
      /\ slots' = slots /\ maxDepth' = maxDepth
  BY DEF ResolveSchema
<1>2. /\ slots \in Seq(SUBSET SlotShape) /\ maxDepth \in Int
      /\ pending \in Seq(PlaceShape) /\ answer \in Seq(NodeShape)
  BY DEF WalkInv, WalkShapes
<1>3. /\ p \in PlaceShape /\ rest \in Seq(PlaceShape)
      /\ Range(pending) = {p} \cup Range(rest)
  <2>1. pending \in Seq(PlaceShape) /\ pending # << >>
    BY <1>1, <1>2
  <2> QED
    BY ONLY <2>1, RangeOfHeadAndTail
<1>4. WellFormed(doc) /\ p.schema \in Schemas /\ p.byRef \in BOOLEAN /\ Len(p.path) \in Nat
  BY <1>3, DocumentsAssumption, LenProperties DEF WalkInv, Frame, PlaceShape
<1>5. Ahead' = Ahead /\ Slotted' = Slotted
  BY <1>1 DEF Ahead, Slotted
\* Either way a node is made, and other places come before the rest.
<1>6. PICK what \in {"full", "ref", "cut"}, before \in Seq(PlaceShape) :
        /\ answer' = Append(answer, Node(p, what))
        /\ pending' = before \o rest
        /\ \A q \in Range(before) : q.slot = p.slot /\ q.schema \in Targets(doc, p.schema)
        /\ what = "full" => /\ ~Repeated(p)
                            /\ \A v \in Targets(doc, p.schema) : \E q \in Range(before) : q.schema = v
                            /\ seen' = IF p.byRef THEN seen \cup {p.schema} ELSE seen
        /\ what # "full" => seen' = seen
        /\ what = "ref" => Repeated(p) \/ TooDeep(p)
  <2>1. CASE NameOnly(p)
    <3> DEFINE other == IF p.byRef THEN "ref" ELSE "cut"
    <3>1. << >> \in Seq(PlaceShape) /\ Range(<< >>) = {} /\ << >> \o rest = rest
      BY <1>3, EmptySeq, ConcatEmptySeq DEF Range
    <3>2. /\ answer' = Append(answer, Node(p, other)) /\ pending' = rest /\ seen' = seen
          /\ Repeated(p) \/ TooDeep(p)
      BY <2>1 DEF NameOnly
    <3>3. other \in {"full", "ref", "cut"} /\ other # "full"
      OBVIOUS
    <3> HIDE DEF p, rest, other
    <3> QED
      BY <3>1, <3>2, <3>3
  <2>2. CASE Expand(p)
    <3>1. /\ answer' = Append(answer, Node(p, "full")) /\ pending' = Children(p) \o rest
          /\ seen' = IF p.byRef THEN seen \cup {p.schema} ELSE seen
          /\ ~Repeated(p)
      BY <2>2 DEF Expand
    <3> HIDE DEF p, rest
    <3> QED
      BY <1>3, <1>4, <3>1, ChildrenAreTargets
  <2> QED
    BY <1>1, <2>1, <2>2
<1> DEFINE node == Node(p, what)
<1>7. node \in NodeShape /\ node.place = p /\ node.what = what
  BY <1>3 DEF Node, NodeShape
<1>8. answer' \in Seq(NodeShape) /\ Range(answer') = Range(answer) \cup {node}
  BY <1>2, <1>6, <1>7, RangeOfAppend
<1>9. pending' \in Seq(PlaceShape) /\ Range(pending') = Range(before) \cup Range(rest)
  <2>1. before \in Seq(PlaceShape) /\ rest \in Seq(PlaceShape) /\ pending' = before \o rest
    BY <1>3, <1>6
  <2> HIDE DEF rest
  <2>2. before \o rest \in Seq(PlaceShape) /\ Range(before \o rest) = Range(before) \cup Range(rest)
    BY <2>1, ConcatProperties, RangeConcatenation
  <2> QED
    BY <2>1, <2>2
<1> HIDE DEF node, p, rest
<1>10. WalkShapes'
  BY <1>1, <1>2, <1>8, <1>9 DEF WalkShapes
<1>11. Answered' = Answered \cup {p.schema} /\ p.schema \in Waiting
  BY <1>3, <1>7, <1>8 DEF Answered, Waiting
<1>12. Answered \cup Waiting \subseteq Answered' \cup Waiting'
  BY <1>3, <1>9, <1>11 DEF Waiting
<1>13. NamesInv'
  <2>1. seen' = {n.place.schema : n \in {x \in Range(answer)' : Full(x)}}
    <3>1. seen = {n.place.schema : n \in {x \in Range(answer) : Full(x)}}
      BY DEF WalkInv, NamesInv
    <3>2. Full(node) <=> what = "full" /\ p.byRef
      BY <1>7 DEF Full
    <3>3. seen' = IF Full(node) THEN seen \cup {p.schema} ELSE seen
      BY <1>6, <3>2
    <3> QED
      BY <1>7, <1>8, <3>1, <3>3
  <2>2. NamedOnce'
    <3>1. Full(node) => \A m \in Range(answer) : Full(m) => m.place.schema # node.place.schema
      BY <1>6, <1>7 DEF WalkInv, NamesInv, Full, Repeated
    <3>2. NamedOnce /\ answer' = Append(answer, node)
      BY <1>6 DEF WalkInv, NamesInv, node
    <3> QED
      BY <1>2, <1>7, <3>1, <3>2, NamedOnceStep
  <2>3. seen \subseteq seen'
    BY <1>6
  <2>4. ASSUME NEW n \in Range(answer)', n.what = "ref", Len(n.place.path) < maxDepth
        PROVE  n.place.schema \in seen'
    <3>1. CASE n \in Range(answer)
      BY <2>3, <2>4, <3>1 DEF WalkInv, NamesInv
    <3>2. CASE n = node
      <4>1. ~TooDeep(p)
        BY <1>2, <1>4, <1>7, <2>4, <3>2 DEF TooDeep
      <4> QED
        BY <1>6, <1>7, <2>3, <2>4, <3>2, <4>1 DEF Repeated
    <3> QED
      BY <1>8, <3>1, <3>2
  <2> QED
    BY <1>1, <2>1, <2>2, <2>4 DEF NamesInv
<1>14. Unfolded'
  <2> SUFFICES ASSUME NEW n \in Range(answer)', n.what = "full"
               PROVE  Targets(doc, n.place.schema) \subseteq Answered' \cup Waiting'
    BY SameDocument DEF Unfolded
  <2>1. CASE n \in Range(answer)
    BY <1>12, <2>1 DEF WalkInv, Unfolded
  <2>2. CASE n = node
    BY <1>6, <1>7, <1>9, <2>2 DEF Waiting
  <2> QED
    BY <1>8, <2>1, <2>2
<1>15. ASSUME call.tool = "get_endpoint" PROVE EndpointInv'
  <2>1. EndpointInv
    BY <1>15 DEF WalkInv
  <2>2. p.slot.part \in Own => p.schema \in Reached /\ Targets(doc, p.schema) \subseteq Reached
    <3>1. OperationSchemas(Operation) \subseteq Schemas
      BY <1>4, <1>15, OperationSchemasAreSchemas DEF WalkInv, Frame, Operation, Keys
    <3>2. p.slot.part \in Own => p.schema \in Reached
      BY <1>3, <2>1 DEF EndpointInv
    <3> QED
      BY <1>4, <3>1, <3>2, ReachableHolds DEF Reached
  <2>3. \A n \in Range(answer)' : n.place.slot.part \in Own => n.place.schema \in Reached
    BY <1>7, <1>8, <2>1, <2>2 DEF EndpointInv
  <2>4. \A q \in Range(pending)' : q.slot.part \in Own => q.schema \in Reached
    BY <1>3, <1>6, <1>9, <2>1, <2>2 DEF EndpointInv
  <2>5. \A s \in Ahead' : s.part \in Own => s.schema \in OperationSchemas(Operation) \cup {None}
    BY <1>5, <2>1 DEF EndpointInv
  <2>6. OperationSchemas(Operation) \subseteq Answered' \cup Waiting' \cup Slotted'
    BY <1>5, <1>12, <2>1 DEF EndpointInv
  <2> QED
    BY <2>3, <2>4, <2>5, <2>6, SameDocument DEF EndpointInv
<1> QED
  BY <1>10, <1>13, <1>14, <1>15

\* Before a walk nothing is answered and nothing waits.
LEMMA NothingWalked ==
  ASSUME Frame', slots' \in Seq(SUBSET SlotShape), maxDepth' \in Int,
         pending' = << >>, seen' = {}, answer' = << >>, call'.tool = "get_endpoint" => EndpointInv'
  PROVE  WalkInv'
<1>1. Range(answer)' = {} /\ << >> \in Seq(PlaceShape) /\ << >> \in Seq(NodeShape)
  BY EmptySeq DEF Range
<1>2. NamesInv'
  BY <1>1 DEF NamesInv, NamedOnce
<1>3. Unfolded'
  BY <1>1 DEF Unfolded
<1> QED
  BY <1>1, <1>2, <1>3 DEF WalkInv, WalkShapes

LEMMA EndpointStart ==
  ASSUME Frame, Frame', NEW k, NEW n, GetEndpoint(k, n), k \in Keys(doc)
  PROVE  WalkInv'
<1>1. /\ call' = CallOf("get_endpoint", None, k, None, None) /\ doc' = doc
      /\ slots' = EndpointSlots(doc.ops[k]) /\ maxDepth' = EffectiveMaxDepth(n)
      /\ pending' = << >> /\ seen' = {} /\ answer' = << >>
  BY DEF GetEndpoint, StartWalk
<1>2. WellFormed(doc) /\ k \in DOMAIN doc.ops
  BY DocumentsAssumption DEF Frame, Keys
<1>3. /\ slots' \in Seq(SUBSET SlotShape)
      /\ \A s \in UNION Range(slots') :
           s.part \in Own => s.schema \in OperationSchemas(doc.ops[k]) \cup {None}
      /\ \A v \in OperationSchemas(doc.ops[k]) : \E s \in UNION Range(slots') : s.schema = v
  <2> DEFINE groups == EndpointSlots(doc.ops[k])
  <2>1. slots' = groups
    BY <1>1
  <2>2. /\ groups \in Seq(SUBSET SlotShape)
        /\ \A s \in UNION Range(groups) :
             s.part \in Own => s.schema \in OperationSchemas(doc.ops[k]) \cup {None}
        /\ \A v \in OperationSchemas(doc.ops[k]) : \E s \in UNION Range(groups) : s.schema = v
    BY ONLY <1>2, EndpointSlotsHold
  <2> HIDE DEF groups
  <2> QED
    BY <2>1, <2>2
<1>4. Operation' = doc.ops[k] /\ Ahead' = UNION Range(slots')
  BY <1>1 DEF Operation, CallOf, Ahead
<1>5. OperationSchemas(Operation)' = OperationSchemas(doc.ops[k])
  BY <1>4 DEF OperationSchemas, BodySchemas, Media, Range
<1>6. Range(answer)' = {} /\ Range(pending)' = {}
  BY <1>1 DEF Range
<1>7. EndpointInv'
  BY <1>3, <1>4, <1>5, <1>6 DEF EndpointInv, Slotted
<1>8. maxDepth' \in Int
  BY <1>1 DEF EffectiveMaxDepth, DefaultMaxDepth
<1> QED
  BY <1>1, <1>3, <1>7, <1>8, NothingWalked

LEMMA SchemaStart ==
  ASSUME Frame, Frame', NEW v, NEW n, GetSchema(v, n), v \in Components
  PROVE  WalkInv'
<1>1. /\ call' = CallOf("get_schema", None, None, v, None)
      /\ slots' = SchemaSlots(v) /\ maxDepth' = EffectiveMaxDepth(n)
      /\ pending' = << >> /\ seen' = {} /\ answer' = << >>
  BY DEF GetSchema, StartWalk
<1>2. slots' \in Seq(SUBSET SlotShape)
  BY <1>1, SchemaSlotsHold
<1>3. maxDepth' \in Int
  BY <1>1 DEF EffectiveMaxDepth, DefaultMaxDepth
<1>4. call'.tool # "get_endpoint"
  BY <1>1 DEF CallOf
<1> QED
  BY <1>1, <1>2, <1>3, <1>4, NothingWalked

LEMMA WalkInvStep == ASSUME WalkInv, [ToolsNext]_toolVars PROVE WalkInv'
<1>1. Frame /\ Frame'
  BY FrameStep DEF WalkInv
<1>2. maxDepth \in Int
  BY DEF WalkInv, WalkShapes
<1>3. ASSUME call'.tool \notin Resolvers, maxDepth' \in Int PROVE WalkInv'
  <2>1. slots' = << >> /\ pending' = << >> /\ seen' = {} /\ answer' = << >>
    BY <1>1, <1>3 DEF Frame
  <2>2. slots' \in Seq(SUBSET SlotShape)
    BY <2>1, EmptySeq
  <2>3. call'.tool # "get_endpoint"
    BY <1>3 DEF Resolvers
  <2> QED
    BY <1>1, <1>3, <2>1, <2>2, <2>3, NothingWalked
<1>4. ASSUME UNCHANGED <<doc, call, walkVars>> PROVE WalkInv'
  <2>1. UNCHANGED <<doc, call, slots, maxDepth, pending, seen, answer>>
    BY <1>4 DEF walkVars
  <2>2. WalkShapes'
    BY <2>1 DEF WalkInv, WalkShapes
  <2>3. NamesInv' /\ Unfolded'
    BY <2>1, SameDocument DEF WalkInv, NamesInv, NamedOnce, Unfolded, Answered, Waiting
  <2>4. EndpointInv => EndpointInv'
    BY <2>1, SameDocument DEF EndpointInv, Answered, Waiting, Slotted, Ahead
  <2> QED
    BY <1>1, <2>1, <2>2, <2>3, <2>4 DEF WalkInv
<1>5. CASE Refuse
  BY <1>2, <1>3, <1>5 DEF Refuse, Refused, CallOf, Resolvers, walkVars
<1>6. ASSUME NEW k, NEW n, GetEndpoint(k, n) PROVE WalkInv'
  BY <1>1, <1>5, <1>6, EndpointStart DEF GetEndpoint
<1>7. ASSUME NEW v, NEW n, GetSchema(v, n) PROVE WalkInv'
  BY <1>1, <1>5, <1>7, SchemaStart DEF GetSchema
<1>8. ASSUME NEW w, NEW v, NEW k, GenerateTypes(w, v, k) PROVE WalkInv'
  <2>1. CASE call' = CallOf("generate_types", TypesMode(w, v, k), k, v, None) /\ UNCHANGED walkVars
    BY <1>2, <1>3, <2>1 DEF CallOf, Resolvers, walkVars
  <2> QED
    BY <1>5, <1>8, <2>1 DEF GenerateTypes
<1>9. ASSUME NEW tool \in Listings, NEW mode, NEW f, NEW l, NEW o, StartListing(tool, mode, f, l, o)
      PROVE  WalkInv'
  BY <1>2, <1>3, <1>9 DEF StartListing, CallOf, Resolvers, Listings, walkVars
<1>10. CASE WalkStep
  <2>1. /\ doc' = doc /\ call' = call
        /\ NextSlot \/ ResolveSchema
    BY <1>10 DEF WalkStep, Walk
  <2> QED
    BY <1>1, <2>1, NextSlotInv, ResolveSchemaInv DEF WalkInv
<1>11. CASE CollectStep \/ NextPage \/ UNCHANGED toolVars
  BY <1>4, <1>11 DEF CollectStep, NextPage, toolVars
<1>12. CASE Reindex
  <2>1. more /\ call' = call /\ UNCHANGED walkVars
    BY <1>12 DEF Reindex, Reindexed
  <2>2. call.tool \notin Resolvers
    BY <1>1, <2>1 DEF Frame, Resolvers, Listings
  <2> QED
    BY <1>2, <1>3, <2>1, <2>2 DEF walkVars
<1>13. CASE Reply
  BY <1>3, <1>13 DEF Reply, NoWalk, Idle, CallOf, Resolvers
<1> QED
  BY <1>6, <1>7, <1>8, <1>9, <1>10, <1>11, <1>12, <1>13
  DEF ToolsNext, StartCall, Continue, Listings

\* What TLC checks of the walk on its documents holds of every document.
THEOREM WalkInvariance == ToolsSpec => []WalkInv
<1>1. ASSUME ToolsInit PROVE WalkInv
  <2>1. Frame
    BY <1>1, FrameStart
  <2>2. /\ slots = << >> /\ maxDepth = 0 /\ pending = << >> /\ seen = {} /\ answer = << >>
        /\ call.tool = "none"
    BY <1>1 DEF ToolsInit, Idle, CallOf
  <2>3. /\ << >> \in Seq(SUBSET SlotShape) /\ << >> \in Seq(PlaceShape) /\ << >> \in Seq(NodeShape)
        /\ Range(answer) = {} /\ DOMAIN answer = {}
    BY <2>2, EmptySeq DEF Range
  <2>4. NamesInv /\ Unfolded
    BY <2>2, <2>3 DEF NamesInv, NamedOnce, Unfolded
  <2> QED
    BY <2>1, <2>2, <2>3, <2>4 DEF WalkInv, WalkShapes
<1> QED
  BY <1>1, WalkInvStep, PTL DEF ToolsSpec

\* A shared schema is expanded at one place of an answer only, in every document
\* and at every depth (extractor.go:60-64).
THEOREM NamedOnceTheorem == ToolsSpec => []NamedOnce
<1>1. WalkInv => NamedOnce
  BY DEF WalkInv, NamesInv
<1> QED
  BY <1>1, WalkInvariance, PTL

-----------------------------------------------------------------------------
(* Whole answers *)

\* A $ref above the depth limit stands for an expansion elsewhere in the
\* answer, lost only with a parameter that was overridden (extractor.go:322-350).
THEOREM NamesTheorem == ToolsSpec => []NamesAreExpanded
<1>1. ASSUME WalkInv PROVE NamesAreExpanded
  <2> SUFFICES ASSUME Resolving, NEW n \in Shown, n.what = "ref", Len(n.place.path) < maxDepth
               PROVE  \E m \in Range(answer) : /\ Full(m) /\ m.place.schema = n.place.schema
                                              /\ (m \in Shown \/ m.place.slot.part = "path")
    BY DEF NamesAreExpanded
  <2>1. n \in Range(answer)
    BY DEF Shown, Kept
  <2>2. n.place.schema \in seen
    BY <1>1, <2>1 DEF WalkInv, NamesInv
  <2>3. PICK m \in Range(answer) : Full(m) /\ m.place.schema = n.place.schema
    BY <1>1, <2>2 DEF WalkInv, NamesInv
  <2>4. m \in Shown \/ m.place.slot.part = "path"
    BY DEF Shown, Kept, Dropped
  <2> QED
    BY <2>3, <2>4
<1> QED
  BY <1>1, WalkInvariance, PTL

\* get_endpoint and list_schemas agree on what an operation uses: its answer
\* names no more of it than the analyzer counts, and all the analyzer counts is in
\* it or behind a name it leaves (extractor.go:322-420, analyzer.go:529-590).
THEOREM AnswerCoverTheorem == ToolsSpec => []AnswerCoversReferences
<1>1. ASSUME WalkInv, call.tool = "get_endpoint", Walked
      PROVE  /\ \A n \in Range(answer) :
                  n.place.slot.part \in Own /\ n.place.schema \in Components
                  => n.place.schema \in CollectOperationRefs(doc, Operation)
             /\ CollectOperationRefs(doc, Operation)
                  \subseteq Answered \cup Reachable(doc, Frontier)
  <2>1. WellFormed(doc) /\ OperationSchemas(Operation) \subseteq Schemas
    BY <1>1, DocumentsAssumption, OperationSchemasAreSchemas DEF WalkInv, Frame, Operation, Keys
  <2>2. answer \in Seq(NodeShape) /\ EndpointInv
    BY <1>1 DEF WalkInv, WalkShapes
  <2>3. Waiting = {} /\ Ahead = {} /\ Slotted = {}
    BY <1>1 DEF Walked, Waiting, Ahead, Slotted, Range
  <2>4. \A n \in Range(answer) : /\ n.place.schema \in Schemas /\ n.what \in {"full", "ref", "cut"}
    <3>1. \A n \in Range(answer) : n \in NodeShape
      BY <2>2, RangeOfSeq
    <3> QED
      BY <3>1 DEF NodeShape, PlaceShape
  <2>5. Frontier \subseteq Schemas /\ Answered \subseteq Schemas
    BY <2>4 DEF Frontier, Answered
  <2> DEFINE T == Answered \cup Reachable(doc, Frontier)
  <2>6. T \subseteq Schemas
    BY <2>1, <2>5, ReachableHolds
  <2>7. OperationSchemas(Operation) \subseteq T
    BY <2>2, <2>3 DEF EndpointInv
  <2>8. ASSUME NEW u \in T PROVE Targets(doc, u) \subseteq T
    <3>1. CASE u \in Reachable(doc, Frontier)
      BY <2>1, <2>5, <3>1, ReachableHolds
    <3>2. CASE u \in Answered /\ u \notin Frontier
      <4>1. PICK n \in Range(answer) : n.place.schema = u
        BY <3>2 DEF Answered
      <4>2. \E m \in Range(answer) : m.what = "full" /\ m.place.schema = u
        BY <2>4, <3>2, <4>1 DEF Frontier, Full
      <4> QED
        BY <1>1, <2>3, <4>2 DEF WalkInv, Unfolded
    <3>3. CASE u \in Frontier
      BY <2>1, <2>5, <3>1, <3>3, ReachableHolds
    <3> QED
      BY <3>1, <3>2, <3>3
  <2> HIDE DEF T
  <2>9. Reached \subseteq T
    BY <2>6, <2>7, <2>8, ReachableIsLeast DEF Reached
  <2> QED
    BY <2>2, <2>9 DEF EndpointInv, CollectOperationRefs, Reached, T
<1>2. WalkInv => AnswerCoversReferences
  BY <1>1 DEF AnswerCoversReferences, Answered, Own
<1> QED
  BY <1>2, WalkInvariance, PTL
=============================================================================
