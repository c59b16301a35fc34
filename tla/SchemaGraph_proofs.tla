------------------------- MODULE SchemaGraph_proofs -------------------------
(***************************************************************************)
(* What Closure returns: a set that holds its roots and what they lead to, *)
(* and lies in every other set that does.                                  *)
(***************************************************************************)
EXTENDS SchemaGraph, SequenceTheorems, TLAPS

LEMMA ClosureOfSchemas ==
  ASSUME NEW roots, NEW next PROVE Closure(roots, next) \subseteq Schemas
BY DEF Closure

LEMMA ClosureHoldsRoots ==
  ASSUME NEW roots \in SUBSET Schemas, NEW next
  PROVE  roots \subseteq Closure(roots, next)
BY DEF Closure

\* What one of its schemas leads to is in it.
LEMMA ClosureIsClosed ==
  ASSUME NEW roots, NEW next \in [Schemas -> SUBSET Schemas],
         NEW u \in Closure(roots, next)
  PROVE  next[u] \subseteq Closure(roots, next)
<1> SUFFICES ASSUME NEW v \in next[u] PROVE v \in Closure(roots, next)
  OBVIOUS
<1>1. u \in Schemas /\ v \in Schemas
  BY ClosureOfSchemas
<1>2. ASSUME NEW T \in {roots \cup U : U \in SUBSET (Schemas \ roots)},
             \A w \in T : next[w] \subseteq T
      PROVE  v \in T
  <2>1. u \in T
    BY <1>2 DEF Closure
  <2> QED
    BY <1>2, <2>1
<1> QED
  BY <1>1, <1>2 DEF Closure

\* Nothing is in it but what it must hold.
LEMMA ClosureIsLeast ==
  ASSUME NEW roots, NEW next, NEW T \in SUBSET Schemas,
         roots \subseteq T, \A u \in T : next[u] \subseteq T
  PROVE  Closure(roots, next) \subseteq T
<1>1. T = roots \cup (T \ roots) /\ T \ roots \in SUBSET (Schemas \ roots)
  OBVIOUS
<1>2. T \in {roots \cup U : U \in SUBSET (Schemas \ roots)}
  BY <1>1
<1> QED
  BY <1>2 DEF Closure

\* The schemas of a document lead to schemas.
LEMMA TargetsAreSchemas ==
  ASSUME NEW d, WellFormed(d), NEW v \in Schemas
  PROVE  /\ Targets(d, v) \subseteq Schemas
         /\ \A kind : Held(d, v, kind) \subseteq Targets(d, v)
<1>1. Edges(d, v) \in Seq([kind : STRING, label : Nat, to : Schemas])
  BY DEF WellFormed
<1>2. ASSUME NEW e \in EdgeSet(d, v) PROVE e.to \in Schemas
  <2>1. e \in Range(Edges(d, v))
    BY DEF EdgeSet, Range
  <2>2. e \in [kind : STRING, label : Nat, to : Schemas]
    BY <1>1, <2>1, RangeOfSeq
  <2> QED
    BY <2>2
<1> QED
  BY <1>2 DEF Targets, Held

LEMMA ReachableHolds ==
  ASSUME NEW d, WellFormed(d), NEW roots \in SUBSET Schemas
  PROVE  /\ Reachable(d, roots) \subseteq Schemas
         /\ roots \subseteq Reachable(d, roots)
         /\ \A u \in Reachable(d, roots) : Targets(d, u) \subseteq Reachable(d, roots)
<1> DEFINE next == [v \in Schemas |-> Targets(d, v)]
<1>1. next \in [Schemas -> SUBSET Schemas]
  BY TargetsAreSchemas
<1>2. Reachable(d, roots) = Closure(roots, next)
  BY DEF Reachable
<1>3. ASSUME NEW u \in Closure(roots, next) PROVE Targets(d, u) \subseteq Closure(roots, next)
  <2>1. u \in Schemas /\ next[u] = Targets(d, u)
    BY ClosureOfSchemas
  <2> QED
    BY <1>1, <2>1, ClosureIsClosed
<1> QED
  BY <1>2, <1>3, ClosureOfSchemas, ClosureHoldsRoots

LEMMA ReachableIsLeast ==
  ASSUME NEW d, NEW roots, NEW T \in SUBSET Schemas,
         roots \subseteq T, \A u \in T : Targets(d, u) \subseteq T
  PROVE  Reachable(d, roots) \subseteq T
BY ClosureIsLeast DEF Reachable

\* The schemas an operation begins with.
LEMMA OperationSchemasAreSchemas ==
  ASSUME NEW d, WellFormed(d), NEW k \in DOMAIN d.ops
  PROVE  OperationSchemas(d.ops[k]) \subseteq Schemas
<1> DEFINE op == d.ops[k]
<1>1. /\ op.params \in Seq([name : Nat, schema : Schemas \cup {None}])
      /\ op.responses \in Seq(Range(op.responses))
      /\ HoldsSchemas(op.request)
      /\ \A r \in Range(op.responses) : HoldsSchemas(r.content)
  BY DEF WellFormed
<1> HIDE DEF op
<1>2. ASSUME NEW p \in Range(op.params) PROVE p.schema \in Schemas \cup {None}
  <2>1. p \in [name : Nat, schema : Schemas \cup {None}]
    BY <1>1, RangeOfSeq
  <2> QED
    BY <2>1
<1>3. \A i \in DOMAIN op.responses : HoldsSchemas(op.responses[i].content)
  BY <1>1 DEF Range
<1>4. ASSUME NEW content, HoldsSchemas(content) PROVE Media(content) \subseteq Schemas
  BY <1>4 DEF Media, HoldsSchemas
<1>5. BodySchemas(op) \subseteq Schemas
  BY <1>1, <1>3, <1>4 DEF BodySchemas
<1>6. OperationSchemas(op) \subseteq Schemas
  BY <1>2, <1>5 DEF OperationSchemas
<1> QED
  BY <1>6 DEF op
=============================================================================
