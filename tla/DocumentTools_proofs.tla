------------------------ MODULE DocumentTools_proofs ------------------------
(***************************************************************************)
(* Proofs about DocumentTools, for every document: what a call leaves to   *)
(* the next one, and the types generate_types declares.                    *)
(***************************************************************************)
EXTENDS DocumentTools, SchemaGraph_proofs

Resolvers == {"get_endpoint", "get_schema"}
Listings == {"list_endpoints", "search_spec", "list_schemas"}

\* A call that walks a document keeps the one it began with, and leaves the
\* variables of the others as a call finds them.
Frame ==
  /\ doc \in Documents
  /\ call.tool \in {"none", "refused", "generate_types"} \cup Resolvers \cup Listings
  /\ more => call.tool \in Listings
  /\ call.tool = "get_endpoint" => call.key \in Keys(doc)
  /\ call.tool = "get_schema" => call.schema \in Components
  /\ call.tool # "generate_types" => wanted = {} /\ visited = {} /\ collected = {}
  /\ call.tool \notin Resolvers =>
       slots = << >> /\ pending = << >> /\ seen = {} /\ answer = << >>
  /\ call.tool \notin Listings => ~more

-----------------------------------------------------------------------------
(* What is collected *)

Items == [name : Int, schema : Schemas, byRef : BOOLEAN]
RefTo(u) == Generating!Item(u, u, TRUE)
Itself(v) == Generating!Item(v, v, FALSE)
Walks(v) == Generating!WalkedTargets(doc, v)
Leads == [v \in Schemas |-> Walks(v)]
Known == wanted \cup collected

\* Every key is collected once, and what its schema refers to with it or after it.
Collecting ==
  /\ Known \subseteq Items
  /\ \A it \in Known : it.byRef => it.schema \in Components /\ it = RefTo(it.schema)
  /\ visited = {Generating!Key(it) : it \in collected}
  /\ \A a, b \in collected : Generating!Key(a) = Generating!Key(b) => a = b
  /\ \A it \in collected : \A u \in Walks(it.schema) : RefTo(u) \in Known

\* Of a tag, all its operations reach; of a schema, it and all that lead on from
\* it; of an endpoint, bodies under names that are no component's.
RootsKept ==
  /\ call.mode \in {"tag", "schema", "endpoint"}
  /\ call.mode = "tag" =>
       \E word \in Tags : /\ \A v \in CollectTagRefs(doc, word) : \E it \in Known : it.name = v
                          /\ \A it \in Known : it.schema \in CollectTagRefs(doc, word)
  /\ call.mode = "schema" =>
       /\ call.schema \in Components
       /\ Itself(call.schema) \in Known
       /\ \A it \in Known : IF it.byRef THEN it.schema \in Closure(Leads[call.schema], Leads)
                                        ELSE it = Itself(call.schema)
  /\ call.mode = "endpoint" => \A it \in Known : ~it.byRef => it.name < 0

TypesInv ==
  /\ Frame
  /\ Collecting
  /\ call.tool = "generate_types" => RootsKept

-----------------------------------------------------------------------------
(* The frame *)

LEMMA FrameStart == ToolsInit => Frame
BY DEF ToolsInit, Frame, Idle, CallOf, Resolvers, Listings

LEMMA FrameStep == ASSUME Frame, [ToolsNext]_toolVars PROVE Frame'
<1> USE DEF CallOf, Idle, Refused, Resolvers, Listings
<1>1. ASSUME Refuse, call = Idle PROVE Frame'
  BY <1>1 DEF Refuse, Frame, walkVars, pageVars, genVars
<1>2. ASSUME NEW k, NEW n, GetEndpoint(k, n) PROVE Frame'
  <2>1. CASE k \notin Keys(doc)
    BY <1>1, <1>2, <2>1 DEF GetEndpoint
  <2>2. CASE k \in Keys(doc)
    BY <1>2, <2>2 DEF GetEndpoint, StartWalk, Frame, pageVars, genVars
  <2> QED
    BY <2>1, <2>2
<1>3. ASSUME NEW v, NEW n, GetSchema(v, n) PROVE Frame'
  <2>1. CASE v \notin Components
    BY <1>1, <1>3, <2>1 DEF GetSchema
  <2>2. CASE v \in Components
    BY <1>3, <2>2 DEF GetSchema, StartWalk, Frame, pageVars, genVars
  <2> QED
    BY <2>1, <2>2
<1>4. ASSUME NEW w, NEW v, NEW k, GenerateTypes(w, v, k) PROVE Frame'
  <2> DEFINE items == TypesItems(TypesMode(w, v, k), w, v, k)
  <2>1. CASE items = {}
    BY <1>1, <1>4, <2>1 DEF GenerateTypes
  <2>2. CASE items # {}
    BY <1>4, <2>2 DEF GenerateTypes, Frame, walkVars, pageVars
  <2> QED
    BY <2>1, <2>2
<1>5. ASSUME NEW tool \in Listings, NEW mode, NEW f, NEW l, NEW o,
             StartListing(tool, mode, f, l, o)
      PROVE  Frame'
  BY <1>5 DEF StartListing, StartPaging, Frame, walkVars, genVars
<1>6. CASE WalkStep
  <2>1. slots # << >> \/ pending # << >>
    BY <1>6 DEF WalkStep, Walk, NextSlot, ResolveSchema
  <2> QED
    BY <1>6, <2>1 DEF WalkStep, Frame, pageVars, genVars
<1>7. CASE CollectStep
  <2>1. wanted # {}
    BY <1>7 DEF CollectStep, Generating!Collect, Generating!CollectRefs
  <2> QED
    BY <1>7, <2>1 DEF CollectStep, Frame, walkVars, pageVars
<1>8. CASE NextPage
  BY <1>8 DEF NextPage, FetchPage, Frame, walkVars, genVars
<1>9. CASE Reindex
  <2>1. /\ doc' \in Revisions /\ more /\ more'
        /\ UNCHANGED <<call, walkVars, genVars>>
    BY <1>9 DEF Reindex, Reindexed
  <2> QED
    BY <2>1, DocumentsAssumption DEF Frame, walkVars, genVars
<1>10. CASE Reply
  BY <1>10 DEF Reply, NoWalk, NoTypes, NoPages, Frame
<1>11. CASE UNCHANGED toolVars
  BY <1>11 DEF toolVars, Frame, walkVars, pageVars
<1> QED
  BY <1>2, <1>3, <1>4, <1>5, <1>6, <1>7, <1>8, <1>9, <1>10, <1>11
  DEF ToolsNext, StartCall, Continue

-----------------------------------------------------------------------------
(* The generator's schema graph is the document's *)

LEMMA SameGraph ==
  /\ Generating!Schemas = Schemas
  /\ \A v : Generating!Named(v) = Named(v)
  /\ \A d, v : /\ Generating!EdgeSet(d, v) = EdgeSet(d, v)
               /\ Generating!Targets(d, v) = Targets(d, v)
               /\ \A kind : Generating!Held(d, v, kind) = Held(d, v, kind)
  /\ \A roots, next : Generating!Closure(roots, next) = Closure(roots, next)
<1>1. Generating!Schemas = Schemas
  BY DEF Generating!Schemas, Schemas
<1>2. ASSUME NEW v PROVE Generating!Named(v) = Named(v)
  BY DEF Generating!Named, Named
<1>3. ASSUME NEW d, NEW v
      PROVE  /\ Generating!EdgeSet(d, v) = EdgeSet(d, v)
             /\ Generating!Targets(d, v) = Targets(d, v)
             /\ \A kind : Generating!Held(d, v, kind) = Held(d, v, kind)
  <2>1. Generating!EdgeSet(d, v) = EdgeSet(d, v)
    BY DEF Generating!EdgeSet, EdgeSet, Generating!Edges, Edges
  <2> QED
    BY <2>1 DEF Generating!Targets, Targets, Generating!Held, Held
<1>4. ASSUME NEW roots, NEW next
      PROVE  Generating!Closure(roots, next) = Closure(roots, next)
  BY <1>1 DEF Generating!Closure, Closure
<1> QED
  BY <1>1, <1>2, <1>3, <1>4

LEMMA SameTagRefs ==
  ASSUME NEW d, NEW word
  PROVE  Generating!CollectTagRefs(d, word) = CollectTagRefs(d, word)
<1>1. ASSUME NEW roots PROVE Generating!Reachable(d, roots) = Reachable(d, roots)
  BY SameGraph DEF Generating!Reachable, Reachable
<1>2. ASSUME NEW op PROVE Generating!OperationSchemas(op) = OperationSchemas(op)
  BY DEF Generating!OperationSchemas, OperationSchemas, Generating!BodySchemas, BodySchemas,
         Generating!Media, Media, Generating!Range, Range
<1>3. ASSUME NEW op
      PROVE  Generating!CollectOperationRefs(d, op) = CollectOperationRefs(d, op)
  BY <1>1, <1>2 DEF Generating!CollectOperationRefs, CollectOperationRefs
<1>4. ASSUME NEW op PROVE Generating!HasTag(op, word) = HasTag(op, word)
  BY DEF Generating!HasTag, HasTag, Generating!Fold, Fold, Generating!Range, Range
<1> QED
  BY <1>3, <1>4 DEF Generating!CollectTagRefs, CollectTagRefs

-----------------------------------------------------------------------------
(* What a declaration mentions *)

\* What the operations with a tag refer to is closed under references.
LEMMA TagRefsAreClosed ==
  ASSUME NEW d, WellFormed(d), NEW word, NEW v \in CollectTagRefs(d, word)
  PROVE  /\ v \in Components
         /\ Reachable(d, {v}) \cap Components \subseteq CollectTagRefs(d, word)
<1>1. PICK k \in DOMAIN d.ops : /\ HasTag(d.ops[k], word)
                                /\ v \in CollectOperationRefs(d, d.ops[k])
  BY DEF CollectTagRefs
<1> DEFINE R == Reachable(d, OperationSchemas(d.ops[k]))
<1>2. /\ R \subseteq Schemas
      /\ \A u \in R : Targets(d, u) \subseteq R
  BY OperationSchemasAreSchemas, ReachableHolds
<1>3. v \in R /\ v \in Components
  BY <1>1 DEF CollectOperationRefs
<1> HIDE DEF R
<1>4. Reachable(d, {v}) \subseteq R
  BY <1>2, <1>3, ReachableIsLeast
<1>5. R \cap Components \subseteq CollectTagRefs(d, word)
  BY <1>1 DEF CollectTagRefs, CollectOperationRefs, R
<1> QED
  BY <1>3, <1>4, <1>5

\* The schemas a type in place is made of are held by it.
LEMMA PartsAreTargets ==
  ASSUME NEW d, NEW v
  PROVE  /\ Generating!TsParts(d, v) \subseteq Targets(d, v)
         /\ Generating!GoParts(d, v) \subseteq Targets(d, v)
<1>1. \A kind : Generating!Held(d, v, kind) \subseteq Targets(d, v)
  BY DEF Generating!Held, Generating!EdgeSet, Generating!Edges, Targets, EdgeSet, Edges
<1>2. Generating!UnionMembers(d, v) \subseteq Targets(d, v)
  BY <1>1 DEF Generating!UnionMembers
<1>3. Generating!Elements(d, v) \subseteq Targets(d, v)
  BY <1>1 DEF Generating!Elements
<1> QED
  BY <1>1, <1>2, <1>3 DEF Generating!TsParts, Generating!GoParts

\* A merged allOf is written from what its members hold, members in place only.
LEMMA MergedIsHeld ==
  ASSUME NEW d, NEW v, NEW u \in Generating!Merged(d, v)
  PROVE  \E w \in Held(d, v, "allOf") \ Components : \E e \in EdgeSet(d, w) :
           e.kind = "properties" /\ e.to = u
<1> DEFINE es == Edges(d, v)
           all == {i \in DOMAIN es : es[i].kind = "allOf"}
<1>1. /\ \A w \in Held(d, v, "allOf") : w \notin Components
      /\ \E i \in all : \E e \in EdgeSet(d, es[i].to) : e.kind = "properties" /\ e.to = u
  BY SameGraph DEF Generating!Merged, Generating!Edges, Edges
<1>2. PICK i \in all : \E e \in EdgeSet(d, es[i].to) : e.kind = "properties" /\ e.to = u
  BY <1>1
<1>3. es[i].to \in Held(d, v, "allOf")
  BY DEF Held, EdgeSet
<1> QED
  BY <1>1, <1>2, <1>3

\* A declaration is written from schemas its own holds, or a member of its allOf.
LEMMA DeclaredFromHeld ==
  ASSUME NEW d, NEW lang, NEW v, NEW u \in Generating!DeclaredFrom(d, lang, v)
  PROVE  u \in Targets(d, v) \cup Generating!Merged(d, v)
<1>1. \A kind : Generating!Held(d, v, kind) \subseteq Targets(d, v)
  BY DEF Generating!Held, Generating!EdgeSet, Generating!Edges, Targets, EdgeSet, Edges
<1>2. Generating!UnionMembers(d, v) \subseteq Targets(d, v)
  BY <1>1 DEF Generating!UnionMembers
<1>3. Generating!Elements(d, v) \subseteq Targets(d, v)
  BY <1>1 DEF Generating!Elements
<1> QED
  BY <1>1, <1>2, <1>3 DEF Generating!DeclaredFrom

\* No type mentions a component that its schema does not reach.
LEMMA MentionsAreReached ==
  ASSUME NEW d, WellFormed(d), NEW lang, NEW v \in Schemas
  PROVE  Generating!Mentions(d, lang, v) \subseteq Reachable(d, {v}) \cap Components
<1> DEFINE R == Reachable(d, {v})
           parts == [w \in Schemas |-> IF lang = "go" THEN Generating!GoParts(d, w)
                                                      ELSE Generating!TsParts(d, w)]
<1>1. /\ R \subseteq Schemas /\ v \in R
      /\ \A u \in R : Targets(d, u) \subseteq R
  BY ReachableHolds
<1>2. ASSUME NEW u \in Generating!DeclaredFrom(d, lang, v) PROVE u \in R
  <2>1. CASE u \in Targets(d, v)
    BY <1>1, <2>1
  <2>2. CASE u \in Generating!Merged(d, v)
    <3>1. PICK w \in Held(d, v, "allOf") : u \in Targets(d, w)
      BY <2>2, MergedIsHeld DEF Targets
    <3>2. w \in R
      BY <1>1 DEF Held, Targets
    <3> QED
      BY <1>1, <3>1, <3>2
  <2> QED
    BY <2>1, <2>2, DeclaredFromHeld
<1>3. ASSUME NEW u \in R PROVE parts[u] \subseteq R
  <2>1. u \in Schemas /\ Targets(d, u) \subseteq R
    BY <1>1
  <2> QED
    BY <2>1, PartsAreTargets
<1>4. Generating!Mentions(d, lang, v)
        = Closure(Generating!DeclaredFrom(d, lang, v), parts) \cap Components
  BY SameGraph DEF Generating!Mentions, Generating!TypeRefs
<1> HIDE DEF R, parts
<1>5. Closure(Generating!DeclaredFrom(d, lang, v), parts) \subseteq R
  BY <1>1, <1>2, <1>3, ClosureIsLeast
<1> QED
  BY <1>4, <1>5 DEF R

\* In a flat document the components a declaration mentions are among those
\* collectRefs follows from its schema.
LEMMA FlatMentionsAreWalked ==
  ASSUME Flat, WellFormed(doc), NEW lang, NEW v \in Schemas
  PROVE  Generating!Mentions(doc, lang, v) \subseteq Walks(v)
<1> DEFINE T == Targets(doc, v) \cup Generating!ItemsOfProperties(doc, v)
           parts == [w \in Schemas |-> IF lang = "go" THEN Generating!GoParts(doc, w)
                                                      ELSE Generating!TsParts(doc, w)]
<1>1. Generating!ItemsOfProperties(doc, v)
        = UNION {Held(doc, u, "items") : u \in Held(doc, v, "properties") \ Components}
  BY SameGraph DEF Generating!ItemsOfProperties
<1>2. Walks(v) = T \cap Components
  BY SameGraph DEF Walks, Generating!WalkedTargets
<1>3. T \subseteq Schemas
  BY <1>1, TargetsAreSchemas
<1>4. ASSUME NEW u \in Generating!Merged(doc, v) PROVE FALSE
  <2>1. PICK w \in Held(doc, v, "allOf") \ Components : EdgeSet(doc, w) # {}
    BY MergedIsHeld
  <2>2. PICK e \in EdgeSet(doc, v) : e.kind = "allOf" /\ e.to = w
    BY DEF Held
  <2> QED
    BY <2>1, <2>2 DEF Flat, Named
<1>5. Generating!DeclaredFrom(doc, lang, v) \subseteq T
  BY <1>4, DeclaredFromHeld
<1>6. ASSUME NEW u \in T PROVE parts[u] \subseteq T
  <2>1. u \in Schemas /\ (parts[u] # {} => ~Named(u)) /\ parts[u] \subseteq Targets(doc, u)
    BY <1>3, SameGraph, PartsAreTargets DEF Generating!TsParts, Generating!GoParts
  <2>2. CASE Named(u) \/ Targets(doc, u) = {}
    BY <2>1, <2>2
  <2>3. CASE ~Named(u) /\ Targets(doc, u) # {}
    <3>1. EdgeSet(doc, u) # {}
      BY <2>3 DEF Targets
    <3>2. ASSUME NEW w \in Schemas, NEW e \in EdgeSet(doc, w), e.to = u
          PROVE  e.kind = "properties" /\ \A x \in EdgeSet(doc, u) : x.kind = "items"
      BY <2>3, <3>1, <3>2 DEF Flat
    <3>3. u \notin Generating!ItemsOfProperties(doc, v)
      <4> SUFFICES ASSUME NEW w \in Held(doc, v, "properties"), u \in Held(doc, w, "items")
                   PROVE  FALSE
        BY <1>1
      <4>1. w \in Schemas
        BY TargetsAreSchemas
      <4>2. PICK e \in EdgeSet(doc, w) : e.kind = "items" /\ e.to = u
        BY DEF Held
      <4> QED
        BY <3>2, <4>1, <4>2
    <3>4. PICK e \in EdgeSet(doc, v) : e.to = u
      BY <3>3 DEF Targets
    <3>5. u \in Held(doc, v, "properties") \ Components
      BY <2>3, <3>2, <3>4 DEF Held, Named
    <3>6. Targets(doc, u) \subseteq Held(doc, u, "items")
      BY <3>2, <3>4 DEF Targets, Held
    <3> QED
      BY <1>1, <2>1, <3>5, <3>6
  <2> QED
    BY <2>2, <2>3
<1>7. Generating!Mentions(doc, lang, v)
        = Closure(Generating!DeclaredFrom(doc, lang, v), parts) \cap Components
  BY SameGraph DEF Generating!Mentions, Generating!TypeRefs
<1> HIDE DEF T, parts
<1>8. Closure(Generating!DeclaredFrom(doc, lang, v), parts) \subseteq T
  BY <1>3, <1>5, <1>6, ClosureIsLeast
<1> QED
  BY <1>2, <1>7, <1>8

-----------------------------------------------------------------------------
(* Types are collected *)

LEMMA WalkedTargetsAreComponents ==
  ASSUME NEW v PROVE Walks(v) \subseteq Components
BY DEF Walks, Generating!WalkedTargets

\* What a call starts from.
LEMMA RootItems ==
  ASSUME doc \in Documents, NEW word \in Tags \cup {None}, NEW name \in Components \cup {None},
         NEW key, NEW mode, mode = TypesMode(word, name, key),
         NEW it \in TypesItems(mode, word, name, key)
  PROVE  /\ it \in Items
         /\ it.byRef => it.schema \in Components /\ it = RefTo(it.schema)
         /\ mode \in {"tag", "schema", "endpoint"}
         /\ mode = "tag" => word \in Tags /\ it.schema \in CollectTagRefs(doc, word)
         /\ mode = "schema" => name \in Components /\ it = Itself(name)
         /\ mode = "endpoint" => it.byRef \/ it.name < 0

<1> USE DEF Generating!Item, Items, RefTo, Itself
<1>1. WellFormed(doc) /\ Components \subseteq Int /\ Components \subseteq Schemas
  BY DocumentsAssumption, GraphAssumption DEF Schemas
<1>2. mode \in {"tag", "schema", "endpoint"}
  BY DEF TypesItems, TypesMode
<1>3. CASE mode = "tag"
  <2>1. word \in Tags
    BY <1>3, NoneAssumption DEF TypesMode
  <2>2. PICK v \in CollectTagRefs(doc, word) : it = Itself(v)
    BY <1>3, SameTagRefs DEF TypesItems, Generating!TagItems
  <2>3. v \in Components
    BY <1>1, TagRefsAreClosed
  <2> QED
    BY <1>1, <1>3, <2>1, <2>2, <2>3
<1>4. CASE mode = "schema"
  <2>1. name \in Components /\ it = Itself(name)
    BY <1>4 DEF TypesItems, Generating!SchemaItems
  <2> QED
    BY <1>1, <1>4, <2>1
<1>5. CASE mode = "endpoint"
  <2>1. /\ key \in DOMAIN doc.ops
        /\ it \in Generating!EndpointItems(doc.ops[key])
    BY <1>5 DEF TypesItems, Keys
  <2> DEFINE op == doc.ops[key]
  <2>2. /\ HoldsSchemas(op.request)
        /\ op.responses \in Seq(Range(op.responses))
        /\ \A r \in Range(op.responses) : HoldsSchemas(r.content)
    BY <1>1, <2>1 DEF WellFormed
  <2>3. it \in Generating!EndpointItems(op)
    BY <2>1
  <2> HIDE DEF op
  <2>4. ASSUME NEW content, HoldsSchemas(content), NEW v \in Generating!Media(content)
        PROVE  v \in Schemas
    BY <2>4 DEF Generating!Media, HoldsSchemas
  <2>5. PICK v \in Schemas, place \in Nat \ {0} : it = Generating!BodyItem(v, place)
    <3>1. CASE it \in {Generating!BodyItem(v, 1) : v \in Generating!Media(op.request)}
      BY <2>2, <2>4, <3>1
    <3>2. CASE it \in UNION {{Generating!BodyItem(v, i + 1)
                               : v \in Generating!Media(op.responses[i].content)}
                              : i \in DOMAIN op.responses}
      <4>1. PICK i \in DOMAIN op.responses :
              \E v \in Generating!Media(op.responses[i].content) :
                it = Generating!BodyItem(v, i + 1)
        BY <3>2
      <4>2. HoldsSchemas(op.responses[i].content)
        BY <2>2 DEF Range
      <4>3. i + 1 \in Nat \ {0}
        <5>1. i \in Nat
          BY <2>2, LenProperties
        <5> QED
          BY <5>1
      <4> QED
        BY <2>4, <4>1, <4>2, <4>3
    <3> QED
      BY <2>3, <3>1, <3>2 DEF Generating!EndpointItems
  <2>6. CASE Named(v)
    <3>1. it = RefTo(v) /\ v \in Components
      BY <2>5, <2>6, SameGraph DEF Generating!BodyItem, Named
    <3> QED
      BY <1>1, <1>5, <3>1
  <2>7. CASE ~Named(v)
    <3>1. it = [name |-> -place, schema |-> v, byRef |-> FALSE]
      BY <2>5, <2>7, SameGraph DEF Generating!BodyItem
    <3>2. -place \in Int /\ -place < 0
      OBVIOUS
    <3> QED
      BY <1>5, <3>1, <3>2
  <2> QED
    BY <2>6, <2>7
<1> QED
  BY <1>2, <1>3, <1>4, <1>5

\* One step of collectRefs: what is known stays known under its key, and what is
\* new is referred to.
LEMMA CollectingStep ==
  ASSUME Collecting, NEW it \in wanted, Generating!CollectRefs(it), doc' = doc
  PROVE  /\ Collecting'
         /\ \A x \in Known : \E y \in Known' : Generating!Key(y) = Generating!Key(x)
         /\ \A x \in Known' \ Known : /\ x = RefTo(x.schema)
                                     /\ \E y \in Known : x.schema \in Walks(y.schema)
<1> USE DEF Generating!Item, RefTo, Generating!Key
<1> DEFINE new == {RefTo(u) : u \in Walks(it.schema)}
<1>1. Components \subseteq Int /\ Components \subseteq Schemas
  BY GraphAssumption DEF Schemas
<1>2. \A v : Walks(v)' = Walks(v)
  BY DEF Walks, Generating!WalkedTargets, Generating!ItemsOfProperties, Generating!Targets,
     Generating!Held, Generating!EdgeSet, Generating!Edges
<1>3. new \subseteq Items /\ \A x \in new : x.byRef /\ x.schema \in Components /\ x = RefTo(x.schema)
  <2> SUFFICES ASSUME NEW u \in Walks(it.schema)
               PROVE  RefTo(u) \in Items /\ RefTo(u).byRef /\ u \in Components
    OBVIOUS
  <2>1. u \in Components
    BY WalkedTargetsAreComponents
  <2> QED
    BY <1>1, <2>1 DEF Items
<1>4. CASE Generating!Key(it) \in visited
  <2>1. wanted' = wanted \ {it} /\ UNCHANGED <<visited, collected>>
    BY <1>4 DEF Generating!CollectRefs
  <2>2. PICK y \in collected : Generating!Key(y) = Generating!Key(it)
    BY <1>4 DEF Collecting
  <2>3. it.byRef => y = it
    <3>1. y.byRef = it.byRef /\ y.name = it.name
      BY <2>2
    <3>2. /\ y.byRef => y = RefTo(y.schema)
          /\ it.byRef => it = RefTo(it.schema)
      BY DEF Collecting, Known
    <3> HIDE DEF Generating!Item, Generating!Key
    <3>3. \A u : RefTo(u).name = u
      BY DEF Generating!Item
    <3> HIDE DEF RefTo
    <3> QED
      BY <3>1, <3>2, <3>3
  <2>4. Known' \subseteq Known /\ \A x \in Known : x \in Known' \/ x = it
    BY <2>1 DEF Known
  <2>5. \A a \in collected : \A u \in Walks(a.schema) : RefTo(u) \in Known'
    <3> SUFFICES ASSUME NEW a \in collected, NEW u \in Walks(a.schema)
                 PROVE  RefTo(u) \in Known'
      OBVIOUS
    <3>1. RefTo(u) \in Known /\ RefTo(u).byRef
      BY DEF Collecting
    <3>2. CASE RefTo(u) = it
      BY <2>1, <2>3, <3>1, <3>2 DEF Known
    <3> QED
      BY <2>4, <3>1, <3>2
  <2>6. Collecting'
    BY <1>2, <2>1, <2>4, <2>5 DEF Collecting
  <2> QED
    BY <2>1, <2>2, <2>4, <2>6 DEF Known
<1>5. CASE Generating!Key(it) \notin visited
  <2>1. /\ visited' = visited \cup {Generating!Key(it)}
        /\ collected' = collected \cup {it}
        /\ wanted' = (wanted \ {it}) \cup new
    BY <1>5 DEF Generating!CollectRefs, Walks
  <2>2. Known' = Known \cup new
    BY <2>1 DEF Known
  <2>3. \A a \in collected : Generating!Key(a) # Generating!Key(it)
    BY <1>5 DEF Collecting
  <2>4. visited' = {Generating!Key(x) : x \in collected'}
    BY <2>1 DEF Collecting
  <2>5. \A a, b \in collected' : Generating!Key(a) = Generating!Key(b) => a = b
    BY <2>1, <2>3 DEF Collecting
  <2>6. \A a \in collected' : \A u \in Walks(a.schema)' : RefTo(u) \in Known'
    BY <1>2, <2>1, <2>2 DEF Collecting
  <2>7. /\ Known' \subseteq Items
        /\ \A x \in Known' : x.byRef => x.schema \in Components /\ x = RefTo(x.schema)
    BY <1>3, <2>2 DEF Collecting
  <2>8. Collecting'
    BY <2>4, <2>5, <2>6, <2>7 DEF Collecting
  <2>9. it \in Known
    BY DEF Known
  <2> QED
    BY <1>3, <2>2, <2>8, <2>9
<1> QED
  BY <1>4, <1>5

\* What collectRefs follows is reached.
LEMMA WalkedIsReached ==
  ASSUME WellFormed(doc), NEW v \in Schemas
  PROVE  Walks(v) \subseteq Reachable(doc, {v}) \cap Components
<1>1. /\ Reachable(doc, {v}) \subseteq Schemas /\ v \in Reachable(doc, {v})
      /\ \A u \in Reachable(doc, {v}) : Targets(doc, u) \subseteq Reachable(doc, {v})
  BY ReachableHolds
<1>2. ASSUME NEW u \in Walks(v) PROVE u \in Reachable(doc, {v})
  <2>1. \/ u \in Targets(doc, v)
        \/ \E w \in Targets(doc, v) : u \in Targets(doc, w)
    BY SameGraph
    DEF Walks, Generating!WalkedTargets, Generating!ItemsOfProperties, Held, Targets
  <2> QED
    BY <1>1, <2>1
<1> QED
  BY <1>2, WalkedTargetsAreComponents

LEMMA LeadsAreSchemas == Leads \in [Schemas -> SUBSET Schemas]
<1>1. Components \subseteq Schemas
  BY DEF Schemas
<1> QED
  BY <1>1, WalkedTargetsAreComponents DEF Leads

LEMMA RootsKeptStep ==
  ASSUME doc \in Documents, Collecting, RootsKept, NEW it \in wanted,
         Generating!CollectRefs(it), UNCHANGED <<doc, call>>
  PROVE  RootsKept'
<1>1. WellFormed(doc)
  BY DocumentsAssumption
<1>2. /\ \A x \in Known : \E y \in Known' : y.name = x.name /\ y.byRef = x.byRef
      /\ \A x \in Known' \ Known :
           /\ x.byRef
           /\ \E y \in Known : x.schema \in Walks(y.schema)
  <2>1. \A x, y : Generating!Key(x) = Generating!Key(y) => x.name = y.name /\ x.byRef = y.byRef
    BY DEF Generating!Key
  <2>2. \A u : RefTo(u).byRef
    BY DEF RefTo, Generating!Item
  <2> QED
    BY <2>1, <2>2, CollectingStep
<1>3. \A x \in Known : x \in Items
  BY DEF Collecting
<1>4. \A v : CollectTagRefs(doc, v)' = CollectTagRefs(doc, v)
  BY DEF CollectTagRefs, CollectOperationRefs, Reachable, Targets, EdgeSet, Edges
<1>5. Leads' = Leads
  <2>1. \A v : Walks(v)' = Walks(v)
    BY DEF Walks, Generating!WalkedTargets, Generating!ItemsOfProperties, Generating!Targets,
       Generating!Held, Generating!EdgeSet, Generating!Edges
  <2> QED
    BY <2>1 DEF Leads
<1>6. CASE call.mode = "tag"
  <2>1. PICK word \in Tags : /\ \A v \in CollectTagRefs(doc, word) : \E x \in Known : x.name = v
                             /\ \A x \in Known : x.schema \in CollectTagRefs(doc, word)
    BY <1>6 DEF RootsKept
  <2>2. \A v \in CollectTagRefs(doc, word) : \E x \in Known' : x.name = v
    BY <1>2, <2>1
  <2>3. ASSUME NEW x \in Known' PROVE x.schema \in CollectTagRefs(doc, word)
    <3>1. CASE x \in Known
      BY <2>1, <3>1
    <3>2. CASE x \notin Known
      <4>1. PICK y \in Known : x.schema \in Walks(y.schema)
        BY <1>2, <3>2
      <4>2. y.schema \in CollectTagRefs(doc, word) /\ y.schema \in Schemas
        BY <1>3, <2>1 DEF Items
      <4> QED
        BY <1>1, <4>1, <4>2, WalkedIsReached, TagRefsAreClosed
    <3> QED
      BY <3>1, <3>2
  <2> QED
    BY <1>4, <1>6, <2>2, <2>3 DEF RootsKept
<1>7. CASE call.mode = "schema"
  <2> DEFINE root == call.schema
             C == Closure(Leads[root], Leads)
  <2>1. /\ root \in Components /\ root \in Schemas
        /\ Itself(root) \in Known
        /\ \A x \in Known : IF x.byRef THEN x.schema \in C ELSE x = Itself(root)
    BY <1>7 DEF RootsKept, Schemas
  <2>2. Leads[root] \subseteq C /\ \A u \in C : u \in Schemas /\ Leads[u] \subseteq C
    BY <2>1, LeadsAreSchemas, ClosureOfSchemas, ClosureHoldsRoots, ClosureIsClosed
  <2>3. \A v \in Schemas : Walks(v) = Leads[v]
    BY DEF Leads
  <2>4. Itself(root).schema = root /\ ~Itself(root).byRef
    BY DEF Itself, Generating!Item
  <2> HIDE DEF C, root
  <2>5. Itself(root) \in Known'
    <3>1. PICK y \in Known' : ~y.byRef
      BY <1>2, <2>1, <2>4
    <3>2. y \in Known
      BY <1>2, <3>1
    <3> QED
      BY <2>1, <3>1, <3>2
  <2>6. ASSUME NEW x \in Known' PROVE IF x.byRef THEN x.schema \in C ELSE x = Itself(root)
    <3>1. CASE x \in Known
      BY <2>1, <3>1
    <3>2. CASE x \notin Known
      <4>1. x.byRef /\ \E y \in Known : x.schema \in Walks(y.schema)
        BY <1>2, <3>2
      <4>2. PICK y \in Known : x.schema \in Walks(y.schema)
        BY <4>1
      <4>3. y.schema \in Schemas /\ (y.schema \in C \/ y.schema = root)
        BY <1>3, <2>1, <2>4 DEF Items
      <4> QED
        BY <2>1, <2>2, <2>3, <4>1, <4>2, <4>3
    <3> QED
      BY <3>1, <3>2
  <2> QED
    BY <1>5, <1>7, <2>1, <2>5, <2>6 DEF RootsKept, root, C
<1>8. CASE call.mode = "endpoint"
  <2>1. \A x \in Known' : ~x.byRef => x.name < 0
    BY <1>2, <1>8 DEF RootsKept
  <2> QED
    BY <1>8, <2>1 DEF RootsKept
<1> QED
  BY <1>6, <1>7, <1>8 DEF RootsKept

LEMMA TypesStart == ToolsInit => TypesInv
BY FrameStart DEF ToolsInit, TypesInv, Collecting, Known, Idle, CallOf

\* A step of another call leaves nothing collected.
LEMMA NothingCollected ==
  ASSUME wanted = {}, visited = {}, collected = {} PROVE Collecting
BY DEF Collecting, Known

LEMMA TypesStep == ASSUME TypesInv, [ToolsNext]_toolVars PROVE TypesInv'
<1>1. Frame /\ Frame'
  BY FrameStep DEF TypesInv
<1>2. ASSUME NEW word \in Tags \cup {None}, NEW name \in Components \cup {None}, NEW key,
             GenerateTypes(word, name, key),
             TypesItems(TypesMode(word, name, key), word, name, key) # {}
      PROVE  TypesInv'
  <2> DEFINE mode == TypesMode(word, name, key)
             items == TypesItems(mode, word, name, key)
  <2>1. /\ call' = CallOf("generate_types", mode, key, name, None)
        /\ wanted' = items /\ visited' = {} /\ collected' = {}
        /\ doc' = doc /\ doc \in Documents
    BY <1>1, <1>2 DEF GenerateTypes, Generating!StartCollect, Frame
  <2>2. Known' = items
    BY <2>1 DEF Known
  <2>3. \A it \in items : /\ it \in Items
                          /\ it.byRef => it.schema \in Components /\ it = RefTo(it.schema)
                          /\ mode \in {"tag", "schema", "endpoint"}
                          /\ mode = "tag" => word \in Tags /\ it.schema \in CollectTagRefs(doc, word)
                          /\ mode = "schema" => name \in Components /\ it = Itself(name)
                          /\ mode = "endpoint" => it.byRef \/ it.name < 0
    BY <2>1, RootItems
  <2>4. Collecting'
    BY <2>1, <2>2, <2>3 DEF Collecting
  <2>5. call'.mode = mode /\ call'.schema = name /\ mode \in {"tag", "schema", "endpoint"}
    BY <1>2, <2>1, <2>3 DEF CallOf
  <2>6. CASE mode = "tag"
    <3>1. \A v \in CollectTagRefs(doc, word) : Itself(v) \in items /\ Itself(v).name = v
      <4>1. items = Generating!TagItems(doc, word)
        BY <2>6, NoneAssumption DEF TypesItems
      <4>2. items = {Itself(v) : v \in CollectTagRefs(doc, word)}
        BY <4>1, SameTagRefs DEF Generating!TagItems, Itself
      <4>3. \A v : Itself(v).name = v
        BY DEF Itself, Generating!Item
      <4> QED
        BY <4>2, <4>3
    <3>2. word \in Tags
      BY <1>2, <2>3, <2>6
    <3>3. CollectTagRefs(doc, word)' = CollectTagRefs(doc, word)
      BY <2>1 DEF CollectTagRefs, CollectOperationRefs, Reachable, Targets, EdgeSet, Edges
    <3> HIDE DEF items, mode
    <3>4. \A v \in CollectTagRefs(doc, word)' : \E it \in Known' : it.name = v
      BY <2>2, <3>1, <3>3
    <3>5. \A it \in Known' : it.schema \in CollectTagRefs(doc, word)'
      BY <2>2, <2>3, <2>6, <3>3
    <3> QED
      BY <1>1, <2>4, <2>5, <2>6, <3>2, <3>4, <3>5 DEF TypesInv, RootsKept
  <2>7. CASE mode = "schema"
    <3>1. \A it \in items : it = Itself(name) /\ ~it.byRef
      BY <2>3, <2>7 DEF Itself, Generating!Item
    <3> HIDE DEF items, mode
    <3> QED
      BY <1>1, <1>2, <2>2, <2>3, <2>4, <2>5, <2>7, <3>1 DEF TypesInv, RootsKept, items, mode
  <2>8. CASE mode = "endpoint"
    <3> HIDE DEF items, mode
    <3> QED
      BY <1>1, <2>2, <2>3, <2>4, <2>5, <2>8 DEF TypesInv, RootsKept
  <2> QED
    BY <2>5, <2>6, <2>7, <2>8
<1>3. ASSUME call'.tool # "generate_types" PROVE TypesInv'
  BY <1>1, <1>3, NothingCollected DEF TypesInv, Frame, Collecting, Known
<1>4. CASE CollectStep
  <2>1. PICK it \in wanted : Generating!CollectRefs(it)
    BY <1>4 DEF CollectStep, Generating!Collect, Generating!CollectRefs
  <2>2. UNCHANGED <<doc, call>>
    BY <1>4 DEF CollectStep
  <2>3. call.tool = "generate_types" /\ doc \in Documents
    BY <1>1, <2>1 DEF Frame
  <2> QED
    BY <1>1, <2>1, <2>2, <2>3, CollectingStep, RootsKeptStep DEF TypesInv
<1>5. ASSUME call.tool = "generate_types", UNCHANGED <<doc, call, wanted, visited, collected>>
      PROVE  TypesInv'
  <2>1. \A v : Walks(v)' = Walks(v)
    BY <1>5 DEF Walks, Generating!WalkedTargets, Generating!ItemsOfProperties, Generating!Targets,
       Generating!Held, Generating!EdgeSet, Generating!Edges
  <2>2. \A v : CollectTagRefs(doc, v)' = CollectTagRefs(doc, v)
    BY <1>5 DEF CollectTagRefs, CollectOperationRefs, Reachable, Targets, EdgeSet, Edges
  <2>3. Known' = Known /\ Leads' = Leads
    BY <1>5, <2>1 DEF Known, Leads
  <2>4. Collecting'
    BY <1>5, <2>1, <2>3 DEF TypesInv, Collecting
  <2>5. RootsKept'
    BY <1>5, <2>2, <2>3 DEF TypesInv, RootsKept
  <2> QED
    BY <1>1, <2>4, <2>5 DEF TypesInv
<1>6. CASE StartCall
  <2>1. CASE Refuse
    BY <1>3, <2>1 DEF Refuse, Refused, CallOf
  <2>2. CASE \/ \E k \in AllKeys, n \in Depths : GetEndpoint(k, n)
             \/ \E v \in Components \cup {None}, n \in Depths : GetSchema(v, n)
             \/ \E mode \in {"spec", "sweep"}, l \in Limits, o \in Offsets :
                  \/ \E f \in Filters : StartListing("list_endpoints", mode, f, l, o)
                  \/ \E w \in Words : StartListing("search_spec", mode, w, l, o)
                  \/ StartListing("list_schemas", mode, None, l, o)
    BY <1>3, <2>1, <2>2 DEF GetEndpoint, GetSchema, StartListing, CallOf
  <2>3. ASSUME NEW w \in Tags \cup {None}, NEW v \in Components \cup {None}, NEW k,
               GenerateTypes(w, v, k)
        PROVE  TypesInv'
    BY <1>2, <2>1, <2>3 DEF GenerateTypes
  <2> QED
    BY <1>6, <2>2, <2>3 DEF StartCall
<1>7. CASE Reply
  BY <1>3, <1>7 DEF Reply, Idle, CallOf
<1>8. CASE WalkStep \/ NextPage \/ Reindex \/ UNCHANGED toolVars
  <2>1. call' = call
    BY <1>8 DEF WalkStep, NextPage, Reindex, toolVars
  <2>2. CASE call.tool = "generate_types"
    <3>1. ~more
      BY <1>1, <2>2 DEF Frame, Listings
    <3>2. UNCHANGED <<doc, call, wanted, visited, collected>>
      BY <1>8, <3>1 DEF WalkStep, NextPage, FetchPage, Reindex, Reindexed, toolVars, genVars
    <3> QED
      BY <1>5, <2>2, <3>2
  <2> QED
    BY <1>3, <2>1, <2>2
<1> QED
  BY <1>4, <1>6, <1>7, <1>8 DEF ToolsNext, Continue

LEMMA TypesInvariance == ToolsSpec => []TypesInv
BY TypesStart, TypesStep, PTL DEF ToolsSpec

-----------------------------------------------------------------------------
(* Theorems *)

\* The types of a tag mention no type that is not declared with them, although
\* the declarations look where collectRefs does not: the roots are all that the
\* tag's operations reach.
THEOREM TagTypesTheorem == ToolsSpec => []TagTypesAreClosed
<1>1. ASSUME TypesInv, Generated({"tag"}) PROVE Closed
  <2>1. /\ Collecting /\ RootsKept /\ WellFormed(doc)
        /\ call.mode = "tag" /\ Known = collected
    BY <1>1, DocumentsAssumption DEF TypesInv, Frame, Generated, Generating!Collected, Known
  <2>2. PICK word \in Tags : /\ \A v \in CollectTagRefs(doc, word) : \E x \in collected : x.name = v
                             /\ \A x \in collected : x.schema \in CollectTagRefs(doc, word)
    BY <2>1 DEF RootsKept
  <2>3. ASSUME NEW it \in collected, NEW lang
        PROVE  Generating!Mentions(doc, lang, it.schema) \subseteq CollectTagRefs(doc, word)
    <3>1. it.schema \in CollectTagRefs(doc, word) /\ it.schema \in Schemas
      BY <2>1, <2>2 DEF Collecting, Items
    <3> QED
      BY <2>1, <3>1, MentionsAreReached, TagRefsAreClosed
  <2> QED
    BY <2>2, <2>3 DEF Closed, Generating!DeclaredNames
<1> QED
  BY <1>1, TypesInvariance, PTL DEF TagTypesAreClosed

\* In a document that writes no deeper schema in place, collectRefs looks where
\* the declarations do, so the types of a schema or an endpoint are complete too.
THEOREM FlatTypesTheorem == ToolsSpec => []FlatTypesAreClosed
<1>1. ASSUME TypesInv, Generated({"schema", "endpoint"}), Flat PROVE Closed
  <2>1. Collecting /\ WellFormed(doc) /\ Known = collected
    BY <1>1, DocumentsAssumption DEF TypesInv, Frame, Generated, Generating!Collected, Known
  <2>2. ASSUME NEW it \in collected, NEW lang, NEW u \in Generating!Mentions(doc, lang, it.schema)
        PROVE  u \in Generating!DeclaredNames(collected)
    <3>1. it.schema \in Schemas
      BY <2>1 DEF Collecting, Items
    <3>2. u \in Walks(it.schema)
      BY <1>1, <2>1, <3>1, FlatMentionsAreWalked
    <3>3. RefTo(u) \in collected /\ RefTo(u).name = u
      BY <2>1, <3>2 DEF Collecting, RefTo, Generating!Item
    <3> QED
      BY <3>3 DEF Generating!DeclaredNames
  <2> QED
    BY <2>2 DEF Closed
<1> QED
  BY <1>1, TypesInvariance, PTL DEF FlatTypesAreClosed

\* The one name that can be declared twice is the schema asked for, and it is
\* when and only when the schemas it collects lead back to it.
THEOREM TwiceTheorem == ToolsSpec => []TwiceIsRecursive
<1>1. ASSUME TypesInv, Generated({"schema", "endpoint"})
      PROVE  (\E a, b \in collected : a # b /\ a.name = b.name)
               <=> (call.mode = "schema" /\ call.schema \in Closure(Leads[call.schema], Leads))
  <2> DEFINE root == call.schema
             C == Closure(Leads[root], Leads)
  <2>1. /\ Collecting /\ RootsKept /\ Known = collected
        /\ call.mode \in {"schema", "endpoint"}
    BY <1>1 DEF TypesInv, Generated, Generating!Collected, Known
  <2>2. ASSUME NEW a \in collected, NEW b \in collected, a # b, a.name = b.name
        PROVE  a.byRef # b.byRef
    BY <2>1, <2>2 DEF Collecting, Generating!Key
  <2>3. \A u : RefTo(u).name = u /\ RefTo(u).schema = u /\ RefTo(u).byRef
    BY DEF RefTo, Generating!Item
  <2>4. Itself(root).name = root /\ ~Itself(root).byRef
    BY DEF Itself, Generating!Item
  <2>5. ASSUME NEW a \in collected, NEW b \in collected, a.byRef, ~b.byRef, a.name = b.name
        PROVE  call.mode = "schema" /\ root \in C
    <3>1. a.name = a.schema /\ a.schema \in Components
      BY <2>1, <2>3, <2>5 DEF Collecting
    <3>2. CASE call.mode = "endpoint"
      <4>1. b.name < 0
        BY <2>1, <2>5, <3>2 DEF RootsKept
      <4>2. b.name \in Nat
        BY <2>5, <3>1, GraphAssumption
      <4> QED
        BY <4>1, <4>2
    <3>3. CASE call.mode = "schema"
      <4>1. a.schema \in C /\ b = Itself(root)
        BY <2>1, <2>5, <3>3 DEF RootsKept
      <4> QED
        BY <2>4, <2>5, <3>1, <3>3, <4>1
    <3> QED
      BY <2>1, <3>2, <3>3
  <2>6. ASSUME call.mode = "schema", root \in C
        PROVE  \E a, b \in collected : a # b /\ a.name = b.name
    <3> DEFINE T == {v \in Schemas : RefTo(v) \in collected}
    <3>1. Itself(root) \in collected /\ root \in Schemas
      BY <2>1, <2>6 DEF RootsKept, Schemas
    <3>2. ASSUME NEW it \in collected, NEW u \in Leads[it.schema] PROVE u \in T
      <4>1. it.schema \in Schemas /\ u \in Walks(it.schema)
        BY <2>1, <3>2 DEF Collecting, Items, Leads
      <4> QED
        BY <2>1, <4>1, WalkedTargetsAreComponents DEF Collecting, Schemas
    <3>3. \A u \in T : Leads[u] \subseteq T
      BY <2>3, <3>2
    <3>4. Itself(root).schema = root
      BY DEF Itself, Generating!Item
    <3>5. Leads[root] \subseteq T
      BY <3>1, <3>2, <3>4
    <3>6. C \subseteq T
      BY <3>3, <3>5, ClosureIsLeast
    <3>7. RefTo(root) \in collected
      BY <2>6, <3>6
    <3> QED
      BY <2>3, <2>4, <3>1, <3>7
  <2>7. ASSUME NEW a \in collected, NEW b \in collected, a # b, a.name = b.name
        PROVE  call.mode = "schema" /\ root \in C
    <3>1. a.byRef \in BOOLEAN /\ b.byRef \in BOOLEAN
      BY <2>1 DEF Collecting, Items
    <3>2. a.byRef # b.byRef
      BY <2>2, <2>7
    <3>3. CASE a.byRef /\ ~b.byRef
      BY <2>5, <2>7, <3>3
    <3>4. CASE ~a.byRef /\ b.byRef
      BY <2>5, <2>7, <3>4
    <3> QED
      BY <3>1, <3>2, <3>3, <3>4
  <2> HIDE DEF root, C
  <2>8. (\E a, b \in collected : a # b /\ a.name = b.name)
          <=> (call.mode = "schema" /\ root \in C)
    BY <2>6, <2>7
  <2> QED
    BY <2>8 DEF root, C
<1>2. TypesInv => TwiceIsRecursive
  BY <1>1 DEF TwiceIsRecursive, Leads, Walks
<1> QED
  BY <1>2, TypesInvariance, PTL
=============================================================================
