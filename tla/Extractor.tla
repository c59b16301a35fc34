----------------------------- MODULE Extractor -----------------------------
(***************************************************************************)
(* internal/extractor/extractor.go: get_schema and get_endpoint resolve    *)
(* the schemas of a document into trees.  A component is expanded at its   *)
(* first $ref and named from then on; one set of expanded names serves a   *)
(* whole answer.  The recursion is a stack of places still to be resolved, *)
(* so a step is one call of resolveSchema.                                 *)
(***************************************************************************)
EXTENDS SchemaGraph

VARIABLES
  doc,       \* the document
  slots,     \* where trees start: sets of slots, one after the other
  maxDepth,
  pending,   \* places to resolve, the next one first
  seen,      \* names that have been expanded
  answer     \* the nodes of the answer, in the order they were made

walkVars == <<slots, maxDepth, pending, seen, answer>>

DefaultMaxDepth == 3

\* getResolveDepth, effectiveMaxDepth: 0..10, anything else is the default.
EffectiveMaxDepth(arg) == IF arg \in 0..10 THEN arg ELSE DefaultMaxDepth

\* A slot: a parameter, header or media type of the answer and its schema.
Slot(part, i, key, v) == [part |-> part, body |-> i, key |-> key, schema |-> v]

\* A place: the schema it holds, whether by $ref, and how it is reached: the
\* slot and the numbers of the edges from there.
Place(v, byRef, slot, path) == [schema |-> v, byRef |-> byRef, slot |-> slot, path |-> path]

\* A node is "full", or a mere name: "ref", or "cut" for one that has no name.
Node(p, what) == [place |-> p, what |-> what]

\* Parameters, headers and responses come in a fixed order; the media types
\* of a content are a Go map, ranged over in any order.
ParamSlots(level, params) ==
  [i \in DOMAIN params |-> {Slot(level, 0, params[i].name, params[i].schema)}]
ContentSlots(i, content) == {Slot("content", i, m, content[m]) : m \in DOMAIN content}
HeaderSlots(i, headers) == [k \in DOMAIN headers |-> {Slot("header", i, k, headers[k])}]

\* GetEndpoint: path parameters, the operation's, the request, the responses.
\* Response i of the sequence is body i + 1.
EndpointSlots(op) ==
  LET resp[i \in 0..Len(op.responses)] ==
        IF i = 0 THEN << >>
        ELSE resp[i - 1] \o HeaderSlots(i + 1, op.responses[i].headers)
                         \o <<ContentSlots(i + 1, op.responses[i].content)>> IN
  ParamSlots("path", op.pathParams) \o ParamSlots("operation", op.params)
    \o <<ContentSlots(1, op.request)>> \o resp[Len(op.responses)]

\* GetSchema: the component itself, which is no $ref.
SchemaSlots(v) == <<{Slot("schema", 0, None, v)}>>

StartWalk(groups, depthArg) ==
  /\ slots' = groups
  /\ maxDepth' = EffectiveMaxDepth(depthArg)
  /\ pending' = << >> /\ seen' = {} /\ answer' = << >>

Root(slot) == Place(slot.schema, Named(slot.schema) /\ slot.part # "schema", slot, << >>)

\* On to the next slot; one without a schema adds nothing.
NextSlot ==
  /\ pending = << >> /\ slots # << >>
  /\ IF Head(slots) = {}
     THEN slots' = Tail(slots) /\ UNCHANGED pending
     ELSE \E s \in Head(slots) :
            /\ slots' = [slots EXCEPT ![1] = @ \ {s}]
            /\ pending' = IF s.schema = None THEN << >> ELSE <<Root(s)>>
  /\ UNCHANGED <<maxDepth, seen, answer>>

\* Mutant: the values of additionalProperties are left out.
Children_NoMaps(p) ==
  LET es == SelectSeq(Edges(doc, p.schema), LAMBDA e : e.kind # "additionalProperties") IN
  [i \in DOMAIN es |-> Place(es[i].to, Named(es[i].to), p.slot, Append(p.path, i))]

\* What a schema holds: properties by name, items, additionalProperties,
\* oneOf, anyOf, allOf.
Children(p) ==
  LET es == Edges(doc, p.schema) IN
  [i \in DOMAIN es |-> Place(es[i].to, Named(es[i].to), p.slot, Append(p.path, i))]

Repeated(p) == p.byRef /\ p.schema \in seen
TooDeep(p) == Len(p.path) >= maxDepth

\* Mutant: a name cut at the depth limit counts as expanded.
NameOnly_Seen(p) ==
  /\ Repeated(p) \/ TooDeep(p)
  /\ answer' = Append(answer, Node(p, IF p.byRef THEN "ref" ELSE "cut"))
  /\ pending' = Tail(pending)
  /\ seen' = IF p.byRef THEN seen \cup {p.schema} ELSE seen

\* A repeated name, or the depth limit.
NameOnly(p) ==
  /\ Repeated(p) \/ TooDeep(p)
  /\ answer' = Append(answer, Node(p, IF p.byRef THEN "ref" ELSE "cut"))
  /\ pending' = Tail(pending)
  /\ UNCHANGED seen

\* Mutant: a name counts as expanded only when its own schemas are not refs.
Expand_Late(p) ==
  /\ ~Repeated(p) /\ ~TooDeep(p)
  /\ seen' = IF p.byRef /\ Targets(doc, p.schema) \cap Components = {}
             THEN seen \cup {p.schema} ELSE seen
  /\ answer' = Append(answer, Node(p, "full"))
  /\ pending' = Children(p) \o Tail(pending)

\* The name is marked before its own schemas are resolved.
Expand(p) ==
  /\ ~Repeated(p) /\ ~TooDeep(p)
  /\ seen' = IF p.byRef THEN seen \cup {p.schema} ELSE seen
  /\ answer' = Append(answer, Node(p, "full"))
  /\ pending' = Children(p) \o Tail(pending)

ResolveSchema ==
  /\ pending # << >>
  /\ NameOnly(Head(pending)) \/ Expand(Head(pending))
  /\ UNCHANGED <<slots, maxDepth>>

Walk == NextSlot \/ ResolveSchema

Walked == slots = << >> /\ pending = << >>

\* extractParameters keeps the later of two parameters with one name; what
\* had been expanded under the other is dropped with it.
Dropped(op, slot) ==
  slot.part = "path" /\ \E p \in Range(op.params) : p.name = slot.key

Kept(op) == {n \in Range(answer) : ~Dropped(op, n.place.slot)}

Full(n) == n.what = "full" /\ n.place.byRef
=============================================================================
