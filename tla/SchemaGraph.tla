---------------------------- MODULE SchemaGraph ----------------------------
(***************************************************************************)
(* A parsed OpenAPI document, as internal/analyzer, internal/extractor and *)
(* internal/generator walk it.  kin-openapi resolves every $ref to a       *)
(* pointer to the one value of the component, so the schemas of a document *)
(* are a graph: its nodes are the components and the schemas written in    *)
(* place, its edges the places where a schema holds another.  The edges to *)
(* components may form cycles; schemas written in place are trees.         *)
(***************************************************************************)
EXTENDS Integers, Sequences, FiniteSets, Functions

CONSTANTS
  Components,   \* names in components.schemas
  Inlines,      \* schemas written in place
  None          \* an absent schema, argument or answer

ASSUME GraphAssumption ==
  /\ Components \subseteq Nat /\ Inlines \subseteq Nat
  /\ Components \cap Inlines = {}
  /\ None \notin Components \cup Inlines

Schemas == Components \cup Inlines

(***************************************************************************)
(* d.schemas[v] = [type, enum, edges]: the type keyword ("" for none), is  *)
(* there an enum, and the schemas it holds: [kind, label, to].  Properties *)
(* come first, in the order of their labels, then items,                   *)
(* additionalProperties, oneOf, anyOf and allOf.                           *)
(*                                                                         *)
(* d.ops: the operations, by <<path, method>>.  An operation has tags,     *)
(* deprecated, text (the words in its path, summary, operation id and      *)
(* description), params and pathParams ([name, schema]), request (its      *)
(* content: one schema per media type) and responses by ascending code     *)
(* ([headers, content]).  Sequences stand for the lists the code sorts.    *)
(***************************************************************************)

\* SchemaRef.Ref # "": a place that holds a component holds a $ref to it.
Named(v) == v \in Components

Edges(d, v) == d.schemas[v].edges
EdgeSet(d, v) == {Edges(d, v)[i] : i \in DOMAIN Edges(d, v)}
Held(d, v, kind) == {e.to : e \in {x \in EdgeSet(d, v) : x.kind = kind}}
Targets(d, v) == {e.to : e \in EdgeSet(d, v)}
Labels(d, v) == {e.label : e \in {x \in EdgeSet(d, v) : x.kind = "properties"}}

\* What a document holds are schemas of its own, or nothing, in finite lists.
HoldsSchemas(content) ==
  DOMAIN content \subseteq Nat /\ \A m \in DOMAIN content : content[m] \in Schemas \cup {None}
WellFormed(d) ==
  /\ \A v \in Schemas : Edges(d, v) \in Seq([kind : STRING, label : Nat, to : Schemas])
  /\ DOMAIN d.ops \subseteq Nat \X Nat /\ IsFiniteSet(DOMAIN d.ops)
  /\ \A k \in DOMAIN d.ops : LET op == d.ops[k] IN
       /\ op.tags \in Seq(Nat \X Nat) /\ op.text \in Seq(SUBSET Nat)
       /\ op.params \in Seq([name : Nat, schema : Schemas \cup {None}])
       /\ op.pathParams \in Seq([name : Nat, schema : Schemas \cup {None}])
       /\ op.responses \in Seq(Range(op.responses))
       /\ HoldsSchemas(op.request)
       /\ \A r \in Range(op.responses) : /\ r.headers \in Seq(Schemas \cup {None})
                                        /\ HoldsSchemas(r.content)

\* What roots lead to when each schema leads on to the set next[v]: the
\* least set that holds them and what it leads to.
Closure(roots, next) ==
  LET holding == {roots \cup U : U \in SUBSET (Schemas \ roots)}
      closed == {T \in holding : \A u \in T : next[u] \subseteq T} IN
  {v \in Schemas : \A T \in closed : v \in T}

Reachable(d, roots) == Closure(roots, [v \in Schemas |-> Targets(d, v)])

Media(content) == {content[m] : m \in DOMAIN content} \ {None}

\* The schemas an operation's own parameters, request body and response
\* bodies hold: where the analyzer and the generator start.
BodySchemas(op) ==
  Media(op.request) \cup UNION {Media(op.responses[i].content) : i \in DOMAIN op.responses}
OperationSchemas(op) ==
  BodySchemas(op) \cup ({p.schema : p \in Range(op.params)} \ {None})

\* Mutant: the values of additionalProperties are not followed.
CollectOperationRefs_NoMaps(d, op) ==
  Closure(OperationSchemas(op),
    [v \in Schemas |-> {e.to : e \in {x \in EdgeSet(d, v) : x.kind # "additionalProperties"}}])
  \cap Components

\* The names of every component an operation reaches.
CollectOperationRefs(d, op) == Reachable(d, OperationSchemas(op)) \cap Components

\* A tag is a word in one of its spellings; strings.ToLower tells words apart.
Fold(tag) == tag[1]

\* Mutant: a tag is looked for in one spelling.
HasTag_Exact(op, word) == <<word, 1>> \in Range(op.tags)

HasTag(op, word) == \E t \in Range(op.tags) : Fold(t) = word

\* What the operations with a tag refer to.
CollectTagRefs(d, word) ==
  UNION {CollectOperationRefs(d, d.ops[k]) : k \in {x \in DOMAIN d.ops : HasTag(d.ops[x], word)}}
=============================================================================
