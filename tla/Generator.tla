----------------------------- MODULE Generator -----------------------------
(***************************************************************************)
(* internal/generator: generate_types.  collectRefs gathers the schemas to *)
(* declare, each under a name; typescript.go and golang.go then write one  *)
(* declaration for each, which mentions other names.  The recursion of     *)
(* collectRefs is a set of schemas still to be collected, for it ranges    *)
(* over Go maps and so meets them in any order.                            *)
(***************************************************************************)
EXTENDS SchemaGraph

VARIABLES
  doc,      \* the document
  wanted,    \* schemas to collect: items
  visited,   \* keys of the schemas collected
  collected  \* the items collected

genVars == <<wanted, visited, collected>>

\* A schema to collect, the name to declare it under, and is it a $ref.
Item(name, v, byRef) == [name |-> name, schema |-> v, byRef |-> byRef]

\* Mutant: a schema without a $ref has the key of one with it.
Key_NameOnly(it) == <<TRUE, it.name>>

\* key: the $ref, or "anon:" and the name.
Key(it) == <<it.byRef, it.name>>

\* An in-place property's items are looked at, nothing else of it is.
ItemsOfProperties(d, v) ==
  UNION {Held(d, u, "items") : u \in Held(d, v, "properties") \ Components}

\* Mutant: the values of additionalProperties are not walked.
WalkedTargets_NoMaps(d, v) ==
  ({e.to : e \in {x \in EdgeSet(d, v) : x.kind # "additionalProperties"}}
     \cup ItemsOfProperties(d, v)) \cap Components

\* The $refs collectRefs follows from v.
WalkedTargets(d, v) == (Targets(d, v) \cup ItemsOfProperties(d, v)) \cap Components

StartCollect(items) ==
  /\ wanted' = items /\ visited' = {} /\ collected' = {}

\* Mutant: the key is looked up but never kept.
CollectRefs_Forgetful(it) ==
  /\ it \in wanted
  /\ IF Key(it) \in visited
     THEN wanted' = wanted \ {it} /\ UNCHANGED <<visited, collected>>
     ELSE /\ collected' = collected \cup {it}
          /\ wanted' = (wanted \ {it})
               \cup {Item(u, u, TRUE) : u \in WalkedTargets(doc, it.schema)}
          /\ UNCHANGED visited

\* collectRefs: a key is collected once, and what its schema refers to after
\* it.
CollectRefs(it) ==
  /\ it \in wanted
  /\ IF Key(it) \in visited
     THEN wanted' = wanted \ {it} /\ UNCHANGED <<visited, collected>>
     ELSE /\ visited' = visited \cup {Key(it)}
          /\ collected' = collected \cup {it}
          /\ wanted' = (wanted \ {it})
               \cup {Item(u, u, TRUE) : u \in WalkedTargets(doc, it.schema)}

Collect == \E it \in wanted : CollectRefs(it)
Collected == wanted = {}

(***************************************************************************)
(* What the declarations mention.                                          *)
(***************************************************************************)
Union(d, v) == Held(d, v, "oneOf") # {} \/ Held(d, v, "anyOf") # {}

\* The members of a union: those of oneOf, or else of anyOf.
UnionMembers(d, v) ==
  IF Held(d, v, "oneOf") # {} THEN Held(d, v, "oneOf") ELSE Held(d, v, "anyOf")

\* The items of an array, the values of a map.
Elements(d, v) ==
  Held(d, v, IF d.schemas[v].type = "array" THEN "items" ELSE "additionalProperties")

\* tsTypeRef, goTypeRef: what the type of a schema written in place is made
\* of.  A $ref is written as its name.
TsParts(d, v) ==
  IF Named(v) \/ d.schemas[v].enum THEN {}
  ELSE IF Union(d, v) THEN UnionMembers(d, v)
  ELSE IF Held(d, v, "allOf") # {} THEN Held(d, v, "allOf")
  ELSE Elements(d, v)

GoParts(d, v) == IF Named(v) \/ Union(d, v) THEN {} ELSE Elements(d, v)

\* The names in the types of these schemas.
TypeRefs(d, lang, roots) ==
  Closure(roots, [v \in Schemas |-> IF lang = "go" THEN GoParts(d, v) ELSE TsParts(d, v)])
    \cap Components

\* mergeAllOfProperties: the properties of the members, a later member's
\* before an earlier one's; none when a member is a $ref.
Merged(d, v) ==
  LET es == Edges(d, v)
      all == {i \in DOMAIN es : es[i].kind = "allOf"} IN
  IF Held(d, v, "allOf") \cap Components # {} THEN {}
  ELSE UNION {{e.to : e \in {x \in EdgeSet(d, es[i].to) :
                  /\ x.kind = "properties"
                  /\ \A j \in all : j > i => x.label \notin Labels(d, es[j].to)}}
               : i \in all}

\* tsSchema, goSchema: the schemas a declaration of v is written from.
DeclaredFrom(d, lang, v) ==
  LET s == d.schemas[v]
      object == Held(d, v, "properties") # {} \/ s.type = "object" IN
  IF s.enum THEN {}
  ELSE IF Union(d, v) THEN (IF lang = "go" THEN {} ELSE UnionMembers(d, v))
  ELSE IF Held(d, v, "allOf") # {} THEN
    (IF Merged(d, v) # {} THEN Merged(d, v)
     ELSE IF lang = "go" THEN Held(d, v, "allOf") \cap Components
     ELSE Held(d, v, "allOf"))
  ELSE IF object THEN
    Held(d, v, "properties")
      \cup (IF lang = "go" THEN {} ELSE Held(d, v, "additionalProperties"))
  ELSE Elements(d, v)

Mentions(d, lang, v) == TypeRefs(d, lang, DeclaredFrom(d, lang, v))

(***************************************************************************)
(* The three ways to ask for types.                                        *)
(***************************************************************************)
\* CollectSchemaByName: the root is the component itself, not a $ref to it.
SchemaItems(v) == {Item(v, v, FALSE)}

\* CollectEndpointSchemas: a body without a $ref is named after the operation
\* and its place, the request -1, response i -(i+1).  The media types of a
\* body share that name.
BodyItem(v, place) == IF Named(v) THEN Item(v, v, TRUE) ELSE Item(-place, v, FALSE)

EndpointItems(op) ==
  {BodyItem(v, 1) : v \in Media(op.request)}
    \cup UNION {{BodyItem(v, i + 1) : v \in Media(op.responses[i].content)}
                  : i \in DOMAIN op.responses}

\* GenerateForSchemas: every root as a component itself.
TagItems(d, word) == {Item(v, v, FALSE) : v \in CollectTagRefs(d, word)}

DeclaredNames(items) == {it.name : it \in items}
=============================================================================
