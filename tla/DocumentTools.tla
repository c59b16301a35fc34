--------------------------- MODULE DocumentTools ---------------------------
(***************************************************************************)
(* The tools that answer from one parsed document or its catalog, one call *)
(* at a time: get_endpoint and get_schema (Extractor, printed by Toon),    *)
(* generate_types (Generator), and list_endpoints, search_spec and         *)
(* list_schemas, of one spec or swept over every spec, which a client      *)
(* pages through call by call (Catalog, Paging).  A call that walks a      *)
(* document keeps the one it began with; between two pages the spec may be *)
(* indexed again.                                                          *)
(***************************************************************************)
EXTENDS Toon, Catalog, Paging

CONSTANTS
  Documents,    \* the documents a spec may have
  Revisions,    \* those an indexing may bring while a listing is paged
  Others,       \* the documents of the specs listed after this one
  Depths,       \* resolve_depth arguments
  Filters,      \* the filters of list_endpoints
  Words,        \* search words
  Tags,         \* tag words
  Limits,       \* limit arguments
  Offsets       \* offset arguments

ASSUME NoneAssumption == None \notin {"tag", "schema", "endpoint"} /\ None \notin Tags
ASSUME DocumentsAssumption ==
  /\ IsFiniteSet(Components)
  /\ Revisions \subseteq Documents
  /\ Others \in Seq(Range(Others))
  /\ \A d \in Documents \cup Range(Others) : WellFormed(d)
ASSUME PageArguments == Limits \subseteq Int /\ Offsets \subseteq Int

VARIABLES
  call,         \* the tool call under way
  wanted, visited, collected   \* Generator's

Generating == INSTANCE Generator

toolVars == <<doc, call, walkVars, pageVars, wanted, visited, collected>>
genVars == <<wanted, visited, collected>>

\* mode: what types are generated for, or whether a listing is a "sweep";
\* filter: the filter or word of a listing.
CallOf(tool, mode, key, schema, filter) ==
  [tool |-> tool, mode |-> mode, key |-> key, schema |-> schema, filter |-> filter]
Idle == CallOf("none", None, None, None, None)
Refused == CallOf("refused", None, None, None, None)

NoWalk == slots' = << >> /\ maxDepth' = 0 /\ pending' = << >> /\ seen' = {} /\ answer' = << >>
NoTypes == wanted' = {} /\ visited' = {} /\ collected' = {}
NoPages ==
  /\ listing' = << >> /\ got' = << >> /\ limit' = 0 /\ offset' = 0 /\ first' = 0
  /\ more' = FALSE /\ changed' = FALSE

\* A call that is refused answers at once and leaves nothing.
Refuse == call' = Refused /\ UNCHANGED <<doc, walkVars, pageVars, genVars>>

\* handleGetEndpoint.
GetEndpoint(key, depth) ==
  /\ call = Idle
  /\ IF key \notin Keys(doc) THEN Refuse
     ELSE /\ call' = CallOf("get_endpoint", None, key, None, None)
          /\ StartWalk(EndpointSlots(doc.ops[key]), depth)
          /\ UNCHANGED <<doc, pageVars, genVars>>

\* handleGetSchema.
GetSchema(name, depth) ==
  /\ call = Idle
  /\ IF name \notin Components THEN Refuse
     ELSE /\ call' = CallOf("get_schema", None, None, name, None)
          /\ StartWalk(SchemaSlots(name), depth)
          /\ UNCHANGED <<doc, pageVars, genVars>>

\* handleGenerateTypes: a tag wins over a schema, which may not come with an
\* endpoint.
TypesMode(word, name, key) ==
  CASE word # None -> "tag"
    [] word = None /\ name # None /\ key = None -> "schema"
    [] word = None /\ name = None /\ key # None -> "endpoint"
    [] OTHER -> None

\* What the mode collects from; nothing is an error in every mode.
TypesItems(mode, word, name, key) ==
  CASE mode = "tag" -> Generating!TagItems(doc, word)
    [] mode = "schema" -> IF name \in Components THEN Generating!SchemaItems(name) ELSE {}
    [] mode = "endpoint" -> IF key \in Keys(doc) THEN Generating!EndpointItems(doc.ops[key]) ELSE {}
    [] mode = None -> {}

GenerateTypes(word, name, key) ==
  LET mode == TypesMode(word, name, key)
      items == TypesItems(mode, word, name, key) IN
  /\ call = Idle
  /\ IF items = {} THEN Refuse
     ELSE /\ call' = CallOf("generate_types", mode, key, name, None)
          /\ Generating!StartCollect(items)
          /\ UNCHANGED <<doc, walkVars, pageVars>>

\* The catalog's rows of a listing.
ListingOf(d, tool, filter) ==
  CASE tool = "list_endpoints" -> SelectEndpoints(EndpointRows(d), filter)
    [] tool = "search_spec" -> SearchEndpoints(EndpointRows(d), filter)
    [] tool = "list_schemas" -> SelectSchemas(SchemaRows(d), filter)

\* The sweep: the listings of all specs one after the other, each row with
\* the spec it came from.
Sweep(d, tool, filter) ==
  LET specs == <<d>> \o Others
      listings == [i \in DOMAIN specs |-> ListingOf(specs[i], tool, filter)] IN
  FlattenSeq([i \in DOMAIN specs |-> [j \in DOMAIN listings[i] |-> <<i, listings[i][j]>>]])

Listing(d, tool, mode, filter) ==
  IF mode = "sweep" THEN Sweep(d, tool, filter) ELSE ListingOf(d, tool, filter)

\* handleListEndpoints, handleSearchSpec, handleListSchemas and their sweeps,
\* again and again.
StartListing(tool, mode, filter, lim, off) ==
  /\ call = Idle
  /\ call' = CallOf(tool, mode, None, None, filter)
  /\ StartPaging(Listing(doc, tool, mode, filter), lim, off)
  /\ UNCHANGED <<doc, walkVars, genVars>>

WalkStep == Walk /\ UNCHANGED <<doc, call, pageVars, genVars>>

CollectStep == Generating!Collect /\ UNCHANGED <<doc, call, walkVars, pageVars>>

NextPage == FetchPage(call.mode = "sweep") /\ UNCHANGED <<doc, call, walkVars, genVars>>

Reindex ==
  /\ \E d \in Revisions \ {doc} :
       doc' = d /\ Reindexed(Listing(d, call.tool, call.mode, call.filter))
  /\ UNCHANGED <<call, walkVars, genVars>>

Done == Walked /\ wanted = {} /\ ~more

\* The answer is sent, or the client stops asking.
Reply ==
  /\ call # Idle /\ Done
  /\ call' = Idle
  /\ NoWalk /\ NoTypes /\ NoPages
  /\ UNCHANGED doc

ToolsInit ==
  /\ doc \in Documents
  /\ call = Idle
  /\ slots = << >> /\ maxDepth = 0 /\ pending = << >> /\ seen = {} /\ answer = << >>
  /\ wanted = {} /\ visited = {} /\ collected = {}
  /\ listing = << >> /\ got = << >> /\ limit = 0 /\ offset = 0 /\ first = 0
  /\ more = FALSE /\ changed = FALSE

AllKeys == UNION {Keys(d) : d \in Documents}

StartCall ==
  \/ \E k \in AllKeys, n \in Depths : GetEndpoint(k, n)
  \/ \E v \in Components \cup {None}, n \in Depths : GetSchema(v, n)
  \/ \E w \in Tags \cup {None}, v \in Components \cup {None}, k \in AllKeys \cup {None} :
       GenerateTypes(w, v, k)
  \/ \E mode \in {"spec", "sweep"}, l \in Limits, o \in Offsets :
       \/ \E f \in Filters : StartListing("list_endpoints", mode, f, l, o)
       \/ \E w \in Words : StartListing("search_spec", mode, w, l, o)
       \/ StartListing("list_schemas", mode, None, l, o)

\* What a call does once it has begun.
Continue == WalkStep \/ CollectStep \/ NextPage \/ Reply

ToolsNext == StartCall \/ Continue \/ Reindex

ToolsSpec == ToolsInit /\ [][ToolsNext]_toolVars

\* A handler runs to its end, and the client asks for the pages there are.
LiveToolsSpec == ToolsSpec /\ WF_toolVars(Continue)

-----------------------------------------------------------------------------
(* Properties of resolved schemas *)

Resolving == call.tool \in {"get_endpoint", "get_schema"}
Operation == doc.ops[call.key]
Shown == IF call.tool = "get_endpoint" THEN Kept(Operation) ELSE Range(answer)

\* A shared schema is expanded at one place of an answer only, however many
\* parameters, headers and bodies hold it (extractor.go:60-64).
NamedOnce ==
  \A i, j \in DOMAIN answer :
    (Full(answer[i]) /\ Full(answer[j]) /\ answer[i].place.schema = answer[j].place.schema) => i = j

\* A $ref above the depth limit stands for an expansion elsewhere in the
\* answer: one that a parameter of the operation overrode may take it along,
\* nothing else may (extractor.go:322-350).
NamesAreExpanded ==
  (Resolving /\ Walked) =>
    \A n \in Shown : (n.what = "ref" /\ Len(n.place.path) < maxDepth) =>
      \E m \in Range(answer) : /\ Full(m) /\ m.place.schema = n.place.schema
                              /\ (m \in Shown \/ m.place.slot.part = "path")

\* The names an answer leaves to be asked for, and what it cut.
Frontier ==
  {n.place.schema : n \in {x \in Range(answer) :
     \/ x.what = "cut"
     \/ x.what = "ref" /\ ~(\E m \in Range(answer) : Full(m) /\ m.place.schema = x.place.schema)}}

\* get_endpoint and list_schemas agree on what an operation uses: its
\* parameters and bodies name no component the analyzer does not count as
\* used by it, and every one it counts is in the answer or behind a name the
\* answer leaves to be asked for (extractor.go:322-420, analyzer.go:529-590).
AnswerCoversReferences ==
  (call.tool = "get_endpoint" /\ Walked) =>
    LET named == {n.place.schema : n \in Range(answer)}
        own == {n.place.schema : n \in {x \in Range(answer) :
                  x.place.slot.part \in {"operation", "content"}}}
        counted == CollectOperationRefs(doc, Operation) IN
    /\ own \cap Components \subseteq counted
    /\ counted \subseteq named \cup Reachable(doc, Frontier)

\* "Shared schemas are shown once then referenced as $ref(Name)"
\* (README.md:269): where TOON prints a $ref above the depth limit it prints
\* that schema somewhere.
ShownOnce ==
  (Resolving /\ Walked) =>
    LET printed == Printed(doc, answer) IN
    \A n \in printed \cap Shown : (n.what = "ref" /\ Len(n.place.path) < maxDepth) =>
      \E m \in printed \cap Shown : Full(m) /\ m.place.schema = n.place.schema

-----------------------------------------------------------------------------
(* Properties of generated types *)

Generated(modes) == call.tool = "generate_types" /\ call.mode \in modes /\ Generating!Collected
Closed ==
  \A it \in collected, lang \in {"typescript", "go"} :
    Generating!Mentions(doc, lang, it.schema) \subseteq Generating!DeclaredNames(collected)

\* The types of a tag mention no type that is not declared with them: the
\* roots are all the tag's operations reach, so what collectRefs does not
\* follow is there already (tools.go:829, generator.go:222).
TagTypesAreClosed == Generated({"tag"}) => Closed

\* Schemas written in place hold no others, but for the items of an array
\* that is a property.
Flat ==
  \A v \in Schemas : \A e \in EdgeSet(doc, v) :
    \/ Named(e.to)
    \/ EdgeSet(doc, e.to) = {}
    \/ e.kind = "properties" /\ \A x \in EdgeSet(doc, e.to) : x.kind = "items"

\* In a document that writes no deeper schema in place, the types of a schema
\* or an endpoint are complete too (generator.go:119-156).
FlatTypesAreClosed == (Generated({"schema", "endpoint"}) /\ Flat) => Closed

\* "along with all transitively referenced schemas" (generator.go:17-18), in
\* any document.
MentionedIsDeclared == Generated({"schema", "endpoint"}) => Closed

\* A name is declared twice exactly when it is the schema asked for and the
\* schemas it collects lead back to it, for it is collected once as itself and
\* once by its $ref (generator.go:101-113).
TwiceIsRecursive ==
  Generated({"schema", "endpoint"}) =>
    LET leads == [v \in Schemas |-> Generating!WalkedTargets(doc, v)] IN
    (\E a, b \in collected : a # b /\ a.name = b.name)
      <=> (call.mode = "schema" /\ call.schema \in Closure(leads[call.schema], leads))

-----------------------------------------------------------------------------
(* Properties of the listings *)

NoFilter == Filter(None, None, None, None)
Rows == EndpointRows(doc)

\* A listing selected from the catalog is the one the analyzer makes of the
\* document, under every filter, and shows an operation's tags in their order,
\* each one once (record.go:105-106, store.go:455).
ListingParity ==
  call = Idle =>
    /\ \A f \in Filters : SelectEndpoints(Rows, f) = ListEndpoints(doc, f)
    /\ \A f \in SUBSET Components \cup {None} :
         SelectSchemas(SchemaRows(doc), f) = ListSchemas(doc, f)
    /\ {r.key : r \in Rows} = Keys(doc)
    /\ \A r \in Rows :
         LET tags == doc.ops[r.key].tags
             shown == EndpointTags(r)
             at(t) == Min({i \in DOMAIN tags : tags[i] = t}) IN
         /\ Range(shown) = Range(tags)
         /\ \A i, j \in DOMAIN shown : i < j => at(shown[i]) < at(shown[j])

\* A search finds the same operations in the same order in the catalog as in
\* the document, although one looks at names recorded long before
\* (query.go:158-181, analyzer.go:207-270).
SearchParity ==
  call = Idle => \A w \in Words : SearchEndpoints(Rows, w) = SearchSpec(doc, w)

\* analyze_tags and list_endpoints count alike: an operation that carries no
\* tag twice, in any spelling, is counted once by each of its tags and listed
\* once under it.  The bucket of operations without tags is not a tag
\* (analyzer.go:112-126, query.go:107-113).
TagCountsMatchListing ==
  (call = Idle /\ \A k \in Keys(doc) : LET tags == doc.ops[k].tags IN
     \A i, j \in DOMAIN tags : Fold(tags[i]) = Fold(tags[j]) => i = j) =>
    \A w \in Tags \ {Fold(Untagged)} :
      LET summary == AnalyzeTags(doc) IN
      MapThenSumSet(LAMBDA t : summary[t].count, {t \in DOMAIN summary : Fold(t) = w})
        = Len(ListEndpoints(doc, [NoFilter EXCEPT !.tag = w]))

\* What diff_endpoints reports accounts for the two listings under its filter:
\* what was added and removed is their difference, and what has changed is in
\* both (analyzer.go:277-339).
DiffAccountsForListings ==
  call = Idle => \A d \in Documents, f \in {x \in Filters : x.tag = None /\ x.deprecated = None} :
    LET old == Range(ListEndpoints(doc, f))
        new == Range(ListEndpoints(d, f))
        diff == DiffSpecs(doc, d, f) IN
    /\ diff.added = new \ old /\ diff.removed = old \ new
    /\ diff.changed \subseteq old \cap new
    /\ d = doc => diff.changed = {}

\* Every call ends, whatever the document holds, and a client that follows
\* the pages comes to the last one although the listing may change under it.
EveryCallEnds == call # Idle ~> call = Idle
=============================================================================
