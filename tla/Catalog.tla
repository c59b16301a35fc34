------------------------------ MODULE Catalog ------------------------------
(***************************************************************************)
(* The discovery answers of one document, derived twice: by                *)
(* internal/analyzer from the document, and by internal/store from the     *)
(* rows that record.go derives, writeCatalog stores and query.go selects.  *)
(* Paths, methods and names are numbers that stand in their order; a       *)
(* search word is in a name when it is that name.                          *)
(***************************************************************************)
EXTENDS SchemaGraph, SequencesExt

Keys(d) == DOMAIN d.ops
ByPathThenMethod(a, b) == a[1] < b[1] \/ (a[1] = b[1] /\ a[2] < b[2])

\* A finite set in an order: sort.Slice, ORDER BY.
Sorted(S, Before(_, _)) ==
  CHOOSE s \in [1..Cardinality(S) -> S] :
    Range(s) = S /\ \A i, j \in DOMAIN s : i < j => Before(s[i], s[j])

\* A filter: a tag word, a method, the paths that contain the pattern, and a
\* deprecation; None for an argument not given.
Filter(tag, method, paths, deprecated) ==
  [tag |-> tag, method |-> method, paths |-> paths, deprecated |-> deprecated]

(***************************************************************************)
(* The analyzer.                                                           *)
(***************************************************************************)
KeepsEndpoint(d, f, k) ==
  /\ f.paths = None \/ k[1] \in f.paths
  /\ f.method = None \/ k[2] = f.method
  /\ f.tag = None \/ HasTag(d.ops[k], f.tag)
  /\ f.deprecated = None \/ d.ops[k].deprecated = f.deprecated

ListEndpoints(d, f) == Sorted({k \in Keys(d) : KeepsEndpoint(d, f, k)}, ByPathThenMethod)

\* The names of a schema's properties and, one array deep, of its items'.
FieldNames(d, v) == Labels(d, v) \cup UNION {Labels(d, u) : u \in Held(d, v, "items")}
BodyFields(d, content) == UNION {FieldNames(d, v) : v \in Media(content)}
ResponseFields(d, op) ==
  UNION {BodyFields(d, op.responses[i].content) : i \in DOMAIN op.responses}

\* Where a word can be found, the best place first: path, summary, operation
\* id, description, parameters, request fields, response fields.
Places(d, op) ==
  op.text \o <<{p.name : p \in Range(op.params)}, BodyFields(d, op.request), ResponseFields(d, op)>>

\* The best place the word is found in, or -1.
MatchScore(places, word) ==
  LET found == {i \in DOMAIN places : word \in places[i]} IN
  IF found = {} THEN -1 ELSE Min(found)

ByScoreThenKey(a, b) ==
  a.score < b.score \/ (a.score = b.score /\ ByPathThenMethod(a.key, b.key))

\* What was found, the better place first.
Ranked(scored) ==
  LET hits == Sorted({x \in scored : x.score >= 0}, ByScoreThenKey) IN
  [i \in DOMAIN hits |-> hits[i].key]

SearchSpec(d, word) ==
  Ranked({[key |-> k, score |-> MatchScore(Places(d, d.ops[k]), word)] : k \in Keys(d)})

\* An operation without tags is counted under one of its own.
Untagged == <<0, 0>>
TagsOf(op) == IF op.tags = << >> THEN <<Untagged>> ELSE op.tags

\* Every occurrence of a tag counts.
Occurrences(op, tag) == Cardinality({i \in DOMAIN TagsOf(op) : TagsOf(op)[i] = tag})
Counted(d, tag, keys) == MapThenSumSet(LAMBDA k : Occurrences(d.ops[k], tag), keys)

\* A tag's endpoint count and its breakdown by method.
TagSummary(d, tag) ==
  LET tagged == {k \in Keys(d) : Occurrences(d.ops[k], tag) > 0} IN
  [count |-> Counted(d, tag, tagged),
   methods |-> [m \in {k[2] : k \in tagged} |-> Counted(d, tag, {k \in tagged : k[2] = m})]]

AnalyzeTags(d) ==
  [t \in UNION {Range(TagsOf(d.ops[k])) : k \in Keys(d)} |-> TagSummary(d, t)]

\* Which operation refers to which component.
Usage(d) == UNION {{k} \X CollectOperationRefs(d, d.ops[k]) : k \in Keys(d)}

\* A component's listing: the number of operations that refer to it, and of
\* its fields.
SchemaInfo(d, v, usage) ==
  [name |-> v,
   usedBy |-> Cardinality({u \in usage : u[2] = v}),
   fieldCount |-> Cardinality(Labels(d, v))]

ByUseThenName(a, b) == a.usedBy > b.usedBy \/ (a.usedBy = b.usedBy /\ a.name < b.name)

ListSchemas(d, filter) ==
  LET usage == Usage(d)
      kept == {v \in Components : filter = None \/ v \in filter} IN
  Sorted({SchemaInfo(d, v, usage) : v \in kept}, ByUseThenName)

\* detectChanges: parameter count, request body, response codes, description.
Changes(a, b) ==
  {c \in {"parameters", "request", "codes", "description"} :
     \/ c = "parameters" /\ Len(a.params) # Len(b.params)
     \/ c = "request" /\ (DOMAIN a.request = {}) # (DOMAIN b.request = {})
     \/ c = "codes" /\ {r.code : r \in Range(a.responses)} # {r.code : r \in Range(b.responses)}
     \/ c = "description" /\ a.text[4] # b.text[4]}

\* Mutant: what was removed is not filtered.
DiffSpecs_AllRemoved(old, new, f) ==
  [added |-> {k \in Keys(new) \ Keys(old) : KeepsEndpoint(new, f, k)},
   removed |-> Keys(old) \ Keys(new),
   changed |-> {k \in Keys(old) \cap Keys(new) :
                  KeepsEndpoint(old, f, k) /\ Changes(old.ops[k], new.ops[k]) # {}}]

\* The filter of a diff has a path pattern and a method.
DiffSpecs(old, new, f) ==
  [added |-> {k \in Keys(new) \ Keys(old) : KeepsEndpoint(new, f, k)},
   removed |-> {k \in Keys(old) \ Keys(new) : KeepsEndpoint(old, f, k)},
   changed |-> {k \in Keys(old) \cap Keys(new) :
                  KeepsEndpoint(old, f, k) /\ Changes(old.ops[k], new.ops[k]) # {}}]

(***************************************************************************)
(* The store: the rows of a document and what the queries select of them.  *)
(***************************************************************************)
\* INSERT OR IGNORE under the key (spec, method, path, tag): the first
\* position of a tag stays.
TagRows(op) == {<<i, op.tags[i]>> : i \in {j \in DOMAIN op.tags :
                                            \A h \in 1..j-1 : op.tags[h] # op.tags[j]}}

\* Mutant: the fields of an array's items are not recorded.
FieldRows_NoItems(d, op) ==
  <<{p.name : p \in Range(op.params)},
    UNION {Labels(d, v) : v \in Media(op.request)},
    UNION {UNION {Labels(d, v) : v \in Media(r.content)} : r \in Range(op.responses)}>>

\* parameterNames, requestBodyFields, responseBodyFields.
FieldRows(d, op) ==
  LET fields(v) == Labels(d, v) \cup UNION {Labels(d, u) : u \in Held(d, v, "items")} IN
  <<{p.name : p \in Range(op.params)},
    UNION {fields(v) : v \in Media(op.request)},
    UNION {UNION {fields(v) : v \in Media(r.content)} : r \in Range(op.responses)}>>

\* NewRecord and writeCatalog: an endpoint's row, its tags and its fields.
EndpointRow(d, k) ==
  LET op == d.ops[k] IN
  [key |-> k, text |-> op.text, deprecated |-> op.deprecated,
   tags |-> TagRows(op), fields |-> FieldRows(d, op)]

EndpointRows(d) == {EndpointRow(d, k) : k \in Range(ListEndpoints(d, Filter(None, None, None, None)))}

\* Mutant: tags are compared letter by letter.
SelectEndpoints_ExactTag(rows, f) ==
  Sorted({r.key : r \in {x \in rows :
    /\ f.method = None \/ x.key[2] = f.method
    /\ f.paths = None \/ x.key[1] \in f.paths
    /\ f.deprecated = None \/ x.deprecated = f.deprecated
    /\ f.tag = None \/ \E t \in x.tags : t[2] = <<f.tag, 1>>}}, ByPathThenMethod)

SelectEndpoints(rows, f) ==
  Sorted({r.key : r \in {x \in rows :
    /\ f.method = None \/ x.key[2] = f.method
    /\ f.paths = None \/ x.key[1] \in f.paths
    /\ f.deprecated = None \/ x.deprecated = f.deprecated
    /\ f.tag = None \/ \E t \in x.tags : Fold(t[2]) = f.tag}}, ByPathThenMethod)

SearchEndpoints(rows, word) ==
  Ranked({[key |-> r.key, score |-> MatchScore(r.text \o r.fields, word)] : r \in rows})

\* The components' rows, derived from the analyzer's listing.
SchemaRows(d) == Range(ListSchemas(d, None))

SelectSchemas(rows, filter) ==
  Sorted({r \in rows : filter = None \/ r.name \in filter}, ByUseThenName)

\* endpointTags: an endpoint's tags by position.
ByPosition(a, b) == a[1] < b[1]
EndpointTags(row) ==
  LET rows == Sorted(row.tags, ByPosition) IN [i \in DOMAIN rows |-> rows[i][2]]
=============================================================================
