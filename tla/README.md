# Verification of the swagger-mcp spec index

`swagger-mcp` keeps OpenAPI documents in a local index (one SQLite file per
project) and answers questions about them, over the Model Context Protocol,
from that index alone. This directory holds TLA+ models of the program, the TLC
runs that check them, and TLAPS proofs about them.

## The system

| Part | State | Operations |
| --- | --- | --- |
| Store (`internal/store/store.go`, `codec.go`) | one SQLite file: `user_version`, the `specs` rows, six catalog tables addressed by a spec's id | `Open` (create or migrate), `Put`, `Delete`, `List`, `Meta`, `Get`, `OpenReadOnly` |
| Discovery queries (`internal/store/query.go`) | none of their own; a shared connection | `Endpoints`, `SearchEndpoints`, `Schemas`, `Tags` |
| Record derivation (`internal/store/record.go`, `naming.go`) | none | `NewRecord`, `reparse`, `DeriveName` |
| Store location (`internal/store/layout.go`) | the directory tree | `FindRoot`, `DirFor` |
| Session (`internal/tools/specs.go`) | the path resolved at start-up, a read-only handle opened on first use, a FIFO cache of four parsed documents | `open`, `resolve`, `entry`, the catalog queries |
| Tools (`internal/tools/tools.go`, `discovery.go`) | none | one handler per MCP tool, run concurrently; sweeps over every spec; pages of a listing |
| Indexer (`cmd/swagger-mcp/index.go`, `unindex.go`, `internal/tools/indexspec.go`) | none between runs | read the sources, skip unchanged content, `Put`; `Delete` |
| Analyzer (`internal/analyzer`) | none | listing, search, tags, component usage, diff of parsed documents |
| Extractor (`internal/extractor`) | none between calls; the set of expanded names within one | `GetEndpoint`, `GetSchema`: schemas resolved into trees |
| Generator (`internal/generator`) | none between calls; the schemas visited within one | `generate_types`: TypeScript or Go declarations |
| Source reading (`internal/specsource`, `internal/loader`) | none | fetch with a size cap, parse, normalise |
| Formatters (`internal/formatter`) | none | TOON and JSON; TOON chooses what of a schema it prints |
| Configuration, types, process entry | none | wiring |

The command line and the server's `index_spec` tool write the file, each through
a connection of its own and possibly at the same time; the server's handlers
read it through one read-only connection they share. SQLite's write lock and
snapshots are all that orders the processes.

What is hard here:

* **Interleaved writers.** `Put` and `Delete` read before they write inside a
  deferred transaction, so they conflict rather than wait; `Open` may create or
  migrate the file while others do the same, or while a build of the older
  layout still writes.
* **State read outside the transaction that uses it.** `upgradeV1` reads the
  documents before it begins; `Delete` reads what it will report before it
  begins; a query's row, count, page and tags are separate statements.
* **Crashes and failing statements** between any two statements.
* **One connection for many handlers**, kept by whoever is reading rows.
* **Caches and handles** of a session that outlive what they were read from.
* **Schemas that form cycles**, walked with a shared set of names that were seen,
  partly in the order of a Go map, and below a depth limit.
* **One answer computed twice**: the catalog was derived when the spec was
  indexed and must answer what the document would; the generator collects with
  one walk and prints with two others.
* **Pages of a listing that changes** between two calls.

What makes each part correct:

* Store: a document is stored whole with its catalog or not at all; names and
  sources are owned; ids are never reused; a migration loses nothing and never
  passes off a catalog as current; every operation ends.
* Queries: an answer comes from the complete catalog of the spec that was asked
  for; the connection always comes back.
* Session: an answer is never older than the row it was checked against; the
  cache and its order stay in step.
* Indexer: content that is reported as unchanged is answerable; the command and
  the tool treat a record alike; refreshing a spec never renames it.
* Derivation: the catalog answers what the analyzer answers from the document.
* Analyzer: a diff accounts for the two listings it compares; tags count what
  they list.
* Extractor, formatter: a shared schema is expanded once, a name stands for an
  expansion elsewhere, and nothing an operation uses is lost.
* Generator: every type that is mentioned is declared, and declared once.
* Paging: a client that follows the offsets gets every row once, and comes to
  the end.

## Modules

| Module | Models |
| --- | --- |
| `SpecIndex` | what the store promises: a map from names to a source and a document, with `Store` and `Remove` |
| `SpecStore` | `store.go`: `Open`, the schema creation, the migration, `Put` and `Delete`, statement by statement, for several processes |
| `CatalogQuery` | `query.go` and `OpenReadOnly`: the session's discovery queries, statement by statement, beside the writers of `SpecStore` |
| `Indexer` | `index.go`, `unindex.go`, `indexspec.go` and the printed refresh command, over `SpecStore` and sources that change |
| `QuerySession` | `specs.go`: the handle, `resolve` and the document cache of a session, beside stores that `SpecIndex` describes |
| `SchemaGraph` | a parsed document: schemas as a graph, operations, and what an operation reaches (`collectOperationRefs`, `CollectTagRefs`) |
| `Extractor` | `extractor.go`: a step per call of `resolveSchema` |
| `Toon` | `toon.go`: which of the resolved schemas are printed |
| `Generator` | `generator.go` step by step; `typescript.go` and `golang.go`: which names a declaration mentions |
| `Catalog` | the discovery answers twice: `analyzer.go` from the document, `record.go`, `writeCatalog` and `query.go` from the rows |
| `Paging` | `getLimit`, `getOffset`, `pageWindow`, `limitClause` and the client that pages on |
| `DocumentTools` | the tools that answer from one document or its catalog, composed of the six above |
| `MCSpecStore`, `MCCatalogQuery`, `MCIndexer`, `MCQuerySession`, `MCDocumentTools` | small instances for TLC |
| `SpecStore_proofs`, `CatalogQuery_proofs`, `Indexer_proofs`, `QuerySession_proofs` | the TLAPS proofs about the store and its users |
| `SchemaGraph_proofs`, `DocumentTools_proofs`, `DocumentWalk_proofs`, `DocumentPages_proofs` | those about the document tools: closures in the graph, generated types, resolved schemas, listings; each extends the one before |

`CatalogQuery` and `Indexer` extend `SpecStore`; `SpecStore` implements
`SpecIndex`; `QuerySession` instantiates `SpecIndex` for each store file.
`DocumentTools` extends `Toon` (and with it `Extractor`), `Catalog` and `Paging`,
and instantiates `Generator`; all rest on `SchemaGraph`. It takes the document
that `QuerySession` says a call gets, and the rows that `SpecStore` and
`CatalogQuery` say are complete, and asks what is made of them.

### SpecStore

`db` is the committed file and `wal` the copy the lock holder works on. A
process (`pc`) is between two statements of an operation; the actions are named
for the operation and the statement: `PutSelect`, `PutRow`, `PutCatalog`,
`PutCommit` are `Put`'s `SELECT source`, its `DELETE` and `INSERT`, `SELECT id`
with `writeCatalog`, and `COMMIT`. Statements that follow each other under the
write lock, and that no one else can see apart, are one action.

The transaction rules are SQLite's in WAL mode, with the pragmas `Open` sets. A
deferred transaction takes its snapshot at its first `SELECT` (`snap`) and the
write lock at its first write; if it has already read, that write fails at once
when the lock is held or another commit has made the snapshot stale
(`CanUpgrade`, `WriteConflict`). A transaction that starts with a write waits
for the lock up to `busy_timeout` (`BusyTimeout`). A commit is atomic and
durable: SQLite's own recovery is trusted. `Fail` stands for any statement that
fails, `Exit` for the end of a process at any point, orderly or not; both roll
back.

A document is a value that also stands for its SHA-256. A spec's rows in one
catalog table are known by the document they were derived from, `NoDoc` when
there are none. Stored documents that this build cannot parse (`Unparseable`)
come from an older build, `OldBuildPut`, which runs only while the layout has
version 1 and writes no fingerprint. Row ids come from an AUTOINCREMENT
sequence; that SQLite may skip values is not modelled.

### CatalogQuery

Each handler runs one query at a time: `ReadRow` (`specRow` and `catalogReady`),
then one `RunStatement` per count, page or tags statement, over the tables as
committed at that moment. `conn` is the handler whose open rows keep the one
connection; a single-row `QueryRow` gives it back within its statement.
`parts` holds, per statement, the documents the rows came from, and `during`
which documents the spec had while the query ran. The SQL conditions, scores
and page windows are abstracted to "the page may be empty".

### Indexer

A process that indexes has a task: what it read of its source, the name it is
for, and how far it is. `Read` is `reader.Read` and `Parse` (a source that
cannot be read or parsed begins no task), `Compare` the `Meta` row and the
branches after it, `Put` the store's `PutSelect`; everything else of the store
goes on as `StoreStep`. The command opens the store before it reads, the tool
after, hence the guard on `pc` in `Read`. `Edit` lets a source change, break or
move back at any time. `PrintRefresh` is the `refresh` field of `spec_status`
and `ReadPrinted` the pasted command: `refreshCommand` adds `--name` when
`DeriveName` would choose another name. `Derived` stands for `DeriveName`.

### QuerySession

A handler serves one call at a time: `OpenStore`, `List` (with `resolve`, the
checks of `diff_endpoints`, or `sweepTargets`), and then, for each spec the call
reads, either the row alone (`ReadRow`: `spec_status` and the discovery tools, whose
statements are `CatalogQuery`'s) or `entry`: `EntryMeta`, `EntryCached`, `EntryGet`, `StoreEntry`, one action per
stretch that a mutex or a statement makes atomic. `files` are the store files
there have been at the session's path; `RemoveStore` and `CreateStore` are what
the recovery hint of `store.go:693` tells users to do, and a removed file stays
readable through an open handle. `moments` and `paths` are history: the contents
of the open file, and of the index at the path, that a call has lived through
since `OpenStore`; a path without a file has no specs. The two parsed
forms of a cached document are not told apart. Within one file a document
stands for its hash.

A call that ends in an error (`Refuse`) keeps nothing of what it had found.

### SchemaGraph

kin-openapi resolves every `$ref` to a pointer to the component's one value, so
a document is a graph. `Components` are the named schemas, `Inlines` those
written in place; `d.schemas[v]` has the type keyword, whether there is an enum,
and the edges to the schemas `v` holds. Descriptions, formats, constraints and
examples are left out. `d.ops` are the operations by path and method. `WellFormed`
says what every parsed document is: a finite map of operations whose tags,
parameters, bodies and responses are lists and maps over the document's own
schemas. Names,
paths and words are numbers, which gives them the order the code sorts by; a tag
is a word and a spelling, for tags are compared without case.

### Extractor and Toon

`slots` are the places an answer starts from, in the order `GetEndpoint` takes
them: path parameters, the operation's, the request body, headers and bodies of
the responses. A slot set with several members is a Go map, taken in any order.
`pending` is the recursion of `resolveSchema` as a stack, `seen` its set of
names, `answer` the nodes in the order they are made: `Expand` resolves a
schema's own schemas, `NameOnly` is the repeated name and the depth limit. A
path parameter that the operation overrides is dropped from the answer at the
end, as `extractParameters` does, but its names stay in `seen`.

`Toon` walks that answer: `toonSchema` prints a schema on lines of its own,
`extractSchemaType` a type behind a name, `toonValue` everything, and the rest is
not printed.

### Generator

`wanted` is the recursion of `collectRefs` as a set, since what it ranges over
are Go maps; `visited` its keys, a `$ref` or "anon:" and a name; `collected` the
schemas to declare. `DeclaredFrom`, `TsParts` and `GoParts` say which schemas the
two back ends take a declaration from, and `Mentions` which names come out.
`SchemaItems`, `EndpointItems` and `TagItems` are the roots of the three modes.

### Catalog and Paging

`ListEndpoints`, `SearchSpec`, `AnalyzeTags`, `ListSchemas` and `DiffSpecs` are
the analyzer's; `EndpointRows` and `SchemaRows` what `NewRecord` derives and
`writeCatalog` stores (a repeated tag is ignored); `SelectEndpoints`,
`SearchEndpoints`, `SelectSchemas` and `EndpointTags` what the queries select. A
search word is in a name when it is that name; a method is in upper case.
`Sorted` is `sort.Slice` and `ORDER BY`: the list of a set's members in an order,
chosen by what it is, so that it can be reasoned about.

`Paging` has the listing, the client's arguments and what it was given.
`FetchPage` is one call: `SqlPage` for one spec, `SlicedPage` for a sweep. The
client goes on at offset plus showing while the answer says that more follows.
`Reindexed` replaces the listing between two calls. A call's count and page are
one step here; that they are separate statements is `CatalogQuery`'s.

### DocumentTools

One client, one call at a time: `GetEndpoint`, `GetSchema`, `GenerateTypes`
(with the precedence of its arguments), `StartListing` (`list_endpoints`,
`search_spec`, `list_schemas`, each of one spec or as a sweep, where `Others` are
the specs listed after this one), then `WalkStep`, `CollectStep` or `NextPage`
until `Reply`. `Refuse` is a call that is answered with an error. `Reindex` brings
another document between two pages.

## Runs

| Run | Instance | Shows |
| --- | --- | --- |
| `SpecStore` | 2 processes, 2 names, 2 sources, 2 documents (one unparseable), 2 ids | type correctness, `CatalogIsOfDocument`, `NoOrphanRows`, `OneRowPerSource`, `IdentityStable`, both migration properties, the refinement of `SpecIndex`, and that every operation that has begun ends |
| `SpecStore_delete_report` | 3 documents, 3 ids, symmetric | **violated**: `Delete` can remove a document other than the one it reports |
| `SpecStore_delete_unknown` | as before | **violated**: a lost race to delete reports a bare `sql.ErrNoRows` |
| `CatalogQuery` | 1 writer, 2 handlers, 1 name, 2 documents (one unparseable) | every statement of a query finds one document's complete catalog, of its own spec; every query ends |
| `CatalogQuery_torn` | 1 writer, 1 handler, 3 documents | **violated**: an answer has the count of one document and the page of another |
| `Indexer_safety` | 1 process and the older build, 2 names, 2 sources with one derived name, 2 documents and "unreadable" | only parsed documents are on their way into the store; the command and the tool treat every record alike; a printed refresh command keeps its spec's name |
| `Indexer_unchanged` | 1 process, 1 id, 2 documents | **violated**: a source is "unchanged" and its catalog incomplete |
| `QuerySession` | 2 handlers of every kind of tool, 2 names, 2 documents, a cache of 1, 1 file | the cache's map and order stay in step; every answer was stored during its call; a call without a name never guesses; a sweep answers from the whole index of one moment or fails |
| `QuerySession_replaced` | 1 handler, 1 name, 2 documents, 2 files | **violated**: a spec reindexed in a new file at the path is answered from the removed one |
| `DocumentTools` | 26 documents of 3 components and 5 schemas in place, 3 depths, 4 filters, 3 words, 3 limits, 3 offsets | eleven invariants of the answers, below; every call ends |
| `DocumentTools_shown` | the document `Shop` | **violated**: TOON prints a `$ref` to a schema it prints nowhere |
| `DocumentTools_typegen` | the document `Maps` | **violated**: a generated type mentions one that is not declared |

`DocumentTools` checks, of resolved schemas: `NamedOnce` (a component is expanded
at one place of an answer), `NamesAreExpanded` (a name above the depth limit
stands for an expansion elsewhere) and `AnswerCoversReferences` (the answer and
`list_schemas` agree on what an operation uses); of generated types:
`TagTypesAreClosed`, `FlatTypesAreClosed` (every name mentioned is declared) and
`TwiceIsRecursive` (a name is declared twice exactly when the schema asked for
leads back to itself); of the listings: `ListingParity` and `SearchParity` (the
catalog answers what the document answers), `TagCountsMatchListing`,
`DiffAccountsForListings` and `PagesAreTheListing`.

**Bounds.** Two processes are enough for every pairwise interleaving, and the
lock lets at most one of them write; two names and two sources give the rename
(a source that moves to a new name), the refusal (a name of another source) and
the swap; two documents tell an old catalog from a new one, and the unparseable
one is also the spec a migration cannot rebuild. `MaxId` bounds the ids handed
out, in the guards of `PutSelect` and `OldBuildPut`; two ids suffice for
delete-and-insert or for a rename, three (in the runs that check no liveness)
for both. Every safety property of `SpecStore` and `CatalogQuery` is proved for
any number of each. In `Indexer` the two sources
derive one name, so a spec has to be stored under another; `Served`
says what they serve. One process does everything between the printing of a
refresh command and its run that others could do; that others may also commit
between its reading and its commit is left to the proof. In `QuerySession` a
cache of one entry and two names is the smallest that evicts; `MaxFiles` bounds
the files made at the path (two, the removed one and its successor, where the
path is what the property is about) and `MaxMoments` the different contents, of
the open file or at the path, one call may live through (two: a spec moves or
goes once under a call); the proofs have no need of it. In
`CatalogQuery` two handlers compete for the connection, and what a writer can do
under them is proved for any number of specs, documents and handlers.

The documents of `MCDocumentTools` are three, and each of them with one edge of
one component led to another component. `Shop` has components that refer to each
other, enums, an overridden path parameter, a header, two media types and a
deprecated operation; `Shapes` the combinations, with members in place, in a
cycle, an operation without tags and one with a repeated tag; `Maps` maps of
arrays, an array of an array's component and two schemas in place in one body.
Every kind of edge and both sides of every test on a schema occur. Depths 1 and
2 cut below a root and below its properties, -1 is the default of 3, deeper than
the longest path without a repeated name. The listings have up to three rows, or
six in a sweep; the limits are none, everything and 1, the offsets negative, 1
and past the end. Their invariants are proved for every document.

**Fairness.** `LiveSpec` assumes weak fairness of each process's own next
statement: the Go code runs straight through, and SQLite's busy handler gives
up after five seconds. Nothing is assumed of `Start`, `Fail` or `Exit`.
`LiveQuerySpec` assumes strong fairness of each handler's statements, since a
handler that waits for the connection finds it taken again and again;
`database/sql` hands a returned connection to a waiting request rather than to
a later one. `QueryFails` is not assumed to happen. `LiveToolsSpec` assumes weak fairness of
`Continue`: a handler runs to its end, and the client asks for the pages it was
told of. That the client's walk ends although `Reindex` may happen between any
two pages needs no more: a page that is not the last moves the offset on, past
any listing there is. Nothing is assumed of `Reindex` or of new calls.

**Deadlock** is not checked in the runs over `SpecStore`: a store of a newer layout with every process
closed is a state in which nothing more happens. The runs of `QuerySession`
and `DocumentTools` check it: a session can always be called.

**Mutants.** For every property the module holds a mutated form of a definition,
marked `Mutant:`, named for the definition and the bug, that makes TLC find the
property violated: no cascade, reused ids, a fingerprint taken from the row
instead of from what was read, a stale snapshot ignored, rows not closed, and
so on.

## Where the code and its comments disagree

* `store.go:397-398` says `Delete` "returns the metadata of what it removed".
  The metadata is read before the transaction (line 403): a `Put` of the same
  name between the two is removed and not reported.
* `store.go:398-399` says an unknown name "reports ErrNotFound". When the name
  disappears between line 403 and line 415 the error is `sql.ErrNoRows`.
* `record.go:105-106` says a discovery answer read from the catalog "must equal
  the answer the analyzer produced from the document". The statements of a
  query share no snapshot, so a `Put` between them gives, for instance, the
  count of one document and the page of another. (That a later statement may
find nothing, its spec gone, is no part of this: `AnswerIsOfOneDocument`
compares statements that found rows.)
* `specs.go:237-238` says "a reindex in the same session must be visible to the
  next query". It is while the file stays; the handle opened first is kept
  (`specs.go:94`), so after the directory is removed and reindexed, as
  `store.go:693` tells users to do, the session answers from the removed file,
  even a spec that all through the call had another document at the path.
* `specs.go:419-420` says to "run `swagger-mcp index <url|file>` to rebuild" an
  incomplete catalog. When the source still serves the stored content, that run
  reports "unchanged" (`index.go:123`, `indexspec.go:100`) and rebuilds nothing;
  `--refresh` would.
* `README.md:269` (and 417) says "Shared schemas are shown once then referenced as
  `$ref(Name)`". The extractor expands a schema where it meets it first; when
  that is inside the items of an array that is a property, `extractSchemaType`
  prints the array as `[]` (`toon.go:867`), and what was expanded there is
  printed nowhere, though it is named from then on.
* `generator.go:17-18` says a schema is collected "along with all transitively
  referenced schemas". `collectRefs` follows the `$ref`s a schema holds and the
  items of its properties in place (`generator.go:126`), but not, for instance,
  the values of a map whose values are arrays; the declaration mentions a name
  that is not declared. `TagTypesAreClosed` and `FlatTypesAreClosed` say when it
  cannot happen.

Smaller ones, visible in the code, without a run of their own:

* `tools.go:680` says a diff is "never between a spec and itself"; equal names
  pass its checks.
* A parameter of an operation replaces the path's (`extractor.go:176-199`) after
  the schemas of the path's have been resolved: a name may be expanded only in
  what was replaced. `NamesAreExpanded` allows for exactly that.
* A schema that leads back to itself is declared twice in schema mode, for the
  root is not a `$ref` (`generator.go:101-113`); `TwiceIsRecursive` says when.
* `README.md:418` says truncated lists start with the next offset; the first
  page of `list_endpoints` has none (`toon.go:334-338`).
* The comments of `GetEndpoint` and `GetSchema` say the default depth is 10; it
  is 3 (`extractor.go:12-16`).
* `analyze_tags` counts an operation once for each time a tag is repeated
  (`analyzer.go:117-125`), the endpoint's stored tags drop the repetition
  (`store.go:455`), and the bucket `untagged` lists nothing when it is used as a
  filter.
* Two schemas in place among the media types of one body get one synthetic name
  (`generator.go:57-84`), so one of them is lost, which one being up to the
  order of a Go map.
* A sweep of `search_spec` lists spec by spec, each by relevance; the whole is
  not ordered by relevance.

## Proofs

`SpecStore_proofs` proves, for all values of the constants that satisfy the
module's assumptions (ids start at 1, the three "none" values are none of the
values they stand beside, unparseable documents are documents), that `Spec`
implies `TypeOK`, `CatalogIsOfDocument`, `NoOrphanRows` and `OneRowPerSource`
always, the action properties `IdentityStable`, `MigrationKeepsDocuments` and
`MigrationRebuilds`, and `ImplementsSpecIndex`.

The argument rests on one inductive invariant, `IInv`:

* `DbInv(db)`: what a committed file is like. `CatalogIsOfDocument`,
  `NoOrphanRows` and `OneRowPerSource` are not inductive alone: catalogs match
  only because ids are distinct, ids stay distinct only because each is below
  the sequence, and a fingerprint says something only because `sha` is the
  hash of the document beside it.
* `LockInv`: who holds the lock is at a place where its program holds it, and
  without a holder the copy is the file.
* `PlaceInv(p)`: at each place of an operation, the copy as a function of the
  committed file, for instance `wal = ReplaceRow(db, req[p], ...)` after `PutRow`.
  It survives other processes because none can commit while `p` holds the lock,
  and because a snapshot is "fresh" only until the next commit, which is what
  makes the owner check of `PutSelect` still true at `PutRow`.

Lemmas about the table operators (`DeleteSpecsInv`, `ReplaceRowInv`, `PutInv`,
`RebuiltInv`, ...) show that each preserves `DbInv`; one lemma per action shows
that it preserves `IInv`. `Effects` then says what any step can do to the
committed file, and the action properties and the refinement follow from it.

`Indexer_proofs` shows that `IndexerSpec` implies `Spec` (`IndexerDrivesStore`):
the entry points take only the store's own steps, with records the store
accepts, so every theorem above holds of them. Its invariant, `IndexerInv`,
adds that a `Put` in progress stores the task's record and that a printed
command's task is for the name it was printed with. With `Effects` this gives
`RefreshKeepsNames`; `IndexerTypeOK` is proved beside it. It assumes of
`DeriveName` only that it gives a name.

`CatalogQuery_proofs` proves `QueryTypeOK` and `AnswerIsOfItsSpec`. Its
invariant, `QueryInv`, stands on the store's (`WriterInv`: a writer's step is a
step of `SpecStore`, and a handler's leaves the store alone), so that `Effects`
says what a handler can find changed. `HandlerInv` is what each handler knows at
its place: the id it holds was its spec's at some moment of the query, every id
is used by one name only (`IdentityStable`), and whatever has that id now is
either gone, with all its rows, or the same spec with a document that `during`
holds. `Effects` also gives that only a store of layout 1 takes rows from the
older build, which a read-only session cannot open.

`EntryPointsAgree` is proved there too (`EntryPointsTheorem`): a name is free, or
another source's, or this source's, and in each case the two outcomes are one.

`QuerySession_proofs` proves the five invariants of `QuerySession` for any
number of handlers and files. The inductive invariant, `SessionInv`, says
of each call: the open file's contents are among the moments the call has lived
through (`Watches`); what it has found, and what it is about to take from the
cache or to store there, some moment of it had (`HasRead`, `AboutTo`); and the
names it has read or is still to read are those of one moment. `AnswerWasStored`
alone is not inductive, because a document waits between `EntryGet` and
`StoreEntry`, or in the cache, while the row moves on: it counts only because
the row's hash was read within the call. `CacheMatchesOrder` rests on lemmas on
what `removeLocked` and the eviction leave of a list without repetitions.

The proofs about the document tools hold for every document, depth, filter,
limit and offset that satisfy three named assumptions. `DocumentsAssumption`
says that documents are `WellFormed` and components finite in number: they are
Go maps, and kin-openapi resolves each `$ref` to a schema of the document or
fails to load it. `PageArguments` says that limits and offsets are integers.
`NoneAssumption` says that an argument that was not given is told from one that
was. `DocumentTools_proofs` begins with `Frame`, which each of the others
contains: a walk keeps the document it began with, and finds the variables of
the other tools empty.

* *Closures* (`SchemaGraph_proofs`): `Closure` holds its roots, is closed, and
  is within every closed set that holds them.
* *Generated types* (`DocumentTools_proofs`, `TypesInv`): every key is collected
  once, and what a collected schema refers to is collected or wanted
  (`Collecting`); in each mode, what is known stays within what the mode's roots
  lead to and holds the roots (`RootsKept`). When nothing is wanted any more,
  what is collected is closed under what `collectRefs` follows.
  `TagTypesAreClosed` follows since `CollectTagRefs` is closed under every edge,
  `FlatTypesAreClosed` since a flat schema mentions no more than is followed, and
  `TwiceIsRecursive` since what a schema's own schemas lead to holds its name
  exactly when it is recursive.
* *Resolved schemas* (`DocumentWalk_proofs`, `WalkInv`): `seen` is the set of the
  names expanded so far, each once (`NamesInv`); what an expanded schema holds is
  in the answer or waits (`Unfolded`); what comes of an operation's own parts
  stays within what they reach, and all that the operation starts from is in the
  answer, waits, or is in a slot (`EndpointInv`). At the end nothing waits, so the
  answer is closed and holds the roots, and `Reachable` is the least such set:
  `AnswerCoversReferences`. The recursion that lines up the slots of the responses
  is unfolded by `Accumulated`.
* *Listings* (`DocumentPages_proofs`): a finite set can be put in a list under any
  order that is total and transitive (`ArrangementExists`), so each sorted listing
  has every member, once. With one row per operation and the first position of
  each tag, the rows select what the analyzer keeps: `ListingParity` and
  `SearchParity`. `DiffAccountsForListings` is a consequence of what a listing
  holds. `TagCountsMatchListing` is a sum over tags of sums over operations:
  `SumOfSizes` says that the sizes of sets without a common member add up to that
  of their union, and an operation that repeats no tag is in the set of one
  spelling only. The bucket of operations without tags, which lists nothing when
  it is asked for, is excepted.
* *Pages* (`PagesInv`): while nothing was indexed, the next page starts no earlier
  than the first did, so the pages given are one slice of the listing; SQL's
  page and the sliced one are both that slice (`PageIsASlice`).

Induction in these proofs is on sets of naturals (`NatsByInduction`), for the
library's principle takes an operator. With it the few recursive functions of the
models (the slots of the responses, `FlattenSeq`, `MapThenSumSet`) are shown to
exist before anything is said of their values.

Only model-checked: `EveryOperationEnds`, `EveryQueryEnds` and `EveryCallEnds`,
for liveness is out of the prover's reach. Everything else that a passing run
checks is proved, the refinement included.

## Plan

1. `StoreLayout`: the walk-up of `layout.go` and the two moments it is evaluated
   at, by the server once at start-up and by the command at every run.
2. An abstract resolver (a component is expanded once, what is reached is
   answered) that `Extractor` implements, proved from `WalkInv`.
3. The safety half of termination: a measure that each step of a walk or of
   `collectRefs` lowers, as an action property with a proof.

## Not modelled

* `internal/store/layout.go`: it reads the directory tree and keeps nothing. The
  part with a consequence, a session that stays with the path it began with, is
  in `QuerySession`.
* `security_schemes` and `validate_spec`: counts and messages of one document,
  computed in one place only.
* HTTP reading beyond its outcomes, configuration, the record types, the process
  entry: no state and no choice that a property tells apart.
* The text of answers and generated types, except which schemas it shows and
  which names it mentions.
* Several tool calls at once in `DocumentTools`: they share only documents
  nobody changes. `QuerySession` and `CatalogQuery` have the concurrent part.
