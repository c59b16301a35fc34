----------------------------- MODULE QuerySession -----------------------------
(***************************************************************************)
(* internal/tools/specs.go: what a server session keeps between tool calls *)
(* - one read-only handle, opened on first use, and a FIFO cache of parsed *)
(* documents - while other processes store, remove and even recreate the   *)
(* index it reads.  The mcp server runs the handlers of tool calls side by *)
(* side; the mutexes of specSource and cachedSpec cover single steps.      *)
(*                                                                         *)
(* A store file is what SpecIndex promises.  One that is removed stays     *)
(* readable through a handle that has it open.                             *)
(***************************************************************************)
EXTENDS Naturals, FiniteSets, SequencesExt

CONSTANTS
  Handlers,
  Names, Sources, Docs,
  Kinds,          \* the tool calls: see Wants
  CacheSize,      \* specCacheSize, 4 in the code
  MaxFiles,       \* bound: store files created at the session's path
  MaxMoments,     \* bound: index contents one call may live through
  NoSpec, NoDoc, NoName

ASSUME CacheSizeAssumption == CacheSize \in Nat \ {0}
ASSUME MaxFilesAssumption == MaxFiles \in Nat \ {0}
ASSUME NoDocNameAssumption == NoDoc \notin Docs /\ NoName \notin Names

VARIABLES
  files,     \* the contents of every store file there has been
  made,      \* how many files have been created
  there,     \* the newest of them is still at the path
  handle,    \* specSource.st: the file the session has open, 0 for none
  cache,     \* specSource.cache: the document cached for a name, or NoDoc
  order,     \* specSource.order
  call,      \* the tool call each handler is serving
  moments,   \* history: contents of the open file since the call opened it
  paths      \* history: contents of the index at the path since then

sessionVars == <<handle, cache, order>>
fileVars == <<files, made, there>>
vars == <<fileVars, sessionVars, call, moments, paths>>

Index == INSTANCE SpecIndex WITH index <- files[made]

\* The document hashes the rows of a file hold.
Content(i) == [n \in Names |-> IF i[n] = NoSpec THEN NoDoc ELSE i[n].doc]

Open == files[handle]

\* What the path leads to: nothing when no file is there.
AtPath == Content(IF there THEN files[made] ELSE Index!EmptyIndex)

-----------------------------------------------------------------------------
(* The store files *)

\* What calls live through when the open file becomes i.
Witness(i) ==
  moments' = [h \in Handlers |->
    IF moments[h] # {} /\ handle = made THEN moments[h] \cup {Content(i)} ELSE moments[h]]

\* What calls live through when what the path leads to becomes i.
AtPathNow(i) ==
  paths' = [h \in Handlers |-> IF paths[h] = {} THEN {} ELSE paths[h] \cup {Content(i)}]

\* bound MaxMoments
MayChange ==
  \A h \in Handlers : Cardinality(moments[h]) < MaxMoments /\ Cardinality(paths[h]) < MaxMoments

Change(i) ==
  /\ MayChange
  /\ files' = [files EXCEPT ![made] = i]
  /\ Witness(i)
  /\ AtPathNow(i)
  /\ UNCHANGED <<made, there, sessionVars, call>>

StoreSpec(n, s, d) ==
  /\ there
  /\ Index!MayStore(files[made], n, s)
  /\ Change(Index!Stored(files[made], n, s, d))

RemoveSpec(n) ==
  /\ there
  /\ files[made][n] # NoSpec
  /\ Change([files[made] EXCEPT ![n] = NoSpec])

\* The index directory goes, and the next `swagger-mcp index` makes a new one.
RemoveStore ==
  /\ there
  /\ there' = FALSE
  /\ AtPathNow(Index!EmptyIndex)
  /\ UNCHANGED <<files, made, sessionVars, call, moments>>

CreateStore ==
  /\ ~there
  /\ made < MaxFiles                         \* bound MaxFiles
  /\ made' = made + 1
  /\ there' = TRUE
  /\ UNCHANGED <<files, sessionVars, call, moments, paths>>

-----------------------------------------------------------------------------
(* Tool calls *)

\* The spec arguments of a call; NoName is an argument left out.  "detail" is
\* every tool that needs the document, "listing" spec_status or a discovery tool
\* on one spec.  A diff without one of its names is refused whichever it is.
Wants(kind) ==
  CASE kind = "sweep" -> {<< >>}
    [] kind = "diff"  -> {<<m, n>> : m, n \in Names} \cup {<<NoName, NoName>>}
    [] OTHER          -> {<<n>> : n \in Names \cup {NoName}}

\* answers: what the call has found so far, one [name, doc] per spec.
Quiet == [at |-> "idle"]

Go(h, at) == call' = [call EXCEPT ![h].at = at]

\* The call ends without an answer.
Refuse(h) ==
  /\ call' = [call EXCEPT ![h] = [at |-> "error"]]
  /\ moments' = [moments EXCEPT ![h] = {}]
  /\ paths' = [paths EXCEPT ![h] = {}]
  /\ UNCHANGED <<fileVars, sessionVars>>

Call(h, kind, wants) ==
  /\ call[h].at = "idle"
  /\ call' = [call EXCEPT ![h] = [at |-> "open", kind |-> kind, wants |-> wants,
                                  todo |-> << >>, sha |-> NoDoc, got |-> NoDoc,
                                  answers |-> << >>]]
  /\ UNCHANGED <<fileVars, sessionVars, moments, paths>>

\* open: the handle is kept for the life of the session.
OpenStore(h) ==
  /\ call[h].at = "open"
  /\ IF handle = 0 /\ ~there
     THEN Refuse(h)
     ELSE /\ handle' = IF handle = 0 THEN made ELSE handle
          /\ moments' = [moments EXCEPT ![h] = {Content(files[handle'])}]
          /\ paths' = [paths EXCEPT ![h] = {AtPath}]
          /\ Go(h, "list")
          /\ UNCHANGED <<fileVars, cache, order>>

\* Mutant: a call without a name is served from any spec there is.
Targets_Guessing(kind, wants, names) ==
  CASE kind = "sweep" -> SetToSeqs(names) \ {<< >>}
    [] kind = "diff"  -> {w \in {wants} : /\ Cardinality(names) >= 2
                                          /\ {w[1], w[2]} \subseteq names}
    [] OTHER          -> {<<n>> : n \in {m \in names : wants \in {<<m>>, <<NoName>>}}}

\* The specs a call is to read, given the names that are indexed: resolve, the
\* checks of diff_endpoints, or sweepTargets.  Empty when the call is refused.
\* List orders by name; the order of names is arbitrary here.
Targets(kind, wants, names) ==
  CASE kind = "sweep" -> SetToSeqs(names) \ {<< >>}
    [] kind = "diff"  -> {w \in {wants} : /\ Cardinality(names) >= 2
                                          /\ {w[1], w[2]} \subseteq names}
    [] OTHER          -> {<<n>> : n \in {m \in names : \/ wants = <<m>>
                                                       \/ wants = <<NoName>> /\ names = {m}}}

\* Where the reading of one spec starts.
Reading(kind) ==
  IF kind \in {"listing", "sweep"} THEN "row" ELSE "meta"

List(h) ==
  LET c == call[h]
      targets == Targets(c.kind, c.wants, Index!Listed(Open)) IN
  /\ c.at = "list"
  /\ \/ targets = {} /\ Refuse(h)
     \/ /\ \E t \in targets :
             call' = [call EXCEPT ![h] = [c EXCEPT !.at = Reading(c.kind), !.todo = t]]
        /\ UNCHANGED <<fileVars, sessionVars, moments, paths>>

\* The spec being read has the document d: on to the next, or done.
Found(h, d) ==
  LET c == call[h] IN
  call' = [call EXCEPT ![h] =
    [c EXCEPT !.at = IF Len(c.todo) = 1 THEN "answered" ELSE Reading(c.kind),
              !.todo = Tail(c.todo),
              !.sha = NoDoc, !.got = NoDoc,
              !.answers = Append(c.answers, [name |-> Head(c.todo), doc |-> d])]]

\* Mutant: a sweep answers with what it has when a spec is gone.
ReadRow_Stopping(h) ==
  LET row == Open[Head(call[h].todo)] IN
  /\ call[h].at = "row"
  /\ IF row = NoSpec
     THEN IF call[h].kind = "sweep"
          THEN Go(h, "answered") /\ UNCHANGED <<fileVars, sessionVars, moments, paths>>
          ELSE Refuse(h)
     ELSE /\ Found(h, row.doc)
          /\ UNCHANGED <<fileVars, sessionVars, moments, paths>>

\* meta of spec_status, or one catalog query (CatalogQuery has its statements).
\* A spec deleted since it was listed ends the call, a whole sweep too.
ReadRow(h) ==
  LET row == Open[Head(call[h].todo)] IN
  /\ call[h].at = "row"
  /\ IF row = NoSpec
     THEN Refuse(h)
     ELSE /\ Found(h, row.doc)
          /\ UNCHANGED <<fileVars, sessionVars, moments, paths>>

\* entry: the row's hash first.
EntryMeta(h) ==
  LET row == Open[Head(call[h].todo)] IN
  /\ call[h].at = "meta"
  /\ IF row = NoSpec
     THEN Refuse(h)
     ELSE /\ call' = [call EXCEPT ![h].at = "cached", ![h].sha = row.doc]
          /\ UNCHANGED <<fileVars, sessionVars, moments, paths>>

\* Mutant: whatever is cached is served.
EntryCached_Unchecked(h) ==
  LET hit == cache[Head(call[h].todo)] IN
  /\ call[h].at = "cached"
  /\ IF hit # NoDoc THEN Found(h, hit) ELSE Go(h, "get")
  /\ UNCHANGED <<fileVars, sessionVars, moments, paths>>

\* A cached document is served only if it has that hash.
EntryCached(h) ==
  LET hit == cache[Head(call[h].todo)] IN
  /\ call[h].at = "cached"
  /\ IF hit = call[h].sha THEN Found(h, hit) ELSE Go(h, "get")
  /\ UNCHANGED <<fileVars, sessionVars, moments, paths>>

\* Mutant: a spec that is gone is read as an empty record.
EntryGet_Ignoring(h) ==
  LET row == Open[Head(call[h].todo)] IN
  /\ call[h].at = "get"
  /\ call' = [call EXCEPT ![h].at = "store", ![h].got = IF row = NoSpec THEN NoDoc ELSE row.doc]
  /\ UNCHANGED <<fileVars, sessionVars, moments, paths>>

\* Otherwise the document is read, as it is by now.
EntryGet(h) ==
  LET row == Open[Head(call[h].todo)] IN
  /\ call[h].at = "get"
  /\ IF row = NoSpec
     THEN Refuse(h)
     ELSE /\ call' = [call EXCEPT ![h].at = "store", ![h].got = row.doc]
          /\ UNCHANGED <<fileVars, sessionVars, moments, paths>>

\* Mutant: the name's old place in the order is left there.
Replaced_KeepingPlace(o, n) == Append(o, n)

\* removeLocked and append: the name moves to the end of the order.
Replaced(o, n) == Append(RemoveFirst(o, n), n)

\* storeEntry: keep an equal document, replace a stale one, evict the oldest.
StoreEntry(h) ==
  LET n == Head(call[h].todo)
      d == call[h].got
      o == Replaced(order, n)
      evicted == IF Len(o) > CacheSize THEN {Head(o)} ELSE {} IN
  /\ call[h].at = "store"
  /\ IF cache[n] = d
     THEN UNCHANGED <<cache, order>>
     ELSE /\ cache' = [m \in Names |-> IF m \in evicted THEN NoDoc
                                       ELSE IF m = n THEN d ELSE cache[m]]
          /\ order' = IF evicted = {} THEN o ELSE Tail(o)
  /\ Found(h, d)
  /\ UNCHANGED <<fileVars, handle, moments, paths>>

\* The store cannot be opened, a statement fails, or a document does not parse,
\* which is noticed when it is in the cache already.
Fail(h) ==
  /\ call[h].at \notin {"idle", "error"}
  /\ Refuse(h)

Reply(h) ==
  /\ call[h].at \in {"answered", "error"}
  /\ call' = [call EXCEPT ![h] = Quiet]
  /\ moments' = [moments EXCEPT ![h] = {}]
  /\ paths' = [paths EXCEPT ![h] = {}]
  /\ UNCHANGED <<fileVars, sessionVars>>

Step(h) ==
  \/ OpenStore(h) \/ List(h) \/ ReadRow(h)
  \/ EntryMeta(h) \/ EntryCached(h) \/ EntryGet(h) \/ StoreEntry(h)
  \/ Reply(h)

-----------------------------------------------------------------------------

Init ==
  /\ files = [f \in 1..MaxFiles |-> Index!EmptyIndex]
  /\ made \in {0, 1}
  /\ there = (made = 1)
  /\ handle = 0
  /\ cache = [n \in Names |-> NoDoc]
  /\ order = << >>
  /\ call = [h \in Handlers |-> Quiet]
  /\ moments = [h \in Handlers |-> {}]
  /\ paths = [h \in Handlers |-> {}]

Next ==
  \/ \E n \in Names, s \in Sources, d \in Docs : StoreSpec(n, s, d)
  \/ \E n \in Names : RemoveSpec(n)
  \/ RemoveStore
  \/ CreateStore
  \/ \E h \in Handlers : \/ \E k \in Kinds : \E w \in Wants(k) : Call(h, k, w)
                         \/ Step(h)
                         \/ Fail(h)

Spec == Init /\ [][Next]_vars

-----------------------------------------------------------------------------
(* Properties *)

Answered(h, kinds) == call[h].at = "answered" /\ call[h].kind \in kinds

\* Every variable stays in its range.
SessionTypeOK ==
  /\ files \in [1..MaxFiles -> [Names -> [source : Sources, doc : Docs] \cup {NoSpec}]]
  /\ made \in 0..MaxFiles /\ there \in BOOLEAN
  /\ handle \in 0..made
  /\ cache \in [Names -> Docs \cup {NoDoc}]
  /\ order \in Seq(Names)
  /\ \A h \in Handlers : /\ moments[h] \subseteq [Names -> Docs \cup {NoDoc}]
                         /\ paths[h] \subseteq [Names -> Docs \cup {NoDoc}]
                         /\ call[h].at \notin {"idle", "error"} =>
                              /\ call[h].todo \in Seq(Names)
                              /\ call[h].answers \in Seq([name : Names, doc : Docs])

\* The cached names are exactly those in the order, each once, and no more than
\* the cache's size, whichever handlers load, replace and evict them.
CacheMatchesOrder ==
  /\ Len(order) <= CacheSize
  /\ \A i, j \in DOMAIN order : order[i] = order[j] => i = j
  /\ {order[i] : i \in DOMAIN order} = {n \in Names : cache[n] # NoDoc}

\* Every document or row a call answers with was stored under that name at a
\* moment of the call: no handler, reindex, replacement or eviction brings back
\* an older one (specs.go:236-238).
AnswerWasStored ==
  \A h \in Handlers : Answered(h, Kinds) =>
    \A i \in DOMAIN call[h].answers :
      \E m \in moments[h] : m[call[h].answers[i].name] = call[h].answers[i].doc

\* A call that names no spec is answered from one that was, at a moment of the
\* call, the only one indexed: "Guessing among several is never allowed".
UnnamedIsTheOnlySpec ==
  \A h \in Handlers :
    Answered(h, {"detail", "listing"}) /\ call[h].wants = <<NoName>> =>
      \E m \in moments[h] : {n \in Names : m[n] # NoDoc} = {call[h].answers[1].name}

\* The specs a sweep answers from are those that were indexed at one moment of
\* the call, all of them and no others: one that is deleted or added while it
\* reads spec by spec is neither dropped from that index nor mixed into it
\* (discovery.go:264-280).
SweepCoversTheIndex ==
  \A h \in Handlers : Answered(h, {"sweep"}) =>
    \E m \in moments[h] :
      {n \in Names : m[n] # NoDoc} =
        {call[h].answers[i].name : i \in DOMAIN call[h].answers}

\* "A reindex in the same session must be visible to the next query"
\* (specs.go:237-238): a spec that was indexed at the path all through a call is
\* answered from a document it had there.
ReindexIsVisible ==
  \A h \in Handlers : Answered(h, Kinds) =>
    \A i \in DOMAIN call[h].answers :
      LET answer == call[h].answers[i] IN
      (\A p \in paths[h] : p[answer.name] # NoDoc) =>
        \E p \in paths[h] : p[answer.name] = answer.doc
=============================================================================
