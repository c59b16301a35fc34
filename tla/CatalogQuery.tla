---------------------------- MODULE CatalogQuery ----------------------------
(***************************************************************************)
(* The discovery queries of internal/store/query.go, run by the server     *)
(* session beside the writers of SpecStore.  A query is a run of separate  *)
(* statements: the spec's row, a count, a page, the tags.  Each statement  *)
(* sees the file as committed when it starts; nothing holds a snapshot     *)
(* from one to the next.  All handlers of a session share one read-only    *)
(* connection, which a statement that returns rows keeps until the last    *)
(* row has been read.                                                      *)
(***************************************************************************)
EXTENDS SpecStore, Sequences

CONSTANTS Handlers, NoHandler

ASSUME NoHandlerAssumption == NoHandler \notin Handlers

VARIABLES
  session,  \* is the session's read-only handle open
  conn,     \* the handler whose rows keep the connection, or NoHandler
  query,    \* what each handler is doing
  during    \* history: what its spec's document was while the query ran

queryVars == <<session, conn, query, during>>
allVars == <<vars, queryVars>>

\* The catalog tables each statement of a query reads, in order.
Statements ==
  [endpoints |-> <<{"endpoints"}, {"endpoints"}, {"endpoint_tags"}>>,
   search    |-> <<{"endpoints", "endpoint_fields"},
                   {"endpoints", "endpoint_fields"}, {"endpoint_tags"}>>,
   schemas   |-> <<{"schemas"}, {"schemas"}>>,
   tags      |-> <<{"tags", "tag_methods"}>>]
Kinds == DOMAIN Statements

\* The COUNT(*) of a listing returns a single row: QueryRow gives the
\* connection back at once.  Every other statement iterates over its rows.
IsCount(kind, i) == kind # "tags" /\ i = 1

\* at: "idle", "row", "next" (between statements), "rows" (reading rows),
\* "answered" or "error".  parts: for each statement run, the documents the
\* rows it found were derived from.
Idle == [at |-> "idle"]
Ask(n, k) == [at |-> "row", name |-> n, kind |-> k, id |-> 0, parts |-> << >>]

DocOf(d, n) == IF d.specs[n] = NoSpec THEN NoDoc ELSE d.specs[n].doc

Running(h) == query[h].at \in {"row", "next", "rows"}

-----------------------------------------------------------------------------

\* OpenReadOnly: only a store of this layout, never created, never migrated.
OpenReadOnly ==
  /\ ~session
  /\ db.version = SchemaVersion
  /\ session' = TRUE
  /\ UNCHANGED <<vars, conn, query, during>>

\* A tool call reaches the store.
StartQuery(h, n, k) ==
  /\ session
  /\ query[h].at = "idle"
  /\ query' = [query EXCEPT ![h] = Ask(n, k)]
  /\ UNCHANGED <<vars, session, conn, during>>

\* Mutant: a stored spec is answered from whatever its catalog tables hold.
ReadRow_Unchecked(h) ==
  /\ query[h].at = "row"
  /\ conn = NoHandler
  /\ LET n == query[h].name IN
     /\ query' = [query EXCEPT ![h] =
          IF db.specs[n] # NoSpec THEN [@ EXCEPT !.at = "next", !.id = db.specs[n].id]
          ELSE [@ EXCEPT !.at = "error"]]
     /\ during' = [during EXCEPT ![h] = {DocOf(db, n)}]
  /\ UNCHANGED <<vars, session, conn>>

\* specRow, and the refusal of a name that is not indexed (ErrNotFound) or
\* whose catalog is not derived from its document (ErrCatalogIncomplete).
ReadRow(h) ==
  /\ query[h].at = "row"
  /\ conn = NoHandler
  /\ LET n == query[h].name IN
     /\ query' = [query EXCEPT ![h] =
          IF Ready(db, n) THEN [@ EXCEPT !.at = "next", !.id = db.specs[n].id]
          ELSE [@ EXCEPT !.at = "error"]]
     /\ during' = [during EXCEPT ![h] = {DocOf(db, n)}]
  /\ UNCHANGED <<vars, session, conn>>

\* The next statement, over the tables as they are now.
RunStatement(h) ==
  LET q == query[h]
      i == Len(q.parts) + 1
      found == {db.cat[q.id][t] : t \in Statements[q.kind][i]} IN
  /\ q.at = "next"
  /\ conn = NoHandler
  /\ query' = [query EXCEPT ![h].parts = Append(@, found),
                            ![h].at = IF IsCount(q.kind, i) THEN "next" ELSE "rows"]
  /\ conn' = IF IsCount(q.kind, i) THEN NoHandler ELSE h
  /\ UNCHANGED <<vars, session, during>>

\* Mutant: the tags are read before the page's rows are closed.
CloseRows_TagsFirst(h) ==
  LET q == query[h]
      last == Len(q.parts) = Len(Statements[q.kind]) IN
  /\ q.at = "rows"
  /\ \/ /\ query' = [query EXCEPT ![h].at = "answered"]
        /\ conn' = NoHandler
     \/ /\ ~last
        /\ NoDoc \notin q.parts[Len(q.parts)]
        /\ query' = [query EXCEPT ![h].at = "next"]
        /\ UNCHANGED conn
  /\ UNCHANGED <<vars, session, during>>

\* The last row has been read: the rows close and the connection is free again.
\* An empty page ends a listing without its tags.
CloseRows(h) ==
  LET q == query[h]
      last == Len(q.parts) = Len(Statements[q.kind]) IN
  /\ q.at = "rows"
  /\ conn' = NoHandler
  /\ \/ query' = [query EXCEPT ![h].at = "answered"]
     \/ /\ ~last
        /\ NoDoc \notin q.parts[Len(q.parts)]
        /\ query' = [query EXCEPT ![h].at = "next"]
  /\ UNCHANGED <<vars, session, during>>

\* schemaCount = 0: the spec has no component schemas.
NoSchemas(h) ==
  /\ query[h].at = "next"
  /\ query[h].kind = "schemas"
  /\ query[h].parts = << >>
  /\ query' = [query EXCEPT ![h].at = "answered"]
  /\ UNCHANGED <<vars, session, conn, during>>

\* Mutant: an early return that does not close the rows.
QueryFails_Leaking(h) ==
  /\ Running(h)
  /\ query' = [query EXCEPT ![h].at = "error"]
  /\ UNCHANGED <<vars, session, conn, during>>

\* A statement fails; the deferred Close gives the connection back.
QueryFails(h) ==
  /\ Running(h)
  /\ conn' = IF conn = h THEN NoHandler ELSE conn
  /\ query' = [query EXCEPT ![h].at = "error"]
  /\ UNCHANGED <<vars, session, during>>

\* The handler returns its answer or its error to the client.
Reply(h) ==
  /\ query[h].at \in {"answered", "error"}
  /\ query' = [query EXCEPT ![h] = Idle]
  /\ during' = [during EXCEPT ![h] = {}]
  /\ UNCHANGED <<vars, session, conn>>

\* A writer's step; the history of every running query records it.
WriterStep ==
  /\ Next
  /\ during' = [h \in Handlers |->
       IF query[h].at \in {"next", "rows"}
       THEN during[h] \cup {DocOf(db', query[h].name)} ELSE during[h]]
  /\ UNCHANGED <<session, conn, query>>

ContinueQuery(h) ==
  ReadRow(h) \/ RunStatement(h) \/ CloseRows(h) \/ NoSchemas(h) \/ Reply(h)

QueryInit ==
  /\ Init
  /\ session = FALSE
  /\ conn = NoHandler
  /\ query = [h \in Handlers |-> Idle]
  /\ during = [h \in Handlers |-> {}]

QueryNext ==
  \/ WriterStep
  \/ OpenReadOnly
  \/ \E h \in Handlers :
       \/ \E n \in Names, k \in Kinds : StartQuery(h, n, k)
       \/ ContinueQuery(h)
       \/ QueryFails(h)

QuerySpec == QueryInit /\ [][QueryNext]_allVars

\* database/sql hands the one connection to the goroutines waiting for it.
LiveQuerySpec == QuerySpec /\ \A h \in Handlers : SF_allVars(ContinueQuery(h))

-----------------------------------------------------------------------------
(* Properties *)

\* The connection is kept exactly by the handler that is reading rows, which
\* names a catalog id, and answers have one part per statement that ran.
QueryTypeOK ==
  /\ session \in BOOLEAN
  /\ conn \in Handlers \cup {NoHandler}
  /\ \A h \in Handlers :
       /\ (conn = h) <=> (query[h].at = "rows")
       /\ query[h].at \in {"next", "rows"} => query[h].id \in Ids
       /\ during[h] \subseteq DocOrNone

\* Whatever commits between its statements, a query finds in each statement
\* the complete catalog of one document its own spec had while the query ran:
\* never another spec's rows, rows left by an earlier document, or the empty
\* catalog of a spec whose document could not be migrated (query.go:82, 92).
AnswerIsOfItsSpec ==
  \A h \in Handlers : query[h].at = "answered" =>
    \A i \in DOMAIN query[h].parts :
      \E d \in during[h] : query[h].parts[i] = {d}

\* Every query gets its answer or an error: handlers that share the one
\* connection never wait for each other for ever (store.go:610-612).
EveryQueryEnds ==
  \A h \in Handlers : query[h].at = "row" ~> query[h].at = "idle"

\* "a discovery answer read back from the catalog must equal the answer the
\* analyzer produced from the document" (record.go:105-106): the count, the
\* page and the tags of one answer are never of two documents.
AnswerIsOfOneDocument ==
  \A h \in Handlers : query[h].at = "answered" =>
    \A i, j \in DOMAIN query[h].parts, d, e \in Docs :
      query[h].parts[i] = {d} /\ query[h].parts[j] = {e} => d = e
=============================================================================
