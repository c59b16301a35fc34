-------------------------- MODULE CatalogQuery_proofs --------------------------
(***************************************************************************)
(* Proofs about CatalogQuery: whatever the writers commit between the      *)
(* statements of a query, each statement finds the catalog of one document *)
(* its own spec had.  The argument is IdentityStable's: an id stays with   *)
(* the name it was read for, so the catalog it addresses is whole, and     *)
(* changes only when that name's document does.                            *)
(***************************************************************************)
EXTENDS CatalogQuery, SpecStore_proofs

Asked == [at : {"row", "next", "rows", "answered", "error"}, name : Names,
          kind : Kinds, id : Nat, parts : Seq(SUBSET DocOrNone)]

Shapes ==
  /\ query \in [Handlers -> {Idle} \cup Asked]
  /\ during \in [Handlers -> SUBSET DocOrNone]
  /\ session \in BOOLEAN
  /\ conn \in Handlers \cup {NoHandler}

\* The id is the spec's own or nobody's, and what it addresses is whole.
Holds(d, id, n, docs) ==
  /\ id \in Ids
  /\ id < d.nextId
  /\ \A m \in Names : d.specs[m] # NoSpec /\ d.specs[m].id = id => m = n
  /\ \E c \in docs : \A t \in CatalogTables : d.cat[id][t] = c

HandlerInv(h) ==
  LET q == query[h] IN
  /\ (conn = h) <=> (q.at = "rows")
  /\ q.at # "idle" => session
  /\ q.at = "row" => q.parts = << >>
  /\ q.at \in {"next", "rows"} => Holds(db, q.id, q.name, during[h])
  /\ q.at = "next" => Len(q.parts) < Len(Statements[q.kind])
  /\ q.at = "rows" => Len(q.parts) <= Len(Statements[q.kind])
  /\ q.at \in {"next", "rows", "answered"} =>
       \A i \in DOMAIN q.parts : \E c \in during[h] : q.parts[i] = {c}

QueryInv ==
  /\ Shapes
  /\ session => db.version = SchemaVersion
  /\ \A h \in Handlers : HandlerInv(h)

-----------------------------------------------------------------------------

\* Every statement reads at least one of the catalog's tables.
LEMMA StatementTables ==
  ASSUME NEW k \in Kinds
  PROVE  /\ Len(Statements[k]) \in Nat \ {0}
         /\ k # "tags" => Len(Statements[k]) >= 2
         /\ \A i \in 1..Len(Statements[k]) :
              /\ Statements[k][i] # {}
              /\ Statements[k][i] \subseteq CatalogTables
<1>1. Kinds = {"endpoints", "search", "schemas", "tags"}
  BY DEF Kinds, Statements
<1>2. CASE k = "endpoints"
  BY <1>2 DEF Statements, CatalogTables
<1>3. CASE k = "search"
  BY <1>3 DEF Statements, CatalogTables
<1>4. CASE k = "schemas"
  BY <1>4 DEF Statements, CatalogTables
<1>5. CASE k = "tags"
  BY <1>5 DEF Statements, CatalogTables
<1> QED
  BY <1>1, <1>2, <1>3, <1>4, <1>5

\* What a query holds, it still holds after a commit: the catalog it addresses
\* is the same one, or that of what its spec's document has become.
LEMMA HoldsOn ==
  ASSUME IInv, [Next]_vars, db.version = SchemaVersion,
         NEW id, NEW n \in Names, NEW docs, Holds(db, id, n, docs)
  PROVE  Holds(db', id, n, docs \cup {DocOf(db', n)})
<1>0. DbInv(db) /\ db \in Databases /\ id \in Ids /\ id < db.nextId
  BY DEF IInv, DbInv, Holds
<1>1. PICK c \in docs : \A t \in CatalogTables : db.cat[id][t] = c
  BY DEF Holds
<1>2. \A m \in Names : db.specs[m] # NoSpec /\ db.specs[m].id = id => m = n
  BY DEF Holds
<1>3. CASE db' = db
  BY <1>3 DEF Holds
<1>4. CASE db' = [db EXCEPT !.version = 2]
  BY <1>0, <1>4 DEF Holds, Databases
<1>5. ASSUME NEW r \in Requests, Storable(db, r), db' = PutResult(db, r)
      PROVE  Holds(db', id, n, docs \cup {DocOf(db', n)})
  <2>1. /\ \A m \in Names : m # r.name =>
             db'.specs[m] = IF db.specs[m] # NoSpec /\ db.specs[m].source = r.source
                            THEN NoSpec ELSE db.specs[m]
        /\ db'.specs[r.name] \in Rows
        /\ db'.specs[r.name].id = RowIdFor(db, r.name)
        /\ db'.specs[r.name].doc = r.doc
    BY <1>0, <1>5, PutRows
  <2>2. /\ id = RowIdFor(db, r.name) => \A t \in CatalogTables : db'.cat[id][t] = r.doc
        /\ id # RowIdFor(db, r.name) =>
             db'.cat[id] = IF id \in IdsOf(db, OtherNames(db, r.name, r.source))
                           THEN EmptyCatalog ELSE db.cat[id]
        /\ db.nextId <= db'.nextId
    BY <1>0, <1>5, PutCatalogs DEF SchemaVersion
  <2>3. r.name \in Names /\ db'.specs[r.name] # NoSpec
    BY <2>1, NoSpecAssumption DEF Requests
  <2>4. id < db'.nextId
    <3>1. db.nextId \in Nat /\ id \in Nat
      BY <1>0 DEF Databases, Ids
    <3>2. db' \in Databases
      BY StepInv DEF IInv, DbInv
    <3>3. db'.nextId \in Nat
      BY <3>2 DEF Databases
    <3> QED
      BY <1>0, <2>2, <3>1, <3>3
  <2>5. CASE id = RowIdFor(db, r.name)
    <3>1. db.specs[r.name] # NoSpec /\ db.specs[r.name].id = id
      BY <1>0, <2>5 DEF RowIdFor, Databases, Ids
    <3>2. r.name = n
      BY <1>2, <2>3, <3>1
    <3>3. DocOf(db', n) = r.doc
      BY <2>1, <2>3, <3>2 DEF DocOf
    <3>4. \A m \in Names : db'.specs[m] # NoSpec /\ db'.specs[m].id = id => m = n
      BY <1>2, <2>1, <3>2
    <3> QED
      BY <1>0, <2>2, <2>4, <2>5, <3>3, <3>4 DEF Holds
  <2>6. CASE id # RowIdFor(db, r.name)
    <3>1. \A m \in Names : db'.specs[m] # NoSpec /\ db'.specs[m].id = id => m = n
      BY <1>2, <2>1, <2>6
    <3>2. CASE id \in IdsOf(db, OtherNames(db, r.name, r.source))
      <4>1. PICK m \in Names : /\ m # r.name
                               /\ db.specs[m] # NoSpec
                               /\ db.specs[m].source = r.source
                               /\ db.specs[m].id = id
        BY <3>2 DEF IdsOf, OtherNames, Indexed
      <4>2. m = n /\ db'.specs[n] = NoSpec
        BY <1>2, <2>1, <4>1
      <4>3. DocOf(db', n) = NoDoc
        BY <4>2 DEF DocOf
      <4>4. \A t \in CatalogTables : db'.cat[id][t] = NoDoc
        BY <2>2, <2>6, <3>2 DEF EmptyCatalog
      <4> QED
        BY <1>0, <2>4, <3>1, <4>3, <4>4 DEF Holds
    <3>3. CASE id \notin IdsOf(db, OtherNames(db, r.name, r.source))
      BY <1>0, <1>1, <2>2, <2>4, <2>6, <3>1, <3>3 DEF Holds
    <3> QED
      BY <3>2, <3>3
  <2> QED
    BY <2>5, <2>6
<1>6. ASSUME NEW m \in Names, db.specs[m] # NoSpec, db' = DeleteSpecs(db, {m})
      PROVE  Holds(db', id, n, docs \cup {DocOf(db', n)})
  <2>1. /\ db'.nextId = db.nextId
        /\ \A k \in Names : db'.specs[k] = IF k = m THEN NoSpec ELSE db.specs[k]
        /\ \A i \in Ids : db'.cat[i] = IF i \in IdsOf(db, {m}) THEN EmptyCatalog ELSE db.cat[i]
    BY <1>0, <1>6, DeleteSpecsFields
  <2>2. \A k \in Names : db'.specs[k] # NoSpec /\ db'.specs[k].id = id => k = n
    BY <1>2, <2>1
  <2>3. CASE id \in IdsOf(db, {m})
    <3>1. m = n
      BY <1>2, <2>3 DEF IdsOf, Indexed
    <3>2. DocOf(db', n) = NoDoc
      BY <2>1, <3>1 DEF DocOf
    <3>3. \A t \in CatalogTables : db'.cat[id][t] = NoDoc
      BY <1>0, <2>1, <2>3 DEF EmptyCatalog
    <3> QED
      BY <1>0, <2>1, <2>2, <3>2, <3>3 DEF Holds
  <2>4. CASE id \notin IdsOf(db, {m})
    BY <1>0, <1>1, <2>1, <2>2, <2>4 DEF Holds
  <2> QED
    BY <2>3, <2>4
<1>7. db.version # 1
  BY DEF SchemaVersion
<1> DEFINE Goal == Holds(db', id, n, docs \cup {DocOf(db', n)})
<1> HIDE DEF Goal
<1>8. (\E r \in Requests : Storable(db, r) /\ db' = PutResult(db, r)) => Goal
  BY <1>5 DEF Goal
<1>9. (\E m \in Names : db.specs[m] # NoSpec /\ db' = DeleteSpecs(db, {m})) => Goal
  BY <1>6 DEF Goal
<1>10. Goal
  BY <1>3, <1>4, <1>7, <1>8, <1>9, Effects, Zenon DEF Goal
<1> QED
  BY <1>10 DEF Goal

-----------------------------------------------------------------------------
(* Steps *)

\* A writer's step is the store's; a query's step leaves the store alone.
LEMMA QuerySteps ==
  ASSUME [QueryNext]_allVars
  PROVE  [Next]_vars
BY DEF QueryNext, WriterStep, OpenReadOnly, StartQuery, ContinueQuery, ReadRow,
   RunStatement, CloseRows, NoSchemas, QueryFails, Reply, allVars, queryVars

\* A store of this layout keeps it.
LEMMA VersionStays ==
  ASSUME IInv, [Next]_vars, db.version = SchemaVersion
  PROVE  db'.version = SchemaVersion
<1>1. db \in Databases /\ DbInv(db) /\ db.version = 2
  BY DEF IInv, DbInv, SchemaVersion
<1>2. CASE db' = [db EXCEPT !.version = 2]
  BY <1>1, <1>2 DEF Databases, SchemaVersion
<1>3. ASSUME NEW r \in Requests, Storable(db, r), db' = PutResult(db, r)
      PROVE  db'.version = SchemaVersion
  BY <1>1, <1>3, PutRows
<1>4. ASSUME NEW m \in Names, db' = DeleteSpecs(db, {m})
      PROVE  db'.version = SchemaVersion
  BY <1>4, DeleteRowsOnly
<1>5. db.version # 1
  BY <1>1
<1> QED
  BY <1>2, <1>3, <1>4, <1>5, Effects, Zenon

LEMMA WriterInv ==
  ASSUME IInv, QueryInv, WriterStep
  PROVE  QueryInv'
<1>1. [Next]_vars /\ UNCHANGED <<session, conn, query>>
  BY DEF WriterStep
<1>2. during' = [h \in Handlers |->
        IF query[h].at \in {"next", "rows"}
        THEN during[h] \cup {DocOf(db', query[h].name)} ELSE during[h]]
  BY DEF WriterStep
<1>3. db' \in Databases
  BY <1>1, StepInv DEF IInv, DbInv
<1>4. \A n \in Names : DocOf(db', n) \in DocOrNone
  BY <1>3 DEF DocOf, Databases, Rows, DocOrNone
<1>5. ASSUME NEW h \in Handlers, query[h].at \in {"next", "rows"}
      PROVE  /\ query[h] \in Asked
             /\ session
  BY <1>5 DEF QueryInv, Shapes, Idle, HandlerInv
<1>6. Shapes'
  <2>1. \A h \in Handlers : query[h].at \in {"next", "rows"} => query[h].name \in Names
    BY <1>5 DEF Asked
  <2>2. during' \in [Handlers -> SUBSET DocOrNone]
    BY <1>2, <1>4, <2>1 DEF QueryInv, Shapes
  <2> QED
    BY <1>1, <2>2 DEF QueryInv, Shapes
<1>7. session' => db'.version = SchemaVersion
  BY <1>1, VersionStays DEF QueryInv
<1>8. ASSUME NEW h \in Handlers PROVE HandlerInv(h)'
  <2>1. CASE query[h].at \in {"next", "rows"}
    <3>1. during'[h] = during[h] \cup {DocOf(db', query[h].name)}
      BY <1>2, <2>1
    <3>2. Holds(db', query[h].id, query[h].name, during'[h])
      BY <1>1, <1>5, <2>1, <3>1, HoldsOn DEF QueryInv, HandlerInv, Asked
    <3> QED
      BY <1>1, <2>1, <3>1, <3>2 DEF QueryInv, HandlerInv
  <2>2. CASE query[h].at \notin {"next", "rows"}
    <3>1. during'[h] = during[h]
      BY <1>2, <2>2
    <3> QED
      BY <1>1, <2>2, <3>1 DEF QueryInv, HandlerInv
  <2> QED
    BY <2>1, <2>2
<1> QED
  BY <1>6, <1>7, <1>8 DEF QueryInv

\* A step that touches one handler's query, and the connection at most for it.
LEMMA OneHandler ==
  ASSUME QueryInv, NEW h \in Handlers, NEW q \in {Idle} \cup Asked,
         UNCHANGED <<vars, session>>,
         query' = [query EXCEPT ![h] = q],
         NEW docs \in SUBSET DocOrNone, during' = [during EXCEPT ![h] = docs],
         conn' = conn \/ (conn = h /\ conn' = NoHandler) \/ (conn = NoHandler /\ conn' = h),
         HandlerInv(h)'
  PROVE  QueryInv'
<1>1. Shapes'
  BY DEF QueryInv, Shapes
<1>2. session' => db'.version = SchemaVersion
  BY DEF QueryInv, vars
<1>3. ASSUME NEW k \in Handlers, k # h PROVE HandlerInv(k)'
  <2>1. query'[k] = query[k] /\ during'[k] = during[k] /\ db' = db /\ session' = session
    BY <1>3 DEF QueryInv, Shapes, vars
  <2>2. conn' = k <=> conn = k
    BY <1>3, NoHandlerAssumption
  <2> QED
    BY <2>1, <2>2 DEF QueryInv, HandlerInv
<1> QED
  BY <1>1, <1>2, <1>3 DEF QueryInv

LEMMA StartQueryInv ==
  ASSUME QueryInv, NEW h \in Handlers, NEW n \in Names, NEW k \in Kinds, StartQuery(h, n, k)
  PROVE  QueryInv'
<1>1. Ask(n, k) \in Asked /\ Ask(n, k).at = "row" /\ Ask(n, k).parts = << >>
  BY DEF Ask, Asked
<1>2. during' = [during EXCEPT ![h] = during[h]] /\ during[h] \in SUBSET DocOrNone
  BY DEF QueryInv, Shapes, StartQuery
<1>3. query'[h] = Ask(n, k)
  BY DEF StartQuery, QueryInv, Shapes
<1>4. conn # h
  BY DEF StartQuery, QueryInv, HandlerInv
<1>5. HandlerInv(h)'
  BY <1>1, <1>3, <1>4 DEF HandlerInv, StartQuery
<1> QED
  BY <1>1, <1>2, <1>5, OneHandler DEF StartQuery

LEMMA ReadRowInv ==
  ASSUME IInv, QueryInv, NEW h \in Handlers, ReadRow(h)
  PROVE  QueryInv'
<1> DEFINE n == query[h].name
           q == IF Ready(db, n) THEN [query[h] EXCEPT !.at = "next", !.id = db.specs[n].id]
                ELSE [query[h] EXCEPT !.at = "error"]
<1>1. query[h] \in Asked /\ query[h].at = "row" /\ query[h].parts = << >> /\ n \in Names
  BY DEF ReadRow, QueryInv, Shapes, Idle, Asked, HandlerInv
<1>2. DbInv(db) /\ db \in Databases
  BY DEF IInv, DbInv
<1>3. DocOf(db, n) \in DocOrNone
  BY <1>1, <1>2 DEF DocOf, Databases, Rows, DocOrNone
<1>4. CASE Ready(db, n)
  <2>1. db.specs[n] # NoSpec /\ db.specs[n] \in Rows
    BY <1>1, <1>2, <1>4 DEF Ready, Databases
  <2>2. Holds(db, db.specs[n].id, n, {DocOf(db, n)})
    <3>1. db.specs[n].id \in Ids /\ db.specs[n].id < db.nextId
      BY <1>1, <1>2, <2>1 DEF DbInv, SoundRows, Rows
    <3>2. \A m \in Names : db.specs[m] # NoSpec /\ db.specs[m].id = db.specs[n].id => m = n
      BY <1>1, <1>2, <2>1 DEF DbInv, DistinctRows
    <3>3. \A t \in CatalogTables : db.cat[db.specs[n].id][t] = DocOf(db, n)
      BY <1>1, <1>2, <1>4, <2>1 DEF DbInv, CatalogsMatch, DocOf
    <3> QED
      BY <3>1, <3>2, <3>3 DEF Holds
  <2>a. db.specs[n].id \in Nat
    BY <2>1 DEF Rows, Ids
  <2> DEFINE id == db.specs[n].id
  <2> HIDE DEF id
  <2>b. q = [query[h] EXCEPT !.at = "next", !.id = id]
    BY <1>4 DEF id
  <2>3. q \in Asked /\ q.at = "next" /\ q.parts = << >> /\ q.id = db.specs[n].id
        /\ q.name = n /\ q.kind \in Kinds
    BY <1>1, <2>a, <2>b DEF Asked, id
  <2> HIDE DEF q, n
  <2>4. query' = [query EXCEPT ![h] = q] /\ query'[h] = q
    BY DEF ReadRow, QueryInv, Shapes, q, n
  <2>5. during' = [during EXCEPT ![h] = {DocOf(db, n)}] /\ during'[h] = {DocOf(db, n)}
    BY DEF ReadRow, QueryInv, Shapes, n
  <2>6. conn = NoHandler /\ UNCHANGED <<vars, session, conn>> /\ session
    BY <1>1 DEF ReadRow, QueryInv, HandlerInv
  <2>7. db' = db
    BY <2>6 DEF vars
  <2>8. Len(<< >>) < Len(Statements[q.kind])
    BY <2>3, StatementTables
  <2>9. \A i \in DOMAIN q.parts : FALSE
    BY <2>3
  <2>10. conn' # h /\ session' /\ Holds(db', q.id, q.name, during'[h])
    BY <2>2, <2>3, <2>5, <2>6, <2>7, NoHandlerAssumption
  <2>11. HandlerInv(h)'
    BY <2>3, <2>4, <2>8, <2>9, <2>10 DEF HandlerInv
  <2> QED
    BY <1>3, <2>3, <2>4, <2>5, <2>6, <2>11, OneHandler
<1>5. CASE ~Ready(db, n)
  <2>1. q \in Asked /\ q.at = "error"
    BY <1>1, <1>5 DEF Asked
  <2> HIDE DEF q, n
  <2>2. query' = [query EXCEPT ![h] = q] /\ query'[h] = q
    BY DEF ReadRow, QueryInv, Shapes, q, n
  <2>3. during' = [during EXCEPT ![h] = {DocOf(db, n)}]
    BY DEF ReadRow, n
  <2>4. conn = NoHandler /\ UNCHANGED <<vars, session, conn>> /\ session
    BY <1>1 DEF ReadRow, QueryInv, HandlerInv
  <2>5. HandlerInv(h)'
    BY <2>1, <2>2, <2>4, NoHandlerAssumption DEF HandlerInv
  <2> QED
    BY <1>3, <2>1, <2>2, <2>3, <2>4, <2>5, OneHandler
<1> QED
  BY <1>4, <1>5

LEMMA RunStatementInv ==
  ASSUME QueryInv, NEW h \in Handlers, RunStatement(h)
  PROVE  QueryInv'
<1> DEFINE i == Len(query[h].parts) + 1
           found == {db.cat[query[h].id][t] : t \in Statements[query[h].kind][i]}
           count == IsCount(query[h].kind, i)
           q == [query[h] EXCEPT !.parts = Append(query[h].parts, found),
                                 !.at = IF count THEN "next" ELSE "rows"]
<1>1. query[h] \in Asked /\ query[h].at = "next" /\ HandlerInv(h)
  BY DEF RunStatement, QueryInv, Shapes, Idle, Asked
<1>2. /\ query[h].kind \in Kinds /\ query[h].parts \in Seq(SUBSET DocOrNone)
      /\ Len(query[h].parts) < Len(Statements[query[h].kind])
      /\ i \in 1..Len(Statements[query[h].kind])
  BY <1>1, StatementTables DEF HandlerInv, Asked
<1>3. PICK c \in during[h] : \A t \in CatalogTables : db.cat[query[h].id][t] = c
  BY <1>1 DEF HandlerInv, Holds
<1>4. found = {c} /\ c \in DocOrNone
  <2>1. Statements[query[h].kind][i] # {} /\ Statements[query[h].kind][i] \subseteq CatalogTables
    BY <1>2, StatementTables
  <2>2. c \in DocOrNone
    BY <1>3 DEF QueryInv, Shapes
  <2> QED
    BY <1>3, <2>1, <2>2
<1> HIDE DEF found, count
<1>5. /\ q \in Asked /\ q.at = (IF count THEN "next" ELSE "rows")
      /\ q.parts = Append(query[h].parts, found)
      /\ q.kind = query[h].kind /\ q.id = query[h].id /\ q.name = query[h].name
  <2>1. Append(query[h].parts, found) \in Seq(SUBSET DocOrNone)
    BY <1>2, <1>4
  <2> QED
    BY <1>1, <2>1 DEF Asked
<1>6. count => Len(q.parts) < Len(Statements[q.kind])
  <2>1. count => query[h].kind # "tags" /\ i = 1
    BY DEF count, IsCount
  <2>2. count => Len(q.parts) = 1 /\ Len(Statements[q.kind]) >= 2
    BY <1>2, <1>5, <2>1, StatementTables
  <2> QED
    BY <1>2, <1>5, <2>2
<1>7. Len(q.parts) <= Len(Statements[q.kind])
  BY <1>2, <1>5
<1>8. \A j \in DOMAIN q.parts : \E d \in during[h] : q.parts[j] = {d}
  <2>1. \A j \in DOMAIN query[h].parts : \E d \in during[h] : query[h].parts[j] = {d}
    BY <1>1 DEF HandlerInv
  <2> QED
    BY <1>2, <1>3, <1>4, <1>5, <2>1
<1> HIDE DEF q, i
<1>9. query' = [query EXCEPT ![h] = q] /\ query'[h] = q
  BY DEF RunStatement, QueryInv, Shapes, q, i, found, count
<1>10. /\ during' = [during EXCEPT ![h] = during[h]] /\ during'[h] = during[h]
       /\ during[h] \in SUBSET DocOrNone
  BY DEF RunStatement, QueryInv, Shapes
<1>11. /\ conn = NoHandler /\ conn' = (IF count THEN NoHandler ELSE h)
       /\ UNCHANGED <<vars, session>> /\ session
  BY <1>1 DEF RunStatement, HandlerInv, count, i
<1>12. db' = db
  BY <1>11 DEF vars
<1>13. HandlerInv(h)'
  BY <1>1, <1>5, <1>6, <1>7, <1>8, <1>9, <1>10, <1>11, <1>12, NoHandlerAssumption DEF HandlerInv
<1> QED
  BY <1>5, <1>9, <1>10, <1>11, <1>13, OneHandler

\* A query that only moves on keeps what it holds.
LEMMA MovesOn ==
  ASSUME QueryInv, NEW h \in Handlers, query[h].at \in {"row", "next", "rows"},
         NEW at \in {"next", "answered", "error"},
         at = "next" => /\ query[h].at = "rows"
                        /\ Len(query[h].parts) # Len(Statements[query[h].kind]),
         at = "answered" => query[h].at # "row",
         query' = [query EXCEPT ![h].at = at],
         conn' = IF conn = h THEN NoHandler ELSE conn,
         UNCHANGED <<vars, session, during>>
  PROVE  QueryInv'
<1> DEFINE q == [query[h] EXCEPT !.at = at]
<1>1. query[h] \in Asked /\ HandlerInv(h)
  BY DEF QueryInv, Shapes, Idle
<1>2. /\ q \in Asked /\ q.at = at /\ q.parts = query[h].parts
      /\ q.kind = query[h].kind /\ q.id = query[h].id /\ q.name = query[h].name
  BY <1>1 DEF Asked
<1>3. Len(Statements[q.kind]) \in Nat /\ Len(q.parts) \in Nat
  <2>1. query[h].kind \in Kinds /\ query[h].parts \in Seq(SUBSET DocOrNone)
    BY <1>1 DEF Asked
  <2> QED
    BY <1>2, <2>1, StatementTables
<1> HIDE DEF q
<1>4. query' = [query EXCEPT ![h] = q] /\ query'[h] = q
  BY DEF QueryInv, Shapes, q
<1>5. during' = [during EXCEPT ![h] = during[h]] /\ during[h] \in SUBSET DocOrNone
  BY DEF QueryInv, Shapes
<1>6. db' = db
  BY DEF vars
<1>7. conn' # h
  BY NoHandlerAssumption
<1>8. at = "next" => Len(q.parts) < Len(Statements[q.kind])
  BY <1>1, <1>2, <1>3 DEF HandlerInv
<1>9. at = "next" => Holds(db', q.id, q.name, during'[h])
  BY <1>1, <1>2, <1>6 DEF HandlerInv
<1>10. at \in {"next", "answered"} =>
         \A i \in DOMAIN q.parts : \E c \in during'[h] : q.parts[i] = {c}
  BY <1>1, <1>2 DEF HandlerInv
<1>11. session'
  BY <1>1 DEF HandlerInv
<1>12. HandlerInv(h)'
  BY <1>2, <1>4, <1>7, <1>8, <1>9, <1>10, <1>11 DEF HandlerInv
<1>13. UNCHANGED <<vars, session>>
  OBVIOUS
<1> QED
  BY <1>2, <1>4, <1>5, <1>12, <1>13, OneHandler

LEMMA EndsInv ==
  ASSUME QueryInv, NEW h \in Handlers,
         CloseRows(h) \/ NoSchemas(h) \/ QueryFails(h)
  PROVE  QueryInv'
<1>1. query[h] \in {Idle} \cup Asked /\ (conn = h <=> query[h].at = "rows")
  BY DEF QueryInv, Shapes, HandlerInv
<1>2. CASE CloseRows(h)
  <2>1. query[h].at = "rows" /\ conn' = (IF conn = h THEN NoHandler ELSE conn)
    BY <1>1, <1>2 DEF CloseRows
  <2>2. CASE query' = [query EXCEPT ![h].at = "answered"]
    BY <1>2, <2>1, <2>2, MovesOn DEF CloseRows
  <2>3. CASE /\ query' = [query EXCEPT ![h].at = "next"]
             /\ Len(query[h].parts) # Len(Statements[query[h].kind])
    BY <1>2, <2>1, <2>3, MovesOn DEF CloseRows
  <2> QED
    BY <1>2, <2>2, <2>3 DEF CloseRows
<1>3. CASE NoSchemas(h)
  <2>1. query[h].at = "next" /\ conn' = (IF conn = h THEN NoHandler ELSE conn)
    BY <1>1, <1>3 DEF NoSchemas
  <2> QED
    BY <1>3, <2>1, MovesOn DEF NoSchemas
<1>4. CASE QueryFails(h)
  BY <1>4, MovesOn DEF QueryFails, Running
<1> QED
  BY <1>2, <1>3, <1>4

LEMMA ReplyInv ==
  ASSUME QueryInv, NEW h \in Handlers, Reply(h)
  PROVE  QueryInv'
<1>1. query'[h] = Idle /\ Idle.at = "idle"
  BY DEF Reply, QueryInv, Shapes, Idle
<1>2. conn # h
  BY DEF Reply, QueryInv, HandlerInv
<1>3. HandlerInv(h)'
  BY <1>1, <1>2 DEF HandlerInv, Reply
<1>4. Idle \in {Idle} \cup Asked /\ {} \in SUBSET DocOrNone
  OBVIOUS
<1> QED
  BY <1>3, <1>4, OneHandler DEF Reply

LEMMA QueryStepInv == IInv /\ QueryInv /\ [QueryNext]_allVars => QueryInv'
<1> SUFFICES ASSUME IInv, QueryInv, [QueryNext]_allVars PROVE QueryInv'
  OBVIOUS
<1>1. CASE OpenReadOnly
  <2>1. UNCHANGED <<vars, conn, query, during>> /\ session' = TRUE /\ db' = db
        /\ db.version = SchemaVersion
    BY <1>1 DEF OpenReadOnly, vars
  <2>2. \A h \in Handlers : HandlerInv(h)'
    BY <2>1 DEF QueryInv, HandlerInv
  <2> QED
    BY <2>1, <2>2 DEF QueryInv, Shapes
<1>2. CASE UNCHANGED allVars
  BY <1>2 DEF allVars, queryVars, vars, QueryInv, Shapes, HandlerInv
<1>3. ASSUME NEW h \in Handlers, ContinueQuery(h) \/ QueryFails(h) PROVE QueryInv'
  BY <1>3, ReadRowInv, RunStatementInv, EndsInv, ReplyInv DEF ContinueQuery
<1> QED
  BY <1>1, <1>2, <1>3, WriterInv, StartQueryInv DEF QueryNext

LEMMA QueryStartInv == QueryInit => QueryInv
<1> SUFFICES ASSUME QueryInit PROVE QueryInv
  OBVIOUS
<1>1. \A h \in Handlers : query[h].at = "idle" /\ conn # h
  BY NoHandlerAssumption DEF QueryInit, Idle
<1> QED
  BY <1>1 DEF QueryInit, QueryInv, Shapes, HandlerInv

LEMMA QueryInvariance == QuerySpec => [](IInv /\ QueryInv)
<1>1. QueryInit => IInv /\ QueryInv
  BY QueryStartInv, StartInv DEF QueryInit
<1>2. IInv /\ QueryInv /\ [QueryNext]_allVars => (IInv /\ QueryInv)'
  BY QuerySteps, StepInv, QueryStepInv
<1> QED
  BY <1>1, <1>2, PTL DEF QuerySpec

-----------------------------------------------------------------------------
(* Theorems *)

\* The connection is kept by exactly the handler that is reading rows, so it is
\* free again after every end of a query, failures included.
THEOREM QueryTypeCorrect == QuerySpec => []QueryTypeOK
<1>1. QueryInv => QueryTypeOK
  BY DEF QueryInv, Shapes, HandlerInv, Holds, QueryTypeOK
<1> QED
  BY <1>1, QueryInvariance, PTL

\* Every statement of an answer found the whole catalog of one document that its
\* spec had, or had lost, while the query ran.
THEOREM AnswerTheorem == QuerySpec => []AnswerIsOfItsSpec
<1>1. QueryInv => AnswerIsOfItsSpec
  BY DEF QueryInv, HandlerInv, AnswerIsOfItsSpec
<1> QED
  BY <1>1, QueryInvariance, PTL
=============================================================================
