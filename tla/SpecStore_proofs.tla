--------------------------- MODULE SpecStore_proofs ---------------------------
(***************************************************************************)
(* Proofs about SpecStore, for every set of processes, names, sources and  *)
(* documents.  DbInv says what a committed file is like; PlaceInv says     *)
(* what the uncommitted copy is at each place of a program, as a function  *)
(* of the committed file, which cannot change while the lock is held.      *)
(***************************************************************************)
EXTENDS SpecStore, TLAPS

DistinctRows(d) ==
  \A m, n \in Names :
    /\ d.specs[m] # NoSpec
    /\ d.specs[n] # NoSpec
    /\ d.specs[m].id = d.specs[n].id \/ d.specs[m].source = d.specs[n].source
    => m = n

SoundRows(d) ==
  \A n \in Names : d.specs[n] # NoSpec => /\ d.specs[n].id < d.nextId
                                          /\ d.specs[n].sha = d.specs[n].doc

NoOrphans(d) ==
  \A i \in Ids : d.cat[i] # EmptyCatalog =>
    \E n \in Names : d.specs[n] # NoSpec /\ d.specs[n].id = i

CatalogsMatch(d) ==
  \A n \in Names : Ready(d, n) =>
    \A t \in CatalogTables : d.cat[d.specs[n].id][t] = d.specs[n].doc

\* What every committed file satisfies.
DbInv(d) ==
  /\ d \in Databases
  /\ DistinctRows(d)
  /\ SoundRows(d)
  /\ NoOrphans(d)
  /\ CatalogsMatch(d)
  /\ d.version = 0 => d.specs = NoRows

\* The request may be stored: its name is free or its own, and an id is left.
Storable(d, r) ==
  /\ d.specs[r.name] # NoSpec => d.specs[r.name].source = r.source
  /\ RowIdFor(d, r.name) \in Ids

PutResult(d, r) == WriteCatalog(ReplaceRow(d, r, r.doc), RowIdFor(d, r.name), r.doc)

\* What migrating d to w did: every document stays, and a spec that was read as
\* it is, and parses, is answerable.
Migrated(d, w, read) ==
  /\ DbInv(w)
  /\ w.version = SchemaVersion
  /\ w.nextId = d.nextId
  /\ \A n \in Names :
       /\ w.specs[n] = NoSpec <=> d.specs[n] = NoSpec
       /\ d.specs[n] # NoSpec => /\ w.specs[n].id = d.specs[n].id
                                 /\ w.specs[n].source = d.specs[n].source
                                 /\ w.specs[n].doc = d.specs[n].doc
       /\ \/ d.specs[n] = NoSpec
          \/ d.specs[n].doc \in Unparseable
          \/ read[n] # d.specs[n]
          \/ Ready(w, n)

\* The rows upgradeV1 read: distinct ids, each document under its own hash.
SoundRead(read) ==
  /\ \A n \in Names : read[n] # NoSpec => read[n].sha = read[n].doc
  /\ \A m, n \in Names : /\ read[m] # NoSpec
                         /\ read[n] # NoSpec
                         /\ read[m].id = read[n].id
                         => m = n

PlaceInv(p) ==
  /\ pc[p] \in {"create", "create_stamp", "create_commit"} => db.version \in {0, 2}
  /\ pc[p] = "create_stamp" => lock = p \/ db.version = 2
  /\ pc[p] = "create_stamp" /\ lock = p => wal = db
  /\ pc[p] = "create_commit" => wal = [db EXCEPT !.version = 2]
  /\ pc[p] \in {"upgrade_read", "upgrade_alter"} => db.version \in {1, 2}
  /\ pc[p] = "upgrade_fill" => db.version = 1 /\ wal = Altered(db)
  /\ pc[p] = "upgrade_commit" => db.version = 1 /\ Migrated(db, wal, seen[p])
  /\ pc[p] \in {"idle"} \cup PutPCs \cup DeletePCs => db.version = 2
  /\ pc[p] \in PutPCs \cup DeletePCs => req[p] \in Requests
  /\ pc[p] = "put_row" /\ snap[p] = "fresh" => Storable(db, req[p])
  /\ pc[p] \in {"put_catalog", "put_commit"} => Storable(db, req[p])
  /\ pc[p] = "put_catalog" => wal = ReplaceRow(db, req[p], req[p].doc)
  /\ pc[p] = "put_commit" => wal = PutResult(db, req[p])
  /\ pc[p] = "delete_rows" /\ snap[p] = "fresh" => db.specs[req[p].name] # NoSpec
  /\ pc[p] = "delete_commit" => /\ db.specs[req[p].name] # NoSpec
                                /\ wal = DeleteSpecs(db, {req[p].name})
  /\ SoundRead(seen[p])

LockInv ==
  /\ \A p \in Procs : pc[p] \in LockedPCs => lock = p
  /\ \A p \in Procs : lock = p => pc[p] \in LockedPCs \cup {"create_stamp"}
  /\ lock = NoProc => wal = db

IInv ==
  /\ TypeOK
  /\ DbInv(db)
  /\ LockInv
  /\ \A p \in Procs : PlaceInv(p)

-----------------------------------------------------------------------------
(* The tables *)

\* Deleting specs leaves the other rows and the sequence alone.
LEMMA DeleteSpecsFields ==
  ASSUME NEW d \in Databases, NEW S
  PROVE  LET e == DeleteSpecs(d, S) IN
         /\ e \in Databases
         /\ e.version = d.version
         /\ e.nextId = d.nextId
         /\ \A n \in Names : e.specs[n] = IF n \in S THEN NoSpec ELSE d.specs[n]
         /\ \A i \in Ids : e.cat[i] = IF i \in IdsOf(d, S) THEN EmptyCatalog ELSE d.cat[i]
<1>1. EmptyCatalog \in Catalogs
  BY DEF EmptyCatalog, Catalogs, DocOrNone
<1> QED
  BY <1>1 DEF DeleteSpecs, Databases

\* The cascade leaves no orphan and touches no other spec's catalog.
LEMMA DeleteSpecsInv ==
  ASSUME NEW d, DbInv(d), NEW S
  PROVE  DbInv(DeleteSpecs(d, S))
<1> DEFINE e == DeleteSpecs(d, S)
<1>0. d \in Databases
  BY DEF DbInv
<1>1. /\ e \in Databases
      /\ e.version = d.version
      /\ e.nextId = d.nextId
      /\ \A n \in Names : e.specs[n] = IF n \in S THEN NoSpec ELSE d.specs[n]
      /\ \A i \in Ids : e.cat[i] = IF i \in IdsOf(d, S) THEN EmptyCatalog ELSE d.cat[i]
  BY <1>0, DeleteSpecsFields
<1> HIDE DEF e
<1>2. DistinctRows(e)
  BY <1>1 DEF DbInv, DistinctRows
<1>3. SoundRows(e)
  BY <1>1 DEF DbInv, SoundRows
<1>4. NoOrphans(e)
  <2> SUFFICES ASSUME NEW i \in Ids, e.cat[i] # EmptyCatalog
               PROVE  \E n \in Names : e.specs[n] # NoSpec /\ e.specs[n].id = i
    BY DEF NoOrphans
  <2>1. i \notin IdsOf(d, S) /\ d.cat[i] # EmptyCatalog
    BY <1>1
  <2>2. PICK n \in Names : d.specs[n] # NoSpec /\ d.specs[n].id = i
    BY <2>1 DEF DbInv, NoOrphans
  <2>3. n \notin S
    BY <2>1, <2>2 DEF IdsOf, Indexed
  <2> QED
    BY <1>1, <2>2, <2>3
<1>5. CatalogsMatch(e)
  <2> SUFFICES ASSUME NEW n \in Names, Ready(e, n), NEW t \in CatalogTables
               PROVE  e.cat[e.specs[n].id][t] = e.specs[n].doc
    BY DEF CatalogsMatch
  <2>1. n \notin S /\ e.specs[n] = d.specs[n] /\ Ready(d, n)
    BY <1>1 DEF Ready
  <2>2. d.specs[n].id \in Ids
    BY <1>0, <2>1 DEF Databases, Rows, Ready
  <2>3. d.specs[n].id \notin IdsOf(d, S)
    <3> SUFFICES ASSUME NEW m \in S \cap Indexed(d), d.specs[m].id = d.specs[n].id
                 PROVE  FALSE
      BY DEF IdsOf
    <3> QED
      BY <2>1 DEF Indexed, DbInv, DistinctRows, Ready
  <2> QED
    BY <1>1, <2>1, <2>2, <2>3 DEF DbInv, CatalogsMatch
<1>6. e.version = 0 => e.specs = NoRows
  BY <1>1 DEF DbInv, NoRows, Databases
<1> QED
  BY <1>1, <1>2, <1>3, <1>4, <1>5, <1>6 DEF DbInv, e

\* The row is inserted or updated; the others and the catalog stay.
LEMMA UpsertFields ==
  ASSUME NEW d \in Databases, NEW r \in Requests, RowIdFor(d, r.name) \in Ids,
         NEW f \in DocOrNone
  PROVE  LET e == UpsertSpec(d, r, f) IN
         /\ e \in Databases
         /\ e.version = d.version
         /\ e.cat = d.cat
         /\ e.nextId = IF d.specs[r.name] = NoSpec THEN d.nextId + 1 ELSE d.nextId
         /\ \A n \in Names : n # r.name => e.specs[n] = d.specs[n]
         /\ e.specs[r.name] = [id |-> RowIdFor(d, r.name), source |-> r.source,
                               doc |-> r.doc, sha |-> r.doc, csha |-> f]
<1> DEFINE row == [id |-> RowIdFor(d, r.name), source |-> r.source,
                   doc |-> r.doc, sha |-> r.doc, csha |-> f]
           next == IF d.specs[r.name] = NoSpec THEN d.nextId + 1 ELSE d.nextId
<1>1. row \in Rows
  BY DEF Rows, Requests
<1>2. next \in 1..(MaxId + 1)
  BY MaxIdAssumption DEF RowIdFor, Ids, Databases
<1>3. r.name \in Names
  BY DEF Requests
<1> DEFINE rows == [d.specs EXCEPT ![r.name] = row]
<1>4. UpsertSpec(d, r, f) = [d EXCEPT !.specs = rows, !.nextId = next]
  BY DEF UpsertSpec
<1>5. d.specs \in [Names -> Rows \cup {NoSpec}]
  BY DEF Databases
<1>6. rows \in [Names -> Rows \cup {NoSpec}]
  BY <1>1, <1>3, <1>5
<1>7. /\ rows[r.name] = row
      /\ \A n \in Names : n # r.name => rows[n] = d.specs[n]
  BY <1>3, <1>5
<1> HIDE DEF row, rows, next
<1>8. UpsertSpec(d, r, f) \in Databases
  BY <1>2, <1>4, <1>6 DEF Databases
<1>9. /\ UpsertSpec(d, r, f).version = d.version
      /\ UpsertSpec(d, r, f).cat = d.cat
      /\ UpsertSpec(d, r, f).specs = rows
      /\ UpsertSpec(d, r, f).nextId = next
  BY <1>4 DEF Databases
<1> QED
  BY <1>7, <1>8, <1>9 DEF row, next

\* Storing a request in a file, whatever fingerprint the row gets, keeps rows
\* distinct and leaves no orphan, and every other spec as it was.
LEMMA ReplaceRowInv ==
  ASSUME NEW d, DbInv(d), NEW r \in Requests, Storable(d, r),
         NEW f \in DocOrNone
  PROVE  LET c == DeleteSpecs(d, OtherNames(d, r.name, r.source))
             e == ReplaceRow(d, r, f) IN
         /\ e \in Databases
         /\ DistinctRows(e) /\ SoundRows(e) /\ NoOrphans(e)
         /\ e.version = d.version
         /\ e.cat = c.cat
         /\ \A n \in Names : n # r.name =>
              e.specs[n] = IF d.specs[n] # NoSpec /\ d.specs[n].source = r.source
                           THEN NoSpec ELSE d.specs[n]
         /\ e.specs[r.name] = [id |-> RowIdFor(d, r.name), source |-> r.source,
                               doc |-> r.doc, sha |-> r.doc, csha |-> f]
         /\ d.nextId <= e.nextId
         /\ CatalogsMatch(c)
         /\ d.specs[r.name] # NoSpec => d.specs[r.name] = c.specs[r.name]
         /\ RowIdFor(d, r.name) \in Ids
         /\ \A n \in Names : n # r.name => e.specs[n] = c.specs[n]
<1> DEFINE S == OtherNames(d, r.name, r.source)
           c == DeleteSpecs(d, S)
           e == ReplaceRow(d, r, f)
           id == RowIdFor(d, r.name)
<1>1. d \in Databases /\ r.name \in Names
  BY DEF DbInv, Requests
<1>2. DbInv(c)
  BY DeleteSpecsInv
<1>3. /\ c \in Databases
      /\ c.version = d.version
      /\ c.nextId = d.nextId
      /\ \A n \in Names : c.specs[n] = IF n \in S THEN NoSpec ELSE d.specs[n]
  BY <1>1, DeleteSpecsFields
<1>4. \A n \in Names : n \in S <=> /\ n # r.name
                                  /\ d.specs[n] # NoSpec
                                  /\ d.specs[n].source = r.source
  BY DEF OtherNames, Indexed
<1> HIDE DEF S, c
<1>5. RowIdFor(c, r.name) = id /\ id \in Ids
  BY <1>1, <1>3, <1>4 DEF RowIdFor, Storable
<1>6. /\ e \in Databases
      /\ e.version = c.version
      /\ e.cat = c.cat
      /\ e.nextId = IF c.specs[r.name] = NoSpec THEN c.nextId + 1 ELSE c.nextId
      /\ \A n \in Names : n # r.name => e.specs[n] = c.specs[n]
      /\ e.specs[r.name] = [id |-> id, source |-> r.source,
                            doc |-> r.doc, sha |-> r.doc, csha |-> f]
  BY <1>3, <1>5, UpsertFields DEF ReplaceRow, S, c
<1> HIDE DEF e
<1>7. e.specs[r.name] # NoSpec /\ e.specs[r.name].id = id /\ e.specs[r.name].source = r.source
  <2>1. e.specs[r.name] \in Rows
    BY <1>5, <1>6 DEF Rows, Requests
  <2> QED
    BY <2>1, <1>6, NoSpecAssumption
<1>8. c.nextId \in Nat /\ e.nextId \in Nat /\ c.nextId <= e.nextId
  BY <1>3, <1>6 DEF Databases
<1>9. \A n \in Names : n # r.name /\ c.specs[n] # NoSpec =>
        c.specs[n].id # id /\ c.specs[n].source # r.source
  <2> SUFFICES ASSUME NEW n \in Names, n # r.name, c.specs[n] # NoSpec
               PROVE  c.specs[n].id # id /\ c.specs[n].source # r.source
    OBVIOUS
  <2>1. c.specs[n].source # r.source
    BY <1>3, <1>4
  <2>2. CASE c.specs[r.name] = NoSpec
    <3>1. id = c.nextId
      BY <2>2, <1>5 DEF RowIdFor
    <3>2. c.specs[n].id < c.nextId
      BY <1>2 DEF DbInv, SoundRows
    <3>3. c.specs[n].id \in Nat
      BY <1>3 DEF Databases, Rows, Ids
    <3> QED
      BY <2>1, <3>1, <3>2, <3>3, <1>8
  <2>3. CASE c.specs[r.name] # NoSpec
    BY <2>1, <2>3, <1>1, <1>2, <1>5 DEF RowIdFor, DbInv, DistinctRows
  <2> QED
    BY <2>2, <2>3
<1>10. DistinctRows(e)
  BY <1>6, <1>7, <1>9, <1>2 DEF DbInv, DistinctRows
<1>11. SoundRows(e)
  <2> SUFFICES ASSUME NEW n \in Names, e.specs[n] # NoSpec
               PROVE  e.specs[n].id < e.nextId /\ e.specs[n].sha = e.specs[n].doc
    BY DEF SoundRows
  <2>1. CASE n = r.name
    <3>1. id < e.nextId
      <4>1. CASE c.specs[r.name] = NoSpec
        BY <4>1, <1>5, <1>6, <1>8 DEF RowIdFor
      <4>2. CASE c.specs[r.name] # NoSpec
        BY <4>2, <1>1, <1>2, <1>5, <1>6 DEF RowIdFor, DbInv, SoundRows
      <4> QED
        BY <4>1, <4>2
    <3> QED
      BY <2>1, <3>1, <1>6
  <2>2. CASE n # r.name
    <3>1. c.specs[n].id < c.nextId /\ c.specs[n].sha = c.specs[n].doc
      BY <2>2, <1>2, <1>6 DEF DbInv, SoundRows
    <3>2. c.specs[n].id \in Nat
      BY <2>2, <1>3, <1>6 DEF Databases, Rows, Ids
    <3> QED
      BY <2>2, <3>1, <3>2, <1>6, <1>8
  <2> QED
    BY <2>1, <2>2
<1>12. NoOrphans(e)
  <2> SUFFICES ASSUME NEW i \in Ids, e.cat[i] # EmptyCatalog
               PROVE  \E n \in Names : e.specs[n] # NoSpec /\ e.specs[n].id = i
    BY DEF NoOrphans
  <2>1. PICK n \in Names : c.specs[n] # NoSpec /\ c.specs[n].id = i
    BY <1>2, <1>6 DEF DbInv, NoOrphans
  <2>2. CASE n = r.name
    BY <2>1, <2>2, <1>5, <1>7 DEF RowIdFor
  <2>3. CASE n # r.name
    BY <2>1, <2>3, <1>6
  <2> QED
    BY <2>2, <2>3
<1>13. \A n \in Names : n # r.name =>
         e.specs[n] = IF d.specs[n] # NoSpec /\ d.specs[n].source = r.source
                      THEN NoSpec ELSE d.specs[n]
  BY <1>3, <1>4, <1>6
<1>14. e.version = d.version /\ d.nextId <= e.nextId
  BY <1>3, <1>6, <1>8
<1>15. d.specs[r.name] # NoSpec => d.specs[r.name] = c.specs[r.name]
  BY <1>1, <1>3, <1>4
<1>16. CatalogsMatch(c)
  BY <1>2 DEF DbInv
<1> QED
  BY <1>5, <1>6, <1>10, <1>11, <1>12, <1>13, <1>14, <1>15, <1>16 DEF c, e, S

\* Filling one spec's catalog from one document.
LEMMA WriteCatalogFields ==
  ASSUME NEW d \in Databases, NEW id \in Ids, NEW doc \in Docs
  PROVE  LET e == WriteCatalog(d, id, doc) IN
         /\ e \in Databases
         /\ e.version = d.version
         /\ e.nextId = d.nextId
         /\ e.specs = d.specs
         /\ \A t \in CatalogTables : e.cat[id][t] = doc
         /\ \A i \in Ids : i # id => e.cat[i] = d.cat[i]
<1> DEFINE filled == [t \in CatalogTables |-> doc]
           cat == [d.cat EXCEPT ![id] = filled]
<1>1. filled \in Catalogs
  BY DEF Catalogs, DocOrNone
<1>2. d.cat \in [Ids -> Catalogs]
  BY DEF Databases
<1>3. /\ cat \in [Ids -> Catalogs]
      /\ cat[id] = filled
      /\ \A i \in Ids : i # id => cat[i] = d.cat[i]
  BY <1>1, <1>2
<1>4. WriteCatalog(d, id, doc) = [d EXCEPT !.cat = cat]
  BY DEF WriteCatalog
<1>5. \A t \in CatalogTables : filled[t] = doc
  OBVIOUS
<1> HIDE DEF filled, cat
<1> QED
  BY <1>3, <1>4, <1>5 DEF Databases

\* Put leaves a sound file: the catalog of the stored spec is its document's.
LEMMA PutInv ==
  ASSUME NEW d, DbInv(d), d.version = SchemaVersion, NEW r \in Requests, Storable(d, r)
  PROVE  /\ DbInv(PutResult(d, r))
         /\ PutResult(d, r).version = SchemaVersion
         /\ ReplaceRow(d, r, r.doc) \in Databases
         /\ ReplaceRow(d, r, r.doc).specs[r.name].id = RowIdFor(d, r.name)
<1> DEFINE c == DeleteSpecs(d, OtherNames(d, r.name, r.source))
           e == ReplaceRow(d, r, r.doc)
           id == RowIdFor(d, r.name)
           f == PutResult(d, r)
<1>0. r.doc \in Docs /\ r.name \in Names
  BY DEF Requests
<1>d. r.doc \in DocOrNone
  BY <1>0 DEF DocOrNone
<1>1. /\ e \in Databases
      /\ DistinctRows(e) /\ SoundRows(e) /\ NoOrphans(e)
      /\ e.version = d.version
      /\ e.cat = c.cat
      /\ e.specs[r.name] = [id |-> id, source |-> r.source,
                            doc |-> r.doc, sha |-> r.doc, csha |-> r.doc]
      /\ CatalogsMatch(c)
      /\ id \in Ids
      /\ \A n \in Names : n # r.name => e.specs[n] = c.specs[n]
  BY <1>d, ReplaceRowInv
<1>c. c.version = d.version
  BY DeleteSpecsFields DEF DbInv
<1> HIDE DEF c, e, id
<1>2. e.specs[r.name] # NoSpec /\ e.specs[r.name].id = id /\ e.specs[r.name].doc = r.doc
  <2>1. e.specs[r.name] \in Rows
    BY <1>0, <1>1, <1>d DEF Rows, Requests
  <2> QED
    BY <2>1, <1>1, NoSpecAssumption
<1>3. /\ f \in Databases
      /\ f.version = e.version
      /\ f.nextId = e.nextId
      /\ f.specs = e.specs
      /\ \A t \in CatalogTables : f.cat[id][t] = r.doc
      /\ \A i \in Ids : i # id => f.cat[i] = e.cat[i]
  BY <1>0, <1>1, WriteCatalogFields DEF PutResult, e, id
<1> HIDE DEF f
<1>4. DistinctRows(f) /\ SoundRows(f)
  BY <1>1, <1>3 DEF DistinctRows, SoundRows
<1>5. NoOrphans(f)
  BY <1>0, <1>1, <1>2, <1>3 DEF NoOrphans
<1>6. CatalogsMatch(f)
  <2> SUFFICES ASSUME NEW n \in Names, Ready(f, n), NEW t \in CatalogTables
               PROVE  f.cat[f.specs[n].id][t] = f.specs[n].doc
    BY DEF CatalogsMatch
  <2>1. CASE n = r.name
    BY <2>1, <1>2, <1>3
  <2>2. CASE n # r.name
    <3>1. Ready(c, n) /\ f.specs[n] = c.specs[n]
      BY <2>2, <1>1, <1>3, <1>c DEF Ready
    <3>2. f.specs[n].id # id /\ f.specs[n].id \in Ids
      BY <2>2, <1>0, <1>1, <1>2, <1>3 DEF DistinctRows, Ready, Databases, Rows
    <3> QED
      BY <3>1, <3>2, <1>1, <1>3 DEF CatalogsMatch
  <2> QED
    BY <2>1, <2>2
<1> QED
  BY <1>1, <1>2, <1>3, <1>4, <1>5, <1>6 DEF DbInv, SchemaVersion, f, e, id

\* It gives its row's id the whole new catalog, empties that of the source's
\* former name and leaves the others alone.
LEMMA PutCatalogs ==
  ASSUME NEW d, DbInv(d), d.version = SchemaVersion, NEW r \in Requests, Storable(d, r)
  PROVE  LET e == PutResult(d, r) IN
         /\ \A t \in CatalogTables : e.cat[RowIdFor(d, r.name)][t] = r.doc
         /\ \A i \in Ids : i # RowIdFor(d, r.name) =>
              e.cat[i] = IF i \in IdsOf(d, OtherNames(d, r.name, r.source))
                         THEN EmptyCatalog ELSE d.cat[i]
         /\ d.nextId <= e.nextId
<1> DEFINE c == DeleteSpecs(d, OtherNames(d, r.name, r.source))
           e == ReplaceRow(d, r, r.doc)
           id == RowIdFor(d, r.name)
           f == PutResult(d, r)
<1>0. r.doc \in Docs /\ r.name \in Names /\ d \in Databases
  BY DEF Requests, DbInv
<1>d. r.doc \in DocOrNone
  BY <1>0 DEF DocOrNone
<1>1. /\ e \in Databases
      /\ e.cat = c.cat
      /\ e.specs[r.name] = [id |-> id, source |-> r.source,
                            doc |-> r.doc, sha |-> r.doc, csha |-> r.doc]
      /\ id \in Ids
  BY <1>d, ReplaceRowInv
<1>2. d.nextId <= e.nextId
  BY <1>d, ReplaceRowInv, Zenon
<1>3. \A i \in Ids : c.cat[i] = IF i \in IdsOf(d, OtherNames(d, r.name, r.source))
                                THEN EmptyCatalog ELSE d.cat[i]
  BY <1>0, DeleteSpecsFields
<1> HIDE DEF c, e, id
<1>4. /\ f.nextId = e.nextId
      /\ \A t \in CatalogTables : f.cat[id][t] = r.doc
      /\ \A i \in Ids : i # id => f.cat[i] = e.cat[i]
  BY <1>0, <1>1, WriteCatalogFields DEF PutResult, e, id
<1> HIDE DEF f
<1> QED
  BY <1>1, <1>2, <1>3, <1>4 DEF f, id

\* So does the older build's Put, as long as the file has the older layout.
LEMMA OldPutInv ==
  ASSUME NEW d, DbInv(d), NEW r \in Requests, Storable(d, r), d.version = 1
  PROVE  DbInv(ReplaceRow(d, r, NoDoc)) /\ ReplaceRow(d, r, NoDoc).version = 1
<1> DEFINE c == DeleteSpecs(d, OtherNames(d, r.name, r.source))
           e == ReplaceRow(d, r, NoDoc)
<1>0. NoDoc \in DocOrNone
  BY DEF DocOrNone
<1>1. e \in Databases
  BY <1>0, ReplaceRowInv, Zenon
<1>2. DistinctRows(e) /\ SoundRows(e) /\ NoOrphans(e)
  BY <1>0, ReplaceRowInv, Zenon
<1>3. e.version = 1
  <2>1. c \in Databases /\ c.version = 1
    BY DeleteSpecsFields DEF DbInv
  <2> HIDE DEF c
  <2> QED
    BY <2>1 DEF ReplaceRow, UpsertSpec, Databases, c
<1> HIDE DEF e
<1>4. CatalogsMatch(e)
  BY <1>3 DEF CatalogsMatch, Ready, SchemaVersion
<1> QED
  BY <1>1, <1>2, <1>3, <1>4 DEF DbInv, e

\* The copy after ALTER TABLE: the same documents, no fingerprint, no catalog.
LEMMA AlteredFields ==
  ASSUME NEW d \in Databases
  PROVE  LET w == Altered(d) IN
         /\ w \in Databases
         /\ w.version = d.version
         /\ w.nextId = d.nextId
         /\ \A n \in Names : d.specs[n] = NoSpec => w.specs[n] = NoSpec
         /\ \A n \in Names : d.specs[n] # NoSpec =>
              w.specs[n] = [d.specs[n] EXCEPT !.csha = NoDoc] /\ w.specs[n] \in Rows
         /\ \A i \in Ids : w.cat[i] = EmptyCatalog
<1> DEFINE rows == [n \in Names |-> IF d.specs[n] = NoSpec THEN NoSpec
                                    ELSE [d.specs[n] EXCEPT !.csha = NoDoc]]
           cats == [i \in Ids |-> EmptyCatalog]
<1>1. \A n \in Names : d.specs[n] # NoSpec => [d.specs[n] EXCEPT !.csha = NoDoc] \in Rows
  <2>1. NoDoc \in DocOrNone
    BY DEF DocOrNone
  <2> QED
    BY <2>1 DEF Databases, Rows
<1>2. rows \in [Names -> Rows \cup {NoSpec}]
  BY <1>1
<1>3. cats \in [Ids -> Catalogs]
  BY DEF EmptyCatalog, Catalogs, DocOrNone
<1>4. Altered(d) = [d EXCEPT !.specs = rows, !.cat = cats]
  BY DEF Altered
<1>5. \A n \in Names : rows[n] = IF d.specs[n] = NoSpec THEN NoSpec
                                 ELSE [d.specs[n] EXCEPT !.csha = NoDoc]
  OBVIOUS
<1>6. \A i \in Ids : cats[i] = EmptyCatalog
  OBVIOUS
<1> HIDE DEF rows, cats
<1>7. Altered(d) \in Databases
  BY <1>2, <1>3, <1>4 DEF Databases
<1>8. /\ Altered(d).version = d.version
      /\ Altered(d).nextId = d.nextId
      /\ Altered(d).specs = rows
      /\ Altered(d).cat = cats
  BY <1>4 DEF Databases
<1> QED
  BY <1>1, <1>5, <1>6, <1>7, <1>8

\* The migration: documents stay, catalogs are derived from the document that
\* was read, and the fingerprint says of which one.
LEMMA RebuiltInv ==
  ASSUME NEW d, DbInv(d), d.version = 1,
         NEW read \in [Names -> Rows \cup {NoSpec}], SoundRead(read),
         UpgradeRowsExist(Altered(d), read)
  PROVE  Migrated(d, Rebuilt(Altered(d), read), read)
<1> DEFINE w == Altered(d)
           e == Rebuilt(w, read)
           R(i) == Rebuildable(read, i)
           pick(i) == CHOOSE n \in R(i) : TRUE
<1>0. d \in Databases
  BY DEF DbInv
<1>1. /\ w \in Databases
      /\ w.nextId = d.nextId
      /\ \A n \in Names : d.specs[n] = NoSpec => w.specs[n] = NoSpec
      /\ \A n \in Names : d.specs[n] # NoSpec =>
           w.specs[n] = [d.specs[n] EXCEPT !.csha = NoDoc] /\ w.specs[n] \in Rows
      /\ \A i \in Ids : w.cat[i] = EmptyCatalog
  BY <1>0, AlteredFields
<1> HIDE DEF w
<1>2. \A i : R(i) # {} => /\ pick(i) \in Names
                          /\ read[pick(i)] \in Rows
                          /\ read[pick(i)].id = i
                          /\ read[pick(i)].sha = read[pick(i)].doc
  <2> SUFFICES ASSUME NEW i, R(i) # {}
               PROVE  /\ pick(i) \in Names
                      /\ read[pick(i)] \in Rows
                      /\ read[pick(i)].id = i
                      /\ read[pick(i)].sha = read[pick(i)].doc
    OBVIOUS
  <2>1. pick(i) \in R(i)
    OBVIOUS
  <2> HIDE DEF pick
  <2> QED
    BY <2>1 DEF Rebuildable, SoundRead
<1> DEFINE cats == [i \in Ids |-> IF R(i) = {} THEN w.cat[i]
                                  ELSE [t \in CatalogTables |-> read[pick(i)].doc]]
           rows == [n \in Names |->
                      IF w.specs[n] = NoSpec \/ R(w.specs[n].id) = {} THEN w.specs[n]
                      ELSE [w.specs[n] EXCEPT !.csha = read[pick(w.specs[n].id)].sha]]
<1>3. e = [w EXCEPT !.version = SchemaVersion, !.cat = cats, !.specs = rows]
  BY DEF Rebuilt
<1> HIDE DEF R, pick
<1>4. \A i \in Ids : cats[i] = IF R(i) = {} THEN EmptyCatalog
                              ELSE [t \in CatalogTables |-> read[pick(i)].doc]
  BY <1>1
<1>5. \A n \in Names : /\ d.specs[n] = NoSpec => rows[n] = NoSpec
                       /\ d.specs[n] # NoSpec /\ R(d.specs[n].id) = {} =>
                            rows[n] = [d.specs[n] EXCEPT !.csha = NoDoc]
                       /\ d.specs[n] # NoSpec /\ R(d.specs[n].id) # {} =>
                            rows[n] = [d.specs[n] EXCEPT !.csha = read[pick(d.specs[n].id)].sha]
  <2>1. NoSpec \notin Rows
    BY NoSpecAssumption
  <2>2. ASSUME NEW n \in Names, d.specs[n] # NoSpec
        PROVE  /\ w.specs[n] # NoSpec
               /\ w.specs[n].id = d.specs[n].id
               /\ w.specs[n] = [d.specs[n] EXCEPT !.csha = NoDoc]
               /\ \A f : [w.specs[n] EXCEPT !.csha = f] = [d.specs[n] EXCEPT !.csha = f]
    <3>1. d.specs[n] \in Rows
      BY <1>0, <2>2 DEF Databases
    <3>2. w.specs[n] = [d.specs[n] EXCEPT !.csha = NoDoc] /\ w.specs[n] \in Rows
      BY <1>1, <2>2
    <3>3. w.specs[n].id = d.specs[n].id
      BY <3>1, <3>2 DEF Rows
    <3>4. \A f : [w.specs[n] EXCEPT !.csha = f] = [d.specs[n] EXCEPT !.csha = f]
      BY <3>1, <3>2 DEF Rows
    <3> QED
      BY <2>1, <3>2, <3>3, <3>4
  <2> QED
    BY <1>1, <2>2
<1>6. \A n \in Names : rows[n] \in Rows \cup {NoSpec}
  <2> SUFFICES ASSUME NEW n \in Names, d.specs[n] # NoSpec
               PROVE  rows[n] \in Rows
    BY <1>5
  <2>1. d.specs[n] \in Rows
    BY <1>0 DEF Databases
  <2>2. \A f \in DocOrNone : [d.specs[n] EXCEPT !.csha = f] \in Rows
    BY <2>1 DEF Rows
  <2>3. CASE R(d.specs[n].id) = {}
    <3>1. NoDoc \in DocOrNone
      BY DEF DocOrNone
    <3> QED
      BY <2>2, <2>3, <3>1, <1>5
  <2>4. CASE R(d.specs[n].id) # {}
    <3>1. read[pick(d.specs[n].id)].sha \in DocOrNone
      BY <2>4, <1>2 DEF Rows, DocOrNone
    <3> QED
      BY <2>2, <2>4, <3>1, <1>5
  <2> QED
    BY <2>3, <2>4
<1>7. rows \in [Names -> Rows \cup {NoSpec}]
  BY <1>6
<1>8. cats \in [Ids -> Catalogs]
  <2> SUFFICES ASSUME NEW i \in Ids PROVE cats[i] \in Catalogs
    OBVIOUS
  <2>1. CASE R(i) = {}
    BY <2>1, <1>4 DEF EmptyCatalog, Catalogs, DocOrNone
  <2>2. CASE R(i) # {}
    <3>1. read[pick(i)].doc \in DocOrNone
      BY <2>2, <1>2 DEF Rows, DocOrNone
    <3> QED
      BY <2>2, <3>1, <1>4 DEF Catalogs
  <2> QED
    BY <2>1, <2>2
<1> HIDE DEF cats, rows
<1>v. SchemaVersion \in 0..(SchemaVersion + 1)
  BY DEF SchemaVersion
<1>9. /\ e \in Databases
      /\ e.version = SchemaVersion
      /\ e.nextId = d.nextId
      /\ e.cat = cats
      /\ e.specs = rows
  BY <1>1, <1>3, <1>7, <1>8, <1>v DEF Databases
<1> HIDE DEF e
<1>10. \A n \in Names : /\ e.specs[n] = NoSpec <=> d.specs[n] = NoSpec
                        /\ d.specs[n] # NoSpec => /\ e.specs[n].id = d.specs[n].id
                                                  /\ e.specs[n].source = d.specs[n].source
                                                  /\ e.specs[n].doc = d.specs[n].doc
                                                  /\ e.specs[n].sha = d.specs[n].sha
  <2> SUFFICES ASSUME NEW n \in Names, d.specs[n] # NoSpec
               PROVE  /\ e.specs[n] # NoSpec
                      /\ e.specs[n].id = d.specs[n].id
                      /\ e.specs[n].source = d.specs[n].source
                      /\ e.specs[n].doc = d.specs[n].doc
                      /\ e.specs[n].sha = d.specs[n].sha
    BY <1>5, <1>9
  <2>1. d.specs[n] \in Rows
    BY <1>0 DEF Databases
  <2>2. PICK f \in DocOrNone : e.specs[n] = [d.specs[n] EXCEPT !.csha = f]
    BY <2>1, <1>2, <1>5, <1>9 DEF Rows, DocOrNone
  <2>3. e.specs[n] \in Rows
    BY <2>1, <2>2 DEF Rows
  <2> QED
    BY <2>1, <2>2, <2>3, NoSpecAssumption DEF Rows
<1>11. \A n \in Names : Ready(e, n) => /\ R(d.specs[n].id) # {}
                                       /\ read[pick(d.specs[n].id)].doc = d.specs[n].doc
  <2> SUFFICES ASSUME NEW n \in Names, Ready(e, n)
               PROVE  /\ R(d.specs[n].id) # {}
                      /\ read[pick(d.specs[n].id)].doc = d.specs[n].doc
    OBVIOUS
  <2>1. d.specs[n] # NoSpec /\ d.specs[n] \in Rows
    BY <1>0, <1>10 DEF Ready, Databases
  <2>2. e.specs[n].csha = d.specs[n].doc /\ d.specs[n].doc \in Docs
    BY <2>1, <1>10 DEF Ready, DbInv, SoundRows, Rows
  <2>3. R(d.specs[n].id) # {}
    BY <2>1, <2>2, <1>5, <1>9, NoDocAssumption DEF Rows
  <2> QED
    BY <2>1, <2>2, <2>3, <1>2, <1>5, <1>9 DEF Rows
<1>12. DistinctRows(e)
  BY <1>10 DEF DbInv, DistinctRows
<1>13. SoundRows(e)
  BY <1>9, <1>10 DEF DbInv, SoundRows
<1>14. NoOrphans(e)
  <2> SUFFICES ASSUME NEW i \in Ids, e.cat[i] # EmptyCatalog
               PROVE  \E n \in Names : e.specs[n] # NoSpec /\ e.specs[n].id = i
    BY DEF NoOrphans
  <2>1. i \in IdsOf(w, Names)
    BY <1>4, <1>9 DEF UpgradeRowsExist, R, w
  <2>2. PICK n \in Names : w.specs[n] # NoSpec /\ w.specs[n].id = i
    BY <2>1 DEF IdsOf, Indexed
  <2>3. d.specs[n] # NoSpec /\ d.specs[n] \in Rows /\ d.specs[n].id = i
    BY <2>2, <1>0, <1>1 DEF Databases, Rows
  <2> QED
    BY <2>3, <1>10
<1>15. CatalogsMatch(e)
  <2> SUFFICES ASSUME NEW n \in Names, Ready(e, n), NEW t \in CatalogTables
               PROVE  e.cat[e.specs[n].id][t] = e.specs[n].doc
    BY DEF CatalogsMatch
  <2>1. d.specs[n] # NoSpec /\ d.specs[n].id \in Ids
    BY <1>0, <1>10 DEF Ready, Databases, Rows
  <2>2. /\ e.specs[n].id = d.specs[n].id /\ e.specs[n].doc = d.specs[n].doc
        /\ R(d.specs[n].id) # {} /\ read[pick(d.specs[n].id)].doc = d.specs[n].doc
    BY <2>1, <1>10, <1>11
  <2>3. cats[d.specs[n].id] = [u \in CatalogTables |-> read[pick(d.specs[n].id)].doc]
    BY <2>1, <2>2, <1>4
  <2> QED
    BY <2>2, <2>3, <1>9
<1>16. ASSUME NEW n \in Names, d.specs[n] # NoSpec, d.specs[n].doc \notin Unparseable,
              read[n] = d.specs[n]
       PROVE  Ready(e, n)
  <2>1. d.specs[n] \in Rows /\ d.specs[n].sha = d.specs[n].doc
    BY <1>0, <1>16 DEF Databases, DbInv, SoundRows
  <2>2. n \in R(d.specs[n].id)
    BY <1>16 DEF R, Rebuildable
  <2>3. pick(d.specs[n].id) = n
    BY <2>2, <1>2, <1>16, NoSpecAssumption DEF SoundRead
  <2>4. e.specs[n] = [d.specs[n] EXCEPT !.csha = read[n].sha]
    BY <2>2, <2>3, <1>5, <1>9, <1>16
  <2> QED
    BY <2>1, <2>4, <1>9, <1>10, <1>16 DEF Ready, Rows
<1>17. DbInv(e)
  BY <1>9, <1>12, <1>13, <1>14, <1>15 DEF DbInv, SchemaVersion
<1> QED
  BY <1>9, <1>10, <1>16, <1>17 DEF Migrated, e, w

-----------------------------------------------------------------------------
(* The other processes *)

\* A step that leaves the file alone, and a lock holder's copy to its holder,
\* keeps what holds at the places of the other processes.
LEMMA FrameQuiet ==
  ASSUME NEW q \in Procs, PlaceInv(q), LockInv,
         db' = db, pc'[q] = pc[q], snap'[q] = snap[q],
         req'[q] = req[q], seen'[q] = seen[q],
         lock = q => lock' = q /\ wal' = wal,
         lock # q => lock' # q
  PROVE  PlaceInv(q)'
<1>1. pc[q] \in LockedPCs => wal' = wal
  BY DEF LockInv
<1> QED
  BY <1>1 DEF PlaceInv, LockedPCs

\* A commit by another process, or by an older build, reaches a process only
\* where it holds no lock and takes its fresh snapshot away.
LEMMA FrameCommit ==
  ASSUME NEW q \in Procs, PlaceInv(q), LockInv, lock # q, lock' # q,
         db'.version = 2 \/ (db'.version = 1 /\ db.version = 1),
         pc'[q] = pc[q], snap'[q] # "fresh", req'[q] = req[q], seen'[q] = seen[q]
  PROVE  PlaceInv(q)'
<1>1. pc[q] \notin LockedPCs
  BY DEF LockInv
<1>2. pc[q] = "create_stamp" => db.version = 2
  BY DEF PlaceInv
<1> QED
  BY <1>1, <1>2 DEF PlaceInv, LockedPCs, PutPCs, DeletePCs

\* A step of p that publishes nothing keeps the invariant if it keeps p's part.
LEMMA QuietInv ==
  ASSUME IInv, NEW p \in Procs, TypeOK', db' = db,
         \A q \in Procs \ {p} : /\ pc'[q] = pc[q] /\ snap'[q] = snap[q]
                                /\ req'[q] = req[q] /\ seen'[q] = seen[q],
         lock' = lock \/ (lock = NoProc /\ lock' = p),
         wal' = wal \/ lock' = p,
         pc'[p] \in LockedPCs => lock' = p,
         lock' = p => pc'[p] \in LockedPCs \cup {"create_stamp"},
         PlaceInv(p)'
  PROVE  IInv'
<1>1. DbInv(db)'
  BY DEF IInv
<1>2. LockInv'
  BY NoProcAssumption DEF IInv, LockInv
<1>3. ASSUME NEW q \in Procs, q # p PROVE PlaceInv(q)'
  <2>1. PlaceInv(q) /\ LockInv
    BY DEF IInv
  <2>2. lock = q => lock' = q /\ wal' = wal
    BY <1>3, NoProcAssumption
  <2>3. lock # q => lock' # q
    BY <1>3
  <2> QED
    BY <1>3, <2>1, <2>2, <2>3, FrameQuiet
<1> QED
  BY <1>1, <1>2, <1>3 DEF IInv

\* A rollback, whatever made it necessary.
LEMMA RollbackInv ==
  ASSUME IInv, NEW p \in Procs, NEW rest \in {"closed", "idle"}, NEW outcome \in Outcomes,
         rest = "idle" => db.version = 2, Rollback(p, rest, outcome)
  PROVE  IInv'
<1>1. TypeOK'
  BY DEF IInv, TypeOK, Rollback, Forget, NoRows
<1>2. /\ db' = db /\ pc'[p] = rest /\ lock' # p /\ seen'[p] = NoRows
      /\ \A q \in Procs \ {p} : /\ pc'[q] = pc[q] /\ snap'[q] = snap[q]
                                /\ req'[q] = req[q] /\ seen'[q] = seen[q]
  BY NoProcAssumption DEF IInv, TypeOK, Rollback, Forget
<1>3. DbInv(db)'
  BY <1>2 DEF IInv
<1>4. LockInv'
  <2>1. rest \notin LockedPCs
    BY DEF LockedPCs
  <2>2. LockInv
    BY DEF IInv
  <2>3. lock' = NoProc => wal' = db'
    BY <1>2, <2>2, NoProcAssumption DEF LockInv, Rollback
  <2>4. \A q \in Procs : pc'[q] \in LockedPCs => lock' = q
    BY <1>2, <2>1, <2>2 DEF LockInv, Rollback
  <2>5. \A q \in Procs : lock' = q => pc'[q] \in LockedPCs \cup {"create_stamp"}
    BY <1>2, <2>2, NoProcAssumption DEF LockInv, Rollback
  <2> QED
    BY <2>3, <2>4, <2>5 DEF LockInv
<1>5. SoundRead(seen'[p])
  BY <1>2 DEF SoundRead, NoRows
<1>6. PlaceInv(p)'
  BY <1>2, <1>5 DEF PlaceInv, PutPCs, DeletePCs
<1>7. ASSUME NEW q \in Procs, q # p PROVE PlaceInv(q)'
  <2>1. PlaceInv(q) /\ LockInv
    BY DEF IInv
  <2>2. lock = q => lock' = q /\ wal' = wal
    BY <1>7 DEF Rollback
  <2>3. lock # q => lock' # q
    BY NoProcAssumption DEF Rollback
  <2> QED
    BY <1>2, <1>7, <2>1, <2>2, <2>3, FrameQuiet
<1> QED
  BY <1>1, <1>3, <1>4, <1>6, <1>7 DEF IInv

\* What a process is about to commit is a sound file of the current layout.
LEMMA CommitCopy ==
  ASSUME IInv, NEW p \in Procs,
         pc[p] \in {"create_commit", "upgrade_commit", "put_commit", "delete_commit"}
  PROVE  DbInv(wal) /\ wal.version = 2
<1>0. PlaceInv(p) /\ DbInv(db) /\ db \in Databases
  BY DEF IInv, DbInv
<1>1. CASE pc[p] = "create_commit"
  <2>1. wal = [db EXCEPT !.version = 2] /\ db.version \in {0, 2}
    BY <1>0, <1>1 DEF PlaceInv
  <2>2. /\ wal \in Databases /\ wal.version = 2 /\ wal.specs = db.specs
        /\ wal.cat = db.cat /\ wal.nextId = db.nextId
    BY <1>0, <2>1 DEF Databases, SchemaVersion
  <2>3. DistinctRows(wal) /\ SoundRows(wal) /\ NoOrphans(wal)
    BY <1>0, <2>2 DEF DbInv, DistinctRows, SoundRows, NoOrphans
  <2>4. CatalogsMatch(wal)
    BY <1>0, <2>1, <2>2 DEF DbInv, CatalogsMatch, Ready, NoRows, SchemaVersion
  <2> QED
    BY <2>2, <2>3, <2>4 DEF DbInv
<1>2. CASE pc[p] = "upgrade_commit"
  BY <1>0, <1>2 DEF PlaceInv, Migrated, SchemaVersion
<1>3. CASE pc[p] = "put_commit"
  BY <1>0, <1>3, PutInv DEF PlaceInv, PutPCs, SchemaVersion
<1>4. CASE pc[p] = "delete_commit"
  <2>1. wal = DeleteSpecs(db, {req[p].name}) /\ db.version = 2
    BY <1>0, <1>4 DEF PlaceInv, DeletePCs
  <2> QED
    BY <1>0, <2>1, DeleteSpecsInv, DeleteSpecsFields
<1> QED
  BY <1>1, <1>2, <1>3, <1>4

LEMMA CommitInv ==
  ASSUME IInv, NEW p \in Procs,
         NEW from \in {"create_commit", "upgrade_commit", "put_commit", "delete_commit"},
         Commit(p, from)
  PROVE  IInv'
<1>1. DbInv(wal) /\ wal.version = 2
  BY CommitCopy DEF Commit
<1>a. ASSUME NEW q \in Procs PROVE snap'[q] # "fresh"
  <2>1. snap'[q] \in {"none", "stale"}
    BY DEF Commit, Publish
  <2> QED
    BY <2>1
<1>b. pc'[p] = "idle" /\ \A q \in Procs \ {p} : pc'[q] = pc[q]
  BY DEF IInv, TypeOK, Commit
<1>c. /\ seen'[p] = NoRows
      /\ \A q \in Procs \ {p} : req'[q] = req[q] /\ seen'[q] = seen[q]
  BY DEF IInv, TypeOK, Commit, Forget
<1>2. db' = wal /\ wal' = wal /\ lock = p /\ lock' = NoProc
  BY DEF Commit, Publish
<1>3. TypeOK'
  BY DEF IInv, TypeOK, Commit, Publish, Forget, NoRows, Outcomes
<1>4. DbInv(db)'
  BY <1>1, <1>2
<1>5. LockInv'
  BY <1>2, <1>b, NoProcAssumption DEF IInv, LockInv, LockedPCs
<1>6. SoundRead(seen'[p])
  BY <1>c DEF SoundRead, NoRows
<1>7. PlaceInv(p)'
  BY <1>1, <1>2, <1>b, <1>6 DEF PlaceInv, PutPCs, DeletePCs
<1>8. ASSUME NEW q \in Procs, q # p PROVE PlaceInv(q)'
  <2>1. PlaceInv(q) /\ LockInv
    BY DEF IInv
  <2>2. lock # q /\ lock' # q
    BY <1>2, <1>8, NoProcAssumption
  <2> QED
    BY <1>1, <1>2, <1>8, <1>a, <1>b, <1>c, <2>1, <2>2, FrameCommit
<1> QED
  BY <1>3, <1>4, <1>5, <1>7, <1>8 DEF IInv

-----------------------------------------------------------------------------
(* The steps *)

\* An operation that ends before its transaction, or Open's first read.
LEMMA EndEarlyInv ==
  ASSUME IInv, NEW p \in Procs, NEW outcome \in Outcomes,
         NEW at \in {"closed", "idle", "create", "upgrade_read"},
         EndEarly(p, at, outcome), pc[p] \in {"closed", "idle"},
         at = "idle" => db.version = 2,
         at = "create" => db.version = 0,
         at = "upgrade_read" => db.version = 1
  PROVE  IInv'
<1>1. TypeOK'
  BY DEF IInv, TypeOK, EndEarly, BusyPCs, OpeningPCs
<1>2. /\ pc'[p] = at
      /\ \A q \in Procs \ {p} : pc'[q] = pc[q]
      /\ db' = db /\ wal' = wal /\ lock' = lock /\ snap' = snap /\ req' = req /\ seen' = seen
  BY DEF IInv, TypeOK, EndEarly
<1>3. lock # p
  BY DEF IInv, LockInv, LockedPCs
<1>4. at \notin LockedPCs
  BY DEF LockedPCs
<1>5. SoundRead(seen[p])
  BY DEF IInv, PlaceInv
<1>6. PlaceInv(p)'
  BY <1>2, <1>5 DEF PlaceInv, PutPCs, DeletePCs
<1> QED
  BY <1>1, <1>2, <1>3, <1>4, <1>6, QuietInv

LEMMA OpenInv == ASSUME IInv, NEW p \in Procs, Open(p) PROVE IInv'
<1>1. pc[p] = "closed" /\ db.version \in 0..3
  BY DEF Open, IInv, TypeOK, Databases, SchemaVersion
<1>2. "none" \in Outcomes /\ "newer" \in Outcomes
  BY DEF Outcomes
<1>3. CASE db.version = SchemaVersion /\ EndEarly(p, "idle", "none")
  BY <1>1, <1>2, <1>3, EndEarlyInv DEF SchemaVersion
<1>4. CASE db.version > SchemaVersion /\ EndEarly(p, "closed", "newer")
  BY <1>1, <1>2, <1>4, EndEarlyInv DEF SchemaVersion
<1>5. CASE db.version = 1 /\ EndEarly(p, "upgrade_read", "none")
  BY <1>1, <1>2, <1>5, EndEarlyInv
<1>6. CASE db.version = 0 /\ EndEarly(p, "create", "none")
  BY <1>1, <1>2, <1>6, EndEarlyInv
<1> QED
  BY <1>3, <1>4, <1>5, <1>6 DEF Open

LEMMA CreateTablesInv == ASSUME IInv, NEW p \in Procs, CreateTables(p) PROVE IInv'
<1>0. PlaceInv(p) /\ DbInv(db) /\ TypeOK /\ LockInv
  BY DEF IInv
<1>1. pc[p] = "create" /\ lock # p /\ wal' \in Databases
  BY <1>0 DEF CreateTables, LockInv, LockedPCs, TypeOK
<1>2. TypeOK'
  BY <1>0, <1>1 DEF TypeOK, CreateTables, CanUpgrade, BusyPCs, OpeningPCs, PutPCs, DeletePCs
<1>3. /\ pc'[p] = "create_stamp"
      /\ db' = db
      /\ \A q \in Procs \ {p} : /\ pc'[q] = pc[q] /\ snap'[q] = snap[q]
                                /\ req'[q] = req[q] /\ seen'[q] = seen[q]
  BY <1>0 DEF TypeOK, CreateTables, CanUpgrade
<1>4. /\ lock' = lock \/ (lock = NoProc /\ lock' = p)
      /\ wal' = wal \/ lock' = p
      /\ "create_stamp" \in LockedPCs => lock' = p
      /\ lock' = p => "create_stamp" \in LockedPCs \cup {"create_stamp"}
  BY <1>0, <1>1 DEF LockInv, LockedPCs, CreateTables, CanUpgrade
<1>5. PlaceInv(p)'
  BY <1>0, <1>1, <1>3 DEF PlaceInv, CreateTables, PutPCs, DeletePCs
<1> QED
  BY <1>2, <1>3, <1>4, <1>5, QuietInv

LEMMA CreateStampInv == ASSUME IInv, NEW p \in Procs, CreateStamp(p) PROVE IInv'
<1>0. PlaceInv(p) /\ DbInv(db) /\ TypeOK /\ LockInv
  BY DEF IInv
<1>1. pc[p] = "create_stamp" /\ wal' \in Databases
  <2>1. SchemaVersion \in 0..(SchemaVersion + 1)
    BY DEF SchemaVersion
  <2>2. db \in Databases /\ wal' = [db EXCEPT !.version = SchemaVersion]
    BY <1>0 DEF CreateStamp, DbInv
  <2>3. wal' \in Databases
    BY <2>1, <2>2 DEF Databases
  <2> QED
    BY <2>3 DEF CreateStamp
<1>2. TypeOK'
  BY <1>0, <1>1 DEF TypeOK, CreateStamp, CanUpgrade, BusyPCs, OpeningPCs, PutPCs, DeletePCs
<1>3. /\ pc'[p] = "create_commit"
      /\ db' = db
      /\ \A q \in Procs \ {p} : /\ pc'[q] = pc[q] /\ snap'[q] = snap[q]
                                /\ req'[q] = req[q] /\ seen'[q] = seen[q]
  BY <1>0 DEF TypeOK, CreateStamp, CanUpgrade
<1>4. /\ lock' = lock \/ (lock = NoProc /\ lock' = p)
      /\ wal' = wal \/ lock' = p
      /\ "create_commit" \in LockedPCs => lock' = p
      /\ lock' = p => "create_commit" \in LockedPCs \cup {"create_stamp"}
  BY <1>0, <1>1 DEF LockInv, LockedPCs, CreateStamp, CanUpgrade
<1>5. PlaceInv(p)'
  BY <1>0, <1>1, <1>3 DEF PlaceInv, CreateStamp, PutPCs, DeletePCs, SchemaVersion
<1> QED
  BY <1>2, <1>3, <1>4, <1>5, QuietInv

LEMMA UpgradeReadInv == ASSUME IInv, NEW p \in Procs, UpgradeRead(p) PROVE IInv'
<1>0. PlaceInv(p) /\ DbInv(db) /\ TypeOK /\ LockInv
  BY DEF IInv
<1>1. /\ pc[p] = "upgrade_read" /\ lock # p
      /\ seen'[p] = db.specs /\ db.specs \in [Names -> Rows \cup {NoSpec}]
  BY <1>0 DEF UpgradeRead, LockInv, LockedPCs, TypeOK, Databases
<1>2. TypeOK'
  BY <1>0, <1>1 DEF TypeOK, UpgradeRead, BusyPCs, OpeningPCs, PutPCs, DeletePCs
<1>3. /\ pc'[p] = "upgrade_alter"
      /\ db' = db
      /\ \A q \in Procs \ {p} : /\ pc'[q] = pc[q] /\ snap'[q] = snap[q]
                                /\ req'[q] = req[q] /\ seen'[q] = seen[q]
  BY <1>0 DEF TypeOK, UpgradeRead
<1>4. /\ lock' = lock \/ (lock = NoProc /\ lock' = p)
      /\ wal' = wal \/ lock' = p
      /\ "upgrade_alter" \in LockedPCs => lock' = p
      /\ lock' = p => "upgrade_alter" \in LockedPCs \cup {"create_stamp"}
  BY <1>0, <1>1 DEF LockInv, LockedPCs, UpgradeRead
<1>6. SoundRead(seen'[p])
  BY <1>0, <1>1 DEF SoundRead, DbInv, DistinctRows, SoundRows
<1>5. PlaceInv(p)'
  BY <1>0, <1>1, <1>3, <1>6 DEF PlaceInv, PutPCs, DeletePCs
<1> QED
  BY <1>2, <1>3, <1>4, <1>5, QuietInv

LEMMA UpgradeAlterInv == ASSUME IInv, NEW p \in Procs, UpgradeAlter(p) PROVE IInv'
<1>0. PlaceInv(p) /\ DbInv(db) /\ TypeOK /\ LockInv
  BY DEF IInv
<1>1. pc[p] = "upgrade_alter" /\ wal' \in Databases
  BY <1>0, AlteredFields DEF UpgradeAlter, DbInv
<1>2. TypeOK'
  BY <1>0, <1>1 DEF TypeOK, UpgradeAlter, BusyPCs, OpeningPCs, PutPCs, DeletePCs
<1>3. /\ pc'[p] = "upgrade_fill"
      /\ db' = db
      /\ \A q \in Procs \ {p} : /\ pc'[q] = pc[q] /\ snap'[q] = snap[q]
                                /\ req'[q] = req[q] /\ seen'[q] = seen[q]
  BY <1>0 DEF TypeOK, UpgradeAlter
<1>4. /\ lock' = lock \/ (lock = NoProc /\ lock' = p)
      /\ wal' = wal \/ lock' = p
      /\ "upgrade_fill" \in LockedPCs => lock' = p
      /\ lock' = p => "upgrade_fill" \in LockedPCs \cup {"create_stamp"}
  BY <1>0, <1>1 DEF LockInv, LockedPCs, UpgradeAlter
<1>5. PlaceInv(p)'
  BY <1>0, <1>1, <1>3 DEF PlaceInv, UpgradeAlter, PutPCs, DeletePCs
<1> QED
  BY <1>2, <1>3, <1>4, <1>5, QuietInv

LEMMA UpgradeFillInv == ASSUME IInv, NEW p \in Procs, UpgradeFill(p) PROVE IInv'
<1>0. PlaceInv(p) /\ DbInv(db) /\ TypeOK /\ LockInv
  BY DEF IInv
<1>1. pc[p] = "upgrade_fill" /\ wal' \in Databases /\ Migrated(db, wal', seen[p])
  <2>1. /\ pc[p] = "upgrade_fill" /\ wal = Altered(db) /\ db.version = 1
        /\ wal' = Rebuilt(wal, seen[p]) /\ UpgradeRowsExist(wal, seen[p])
        /\ SoundRead(seen[p])
    BY <1>0 DEF UpgradeFill, PlaceInv
  <2>2. seen[p] \in [Names -> Rows \cup {NoSpec}]
    BY <1>0 DEF TypeOK
  <2>3. Migrated(db, wal', seen[p])
    BY <1>0, <2>1, <2>2, RebuiltInv
  <2> QED
    BY <2>1, <2>3 DEF Migrated, DbInv
<1>2. TypeOK'
  BY <1>0, <1>1 DEF TypeOK, UpgradeFill, BusyPCs, OpeningPCs, PutPCs, DeletePCs
<1>3. /\ pc'[p] = "upgrade_commit"
      /\ db' = db
      /\ \A q \in Procs \ {p} : /\ pc'[q] = pc[q] /\ snap'[q] = snap[q]
                                /\ req'[q] = req[q] /\ seen'[q] = seen[q]
  BY <1>0 DEF TypeOK, UpgradeFill
<1>4. /\ lock' = lock \/ (lock = NoProc /\ lock' = p)
      /\ wal' = wal \/ lock' = p
      /\ "upgrade_commit" \in LockedPCs => lock' = p
      /\ lock' = p => "upgrade_commit" \in LockedPCs \cup {"create_stamp"}
  BY <1>0, <1>1 DEF LockInv, LockedPCs, UpgradeFill
<1>5. PlaceInv(p)'
  BY <1>0, <1>1, <1>3 DEF PlaceInv, UpgradeFill, PutPCs, DeletePCs
<1> QED
  BY <1>2, <1>3, <1>4, <1>5, QuietInv

\* A refused Put, or BEGIN and the SELECT that fixes its snapshot.
LEMMA PutSelectInv ==
  ASSUME IInv, NEW p \in Procs, NEW r \in Requests, PutSelect(p, r)
  PROVE  IInv'
<1>0. PlaceInv(p) /\ DbInv(db) /\ TypeOK /\ LockInv
  BY DEF IInv
<1>1. pc[p] = "idle" /\ db.version = 2 /\ lock # p
  BY <1>0 DEF PutSelect, PlaceInv, LockInv, LockedPCs
<1>2. CASE EndEarly(p, "idle", "refused")
  BY <1>1, <1>2, EndEarlyInv DEF Outcomes
<1>3. CASE ~EndEarly(p, "idle", "refused")
  <2>1. /\ req' = [req EXCEPT ![p] = r] /\ snap' = [snap EXCEPT ![p] = "fresh"]
        /\ pc' = [pc EXCEPT ![p] = "put_row"] /\ out' = [out EXCEPT ![p] = "none"]
        /\ UNCHANGED <<db, wal, lock, seen>>
        /\ Storable(db, r)
    BY <1>3 DEF PutSelect, Storable
  <2>2. TypeOK'
    BY <1>0, <2>1 DEF TypeOK, BusyPCs, PutPCs, Outcomes
  <2>3. /\ pc'[p] = "put_row" /\ req'[p] = r
        /\ \A q \in Procs \ {p} : /\ pc'[q] = pc[q] /\ snap'[q] = snap[q]
                                  /\ req'[q] = req[q] /\ seen'[q] = seen[q]
    BY <1>0, <2>1 DEF TypeOK
  <2>4. PlaceInv(p)'
    BY <1>0, <1>1, <2>1, <2>3 DEF PlaceInv
  <2> QED
    BY <1>1, <2>1, <2>2, <2>3, <2>4, QuietInv DEF LockedPCs
<1> QED
  BY <1>2, <1>3

LEMMA PutRowInv == ASSUME IInv, NEW p \in Procs, PutRow(p) PROVE IInv'
<1>0. PlaceInv(p) /\ DbInv(db) /\ TypeOK /\ LockInv
  BY DEF IInv
<1>1. /\ pc[p] = "put_row" /\ req[p] \in Requests /\ Storable(db, req[p]) /\ db.version = 2
      /\ wal' = ReplaceRow(db, req[p], req[p].doc)
      /\ wal' \in Databases
  <2>1. /\ pc[p] = "put_row" /\ req[p] \in Requests /\ Storable(db, req[p]) /\ db.version = 2
        /\ wal' = ReplaceRow(db, req[p], req[p].doc)
    BY <1>0 DEF PutRow, CanUpgrade, PlaceInv, PutPCs
  <2> QED
    BY <1>0, <2>1, PutInv DEF SchemaVersion
<1>2. TypeOK'
  BY <1>0, <1>1 DEF TypeOK, PutRow, CanUpgrade, BusyPCs, OpeningPCs, PutPCs, DeletePCs
<1>3. /\ pc'[p] = "put_catalog"
      /\ db' = db
      /\ \A q \in Procs \ {p} : /\ pc'[q] = pc[q] /\ snap'[q] = snap[q]
                                /\ req'[q] = req[q] /\ seen'[q] = seen[q]
  BY <1>0 DEF TypeOK, PutRow, CanUpgrade
<1>4. /\ lock' = lock \/ (lock = NoProc /\ lock' = p)
      /\ wal' = wal \/ lock' = p
      /\ "put_catalog" \in LockedPCs => lock' = p
      /\ lock' = p => "put_catalog" \in LockedPCs \cup {"create_stamp"}
  BY <1>0, <1>1 DEF LockInv, LockedPCs, PutRow, CanUpgrade
<1>5. PlaceInv(p)'
  BY <1>0, <1>1, <1>3 DEF PlaceInv, PutRow, PutPCs, DeletePCs
<1> QED
  BY <1>2, <1>3, <1>4, <1>5, QuietInv

LEMMA PutCatalogInv == ASSUME IInv, NEW p \in Procs, PutCatalog(p) PROVE IInv'
<1>0. PlaceInv(p) /\ DbInv(db) /\ TypeOK /\ LockInv
  BY DEF IInv
<1>1. /\ pc[p] = "put_catalog" /\ req[p] \in Requests /\ Storable(db, req[p]) /\ db.version = 2
      /\ wal' = PutResult(db, req[p])
      /\ wal' \in Databases
  <2>1. /\ pc[p] = "put_catalog" /\ req[p] \in Requests /\ Storable(db, req[p]) /\ db.version = 2
        /\ wal = ReplaceRow(db, req[p], req[p].doc)
        /\ wal' = WriteCatalog(wal, wal.specs[req[p].name].id, req[p].doc)
    BY <1>0 DEF PutCatalog, PlaceInv, PutPCs
  <2>2. wal' = PutResult(db, req[p])
    BY <1>0, <2>1, PutInv DEF PutResult, SchemaVersion
  <2>3. DbInv(PutResult(db, req[p]))
    BY <1>0, <2>1, PutInv DEF SchemaVersion
  <2> QED
    BY <2>1, <2>2, <2>3 DEF DbInv
<1>2. TypeOK'
  BY <1>0, <1>1 DEF TypeOK, PutCatalog, BusyPCs, OpeningPCs, PutPCs, DeletePCs
<1>3. /\ pc'[p] = "put_commit"
      /\ db' = db
      /\ \A q \in Procs \ {p} : /\ pc'[q] = pc[q] /\ snap'[q] = snap[q]
                                /\ req'[q] = req[q] /\ seen'[q] = seen[q]
  BY <1>0 DEF TypeOK, PutCatalog
<1>4. /\ lock' = lock \/ (lock = NoProc /\ lock' = p)
      /\ wal' = wal \/ lock' = p
      /\ "put_commit" \in LockedPCs => lock' = p
      /\ lock' = p => "put_commit" \in LockedPCs \cup {"create_stamp"}
  BY <1>0, <1>1 DEF LockInv, LockedPCs, PutCatalog
<1>5. PlaceInv(p)'
  BY <1>0, <1>1, <1>3 DEF PlaceInv, PutCatalog, PutPCs, DeletePCs
<1> QED
  BY <1>2, <1>3, <1>4, <1>5, QuietInv

\* Delete's Meta: ErrNotFound, or the metadata it will report.
LEMMA DeleteMetaInv ==
  ASSUME IInv, NEW p \in Procs, NEW n \in Names, DeleteMeta(p, n)
  PROVE  IInv'
<1>0. PlaceInv(p) /\ DbInv(db) /\ TypeOK /\ LockInv
  BY DEF IInv
<1>1. pc[p] = "idle" /\ db.version = 2 /\ lock # p
  BY <1>0 DEF DeleteMeta, PlaceInv, LockInv, LockedPCs
<1>2. CASE EndEarly(p, "idle", "not_found")
  BY <1>1, <1>2, EndEarlyInv DEF Outcomes
<1>3. CASE ~EndEarly(p, "idle", "not_found")
  <2> DEFINE r == [name |-> n, source |-> db.specs[n].source, doc |-> db.specs[n].doc]
  <2>1. /\ req' = [req EXCEPT ![p] = r]
        /\ pc' = [pc EXCEPT ![p] = "delete_select"] /\ out' = [out EXCEPT ![p] = "none"]
        /\ UNCHANGED <<db, wal, lock, snap, seen>>
        /\ db.specs[n] # NoSpec
    BY <1>3 DEF DeleteMeta
  <2>2. r \in Requests
    <3>1. db.specs[n] \in Rows
      BY <1>0, <2>1 DEF DbInv, Databases
    <3> QED
      BY <3>1 DEF Rows, Requests
  <2> HIDE DEF r
  <2>3. TypeOK'
    BY <1>0, <2>1, <2>2 DEF TypeOK, BusyPCs, DeletePCs, Outcomes
  <2>4. /\ pc'[p] = "delete_select" /\ req'[p] = r
        /\ \A q \in Procs \ {p} : pc'[q] = pc[q] /\ req'[q] = req[q]
    BY <1>0, <2>1 DEF TypeOK
  <2>5. PlaceInv(p)'
    BY <1>0, <1>1, <2>1, <2>2, <2>4 DEF PlaceInv, PutPCs
  <2> QED
    BY <1>1, <2>1, <2>3, <2>4, <2>5, QuietInv DEF LockedPCs
<1> QED
  BY <1>2, <1>3

LEMMA DeleteSelectInv == ASSUME IInv, NEW p \in Procs, DeleteSelect(p), db.specs[req[p].name] # NoSpec PROVE IInv'
<1>0. PlaceInv(p) /\ DbInv(db) /\ TypeOK /\ LockInv
  BY DEF IInv
<1>1. /\ pc[p] = "delete_select" /\ lock # p /\ db.version = 2 /\ req[p] \in Requests
      /\ db.specs[req[p].name] # NoSpec
  BY <1>0 DEF DeleteSelect, PlaceInv, DeletePCs, LockInv, LockedPCs
<1>2. TypeOK'
  BY <1>0, <1>1 DEF TypeOK, DeleteSelect, BusyPCs, OpeningPCs, PutPCs, DeletePCs
<1>3. /\ pc'[p] = "delete_rows"
      /\ db' = db
      /\ \A q \in Procs \ {p} : /\ pc'[q] = pc[q] /\ snap'[q] = snap[q]
                                /\ req'[q] = req[q] /\ seen'[q] = seen[q]
  BY <1>0 DEF TypeOK, DeleteSelect
<1>4. /\ lock' = lock \/ (lock = NoProc /\ lock' = p)
      /\ wal' = wal \/ lock' = p
      /\ "delete_rows" \in LockedPCs => lock' = p
      /\ lock' = p => "delete_rows" \in LockedPCs \cup {"create_stamp"}
  BY <1>0, <1>1 DEF LockInv, LockedPCs, DeleteSelect
<1>5. PlaceInv(p)'
  BY <1>0, <1>1, <1>3 DEF PlaceInv, DeleteSelect, PutPCs, DeletePCs
<1> QED
  BY <1>2, <1>3, <1>4, <1>5, QuietInv

LEMMA DeleteRowsInv == ASSUME IInv, NEW p \in Procs, DeleteRows(p) PROVE IInv'
<1>0. PlaceInv(p) /\ DbInv(db) /\ TypeOK /\ LockInv
  BY DEF IInv
<1>1. /\ pc[p] = "delete_rows" /\ db.version = 2 /\ req[p] \in Requests
      /\ db.specs[req[p].name] # NoSpec
      /\ wal' = DeleteSpecs(db, {req[p].name}) /\ wal' \in Databases
  BY <1>0, DeleteSpecsFields DEF DeleteRows, CanUpgrade, PlaceInv, DeletePCs, DbInv
<1>2. TypeOK'
  BY <1>0, <1>1 DEF TypeOK, DeleteRows, CanUpgrade, BusyPCs, OpeningPCs, PutPCs, DeletePCs
<1>3. /\ pc'[p] = "delete_commit"
      /\ db' = db
      /\ \A q \in Procs \ {p} : /\ pc'[q] = pc[q] /\ snap'[q] = snap[q]
                                /\ req'[q] = req[q] /\ seen'[q] = seen[q]
  BY <1>0 DEF TypeOK, DeleteRows, CanUpgrade
<1>4. /\ lock' = lock \/ (lock = NoProc /\ lock' = p)
      /\ wal' = wal \/ lock' = p
      /\ "delete_commit" \in LockedPCs => lock' = p
      /\ lock' = p => "delete_commit" \in LockedPCs \cup {"create_stamp"}
  BY <1>0, <1>1 DEF LockInv, LockedPCs, DeleteRows, CanUpgrade
<1>5. PlaceInv(p)'
  BY <1>0, <1>1, <1>3 DEF PlaceInv, DeleteRows, PutPCs, DeletePCs
<1> QED
  BY <1>2, <1>3, <1>4, <1>5, QuietInv

\* The older build writes while nobody holds the lock and no handle is open.
LEMMA OldBuildInv == ASSUME IInv, NEW r \in Requests, OldBuildPut(r) PROVE IInv'
<1>0. DbInv(db) /\ TypeOK /\ LockInv
  BY DEF IInv
<1>1. DbInv(ReplaceRow(db, r, NoDoc)) /\ ReplaceRow(db, r, NoDoc).version = 1
  BY <1>0, OldPutInv DEF OldBuildPut, Storable
<1>2. /\ db' = ReplaceRow(db, r, NoDoc) /\ wal' = db' /\ lock = NoProc
      /\ UNCHANGED <<lock, pc, req, seen, out>> /\ db.version = 1
  BY DEF OldBuildPut, Publish
<1>3. ASSUME NEW q \in Procs PROVE snap'[q] \in {"none", "stale"}
  BY DEF OldBuildPut, Publish
<1>4. TypeOK'
  <2>1. snap' \in [Procs -> {"none", "fresh", "stale"}]
    BY <1>3 DEF OldBuildPut, Publish
  <2> QED
    BY <1>0, <1>1, <1>2, <2>1 DEF TypeOK, DbInv
<1>5. LockInv'
  BY <1>0, <1>2, NoProcAssumption DEF LockInv
<1>6. ASSUME NEW q \in Procs PROVE PlaceInv(q)'
  <2>1. PlaceInv(q) /\ lock # q /\ snap'[q] # "fresh"
    BY <1>2, <1>3, NoProcAssumption DEF IInv
  <2> QED
    BY <1>0, <1>1, <1>2, <2>1, FrameCommit
<1> QED
  BY <1>1, <1>2, <1>4, <1>5, <1>6 DEF IInv

LEMMA StepInv == IInv /\ [Next]_vars => IInv'
<1> SUFFICES ASSUME IInv, [Next]_vars PROVE IInv'
  OBVIOUS
<1>1. ASSUME NEW p \in Procs, Start(p) PROVE IInv'
  <2>1. \A r : r \in [name : Names, source : Sources, doc : NewDocs] => r \in Requests
    BY DEF Requests, NewDocs
  <2> QED
    BY <1>1, <2>1, OpenInv, PutSelectInv, DeleteMetaInv DEF Start
<1>2. ASSUME NEW p \in Procs, NEW rest \in {"closed", "idle"}, NEW outcome \in Outcomes,
             pc[p] \in PutPCs \cup DeletePCs \cup {"idle"} \/ rest = "closed",
             Rollback(p, rest, outcome)
      PROVE  IInv'
  BY <1>2, RollbackInv DEF IInv, PlaceInv
<1>3. \A p \in Procs : /\ Resting(p) \in {"closed", "idle"}
                       /\ pc[p] \in BusyPCs =>
                            pc[p] \in PutPCs \cup DeletePCs \/ Resting(p) = "closed"
  BY DEF Resting, BusyPCs
<1>4. {"ok", "busy", "failed", "none", "no_rows"} \subseteq Outcomes
  BY DEF Outcomes
<1>5. ASSUME NEW p \in Procs, Continue(p) PROVE IInv'
  <2>1. CASE UpgradeLost(p) \/ UpgradeForeignKey(p) \/ BusyTimeout(p)
    BY <2>1, <1>2, <1>4 DEF UpgradeLost, UpgradeForeignKey, BusyTimeout
  <2>2. CASE WriteConflict(p)
    BY <2>2, <1>2, <1>3, <1>4 DEF WriteConflict, BusyPCs, OpeningPCs, PutPCs, DeletePCs
  <2>3. CASE CreateCommit(p) \/ UpgradeCommit(p) \/ PutCommit(p) \/ DeleteCommit(p)
    BY <2>3, CommitInv DEF CreateCommit, UpgradeCommit, PutCommit, DeleteCommit
  <2>4. CASE DeleteSelect(p)
    <3>1. CASE db.specs[req[p].name] = NoSpec
      BY <2>4, <3>1, <1>2, <1>4 DEF DeleteSelect, DeletePCs
    <3>2. CASE db.specs[req[p].name] # NoSpec
      BY <2>4, <3>2, DeleteSelectInv
    <3> QED
      BY <3>1, <3>2
  <2> QED
    BY <1>5, <2>1, <2>2, <2>3, <2>4, CreateTablesInv, CreateStampInv, UpgradeReadInv,
       UpgradeAlterInv, UpgradeFillInv, PutRowInv, PutCatalogInv, DeleteRowsInv
    DEF Continue
<1>6. ASSUME NEW p \in Procs, Fail(p) PROVE IInv'
  BY <1>2, <1>3, <1>4, <1>6 DEF Fail
<1>7. ASSUME NEW p \in Procs, Exit(p) PROVE IInv'
  BY <1>2, <1>4, <1>7 DEF Exit
<1>8. CASE UNCHANGED vars
  BY <1>8 DEF vars, IInv, TypeOK, LockInv, PlaceInv
<1> QED
  BY <1>1, <1>5, <1>6, <1>7, <1>8, OldBuildInv DEF Next

LEMMA StartInv == Init => IInv
<1> SUFFICES ASSUME Init PROVE IInv
  OBVIOUS
<1>1. PICK v \in {0, 1, SchemaVersion + 1} : db = EmptyStore(v)
  BY DEF Init
<1>2. /\ db \in Databases /\ db.version = v
      /\ db.specs = NoRows /\ \A i \in Ids : db.cat[i] = EmptyCatalog
  <2>1. NoRows \in [Names -> Rows \cup {NoSpec}]
    BY DEF NoRows
  <2>2. [i \in Ids |-> EmptyCatalog] \in [Ids -> Catalogs]
    BY DEF EmptyCatalog, Catalogs, DocOrNone
  <2>3. v \in 0..(SchemaVersion + 1) /\ 1 \in 1..(MaxId + 1)
    BY MaxIdAssumption DEF SchemaVersion
  <2> QED
    BY <1>1, <2>1, <2>2, <2>3 DEF EmptyStore, Databases
<1>3. \A n \in Names : db.specs[n] = NoSpec
  BY <1>2 DEF NoRows
<1>4. DbInv(db)
  BY <1>2, <1>3 DEF DbInv, DistinctRows, SoundRows, NoOrphans, CatalogsMatch, Ready
<1>5. TypeOK
  BY <1>2 DEF Init, TypeOK, NoRows, Outcomes
<1>6. LockInv
  BY NoProcAssumption DEF Init, LockInv, LockedPCs
<1>7. ASSUME NEW p \in Procs PROVE PlaceInv(p)
  <2>1. pc[p] = "closed" /\ SoundRead(seen[p])
    BY DEF Init, SoundRead, NoRows
  <2> QED
    BY <2>1 DEF PlaceInv, PutPCs, DeletePCs
<1> QED
  BY <1>4, <1>5, <1>6, <1>7 DEF IInv

-----------------------------------------------------------------------------
(* Theorems *)

\* IInv is inductive.
LEMMA Invariance == Spec => []IInv
  BY StartInv, StepInv, PTL DEF Spec

\* Every variable stays in its range, whatever the processes do.
THEOREM TypeCorrect == Spec => []TypeOK
<1>1. IInv => TypeOK
  BY DEF IInv
<1> QED
  BY <1>1, Invariance, PTL

\* A spec whose fingerprints agree always has its own document's catalog.
THEOREM CatalogTheorem == Spec => []CatalogIsOfDocument
<1>1. IInv => CatalogIsOfDocument
  BY DEF IInv, DbInv, CatalogsMatch, CatalogIsOfDocument
<1> QED
  BY <1>1, Invariance, PTL

\* No rename, delete or migration leaves a catalog row behind.
THEOREM OrphanTheorem == Spec => []NoOrphanRows
<1>1. IInv => NoOrphanRows
  BY DEF IInv, DbInv, NoOrphans, NoOrphanRows, IdsOf, Indexed
<1> QED
  BY <1>1, Invariance, PTL

\* Ids and sources are never shared.
THEOREM OneRowTheorem == Spec => []OneRowPerSource
<1>1. IInv => OneRowPerSource
  BY DEF IInv, DbInv, DistinctRows, OneRowPerSource, Indexed
<1> QED
  BY <1>1, Invariance, PTL

\* The four ways a step changes the file.
LEMMA Effects ==
  ASSUME IInv, [Next]_vars
  PROVE  \/ db' = db
         \/ \E p \in Procs : /\ lock = p
                             /\ pc[p] = "create_commit"
                             /\ db.version \in {0, 2}
                             /\ db' = [db EXCEPT !.version = 2]
         \/ \E p \in Procs : /\ lock = p
                             /\ pc[p] = "upgrade_commit"
                             /\ db.version = 1
                             /\ Migrated(db, db', seen[p])
         \/ \E r \in Requests :
              /\ Storable(db, r)
              /\ \/ db' = ReplaceRow(db, r, NoDoc) /\ lock = NoProc /\ db.version = 1
                 \/ /\ db' = PutResult(db, r) /\ db.version = 2
                    /\ \E p \in Procs : lock = p /\ pc[p] = "put_commit" /\ r = req[p]
         \/ \E n \in Names :
              /\ db.specs[n] # NoSpec
              /\ db' = DeleteSpecs(db, {n})
              /\ \E p \in Procs : lock = p /\ pc[p] = "delete_commit"
<1>1. CASE UNCHANGED vars
  BY <1>1 DEF vars
<1>2. ASSUME NEW r \in Requests, OldBuildPut(r)
      PROVE  /\ Storable(db, r) /\ db.version = 1
             /\ db' = ReplaceRow(db, r, NoDoc) /\ lock = NoProc
  BY <1>2 DEF OldBuildPut, Publish, Storable
<1>3. ASSUME NEW p \in Procs, Start(p) \/ Fail(p) \/ Exit(p)
      PROVE  db' = db
  BY <1>3 DEF Start, Open, PutSelect, DeleteMeta, EndEarly, Fail, Exit, Rollback
<1>4. ASSUME NEW p \in Procs, CreateCommit(p)
      PROVE  /\ lock = p /\ pc[p] = "create_commit" /\ db.version \in {0, 2}
             /\ db' = [db EXCEPT !.version = 2]
  BY <1>4 DEF CreateCommit, Commit, Publish, IInv, PlaceInv
<1>5. ASSUME NEW p \in Procs, UpgradeCommit(p)
      PROVE  /\ lock = p /\ pc[p] = "upgrade_commit" /\ db.version = 1
             /\ Migrated(db, db', seen[p])
  BY <1>5 DEF UpgradeCommit, Commit, Publish, IInv, PlaceInv
<1>6. ASSUME NEW p \in Procs, PutCommit(p)
      PROVE  /\ lock = p /\ pc[p] = "put_commit" /\ db.version = 2
             /\ req[p] \in Requests /\ Storable(db, req[p])
             /\ db' = PutResult(db, req[p])
  BY <1>6 DEF PutCommit, Commit, Publish, IInv, PlaceInv, PutPCs
<1>7. ASSUME NEW p \in Procs, DeleteCommit(p)
      PROVE  /\ lock = p /\ pc[p] = "delete_commit"
             /\ req[p].name \in Names /\ db.specs[req[p].name] # NoSpec
             /\ db' = DeleteSpecs(db, {req[p].name})
  BY <1>7 DEF DeleteCommit, Commit, Publish, IInv, PlaceInv, DeletePCs, Requests
<1>8. ASSUME NEW p \in Procs, Continue(p)
      PROVE  \/ db' = db
             \/ CreateCommit(p) \/ UpgradeCommit(p) \/ PutCommit(p) \/ DeleteCommit(p)
  BY <1>8 DEF Continue, CreateTables, CreateStamp, UpgradeRead, UpgradeAlter, UpgradeLost,
     UpgradeFill, UpgradeForeignKey, BusyTimeout, WriteConflict, PutRow, PutCatalog,
     DeleteSelect, DeleteRows, Rollback
<1> QED
  BY <1>1, <1>2, <1>3, <1>4, <1>5, <1>6, <1>7, <1>8 DEF Next

\* What each of them does to the specs table.
LEMMA PutRows ==
  ASSUME NEW d, DbInv(d), NEW r \in Requests, Storable(d, r), NEW e,
         e = ReplaceRow(d, r, NoDoc) \/ e = PutResult(d, r)
  PROVE  /\ e.version = d.version
         /\ \A n \in Names : n # r.name =>
              e.specs[n] = IF d.specs[n] # NoSpec /\ d.specs[n].source = r.source
                           THEN NoSpec ELSE d.specs[n]
         /\ e.specs[r.name] \in Rows
         /\ e.specs[r.name].id = RowIdFor(d, r.name)
         /\ e.specs[r.name].source = r.source
         /\ e.specs[r.name].doc = r.doc
<1>1. PICK f \in DocOrNone : e.version = ReplaceRow(d, r, f).version /\ e.specs = ReplaceRow(d, r, f).specs
  <2>0. r.doc \in Docs /\ RowIdFor(d, r.name) \in Ids
    BY DEF Requests, Storable
  <2>1. NoDoc \in DocOrNone /\ r.doc \in DocOrNone
    BY <2>0 DEF DocOrNone
  <2>2. ReplaceRow(d, r, r.doc) \in Databases
    BY <2>1, ReplaceRowInv, Zenon
  <2>3. CASE e = PutResult(d, r)
    BY <2>0, <2>1, <2>2, <2>3, WriteCatalogFields DEF PutResult
  <2> QED
    BY <2>1, <2>3
<1> DEFINE u == ReplaceRow(d, r, f)
           row == [id |-> RowIdFor(d, r.name), source |-> r.source,
                   doc |-> r.doc, sha |-> r.doc, csha |-> f]
<1>2. /\ u.version = d.version
      /\ \A n \in Names : n # r.name =>
           u.specs[n] = IF d.specs[n] # NoSpec /\ d.specs[n].source = r.source
                        THEN NoSpec ELSE d.specs[n]
      /\ u.specs[r.name] = row
  BY ReplaceRowInv
<1>3. row \in Rows
  BY DEF Rows, Requests, Storable
<1> HIDE DEF u
<1> QED
  BY <1>1, <1>2, <1>3 DEF u

LEMMA DeleteRowsOnly ==
  ASSUME NEW d, NEW m \in Names
  PROVE  /\ DeleteSpecs(d, {m}).version = d.version
         /\ \A n \in Names : DeleteSpecs(d, {m}).specs[n] =
                               IF n = m THEN NoSpec ELSE d.specs[n]
BY DEF DeleteSpecs

-----------------------------------------------------------------------------
(* Action properties *)

\* An id, once given to a name and a source, is never another spec's.
THEOREM IdentityTheorem == Spec => IdentityStable
<1> DEFINE Keeps(n) == db'.specs[n] # NoSpec =>
                         \/ db'.specs[n].id >= db.nextId
                         \/ /\ db.specs[n] # NoSpec
                            /\ db.specs[n].id = db'.specs[n].id
                            /\ db.specs[n].source = db'.specs[n].source
<1>1. ASSUME IInv, [Next]_vars
      PROVE  db' = db \/ \A n \in Names : Keeps(n)
  <2>0. DbInv(db) /\ db \in Databases
    BY <1>1 DEF IInv, DbInv
  <2>1. CASE db' = [db EXCEPT !.version = 2]
    BY <2>0, <2>1 DEF Databases
  <2>2. CASE \E p \in Procs : Migrated(db, db', seen[p])
    BY <2>2 DEF Migrated
  <2>3. ASSUME NEW r \in Requests, Storable(db, r),
               db' = ReplaceRow(db, r, NoDoc) \/ db' = PutResult(db, r), NEW n \in Names
        PROVE  Keeps(n)
    <3>1. /\ n # r.name => db'.specs[n] = IF db.specs[n] # NoSpec /\ db.specs[n].source = r.source
                                          THEN NoSpec ELSE db.specs[n]
          /\ db'.specs[r.name].id = RowIdFor(db, r.name)
          /\ db'.specs[r.name].source = r.source
      BY <2>0, <2>3, PutRows
    <3>2. r.name \in Names /\ db.nextId \in Nat
      BY <2>0 DEF Requests, Databases
    <3> QED
      BY <2>3, <3>1, <3>2 DEF Storable, RowIdFor
  <2>4. ASSUME NEW m \in Names, db' = DeleteSpecs(db, {m}), NEW n \in Names
        PROVE  Keeps(n)
    BY <2>4, DeleteRowsOnly
  <2> HIDE DEF Keeps
  <2> QED
    BY <1>1, <2>1, <2>2, <2>3, <2>4, Effects DEF Keeps
<1>2. IInv /\ [Next]_vars => [\A n \in Names : Keeps(n)]_db
  BY <1>1
<1> QED
  BY <1>2, Invariance, PTL DEF Spec, IdentityStable

\* Only migrations change the version; they end at 2 and keep every document.
THEOREM MigrationKeepsTheorem == Spec => MigrationKeepsDocuments
<1> DEFINE Kept == /\ db.version < SchemaVersion
                   /\ db'.version = SchemaVersion
                   /\ Indexed(db') = Indexed(db)
                   /\ \A n \in Indexed(db) :
                        /\ db'.specs[n].id = db.specs[n].id
                        /\ db'.specs[n].source = db.specs[n].source
                        /\ db'.specs[n].doc = db.specs[n].doc
<1>1. ASSUME IInv, [Next]_vars
      PROVE  db' = db \/ (db'.version # db.version => Kept)
  <2>0. DbInv(db) /\ db \in Databases
    BY <1>1 DEF IInv, DbInv
  <2>1. CASE db.version \in {0, 2} /\ db' = [db EXCEPT !.version = 2]
    BY <2>0, <2>1 DEF Databases, Indexed, SchemaVersion
  <2>2. CASE db.version = 1 /\ \E p \in Procs : Migrated(db, db', seen[p])
    BY <2>2 DEF Migrated, Indexed, SchemaVersion
  <2>3. ASSUME NEW r \in Requests, Storable(db, r),
               db' = ReplaceRow(db, r, NoDoc) \/ db' = PutResult(db, r)
        PROVE  db'.version = db.version
    BY <2>0, <2>3, PutRows
  <2>4. ASSUME NEW m \in Names, db' = DeleteSpecs(db, {m})
        PROVE  db'.version = db.version
    BY <2>4, DeleteRowsOnly
  <2> HIDE DEF Kept
  <2> QED
    BY <1>1, <2>1, <2>2, <2>3, <2>4, Effects
<1>2. IInv /\ [Next]_vars => [db'.version # db.version => Kept]_db
  BY <1>1
<1> QED
  BY <1>2, Invariance, PTL DEF Spec, MigrationKeepsDocuments

\* A migration leaves every spec answerable that parses and that no older build
\* rewrote behind its back.
THEOREM MigrationRebuildsTheorem == Spec => MigrationRebuilds
<1> DEFINE Fresh(p, n) == \/ Ready(db', n)
                          \/ db.specs[n].doc \in Unparseable
                          \/ seen[p][n] # db.specs[n]
           Rebuilds == \A p \in Procs : pc[p] = "upgrade_commit" /\ db' # db =>
                         \A n \in Indexed(db) : Fresh(p, n)
<1>1. ASSUME IInv, [Next]_vars, db' # db, NEW p \in Procs, pc[p] = "upgrade_commit",
             NEW n \in Indexed(db)
      PROVE  Fresh(p, n)
  <2>0. /\ lock = p /\ NoProc \notin Procs
        /\ \A q \in Procs : lock = q => q = p
        /\ pc[p] \notin {"create_commit", "put_commit", "delete_commit"}
    BY <1>1, NoProcAssumption DEF IInv, LockInv, LockedPCs
  <2>1. Migrated(db, db', seen[p])
    BY <1>1, <2>0, Effects
  <2> QED
    BY <2>1 DEF Migrated, Indexed
<1>2. IInv /\ [Next]_vars => [Rebuilds]_db
  <2> HIDE DEF Fresh
  <2> QED
    BY <1>1
<1> QED
  BY <1>2, Invariance, PTL DEF Spec, MigrationRebuilds

-----------------------------------------------------------------------------
(* Refinement *)

LEMMA IndexOf ==
  ASSUME NEW d \in Databases
  PROVE  \A n \in Names :
           /\ Index(d)[n] = NoSpec <=> d.specs[n] = NoSpec
           /\ d.specs[n] # NoSpec => Index(d)[n].source = d.specs[n].source
<1>1. \A n \in Names : d.specs[n] # NoSpec =>
        [source |-> d.specs[n].source, doc |-> d.specs[n].doc] \in [source : Sources, doc : Docs]
  BY DEF Databases, Rows
<1>2. NoSpec \notin [source : Sources, doc : Docs]
  BY NoSpecAssumption
<1> QED
  BY <1>1, <1>2 DEF Index

LEMMA SameRowsSameIndex ==
  ASSUME NEW d, NEW e,
         \A n \in Names : /\ e.specs[n] = NoSpec <=> d.specs[n] = NoSpec
                          /\ d.specs[n] # NoSpec => /\ e.specs[n].source = d.specs[n].source
                                                    /\ e.specs[n].doc = d.specs[n].doc
  PROVE  Index(e) = Index(d)
BY DEF Index

\* The store implements the index: a Put's commit (or an older build's) is one
\* Store, a Delete's commit is one Remove, and everything else shows nothing.
THEOREM RefinementTheorem == Spec => ImplementsSpecIndex
<1>1. Init => Promise!Init
  BY DEF Init, EmptyStore, NoRows, Index, Promise!Init, Promise!EmptyIndex
<1>2. ASSUME IInv, [Next]_vars
      PROVE  Promise!Next \/ Index(db)' = Index(db)
  <2>0. DbInv(db) /\ db \in Databases
    BY <1>2 DEF IInv, DbInv
  <2>1. CASE db' = db
    BY <2>1
  <2>2. CASE db' = [db EXCEPT !.version = 2]
    BY <2>0, <2>2 DEF Databases, Index
  <2>3. CASE \E p \in Procs : Migrated(db, db', seen[p])
    BY <2>3, SameRowsSameIndex DEF Migrated
  <2>4. ASSUME NEW r \in Requests, Storable(db, r),
               db' = ReplaceRow(db, r, NoDoc) \/ db' = PutResult(db, r)
        PROVE  Promise!Next
    <3>0. r.name \in Names /\ r.source \in Sources /\ r.doc \in Docs
      BY DEF Requests
    <3>1. /\ \A n \in Names : n # r.name =>
               db'.specs[n] = IF db.specs[n] # NoSpec /\ db.specs[n].source = r.source
                              THEN NoSpec ELSE db.specs[n]
          /\ db'.specs[r.name] # NoSpec
          /\ db'.specs[r.name].source = r.source
          /\ db'.specs[r.name].doc = r.doc
      <4>1. NoSpec \notin Rows
        BY NoSpecAssumption
      <4> QED
        BY <2>0, <2>4, <4>1, PutRows
    <3>2. \A n \in Names : Promise!Owned(Index(db), n, r.source) <=>
            db.specs[n] # NoSpec /\ db.specs[n].source = r.source
      BY <2>0, IndexOf DEF Promise!Owned
    <3>3. Index(db)' = [n \in Names |-> IF n = r.name THEN [source |-> r.source, doc |-> r.doc]
                                        ELSE IF Promise!Owned(Index(db), n, r.source) THEN NoSpec
                                        ELSE Index(db)[n]]
      BY <3>1, <3>2 DEF Index
    <3>4. Index(db)[r.name] # NoSpec => Index(db)[r.name].source = r.source
      BY <2>0, <2>4, <3>0, IndexOf DEF Storable
    <3>5. Promise!Store(r.name, r.source, r.doc)
      BY <3>3, <3>4 DEF Promise!Store, Promise!Stored, Promise!MayStore
    <3> QED
      BY <3>0, <3>5 DEF Promise!Next
  <2>5. ASSUME NEW n \in Names, db.specs[n] # NoSpec, db' = DeleteSpecs(db, {n})
        PROVE  Promise!Next
    <3>1. Index(db)' = [Index(db) EXCEPT ![n] = NoSpec]
      BY <2>5, DeleteRowsOnly DEF Index
    <3>2. Promise!Remove(n)
      BY <2>0, <2>5, <3>1, IndexOf DEF Promise!Remove
    <3> QED
      BY <3>2 DEF Promise!Next
  <2> QED
    BY <1>2, <2>1, <2>2, <2>3, <2>4, <2>5, Effects
<1>3. IInv /\ [Next]_vars => [Promise!Next]_(Index(db))
  BY <1>2
<1> QED
  BY <1>1, <1>3, Invariance, PTL DEF Spec, ImplementsSpecIndex, Promise!Spec
=============================================================================
