------------------------------ MODULE SpecStore ------------------------------
(***************************************************************************)
(* internal/store: one SQLite file shared by the processes that write it   *)
(* (`swagger-mcp index`, `unindex` and the server's index_spec tool).      *)
(*                                                                         *)
(* Every process owns one connection (SetMaxOpenConns(1)).  A transaction  *)
(* is SQLite's deferred BEGIN in WAL mode: its first SELECT fixes a        *)
(* snapshot; its first write takes the single write lock and fails at once *)
(* (busy_timeout does not apply) when the lock is held or when another     *)
(* transaction has committed since the snapshot.  A transaction whose      *)
(* first statement is a write waits for the lock up to busy_timeout.       *)
(* A crash, or any failing statement, drops the uncommitted copy.          *)
(***************************************************************************)
EXTENDS Naturals, FiniteSets

CONSTANTS
  Procs,          \* writer processes
  Names,          \* spec names
  Sources,        \* canonical URLs and paths
  Docs,           \* document contents; a content stands for its SHA-256 too
  Unparseable,    \* contents an older build stored and this one cannot parse
  MaxId,          \* bound: row ids the AUTOINCREMENT sequence hands out
  NoProc, NoSpec, NoDoc

ASSUME MaxIdAssumption == MaxId \in Nat \ {0}
ASSUME UnparseableAssumption == Unparseable \subseteq Docs
ASSUME NoProcAssumption == NoProc \notin Procs
ASSUME NoDocAssumption == NoDoc \notin Docs

SchemaVersion == 2
Ids == 1..MaxId

CatalogTables == {"endpoints", "endpoint_tags", "endpoint_fields",
                  "schemas", "tags", "tag_methods"}

DocOrNone == Docs \cup {NoDoc}

\* One row of the specs table.  csha is catalog_sha256; NoDoc stands for ''.
Rows == [id : Ids, source : Sources, doc : Docs, sha : Docs,
         csha : DocOrNone]

\* The rows one spec has in one catalog table are known by the document they
\* were derived from; NoDoc says there are none.
Catalogs == [CatalogTables -> DocOrNone]

Databases == [version : 0..(SchemaVersion + 1),
              specs   : [Names -> Rows \cup {NoSpec}],
              cat     : [Ids -> Catalogs],
              nextId  : 1..(MaxId + 1)]

Requests == [name : Names, source : Sources, doc : Docs]
NoRows == [n \in Names |-> NoSpec]

ASSUME NoSpecAssumption == NoSpec \notin Rows \cup Requests \cup [source : Sources, doc : Docs]

VARIABLES
  db,      \* the committed contents of the store file
  wal,     \* the lock holder's uncommitted copy; equal to db without one
  lock,    \* holder of SQLite's write lock, or NoProc
  pc,      \* where each process is
  snap,    \* its transaction's read snapshot: "none", "fresh" or "stale"
  req,     \* the record Put stores, or the metadata Delete has read
  seen,    \* the specs rows upgradeV1 read before its transaction
  out      \* the outcome of its last operation

vars == <<db, wal, lock, pc, snap, req, seen, out>>

\* Where a process is between two statements of an operation.
OpeningPCs == {"create", "create_stamp", "create_commit",
               "upgrade_read", "upgrade_alter", "upgrade_fill", "upgrade_commit"}
PutPCs == {"put_row", "put_catalog", "put_commit"}
DeletePCs == {"delete_select", "delete_rows", "delete_commit"}
BusyPCs == OpeningPCs \cup PutPCs \cup DeletePCs

\* Where a process holds the write lock.
LockedPCs == {"create_commit", "upgrade_fill", "upgrade_commit",
              "put_catalog", "put_commit", "delete_commit"}

Outcomes == {"none", "ok", "newer", "refused", "not_found", "no_rows",
             "busy", "failed"}

-----------------------------------------------------------------------------
(* Tables *)

Indexed(d) == {n \in Names : d.specs[n] # NoSpec}
IdsOf(d, S) == {d.specs[n].id : n \in S \cap Indexed(d)}

EmptyCatalog == [t \in CatalogTables |-> NoDoc]

\* The names other than n that hold source s.
OtherNames(d, n, s) == {m \in Indexed(d) \ {n} : d.specs[m].source = s}

\* Mutant: foreign keys are off on this connection, nothing cascades.
DeleteSpecs_NoCascade(d, S) ==
  [d EXCEPT !.specs = [n \in Names |-> IF n \in S THEN NoSpec ELSE d.specs[n]]]

\* DELETE FROM specs, and the catalog rows ON DELETE CASCADE takes with it.
DeleteSpecs(d, S) ==
  [d EXCEPT !.specs = [n \in Names |-> IF n \in S THEN NoSpec ELSE d.specs[n]],
            !.cat = [i \in Ids |-> IF i \in IdsOf(d, S) THEN EmptyCatalog
                                   ELSE d.cat[i]]]

\* Mutant: a table without AUTOINCREMENT hands out the largest id in use plus one.
RowIdFor_Reusing(d, n) ==
  IF d.specs[n] = NoSpec
  THEN CHOOSE i \in 1..(MaxId + 1) : /\ \A j \in IdsOf(d, Names) : j < i
                                     /\ i - 1 \in IdsOf(d, Names) \cup {0}
  ELSE d.specs[n].id

\* INSERT INTO specs ... ON CONFLICT(name) DO UPDATE: an existing row keeps its
\* id, a new one takes the next of the AUTOINCREMENT sequence.
RowIdFor(d, n) == IF d.specs[n] = NoSpec THEN d.nextId ELSE d.specs[n].id

\* Mutant: INSERT OR REPLACE, which gives an existing spec a new row and id.
UpsertSpec_Replacing(d, r, fingerprint) ==
  [d EXCEPT !.specs = [d.specs EXCEPT
                         ![r.name] = [id |-> d.nextId, source |-> r.source,
                                      doc |-> r.doc, sha |-> r.doc, csha |-> fingerprint]],
            !.nextId = d.nextId + 1]

UpsertSpec(d, r, fingerprint) ==
  [d EXCEPT !.specs = [d.specs EXCEPT
                         ![r.name] = [id |-> RowIdFor(d, r.name), source |-> r.source,
                                      doc |-> r.doc, sha |-> r.doc, csha |-> fingerprint]],
            !.nextId = IF d.specs[r.name] = NoSpec THEN d.nextId + 1 ELSE d.nextId]

\* writeCatalog: every table is emptied for this id, then filled from one document.
WriteCatalog(d, id, doc) ==
  [d EXCEPT !.cat = [d.cat EXCEPT ![id] = [t \in CatalogTables |-> doc]]]

\* Mutant: the row the source has under another name is left there.
ReplaceRow_KeepingOldName(d, r, fingerprint) == UpsertSpec(d, r, fingerprint)

\* The specs rows after Put's DELETE and INSERT.
ReplaceRow(d, r, fingerprint) ==
  UpsertSpec(DeleteSpecs(d, OtherNames(d, r.name, r.source)), r, fingerprint)

\* An empty store of the given layout version.
EmptyStore(v) == [version |-> v,
                  specs   |-> NoRows,
                  cat     |-> [i \in Ids |-> EmptyCatalog],
                  nextId  |-> 1]

-----------------------------------------------------------------------------
(* Transactions *)

\* Mutant: the write only waits for the lock, as if each statement read anew.
CanUpgrade_Stale(p) == lock = NoProc

\* The first write of a transaction that has already read.
CanUpgrade(p) == lock = NoProc /\ snap[p] = "fresh"

\* A commit publishes the copy; the snapshots of open transactions grow stale.
Publish(d, p) ==
  /\ db' = d
  /\ wal' = d
  /\ snap' = [q \in Procs |-> IF q = p \/ snap[q] = "none" THEN "none" ELSE "stale"]

\* An operation that ends drops its arguments.
Forget(p) ==
  /\ req' = [req EXCEPT ![p] = NoSpec]
  /\ seen' = [seen EXCEPT ![p] = NoRows]

Commit(p, from) ==
  /\ pc[p] = from
  /\ lock = p
  /\ Publish(wal, p)
  /\ lock' = NoProc
  /\ pc' = [pc EXCEPT ![p] = "idle"]
  /\ out' = [out EXCEPT ![p] = "ok"]
  /\ Forget(p)

\* A failed open leaves no handle behind; any other failure keeps it.
Resting(p) == IF pc[p] \in OpeningPCs THEN "closed" ELSE "idle"

\* defer tx.Rollback(): the lock and the snapshot go, the file is untouched.
Rollback(p, rest, outcome) ==
  /\ lock' = IF lock = p THEN NoProc ELSE lock
  /\ wal' = IF lock = p THEN db ELSE wal
  /\ snap' = [snap EXCEPT ![p] = "none"]
  /\ pc' = [pc EXCEPT ![p] = rest]
  /\ out' = [out EXCEPT ![p] = outcome]
  /\ Forget(p)
  /\ UNCHANGED db

\* An operation that ends before it opened a transaction.
EndEarly(p, at, outcome) ==
  /\ pc' = [pc EXCEPT ![p] = at]
  /\ out' = [out EXCEPT ![p] = outcome]
  /\ UNCHANGED <<db, wal, lock, snap, req, seen>>

-----------------------------------------------------------------------------
(* Open and migrate *)

\* Open, and migrate's switch over the layout version it reads.
Open(p) ==
  /\ pc[p] = "closed"
  /\ \/ db.version = SchemaVersion /\ EndEarly(p, "idle", "none")
     \/ db.version > SchemaVersion /\ EndEarly(p, "closed", "newer")
     \/ db.version = 1 /\ EndEarly(p, "upgrade_read", "none")
     \/ db.version = 0 /\ EndEarly(p, "create", "none")

\* createSchema's CREATE TABLE IF NOT EXISTS: on an empty file the first one
\* writes; on a file another process has created meanwhile all of them only read.
CreateTables(p) ==
  /\ pc[p] = "create"
  /\ \/ /\ db.version = 0
        /\ lock = NoProc
        /\ lock' = p
        /\ wal' = db
        /\ UNCHANGED snap
     \/ /\ db.version # 0
        /\ snap' = [snap EXCEPT ![p] = "fresh"]
        /\ UNCHANGED <<wal, lock>>
  /\ pc' = [pc EXCEPT ![p] = "create_stamp"]
  /\ UNCHANGED <<db, req, seen, out>>

\* setUserVersion inside the same transaction.
CreateStamp(p) ==
  /\ pc[p] = "create_stamp"
  /\ lock = p \/ CanUpgrade(p)
  /\ wal' = [db EXCEPT !.version = SchemaVersion]
  /\ lock' = p
  /\ pc' = [pc EXCEPT ![p] = "create_commit"]
  /\ UNCHANGED <<db, snap, req, seen, out>>

CreateCommit(p) == Commit(p, "create_commit")

\* upgradeV1 reads the stored specs before its transaction begins.
UpgradeRead(p) ==
  /\ pc[p] = "upgrade_read"
  /\ seen' = [seen EXCEPT ![p] = db.specs]
  /\ pc' = [pc EXCEPT ![p] = "upgrade_alter"]
  /\ UNCHANGED <<db, wal, lock, snap, req, out>>

\* ALTER TABLE adds the fingerprint column (default '') and the v2 catalog
\* tables are created empty.
Altered(d) ==
  [d EXCEPT !.specs = [n \in Names |-> IF d.specs[n] = NoSpec THEN NoSpec
                                       ELSE [d.specs[n] EXCEPT !.csha = NoDoc]],
            !.cat = [i \in Ids |-> EmptyCatalog]]

UpgradeAlter(p) ==
  /\ pc[p] = "upgrade_alter"
  /\ lock = NoProc
  /\ db.version = 1
  /\ lock' = p
  /\ wal' = Altered(db)
  /\ pc' = [pc EXCEPT ![p] = "upgrade_fill"]
  /\ UNCHANGED <<db, snap, req, seen, out>>

\* Another process upgraded first: the column is already there and ALTER fails.
UpgradeLost(p) ==
  /\ pc[p] = "upgrade_alter"
  /\ lock = NoProc
  /\ db.version # 1
  /\ Rollback(p, "closed", "failed")

\* What upgradeV1 read of the row that has id i, if it can be parsed.
Rebuildable(read, i) ==
  {n \in Names : /\ read[n] # NoSpec
                 /\ read[n].id = i
                 /\ read[n].doc \notin Unparseable}

\* Mutant: the row is marked with the fingerprint it has now, not the one read.
Rebuilt_MarkingCurrent(w, read) ==
  [w EXCEPT
    !.version = SchemaVersion,
    !.cat = [i \in Ids |->
               IF Rebuildable(read, i) = {} THEN w.cat[i]
               ELSE [t \in CatalogTables |-> read[CHOOSE n \in Rebuildable(read, i) : TRUE].doc]],
    !.specs = [n \in Names |->
                 IF w.specs[n] = NoSpec \/ Rebuildable(read, w.specs[n].id) = {}
                 THEN w.specs[n]
                 ELSE [w.specs[n] EXCEPT !.csha = w.specs[n].sha]]]

\* Mutant: a document that does not parse is dropped instead of skipped.
Rebuilt_Dropping(w, read) ==
  [w EXCEPT
    !.version = SchemaVersion,
    !.specs = [n \in Names |->
                 IF w.specs[n] = NoSpec \/ Rebuildable(read, w.specs[n].id) = {}
                 THEN NoSpec ELSE w.specs[n]]]

\* Mutant: the catalog is written and its fingerprint forgotten.
Rebuilt_Unmarked(w, read) ==
  [w EXCEPT
    !.version = SchemaVersion,
    !.cat = [i \in Ids |->
               IF Rebuildable(read, i) = {} THEN w.cat[i]
               ELSE [t \in CatalogTables |-> read[CHOOSE n \in Rebuildable(read, i) : TRUE].doc]]]

\* The catalog of every document read is rebuilt and marked with the fingerprint
\* read beside it; one that does not parse is skipped.  UPDATE ... WHERE id = ?.
Rebuilt(w, read) ==
  LET chosen(i) == read[CHOOSE n \in Rebuildable(read, i) : TRUE] IN
  [w EXCEPT
    !.version = SchemaVersion,
    !.cat = [i \in Ids |-> IF Rebuildable(read, i) = {} THEN w.cat[i]
                           ELSE [t \in CatalogTables |-> chosen(i).doc]],
    !.specs = [n \in Names |->
                 IF w.specs[n] = NoSpec \/ Rebuildable(read, w.specs[n].id) = {}
                 THEN w.specs[n]
                 ELSE [w.specs[n] EXCEPT !.csha = chosen(w.specs[n].id).sha]]]

\* The rows to rebuild are still there: a catalog row of a vanished id breaks
\* the foreign key.
UpgradeRowsExist(w, read) ==
  \A i \in Ids : Rebuildable(read, i) # {} => i \in IdsOf(w, Names)

UpgradeFill(p) ==
  /\ pc[p] = "upgrade_fill"
  /\ UpgradeRowsExist(wal, seen[p])
  /\ wal' = Rebuilt(wal, seen[p])
  /\ pc' = [pc EXCEPT ![p] = "upgrade_commit"]
  /\ UNCHANGED <<db, lock, snap, req, seen, out>>

UpgradeForeignKey(p) ==
  /\ pc[p] = "upgrade_fill"
  /\ ~UpgradeRowsExist(wal, seen[p])
  /\ Rollback(p, "closed", "failed")

UpgradeCommit(p) == Commit(p, "upgrade_commit")

\* busy_timeout ran out on a transaction that starts with a write.
BusyTimeout(p) ==
  /\ pc[p] \in {"create", "upgrade_alter"}
  /\ lock # NoProc
  /\ Rollback(p, "closed", "busy")

-----------------------------------------------------------------------------
(* Put *)

\* BEGIN, then SELECT source: a name that belongs to another source is refused.
PutSelect(p, r) ==
  /\ pc[p] = "idle"
  /\ RowIdFor(db, r.name) \in Ids           \* bound MaxId
  /\ IF db.specs[r.name] # NoSpec /\ db.specs[r.name].source # r.source
     THEN EndEarly(p, "idle", "refused")
     ELSE /\ req' = [req EXCEPT ![p] = r]
          /\ snap' = [snap EXCEPT ![p] = "fresh"]
          /\ pc' = [pc EXCEPT ![p] = "put_row"]
          /\ out' = [out EXCEPT ![p] = "none"]
          /\ UNCHANGED <<db, wal, lock, seen>>

\* DELETE the source's row under any other name, INSERT or UPDATE this one.
PutRow(p) ==
  /\ pc[p] = "put_row"
  /\ CanUpgrade(p)
  /\ wal' = ReplaceRow(db, req[p], req[p].doc)
  /\ lock' = p
  /\ pc' = [pc EXCEPT ![p] = "put_catalog"]
  /\ UNCHANGED <<db, snap, req, seen, out>>

\* SELECT id, writeCatalog.
PutCatalog(p) ==
  /\ pc[p] = "put_catalog"
  /\ wal' = WriteCatalog(wal, wal.specs[req[p].name].id, req[p].doc)
  /\ pc' = [pc EXCEPT ![p] = "put_commit"]
  /\ UNCHANGED <<db, lock, snap, req, seen, out>>

PutCommit(p) == Commit(p, "put_commit")

-----------------------------------------------------------------------------
(* Delete *)

\* Meta, read before the transaction; it is what Delete will report.
DeleteMeta(p, n) ==
  /\ pc[p] = "idle"
  /\ IF db.specs[n] = NoSpec
     THEN EndEarly(p, "idle", "not_found")
     ELSE /\ req' = [req EXCEPT ![p] = [name |-> n, source |-> db.specs[n].source,
                                        doc |-> db.specs[n].doc]]
          /\ pc' = [pc EXCEPT ![p] = "delete_select"]
          /\ out' = [out EXCEPT ![p] = "none"]
          /\ UNCHANGED <<db, wal, lock, snap, seen>>

\* BEGIN, SELECT id: sql.ErrNoRows here is not reported as ErrNotFound.
DeleteSelect(p) ==
  /\ pc[p] = "delete_select"
  /\ IF db.specs[req[p].name] = NoSpec
     THEN Rollback(p, "idle", "no_rows")
     ELSE /\ snap' = [snap EXCEPT ![p] = "fresh"]
          /\ pc' = [pc EXCEPT ![p] = "delete_rows"]
          /\ UNCHANGED <<db, wal, lock, req, seen, out>>

\* Every catalog table is cleared for the id, then the row itself goes.
DeleteRows(p) ==
  /\ pc[p] = "delete_rows"
  /\ CanUpgrade(p)
  /\ wal' = DeleteSpecs(db, {req[p].name})
  /\ lock' = p
  /\ pc' = [pc EXCEPT ![p] = "delete_commit"]
  /\ UNCHANGED <<db, snap, req, seen, out>>

DeleteCommit(p) == Commit(p, "delete_commit")

-----------------------------------------------------------------------------
(* Failure *)

\* Mutant: a stale snapshot is waited out as if it were a held lock.
WriteConflict_Waiting(p) ==
  /\ pc[p] \in {"create_stamp", "put_row", "delete_rows"}
  /\ lock \notin {p, NoProc}
  /\ Rollback(p, Resting(p), "busy")

\* SQLITE_BUSY or SQLITE_BUSY_SNAPSHOT at the first write of a transaction that
\* has read: returned to the caller at once.
WriteConflict(p) ==
  /\ pc[p] \in {"create_stamp", "put_row", "delete_rows"}
  /\ lock # p
  /\ ~CanUpgrade(p)
  /\ Rollback(p, Resting(p), "busy")

\* Any statement may fail (I/O, full disk).
Fail(p) ==
  /\ pc[p] \in BusyPCs
  /\ Rollback(p, Resting(p), "failed")

\* The operation is over and the process exits, or it dies in the middle.
Exit(p) ==
  /\ pc[p] # "closed"
  /\ Rollback(p, "closed", "none")

\* A process of the older build, which only knows the version-1 layout.
OldBuildPut(r) ==
  /\ db.version = 1
  /\ lock = NoProc
  /\ db.specs[r.name] # NoSpec => db.specs[r.name].source = r.source
  /\ RowIdFor(db, r.name) \in Ids           \* bound MaxId
  /\ Publish(ReplaceRow(db, r, NoDoc), NoProc)
  /\ UNCHANGED <<lock, pc, req, seen, out>>

-----------------------------------------------------------------------------

NewDocs == Docs \ Unparseable       \* the callers parse what they store

\* What a process inside an operation does next, failures aside.
Continue(p) ==
  \/ CreateTables(p) \/ CreateStamp(p) \/ CreateCommit(p)
  \/ UpgradeRead(p) \/ UpgradeAlter(p) \/ UpgradeLost(p)
  \/ UpgradeFill(p) \/ UpgradeForeignKey(p) \/ UpgradeCommit(p)
  \/ BusyTimeout(p) \/ WriteConflict(p)
  \/ PutRow(p) \/ PutCatalog(p) \/ PutCommit(p)
  \/ DeleteSelect(p) \/ DeleteRows(p) \/ DeleteCommit(p)

Start(p) ==
  \/ Open(p)
  \/ \E r \in [name : Names, source : Sources, doc : NewDocs] : PutSelect(p, r)
  \/ \E n \in Names : DeleteMeta(p, n)

Init ==
  /\ db \in {EmptyStore(v) : v \in {0, 1, SchemaVersion + 1}}
  /\ wal = db
  /\ lock = NoProc
  /\ pc = [p \in Procs |-> "closed"]
  /\ snap = [p \in Procs |-> "none"]
  /\ req = [p \in Procs |-> NoSpec]
  /\ seen = [p \in Procs |-> NoRows]
  /\ out = [p \in Procs |-> "none"]

Next ==
  \/ \E p \in Procs : Start(p) \/ Continue(p) \/ Fail(p) \/ Exit(p)
  \/ \E r \in Requests : OldBuildPut(r)

Spec == Init /\ [][Next]_vars
LiveSpec == Spec /\ \A p \in Procs : WF_vars(Continue(p))

-----------------------------------------------------------------------------
(* Properties *)

\* Every variable stays in its range.
TypeOK ==
  /\ db \in Databases
  /\ wal \in Databases
  /\ lock \in Procs \cup {NoProc}
  /\ pc \in [Procs -> {"closed", "idle"} \cup BusyPCs]
  /\ snap \in [Procs -> {"none", "fresh", "stale"}]
  /\ req \in [Procs -> Requests \cup {NoSpec}]
  /\ seen \in [Procs -> [Names -> Rows \cup {NoSpec}]]
  /\ out \in [Procs -> Outcomes]

\* specRow.catalogReady (query.go:82): the two fingerprints of a row agree.
Ready(d, n) ==
  /\ d.version = SchemaVersion
  /\ d.specs[n] # NoSpec
  /\ d.specs[n].csha = d.specs[n].sha

\* A spec whose fingerprints agree has, in every table, exactly the catalog of
\* the document stored beside them (query.go:71-73, "prove the catalog is not
\* stale"), although upgradeV1 parses documents it read before its transaction
\* while an older build may still be writing.
CatalogIsOfDocument ==
  \A n \in Names : Ready(db, n) =>
    \A t \in CatalogTables : db.cat[db.specs[n].id][t] = db.specs[n].doc

\* No catalog row belongs to an id that no spec has: renaming a source and
\* deleting a spec take every derived row along (store.go:418-420).
NoOrphanRows ==
  \A i \in Ids : db.cat[i] # EmptyCatalog => i \in IdsOf(db, Names)

\* Two specs share neither an id nor a source, so Put's INSERT never meets
\* UNIQUE(source) and a catalog row belongs to one spec (store.go:318-320).
OneRowPerSource ==
  \A m, n \in Indexed(db) :
    \/ db.specs[m].id = db.specs[n].id
    \/ db.specs[m].source = db.specs[n].source
    => m = n

\* An id, once given to a name and a source, is never another spec's: a query
\* that has read the id may go on reading rows by it (query.go:97), whatever
\* renames, deletes and inserts commit in between.
IdentityStable ==
  [][\A n \in Names : db'.specs[n] # NoSpec =>
       \/ db'.specs[n].id >= db.nextId
       \/ /\ db.specs[n] # NoSpec
          /\ db.specs[n].id = db'.specs[n].id
          /\ db.specs[n].source = db'.specs[n].source]_db

\* The layout version only moves to 2, and the step that moves it loses or
\* alters no stored document (store.go:239-242, "nothing is lost").
MigrationKeepsDocuments ==
  [][db'.version # db.version =>
       /\ db.version < SchemaVersion
       /\ db'.version = SchemaVersion
       /\ Indexed(db') = Indexed(db)
       /\ \A n \in Indexed(db) :
            /\ db'.specs[n].id = db.specs[n].id
            /\ db'.specs[n].source = db.specs[n].source
            /\ db'.specs[n].doc = db.specs[n].doc]_db

\* After the migration every spec whose document parses is answerable, unless
\* an older build rewrote it after the migration had read it.
MigrationRebuilds ==
  [][\A p \in Procs : pc[p] = "upgrade_commit" /\ db' # db =>
       \A n \in Indexed(db) :
         \/ Ready(db', n)
         \/ db.specs[n].doc \in Unparseable
         \/ seen[p][n] # db.specs[n]]_db

\* Every operation ends, by success, refusal, conflict, time-out or failure,
\* although other processes may hold the lock again and again.
EveryOperationEnds ==
  \A p \in Procs : pc[p] \in BusyPCs ~> pc[p] \notin BusyPCs

\* Delete "returns the metadata of what it removed" (store.go:398).
DeleteReportsWhatItRemoves ==
  \A p \in Procs : pc[p] = "delete_commit" =>
    /\ db.specs[req[p].name].source = req[p].source
    /\ db.specs[req[p].name].doc = req[p].doc

\* "An unknown name changes nothing and reports ErrNotFound" (store.go:398-399).
UnknownNameIsNotFound == \A p \in Procs : out[p] # "no_rows"

\* What the store promises, read off the committed specs table.
Index(d) ==
  [n \in Names |-> IF d.specs[n] = NoSpec THEN NoSpec
                   ELSE [source |-> d.specs[n].source, doc |-> d.specs[n].doc]]

Promise == INSTANCE SpecIndex WITH index <- Index(db)

\* Every store implements the index: no interleaving, crash, conflict or
\* migration shows anything but whole Stores and Removes that were allowed.
ImplementsSpecIndex == Promise!Spec
=============================================================================
