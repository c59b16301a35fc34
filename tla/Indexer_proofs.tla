---------------------------- MODULE Indexer_proofs ----------------------------
(***************************************************************************)
(* Proofs about Indexer.  Its runs drive the store through the store's own *)
(* steps, so every theorem of SpecStore holds of them; and a printed       *)
(* refresh command keeps the spec it was printed for.                      *)
(***************************************************************************)
EXTENDS Indexer, SpecStore_proofs

\* A Put in progress stores the task's record.
Writing(p) == task[p].at = "write" => pc[p] \in PutPCs /\ req[p] = Request(task[p])

\* A printed command indexes under the name it was printed for.
Faithful(p) == task[p].at # "none" /\ task[p].printed # NoName => task[p].name = task[p].printed

IndexerInv ==
  /\ IndexerTypeOK
  /\ \A p \in Procs : Writing(p) /\ Faithful(p)

-----------------------------------------------------------------------------
(* The store's steps *)

\* A process that is indexing has a task with every field.
LEMMA TaskFields ==
  ASSUME IndexerTypeOK, NEW p \in Procs, task[p].at # "none"
  PROVE  /\ task[p] \in Tasks
         /\ Request(task[p]) \in Requests
         /\ Request(task[p]) \in [name : Names, source : Sources, doc : NewDocs]
BY DEF IndexerTypeOK, NoTask, Tasks, Request, Requests, NewDocs

\* An indexer's step is one of the store's, or shows the store nothing.
LEMMA StoreSteps ==
  ASSUME IndexerTypeOK, [IndexerNext]_allVars
  PROVE  [Next]_vars
<1>1. ASSUME NEW p \in Procs, Put(p) PROVE Next
  BY <1>1, TaskFields DEF Put, Next, Start
<1>2. ASSUME NEW p \in Procs, NEW n \in Names, Unindex(p, n) PROVE Next
  BY <1>2 DEF Unindex, Next, Start
<1>3. ASSUME NEW p \in Procs, StoreStep(p) PROVE Next
  BY <1>3 DEF StoreStep, Next, Start
<1>4. ASSUME NEW r \in Requests, OldBuild(r) PROVE Next
  BY <1>4 DEF OldBuild, Next
<1>5. ASSUME NEW p \in Procs, ReadPrinted(p) \/ Compare(p) \/ Report(p)
      PROVE  UNCHANGED vars
  BY <1>5 DEF ReadPrinted, Read, Compare, Report
<1>6. ASSUME NEW p \in Procs, NEW via, NEW f, NEW o, NEW s, Read(p, via, f, o, s, NoName)
      PROVE  UNCHANGED vars
  BY <1>6 DEF Read
<1>7. CASE \/ \E s \in Sources, d \in Served : Edit(s, d)
           \/ \E n \in Names : PrintRefresh(n)
  BY <1>7 DEF Edit, PrintRefresh
<1>8. CASE UNCHANGED allVars
  BY <1>8 DEF allVars
<1> QED
  BY <1>1, <1>2, <1>3, <1>4, <1>5, <1>6, <1>7, <1>8 DEF IndexerNext

\* Where a process inside Put goes by a step of its own.
LEMMA PutGoesOn ==
  ASSUME TypeOK, NEW p \in Procs, pc[p] \in PutPCs,
         Open(p) \/ Continue(p) \/ Fail(p) \/ Exit(p)
  PROVE  \/ pc'[p] \in {"idle", "closed"}
         \/ pc'[p] \in PutPCs /\ req'[p] = req[p]
<1>1. ASSUME NEW rest \in {"idle", "closed"}, NEW outcome, Rollback(p, rest, outcome)
      PROVE  pc'[p] \in {"idle", "closed"}
  BY <1>1 DEF Rollback, TypeOK
<1>2. Resting(p) \in {"idle", "closed"}
  BY DEF Resting
<1>3. CASE Fail(p) \/ Exit(p) \/ WriteConflict(p)
  BY <1>1, <1>2, <1>3 DEF Fail, Exit, WriteConflict
<1>4. CASE PutRow(p) \/ PutCatalog(p)
  BY <1>4 DEF PutRow, PutCatalog, TypeOK, PutPCs
<1>5. CASE PutCommit(p)
  BY <1>5 DEF PutCommit, Commit, TypeOK
<1> QED
  BY <1>3, <1>4, <1>5 DEF PutPCs, Continue, Open, CreateTables, CreateStamp, CreateCommit,
     UpgradeRead, UpgradeAlter, UpgradeLost, UpgradeFill, UpgradeForeignKey, UpgradeCommit,
     BusyTimeout, DeleteSelect, DeleteRows, DeleteCommit, Commit

\* A step of one process leaves the place and the arguments of the others alone.
LEMMA OthersStay ==
  ASSUME TypeOK, NEW p \in Procs, NEW q \in Procs, q # p,
         \/ \E r : PutSelect(p, r)
         \/ \E n : DeleteMeta(p, n)
         \/ Open(p) \/ Continue(p) \/ Fail(p) \/ Exit(p)
  PROVE  pc'[q] = pc[q] /\ req'[q] = req[q]
<1>1. ASSUME NEW rest, NEW outcome, Rollback(p, rest, outcome)
      PROVE  pc'[q] = pc[q] /\ req'[q] = req[q]
  BY <1>1 DEF Rollback, Forget, TypeOK
<1>2. ASSUME NEW at, NEW outcome, EndEarly(p, at, outcome)
      PROVE  pc'[q] = pc[q] /\ req'[q] = req[q]
  BY <1>2 DEF EndEarly, TypeOK
<1>3. ASSUME NEW from, Commit(p, from)
      PROVE  pc'[q] = pc[q] /\ req'[q] = req[q]
  BY <1>3 DEF Commit, Forget, TypeOK
<1>4. CASE \/ \E r : PutSelect(p, r)
           \/ \E n : DeleteMeta(p, n)
           \/ Open(p)
  BY <1>2, <1>4 DEF PutSelect, DeleteMeta, Open, TypeOK
<1>5. CASE Fail(p) \/ Exit(p)
  BY <1>1, <1>5 DEF Fail, Exit
<1>6. CASE Continue(p)
  <2>1. CASE UpgradeLost(p) \/ UpgradeForeignKey(p) \/ BusyTimeout(p) \/ WriteConflict(p)
    BY <1>1, <2>1 DEF UpgradeLost, UpgradeForeignKey, BusyTimeout, WriteConflict
  <2>2. CASE CreateCommit(p) \/ UpgradeCommit(p) \/ PutCommit(p) \/ DeleteCommit(p)
    BY <1>3, <2>2 DEF CreateCommit, UpgradeCommit, PutCommit, DeleteCommit
  <2>3. CASE CreateTables(p) \/ CreateStamp(p) \/ UpgradeRead(p) \/ UpgradeAlter(p) \/ UpgradeFill(p)
    BY <2>3 DEF CreateTables, CreateStamp, UpgradeRead, UpgradeAlter, UpgradeFill, TypeOK
  <2>4. CASE PutRow(p) \/ PutCatalog(p) \/ DeleteSelect(p) \/ DeleteRows(p)
    BY <1>1, <2>4 DEF PutRow, PutCatalog, DeleteSelect, DeleteRows, TypeOK
  <2> QED
    BY <1>6, <2>1, <2>2, <2>3, <2>4 DEF Continue
<1> QED
  BY <1>4, <1>5, <1>6

-----------------------------------------------------------------------------
(* Invariance *)

LEMMA IndexerStart == IndexerInit => IInv /\ IndexerInv
<1>1. IndexerInit => IndexerInv
  BY DEF IndexerInit, IndexerInv, IndexerTypeOK, Writing, Faithful, NoTask
<1> QED
  BY <1>1, StartInv DEF IndexerInit

\* A task that begins is of the right shape and, if printed, faithful.
LEMMA ReadInv ==
  ASSUME IndexerInv, NEW p \in Procs, NEW via \in Vias, NEW f \in BOOLEAN,
         NEW o \in Names \cup {NoName}, NEW s \in Sources, NEW n \in Names \cup {NoName},
         n # NoName => NameFor(o, s) = n, Read(p, via, f, o, s, n)
  PROVE  IndexerInv'
<1> DEFINE t == [at |-> "compare", via |-> via, refresh |-> f, name |-> NameFor(o, s),
                 source |-> s, doc |-> origin[s], printed |-> n]
<1>1. NameFor(o, s) \in Names
  BY DerivedAssumption DEF NameFor
<1>2. origin[s] \in NewDocs
  BY ServedAssumption DEF Read, IndexerInv, IndexerTypeOK
<1>3. t \in Tasks
  BY <1>1, <1>2 DEF Tasks
<1>4. task' = [task EXCEPT ![p] = t] /\ UNCHANGED <<vars, origin, hint>>
  BY DEF Read
<1>5. t.at = "compare" /\ (n # NoName => t.name = t.printed)
  OBVIOUS
<1> HIDE DEF t
<1>6. IndexerTypeOK'
  BY <1>3, <1>4 DEF IndexerInv, IndexerTypeOK
<1>7. t.printed = n
  BY DEF t
<1>8. ASSUME NEW q \in Procs PROVE Writing(q)' /\ Faithful(q)'
  <2>1. task'[q] = IF q = p THEN t ELSE task[q]
    BY <1>4 DEF IndexerInv, IndexerTypeOK
  <2>2. pc' = pc /\ req' = req
    BY <1>4 DEF vars
  <2> QED
    BY <2>1, <2>2, <1>5, <1>7 DEF IndexerInv, Writing, Faithful, Request
<1> QED
  BY <1>6, <1>8 DEF IndexerInv

\* A step of p that ends its task or moves it on, to Put's statements only when
\* p is in them.
LEMMA TaskInv ==
  ASSUME IndexerInv, NEW p \in Procs, NEW t,
         \/ t = NoTask
         \/ task[p].at # "none" /\ \E a \in {"compare", "put", "write", "unchanged"} :
                                     t = [task[p] EXCEPT !.at = a],
         t.at = "write" => pc'[p] \in PutPCs /\ req'[p] = Request(t),
         task' = [task EXCEPT ![p] = t], UNCHANGED <<origin, hint>>,
         \A q \in Procs \ {p} : pc'[q] = pc[q] /\ req'[q] = req[q]
  PROVE  IndexerInv'
<1>1. /\ t \in Tasks \cup {NoTask}
      /\ t.at # "none" => task[p].at # "none" /\ t.name = task[p].name /\ t.printed = task[p].printed
  <2>1. CASE t = NoTask
    BY <2>1 DEF NoTask
  <2>2. CASE t # NoTask
    <3>1. task[p] \in Tasks
      BY <2>2, TaskFields DEF IndexerInv
    <3> QED
      BY <2>2, <3>1 DEF Tasks
  <2> QED
    BY <2>1, <2>2
<1>2. IndexerTypeOK'
  BY <1>1 DEF IndexerInv, IndexerTypeOK
<1>3. ASSUME NEW q \in Procs PROVE Writing(q)' /\ Faithful(q)'
  <2>1. task'[q] = IF q = p THEN t ELSE task[q]
    BY DEF IndexerInv, IndexerTypeOK
  <2>2. CASE q = p
    BY <1>1, <2>1, <2>2 DEF IndexerInv, Writing, Faithful, Request
  <2>3. CASE q # p
    BY <2>1, <2>3 DEF IndexerInv, Writing, Faithful, Request
  <2> QED
    BY <2>2, <2>3
<1> QED
  BY <1>2, <1>3 DEF IndexerInv

LEMMA IndexerStepInv == IInv /\ IndexerInv /\ [IndexerNext]_allVars => IndexerInv'
<1> SUFFICES ASSUME IInv, IndexerInv, [IndexerNext]_allVars PROVE IndexerInv'
  OBVIOUS
<1>0. TypeOK /\ IndexerTypeOK
  BY DEF IInv, IndexerInv
<1>1. ASSUME NEW s \in Sources, NEW d \in Served, Edit(s, d) PROVE IndexerInv'
  BY <1>0, <1>1 DEF Edit, IndexerInv, IndexerTypeOK, Writing, Faithful, Request, vars
<1>2. ASSUME NEW n \in Names, PrintRefresh(n) PROVE IndexerInv'
  <2>1. [name |-> n, source |-> db.specs[n].source] \in [name : Names, source : Sources]
    BY <1>0, <1>2 DEF PrintRefresh, TypeOK, Databases, Rows
  <2> QED
    BY <1>0, <1>2, <2>1 DEF PrintRefresh, IndexerInv, IndexerTypeOK, Writing, Faithful, Request, vars
<1>3. ASSUME NEW p \in Procs, ReadPrinted(p) PROVE IndexerInv'
  <2>1. hint \in [name : Names, source : Sources]
    BY <1>0, <1>3 DEF ReadPrinted, IndexerTypeOK
  <2>2. /\ RefreshOption(hint) \in Names \cup {NoName}
        /\ NameFor(RefreshOption(hint), hint.source) = hint.name
    BY <2>1, NoNameAssumption DEF RefreshOption, NameFor
  <2> QED
    BY <1>3, <2>1, <2>2, ReadInv DEF ReadPrinted
<1>4. ASSUME NEW p \in Procs, NEW via \in Vias, NEW f \in BOOLEAN,
             NEW o \in Names \cup {NoName}, NEW s \in Sources, Read(p, via, f, o, s, NoName)
      PROVE  IndexerInv'
  BY <1>4, ReadInv
<1>5. ASSUME NEW p \in Procs, Compare(p) PROVE IndexerInv'
  <2> DEFINE next == Decision(task[p].via, db.specs[task[p].name], task[p])
             t == IF next = "none" THEN NoTask ELSE [task[p] EXCEPT !.at = next]
  <2>1. next \in {"none", "unchanged", "put"}
    BY DEF Decision
  <2>2. task' = [task EXCEPT ![p] = t] /\ UNCHANGED <<origin, hint>> /\ pc' = pc /\ req' = req
    BY <1>0, <1>5 DEF Compare, IndexerTypeOK, vars
  <2>3. task[p].at = "compare"
    BY <1>5 DEF Compare
  <2>4. t = NoTask \/ \E a \in {"unchanged", "put"} : t = [task[p] EXCEPT !.at = a]
    BY <2>1
  <2>5. t.at # "write"
    <3>1. task[p] \in Tasks
      BY <1>0, <2>3, TaskFields
    <3> HIDE DEF t
    <3> QED
      BY <2>4, <3>1 DEF NoTask, Tasks
  <2> HIDE DEF t, next
  <2> QED
    BY <2>2, <2>3, <2>4, <2>5, TaskInv
<1>6. ASSUME NEW p \in Procs, Report(p) PROVE IndexerInv'
  <2>1. NoTask.at # "write"
    BY DEF NoTask
  <2> QED
    BY <1>6, <2>1, TaskInv DEF Report, vars
<1>7. ASSUME NEW p \in Procs, Put(p) PROVE IndexerInv'
  <2> DEFINE r == Request(task[p])
             t == IF pc'[p] = "idle" THEN NoTask ELSE [task[p] EXCEPT !.at = "write"]
  <2>1. task' = [task EXCEPT ![p] = t] /\ UNCHANGED <<origin, hint>> /\ task[p].at = "put"
    BY <1>0, <1>7 DEF Put, IndexerTypeOK
  <2>2. task[p] \in Tasks
    BY <1>0, <2>1, TaskFields
  <2>3. pc'[p] = "idle" \/ (pc'[p] \in PutPCs /\ req'[p] = r)
    BY <1>0, <1>7 DEF Put, PutSelect, EndEarly, TypeOK, PutPCs
  <2>4. t = NoTask \/ (t = [task[p] EXCEPT !.at = "write"] /\ pc'[p] # "idle")
    OBVIOUS
  <2>5. t.at = "write" => pc'[p] # "idle" /\ Request(t) = r
    <3> HIDE DEF t
    <3> QED
      BY <2>2, <2>4 DEF NoTask, Tasks, Request
  <2>6. \A q \in Procs \ {p} : pc'[q] = pc[q] /\ req'[q] = req[q]
    BY <1>0, <1>7, OthersStay DEF Put
  <2> HIDE DEF t, r
  <2> QED
    BY <2>1, <2>3, <2>4, <2>5, <2>6, TaskInv
<1>8. ASSUME NEW p \in Procs, NEW n \in Names, Unindex(p, n) PROVE IndexerInv'
  <2>1. task[p].at = "none" /\ UNCHANGED <<origin, task, hint>>
    BY <1>8 DEF Unindex, indexerVars
  <2>2. \A q \in Procs \ {p} : pc'[q] = pc[q] /\ req'[q] = req[q]
    BY <1>0, <1>8, OthersStay DEF Unindex
  <2> QED
    BY <2>1, <2>2 DEF IndexerInv, IndexerTypeOK, Writing, Faithful, Request
<1>9. ASSUME NEW p \in Procs, StoreStep(p) PROVE IndexerInv'
  <2> DEFINE over == \/ task[p].at = "write" /\ pc'[p] \in {"idle", "closed"}
                     \/ pc'[p] = "closed"
             t == IF over THEN NoTask ELSE task[p]
  <2>1. task' = [task EXCEPT ![p] = t] /\ UNCHANGED <<origin, hint>>
    BY <1>0, <1>9 DEF StoreStep, IndexerTypeOK
  <2>2. Open(p) \/ Continue(p) \/ Fail(p) \/ Exit(p)
    BY <1>9 DEF StoreStep
  <2>3. \A q \in Procs \ {p} : pc'[q] = pc[q] /\ req'[q] = req[q]
    BY <1>0, <2>2, OthersStay
  <2>4. CASE over
    <3>1. t = NoTask /\ t.at # "write"
      BY <2>4 DEF NoTask
    <3> HIDE DEF t, over
    <3> QED
      BY <2>1, <2>3, <3>1, TaskInv
  <2>5. CASE ~over
    <3>1. task' = task
      BY <1>0, <2>1, <2>5 DEF IndexerTypeOK
    <3>2. task[p].at = "write" => pc'[p] \in PutPCs /\ req'[p] = req[p]
      BY <1>0, <2>2, <2>5, PutGoesOn DEF IndexerInv, Writing
    <3>3. \A q \in Procs : Writing(q)' /\ Faithful(q)'
      BY <2>3, <3>1, <3>2 DEF IndexerInv, Writing, Faithful, Request
    <3> QED
      BY <1>0, <2>1, <3>1, <3>3 DEF IndexerInv, IndexerTypeOK
  <2> QED
    BY <2>4, <2>5
<1>10. ASSUME NEW r \in Requests, OldBuild(r) PROVE IndexerInv'
  BY <1>0, <1>10 DEF OldBuild, OldBuildPut, indexerVars, IndexerInv, IndexerTypeOK,
     Writing, Faithful, Request
<1>11. CASE UNCHANGED allVars
  BY <1>11 DEF allVars, vars, indexerVars, IndexerInv, IndexerTypeOK, Writing, Faithful, Request
<1> QED
  BY <1>1, <1>2, <1>3, <1>4, <1>5, <1>6, <1>7, <1>8, <1>9, <1>10, <1>11 DEF IndexerNext

\* IInv and IndexerInv together are inductive.
LEMMA IndexerInvariance == IndexerSpec => [](IInv /\ IndexerInv)
<1>1. IInv /\ IndexerInv /\ [IndexerNext]_allVars => (IInv /\ IndexerInv)'
  BY StoreSteps, StepInv, IndexerStepInv DEF IndexerInv
<1> QED
  BY <1>1, IndexerStart, PTL DEF IndexerSpec

-----------------------------------------------------------------------------
(* Theorems *)

\* Tasks and sources stay in their ranges: nothing but a document that was read
\* and parsed is ever on its way into the store.
THEOREM IndexerTypeCorrect == IndexerSpec => []IndexerTypeOK
<1>1. IndexerInv => IndexerTypeOK
  BY DEF IndexerInv
<1> QED
  BY <1>1, IndexerInvariance, PTL

\* A record meets one of three fates, which its source and its document decide:
\* whose the name is, and what is stored under it; never who asks.
LEMMA OutcomesAgree ==
  ASSUME NEW t, NEW row
  PROVE  Outcome("cli", row, t) = Outcome("tool", row, t)
<1>1. CASE row = NoSpec
  BY <1>1 DEF Outcome, Decision
<1>2. CASE row # NoSpec /\ row.source # t.source
  <2>1. Decision("cli", row, t) = "put" /\ Decision("tool", row, t) = "none"
    BY <1>2 DEF Decision
  <2> QED
    BY <1>2, <2>1 DEF Outcome
<1>3. CASE row # NoSpec /\ row.source = t.source
  <2>1. Decision("cli", row, t) = Decision("tool", row, t)
    BY <1>3 DEF Decision
  <2> QED
    BY <1>3, <2>1 DEF Outcome
<1> QED
  BY <1>1, <1>2, <1>3

\* Whatever the store holds by then, and whatever has become of the name since
\* the source was read, the tool does with a record what the command does.
THEOREM EntryPointsTheorem == IndexerSpec => []EntryPointsAgree
<1>1. EntryPointsAgree
  BY OutcomesAgree DEF EntryPointsAgree
<1> QED
  BY <1>1, PTL

\* The command and the tool drive the store only through its own operations, so
\* whatever every run of the store satisfies, their runs satisfy.
THEOREM IndexerDrivesStore == IndexerSpec => Spec
<1>1. IInv /\ IndexerInv /\ [IndexerNext]_allVars => [Next]_vars
  BY StoreSteps DEF IndexerInv
<1>2. IndexerInit => Init
  BY DEF IndexerInit
<1> QED
  BY <1>1, <1>2, IndexerInvariance, PTL DEF IndexerSpec, Spec

\* A printed refresh command keeps the spec it was printed for under its name.
THEOREM RefreshTheorem == IndexerSpec => RefreshKeepsNames
<1> DEFINE Kept(n) == db.specs[n] # NoSpec => /\ db'.specs[n] # NoSpec
                                              /\ db'.specs[n].source = db.specs[n].source
           Keeps == \A p \in Procs :
                      lock = p /\ task[p].at = "write" /\ task[p].printed # NoName =>
                        LET n == task[p].printed IN
                        db.specs[n] # NoSpec => /\ db'.specs[n] # NoSpec
                                                /\ db'.specs[n].source = db.specs[n].source
<1>1. ASSUME IInv, IndexerInv, [IndexerNext]_allVars, db' # db, NEW p \in Procs,
             lock = p, task[p].at = "write", task[p].printed # NoName
      PROVE  Kept(task[p].printed)
  <2>0. DbInv(db) /\ db \in Databases
    BY <1>1 DEF IInv, DbInv
  <2>1. pc[p] \in PutPCs /\ req[p] = Request(task[p]) /\ task[p].name = task[p].printed
    BY <1>1 DEF IndexerInv, Writing, Faithful
  <2>2. [Next]_vars
    BY <1>1, StoreSteps DEF IndexerInv
  <2>3. /\ lock # NoProc
        /\ \A q \in Procs : lock = q => q = p
        /\ pc[p] \notin {"create_commit", "upgrade_commit", "delete_commit"}
    BY <1>1, <2>1, NoProcAssumption DEF PutPCs
  <2>4. PICK r \in Requests : r = req[p] /\ Storable(db, r) /\ db' = PutResult(db, r)
    BY <1>1, <2>2, <2>3, Effects
  <2>5. r.name = task[p].printed
    BY <2>1, <2>4 DEF Request
  <2>6. db'.specs[r.name] \in Rows /\ db'.specs[r.name].source = r.source
    BY <2>0, <2>4, PutRows
  <2> QED
    BY <2>4, <2>5, <2>6, NoSpecAssumption DEF Storable
<1>2. IInv /\ IndexerInv /\ [IndexerNext]_allVars => [Keeps]_db
  BY <1>1
<1> QED
  BY <1>2, IndexerInvariance, PTL DEF IndexerSpec, RefreshKeepsNames
=============================================================================
