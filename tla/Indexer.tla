------------------------------- MODULE Indexer -------------------------------
(***************************************************************************)
(* The writers' side of the program: `swagger-mcp index`, `swagger-mcp     *)
(* unindex` and the server's index_spec tool, over SpecStore.  A run reads *)
(* its source first, which goes on changing, then compares what it read    *)
(* with the store and perhaps puts it there.  The command opens the store  *)
(* before it reads its sources, one after the other; the tool reads one    *)
(* source, then opens the store.                                           *)
(***************************************************************************)
EXTENDS SpecStore

CONSTANTS
  Vias,         \* the entry points in use: "cli", "tool"
  Served,       \* what sources serve; NoDoc for one that cannot be read or parsed
  Derived,      \* store.DeriveName: the name a source gets without --name
  NoName

ASSUME DerivedAssumption == Derived \in [Sources -> Names]
ASSUME ServedAssumption == Served \subseteq NewDocs \cup {NoDoc}
ASSUME NoNameAssumption == NoName \notin Names

VARIABLES
  origin,   \* what each source serves now
  task,     \* what each process is indexing
  hint      \* a refresh command spec_status has printed

indexerVars == <<origin, task, hint>>
allVars == <<vars, indexerVars>>

\* at: "none", "compare", "put" (Put is next), "write" (in Put) or "unchanged".
\* printed: the spec whose refresh command this is, or NoName.
NoTask == [at |-> "none"]
Tasks == [at : {"compare", "put", "write", "unchanged"}, via : Vias, refresh : BOOLEAN,
          name : Names, source : Sources, doc : NewDocs, printed : Names \cup {NoName}]

Request(t) == [name |-> t.name, source |-> t.source, doc |-> t.doc]

-----------------------------------------------------------------------------

\* A source is edited, breaks or comes back.
Edit(s, d) ==
  /\ origin' = [origin EXCEPT ![s] = d]
  /\ UNCHANGED <<vars, task, hint>>

\* spec_status prints the command that rewrites a spec; the name is part of it
\* when the source would be given another one.
PrintRefresh(n) ==
  /\ db.specs[n] # NoSpec
  /\ hint' = [name |-> n, source |-> db.specs[n].source]
  /\ UNCHANGED <<vars, origin, task>>

\* Mutant: the printed command never carries a name.
RefreshOption_Omitted(h) == NoName

\* The --name option of the printed command.
RefreshOption(h) == IF Derived[h.source] # h.name THEN h.name ELSE NoName

\* The name a source is indexed under.
NameFor(option, s) == IF option = NoName THEN Derived[s] ELSE option

\* Mutant: a document is stored without being parsed.
Read_Unparsed(p, via, refresh, option, s, printed) ==
  /\ task[p].at = "none"
  /\ pc[p] = (IF via = "cli" THEN "idle" ELSE "closed")
  /\ task' = [task EXCEPT ![p] = [at |-> "compare", via |-> via, refresh |-> refresh,
                                  name |-> NameFor(option, s), source |-> s, doc |-> origin[s],
                                  printed |-> printed]]
  /\ UNCHANGED <<vars, origin, hint>>

\* reader.Read and specsource.Parse.  A source that cannot be read or parsed
\* ends its task before it begins; the command goes on with its next source.
Read(p, via, refresh, option, s, printed) ==
  /\ task[p].at = "none"
  /\ pc[p] = (IF via = "cli" THEN "idle" ELSE "closed")
  /\ origin[s] # NoDoc
  /\ task' = [task EXCEPT ![p] = [at |-> "compare", via |-> via, refresh |-> refresh,
                                  name |-> NameFor(option, s), source |-> s, doc |-> origin[s],
                                  printed |-> printed]]
  /\ UNCHANGED <<vars, origin, hint>>

\* The printed command is pasted into a shell.
ReadPrinted(p) ==
  /\ hint # NoSpec
  /\ "cli" \in Vias
  /\ Read(p, "cli", TRUE, RefreshOption(hint), hint.source, hint.name)

\* Mutant: the tool compares contents without asking whose the name is.
Decision_ToolOwnerless(via, row, t) ==
  CASE /\ row # NoSpec /\ row.sha = t.doc /\ ~t.refresh
       /\ via = "tool" \/ row.source = t.source -> "unchanged"
    [] OTHER                                    -> "put"

\* What each entry point makes of the row it finds under the name.
Decision(via, row, t) ==
  CASE via = "tool" /\ row # NoSpec /\ row.source # t.source -> "none"
    [] /\ row # NoSpec /\ row.source = t.source
       /\ row.sha = t.doc /\ ~t.refresh                      -> "unchanged"
    [] OTHER                                                 -> "put"

\* Meta, and the branches after it.
Compare(p) ==
  /\ task[p].at = "compare"
  /\ pc[p] = "idle"
  /\ LET next == Decision(task[p].via, db.specs[task[p].name], task[p]) IN
     task' = [task EXCEPT ![p] = IF next = "none" THEN NoTask ELSE [@ EXCEPT !.at = next]]
  /\ UNCHANGED <<vars, origin, hint>>

\* "unchanged ..." is reported.
Report(p) ==
  /\ task[p].at = "unchanged"
  /\ task' = [task EXCEPT ![p] = NoTask]
  /\ UNCHANGED <<vars, origin, hint>>

\* Put begins; it refuses the name of another source itself.
Put(p) ==
  /\ task[p].at = "put"
  /\ PutSelect(p, Request(task[p]))
  /\ task' = [task EXCEPT ![p] = IF pc'[p] = "idle" THEN NoTask ELSE [@ EXCEPT !.at = "write"]]
  /\ UNCHANGED <<origin, hint>>

\* unindex.
Unindex(p, n) ==
  /\ task[p].at = "none"
  /\ DeleteMeta(p, n)
  /\ UNCHANGED indexerVars

\* The store's own steps; a Put that is over, or a process that is, ends the task.
StoreStep(p) ==
  /\ Open(p) \/ Continue(p) \/ Fail(p) \/ Exit(p)
  /\ LET over == \/ task[p].at = "write" /\ pc'[p] \in {"idle", "closed"}
                 \/ pc'[p] = "closed" IN
     task' = [task EXCEPT ![p] = IF over THEN NoTask ELSE @]
  /\ UNCHANGED <<origin, hint>>

\* Another process, of the older build, indexes.
OldBuild(r) == OldBuildPut(r) /\ UNCHANGED indexerVars

IndexerInit ==
  /\ Init
  /\ origin \in [Sources -> Served]
  /\ task = [p \in Procs |-> NoTask]
  /\ hint = NoSpec

IndexerNext ==
  \/ \E s \in Sources, d \in Served : Edit(s, d)
  \/ \E n \in Names : PrintRefresh(n)
  \/ \E p \in Procs :
       \/ \E via \in Vias, f \in BOOLEAN, o \in Names \cup {NoName}, s \in Sources :
            Read(p, via, f, o, s, NoName)
       \/ ReadPrinted(p)
       \/ Compare(p) \/ Report(p) \/ Put(p)
       \/ \E n \in Names : Unindex(p, n)
       \/ StoreStep(p)
  \/ \E r \in Requests : OldBuild(r)

IndexerSpec == IndexerInit /\ [][IndexerNext]_allVars

-----------------------------------------------------------------------------
(* Properties *)

\* Every task and every source stays in its range.
IndexerTypeOK ==
  /\ origin \in [Sources -> Served]
  /\ task \in [Procs -> Tasks \cup {NoTask}]
  /\ hint \in [name : Names, source : Sources] \cup {NoSpec}

\* What becomes of a record, Put's own refusal included.
Outcome(via, row, t) ==
  IF row # NoSpec /\ row.source # t.source /\ Decision(via, row, t) = "put"
  THEN "none" ELSE Decision(via, row, t)

\* Whatever the store holds, the tool does with a record "exactly what
\* `swagger-mcp index` performs" (indexspec.go:50): store, skip or refuse it.
EntryPointsAgree ==
  \A p \in Procs : task[p].at # "none" =>
    \A n \in Names : LET t == [task[p] EXCEPT !.name = n] IN
      Outcome("cli", db.specs[n], t) = Outcome("tool", db.specs[n], t)

\* A printed refresh command, whenever it is run, keeps the spec it was printed
\* for under its name, although other processes rename, delete and store specs
\* between the printing, the reading and the commit (discovery.go:507-510).
RefreshKeepsNames ==
  [][\A p \in Procs : lock = p /\ task[p].at = "write" /\ task[p].printed # NoName =>
       LET n == task[p].printed IN
       db.specs[n] # NoSpec => /\ db'.specs[n] # NoSpec
                               /\ db'.specs[n].source = db.specs[n].source]_db

\* A catalog that "was never built from its stored document" is rebuilt by
\* running `swagger-mcp index <url|file>` (specs.go:419-420): a spec that is
\* reported as unchanged, and is, can be queried.
UnchangedIsAnswerable ==
  \A p \in Procs : task[p].at = "unchanged" =>
    LET row == db.specs[task[p].name] IN
    row # NoSpec /\ row.source = task[p].source /\ row.sha = task[p].doc =>
      Ready(db, task[p].name)
=============================================================================
