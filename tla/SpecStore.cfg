SPECIFICATION LiveSpec
CONSTANTS
  p1 = p1
  p2 = p2
  n1 = n1
  n2 = n2
  s1 = s1
  s2 = s2
  d1 = d1
  d2 = d2
  bad = bad
  Procs <- MCProcs
  Names = {n1, n2}
  Sources = {s1, s2}
  Docs = {d1, bad}
  Unparseable = {bad}
  MaxId = 2
  NoProc = NoProc
  NoSpec = NoSpec
  NoDoc = NoDoc
INVARIANTS TypeOK CatalogIsOfDocument NoOrphanRows OneRowPerSource
PROPERTIES EveryOperationEnds IdentityStable MigrationKeepsDocuments MigrationRebuilds ImplementsSpecIndex
CHECK_DEADLOCK FALSE
