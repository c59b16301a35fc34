SPECIFICATION IndexerSpec
CONSTANTS
  p1 = p1
  p2 = p2
  n1 = n1
  n2 = n2
  s1 = s1
  s2 = s2
  d1 = d1
  d2 = d2
  bad = bad
  Procs = {p1}
  Names = {n1, n2}
  Sources = {s1, s2}
  Docs = {d1, d2}
  Unparseable = {}
  MaxId = 1
  Vias = {"cli", "tool"}
  Served = {d1, d2}
  Derived <- MCDerived
  NoProc = NoProc
  NoSpec = NoSpec
  NoDoc = NoDoc
  NoName = NoName
SYMMETRY Symmetry
INVARIANTS UnchangedIsAnswerable
CHECK_DEADLOCK FALSE
