SPECIFICATION Spec
CONSTANTS
  p1 = p1
  p2 = p2
  n1 = n1
  n2 = n2
  s1 = s1
  s2 = s2
  d1 = d1
  d2 = d2
  bad = bad
  Procs <- MCProcs
  Names <- MCNames
  Sources <- MCSources
  Docs <- MCDocs
  Unparseable = {bad}
  MaxId = 3
  NoProc = NoProc
  NoSpec = NoSpec
  NoDoc = NoDoc
INVARIANTS UnknownNameIsNotFound
SYMMETRY Symmetry
CHECK_DEADLOCK FALSE
