SPECIFICATION QuerySpec
CONSTANTS
  p1 = p1
  p2 = p2
  n1 = n1
  n2 = n2
  s1 = s1
  s2 = s2
  d1 = d1
  d2 = d2
  bad = bad
  h1 = h1
  h2 = h2
  Procs = {p1}
  Names = {n1, n2}
  Sources = {s1, s2}
  Docs = {d1, d2, bad}
  Unparseable = {bad}
  MaxId = 3
  NoProc = NoProc
  NoSpec = NoSpec
  NoDoc = NoDoc
  Handlers = {h1}
  NoHandler = NoHandler
SYMMETRY Symmetry
INVARIANTS AnswerIsOfOneDocument
CHECK_DEADLOCK FALSE
