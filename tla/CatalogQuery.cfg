SPECIFICATION LiveQuerySpec
CONSTANTS
  p1 = p1
  p2 = p2
  n1 = n1
  n2 = n2
  s1 = s1
  s2 = s2
  d1 = d1
  d2 = d2
  bad = bad
  h1 = h1
  h2 = h2
  Procs = {p1}
  Names = {n1}
  Sources = {s1}
  Docs = {d1, bad}
  Unparseable = {bad}
  MaxId = 1
  NoProc = NoProc
  NoSpec = NoSpec
  NoDoc = NoDoc
  Handlers = {h1, h2}
  NoHandler = NoHandler
INVARIANTS QueryTypeOK AnswerIsOfItsSpec
PROPERTIES EveryQueryEnds
CHECK_DEADLOCK FALSE
