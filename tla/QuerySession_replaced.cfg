SPECIFICATION Spec
CONSTANTS
  h1 = h1
  h2 = h2
  n1 = n1
  n2 = n2
  n3 = n3
  s1 = s1
  s2 = s2
  s3 = s3
  d1 = d1
  d2 = d2
  Handlers = {h1}
  Names = {n1}
  Sources = {s1}
  Docs = {d1, d2}
  Kinds = {"detail"}
  CacheSize = 1
  MaxFiles = 2
  MaxMoments = 2
  NoSpec = NoSpec
  NoDoc = NoDoc
  NoName = NoName
SYMMETRY Symmetry
INVARIANTS ReindexIsVisible
