SPECIFICATION Spec
CONSTANTS
  h1 = h1
  h2 = h2
  n1 = n1
  n2 = n2
  n3 = n3
  s1 = s1
  s2 = s2
  s3 = s3
  d1 = d1
  d2 = d2
  Handlers = {h1, h2}
  Names = {n1, n2}
  Sources = {s1, s2}
  Docs = {d1, d2}
  Kinds = {"detail", "sweep", "listing", "diff"}
  CacheSize = 1
  MaxFiles = 1
  MaxMoments = 2
  NoSpec = NoSpec
  NoDoc = NoDoc
  NoName = NoName
SYMMETRY Symmetry
INVARIANTS SessionTypeOK CacheMatchesOrder AnswerWasStored UnnamedIsTheOnlySpec SweepCoversTheIndex
