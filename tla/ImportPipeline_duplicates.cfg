SPECIFICATION Spec
CONSTANTS
  k1 = k1
  k2 = k2
  k3 = k3
  bad = bad
  w1 = w1
  w2 = w2
  w3 = w3
  Keys = {k1, k2}
  BadRow = bad
  Files <- SmallFiles
  Workers = {w1, w2}
  ChanCap = 1
  BatchSize = 2
  ProgressEvery = 2
  StatementRows = 1
  Disturbances = {}
INVARIANTS
  DuplicatesReported
