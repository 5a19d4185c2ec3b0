SPECIFICATION Spec
CONSTANTS
  k1 = k1
  k2 = k2
  k3 = k3
  bad = bad
  w1 = w1
  w2 = w2
  w3 = w3
  Keys = {k1, k2, k3}
  BadRow = bad
  Files <- MixedFiles
  Workers = {w1, w2}
  ChanCap = 2
  BatchSize = 3
  ProgressEvery = 2
  StatementRows = 2
  Disturbances = {"file", "job", "insert", "progress", "finish", "cancel", "import", "delete"}
SYMMETRY Symmetry
INVARIANTS
  TypeOK
  NoSendOnClosedChannel
  HandledOnce
  NothingLost
  SucceededIsComplete
  CountersNeverOverstate
  AnswerIsTrue
PROPERTIES
  JobContract
