CONSTANTS
  p1 = p1
  p2 = p2
  Pulses = {p1, p2}
  LastDay = 9
  MaxFailures = 1
  Txs <- MCTxs
  Moving = {"late2"}
  Posted <- MCPosted
  Amount <- MCAmount
  Merchant <- MCMerchant
  Category <- MCCategory
  MonthStart <- MCMonthStart
  AsOfs = {13, 16}
  TopLimit = 2
  NewLimit = 1
SPECIFICATION Spec
SYMMETRY Symmetry
INVARIANTS
  OneAlertPerDay
  SecondPushOnlyByRace
  PulseAddsUp
  WindowsTrue
  NotifiedIsAlerted
CHECK_DEADLOCK FALSE
