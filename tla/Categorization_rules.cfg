CONSTANTS
  Imports = {"jan", "feb"}
  Creators = {"tv", "tvtoo", "bare"}
  Rows = {"rent", "tv1", "tv2", "food"}
  RowsOf <- MCRowsOf
  PatternOf <- MCPatternOf
  Applies = {"tv", "bare"}
  Contained <- MCContained
  ILike <- MCILike
  Merchant <- MCMerchant
  MaxFailures = 1
  MaxDeletes = 1
SPECIFICATION BookSpec
INVARIANTS
  OneRulePerPattern
  CacheTrails
  RuleReaches
CHECK_DEADLOCK FALSE
