CONSTANTS
  Imports = {"jan", "feb"}
  Creators = {"tv"}
  Rows = {"rent", "tv1", "tv2", "food"}
  RowsOf <- MCRowsOf
  PatternOf <- MCPatternOf
  Applies = {"tv"}
  Contained <- MCContained
  ILike <- MCContained
  Merchant <- MCMerchant
  MaxFailures = 0
  MaxDeletes = 1
  DayOf <- MCDayOf
  PageSizes <- MCPageSizes
  Filters <- MCFilters
  MaxLimit = 2
  DefaultLimit = 1
SPECIFICATION Spec
INVARIANTS
  
  NothingTwice
  OddSizes
CHECK_DEADLOCK FALSE
