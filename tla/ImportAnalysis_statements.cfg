CONSTANTS
  Users = {"ana"}
  Statements <- MCStatements
  AccountCurrency <- MCAccountCurrency
  ThreeLetterWords <- MCThreeLetterWords
  Learned <- MCLearned
  Columns <- MCColumns
  WordsInside <- MCWordsInside
SPECIFICATION Spec
INVARIANTS
  HeaderFound
  EchoAgrees
  FormatsAgree
  RowsAligned
  AmountsTrue
  DatesTrue
  NoPanic
  CurrencyTrue
PROPERTIES
  LearnedMappingStays
CHECK_DEADLOCK FALSE
