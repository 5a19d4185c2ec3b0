SPECIFICATION Spec
CONSTANTS
  e1 = e1
  e2 = e2
  n1 = n1
  n2 = n2
  none = none
  i1 = i1
  i2 = i2
  r1 = r1
  r2 = r2
  r3 = r3
  Emails = {e1, e2}
  Names = {n1, none}
  NoName = none
  Identities = {i1}
  NameFor <- OwnName
  Requests = {r1, r2, r3}
  Failing = {"find", "insert", "link", "session", "token"}
SYMMETRY Symmetry
INVARIANTS
  TypeOK
  OneRegistrationWins
  AnswersOwnAccount
PROPERTIES
  IdentityKeepsAccount
