SPECIFICATION Spec
CONSTANTS
  u1 = u1
  u2 = u2
  r1 = r1
  r2 = r2
  r3 = r3
  Users = {u1}
  Requests = {r1, r2}
  MaxTokens = 2
  MaxChanges = 0
  Failing = {}
  Offered = {"login", "refresh", "logout", "expire", "deactivate"}
SYMMETRY Symmetry
INVARIANTS
  DeactivationEndsSessions
