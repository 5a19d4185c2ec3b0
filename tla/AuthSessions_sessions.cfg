SPECIFICATION Spec
CONSTANTS
  u1 = u1
  u2 = u2
  r1 = r1
  r2 = r2
  r3 = r3
  Users = {u1}
  Requests = {r1, r2, r3}
  MaxTokens = 3
  MaxChanges = 1
  Failing = {"update", "purge", "unlink", "load", "create"}
  Offered = {"login", "refresh", "change", "logout", "deactivate"}
SYMMETRY Symmetry
INVARIANTS
  SessionsProvePassword
  RefreshRotates
  NoSessionWhileInactive
