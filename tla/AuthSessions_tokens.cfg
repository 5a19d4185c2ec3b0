SPECIFICATION Spec
CONSTANTS
  u1 = u1
  u2 = u2
  r1 = r1
  r2 = r2
  r3 = r3
  Users = {u1}
  Requests = {r1, r2}
  MaxTokens = 3
  MaxChanges = 2
  Failing = {"unlink", "mark", "spend", "purge", "issue"}
  Offered = {"login", "refresh", "request_reset", "reset", "resend", "verify", "expire"}
SYMMETRY Symmetry
INVARIANTS
  TypeOK
  SpentOnce
