--------------------------- MODULE MCAuthSessions ---------------------------
(* Small instances of AuthSessions for TLC. *)
EXTENDS AuthSessions, TLC

CONSTANTS u1, u2, r1, r2, r3

Symmetry == Permutations(Requests) \cup Permutations(Users)
=============================================================================
