----------------------------- MODULE MCAccounts -----------------------------
(* Small instances of Accounts for TLC. *)
EXTENDS Accounts, TLC

CONSTANTS e1, e2, n1, n2, none, i1, i2, r1, r2, r3

Symmetry == Permutations(Requests) \cup Permutations(Emails)

\* Everybody has a nickname of their own.
OwnName == [i \in Identities |-> [e \in Emails |-> IF i = i1 THEN n1 ELSE n2]]
=============================================================================
