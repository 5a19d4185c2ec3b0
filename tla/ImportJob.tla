------------------------------ MODULE ImportJob ------------------------------
(***************************************************************************)
(* What a row of import_jobs promises to whoever reads it: the abstract    *)
(* specification of ImportService.ImportWithOptions. It knows nothing of   *)
(* goroutines, channels, batches or contexts.                              *)
(***************************************************************************)
EXTENDS Naturals, FiniteSets

VARIABLES
  Total,      \* records of the file, fixed
  unread,     \* 1 if the file ended within its header, fixed
  status,     \* import_jobs.status, "absent" before the row exists
  imported,   \* import_jobs.rows_imported
  failed,     \* import_jobs.rows_failed
  fate        \* what became of each record

vars == <<Total, unread, status, imported, failed, fate>>

Lines == 1..Total
Fates == {"pending", "failed", "inserted", "duplicate"}
Having(f, x) == {l \in Lines : f[l] = x}

Init ==
  /\ Total \in Nat
  /\ unread \in {0, 1}
  /\ status = "absent"
  /\ imported = 0 /\ failed = 0
  /\ fate = [l \in Lines |-> "pending"]

Create ==
  /\ status = "absent"
  /\ status' = "running"
  /\ UNCHANGED <<Total, unread, imported, failed, fate>>

\* Records get a fate only while the job runs, and keep it.
Settle ==
  /\ status = "running"
  /\ fate' \in [Lines -> Fates]
  /\ \A l \in Lines : fate[l] # "pending" => fate'[l] = fate[l]
  /\ UNCHANGED <<Total, unread, status, imported, failed>>

\* The counters a reader sees only grow, and never beyond what happened.
Report ==
  /\ imported' \in Nat /\ imported <= imported'
  /\ imported' <= Cardinality(Having(fate, "inserted"))
  /\ failed' \in Nat /\ failed <= failed'
  /\ failed' <= Cardinality(Having(fate, "failed")) + unread

Progress ==
  /\ status = "running"
  /\ Report
  /\ UNCHANGED <<Total, unread, status, fate>>

\* Success is recorded once, with exact counters, and only when every record
\* has its fate.
Succeed ==
  /\ status = "running"
  /\ status' = "succeeded"
  /\ Having(fate, "pending") = {}
  /\ imported' = Cardinality(Having(fate, "inserted"))
  /\ failed' = Cardinality(Having(fate, "failed")) + unread
  /\ UNCHANGED <<Total, unread, fate>>

Fail ==
  /\ status = "running"
  /\ status' = "failed"
  /\ Report
  /\ UNCHANGED <<Total, unread, fate>>

\* A finished job never changes again: no action applies to it.
Next == Create \/ Settle \/ Progress \/ Succeed \/ Fail

Spec == Init /\ [][Next]_vars
=============================================================================
