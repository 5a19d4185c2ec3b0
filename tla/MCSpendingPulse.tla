---------------------------- MODULE MCSpendingPulse ----------------------------
(***************************************************************************)
(* Three months of four, two and four days.  The clock stands at the third *)
(* day of the third month, which the second month does not have, and the   *)
(* next day may come.  The amounts are such that one expense more or less  *)
(* moves the pace across the thresholds.                                   *)
(***************************************************************************)
EXTENDS SpendingPulse, TLC

CONSTANTS p1, p2

Symmetry == Permutations(Pulses)

MCMonthStart == <<0, 4, 6, 10>>
MCTxs == {"rent0", "food1", "rent1", "food2", "gym2", "pay2", "late2"}
MCPosted == [x \in MCTxs |->
  CASE x = "rent0" -> 3 * 3 [] x = "food1" -> 3 * 4 [] x = "rent1" -> 3 * 5 + 1 [] x = "food2" -> 3 * 6
    [] x = "gym2" -> 3 * 8 + 2 [] x = "pay2" -> 3 * 8 [] x = "late2" -> 3 * 9]
MCAmount == [x \in MCTxs |->
  CASE x = "food1" -> -6 [] x = "rent1" -> -10 [] x = "food2" -> -18 [] x = "gym2" -> -2
    [] x = "late2" -> -4 [] x = "rent0" -> -6 [] OTHER -> 20]
MCMerchant == [x \in MCTxs |->
  CASE x \in {"food1", "food2"} -> "market" [] x = "gym2" -> "gym" [] x = "pay2" -> "work"
    [] x = "late2" -> "bar" [] OTHER -> "landlord"]
MCCategory == [x \in MCTxs |->
  CASE x \in {"food1", "food2"} -> "food" [] x \in {"rent0", "rent1"} -> "home" [] OTHER -> "fun"]

===============================================================================
