------------------------------- MODULE MCLedger -------------------------------
(***************************************************************************)
(* Four transactions in two overlapping statements, and one rule.  Two     *)
(* transactions are of one day.                                            *)
(***************************************************************************)
EXTENDS Ledger

MCRowsOf == [i \in {"jan", "feb"} |-> IF i = "jan" THEN {"rent", "tv1"} ELSE {"tv1", "tv2", "food"}]
MCPatternOf == [c \in {"tv"} |-> "%STREAM%"]
MCContained == [c \in {"tv"} |-> {"tv1", "tv2"}]
MCMerchant == [r \in {"rent", "tv1", "tv2", "food"} |-> "none"]
MCDayOf == [r \in {"rent", "tv1", "tv2", "food"} |->
             CASE r = "rent" -> 4 [] r = "tv1" -> 3 [] r = "tv2" -> 2 [] OTHER -> 2]

Everything == [category |-> Anything, job |-> Anything, from |-> 0, to |-> 9]
MCFilters == {Everything, [Everything EXCEPT !.category = "tv"],
              [Everything EXCEPT !.job = "feb", !.from = 2, !.to = 3]}
\* -1 is no number of a .cfg.
MCPageSizes == -1..3

===============================================================================
