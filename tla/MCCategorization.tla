--------------------------- MODULE MCCategorization ---------------------------
(***************************************************************************)
(* Four transactions in two overlapping statements.  Two of the patterns   *)
(* are the same; the third is written without percent signs and so matches *)
(* more when rows are imported than when they are updated.                 *)
(***************************************************************************)
EXTENDS Categorization

MCRowsOf == [i \in {"jan", "feb"} |-> IF i = "jan" THEN {"rent", "tv1"} ELSE {"tv1", "tv2", "food"}]
MCPatternOf == [c \in {"tv", "tvtoo", "bare"} |-> IF c = "bare" THEN "STREAM" ELSE "%STREAM%"]
MCContained == [c \in {"tv", "tvtoo", "bare"} |-> {"tv1", "tv2"}]
MCILike == [c \in {"tv", "tvtoo", "bare"} |-> IF c = "bare" THEN {"tv1"} ELSE {"tv1", "tv2"}]
MCMerchant == [r \in {"rent", "tv1", "tv2", "food"} |-> IF r = "tv2" THEN "fun" ELSE "none"]

===============================================================================
