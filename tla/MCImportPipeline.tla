-------------------------- MODULE MCImportPipeline --------------------------
(* Small instances of ImportPipeline for TLC. *)
EXTENDS ImportPipeline, TLC

CONSTANTS k1, k2, k3, bad, w1, w2, w3

Symmetry == Permutations(Workers)

\* No data row; only rows that do not parse; and files with more good rows
\* than a batch of two, with a row repeated in one statement, in one batch or
\* in two, and with bad rows before, between and after good ones.
SmallFiles ==
  {<<>>, <<bad>>, <<k1, bad>>, <<k1, k2, k1>>, <<bad, k1, bad>>, <<k1, k1, k2>>}

\* The same with up to five records, for batches of three.
MixedFiles ==
  SmallFiles \cup {<<k1, k2, bad, k1, k3>>, <<k1, k2, k3, k1, k2>>,
                   <<bad, bad, bad, k1>>, <<bad, k1, k1, k2, bad>>}

\* With batches of one record: enough records that an INSERT can fail while
\* both channels are full, both workers hold a record and so does the
\* producer.
LongFiles ==
  {<<>>, <<bad>>, <<k1, bad, k2, k1>>, <<k1, k2, bad, k1, k2, bad>>}
=============================================================================
