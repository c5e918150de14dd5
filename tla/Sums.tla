-------------------------------- MODULE Sums --------------------------------
(***************************************************************************)
(* Sums of sequences of integers: what SQLite's SUM(amount) aggregates over*)
(* the rows a query selects, in the order they were inserted.              *)
(***************************************************************************)
LOCAL INSTANCE Integers
LOCAL INSTANCE Sequences

(***************************************************************************)
(* The sum of the sequence f of integers.  It is written as a recursive    *)
(* function of running totals, so that it can be reasoned about.           *)
(***************************************************************************)
Total(f) ==
    LET run[n \in 0 .. Len(f)] == IF n = 0 THEN 0 ELSE run[n - 1] + f[n]
    IN  run[Len(f)]
=============================================================================
