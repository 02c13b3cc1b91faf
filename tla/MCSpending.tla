----------------------------- MODULE MCSpending -----------------------------
(***************************************************************************)
(* Two callers and two companies, one of them with a small month.          *)
(***************************************************************************)
EXTENDS Spending, TLC

CONSTANTS c1, c2, main, spare

Months == (main :> 9) @@ (spare :> 2)
=============================================================================
