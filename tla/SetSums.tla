------------------------------- MODULE SetSums -------------------------------
(***************************************************************************)
(* The sum of a weight over a finite set: what SELECT SUM(...) adds up over *)
(* the rows it selects.                                                    *)
(***************************************************************************)
EXTENDS FiniteSetsExt

Total(weight, S) == MapThenSumSet(LAMBDA x : weight[x], S)
=============================================================================
