------------------------- MODULE MCPromotionLedger -------------------------
(* Instances of PromotionLedger for TLC. *)
EXTENDS PromotionLedger, TLC

AllOpen == {{"Entry", "Dispatch", "Settlement"}}
PausedDispatch == {{"Entry", "Dispatch", "Settlement"}, {"Entry", "Settlement"}}

Symmetric == Permutations(Keys) \cup Permutations(Workers)
=============================================================================
