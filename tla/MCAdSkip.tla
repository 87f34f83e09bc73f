------------------------------- MODULE MCAdSkip -------------------------------
(* Instances of AdSkip for TLC. *)
EXTENDS AdSkip

DayPairs == {<<0, 0>>, <<0, 1>>, <<1, 1>>}
=============================================================================
