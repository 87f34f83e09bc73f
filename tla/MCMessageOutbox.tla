-------------------------- MODULE MCMessageOutbox --------------------------
(* Instances of MessageOutbox for TLC. *)
EXTENDS MessageOutbox

AllOpen == {{"Entry", "Dispatch", "Settlement"}}
PausedDispatch == {{"Entry", "Dispatch", "Settlement"}, {"Entry"}}
=============================================================================
