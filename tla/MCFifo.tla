------------------------------- MODULE MCFifo -------------------------------
(* A buffer of four slots that doubles once. *)
EXTENDS Fifo

CONSTANTS x, y

MCInputs == {<<x>>, <<y, x>>, <<x, y, y>>}
=============================================================================
