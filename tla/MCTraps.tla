------------------------------ MODULE MCTraps ------------------------------
(* Traps and ticks with a few processes for TLC. *)
EXTENDS Traps

OutAndImplemented == {-1, 1}
=============================================================================
