--------------------------- MODULE MCTestProgram ---------------------------
(* The test program with two children for TLC. *)
EXTENDS TestProgram

Sleeper == {1}
AllTests == DOMAIN Steps
=============================================================================
