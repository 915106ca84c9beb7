--------------------------- MODULE MCWalkthrough ---------------------------
(***************************************************************************)
(* The walkthrough with its eight steps, two runs and a step that raises.  *)
(***************************************************************************)
EXTENDS Walkthrough
=============================================================================
