-------------------------- MODULE MCSquareCommand --------------------------
(***************************************************************************)
(* Instance of SquareCommand for TLC: two callers and two moves, given in  *)
(* Square.cfg.  Liveness is checked with the rest, so symmetry is not used.*)
(***************************************************************************)
EXTENDS SquareCommand
=============================================================================
