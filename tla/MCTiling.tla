------------------------------ MODULE MCTiling ------------------------------
(***************************************************************************)
(* The boards of TileRun that TLC runs tile() on.                          *)
(***************************************************************************)
EXTENDS TileRun
=============================================================================
