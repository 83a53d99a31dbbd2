----------------------------- MODULE MCCellValues -----------------------------
(***************************************************************************)
(* CellValues with three cells and three texts.                            *)
(***************************************************************************)
EXTENDS CellValues

MCTexts == {"", "0", "7"}
=============================================================================
