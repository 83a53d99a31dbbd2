---------------------------- MODULE MCSolverLink ----------------------------
(***************************************************************************)
(* The instance of SolverLink that TLC checks; the cfg file gives the      *)
(* sizes.                                                                  *)
(***************************************************************************)
EXTENDS SolverLink
=============================================================================
