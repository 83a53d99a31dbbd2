---------------------------- MODULE MCSolveRelay ----------------------------
(***************************************************************************)
(* The instances of SolveRelay that TLC checks; the cfg files give the     *)
(* sizes.                                                                  *)
(***************************************************************************)
EXTENDS SolveRelay
=============================================================================
