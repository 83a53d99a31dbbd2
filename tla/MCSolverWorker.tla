--------------------------- MODULE MCSolverWorker ---------------------------
(***************************************************************************)
(* The instances of SolverWorker that TLC checks; the cfg files give the   *)
(* sizes.                                                                  *)
(***************************************************************************)
EXTENDS SolverWorker
=============================================================================
