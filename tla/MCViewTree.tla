----------------------------- MODULE MCViewTree -----------------------------
(***************************************************************************)
(* The instances of ViewTree that TLC checks; the cfg files give the       *)
(* sizes.                                                                  *)
(***************************************************************************)
EXTENDS ViewTree
=============================================================================
