--------------------------- MODULE MCGroupEditor ---------------------------
(***************************************************************************)
(* The instances of GroupEditor that TLC checks; the cfg files give the    *)
(* sizes.                                                                  *)
(***************************************************************************)
EXTENDS GroupEditor
=============================================================================
