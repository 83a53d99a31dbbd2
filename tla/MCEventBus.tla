----------------------------- MODULE MCEventBus -----------------------------
(***************************************************************************)
(* The instance of EventBus that TLC checks; the cfg file gives the sizes.  *)
(***************************************************************************)
EXTENDS EventBus
=============================================================================
