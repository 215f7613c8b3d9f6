----------------------------- MODULE MCCoopCancel -----------------------------
(* Model checking of CoopCancel.                                             *)
EXTENDS CoopCancelProps

=============================================================================
