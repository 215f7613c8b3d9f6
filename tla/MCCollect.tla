------------------------------- MODULE MCCollect -------------------------------
(* Model checking of CollectThenTry.                                         *)
EXTENDS CollectProps

=============================================================================
