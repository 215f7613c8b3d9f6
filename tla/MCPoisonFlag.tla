------------------------------ MODULE MCPoisonFlag ------------------------------
(* Model checking of PoisonFlag.                                             *)
EXTENDS PoisonFlagProps

=============================================================================
