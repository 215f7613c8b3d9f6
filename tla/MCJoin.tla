-------------------------------- MODULE MCJoin --------------------------------
(* Model checking of JoinThenTry.                                            *)
EXTENDS JoinProps

=============================================================================
