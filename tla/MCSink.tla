-------------------------------- MODULE MCSink --------------------------------
(* Model checking of SinkReserve.                                            *)
EXTENDS SinkProps

=============================================================================
