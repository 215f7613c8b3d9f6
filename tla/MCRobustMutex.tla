----------------------------- MODULE MCRobustMutex -----------------------------
(* Model checking of RobustMutex.                                            *)
EXTENDS RobustMutexProps

=============================================================================
