------------------------------ MODULE MCForEach ------------------------------
(* Model checking of ForEachConcurrentThenTry.                               *)
EXTENDS ForEachProps

=============================================================================
