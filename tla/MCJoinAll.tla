------------------------------- MODULE MCJoinAll -------------------------------
(* Model checking of JoinAllThenTry.                                         *)
EXTENDS JoinAllProps

\* No upper bound, and bounds on both sides of SMALL and at it.
MCHints == {{}} \cup {{max} : max \in SMALL - 1 .. SMALL + 1}

=============================================================================
