------------------------------ MODULE MCDriver ------------------------------
(* Model checking instances of Driver: two access points, deadlines of two *)
(* ticks, so that a deadline can come nearer before it passes.             *)
EXTENDS Driver
=============================================================================
