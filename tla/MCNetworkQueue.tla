--------------------------- MODULE MCNetworkQueue ---------------------------
(* Model checking instances of NetworkQueue.  With MaxEpoch = 3 the link   *)
(* comes up, goes down and comes up again: the shortest run in which an    *)
(* old connection can meet a new one; smaller bounds serve the other runs. *)
EXTENDS NetworkQueue
=============================================================================
