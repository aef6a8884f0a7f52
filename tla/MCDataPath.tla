----------------------------- MODULE MCDataPath -----------------------------
(* Model checking instances of DataPath: two descriptors and two tokens, so *)
(* that one can be taken while the other is out; two failures, so that a   *)
(* second can meet what the first left behind.  The slots fill packet RAM  *)
(* to the last byte.                                                       *)
EXTENDS DataPath
=============================================================================
