----------------------------- MODULE Lifecycle -----------------------------
(***************************************************************************)
(* What bring-up promises the rest of the driver: it waits for a firmware  *)
(* only after it started one, and it is ready only with a firmware that    *)
(* was started for this very recovery and has initialized since.           *)
(***************************************************************************)
VARIABLES
  state,  \* NativeDriver.state
  fw      \* the firmware of this recovery: none, started or up

lifecycle == <<state, fw>>

LInit == state = "Cold" /\ fw = "none"

(* A recovery begins, fails or is given up: its firmware is forgotten. *)
Fall ==
  /\ state' \in {"Recovering", "Fault"}
  /\ fw' = "none"

Started ==
  /\ state = "Recovering"
  /\ state' = "WaitingForSystemInit"
  /\ fw' = "started"

Initialized ==
  /\ fw = "started"
  /\ fw' = "up"
  /\ UNCHANGED state

Accepted ==
  /\ state = "WaitingForSystemInit"
  /\ fw = "up"
  /\ state' = "Ready"
  /\ UNCHANGED fw

LNext == Fall \/ Started \/ Initialized \/ Accepted

LSpec == LInit /\ [][LNext]_lifecycle
=============================================================================
