---------------------------- MODULE ReviewedDecision ----------------------------
(*****************************************************************************)
(* What the discovery lifecycle promises: "All 4 gears must produce          *)
(* manager-approved perspectives before any final disposition or next-phase  *)
(* decision" (discovery_coordinator.py, MYC-DISC-PAR-INV-001).               *)
(*                                                                           *)
(* approved is the set of gears whose perspective under decision is          *)
(* approved: it changes freely, approvals are withdrawn as well as given.    *)
(* The gate passes only in a moment when all have theirs, and a decision     *)
(* needs a gate that has passed.                                             *)
(*****************************************************************************)
CONSTANT Gears

VARIABLES approved, passed, decided

vars == <<approved, passed, decided>>

Init == approved = {} /\ passed = FALSE /\ decided = FALSE

Review == approved' \in SUBSET Gears /\ UNCHANGED <<passed, decided>>

Pass == approved = Gears /\ passed' = TRUE /\ UNCHANGED <<approved, decided>>

Decide == passed /\ decided' = TRUE /\ UNCHANGED <<approved, passed>>

Next == Review \/ Pass \/ Decide

Spec == Init /\ [][Next]_vars

================================================================================
