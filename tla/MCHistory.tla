------------------------------ MODULE MCHistory ------------------------------
(* Small instances of the recorded control loop for TLC. *)
EXTENDS MCController, ControllerHistory
=============================================================================
