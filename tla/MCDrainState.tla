---------------------------- MODULE MCDrainState ----------------------------
(* Small instances of DrainState. *)
EXTENDS DrainState, TLC

=============================================================================
