------------------------ MODULE MCUsageReservations ------------------------
(* Small instances of UsageReservations. *)
EXTENDS UsageReservations, TLC

ClientSymmetry == Permutations(Reservations) \cup Permutations(Clients)
=============================================================================
