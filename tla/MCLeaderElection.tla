-------------------------- MODULE MCLeaderElection --------------------------
(* Small instances of LeaderElection. *)
EXTENDS LeaderElection, TLC

CONSTANTS a, b, w1, w2, w3

(* Two schedulers share the singleton of the one replica. *)
SiblingWorkers == {w1, w2}
SiblingOwner == w1 :> a @@ w2 :> a

(* One scheduler on each replica. *)
PairWorkers == {w1, w3}
PairOwner == w1 :> a @@ w3 :> b
=============================================================================
