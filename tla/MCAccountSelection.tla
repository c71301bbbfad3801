------------------------- MODULE MCAccountSelection -------------------------
(* Small instances of AccountSelection: the classes of the requests. *)
EXTENDS AccountSelection, TLC

CONSTANTS hog, light, r1, r2    \* two API keys, two of the requests

Stream(k, reserve, pct) ==
    [kind |-> "stream", key |-> k, scope |-> Accounts,
     stream_reserve_slots |-> reserve, threshold_pct |-> pct]
(* Streams of one key that compete for the only slot of an account. *)
PairClass == [r \in Requests |-> Stream(hog, 1, 0)]

(* Two requests of the light key, the others of the heavy one. *)
FairClass ==
    [r \in Requests |-> Stream(IF r \in {r1, r2} THEN light ELSE hog, 0, 80)]
=============================================================================
