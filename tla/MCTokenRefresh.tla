--------------------------- MODULE MCTokenRefresh ---------------------------
(***************************************************************************)
(* Two callers in one process and a third in another.                      *)
(***************************************************************************)
EXTENDS TokenRefresh, TLC

CONSTANTS t1, t2, t3

MCProcessOf == (t1 :> "p") @@ (t2 :> "p") @@ (t3 :> "q")
Symmetry == Permutations({t1, t2})

(* What the comment on the terminal status in _refresh_account_with_claim  *)
(* says: a flagged row still holds the consumed token, so that a refresh   *)
(* of it may fail without asking the upstream.  A claim that expires under *)
(* its holder breaks it: the holder's rotation lands under the flag of the *)
(* peer that was refused.                                                  *)
TerminalRowIsDead ==
    account # Gone /\ account.status = "reauth" => account.token \notin usable
=============================================================================
