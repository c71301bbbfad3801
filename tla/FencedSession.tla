--------------------------- MODULE FencedSession ---------------------------
(***************************************************************************)
(* What the durable bridge promises about one session key, whatever        *)
(* claims, releases, renewals, evictions, crashes and restarts do:         *)
(*                                                                         *)
(*   - every claim is granted a fence newer than all fences before it;     *)
(*   - a fence is held only in the process it was granted to, where a      *)
(*     later local session may adopt it;                                   *)
(*   - what the key is bound to (its account and its continuity anchor)    *)
(*     changes, and the claim ends, only by the hand of a holder of the    *)
(*     newest fence, while that claim stands, or by an administrative      *)
(*     withdrawal (account removal, restart clean-up, retention);          *)
(*   - the one other hand on the binding is the merge of two accounts,     *)
(*     which leaves the claim alone and is counted.                        *)
(*                                                                         *)
(* openspec/specs/responses-api-compat/spec.md:7956 ("Durable bridge       *)
(* claims fence out the retiring predecessor") is the prose form.          *)
(***************************************************************************)
EXTENDS Integers

CONSTANT
    Holders     \* in-memory sessions that may hold a fence

VARIABLES
    home,       \* home[h] is the process holder h lives in
    top,        \* the newest fence granted, <<row id, owner epoch>>
    topHome,    \* the process it was granted to
    live,       \* the claim behind the newest fence still stands
    held,       \* held[h] is the fence holder h would present
    content,    \* what the key is bound to
    withdrawn,  \* the newest claim was ended by an administrative hand
    merges      \* how often the key's account was merged into another

vars == <<home, top, topHome, live, held, content, withdrawn, merges>>

(* Fences are ordered by row, then by epoch; <<0, 0>> is "none".           *)
NoFence == <<0, 0>>

Newer(f, g) == f[1] > g[1] \/ (f[1] = g[1] /\ f[2] > g[2])

Init ==
    /\ top = NoFence
    /\ live = FALSE
    /\ held = [h \in Holders |-> NoFence]
    /\ withdrawn = FALSE
    /\ merges = 0

(* A claim: a strictly newer fence, given to one holder (or to nobody, when *)
(* the claimant is cancelled before it can note the answer).               *)
Grant(h) ==
    /\ Newer(top', top)
    /\ topHome' = home[h]
    /\ live' = TRUE
    /\ held' \in {held, [held EXCEPT ![h] = top']}
    /\ withdrawn' = FALSE
    /\ UNCHANGED <<home, merges>>

(* A fenced write: it may change the binding and may end the claim.        *)
Write(h) ==
    /\ live
    /\ held[h] = top
    /\ live' \in BOOLEAN
    /\ UNCHANGED <<home, top, topHome, held, withdrawn, merges>>

(* A session takes over the fence of a sibling, or the newest one when it  *)
(* was granted to its own process.                                         *)
Adopt(h) ==
    /\ \/ \E g \in Holders : home[g] = home[h] /\ held' = [held EXCEPT ![h] = held[g]]
       \/ topHome = home[h] /\ held' = [held EXCEPT ![h] = top]
    /\ UNCHANGED <<home, top, topHome, live, content, withdrawn, merges>>

(* A session, or a whole process with its sessions, is gone.               *)
Drop ==
    /\ \E H \in SUBSET Holders :
         held' = [h \in Holders |-> IF h \in H THEN NoFence ELSE held[h]]
    /\ UNCHANGED <<home, top, topHome, live, content, withdrawn, merges>>

(* A holder's last fenced write and its departure in one step.             *)
Release(h) ==
    /\ live
    /\ held[h] = top
    /\ live' = FALSE
    /\ held' = [held EXCEPT ![h] = NoFence]
    /\ UNCHANGED <<home, top, topHome, content, withdrawn, merges>>

(* An administrative hand ends the claim and may change the binding.       *)
Withdraw ==
    /\ withdrawn' = TRUE
    /\ live' = FALSE
    /\ UNCHANGED <<home, top, held, merges>>

(* The account the key is bound to is merged into another one.             *)
Merge ==
    /\ merges' = merges + 1
    /\ UNCHANGED <<home, top, topHome, live, held, withdrawn>>

Next ==
    \/ \E h \in Holders : Grant(h) \/ Write(h) \/ Adopt(h) \/ Release(h)
    \/ Drop
    \/ Withdraw
    \/ Merge

Spec == Init /\ [][Next]_vars
=============================================================================
