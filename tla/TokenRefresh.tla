---------------------------- MODULE TokenRefresh ----------------------------
(***************************************************************************)
(* Refreshing the OAuth tokens of ONE account from several processes       *)
(* (AuthManager): the in-process singleflight, the cross-replica claim row *)
(* of account_refresh_claims, the exchange of a single-use refresh token   *)
(* with the upstream, and the guarded writes of tokens and status.         *)
(*                                                                         *)
(* A refresh token is its number; its fingerprint and its plaintext are    *)
(* that number.  A ciphertext is <<token, encryption>>: encrypting a token *)
(* again gives another ciphertext of it.  Time is left out: the claim may  *)
(* expire and a deadline may have passed at any moment.                    *)
(***************************************************************************)
EXTENDS Integers, Sequences

CONSTANTS
    Tasks,          \* callers of ensure_fresh, each calling it once
    ProcessOf,      \* ProcessOf[t]: the process of caller t
    None,
    CasTries,       \* _TOKEN_CAS_MAX_ATTEMPTS (5 in the code)
    FinalTries,     \* _FINAL_PERSIST_MAX_ATTEMPTS (3 in the code)
    MaxUpsets       \* bound on faults, overruns and operators' hands

ASSUME RefreshAssumption ==
    /\ DOMAIN ProcessOf = Tasks
    /\ None \notin {ProcessOf[t] : t \in Tasks} \X Nat
    /\ CasTries \in Nat \ {0} /\ FinalTries \in Nat \ {0} /\ MaxUpsets \in Nat

VARIABLES
    account,    \* the row: [token, encryption, status], or Gone
    claim,      \* claimed_by of the unexpired claim row, or None
    task,       \* task[t]: where the refresh of caller t is
    tokens,     \* tokens[g]: how token g came about, and (history) whether
                \* it was stored into a row that had been flagged meanwhile
    usable,     \* the tokens the upstream still exchanges
    cooldown,   \* _recent_failures: keys that failed permanently just now
    down,       \* the processes that have crashed
    spoiled,    \* history: a claim expired under a running refresh, a token
                \* obtained from the upstream was lost, or an old one imported
    upsets      \* how many upsets the environment has caused

environment == <<tokens, usable, down>>
vars == <<account, claim, task, environment, cooldown, spoiled, upsets>>

Processes == {ProcessOf[t] : t \in Tasks}
MaxToken == Len(tokens)
Gone == [token |-> 0]

(* The ciphertext stored, and the key of a caller's refresh: the           *)
(* singleflight key and the composed claimed_by are the same pair.         *)
Ciphertext(row) == <<row.token, row.encryption>>
Key(t) == <<ProcessOf[t], task[t].want>>

Idle == [pc |-> "idle", want |-> 0, seen |-> <<0, 0>>, status |-> "active",
         minted |-> 0, tries |-> 0, result |-> "none"]

Holding == {"reread", "exchange", "persist", "persist_reread", "flag", "flag_write",
            "denied", "denied_write", "release"}
Flying == Holding \cup {"claim", "wait"}

Upset == upsets < MaxUpsets /\ upsets' = upsets + 1

Goto(t, pc) == task' = [task EXCEPT ![t].pc = pc]

(* The refresh is over but for the release of its claim.                   *)
Leave(t, result) == task' = [task EXCEPT ![t].pc = "release", ![t].result = result]

(* The latest row is noted for the next guarded write.                     *)
Note(t, pc, tries) ==
    task' = [task EXCEPT ![t].pc = pc, ![t].tries = tries,
                         ![t].seen = Ciphertext(account), ![t].status = account.status]

(* The singleflight task ends: everybody who joined it shares the result,  *)
(* and a permanent failure is remembered.  Callers other than the one that *)
(* ran the refresh go on to mark_permanent_failure.                        *)
EndFlight(t, result) ==
    LET ended(u) == IF result = "permanent" /\ u # t THEN "mark" ELSE "done"
    IN  /\ task' = [u \in Tasks |->
                      IF u = t \/ (task[u].pc = "join" /\ Key(u) = Key(t))
                      THEN [task[u] EXCEPT !.pc = ended(u), !.result = result]
                      ELSE task[u]]
        /\ cooldown' = IF result = "permanent" THEN cooldown \cup {Key(t)}
                       ELSE cooldown \ {Key(t)}

(* The fresh row shows other refresh-token material than the one this      *)
(* refresh is about.                                                       *)
Rotated(token) == account # Gone /\ account.token # token

Init ==
    /\ account = [token |-> 1, encryption |-> 0, status |-> "active"]
    /\ claim = None
    /\ task = [t \in Tasks |-> Idle]
    /\ tokens = <<[from |-> 0, login |-> 1, stranded |-> FALSE]>>
    /\ usable = {1}
    /\ cooldown = {}
    /\ down = {}
    /\ spoiled = FALSE
    /\ upsets = 0

----------------------------------------------------------------------------
(* The singleflight and the claim                                          *)

(* The caller reads the row; its copy may be old when it asks for a        *)
(* refresh.                                                                *)
LoadAccount(t) ==
    /\ task[t].pc = "idle"
    /\ ProcessOf[t] \notin down
    /\ account # Gone
    /\ task' = [task EXCEPT ![t] =
                  [Idle EXCEPT !.pc = "loaded", !.want = account.token,
                               !.seen = Ciphertext(account), !.status = account.status]]
    /\ UNCHANGED <<account, claim, environment, cooldown, spoiled, upsets>>

(* _RefreshSingleflight.run, on the row as the caller has it: a remembered *)
(* failure is raised again unless it has aged out, a refresh of the same   *)
(* material in flight is joined, and otherwise one is started.  Entries of *)
(* other material are forgotten.                                           *)
ensure_fresh(t) ==
    LET inFlight == \E u \in Tasks : task[u].pc \in Flying /\ Key(u) = Key(t)
        kept == {k \in cooldown : k[1] # ProcessOf[t] \/ k = Key(t)}
    IN  /\ task[t].pc = "loaded"
        /\ \/ /\ Key(t) \in cooldown
              /\ Goto(t, "mark")
              /\ cooldown' = kept
           \/ /\ Goto(t, IF inFlight THEN "join" ELSE "claim")
              /\ cooldown' = kept \ {Key(t)}
        /\ UNCHANGED <<account, claim, environment, spoiled, upsets>>

(* The conditional upsert: no claim, an expired one, or the same claimant  *)
(* for the same material.                                                  *)
MutantClaimAlwaysFree(t) == TRUE

ClaimFree(t) == claim \in {None, Key(t)}

try_acquire(t) ==
    /\ task[t].pc = "claim"
    /\ IF ClaimFree(t)
       THEN claim' = Key(t) /\ Goto(t, "reread")
       ELSE Goto(t, "wait") /\ UNCHANGED claim
    /\ UNCHANGED <<account, environment, cooldown, spoiled, upsets>>

(* The claim is somebody else's: adopt its rotation once it shows, poll    *)
(* again, or run out of time.                                              *)
wait_for_peer(t) ==
    /\ task[t].pc = "wait"
    /\ \/ Rotated(task[t].want) /\ EndFlight(t, "adopted")
       \/ ~Rotated(task[t].want) /\ EndFlight(t, "transient")
       \/ ~Rotated(task[t].want) /\ Goto(t, "claim") /\ UNCHANGED cooldown
    /\ UNCHANGED <<account, claim, environment, spoiled, upsets>>

(* The fresh re-read under the claim: adopt a rotation, honour a terminal  *)
(* status, give up when the caller's budget is spent, or exchange what is  *)
(* stored now.                                                             *)
reread_under_claim(t) ==
    LET terminal == account # Gone /\ account.status = "reauth"
    IN  /\ task[t].pc = "reread"
        /\ \/ Rotated(task[t].want) /\ Leave(t, "adopted")
           \/ ~Rotated(task[t].want) /\ terminal /\ Leave(t, "permanent")
           \/ ~Rotated(task[t].want) /\ ~terminal /\ Leave(t, "transient")
           \/ /\ ~Rotated(task[t].want)
              /\ ~terminal
              /\ IF account = Gone THEN Goto(t, "exchange") ELSE Note(t, "exchange", 0)
        /\ UNCHANGED <<account, claim, environment, cooldown, spoiled, upsets>>

(* The release deletes this refresh's own claim only; its failure is       *)
(* swallowed and leaves the claim to its expiry.                           *)
release(t) ==
    /\ task[t].pc = "release"
    /\ \/ claim' = (IF claim = Key(t) THEN None ELSE claim) /\ UNCHANGED upsets
       \/ claim = Key(t) /\ UNCHANGED claim /\ Upset
    /\ EndFlight(t, task[t].result)
    /\ UNCHANGED <<account, environment, spoiled>>

----------------------------------------------------------------------------
(* The exchange                                                            *)

(* The upstream takes a usable token for a new one.                        *)
Mint(token) ==
    /\ tokens' = Append(tokens, [from |-> token, login |-> tokens[token].login,
                                 stranded |-> FALSE])
    /\ usable' = (usable \ {token}) \cup {MaxToken + 1}

exchange(t) ==
    LET token == task[t].seen[1]
    IN  /\ task[t].pc = "exchange"
        /\ \/ /\ token \in usable
              /\ Mint(token)
              /\ task' = [task EXCEPT ![t].pc = "persist", ![t].minted = MaxToken + 1]
              /\ UNCHANGED <<spoiled, upsets>>
           \/ /\ token \in usable                             \* the answer is lost
              /\ Mint(token)
              /\ Leave(t, "transient")
              /\ spoiled' = TRUE
              /\ Upset
           \/ /\ token \notin usable                          \* invalid_grant, reused
              /\ usable' \in {usable, {g \in usable : tokens[g].login # tokens[token].login}}
              /\ Goto(t, "denied")
              /\ UNCHANGED <<tokens, spoiled, upsets>>
           \/ /\ Leave(t, "transient")                        \* never reached it
              /\ Upset
              /\ UNCHANGED <<tokens, usable, spoiled>>
        /\ UNCHANGED <<account, claim, cooldown, down>>

----------------------------------------------------------------------------
(* Persisting the new tokens                                               *)

MutantComparesNothing(t) == account # Gone

StoredAsSeen(t) == account # Gone /\ Ciphertext(account) = task[t].seen

(* rotate_tokens: one compare-and-set on the ciphertext; the status stays. *)
rotate_tokens(t) ==
    /\ task[t].pc = "persist"
    /\ IF StoredAsSeen(t)
       THEN /\ account' = [account EXCEPT !.token = task[t].minted, !.encryption = 0]
            /\ tokens' = [tokens EXCEPT ![task[t].minted].stranded =
                                            @ \/ account.status = "reauth"]
            /\ Leave(t, "refreshed")
       ELSE Goto(t, "persist_reread") /\ UNCHANGED <<account, tokens>>
    /\ UNCHANGED <<claim, usable, down, cooldown, spoiled, upsets>>

(* A miss: adopt other material; the same token under another ciphertext   *)
(* is written over on the next try.  The deadline cuts the ordinary tries  *)
(* short, never the final ones.                                            *)
MutantOneTryMore == CasTries + FinalTries + 1

TriesInAll == CasTries + FinalTries

persist_reread(t) ==
    /\ task[t].pc = "persist_reread"
    /\ \/ account = Gone /\ Leave(t, "refreshed")
       \/ Rotated(task[t].seen[1]) /\ Leave(t, "adopted")
       \/ /\ account # Gone
          /\ ~Rotated(task[t].seen[1])
          /\ \E n \in {task[t].tries + 1, CasTries} :
               /\ n > task[t].tries
               /\ IF n < TriesInAll THEN Note(t, "persist", n) ELSE Note(t, "flag", 0)
    /\ UNCHANGED <<account, claim, environment, cooldown, spoiled, upsets>>

----------------------------------------------------------------------------
(* Flagging the account                                                    *)

MutantStatusByStatusOnly(t) == account # Gone /\ account.status = task[t].status

(* update_status_if_current with the ciphertext among the expectations.    *)
StatusAsSeen(t) == StoredAsSeen(t) /\ account.status = task[t].status

(* _flag_persist_conflict_reauth: the new token cannot be stored and the   *)
(* stored one is consumed.                                                 *)
flag_persist_conflict(t) ==
    /\ task[t].pc = "flag"
    /\ \/ account = Gone /\ Leave(t, "refreshed")
       \/ Rotated(task[t].seen[1]) /\ Leave(t, "adopted")
       \/ account # Gone /\ ~Rotated(task[t].seen[1]) /\ Note(t, "flag_write", task[t].tries)
    /\ UNCHANGED <<account, claim, environment, cooldown, spoiled, upsets>>

write_conflict_flag(t) ==
    /\ task[t].pc = "flag_write"
    /\ IF StatusAsSeen(t)
       THEN account' = [account EXCEPT !.status = "reauth"] /\ Leave(t, "flagged")
       ELSE /\ UNCHANGED account
            /\ IF task[t].tries + 1 < FinalTries
               THEN task' = [task EXCEPT ![t].pc = "flag", ![t].tries = @ + 1]
               ELSE Leave(t, "transient")
    /\ spoiled' = (spoiled \/ task'[t].pc = "release")
    /\ UNCHANGED <<claim, environment, cooldown, upsets>>

(* _handle_permanent_refresh_failure: the upstream refused the token.      *)
(* Contention and the deadline turn the failure into a transient one.      *)
handle_permanent_failure(t) ==
    LET fails == account # Gone /\ ~Rotated(task[t].want)
    IN  /\ task[t].pc = "denied"
        /\ \/ account = Gone /\ Leave(t, "permanent")
           \/ Rotated(task[t].want) /\ Leave(t, "adopted")
           \/ fails /\ task[t].tries < CasTries /\ Note(t, "denied_write", task[t].tries)
           \/ fails /\ task[t].tries > 0 /\ Leave(t, "transient")
        /\ UNCHANGED <<account, claim, environment, cooldown, spoiled, upsets>>

write_permanent_failure(t) ==
    /\ task[t].pc = "denied_write"
    /\ IF StatusAsSeen(t)
       THEN account' = [account EXCEPT !.status = "reauth"] /\ Leave(t, "permanent")
       ELSE /\ UNCHANGED account
            /\ task' = [task EXCEPT ![t].pc = "denied", ![t].tries = @ + 1]
    /\ UNCHANGED <<claim, environment, cooldown, spoiled, upsets>>

(* LoadBalancer.mark_permanent_failure, for a caller that was told of the  *)
(* failure and holds its own copy of the row.                              *)
mark_permanent_failure(t) ==
    /\ task[t].pc = "mark"
    /\ account' = IF StatusAsSeen(t) THEN [account EXCEPT !.status = "reauth"] ELSE account
    /\ Goto(t, "done")
    /\ UNCHANGED <<claim, environment, cooldown, spoiled, upsets>>

----------------------------------------------------------------------------
(* Faults and operators' hands                                             *)

Unpersisted(t) == task[t].pc \in {"persist", "persist_reread", "flag", "flag_write"}

(* A statement of the refresh raises.                                      *)
DatabaseError(t) ==
    /\ task[t].pc \in Flying \ {"release", "exchange"}
    /\ IF task[t].pc \in Holding
       THEN Leave(t, "transient") /\ UNCHANGED cooldown
       ELSE EndFlight(t, "transient")
    /\ spoiled' = (spoiled \/ Unpersisted(t))
    /\ Upset
    /\ UNCHANGED <<account, claim, environment>>

Crash(p) ==
    LET lost == {t \in Tasks : ProcessOf[t] = p}
    IN  /\ p \notin down
        /\ down' = down \cup {p}
        /\ task' = [t \in Tasks |-> IF t \in lost THEN [Idle EXCEPT !.pc = "done"] ELSE task[t]]
        /\ cooldown' = {k \in cooldown : k[1] # p}
        /\ spoiled' = (spoiled \/ \E t \in lost : Unpersisted(t))
        /\ Upset
        /\ UNCHANGED <<account, claim, tokens, usable>>

(* The claim row reaches its expiry: behind a dead holder, or one that     *)
(* could not delete it, or under a refresh that takes too long.            *)
ClaimExpires ==
    LET working == \E t \in Tasks : task[t].pc \in Holding /\ Key(t) = claim
    IN  /\ claim # None
        /\ claim' = None
        /\ IF working THEN spoiled' = TRUE /\ Upset ELSE UNCHANGED <<spoiled, upsets>>
        /\ UNCHANGED <<account, task, environment, cooldown>>

(* The account is signed in again.                                         *)
SignIn ==
    /\ account # Gone
    /\ tokens' = Append(tokens, [from |-> 0, login |-> MaxToken + 1, stranded |-> FALSE])
    /\ usable' = usable \cup {MaxToken + 1}
    /\ account' = [token |-> MaxToken + 1, encryption |-> 0, status |-> "active"]
    /\ Upset
    /\ UNCHANGED <<claim, task, cooldown, down, spoiled>>

(* An auth file is imported: it holds the token that is stored already, or *)
(* that of an earlier sign-in, which may be used up.  Every encryption is  *)
(* new.                                                                    *)
Reimport(g) ==
    /\ account # Gone
    /\ g = account.token \/ tokens[g].from = 0
    /\ account' = [token |-> g, encryption |-> upsets + 1, status |-> "active"]
    /\ spoiled' = (spoiled \/ g # account.token)
    /\ Upset
    /\ UNCHANGED <<claim, task, environment, cooldown>>

Remove ==
    /\ account # Gone
    /\ account' = Gone
    /\ Upset
    /\ UNCHANGED <<claim, task, environment, cooldown, spoiled>>

Next ==
    \/ \E t \in Tasks :
         \/ LoadAccount(t) \/ ensure_fresh(t) \/ try_acquire(t) \/ wait_for_peer(t)
         \/ reread_under_claim(t) \/ release(t) \/ exchange(t)
         \/ rotate_tokens(t) \/ persist_reread(t)
         \/ flag_persist_conflict(t) \/ write_conflict_flag(t)
         \/ handle_permanent_failure(t) \/ write_permanent_failure(t)
         \/ mark_permanent_failure(t) \/ DatabaseError(t)
    \/ \E p \in Processes : Crash(p)
    \/ ClaimExpires \/ SignIn \/ Remove
    \/ \E g \in 1..MaxToken : Reimport(g)

Spec == Init /\ [][Next]_vars

----------------------------------------------------------------------------
(* Properties                                                              *)

(* The row, the claim and the refreshes hold what their types allow; no    *)
(* loop makes more tries than its bound.                                   *)
TypeOK ==
    LET Ciphertexts == (0..MaxToken) \X (0..MaxUpsets)
    IN  /\ account \in [token : 1..MaxToken, encryption : 0..MaxUpsets,
                        status : {"active", "reauth"}] \cup {Gone}
        /\ claim \in (Processes \X (1..MaxToken)) \cup {None}
        /\ task \in [Tasks -> [pc : Flying \cup {"idle", "loaded", "join", "mark", "done"},
                               want : 0..MaxToken, seen : Ciphertexts,
                               status : {"active", "reauth"}, minted : 0..MaxToken,
                               tries : 0..(CasTries + FinalTries - 1),
                               result : {"none", "adopted", "transient", "permanent",
                                         "refreshed", "flagged"}]]
        /\ usable \subseteq 1..MaxToken
        /\ cooldown \subseteq Processes \X (1..MaxToken)
        /\ down \subseteq Processes

(* A refresh stores its new token only over the token it was obtained for: *)
(* whatever expired, crashed, was signed in or imported meanwhile, neither *)
(* the rotation of a peer nor an operator's credential is overwritten.     *)
(* (An operator's hand is an upset; it may store another token.)           *)
RotationsChain ==
    [][account' # Gone /\ account # Gone /\ account'.token # account.token /\ upsets' = upsets
         => tokens'[account'.token].from = account.token]_vars

(* The upstream no longer exchanges the token, or the token was stored     *)
(* into a row that had been flagged while it was on its way.               *)
Dead(g) == g \notin usable \/ tokens[g].stranded

(* The account is flagged for re-authentication only while the stored      *)
(* token is one the upstream no longer exchanges: neither a refresh that   *)
(* was refused, nor one that failed to store, nor a caller told of an old  *)
(* failure flags a repaired account.  The exception is a token that was    *)
(* stored under the flag: the terminal status makes its next refresh fail  *)
(* without an exchange, and the failure is remembered for the token.       *)
FlagsOnlyDeadTokens ==
    [][account' # Gone /\ account # Gone /\ account.status = "active" /\ account'.status = "reauth"
         => Dead(account.token)]_vars

(* As long as no claim expires under a running refresh, no new token is    *)
(* lost on its way into the row and no old one is imported, concurrent     *)
(* refreshes of any number of processes, from copies of the row of any     *)
(* age, never knock the account out.                                       *)
HealthyStaysActive ==
    account # Gone /\ account.status = "reauth" => spoiled
=============================================================================
