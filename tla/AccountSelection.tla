-------------------------- MODULE AccountSelection --------------------------
(***************************************************************************)
(* Account leases and unbound account selection in one replica:            *)
(* app/modules/proxy/load_balancer.py, _load_balancer/unbound_selection.py *)
(* and fair_share.py.                                                      *)
(*                                                                         *)
(* No section under _runtime_lock awaits, so the lock is never contended   *)
(* and a section is one step.  A selection suspends twice: while its       *)
(* inputs are loaded and while the chosen state is persisted.  In between  *)
(* other requests select, release and let their leases go stale, accounts  *)
(* come and go, and the health of accounts is observed.                    *)
(*                                                                         *)
(* A lease is named after its request.  runtime.version is only ever       *)
(* compared with the version a probe reservation saw, so the model keeps   *)
(* that comparison: current_version of the reservation turns FALSE when    *)
(* the version of its account advances.  A reservation puts its own stamp  *)
(* into last_selected_at: two readings of the clock never coincide.        *)
(***************************************************************************)
EXTENDS Integers, FiniteSets, Functions

CONSTANTS
    Accounts,
    Probing,                \* the accounts in the PROBING health tier
    Requests, Keys, None,
    Class,                  \* kind, key, scope, reserve and threshold of every request
    response_create_limit, stream_limit,    \* caps; 0 is unlimited
    MAX_SELECTION_ATTEMPTS,
    PROBE_QUIET,            \* PROBE_QUIET_SECONDS in ticks
    Slow,                   \* bound: the requests whose lease may outlive its TTL
    Lasting,                \* the requests not assumed to end
    MaxTime,                \* bound: ticks of the clock
    MaxPoolChanges          \* bound: changes of the account list

Kinds == {"response_create", "stream", "none"}      \* "none": a selection without a lease
Classes ==
    [kind : Kinds, key : Keys \cup {None}, scope : SUBSET Accounts,
     stream_reserve_slots : Nat, threshold_pct : Nat]

ASSUME SelectionAssumption ==
    /\ Probing \subseteq Accounts /\ IsFiniteSet(Accounts) /\ Slow \subseteq Requests /\ Lasting \subseteq Requests
    /\ IsFiniteSet(Requests) /\ IsFiniteSet(Keys)
    /\ None \notin Keys /\ None \notin Requests /\ None \notin Accounts
    /\ Class \in [Requests -> Classes]
    /\ response_create_limit \in Nat /\ stream_limit \in Nat
    /\ MAX_SELECTION_ATTEMPTS \in Nat \ {0}
    /\ PROBE_QUIET \in Nat \ {0} /\ MaxTime \in Nat /\ MaxPoolChanges \in Nat

VARIABLES
    runtime,        \* RuntimeState of every account, as far as modelled
    accounts,       \* the account list in the database
    changes,        \* how often it has changed
    now,            \* the clock
    pc,             \* where every request is
    inputs,         \* the account list a selection has loaded
    target,         \* the account a request holds a lease on
    reservation,    \* ProbeReservation of a selection, or NoReservation
    attempt, suppress,  \* locals of run_unbound_selection_path
    stale,          \* holders whose lease is past its TTL
    admitted        \* history: when each account was last really selected

selection == <<inputs, target, reservation, attempt, suppress>>
vars == <<runtime, accounts, changes, now, pc, selection, stale, admitted>>

Never == [at |-> -PROBE_QUIET, by |-> None]     \* last_selected_at is None
NoReservation == [previous |-> Never, reserved_at |-> Never, current_version |-> FALSE]

RuntimeState ==
    [leases |-> {}, inflight_response_creates |-> 0, inflight_streams |-> 0,
     stream_key_inflight |-> [k \in Keys |-> 0], last_selected_at |-> Never]

Init ==
    /\ runtime = [a \in Accounts |-> RuntimeState]
    /\ accounts = Accounts /\ changes = 0 /\ now = 0
    /\ pc = [r \in Requests |-> "idle"]
    /\ inputs = [r \in Requests |-> {}] /\ target = [r \in Requests |-> None]
    /\ reservation = [r \in Requests |-> NoReservation]
    /\ attempt = [r \in Requests |-> 0] /\ suppress = [r \in Requests |-> FALSE]
    /\ stale = {} /\ admitted = [a \in Accounts |-> Never.at]

-----------------------------------------------------------------------------
(* Counters.  A release subtracts with max(0, ...). *)
Creates(S) == {r \in S : Class[r].kind = "response_create"}
Streams(S) == {r \in S : Class[r].kind = "stream"}
StreamsOf(k, S) == {r \in Streams(S) : Class[r].key = k}
Monus(x, y) == IF x >= y THEN x - y ELSE 0
AtLeast1(x) == IF x >= 1 THEN x ELSE 1

(* apply_lease_release of every lease of S that is in the table. *)
MutantReleasesAbsent(rt, S) ==
    [rt EXCEPT
        !.leases = @ \ S,
        !.inflight_response_creates = Monus(@, Cardinality(Creates(S))),
        !.inflight_streams = Monus(@, Cardinality(Streams(S))),
        !.stream_key_inflight = [k \in Keys |-> Monus(@[k], Cardinality(StreamsOf(k, S)))]]

MutantReleasesBelowZero(rt, S) ==
    [rt EXCEPT
        !.leases = @ \ S,
        !.inflight_response_creates = @ - Cardinality(Creates(S)),
        !.inflight_streams = @ - Cardinality(Streams(S)),
        !.stream_key_inflight = [k \in Keys |-> @[k] - Cardinality(StreamsOf(k, S))]]

apply_lease_release(rt, S) ==
    LET gone == rt.leases \cap S IN
    [leases |-> rt.leases \ S,
     inflight_response_creates |-> Monus(rt.inflight_response_creates, Cardinality(Creates(gone))),
     inflight_streams |-> Monus(rt.inflight_streams, Cardinality(Streams(gone))),
     stream_key_inflight |->
        [k \in Keys |-> Monus(rt.stream_key_inflight[k], Cardinality(StreamsOf(k, gone)))],
     last_selected_at |-> rt.last_selected_at]

(* The selection is recorded, with a lease of its kind if it has one. *)
_acquire_account_lease_locked(rt, r, stamp) ==
    [leases |-> rt.leases \cup (IF Class[r].kind = "none" THEN {} ELSE {r}),
     inflight_response_creates |->
        rt.inflight_response_creates + (IF Class[r].kind = "response_create" THEN 1 ELSE 0),
     inflight_streams |-> rt.inflight_streams + (IF Class[r].kind = "stream" THEN 1 ELSE 0),
     stream_key_inflight |->
        [k \in Keys |-> rt.stream_key_inflight[k]
                         + (IF Class[r].kind = "stream" /\ Class[r].key = k THEN 1 ELSE 0)],
     last_selected_at |-> stamp]

(* Every caller reclaims first. *)
_reclaim_stale_account_leases_locked(rts) ==
    [a \in Accounts |-> apply_lease_release(rts[a], stale)]

MutantPrunesLeased(rts, listed) ==
    [a \in Accounts |-> IF a \in listed THEN rts[a] ELSE RuntimeState]

_prune_runtime(rts, listed) ==
    [a \in Accounts |-> IF a \in listed \/ rts[a].leases # {} THEN rts[a] ELSE RuntimeState]

(* The accounts whose version advances when the stale leases go. *)
Reclaimed == {a \in Accounts : runtime[a].leases \cap stale # {}}

(* The version of the accounts of B advances: no reservation seen on them  *)
(* before is current any more.                                             *)
Bump(rsv, B) ==
    [r \in Requests |->
        IF target[r] \in B THEN [rsv[r] EXCEPT !.current_version = FALSE] ELSE rsv[r]]

-----------------------------------------------------------------------------
(* Admission. *)
effective_cap(reserve) == AtLeast1(stream_limit - reserve)

_account_lease_allowed_locked(rt, r, reserve) ==
    /\ Class[r].kind = "response_create" =>
          response_create_limit = 0 \/ rt.inflight_response_creates < response_create_limit
    /\ Class[r].kind = "stream" =>
          stream_limit = 0 \/ rt.inflight_streams < effective_cap(reserve)

MIN_GUARANTEE_STREAMS == 2

Sum(rts, S, value(_)) == FoldFunctionOnSet(+, 0, [a \in S |-> value(rts[a])], S)

(* evaluate_stream_fair_share over the candidates of a request: under      *)
(* congestion a key may hold its share, at least MIN_GUARANTEE_STREAMS.    *)
_api_key_stream_fair_share_denial_locked(rts, r, candidates, reserve) ==
    LET key == Class[r].key
        streams(rt) == rt.inflight_streams
        own(rt) == rt.stream_key_inflight[key]
        others == {k \in Keys \ {key} : \E a \in candidates : rts[a].stream_key_inflight[k] > 0}
        capacity == Cardinality(candidates) * effective_cap(reserve)
        even_share == capacity \div (Cardinality(others) + 1)
        fair_share == IF even_share >= MIN_GUARANTEE_STREAMS THEN even_share ELSE MIN_GUARANTEE_STREAMS
    IN  /\ Class[r].kind = "stream" /\ key # None /\ Class[r].threshold_pct > 0
        /\ stream_limit > 0 /\ candidates # {}
        /\ Sum(rts, candidates, streams) * 100 >= capacity * Class[r].threshold_pct
        /\ Sum(rts, candidates, own) + 1 > fair_share

-----------------------------------------------------------------------------
(* Which account is chosen.  Quota, cooldown, backoff, overload and budget *)
(* pick the available accounts and the preferred among them: any subsets.  *)
Due(rts, a) == now - rts[a].last_selected_at.at >= PROBE_QUIET

_oldest_due_probing_account(rts, available) ==
    LET due == {a \in available \cap Probing : Due(rts, a)} IN
    {a \in due : \A b \in due : rts[a].last_selected_at.at <= rts[b].last_selected_at.at}

_select_account_preferring_budget_safe(rts, available, preferred) ==
    IF _oldest_due_probing_account(rts, available) # {}
    THEN _oldest_due_probing_account(rts, available)
    ELSE IF preferred \ Probing # {} THEN preferred \ Probing ELSE preferred

_probing_result_requires_recovery_reservation(a, available) ==
    a \in Probing /\ available \ Probing # {}

(* The result is admitted on a reservation only if the reservation pass,   *)
(* which knows no preference, arrives at the same account.                 *)
Reserves(rts, a, available) ==
    /\ _probing_result_requires_recovery_reservation(a, available)
    /\ a \in _oldest_due_probing_account(rts, available)

Invalidated(rts, a, available) ==
    /\ _probing_result_requires_recovery_reservation(a, available)
    /\ a \notin _oldest_due_probing_account(rts, available)

-----------------------------------------------------------------------------
(* The request is made, or made again after it waited for capacity. *)
StartSelection(r) ==
    /\ pc[r] \in {"idle", "parked"}
    /\ pc' = [pc EXCEPT ![r] = "load"]
    /\ UNCHANGED <<runtime, accounts, changes, now, selection, stale, admitted>>

(* The selection returns, and its locals are gone. *)
Return(r, to) ==
    /\ pc' = [pc EXCEPT ![r] = to]
    /\ attempt' = [attempt EXCEPT ![r] = 0] /\ suppress' = [suppress EXCEPT ![r] = FALSE]

(* The budget of a parked request runs out. *)
StopWaiting(r) ==
    /\ pc[r] = "parked"
    /\ pc' = [pc EXCEPT ![r] = "idle"]
    /\ UNCHANGED <<runtime, accounts, changes, now, selection, stale, admitted>>

(* An empty account list ends the selection with an error. *)
load_selection_inputs(r) ==
    /\ pc[r] = "load"
    /\ \/ /\ accounts \cap Class[r].scope = {}
          /\ Return(r, "idle") /\ UNCHANGED inputs
       \/ /\ accounts \cap Class[r].scope # {}
          /\ inputs' = [inputs EXCEPT ![r] = accounts]
          /\ pc' = [pc EXCEPT ![r] = "select"] /\ UNCHANGED <<attempt, suppress>>
    /\ UNCHANGED <<runtime, accounts, changes, now, target, reservation, stale, admitted>>

(* Another attempt; after MAX_SELECTION_ATTEMPTS failed reservations the   *)
(* attempts start over without recovery probes.                            *)
MutantNeverSuppresses(r, n) ==
    /\ pc' = [pc EXCEPT ![r] = "load"]
    /\ attempt' = [attempt EXCEPT ![r] = IF n >= MAX_SELECTION_ATTEMPTS THEN 0 ELSE n]
    /\ UNCHANGED suppress

RetryReservation(r, n) ==
    /\ pc' = [pc EXCEPT ![r] = "load"]
    /\ attempt' = [attempt EXCEPT ![r] = IF n >= MAX_SELECTION_ATTEMPTS THEN 0 ELSE n]
    /\ suppress' = [suppress EXCEPT ![r] = @ \/ n >= MAX_SELECTION_ATTEMPTS]

(* The runtime section of an attempt starts by reclaiming and pruning. *)
Prepared(r) == _prune_runtime(_reclaim_stale_account_leases_locked(runtime), inputs[r])
Pruned(r) == {a \in Accounts : a \notin inputs[r] /\ Prepared(r)[a].leases = {}}
Candidates(r) == inputs[r] \cap Class[r].scope
Allowed(r) ==
    {a \in Candidates(r) :
        _account_lease_allowed_locked(Prepared(r)[a], r, Class[r].stream_reserve_slots)}
FairShareDenied(r) ==
    _api_key_stream_fair_share_denial_locked(
        Prepared(r), r, Candidates(r), Class[r].stream_reserve_slots)

(* What every outcome of the section does to the rest of the runtime. *)
Prepare(r) ==
    /\ pc[r] = "select"
    /\ inputs' = [inputs EXCEPT ![r] = {}]
    /\ UNCHANGED <<accounts, changes, now, stale>>

(* Refused by the fair share or by the caps, or without an available       *)
(* account.  The states of the candidates are persisted all the same.      *)
Refuse(r) ==
    /\ Prepare(r)
    /\ \/ /\ FairShareDenied(r) \/ Allowed(r) # Candidates(r)
          /\ pc' = [pc EXCEPT ![r] = "refused"]
       \/ /\ ~FairShareDenied(r) /\ Allowed(r) # {}
          /\ pc' = [pc EXCEPT ![r] = "unavailable"]
    /\ attempt' = [attempt EXCEPT ![r] = @ + 1] /\ UNCHANGED suppress
    /\ runtime' = Prepared(r)
    /\ admitted' = [a \in Accounts |-> IF a \in Pruned(r) THEN Never.at ELSE admitted[a]]
    /\ reservation' = Bump(reservation, Reclaimed)
    /\ UNCHANGED target

(* The refusal is persisted, or persisting it raises.  A request the caps  *)
(* or the fair share refused waits for capacity.  One that found no        *)
(* account is tried again if the health of some account was recorded       *)
(* meanwhile (any answer: health is not modelled), and fails otherwise.    *)
MutantRecoveryStartsOver(r) ==
    /\ pc[r] \in {"refused", "unavailable"}
    /\ \/ Return(r, IF pc[r] = "refused" THEN "parked" ELSE "idle")
       \/ pc[r] = "unavailable" /\ Return(r, "load")
    /\ UNCHANGED <<runtime, accounts, changes, now, inputs, target, reservation, stale, admitted>>

PersistRefusal(r) ==
    /\ pc[r] \in {"refused", "unavailable"}
    /\ \/ Return(r, "idle")
       \/ pc[r] = "refused" /\ Return(r, "parked")
       \/ /\ pc[r] = "unavailable" /\ attempt[r] < MAX_SELECTION_ATTEMPTS
          /\ pc' = [pc EXCEPT ![r] = "load"] /\ UNCHANGED <<attempt, suppress>>
    /\ UNCHANGED <<runtime, accounts, changes, now, inputs, target, reservation, stale, admitted>>

(* The accounts the strategy may arrive at. *)
Select(r, available, a) ==
    /\ Prepare(r) /\ ~FairShareDenied(r)
    /\ available \subseteq Allowed(r) /\ available # {}
    /\ suppress[r] => (available \cap Probing = {} \/ available \subseteq Probing)
    /\ \E preferred \in SUBSET available \ {{}} :
          a \in _select_account_preferring_budget_safe(Prepared(r), available, preferred)

(* Admitted without a probe: the selection is recorded at once. *)
Admit(r, available, a) ==
    /\ Select(r, available, a)
    /\ ~_probing_result_requires_recovery_reservation(a, available)
    /\ runtime' = [Prepared(r) EXCEPT
                     ![a] = _acquire_account_lease_locked(@, r, [at |-> now, by |-> None])]
    /\ admitted' = [b \in Accounts |->
                      IF b = a THEN now ELSE IF b \in Pruned(r) THEN Never.at ELSE admitted[b]]
    /\ reservation' = Bump(reservation, Reclaimed \cup {a})
    /\ pc' = [pc EXCEPT ![r] = "persist"] /\ target' = [target EXCEPT ![r] = a]
    /\ attempt' = [attempt EXCEPT ![r] = @ + 1] /\ UNCHANGED suppress

(* Admitted as a probe: last_selected_at is taken, neither the selection   *)
(* nor the lease advances the version.                                     *)
_reserve_due_probe_locked(r, available, a) ==
    /\ Select(r, available, a) /\ Reserves(Prepared(r), a, available)
    /\ LET stamp == [at |-> now, by |-> r] IN
       /\ runtime' = [Prepared(r) EXCEPT ![a] = _acquire_account_lease_locked(@, r, stamp)]
       /\ reservation' =
            [Bump(reservation, Reclaimed) EXCEPT
                ![r] = [previous |-> Prepared(r)[a].last_selected_at,
                        reserved_at |-> stamp, current_version |-> TRUE]]
    /\ admitted' = [b \in Accounts |-> IF b \in Pruned(r) THEN Never.at ELSE admitted[b]]
    /\ pc' = [pc EXCEPT ![r] = "persist"] /\ target' = [target EXCEPT ![r] = a]
    /\ attempt' = [attempt EXCEPT ![r] = @ + 1] /\ UNCHANGED suppress

(* The two passes disagree. *)
Invalidate(r, available, a) ==
    /\ Select(r, available, a) /\ Invalidated(Prepared(r), a, available)
    /\ runtime' = Prepared(r)
    /\ admitted' = [b \in Accounts |-> IF b \in Pruned(r) THEN Never.at ELSE admitted[b]]
    /\ reservation' = Bump(reservation, Reclaimed)
    /\ RetryReservation(r, attempt[r] + 1)
    /\ UNCHANGED target

-----------------------------------------------------------------------------
(* A reservation is returned unless a real selection took its place; what  *)
(* else happened to the account does not matter.                           *)
MutantReleasesCurrentOnly(r) ==
    IF /\ reservation[r] # NoReservation /\ reservation[r].current_version
       /\ runtime[target[r]].last_selected_at = reservation[r].reserved_at
    THEN reservation[r].previous
    ELSE runtime[target[r]].last_selected_at

_release_due_probe_reservation_locked(r) ==
    IF /\ reservation[r] # NoReservation
       /\ runtime[target[r]].last_selected_at = reservation[r].reserved_at
    THEN reservation[r].previous
    ELSE runtime[target[r]].last_selected_at

MutantCommitsAlways(r) == TRUE

_probe_reservation_current_locked(r) ==
    /\ runtime[target[r]].last_selected_at = reservation[r].reserved_at
    /\ reservation[r].current_version

(* The lease goes, if it is still there, and the reservation with it. *)
GiveBack(r) ==
    LET a == target[r] IN
    /\ runtime' = [runtime EXCEPT
                     ![a] = [apply_lease_release(@, {r}) EXCEPT
                                !.last_selected_at = _release_due_probe_reservation_locked(r)]]
    /\ reservation' = [Bump(reservation, IF r \in runtime[a].leases THEN {a} ELSE {})
                          EXCEPT ![r] = NoReservation]
    /\ target' = [target EXCEPT ![r] = None]
    /\ stale' = stale \ {r}
    /\ UNCHANGED <<accounts, changes, now, inputs, admitted>>

(* Persisting the state raises or is cancelled. *)
PersistRaises(r) ==
    /\ pc[r] = "persist"
    /\ GiveBack(r) /\ Return(r, "idle")

(* Another writer changed the selected account, or the account list        *)
(* changed while there are attempts left.                                  *)
PersistStale(r) ==
    /\ pc[r] = "persist"
    /\ GiveBack(r)
    /\ \/ /\ attempt[r] >= MAX_SELECTION_ATTEMPTS
          /\ Return(r, "idle")
       \/ /\ attempt[r] < MAX_SELECTION_ATTEMPTS
          /\ pc' = [pc EXCEPT ![r] = "load"] /\ UNCHANGED <<attempt, suppress>>

(* Persisted; a probe is admitted only if its reservation is current. *)
PersistOk(r) ==
    /\ pc[r] = "persist" /\ reservation[r] = NoReservation
    /\ Return(r, "holding")
    /\ UNCHANGED <<runtime, accounts, changes, now, inputs, target, reservation, stale, admitted>>

_commit_due_probe_reservation_locked(r) ==
    /\ pc[r] = "persist" /\ reservation[r] # NoReservation
    /\ _probe_reservation_current_locked(r)
    /\ runtime' = [runtime EXCEPT ![target[r]].last_selected_at = [at |-> now, by |-> None]]
    /\ admitted' = [admitted EXCEPT ![target[r]] = now]
    /\ reservation' = [Bump(reservation, {target[r]}) EXCEPT ![r] = NoReservation]
    /\ Return(r, "holding")
    /\ UNCHANGED <<accounts, changes, now, inputs, target, stale>>

CommitFails(r) ==
    /\ pc[r] = "persist" /\ reservation[r] # NoReservation
    /\ ~_probe_reservation_current_locked(r)
    /\ GiveBack(r)
    /\ RetryReservation(r, attempt[r])

-----------------------------------------------------------------------------
(* A pinned lease: the candidates are that account, no slots are reserved. *)
acquire_account_lease(r, a) ==
    LET rts == _reclaim_stale_account_leases_locked(runtime)
        granted == /\ _account_lease_allowed_locked(rts[a], r, 0)
                   /\ ~_api_key_stream_fair_share_denial_locked(rts, r, {a}, 0)
    IN  /\ pc[r] = "idle" /\ Class[r].kind # "none"
        /\ \/ /\ granted
              /\ runtime' = [rts EXCEPT
                               ![a] = _acquire_account_lease_locked(@, r, [at |-> now, by |-> None])]
              /\ admitted' = [admitted EXCEPT ![a] = now]
              /\ reservation' = Bump(reservation, Reclaimed \cup {a})
              /\ pc' = [pc EXCEPT ![r] = "holding"] /\ target' = [target EXCEPT ![r] = a]
           \/ /\ ~granted
              /\ runtime' = rts
              /\ reservation' = Bump(reservation, Reclaimed)
              /\ UNCHANGED <<admitted, pc, target>>
        /\ UNCHANGED <<accounts, changes, now, inputs, attempt, suppress, stale>>

(* The request ends; its lease may have been reclaimed long before. *)
release_account_lease(r) ==
    /\ pc[r] = "holding"
    /\ GiveBack(r) /\ Return(r, "idle")

(* The lease of a request grows older than its TTL. *)
GrowStale(r) ==
    /\ r \in Slow \ stale /\ pc[r] \in {"persist", "holding"}
    /\ stale' = stale \cup {r}
    /\ UNCHANGED <<runtime, accounts, changes, now, pc, selection, admitted>>

(* A success or a failure of the account is recorded: its version advances. *)
_sync_runtime_state(a) ==
    /\ reservation' = Bump(reservation, {a})
    /\ UNCHANGED <<runtime, accounts, changes, now, pc, inputs, target, attempt, suppress, stale, admitted>>

ChangeAccounts ==
    /\ changes < MaxPoolChanges /\ changes' = changes + 1
    /\ accounts' \in SUBSET Accounts
    /\ UNCHANGED <<runtime, now, pc, selection, stale, admitted>>

Tick ==
    /\ now < MaxTime /\ now' = now + 1
    /\ UNCHANGED <<runtime, accounts, changes, pc, selection, stale, admitted>>

Next ==
    \/ ChangeAccounts \/ Tick
    \/ \E a \in Accounts : _sync_runtime_state(a)
    \/ \E r \in Requests :
        \/ StartSelection(r) \/ StopWaiting(r) \/ load_selection_inputs(r)
        \/ Refuse(r) \/ PersistRefusal(r)
        \/ \E available \in SUBSET Accounts, a \in Accounts :
              \/ Admit(r, available, a)
              \/ _reserve_due_probe_locked(r, available, a)
              \/ Invalidate(r, available, a)
        \/ PersistRaises(r) \/ PersistStale(r) \/ PersistOk(r)
        \/ _commit_due_probe_reservation_locked(r) \/ CommitFails(r)
        \/ \E a \in Accounts : acquire_account_lease(r, a)
        \/ release_account_lease(r) \/ GrowStale(r)

Spec == Init /\ [][Next]_vars

(* A selection goes on, a parked request is retried, a request ends. *)
Proceed(r) ==
    \/ load_selection_inputs(r) \/ Refuse(r) \/ PersistRefusal(r)
    \/ \E available \in SUBSET Accounts, a \in Accounts :
          \/ Admit(r, available, a)
          \/ _reserve_due_probe_locked(r, available, a)
          \/ Invalidate(r, available, a)
    \/ PersistRaises(r) \/ PersistStale(r) \/ PersistOk(r)
    \/ _commit_due_probe_reservation_locked(r) \/ CommitFails(r)

Retry(r) == pc[r] = "parked" /\ StartSelection(r)

Fairness ==
    \A r \in Requests :
        /\ WF_vars(Proceed(r)) /\ WF_vars(Retry(r))
        /\ r \notin Lasting => WF_vars(release_account_lease(r))

FairSpec == Spec /\ Fairness

-----------------------------------------------------------------------------
Stamps == [at : Int, by : Requests \cup {None}]
RuntimeStates ==
    [leases : SUBSET Requests, inflight_response_creates : Nat, inflight_streams : Nat,
     stream_key_inflight : [Keys -> Nat], last_selected_at : Stamps]
Reservations == [previous : Stamps, reserved_at : Stamps, current_version : BOOLEAN]

(* The state keeps its shape: counters never go below zero and attempts    *)
(* never beyond MAX_SELECTION_ATTEMPTS.                                    *)
TypeOK ==
    /\ runtime \in [Accounts -> RuntimeStates]
    /\ accounts \subseteq Accounts /\ changes \in Nat /\ now \in Nat
    /\ pc \in [Requests -> {"idle", "load", "select", "refused", "unavailable",
                          "persist", "holding", "parked"}]
    /\ inputs \in [Requests -> SUBSET Accounts]
    /\ target \in [Requests -> Accounts \cup {None}]
    /\ reservation \in [Requests -> Reservations]
    /\ attempt \in [Requests -> 0 .. MAX_SELECTION_ATTEMPTS]
    /\ suppress \in [Requests -> BOOLEAN]
    /\ stale \subseteq Requests
    /\ admitted \in [Accounts -> Int]

Holds(r) == pc[r] \in {"persist", "holding"}

(* The in-flight counters of an account are the leases in its table,       *)
(* whatever was released twice, reclaimed as stale and then released, or   *)
(* pruned: max(0, ...) never hides a missing decrement.                    *)
CountersExact ==
    \A a \in Accounts :
        LET rt == runtime[a] IN
        /\ rt.inflight_response_creates = Cardinality(Creates(rt.leases))
        /\ rt.inflight_streams = Cardinality(Streams(rt.leases))
        /\ \A k \in Keys : rt.stream_key_inflight[k] = Cardinality(StreamsOf(k, rt.leases))

(* The requests that really run on an account within the TTL of their      *)
(* lease never exceed its caps, although accounts leave the list and come  *)
(* back while leases on them are out.                                      *)
CapsRespected ==
    \A a \in Accounts :
        LET running == {r \in Requests : Holds(r) /\ target[r] = a /\ r \notin stale} IN
        /\ response_create_limit > 0 => Cardinality(Creates(running)) <= response_create_limit
        /\ stream_limit > 0 => Cardinality(Streams(running)) <= stream_limit

(* A recovery probe is admitted only after the account was left alone for  *)
(* the quiet interval, however many selections reserved it meanwhile.      *)
ProbesSpaced ==
    [][\A r \in Requests :
          reservation[r] # NoReservation /\ pc'[r] = "holding" =>
             now - admitted[target[r]] >= PROBE_QUIET]_vars

(* A reservation that came to nothing costs no quiet interval: when no     *)
(* selection has the account reserved, it is due or was really selected    *)
(* at its last_selected_at.                                                *)
UnusedProbesReturned ==
    \A a \in Accounts :
        \/ \E r \in Requests : reservation[r] # NoReservation /\ target[r] = a
        \/ Due(runtime, a)
        \/ runtime[a].last_selected_at.at = admitted[a]

(* A selection comes to an end, however often its reservation is lost, its *)
(* inputs change, or the health of an account changes while the refusal    *)
(* of an attempt is persisted.                                             *)
SelectionEnds ==
    \A r \in Requests :
        pc[r] \in {"load", "select", "refused", "unavailable", "persist"}
            ~> pc[r] \in {"idle", "parked", "holding"}

Active(k) == \E a \in Accounts : runtime[a].stream_key_inflight[k] > 0
Light(k) ==
    Cardinality({r \in Requests : Holds(r) /\ Class[r].key = k}) < MIN_GUARANTEE_STREAMS

(* fair_share.py:14-18: a key below the minimum guarantee is starvation-   *)
(* proof, because keys over their share cannot take back the slots they    *)
(* free.  It does not hold: when one freed slot takes the pool below the   *)
(* congestion threshold, the gate admits every key, and the heavy key may  *)
(* take each slot back before the light one is tried again.  Where         *)
(* capacity * threshold_pct <= 100 * (capacity - 1) the pool stays         *)
(* congested and the light key is served while it holds a stream.          *)
ActiveLightKeysServed ==
    \A r \in Requests : Class[r].key # None =>
        (pc[r] = "parked" /\ Light(Class[r].key) /\ Active(Class[r].key)
            ~> Holds(r) \/ pc[r] = "idle" \/ ~Active(Class[r].key) \/ ~Light(Class[r].key))
=============================================================================
