--------------------------- MODULE AccountProofs ---------------------------
(***************************************************************************)
(* Proofs about the two components that decide whether an account gets a   *)
(* request.  AccountSelection: for any accounts, requests, keys, caps and  *)
(* classes the counters are exact, the caps respected, recovery probes     *)
(* kept apart and unused reservations of them returned.  CircuitBreaker:   *)
(* for any calls and thresholds the half-open slot has one owner and the   *)
(* counts match the state.                                                 *)
(***************************************************************************)
EXTENDS AccountSelection, CircuitBreaker, FiniteSetTheorems, TLAPS

Exact(rt) ==
    /\ rt.inflight_response_creates = Cardinality(Creates(rt.leases))
    /\ rt.inflight_streams = Cardinality(Streams(rt.leases))
    /\ \A k \in Keys : rt.stream_key_inflight[k] = Cardinality(StreamsOf(k, rt.leases))

UnderCaps(rt) ==
    /\ response_create_limit > 0 => rt.inflight_response_creates <= response_create_limit
    /\ stream_limit > 0 => rt.inflight_streams <= stream_limit

Good(rt) == rt \in RuntimeStates /\ Exact(rt) /\ UnderCaps(rt)

-----------------------------------------------------------------------------
(* Sets of leases are finite, and so are their parts. *)
LEMMA LeasesFinite ==
    ASSUME NEW S \in SUBSET Requests
    PROVE  /\ IsFiniteSet(S) /\ IsFiniteSet(Creates(S)) /\ IsFiniteSet(Streams(S))
           /\ \A k \in Keys : IsFiniteSet(StreamsOf(k, S))
<1>1. IsFiniteSet(S)
  BY FS_Subset, SelectionAssumption
<1>2. Creates(S) \subseteq S /\ Streams(S) \subseteq S /\ \A k \in Keys : StreamsOf(k, S) \subseteq S
  BY DEF Creates, Streams, StreamsOf
<1> QED BY <1>1, <1>2, FS_Subset

(* Removing from a finite set takes away what it has in common. *)
LEMMA CountAfterRemoval ==
    ASSUME NEW A, NEW B, NEW C, IsFiniteSet(A), C = A \ B, B \subseteq A
    PROVE  /\ Cardinality(A) \in Nat /\ Cardinality(B) \in Nat /\ Cardinality(C) \in Nat
           /\ Monus(Cardinality(A), Cardinality(B)) = Cardinality(C)
           /\ Cardinality(C) <= Cardinality(A)
<1>1. IsFiniteSet(B) /\ IsFiniteSet(C)
  BY FS_Subset
<1>2. Cardinality(A) \in Nat /\ Cardinality(B) \in Nat /\ Cardinality(C) \in Nat
  BY <1>1, FS_CardinalityType
<1>3. A \cap B = B
  OBVIOUS
<1>4. Cardinality(A \ B) = Cardinality(A) - Cardinality(A \cap B)
  BY <1>1, FS_Difference
<1> QED BY <1>2, <1>3, <1>4 DEF Monus

(* A release of any leases, present or not, keeps the counters exact. *)
LEMMA ReleaseKeepsGood ==
    ASSUME NEW rt, Good(rt), NEW S \in SUBSET Requests
    PROVE  /\ Good(apply_lease_release(rt, S))
           /\ apply_lease_release(rt, S).leases = rt.leases \ S
           /\ apply_lease_release(rt, S).last_selected_at = rt.last_selected_at
<1> DEFINE out == apply_lease_release(rt, S)
           gone == rt.leases \cap S
           left == rt.leases \ S
<1>1. rt \in RuntimeStates /\ Exact(rt) /\ UnderCaps(rt)
  BY DEF Good
<1>2. gone \in SUBSET Requests /\ left \in SUBSET Requests /\ rt.leases \in SUBSET Requests
  BY <1>1 DEF RuntimeStates
<1>3. /\ Creates(left) = Creates(rt.leases) \ Creates(gone) /\ Creates(gone) \subseteq Creates(rt.leases)
      /\ Streams(left) = Streams(rt.leases) \ Streams(gone) /\ Streams(gone) \subseteq Streams(rt.leases)
      /\ \A k \in Keys : /\ StreamsOf(k, left) = StreamsOf(k, rt.leases) \ StreamsOf(k, gone)
                         /\ StreamsOf(k, gone) \subseteq StreamsOf(k, rt.leases)
  BY DEF Creates, Streams, StreamsOf
<1>4. /\ out.leases = left
      /\ out.inflight_response_creates = Monus(rt.inflight_response_creates, Cardinality(Creates(gone)))
      /\ out.inflight_streams = Monus(rt.inflight_streams, Cardinality(Streams(gone)))
      /\ out.stream_key_inflight =
            [k \in Keys |-> Monus(rt.stream_key_inflight[k], Cardinality(StreamsOf(k, gone)))]
      /\ out.last_selected_at = rt.last_selected_at
      /\ out = [leases |-> out.leases, inflight_response_creates |-> out.inflight_response_creates,
                inflight_streams |-> out.inflight_streams,
                stream_key_inflight |-> out.stream_key_inflight,
                last_selected_at |-> out.last_selected_at]
  BY <1>1 DEF apply_lease_release, RuntimeStates
<1> HIDE DEF out, gone, left
<1>5. /\ out.inflight_response_creates = Cardinality(Creates(left))
      /\ out.inflight_response_creates \in Nat
      /\ out.inflight_response_creates <= rt.inflight_response_creates
  <2>1. IsFiniteSet(Creates(rt.leases))
    BY <1>2, LeasesFinite
  <2>2. /\ Cardinality(Creates(left)) \in Nat
        /\ Monus(Cardinality(Creates(rt.leases)), Cardinality(Creates(gone))) = Cardinality(Creates(left))
        /\ Cardinality(Creates(left)) <= Cardinality(Creates(rt.leases))
    BY <2>1, <1>3, CountAfterRemoval
  <2>3. rt.inflight_response_creates = Cardinality(Creates(rt.leases))
    BY <1>1 DEF Exact
  <2> QED BY <2>2, <2>3, <1>4
<1>6. /\ out.inflight_streams = Cardinality(Streams(left))
      /\ out.inflight_streams \in Nat
      /\ out.inflight_streams <= rt.inflight_streams
  <2>1. IsFiniteSet(Streams(rt.leases))
    BY <1>2, LeasesFinite
  <2>2. /\ Cardinality(Streams(left)) \in Nat
        /\ Monus(Cardinality(Streams(rt.leases)), Cardinality(Streams(gone))) = Cardinality(Streams(left))
        /\ Cardinality(Streams(left)) <= Cardinality(Streams(rt.leases))
    BY <2>1, <1>3, CountAfterRemoval
  <2>3. rt.inflight_streams = Cardinality(Streams(rt.leases))
    BY <1>1 DEF Exact
  <2> QED BY <2>2, <2>3, <1>4
<1>7. \A k \in Keys : /\ out.stream_key_inflight[k] = Cardinality(StreamsOf(k, left))
                      /\ out.stream_key_inflight[k] \in Nat
  <2> TAKE k \in Keys
  <2>1. IsFiniteSet(StreamsOf(k, rt.leases))
    BY <1>2, LeasesFinite
  <2>2. /\ Cardinality(StreamsOf(k, left)) \in Nat
        /\ Monus(Cardinality(StreamsOf(k, rt.leases)), Cardinality(StreamsOf(k, gone)))
              = Cardinality(StreamsOf(k, left))
    BY <2>1, <1>3, CountAfterRemoval
  <2>3. rt.stream_key_inflight[k] = Cardinality(StreamsOf(k, rt.leases))
    BY <1>1 DEF Exact
  <2>4. out.stream_key_inflight[k] = Monus(rt.stream_key_inflight[k], Cardinality(StreamsOf(k, gone)))
    BY <1>4
  <2> QED BY <2>2, <2>3, <2>4
<1>8. out \in RuntimeStates
  <2>1. out.stream_key_inflight \in [Keys -> Nat]
    BY <1>4, <1>7
  <2>2. out.last_selected_at \in Stamps
    BY <1>1, <1>4 DEF RuntimeStates
  <2> QED BY <1>2, <1>4, <1>5, <1>6, <2>1, <2>2 DEF RuntimeStates
<1>9. UnderCaps(out)
  BY <1>1, <1>5, <1>6, SelectionAssumption DEF UnderCaps, RuntimeStates
<1> QED BY <1>4, <1>5, <1>6, <1>7, <1>8, <1>9 DEF Good, Exact, out, left

(* What a selection adds to the table of its account. *)
Lease(r) == IF Class[r].kind = "none" THEN {} ELSE {r}

(* A lease that the cap allows keeps the counters exact and under the caps. *)
LEMMA AcquireKeepsGood ==
    ASSUME NEW rt, Good(rt), NEW r \in Requests, r \notin rt.leases,
           NEW stamp \in Stamps, NEW reserve \in Nat,
           _account_lease_allowed_locked(rt, r, reserve)
    PROVE  /\ Good(_acquire_account_lease_locked(rt, r, stamp))
           /\ _acquire_account_lease_locked(rt, r, stamp).leases = rt.leases \cup Lease(r)
<1> DEFINE out == _acquire_account_lease_locked(rt, r, stamp)
           now_held == rt.leases \cup Lease(r)
<1>1. rt \in RuntimeStates /\ Exact(rt) /\ UnderCaps(rt)
  BY DEF Good
<1>2. rt.leases \in SUBSET Requests /\ now_held \in SUBSET Requests
  BY <1>1 DEF RuntimeStates, Lease
<1>3. Class[r] \in Classes /\ Class[r].kind \in Kinds
  BY SelectionAssumption DEF Classes
<1>4. /\ Creates(now_held) = IF Class[r].kind = "response_create"
                             THEN Creates(rt.leases) \cup {r} ELSE Creates(rt.leases)
      /\ Streams(now_held) = IF Class[r].kind = "stream"
                             THEN Streams(rt.leases) \cup {r} ELSE Streams(rt.leases)
      /\ \A k \in Keys :
            StreamsOf(k, now_held) = IF Class[r].kind = "stream" /\ Class[r].key = k
                                     THEN StreamsOf(k, rt.leases) \cup {r} ELSE StreamsOf(k, rt.leases)
      /\ r \notin Creates(rt.leases) /\ r \notin Streams(rt.leases)
      /\ \A k \in Keys : r \notin StreamsOf(k, rt.leases)
  BY DEF Creates, Streams, StreamsOf, Lease
<1>5. /\ out.leases = now_held
      /\ out.inflight_response_creates =
            rt.inflight_response_creates + (IF Class[r].kind = "response_create" THEN 1 ELSE 0)
      /\ out.inflight_streams =
            rt.inflight_streams + (IF Class[r].kind = "stream" THEN 1 ELSE 0)
      /\ out.stream_key_inflight =
            [k \in Keys |-> rt.stream_key_inflight[k]
                            + (IF Class[r].kind = "stream" /\ Class[r].key = k THEN 1 ELSE 0)]
      /\ out.last_selected_at = stamp
      /\ out = [leases |-> out.leases, inflight_response_creates |-> out.inflight_response_creates,
                inflight_streams |-> out.inflight_streams,
                stream_key_inflight |-> out.stream_key_inflight,
                last_selected_at |-> out.last_selected_at]
  BY DEF _acquire_account_lease_locked, Lease
<1> HIDE DEF out, now_held
<1>6. /\ rt.inflight_response_creates \in Nat /\ rt.inflight_streams \in Nat
      /\ \A k \in Keys : rt.stream_key_inflight[k] \in Nat
  BY <1>1 DEF RuntimeStates
<1>7. /\ out.inflight_response_creates = Cardinality(Creates(now_held))
      /\ out.inflight_response_creates \in Nat
  <2>1. IsFiniteSet(Creates(rt.leases))
    BY <1>2, LeasesFinite
  <2>2. Cardinality(Creates(rt.leases) \cup {r}) = Cardinality(Creates(rt.leases)) + 1
    BY <2>1, <1>4, FS_AddElement
  <2>3. rt.inflight_response_creates = Cardinality(Creates(rt.leases))
    BY <1>1 DEF Exact
  <2> QED BY <1>4, <1>5, <1>6, <2>2, <2>3
<1>8. /\ out.inflight_streams = Cardinality(Streams(now_held))
      /\ out.inflight_streams \in Nat
  <2>1. IsFiniteSet(Streams(rt.leases))
    BY <1>2, LeasesFinite
  <2>2. Cardinality(Streams(rt.leases) \cup {r}) = Cardinality(Streams(rt.leases)) + 1
    BY <2>1, <1>4, FS_AddElement
  <2>3. rt.inflight_streams = Cardinality(Streams(rt.leases))
    BY <1>1 DEF Exact
  <2> QED BY <1>4, <1>5, <1>6, <2>2, <2>3
<1>9. \A k \in Keys : /\ out.stream_key_inflight[k] = Cardinality(StreamsOf(k, now_held))
                      /\ out.stream_key_inflight[k] \in Nat
  <2> TAKE k \in Keys
  <2>1. IsFiniteSet(StreamsOf(k, rt.leases))
    BY <1>2, LeasesFinite
  <2>2. Cardinality(StreamsOf(k, rt.leases) \cup {r}) = Cardinality(StreamsOf(k, rt.leases)) + 1
    BY <2>1, <1>4, FS_AddElement
  <2>3. rt.stream_key_inflight[k] = Cardinality(StreamsOf(k, rt.leases))
    BY <1>1 DEF Exact
  <2>4. out.stream_key_inflight[k] = rt.stream_key_inflight[k]
            + (IF Class[r].kind = "stream" /\ Class[r].key = k THEN 1 ELSE 0)
    BY <1>5
  <2>5. StreamsOf(k, now_held) = IF Class[r].kind = "stream" /\ Class[r].key = k
                                 THEN StreamsOf(k, rt.leases) \cup {r} ELSE StreamsOf(k, rt.leases)
    BY <1>4
  <2>6. rt.stream_key_inflight[k] \in Nat
    BY <1>6
  <2>7. CASE Class[r].kind = "stream" /\ Class[r].key = k
    BY <2>2, <2>3, <2>4, <2>5, <2>6, <2>7
  <2>8. CASE ~(Class[r].kind = "stream" /\ Class[r].key = k)
    BY <2>3, <2>4, <2>5, <2>6, <2>8
  <2> QED BY <2>7, <2>8
<1>10. out \in RuntimeStates
  <2>1. out.stream_key_inflight \in [Keys -> Nat]
    BY <1>5, <1>9
  <2> QED BY <1>2, <1>5, <1>7, <1>8, <2>1 DEF RuntimeStates
<1>11. UnderCaps(out)
  <2>1. response_create_limit \in Nat /\ stream_limit \in Nat
    BY SelectionAssumption
  <2>2. CASE Class[r].kind = "response_create"
    <3>1. response_create_limit = 0 \/ rt.inflight_response_creates < response_create_limit
      BY <2>2 DEF _account_lease_allowed_locked
    <3> QED BY <1>1, <1>5, <1>6, <2>1, <2>2, <3>1 DEF UnderCaps
  <2>3. CASE Class[r].kind = "stream"
    <3>1. stream_limit = 0 \/ rt.inflight_streams < effective_cap(reserve)
      BY <2>3 DEF _account_lease_allowed_locked
    <3>2. stream_limit > 0 => effective_cap(reserve) <= stream_limit
      BY <2>1 DEF effective_cap, AtLeast1
    <3>3. effective_cap(reserve) \in Int
      BY <2>1 DEF effective_cap, AtLeast1
    <3> QED BY <1>1, <1>5, <1>6, <2>1, <2>3, <3>1, <3>2, <3>3 DEF UnderCaps
  <2>4. CASE Class[r].kind = "none"
    BY <1>1, <1>5, <1>6, <2>1, <2>4 DEF UnderCaps
  <2> QED BY <1>3, <2>2, <2>3, <2>4 DEF Kinds
<1> QED BY <1>5, <1>7, <1>8, <1>9, <1>10, <1>11 DEF Good, Exact, out, now_held

(* A new entry of the runtime holds nothing. *)
LEMMA EmptyIsGood == Good(RuntimeState) /\ RuntimeState.leases = {} /\ Never \in Stamps
<1>1. Never \in Stamps
  BY SelectionAssumption DEF Never, Stamps
<1>2. RuntimeState \in RuntimeStates /\ RuntimeState.leases = {}
  BY <1>1 DEF RuntimeState, RuntimeStates
<1>3. Creates({}) = {} /\ Streams({}) = {} /\ \A k \in Keys : StreamsOf(k, {}) = {}
  BY DEF Creates, Streams, StreamsOf
<1>4. Exact(RuntimeState)
  BY <1>3, FS_EmptySet DEF Exact, RuntimeState
<1>5. UnderCaps(RuntimeState)
  BY SelectionAssumption DEF UnderCaps, RuntimeState
<1> QED BY <1>1, <1>2, <1>4, <1>5 DEF Good

(* The stamp of the last selection is no counter. *)
LEMMA StampKeepsGood ==
    ASSUME NEW rt, Good(rt), NEW stamp \in Stamps
    PROVE  /\ Good([rt EXCEPT !.last_selected_at = stamp])
           /\ [rt EXCEPT !.last_selected_at = stamp].leases = rt.leases
<1>1. rt \in RuntimeStates
  BY DEF Good
<1>2. [rt EXCEPT !.last_selected_at = stamp] \in RuntimeStates
  BY <1>1 DEF RuntimeStates
<1> QED BY <1>1, <1>2 DEF Good, Exact, UnderCaps, RuntimeStates

-----------------------------------------------------------------------------
(* The inductive invariant: besides the counters it says whose leases are  *)
(* in the tables, so that a release finds its own and a pruned entry hides *)
(* none, and how many attempts are left.                                   *)
Table ==
    /\ \A a \in Accounts : \A r \in runtime[a].leases : target[r] = a /\ Holds(r)
    /\ \A r \in Requests : Holds(r) =>
          /\ target[r] \in Accounts
          /\ r \in stale \/ Class[r].kind = "none" \/ r \in runtime[target[r]].leases

Attempts ==
    \A r \in Requests :
        /\ pc[r] \in {"load", "select"} => attempt[r] < MAX_SELECTION_ATTEMPTS
        /\ pc[r] \in {"idle", "parked", "holding"} => attempt[r] = 0

AllGood == \A a \in Accounts : Good(runtime[a])

Inv == TypeOK /\ AllGood /\ Table /\ Attempts

(* Nothing is leased at the start. *)
LEMMA InitInv == Init => Inv
<1> SUFFICES ASSUME Init PROVE Inv
  OBVIOUS
<1>1. AllGood
  BY EmptyIsGood DEF Init, AllGood
<1>2. runtime \in [Accounts -> RuntimeStates]
  BY EmptyIsGood DEF Init, Good
<1>3. NoReservation \in Reservations /\ Never.at \in Int
  BY EmptyIsGood DEF NoReservation, Reservations, Stamps
<1>4. TypeOK
  BY <1>2, <1>3, SelectionAssumption DEF TypeOK, Init
<1>5. Table
  BY EmptyIsGood DEF Table, Init, Holds
<1>6. Attempts
  BY SelectionAssumption DEF Attempts, Init
<1> QED BY <1>1, <1>4, <1>5, <1>6 DEF Inv

(* Reclaiming takes the stale leases out of every table, and only those. *)
LEMMA ReclaimFacts ==
    ASSUME Inv
    PROVE  LET rts == _reclaim_stale_account_leases_locked(runtime) IN
           /\ rts \in [Accounts -> RuntimeStates]
           /\ \A a \in Accounts : Good(rts[a]) /\ rts[a].leases = runtime[a].leases \ stale
<1>1. stale \in SUBSET Requests
  BY DEF Inv, TypeOK
<1>2. \A a \in Accounts : /\ Good(apply_lease_release(runtime[a], stale))
                         /\ apply_lease_release(runtime[a], stale).leases = runtime[a].leases \ stale
  BY <1>1, ReleaseKeepsGood DEF Inv, AllGood
<1> QED BY <1>2 DEF _reclaim_stale_account_leases_locked, Good

(* Pruning afterwards drops no lease. *)
LEMMA PreparedFacts ==
    ASSUME Inv, NEW r \in Requests
    PROVE  /\ Prepared(r) \in [Accounts -> RuntimeStates]
           /\ \A a \in Accounts : /\ Good(Prepared(r)[a])
                                  /\ Prepared(r)[a].leases = runtime[a].leases \ stale
<1> DEFINE rts == _reclaim_stale_account_leases_locked(runtime)
<1>1. \A a \in Accounts : Good(rts[a]) /\ rts[a].leases = runtime[a].leases \ stale
  BY ReclaimFacts
<1>2. Prepared(r) = [a \in Accounts |->
          IF a \in inputs[r] \/ rts[a].leases # {} THEN rts[a] ELSE RuntimeState]
  BY DEF Prepared, _prune_runtime
<1> HIDE DEF rts
<1>3. \A a \in Accounts : /\ Good(Prepared(r)[a])
                         /\ Prepared(r)[a].leases = runtime[a].leases \ stale
  BY <1>1, <1>2, EmptyIsGood
<1> QED BY <1>2, <1>3 DEF Good

(* An advance of versions changes no type. *)
LEMMA BumpType ==
    ASSUME TypeOK, NEW B
    PROVE  Bump(reservation, B) \in [Requests -> Reservations]
BY DEF TypeOK, Bump, Reservations

-----------------------------------------------------------------------------
(* The three ways a step changes the tables.  A lease is taken: *)
LEMMA LeaseTaken ==
    ASSUME Inv, NEW r \in Requests, ~Holds(r), NEW a \in Accounts,
           NEW rts \in [Accounts -> RuntimeStates],
           \A b \in Accounts : Good(rts[b]) /\ rts[b].leases = runtime[b].leases \ stale,
           NEW stamp \in Stamps, NEW reserve \in Nat,
           _account_lease_allowed_locked(rts[a], r, reserve),
           runtime' = [rts EXCEPT ![a] = _acquire_account_lease_locked(@, r, stamp)],
           target' = [target EXCEPT ![r] = a],
           NEW to \in {"persist", "holding"}, pc' = [pc EXCEPT ![r] = to], stale' = stale
    PROVE  runtime' \in [Accounts -> RuntimeStates] /\ AllGood' /\ Table'
<1> DEFINE out == _acquire_account_lease_locked(rts[a], r, stamp)
<1>1. \A b \in Accounts : r \notin runtime[b].leases
  BY DEF Inv, Table
<1>2. Good(out) /\ out.leases = rts[a].leases \cup Lease(r)
  BY <1>1, AcquireKeepsGood
<1>3. runtime' = [rts EXCEPT ![a] = out]
  OBVIOUS
<1> HIDE DEF out
<1>4. runtime' \in [Accounts -> RuntimeStates] /\ AllGood'
  BY <1>2, <1>3 DEF AllGood, Good
<1>5. \A b \in Accounts :
        runtime'[b].leases = (runtime[b].leases \ stale) \cup (IF b = a THEN Lease(r) ELSE {})
  BY <1>2, <1>3
<1>6. /\ target \in [Requests -> Accounts \cup {None}] /\ DOMAIN pc = Requests
      /\ \A b \in Accounts : runtime[b].leases \subseteq Requests
  BY DEF Inv, TypeOK, RuntimeStates
<1>7. \A b \in Accounts : \A q \in runtime'[b].leases : target'[q] = b /\ Holds(q)'
  BY <1>1, <1>5, <1>6 DEF Inv, Table, Holds, Lease
<1>8. \A q \in Requests : Holds(q)' =>
        /\ target'[q] \in Accounts
        /\ q \in stale' \/ Class[q].kind = "none" \/ q \in runtime'[target'[q]].leases
  BY <1>5, <1>6 DEF Inv, Table, Holds, Lease
<1> QED BY <1>4, <1>7, <1>8 DEF Table

(* Only stale leases go: *)
LEMMA NothingTaken ==
    ASSUME Inv, NEW r \in Requests, ~Holds(r),
           NEW rts \in [Accounts -> RuntimeStates],
           \A b \in Accounts : Good(rts[b]) /\ rts[b].leases = runtime[b].leases \ stale,
           runtime' = rts, target' = target, stale' = stale,
           NEW to, to \notin {"persist", "holding"}, pc' = [pc EXCEPT ![r] = to]
    PROVE  runtime' \in [Accounts -> RuntimeStates] /\ AllGood' /\ Table'
<1>1. AllGood'
  BY DEF AllGood
<1>2. DOMAIN pc = Requests /\ \A b \in Accounts : runtime[b].leases \subseteq Requests
  BY DEF Inv, TypeOK, RuntimeStates
<1>3. \A q \in Requests : Holds(q)' <=> Holds(q)
  BY <1>2 DEF Holds
<1> QED BY <1>1, <1>2, <1>3 DEF Inv, Table

(* A lease is given back: *)
LEMMA LeaseGivenBack ==
    ASSUME Inv, NEW r \in Requests, Holds(r), GiveBack(r),
           NEW to, to \notin {"persist", "holding"}, pc' = [pc EXCEPT ![r] = to]
    PROVE  /\ runtime' \in [Accounts -> RuntimeStates] /\ AllGood' /\ Table'
           /\ target' \in [Requests -> Accounts \cup {None}]
           /\ reservation' \in [Requests -> Reservations]
           /\ stale' \subseteq Requests
<1> DEFINE a == target[r]
           stamp == _release_due_probe_reservation_locked(r)
           released == apply_lease_release(runtime[a], {r})
           out == [released EXCEPT !.last_selected_at = stamp]
<1>1. a \in Accounts
  BY DEF Inv, Table
<1>2. stamp \in Stamps
  BY <1>1 DEF Inv, TypeOK, RuntimeStates, Reservations, _release_due_probe_reservation_locked
<1>3. Good(released) /\ released.leases = runtime[a].leases \ {r}
  BY <1>1, ReleaseKeepsGood DEF Inv, AllGood
<1> HIDE DEF released, stamp
<1>4. Good(out) /\ out.leases = runtime[a].leases \ {r}
  BY <1>2, <1>3, StampKeepsGood
<1>5. runtime' = [runtime EXCEPT ![a] = out] /\ stale' = stale \ {r}
      /\ target' = [target EXCEPT ![r] = None]
  BY DEF GiveBack, released, stamp
<1> HIDE DEF out
<1>6. /\ runtime \in [Accounts -> RuntimeStates] /\ DOMAIN pc = Requests
      /\ target \in [Requests -> Accounts \cup {None}] /\ stale \subseteq Requests
      /\ \A b \in Accounts : runtime[b].leases \subseteq Requests
  BY DEF Inv, TypeOK, RuntimeStates
<1>7. runtime' \in [Accounts -> RuntimeStates] /\ AllGood'
  BY <1>4, <1>5, <1>6 DEF AllGood, Good, Inv
<1>8. \A b \in Accounts : runtime'[b].leases = runtime[b].leases \ {r}
  <2> TAKE b \in Accounts
  <2>1. CASE b = a
    BY <1>4, <1>5, <1>6, <2>1
  <2>2. CASE b # a
    <3>1. r \notin runtime[b].leases
      BY <2>2 DEF Inv, Table
    <3> QED BY <1>5, <1>6, <2>2, <3>1
  <2> QED BY <2>1, <2>2
<1>9. \A q \in Requests : Holds(q)' <=> (q # r /\ Holds(q))
  BY <1>6 DEF Holds
<1>10. \A b \in Accounts : \A q \in runtime'[b].leases : target'[q] = b /\ Holds(q)'
  BY <1>5, <1>6, <1>8, <1>9 DEF Inv, Table
<1>11. \A q \in Requests : Holds(q)' =>
        /\ target'[q] \in Accounts
        /\ q \in stale' \/ Class[q].kind = "none" \/ q \in runtime'[target'[q]].leases
  BY <1>5, <1>6, <1>8, <1>9 DEF Inv, Table
<1>12. reservation' \in [Requests -> Reservations]
  <2>1. NoReservation \in Reservations
    BY EmptyIsGood DEF NoReservation, Reservations
  <2>2. \A B : Bump(reservation, B) \in [Requests -> Reservations]
    BY BumpType DEF Inv
  <2> QED BY <2>1, <2>2 DEF GiveBack
<1> QED BY <1>5, <1>6, <1>7, <1>10, <1>11, <1>12 DEF Table

-----------------------------------------------------------------------------
Locals ==
    /\ pc \in [Requests -> {"idle", "load", "select", "refused", "unavailable",
                          "persist", "holding", "parked"}]
    /\ attempt \in [Requests -> 0 .. MAX_SELECTION_ATTEMPTS]
    /\ suppress \in [Requests -> BOOLEAN]

(* A selection that returns leaves its locals as it found them. *)
LEMMA ReturnKeepsLocals ==
    ASSUME Inv, NEW r \in Requests, NEW to \in {"idle", "parked", "holding"}, Return(r, to)
    PROVE  Locals' /\ Attempts'
<1>1. MAX_SELECTION_ATTEMPTS \in Nat
  BY SelectionAssumption
<1>2. Locals'
  BY <1>1 DEF Inv, TypeOK, Return, Locals
<1>3. Attempts'
  BY <1>1 DEF Inv, TypeOK, Attempts, Return
<1> QED BY <1>2, <1>3

(* A selection that starts over has attempts left. *)
LEMMA RetryKeepsLocals ==
    ASSUME Inv, NEW r \in Requests, NEW n \in 0 .. MAX_SELECTION_ATTEMPTS, RetryReservation(r, n)
    PROVE  Locals' /\ Attempts'
<1>1. MAX_SELECTION_ATTEMPTS \in Nat \ {0}
  BY SelectionAssumption
<1>2. Locals'
  BY <1>1 DEF Inv, TypeOK, RetryReservation, Locals
<1>3. Attempts'
  BY <1>1 DEF Inv, TypeOK, Attempts, RetryReservation
<1> QED BY <1>2, <1>3

(* The attempt that takes a lease or is refused counts. *)
LEMMA AttemptKeepsLocals ==
    ASSUME Inv, NEW r \in Requests, pc[r] = "select", NEW to \in {"persist", "refused", "unavailable"},
           pc' = [pc EXCEPT ![r] = to], attempt' = [attempt EXCEPT ![r] = @ + 1],
           UNCHANGED suppress
    PROVE  Locals' /\ Attempts'
<1>1. MAX_SELECTION_ATTEMPTS \in Nat \ {0}
  BY SelectionAssumption
<1>2. attempt[r] \in Nat /\ attempt[r] < MAX_SELECTION_ATTEMPTS
  BY <1>1 DEF Inv, TypeOK, Attempts
<1>3. Locals'
  BY <1>1, <1>2 DEF Inv, TypeOK, Locals
<1>4. Attempts'
  BY <1>1, <1>2 DEF Inv, TypeOK, Attempts
<1> QED BY <1>3, <1>4

(* Starting, waiting and loading touch no lease. *)
LEMMA StartInv ==
    ASSUME Inv, NEW r \in Requests,
           StartSelection(r) \/ StopWaiting(r) \/ load_selection_inputs(r)
    PROVE  Inv'
<1>1. MAX_SELECTION_ATTEMPTS \in Nat \ {0}
  BY SelectionAssumption
<1>2. /\ UNCHANGED <<runtime, accounts, changes, now, target, reservation, stale, admitted>>
      /\ inputs' \in [Requests -> SUBSET Accounts]
      /\ \A q \in Requests : Holds(q)' <=> Holds(q)
  BY DEF Inv, TypeOK, StartSelection, StopWaiting, load_selection_inputs, Return, selection, Holds
<1>3. Locals' /\ Attempts'
  <2>1. CASE StartSelection(r)
    BY <1>1, <2>1 DEF Inv, TypeOK, Attempts, Locals, StartSelection, selection
  <2>2. CASE StopWaiting(r)
    BY <1>1, <2>2 DEF Inv, TypeOK, Attempts, Locals, StopWaiting, selection
  <2>3. CASE load_selection_inputs(r) /\ Return(r, "idle")
    BY <2>3, ReturnKeepsLocals
  <2>4. CASE load_selection_inputs(r) /\ pc' = [pc EXCEPT ![r] = "select"] /\ UNCHANGED <<attempt, suppress>>
    BY <1>1, <2>4 DEF Inv, TypeOK, Attempts, Locals, load_selection_inputs
  <2> QED BY <2>1, <2>2, <2>3, <2>4 DEF load_selection_inputs
<1>4. AllGood' /\ Table'
  <2>1. \A b \in Accounts : runtime[b].leases \subseteq Requests
    BY DEF Inv, TypeOK, RuntimeStates
  <2> QED BY <1>2, <2>1 DEF Inv, AllGood, Table
<1>5. TypeOK'
  BY <1>2, <1>3 DEF Inv, TypeOK, Locals
<1> QED BY <1>3, <1>4, <1>5 DEF Inv

(* A refused attempt only reclaims and prunes. *)
LEMMA RefuseInv ==
    ASSUME Inv, NEW r \in Requests, Refuse(r)
    PROVE  Inv'
<1>1. PICK to \in {"refused", "unavailable"} :
         /\ pc[r] = "select" /\ pc' = [pc EXCEPT ![r] = to]
         /\ attempt' = [attempt EXCEPT ![r] = @ + 1] /\ UNCHANGED suppress
  BY DEF Refuse, Prepare
<1>2. Locals' /\ Attempts'
  BY <1>1, AttemptKeepsLocals
<1>3. runtime' \in [Accounts -> RuntimeStates] /\ AllGood' /\ Table'
  <2>1. ~Holds(r) /\ stale' = stale /\ runtime' = Prepared(r) /\ target' = target
        /\ pc' = [pc EXCEPT ![r] = to]
    BY <1>1 DEF Refuse, Prepare, Holds
  <2> QED BY <2>1, PreparedFacts, NothingTaken
<1>4. reservation' \in [Requests -> Reservations]
  BY BumpType DEF Refuse, Inv
<1>5. admitted' \in [Accounts -> Int]
  BY EmptyIsGood DEF Refuse, Inv, TypeOK, Stamps
<1>6. TypeOK'
  BY <1>2, <1>3, <1>4, <1>5 DEF Inv, TypeOK, Locals, Refuse, Prepare
<1> QED BY <1>2, <1>3, <1>6 DEF Inv

(* Persisting a refusal touches no lease. *)
LEMMA PersistRefusalInv ==
    ASSUME Inv, NEW r \in Requests, PersistRefusal(r)
    PROVE  Inv'
<1>1. /\ pc[r] \in {"refused", "unavailable"} /\ ~Holds(r)
      /\ UNCHANGED <<runtime, accounts, changes, now, inputs, target, reservation, stale, admitted>>
  BY DEF PersistRefusal, Holds
<1>2. (\E to \in {"idle", "parked", "load"} : pc' = [pc EXCEPT ![r] = to]) /\ Locals' /\ Attempts'
  <2>1. CASE Return(r, "idle")
    BY <2>1, ReturnKeepsLocals DEF Return
  <2>2. CASE Return(r, "parked")
    BY <2>2, ReturnKeepsLocals DEF Return
  <2>3. CASE /\ attempt[r] < MAX_SELECTION_ATTEMPTS /\ pc' = [pc EXCEPT ![r] = "load"]
             /\ UNCHANGED <<attempt, suppress>>
    BY <2>3 DEF Inv, TypeOK, Attempts, Locals
  <2> QED BY <2>1, <2>2, <2>3 DEF PersistRefusal
<1>3. \A q \in Requests : Holds(q)' <=> Holds(q)
  BY <1>1, <1>2 DEF Holds, Inv, TypeOK
<1>4. AllGood' /\ Table'
  <2>1. \A b \in Accounts : runtime[b].leases \subseteq Requests
    BY DEF Inv, TypeOK, RuntimeStates
  <2> QED BY <1>1, <1>3, <2>1 DEF Inv, AllGood, Table
<1>5. TypeOK'
  BY <1>1, <1>2 DEF Inv, TypeOK, Locals
<1> QED BY <1>2, <1>4, <1>5 DEF Inv

(* An attempt without a probe takes the lease it was allowed. *)
LEMMA AdmitInv ==
    ASSUME Inv, NEW r \in Requests, NEW available \in SUBSET Accounts, NEW a \in Accounts,
           Admit(r, available, a) \/ _reserve_due_probe_locked(r, available, a)
    PROVE  Inv'
<1>1. /\ pc[r] = "select" /\ stale' = stale /\ pc' = [pc EXCEPT ![r] = "persist"]
      /\ target' = [target EXCEPT ![r] = a] /\ attempt' = [attempt EXCEPT ![r] = @ + 1]
      /\ UNCHANGED <<accounts, changes, now, suppress>> /\ inputs' = [inputs EXCEPT ![r] = {}]
      /\ available \subseteq Allowed(r)
  BY DEF Admit, _reserve_due_probe_locked, Select, Prepare
<1>2. Locals' /\ Attempts'
  BY <1>1, AttemptKeepsLocals
<1>3. a \in Allowed(r)
  <2>1. PICK preferred \in SUBSET available \ {{}} :
          a \in _select_account_preferring_budget_safe(Prepared(r), available, preferred)
    BY DEF Admit, _reserve_due_probe_locked, Select
  <2> QED BY <1>1, <2>1 DEF _select_account_preferring_budget_safe, _oldest_due_probing_account
<1>4. /\ Class[r].stream_reserve_slots \in Nat
      /\ _account_lease_allowed_locked(Prepared(r)[a], r, Class[r].stream_reserve_slots)
  BY <1>3, SelectionAssumption DEF Allowed, Classes
<1>5. PICK stamp \in Stamps :
        runtime' = [Prepared(r) EXCEPT ![a] = _acquire_account_lease_locked(@, r, stamp)]
  BY DEF Admit, _reserve_due_probe_locked, Stamps, Inv, TypeOK
<1>6. runtime' \in [Accounts -> RuntimeStates] /\ AllGood' /\ Table'
  <2>1. ~Holds(r)
    BY <1>1 DEF Holds
  <2> QED BY <1>1, <1>4, <1>5, <2>1, PreparedFacts, LeaseTaken
<1>7. reservation' \in [Requests -> Reservations]
  <2>1. \A B : Bump(reservation, B) \in [Requests -> Reservations]
    BY BumpType DEF Inv
  <2>2. CASE Admit(r, available, a)
    BY <2>1, <2>2 DEF Admit
  <2>3. CASE _reserve_due_probe_locked(r, available, a)
    <3>1. Prepared(r)[a].last_selected_at \in Stamps
      BY PreparedFacts DEF RuntimeStates
    <3>2. [at |-> now, by |-> r] \in Stamps
      BY DEF Stamps, Inv, TypeOK
    <3>3. [previous |-> Prepared(r)[a].last_selected_at,
           reserved_at |-> [at |-> now, by |-> r], current_version |-> TRUE] \in Reservations
      BY <3>1, <3>2 DEF Reservations
    <3> QED BY <2>1, <2>3, <3>3 DEF _reserve_due_probe_locked
  <2> QED BY <2>2, <2>3
<1>8. admitted' \in [Accounts -> Int]
  BY EmptyIsGood DEF Admit, _reserve_due_probe_locked, Inv, TypeOK, Stamps
<1>9. TypeOK'
  BY <1>1, <1>2, <1>6, <1>7, <1>8 DEF Inv, TypeOK, Locals
<1> QED BY <1>2, <1>6, <1>9 DEF Inv

(* An invalidated attempt takes nothing. *)
LEMMA InvalidateInv ==
    ASSUME Inv, NEW r \in Requests, NEW available \in SUBSET Accounts, NEW a \in Accounts,
           Invalidate(r, available, a)
    PROVE  Inv'
<1>1. /\ pc[r] = "select" /\ stale' = stale /\ UNCHANGED <<accounts, changes, now, target>>
      /\ inputs' = [inputs EXCEPT ![r] = {}] /\ runtime' = Prepared(r)
      /\ RetryReservation(r, attempt[r] + 1)
  BY DEF Invalidate, Select, Prepare
<1>2. attempt[r] + 1 \in 0 .. MAX_SELECTION_ATTEMPTS
  BY <1>1, SelectionAssumption DEF Inv, TypeOK, Attempts
<1>3. Locals' /\ Attempts'
  BY <1>1, <1>2, RetryKeepsLocals
<1>4. runtime' \in [Accounts -> RuntimeStates] /\ AllGood' /\ Table'
  <2>1. ~Holds(r) /\ pc' = [pc EXCEPT ![r] = "load"]
    BY <1>1 DEF Holds, RetryReservation
  <2> QED BY <1>1, <2>1, PreparedFacts, NothingTaken
<1>5. reservation' \in [Requests -> Reservations]
  BY BumpType DEF Invalidate, Inv
<1>6. admitted' \in [Accounts -> Int]
  BY EmptyIsGood DEF Invalidate, Inv, TypeOK, Stamps
<1>7. TypeOK'
  BY <1>1, <1>3, <1>4, <1>5, <1>6 DEF Inv, TypeOK, Locals
<1> QED BY <1>3, <1>4, <1>7 DEF Inv

(* However a lease is given back, exactly its own entry goes. *)
LEMMA GiveBackInv ==
    ASSUME Inv, NEW r \in Requests,
           PersistRaises(r) \/ PersistStale(r) \/ CommitFails(r) \/ release_account_lease(r)
    PROVE  Inv'
<1>1. Holds(r) /\ GiveBack(r)
  BY DEF PersistRaises, PersistStale, CommitFails, release_account_lease, Holds
<1>2. (\E to \in {"idle", "load"} : pc' = [pc EXCEPT ![r] = to]) /\ Locals' /\ Attempts'
  <2>1. CASE Return(r, "idle")
    BY <2>1, ReturnKeepsLocals DEF Return
  <2>2. CASE /\ pc' = [pc EXCEPT ![r] = "load"] /\ attempt[r] < MAX_SELECTION_ATTEMPTS
             /\ UNCHANGED <<attempt, suppress>>
    BY <2>2 DEF Inv, TypeOK, Attempts, Locals
  <2>3. CASE RetryReservation(r, attempt[r])
    <3>1. attempt[r] \in 0 .. MAX_SELECTION_ATTEMPTS
      BY DEF Inv, TypeOK
    <3> QED BY <2>3, <3>1, RetryKeepsLocals DEF RetryReservation
  <2> QED BY <2>1, <2>2, <2>3 DEF PersistRaises, PersistStale, CommitFails, release_account_lease
<1>3. /\ runtime' \in [Accounts -> RuntimeStates] /\ AllGood' /\ Table'
      /\ target' \in [Requests -> Accounts \cup {None}]
      /\ reservation' \in [Requests -> Reservations]
      /\ stale' \subseteq Requests
  BY <1>1, <1>2, LeaseGivenBack
<1>4. TypeOK'
  BY <1>1, <1>2, <1>3 DEF Inv, TypeOK, Locals, GiveBack
<1> QED BY <1>2, <1>3, <1>4 DEF Inv

(* Persistence succeeds: the lease stays where it is. *)
LEMMA PersistOkInv ==
    ASSUME Inv, NEW r \in Requests,
           PersistOk(r) \/ _commit_due_probe_reservation_locked(r)
    PROVE  Inv'
<1>1. /\ pc[r] = "persist" /\ Return(r, "holding")
      /\ UNCHANGED <<accounts, changes, now, inputs, target, stale>>
  BY DEF PersistOk, _commit_due_probe_reservation_locked
<1>2. Locals' /\ Attempts'
  BY <1>1, ReturnKeepsLocals
<1>3. target[r] \in Accounts
  BY <1>1 DEF Inv, Table, Holds
<1>4. /\ runtime' \in [Accounts -> RuntimeStates] /\ AllGood'
      /\ \A b \in Accounts : runtime'[b].leases = runtime[b].leases
  <2>1. CASE PersistOk(r)
    BY <2>1 DEF PersistOk, Inv, AllGood, TypeOK
  <2>2. CASE _commit_due_probe_reservation_locked(r)
    <3> DEFINE stamp == [at |-> now, by |-> None]
               out == [runtime[target[r]] EXCEPT !.last_selected_at = stamp]
    <3>1. runtime' = [runtime EXCEPT ![target[r]] = out]
      BY <2>2 DEF _commit_due_probe_reservation_locked
    <3>2. stamp \in Stamps
      BY DEF Stamps, Inv, TypeOK
    <3>3. Good(out) /\ out.leases = runtime[target[r]].leases
      BY <1>3, <3>2, StampKeepsGood DEF Inv, AllGood
    <3> HIDE DEF out
    <3> QED BY <1>3, <3>1, <3>3 DEF AllGood, Good, Inv, TypeOK
  <2> QED BY <2>1, <2>2
<1>5. Table'
  <2>1. \A q \in Requests : Holds(q)' <=> Holds(q)
    BY <1>1 DEF Holds, Return, Inv, TypeOK
  <2>2. \A b \in Accounts : runtime[b].leases \subseteq Requests
    BY DEF Inv, TypeOK, RuntimeStates
  <2> QED BY <1>1, <1>4, <2>1, <2>2 DEF Table, Inv
<1>6. reservation' \in [Requests -> Reservations]
  <2>1. \A B : Bump(reservation, B) \in [Requests -> Reservations]
    BY BumpType DEF Inv
  <2>2. NoReservation \in Reservations
    BY EmptyIsGood DEF NoReservation, Reservations
  <2> QED BY <2>1, <2>2 DEF PersistOk, _commit_due_probe_reservation_locked, Inv, TypeOK
<1>7. admitted' \in [Accounts -> Int]
  BY <1>3 DEF PersistOk, _commit_due_probe_reservation_locked, Inv, TypeOK
<1>8. TypeOK'
  BY <1>1, <1>2, <1>4, <1>6, <1>7 DEF Inv, TypeOK, Locals
<1> QED BY <1>2, <1>4, <1>5, <1>8 DEF Inv

(* A pinned lease is taken under the same caps. *)
LEMMA PinnedInv ==
    ASSUME Inv, NEW r \in Requests, NEW a \in Accounts, acquire_account_lease(r, a)
    PROVE  Inv'
<1> DEFINE rts == _reclaim_stale_account_leases_locked(runtime)
<1>1. /\ pc[r] = "idle" /\ ~Holds(r) /\ DOMAIN pc = Requests
      /\ UNCHANGED <<accounts, changes, now, inputs, attempt, suppress, stale>>
  BY DEF acquire_account_lease, Holds, Inv, TypeOK
<1>2. /\ rts \in [Accounts -> RuntimeStates]
      /\ \A b \in Accounts : Good(rts[b]) /\ rts[b].leases = runtime[b].leases \ stale
  BY ReclaimFacts
<1>3. \A B : Bump(reservation, B) \in [Requests -> Reservations]
  BY BumpType DEF Inv
<1>4. [at |-> now, by |-> None] \in Stamps
  BY DEF Stamps, Inv, TypeOK
<1>5. \/ /\ _account_lease_allowed_locked(rts[a], r, 0)
         /\ runtime' = [rts EXCEPT ![a] = _acquire_account_lease_locked(@, r, [at |-> now, by |-> None])]
         /\ admitted' = [admitted EXCEPT ![a] = now]
         /\ pc' = [pc EXCEPT ![r] = "holding"] /\ target' = [target EXCEPT ![r] = a]
         /\ reservation' = Bump(reservation, Reclaimed \cup {a})
      \/ /\ runtime' = rts /\ UNCHANGED <<admitted, pc, target>>
         /\ reservation' = Bump(reservation, Reclaimed)
  BY DEF acquire_account_lease
<1> HIDE DEF rts
<1>6. CASE pc' = [pc EXCEPT ![r] = "holding"] /\ target' = [target EXCEPT ![r] = a]
           /\ _account_lease_allowed_locked(rts[a], r, 0)
           /\ runtime' = [rts EXCEPT ![a] = _acquire_account_lease_locked(@, r, [at |-> now, by |-> None])]
           /\ admitted' = [admitted EXCEPT ![a] = now]
           /\ reservation' = Bump(reservation, Reclaimed \cup {a})
  <2>1. runtime' \in [Accounts -> RuntimeStates] /\ AllGood' /\ Table'
    BY <1>1, <1>2, <1>4, <1>6, LeaseTaken
  <2>2. Attempts'
    BY <1>1, <1>6 DEF Inv, Attempts, TypeOK
  <2>3. TypeOK'
    BY <1>1, <1>3, <1>6, <2>1 DEF Inv, TypeOK
  <2> QED BY <2>1, <2>2, <2>3 DEF Inv
<1>7. CASE runtime' = rts /\ UNCHANGED <<admitted, pc, target>>
           /\ reservation' = Bump(reservation, Reclaimed)
  <2>1. pc' = [pc EXCEPT ![r] = "idle"]
    BY <1>1, <1>7 DEF Inv, TypeOK
  <2>2. runtime' \in [Accounts -> RuntimeStates] /\ AllGood' /\ Table'
    BY <1>1, <1>2, <1>7, <2>1, NothingTaken
  <2>3. Attempts'
    BY <1>1, <1>7 DEF Inv, Attempts
  <2>4. TypeOK'
    BY <1>1, <1>3, <1>7, <2>2 DEF Inv, TypeOK
  <2> QED BY <2>2, <2>3, <2>4 DEF Inv
<1> QED BY <1>5, <1>6, <1>7

(* Time, health and the account list touch no lease. *)
LEMMA EnvironmentInv ==
    ASSUME Inv,
           \/ ChangeAccounts \/ Tick \/ (\E a \in Accounts : _sync_runtime_state(a))
           \/ (\E r \in Requests : GrowStale(r)) \/ UNCHANGED vars
    PROVE  Inv'
<1>1. UNCHANGED <<runtime, pc, inputs, target, attempt, suppress, admitted>> /\ stale \subseteq stale'
  BY DEF ChangeAccounts, Tick, _sync_runtime_state, GrowStale, vars, selection
<1>2. reservation' \in [Requests -> Reservations]
  <2>1. \A B : Bump(reservation, B) \in [Requests -> Reservations]
    BY BumpType DEF Inv
  <2> QED BY <2>1 DEF ChangeAccounts, Tick, _sync_runtime_state, GrowStale, vars, selection, Inv, TypeOK
<1>3. TypeOK'
  <2>1. accounts' \subseteq Accounts /\ changes' \in Nat /\ now' \in Nat /\ stale' \subseteq Requests
    <3>1. CASE ChangeAccounts
      BY <3>1 DEF ChangeAccounts, Inv, TypeOK
    <3>2. CASE Tick
      BY <3>2 DEF Tick, Inv, TypeOK
    <3>3. CASE \E a \in Accounts : _sync_runtime_state(a)
      BY <3>3 DEF _sync_runtime_state, Inv, TypeOK
    <3>4. CASE \E r \in Requests : GrowStale(r)
      BY <3>4 DEF GrowStale, Inv, TypeOK
    <3>5. CASE UNCHANGED vars
      BY <3>5 DEF vars, Inv, TypeOK
    <3> QED BY <3>1, <3>2, <3>3, <3>4, <3>5
  <2> QED BY <1>1, <1>2, <2>1 DEF Inv, TypeOK
<1>4. AllGood' /\ Attempts'
  BY <1>1 DEF Inv, AllGood, Attempts
<1>5. Table'
  BY <1>1 DEF Inv, Table, Holds
<1> QED BY <1>3, <1>4, <1>5 DEF Inv

(* Every step of the load balancer preserves the invariant. *)
LEMMA NextInv == Inv /\ [Next]_vars => Inv'
BY StartInv, RefuseInv, PersistRefusalInv, AdmitInv, InvalidateInv, GiveBackInv, PersistOkInv, PinnedInv,
   EnvironmentInv DEF Next

(* The invariant holds throughout. *)
LEMMA AlwaysInv == Spec => []Inv
BY InitInv, NextInv, PTL DEF Spec

(* The state of the load balancer keeps its shape; in particular a         *)
(* selection never makes more than MAX_SELECTION_ATTEMPTS attempts in a    *)
(* row and no counter goes below zero.                                     *)
THEOREM SelectionTypeCorrect == Spec => []TypeOK
<1>1. Inv => TypeOK
  BY DEF Inv
<1> QED BY <1>1, AlwaysInv, PTL

(* For any requests, however their leases are taken, reclaimed as stale,   *)
(* released late or given back by a failed selection, the in-flight        *)
(* counters of an account and of its API keys count its leases.            *)
THEOREM CountersAlwaysExact == Spec => []CountersExact
<1>1. Inv => CountersExact
  BY DEF Inv, AllGood, Good, Exact, CountersExact
<1> QED BY <1>1, AlwaysInv, PTL

(* For any caps and any changes of the account list, no more requests run  *)
(* on an account within the TTL of their lease than its caps allow.        *)
THEOREM CapsAlwaysRespected == Spec => []CapsRespected
<1>1. Inv => CapsRespected
  <2> SUFFICES ASSUME Inv, NEW a \in Accounts
               PROVE  LET running == {r \in Requests : Holds(r) /\ target[r] = a /\ r \notin stale} IN
                      /\ response_create_limit > 0 => Cardinality(Creates(running)) <= response_create_limit
                      /\ stream_limit > 0 => Cardinality(Streams(running)) <= stream_limit
    BY DEF CapsRespected
  <2> DEFINE running == {r \in Requests : Holds(r) /\ target[r] = a /\ r \notin stale}
             held == runtime[a].leases
  <2>1. /\ \A r \in running : r \in held \/ Class[r].kind = "none"
        /\ held \in SUBSET Requests
    BY DEF Inv, Table, TypeOK, RuntimeStates
  <2>2. Creates(running) \subseteq Creates(held) /\ Streams(running) \subseteq Streams(held)
    BY <2>1 DEF Creates, Streams
  <2>3. IsFiniteSet(Creates(held)) /\ IsFiniteSet(Streams(held))
    BY <2>1, LeasesFinite
  <2>4. /\ Cardinality(Creates(running)) <= Cardinality(Creates(held))
        /\ Cardinality(Streams(running)) <= Cardinality(Streams(held))
    BY <2>2, <2>3, FS_Subset
  <2>5. /\ Cardinality(Creates(running)) \in Nat /\ Cardinality(Creates(held)) \in Nat
        /\ Cardinality(Streams(running)) \in Nat /\ Cardinality(Streams(held)) \in Nat
    BY <2>2, <2>3, FS_Subset, FS_CardinalityType
  <2>6. /\ response_create_limit > 0 => Cardinality(Creates(held)) <= response_create_limit
        /\ stream_limit > 0 => Cardinality(Streams(held)) <= stream_limit
    BY DEF Inv, AllGood, Good, Exact, UnderCaps
  <2> HIDE DEF running, held
  <2>7. response_create_limit \in Nat /\ stream_limit \in Nat
    BY SelectionAssumption
  <2>8. /\ response_create_limit > 0 => Cardinality(Creates(running)) <= response_create_limit
        /\ stream_limit > 0 => Cardinality(Streams(running)) <= stream_limit
    BY <2>4, <2>5, <2>6, <2>7
  <2> QED BY <2>8 DEF running
<1> QED BY <1>1, AlwaysInv, PTL

-----------------------------------------------------------------------------
(* Recovery probes.  A stamp is as old as the clock says, and the stamp of *)
(* an account is no older than its last real selection, younger if a       *)
(* reservation put it there.                                               *)
Sound(s, clock) == s.at <= clock /\ s.at >= -PROBE_QUIET /\ (s.by # None => s.at >= 0)
After(s, t) == t <= s.at /\ (s.by # None => t < s.at)

StampedAt(a) ==
    LET last == runtime[a].last_selected_at IN
    /\ Sound(last, now) /\ After(last, admitted[a])
    /\ \/ last.at = admitted[a]
       \/ now - last.at >= PROBE_QUIET
       \/ \E r \in Requests : /\ reservation[r] # NoReservation /\ target[r] = a
                              /\ reservation[r].reserved_at = last

(* The stamp a reservation replaced was due, and so was the account,       *)
(* unless it has really been selected since.                               *)
ReservedAt(r) ==
    LET v == reservation[r] IN
    reservation[r] # NoReservation =>
        /\ pc[r] = "persist" /\ v.reserved_at.by = r
        /\ Sound(v.reserved_at, now) /\ Sound(v.previous, now)
        /\ v.reserved_at.at - v.previous.at >= PROBE_QUIET
        /\ v.reserved_at.at <= admitted[target[r]] \/ After(v.previous, admitted[target[r]])

PInv == (\A a \in Accounts : StampedAt(a)) /\ (\A r \in Requests : ReservedAt(r))

(* The primed invariant from its primed parts. *)
LEMMA AssemblePInv ==
    ASSUME \A a \in Accounts : StampedAt(a)', \A r \in Requests : ReservedAt(r)'
    PROVE  PInv'
BY DEF PInv

(* The advance of a version leaves a reservation a reservation. *)
LEMMA BumpKeeps ==
    ASSUME TypeOK, PInv, NEW B, NEW q \in Requests
    PROVE  /\ Bump(reservation, B)[q].previous = reservation[q].previous
           /\ Bump(reservation, B)[q].reserved_at = reservation[q].reserved_at
           /\ Bump(reservation, B)[q] # NoReservation <=> reservation[q] # NoReservation
<1> DEFINE v == reservation[q]
           w == Bump(reservation, B)[q]
<1>1. v \in Reservations
  BY DEF TypeOK
<1>2. w = v \/ w = [v EXCEPT !.current_version = FALSE]
  BY DEF Bump
<1>3. w.previous = v.previous /\ w.reserved_at = v.reserved_at
  BY <1>1, <1>2 DEF Reservations
<1>4. v = NoReservation => w = NoReservation
  <2> SUFFICES ASSUME v = NoReservation PROVE w = NoReservation
    OBVIOUS
  <2>1. w.current_version = FALSE
    BY <1>1, <1>2 DEF NoReservation, Reservations
  <2>2. w = [previous |-> w.previous, reserved_at |-> w.reserved_at,
             current_version |-> w.current_version]
    BY <1>1, <1>2 DEF Reservations
  <2>3. v.previous = Never /\ v.reserved_at = Never
    BY DEF NoReservation
  <2> HIDE DEF v, w
  <2> QED BY <1>3, <2>1, <2>2, <2>3 DEF NoReservation
<1>5. v # NoReservation => v.reserved_at.by \in Requests
  BY DEF PInv, ReservedAt
<1>6. NoReservation.reserved_at.by = None
  BY DEF NoReservation, Never
<1>7. v # NoReservation => w # NoReservation
  BY <1>3, <1>5, <1>6, SelectionAssumption
<1> QED BY <1>3, <1>4, <1>7

(* A reservation that stays is still of something due. *)
LEMMA ReservationStays ==
    ASSUME Inv, PInv, now' \in Nat, now' >= now, NEW q \in Requests,
           reservation'[q] # NoReservation =>
               /\ reservation[q] # NoReservation /\ pc'[q] = pc[q] /\ target'[q] = target[q]
               /\ reservation'[q].previous = reservation[q].previous
               /\ reservation'[q].reserved_at = reservation[q].reserved_at,
           \A a \in Accounts : admitted'[a] \in {admitted[a], now, -PROBE_QUIET}
    PROVE  ReservedAt(q)'
<1> SUFFICES ASSUME reservation'[q] # NoReservation
             PROVE  /\ pc'[q] = "persist" /\ reservation'[q].reserved_at.by = q
                    /\ Sound(reservation'[q].reserved_at, now') /\ Sound(reservation'[q].previous, now')
                    /\ reservation'[q].reserved_at.at - reservation'[q].previous.at >= PROBE_QUIET
                    /\ \/ reservation'[q].reserved_at.at <= admitted'[target'[q]]
                       \/ After(reservation'[q].previous, admitted'[target'[q]])
  BY DEF ReservedAt
<1> DEFINE v == reservation[q]
           t == target[q]
<1>1. /\ v # NoReservation /\ pc'[q] = pc[q] /\ target'[q] = t
      /\ reservation'[q].previous = v.previous /\ reservation'[q].reserved_at = v.reserved_at
  OBVIOUS
<1>2. /\ pc[q] = "persist" /\ v.reserved_at.by = q
      /\ Sound(v.reserved_at, now) /\ Sound(v.previous, now)
      /\ v.reserved_at.at - v.previous.at >= PROBE_QUIET
      /\ v.reserved_at.at <= admitted[t] \/ After(v.previous, admitted[t])
  BY <1>1 DEF PInv, ReservedAt
<1>3. /\ v.reserved_at.at \in Int /\ v.previous.at \in Int /\ now \in Nat
      /\ PROBE_QUIET \in Nat \ {0}
  BY SelectionAssumption DEF Inv, TypeOK, Reservations, Stamps
<1>4. t \in Accounts /\ admitted[t] \in Int
  BY <1>2 DEF Inv, Table, Holds, TypeOK
<1>5. admitted'[t] \in {admitted[t], now, -PROBE_QUIET}
  BY <1>4
<1> HIDE DEF v, t
<1>6. v.reserved_at.at <= admitted'[t] \/ After(v.previous, admitted'[t])
  <2>1. CASE admitted'[t] = admitted[t]
    BY <1>2, <2>1
  <2>2. CASE admitted'[t] = now
    BY <1>2, <1>3, <2>2 DEF Sound
  <2>3. CASE admitted'[t] = -PROBE_QUIET
    BY <1>2, <1>3, <2>3 DEF Sound, After
  <2> QED BY <1>5, <2>1, <2>2, <2>3
<1>7. Sound(v.reserved_at, now') /\ Sound(v.previous, now')
  <2>1. \A s \in Stamps : Sound(s, now) => Sound(s, now')
    BY <1>3 DEF Sound, Stamps
  <2>2. v.reserved_at \in Stamps /\ v.previous \in Stamps
    BY DEF v, Inv, TypeOK, Reservations
  <2> QED BY <1>2, <2>1, <2>2
<1> QED BY <1>1, <1>2, <1>6, <1>7

(* An account whose stamp stays, with the reservation that put it there. *)
LEMMA StampStays ==
    ASSUME Inv, PInv, now' \in Nat, now' >= now, NEW a \in Accounts,
           runtime'[a].last_selected_at = runtime[a].last_selected_at,
           admitted'[a] = admitted[a],
           \A q \in Requests :
               (/\ reservation[q] # NoReservation /\ target[q] = a
                /\ reservation[q].reserved_at = runtime[a].last_selected_at) =>
                    /\ reservation'[q] # NoReservation /\ target'[q] = a
                    /\ reservation'[q].reserved_at = reservation[q].reserved_at
    PROVE  StampedAt(a)'
<1> DEFINE last == runtime[a].last_selected_at
<1>1. last \in Stamps /\ last.at \in Int /\ now \in Nat /\ PROBE_QUIET \in Nat
  BY SelectionAssumption DEF Inv, TypeOK, RuntimeStates, Stamps
<1>2. StampedAt(a)
  BY DEF PInv
<1> HIDE DEF last
<1>3. last.at <= now' /\ last.at >= -PROBE_QUIET /\ (last.by # None => last.at >= 0)
  BY <1>1, <1>2 DEF StampedAt, Sound, last
<1>4. After(last, admitted[a])
  BY <1>2 DEF StampedAt, last
<1>5. \/ last.at = admitted[a] \/ now' - last.at >= PROBE_QUIET
      \/ \E r \in Requests : /\ reservation'[r] # NoReservation /\ target'[r] = a
                             /\ reservation'[r].reserved_at = last
  <2>1. CASE last.at = admitted[a]
    BY <2>1
  <2>2. CASE now - last.at >= PROBE_QUIET
    BY <1>1, <2>2
  <2>3. CASE \E r \in Requests : /\ reservation[r] # NoReservation /\ target[r] = a
                                 /\ reservation[r].reserved_at = last
    BY <2>3 DEF last
  <2> QED BY <1>2, <2>1, <2>2, <2>3 DEF StampedAt, last
<1> QED BY <1>3, <1>4, <1>5 DEF StampedAt, Sound, last

(* An account that is selected now, or forgotten. *)
LEMMA StampFresh ==
    ASSUME Inv, now' = now, NEW a \in Accounts,
           \/ runtime'[a].last_selected_at = [at |-> now, by |-> None] /\ admitted'[a] = now
           \/ runtime'[a].last_selected_at = Never /\ admitted'[a] = Never.at
    PROVE  StampedAt(a)'
<1>1. now \in Nat /\ PROBE_QUIET \in Nat \ {0}
  BY SelectionAssumption DEF Inv, TypeOK
<1>2. PICK t : /\ runtime'[a].last_selected_at = [at |-> t, by |-> None] /\ admitted'[a] = t
               /\ t \in {now, -PROBE_QUIET}
  BY DEF Never
<1>3. Sound([at |-> t, by |-> None], now') /\ After([at |-> t, by |-> None], t)
  BY <1>1, <1>2 DEF Sound, After
<1>4. [at |-> t, by |-> None].at = t
  OBVIOUS
<1> QED BY <1>2, <1>3, <1>4 DEF StampedAt

(* The runtime section keeps the stamps of all accounts but the pruned. *)
LEMMA PreparedStamps ==
    ASSUME Inv, NEW r \in Requests, NEW a \in Accounts
    PROVE  Prepared(r)[a].last_selected_at =
               IF a \in Pruned(r) THEN Never ELSE runtime[a].last_selected_at
<1> DEFINE rts == _reclaim_stale_account_leases_locked(runtime)
<1>1. rts[a].last_selected_at = runtime[a].last_selected_at
  <2>1. stale \in SUBSET Requests /\ Good(runtime[a])
    BY DEF Inv, TypeOK, AllGood
  <2>2. rts[a] = apply_lease_release(runtime[a], stale)
    BY DEF _reclaim_stale_account_leases_locked
  <2> QED BY <2>1, <2>2, ReleaseKeepsGood
<1>2. Prepared(r)[a] = IF a \in inputs[r] \/ rts[a].leases # {} THEN rts[a] ELSE RuntimeState
  BY DEF Prepared, _prune_runtime
<1> HIDE DEF rts
<1>3. RuntimeState.leases = {} /\ RuntimeState.last_selected_at = Never
  BY DEF RuntimeState
<1>4. a \in Pruned(r) <=> ~(a \in inputs[r] \/ rts[a].leases # {})
  BY <1>2, <1>3 DEF Pruned
<1> QED BY <1>1, <1>2, <1>3, <1>4

(* Requests whose selection holds no reservation. *)
LEMMA UnreservedUnlessPersisting ==
    ASSUME PInv, NEW r \in Requests, pc[r] # "persist"
    PROVE  reservation[r] = NoReservation
BY DEF PInv, ReservedAt

(* Time, health, the account list and the start of a selection. *)
LEMMA ProbeEnvironment ==
    ASSUME Inv, PInv, now' \in Nat, now' >= now,
           UNCHANGED <<runtime, target, admitted>>,
           NEW B, reservation' = Bump(reservation, B) \/ reservation' = reservation,
           \A q \in Requests : pc[q] = "persist" /\ reservation[q] # NoReservation => pc'[q] = pc[q]
    PROVE  PInv'
<1>1. \A q \in Requests :
        /\ reservation'[q].previous = reservation[q].previous
        /\ reservation'[q].reserved_at = reservation[q].reserved_at
        /\ reservation'[q] # NoReservation <=> reservation[q] # NoReservation
  BY BumpKeeps DEF Inv
<1>2. \A q \in Requests : reservation[q] # NoReservation => pc'[q] = pc[q]
  BY UnreservedUnlessPersisting
<1>3. \A a \in Accounts : StampedAt(a)'
  <2> TAKE a \in Accounts
  <2> QED BY <1>1, StampStays
<1>4. \A q \in Requests : ReservedAt(q)'
  <2> TAKE q \in Requests
  <2> QED BY <1>1, <1>2, ReservationStays
<1> QED BY <1>3, <1>4, AssemblePInv

(* An attempt that takes no account. *)
LEMMA ProbeNothingTaken ==
    ASSUME Inv, PInv, NEW r \in Requests,
           Refuse(r) \/ \E available \in SUBSET Accounts, a \in Accounts : Invalidate(r, available, a)
    PROVE  PInv'
<1>1. /\ pc[r] = "select" /\ now' = now /\ target' = target /\ runtime' = Prepared(r)
      /\ admitted' = [a \in Accounts |-> IF a \in Pruned(r) THEN Never.at ELSE admitted[a]]
      /\ reservation' = Bump(reservation, Reclaimed)
      /\ \E to : pc' = [pc EXCEPT ![r] = to]
  BY DEF Refuse, Invalidate, Select, Prepare, RetryReservation
<1>2. \A q \in Requests :
        /\ reservation'[q].previous = reservation[q].previous
        /\ reservation'[q].reserved_at = reservation[q].reserved_at
        /\ reservation'[q] # NoReservation <=> reservation[q] # NoReservation
  BY <1>1, BumpKeeps DEF Inv
<1>3. now \in Nat /\ now' \in Nat /\ now' >= now /\ DOMAIN pc = Requests /\ Never.at = -PROBE_QUIET
  BY <1>1 DEF Inv, TypeOK, Never
<1>4. \A a \in Accounts : StampedAt(a)'
  <2> TAKE a \in Accounts
  <2>1. runtime'[a].last_selected_at = IF a \in Pruned(r) THEN Never ELSE runtime[a].last_selected_at
    BY <1>1, PreparedStamps
  <2>2. CASE a \in Pruned(r)
    BY <1>1, <2>1, <2>2, StampFresh
  <2>3. CASE a \notin Pruned(r)
    BY <1>1, <1>2, <1>3, <2>1, <2>3, StampStays
  <2> QED BY <2>2, <2>3
<1>5. \A q \in Requests : ReservedAt(q)'
  <2> TAKE q \in Requests
  <2>1. reservation[q] # NoReservation => q # r
    BY <1>1, UnreservedUnlessPersisting
  <2>2. \A a \in Accounts : admitted'[a] \in {admitted[a], now, -PROBE_QUIET}
    BY <1>1, <1>3
  <2> QED BY <1>1, <1>2, <1>3, <2>1, <2>2, ReservationStays
<1> QED BY <1>4, <1>5, AssemblePInv

(* An account is really selected, by an attempt, by a pinned lease or by   *)
(* the commit of its probe; the others are left alone or forgotten.        *)
LEMMA ProbeSelected ==
    ASSUME Inv, PInv, NEW r \in Requests, NEW a \in Accounts, NEW B, now' = now,
           runtime'[a].last_selected_at = [at |-> now, by |-> None], admitted'[a] = now,
           \A b \in Accounts : b # a =>
               \/ /\ runtime'[b].last_selected_at = runtime[b].last_selected_at
                  /\ admitted'[b] = admitted[b]
               \/ runtime'[b].last_selected_at = Never /\ admitted'[b] = Never.at,
           \A q \in Requests : q # r =>
               reservation'[q] = Bump(reservation, B)[q] /\ pc'[q] = pc[q] /\ target'[q] = target[q],
           reservation'[r] = NoReservation,
           reservation[r] # NoReservation => target[r] = a
    PROVE  PInv'
<1>1. \A q \in Requests : q # r =>
        /\ reservation'[q].previous = reservation[q].previous
        /\ reservation'[q].reserved_at = reservation[q].reserved_at
        /\ reservation'[q] # NoReservation <=> reservation[q] # NoReservation
  BY BumpKeeps DEF Inv
<1>2. now \in Nat /\ now' \in Nat /\ now' >= now /\ Never.at = -PROBE_QUIET
  BY DEF Inv, TypeOK, Never
<1>3. \A b \in Accounts : StampedAt(b)'
  <2> TAKE b \in Accounts
  <2>1. CASE b = a
    BY <2>1, StampFresh
  <2>2. CASE b # a /\ runtime'[b].last_selected_at = Never /\ admitted'[b] = Never.at
    BY <2>2, StampFresh
  <2>3. CASE b # a /\ runtime'[b].last_selected_at = runtime[b].last_selected_at
             /\ admitted'[b] = admitted[b]
    BY <1>1, <1>2, <2>3, StampStays
  <2> QED BY <2>1, <2>2, <2>3
<1>4. \A q \in Requests : ReservedAt(q)'
  <2> TAKE q \in Requests
  <2>1. \A b \in Accounts : admitted'[b] \in {admitted[b], now, -PROBE_QUIET}
    BY <1>2
  <2> QED BY <1>1, <1>2, <2>1, ReservationStays
<1> QED BY <1>3, <1>4, AssemblePInv

(* A lease taken without a probe. *)
LEMMA ProbeAdmit ==
    ASSUME Inv, PInv, NEW r \in Requests, NEW available \in SUBSET Accounts, NEW a \in Accounts,
           Admit(r, available, a)
    PROVE  PInv'
<1> DEFINE stamp == [at |-> now, by |-> None]
           out == _acquire_account_lease_locked(Prepared(r)[a], r, stamp)
<1>1. /\ pc[r] = "select" /\ now' = now /\ runtime' = [Prepared(r) EXCEPT ![a] = out]
      /\ admitted' = [b \in Accounts |->
                      IF b = a THEN now ELSE IF b \in Pruned(r) THEN Never.at ELSE admitted[b]]
      /\ reservation' = Bump(reservation, Reclaimed \cup {a})
      /\ pc' = [pc EXCEPT ![r] = "persist"] /\ target' = [target EXCEPT ![r] = a]
  BY DEF Admit, Select, Prepare
<1>2. out.last_selected_at = stamp
  BY DEF _acquire_account_lease_locked
<1> HIDE DEF out
<1>3. Prepared(r) \in [Accounts -> RuntimeStates]
  BY PreparedFacts
<1>4. /\ runtime'[a].last_selected_at = stamp
      /\ \A b \in Accounts : b # a => runtime'[b].last_selected_at = Prepared(r)[b].last_selected_at
  BY <1>1, <1>2, <1>3
<1>5. \A b \in Accounts : Prepared(r)[b].last_selected_at =
                             IF b \in Pruned(r) THEN Never ELSE runtime[b].last_selected_at
  BY PreparedStamps
<1>6. reservation[r] = NoReservation
  BY <1>1, UnreservedUnlessPersisting
<1>7. reservation'[r] = NoReservation
  BY <1>1, <1>6, BumpKeeps DEF Inv
<1>8. \A q \in Requests : q # r => pc'[q] = pc[q] /\ target'[q] = target[q]
  BY <1>1 DEF Inv, TypeOK
<1>9. \A b \in Accounts : b # a =>
        \/ /\ runtime'[b].last_selected_at = runtime[b].last_selected_at
           /\ admitted'[b] = admitted[b]
        \/ runtime'[b].last_selected_at = Never /\ admitted'[b] = Never.at
  BY <1>1, <1>4, <1>5
<1>10. admitted'[a] = now
  BY <1>1
<1> QED BY <1>1, <1>4, <1>6, <1>7, <1>8, <1>9, <1>10, ProbeSelected

(* A pinned lease. *)
LEMMA ProbePinned ==
    ASSUME Inv, PInv, NEW r \in Requests, NEW a \in Accounts, acquire_account_lease(r, a)
    PROVE  PInv'
<1> DEFINE rts == _reclaim_stale_account_leases_locked(runtime)
           stamp == [at |-> now, by |-> None]
           out == _acquire_account_lease_locked(rts[a], r, stamp)
<1>1. /\ pc[r] = "idle" /\ now' = now
      /\ \/ /\ runtime' = [rts EXCEPT ![a] = out]
            /\ admitted' = [admitted EXCEPT ![a] = now]
            /\ pc' = [pc EXCEPT ![r] = "holding"] /\ target' = [target EXCEPT ![r] = a]
            /\ reservation' = Bump(reservation, Reclaimed \cup {a})
         \/ /\ runtime' = rts /\ UNCHANGED <<admitted, pc, target>>
            /\ reservation' = Bump(reservation, Reclaimed)
  BY DEF acquire_account_lease
<1>2. out.last_selected_at = stamp
  BY DEF _acquire_account_lease_locked
<1>3. rts \in [Accounts -> RuntimeStates]
  BY ReclaimFacts
<1>4. \A b \in Accounts : rts[b].last_selected_at = runtime[b].last_selected_at
  <2> TAKE b \in Accounts
  <2>1. stale \in SUBSET Requests /\ Good(runtime[b])
    BY DEF Inv, TypeOK, AllGood
  <2>2. rts[b] = apply_lease_release(runtime[b], stale)
    BY DEF _reclaim_stale_account_leases_locked
  <2> QED BY <2>1, <2>2, ReleaseKeepsGood
<1> HIDE DEF rts, out
<1>5. reservation[r] = NoReservation /\ \A B : Bump(reservation, B)[r] = NoReservation
  BY <1>1, UnreservedUnlessPersisting, BumpKeeps DEF Inv
<1>6. CASE /\ runtime' = [rts EXCEPT ![a] = out]
           /\ admitted' = [admitted EXCEPT ![a] = now]
           /\ pc' = [pc EXCEPT ![r] = "holding"] /\ target' = [target EXCEPT ![r] = a]
           /\ reservation' = Bump(reservation, Reclaimed \cup {a})
  <2>1. /\ runtime'[a].last_selected_at = stamp /\ admitted'[a] = now
        /\ \A b \in Accounts : b # a => /\ runtime'[b].last_selected_at = runtime[b].last_selected_at
                                        /\ admitted'[b] = admitted[b]
    BY <1>2, <1>3, <1>4, <1>6 DEF Inv, TypeOK
  <2>2. \A q \in Requests : q # r => pc'[q] = pc[q] /\ target'[q] = target[q]
    BY <1>6 DEF Inv, TypeOK
  <2> QED BY <1>1, <1>5, <1>6, <2>1, <2>2, ProbeSelected
<1>7. CASE /\ runtime' = rts /\ UNCHANGED <<admitted, pc, target>>
           /\ reservation' = Bump(reservation, Reclaimed)
  <2>1. \A q \in Requests :
          /\ reservation'[q].previous = reservation[q].previous
          /\ reservation'[q].reserved_at = reservation[q].reserved_at
          /\ reservation'[q] # NoReservation <=> reservation[q] # NoReservation
    BY <1>7, BumpKeeps DEF Inv
  <2>2. now' \in Nat /\ now' >= now
    BY <1>1 DEF Inv, TypeOK
  <2>3. \A b \in Accounts : StampedAt(b)'
    <3> TAKE b \in Accounts
    <3> QED BY <1>4, <1>7, <2>1, <2>2, StampStays
  <2>4. \A q \in Requests : ReservedAt(q)'
    <3> TAKE q \in Requests
    <3> QED BY <1>7, <2>1, <2>2, ReservationStays
  <2> QED BY <2>3, <2>4, AssemblePInv
<1> QED BY <1>1, <1>6, <1>7

(* A probe is reserved on an account that was due. *)
LEMMA ProbeReserved ==
    ASSUME Inv, PInv, NEW r \in Requests, NEW available \in SUBSET Accounts, NEW a \in Accounts,
           _reserve_due_probe_locked(r, available, a)
    PROVE  PInv'
<1> DEFINE stamp == [at |-> now, by |-> r]
           out == _acquire_account_lease_locked(Prepared(r)[a], r, stamp)
           old == Prepared(r)[a].last_selected_at
           new == [previous |-> old, reserved_at |-> stamp, current_version |-> TRUE]
<1>1. /\ pc[r] = "select" /\ now' = now /\ runtime' = [Prepared(r) EXCEPT ![a] = out]
      /\ admitted' = [b \in Accounts |-> IF b \in Pruned(r) THEN Never.at ELSE admitted[b]]
      /\ reservation' = [Bump(reservation, Reclaimed) EXCEPT ![r] = new]
      /\ pc' = [pc EXCEPT ![r] = "persist"] /\ target' = [target EXCEPT ![r] = a]
      /\ Reserves(Prepared(r), a, available)
  BY DEF _reserve_due_probe_locked, Select, Prepare
<1>2. out.last_selected_at = stamp /\ new.previous = old /\ new.reserved_at = stamp
      /\ stamp.at = now /\ stamp.by = r
  BY DEF _acquire_account_lease_locked
<1>3. now - old.at >= PROBE_QUIET
  BY <1>1 DEF Reserves, _oldest_due_probing_account, Due
<1>4. /\ Prepared(r) \in [Accounts -> RuntimeStates] /\ old \in Stamps
      /\ Bump(reservation, Reclaimed) \in [Requests -> Reservations]
      /\ DOMAIN pc = Requests /\ DOMAIN target = Requests
      /\ now \in Nat /\ now' \in Nat /\ now' >= now /\ Never.at = -PROBE_QUIET
      /\ PROBE_QUIET \in Nat \ {0} /\ admitted[a] \in Int
  BY <1>1, PreparedFacts, BumpType, SelectionAssumption DEF Inv, TypeOK, RuntimeStates, Never
<1>5. \A b \in Accounts : Prepared(r)[b].last_selected_at =
                             IF b \in Pruned(r) THEN Never ELSE runtime[b].last_selected_at
  BY PreparedStamps
<1>6. Sound(old, now) /\ After(old, admitted'[a])
  <2>1. CASE a \in Pruned(r)
    <3>1. old = Never /\ admitted'[a] = Never.at
      BY <1>1, <1>5, <2>1
    <3> QED BY <1>4, <3>1 DEF Sound, After, Never
  <2>2. CASE a \notin Pruned(r)
    <3>1. old = runtime[a].last_selected_at /\ admitted'[a] = admitted[a]
      BY <1>1, <1>5, <2>2
    <3> QED BY <3>1 DEF PInv, StampedAt
  <2> QED BY <2>1, <2>2
<1> HIDE DEF out, old, new, stamp
<1>7. /\ runtime'[a].last_selected_at = stamp /\ reservation'[r] = new
      /\ pc'[r] = "persist" /\ target'[r] = a
      /\ \A b \in Accounts : b # a => runtime'[b].last_selected_at = Prepared(r)[b].last_selected_at
      /\ \A q \in Requests : q # r => /\ reservation'[q] = Bump(reservation, Reclaimed)[q]
                                      /\ pc'[q] = pc[q] /\ target'[q] = target[q]
  BY <1>1, <1>2, <1>4
<1>8. \A q \in Requests : q # r =>
        /\ reservation'[q].previous = reservation[q].previous
        /\ reservation'[q].reserved_at = reservation[q].reserved_at
        /\ reservation'[q] # NoReservation <=> reservation[q] # NoReservation
  BY <1>7, BumpKeeps DEF Inv
<1>9. reservation[r] = NoReservation
  BY <1>1, UnreservedUnlessPersisting
<1>10. new # NoReservation
  <2>1. NoReservation.reserved_at.by = None
    BY DEF NoReservation, Never
  <2> QED BY <1>2, <2>1, SelectionAssumption
<1>11. Sound(stamp, now') /\ After(stamp, admitted'[a])
  <2>1. admitted'[a] \in Int
    BY <1>1, <1>4
  <2>2. admitted'[a] <= old.at /\ old.at \in Int
    BY <1>4, <1>6 DEF After, Stamps
  <2> QED BY <1>1, <1>2, <1>3, <1>4, <2>1, <2>2 DEF Sound, After
<1>12. \A b \in Accounts : StampedAt(b)'
  <2> TAKE b \in Accounts
  <2>1. CASE b = a
    BY <1>2, <1>7, <1>10, <1>11, <2>1 DEF StampedAt
  <2>2. CASE b # a /\ b \in Pruned(r)
    <3>1. runtime'[b].last_selected_at = Never /\ admitted'[b] = Never.at
      BY <1>1, <1>5, <1>7, <2>2
    <3> QED BY <1>1, <3>1, StampFresh
  <2>3. CASE b # a /\ b \notin Pruned(r)
    <3>1. runtime'[b].last_selected_at = runtime[b].last_selected_at /\ admitted'[b] = admitted[b]
      BY <1>1, <1>5, <1>7, <2>3
    <3>2. \A q \in Requests : reservation[q] # NoReservation =>
            /\ reservation'[q] # NoReservation /\ target'[q] = target[q]
            /\ reservation'[q].reserved_at = reservation[q].reserved_at
      BY <1>7, <1>8, <1>9
    <3> QED BY <1>4, <3>1, <3>2, StampStays
  <2> QED BY <2>1, <2>2, <2>3
<1>13. \A q \in Requests : ReservedAt(q)'
  <2> TAKE q \in Requests
  <2>1. CASE q = r
    <3>1. Sound(old, now')
      BY <1>1, <1>6
    <3>2. stamp.at - old.at >= PROBE_QUIET
      BY <1>2, <1>3
    <3> QED BY <1>2, <1>6, <1>7, <1>11, <2>1, <3>1, <3>2 DEF ReservedAt
  <2>2. CASE q # r
    <3>1. \A b \in Accounts : admitted'[b] \in {admitted[b], now, -PROBE_QUIET}
      BY <1>1, <1>4
    <3> QED BY <1>4, <1>7, <1>8, <2>2, <3>1, ReservationStays
  <2> QED BY <2>1, <2>2
<1> QED BY <1>12, <1>13, AssemblePInv

(* The commit of a reserved probe is a real selection; so is none, when    *)
(* the selection persisted without one.                                    *)
LEMMA ProbePersisted ==
    ASSUME Inv, PInv, NEW r \in Requests,
           PersistOk(r) \/ _commit_due_probe_reservation_locked(r)
    PROVE  PInv'
<1>0. pc[r] = "persist" /\ target[r] \in Accounts /\ pc' = [pc EXCEPT ![r] = "holding"]
  BY DEF PersistOk, _commit_due_probe_reservation_locked, Return, Inv, Table, Holds
<1>1. /\ DOMAIN pc = Requests /\ runtime \in [Accounts -> RuntimeStates]
      /\ admitted \in [Accounts -> Int] /\ now \in Nat /\ now >= now
      /\ Bump(reservation, {target[r]}) \in [Requests -> Reservations]
  BY BumpType DEF Inv, TypeOK
<1>2. CASE PersistOk(r)
  <2>1. UNCHANGED <<runtime, target, admitted, reservation, now>> /\ reservation[r] = NoReservation
    BY <1>2 DEF PersistOk
  <2>2. \A q \in Requests : reservation[q] # NoReservation => pc'[q] = pc[q]
    BY <1>0, <1>1, <2>1
  <2> QED BY <1>1, <2>1, <2>2, ProbeEnvironment
<1>3. CASE _commit_due_probe_reservation_locked(r)
  <2> DEFINE a == target[r]
             stamp == [at |-> now, by |-> None]
  <2>1. /\ runtime' = [runtime EXCEPT ![a].last_selected_at = stamp]
        /\ admitted' = [admitted EXCEPT ![a] = now]
        /\ reservation' = [Bump(reservation, {a}) EXCEPT ![r] = NoReservation]
        /\ now' = now /\ target' = target
    BY <1>3 DEF _commit_due_probe_reservation_locked
  <2>2. /\ runtime'[a].last_selected_at = stamp /\ admitted'[a] = now
        /\ \A b \in Accounts : b # a => /\ runtime'[b].last_selected_at = runtime[b].last_selected_at
                                        /\ admitted'[b] = admitted[b]
    BY <1>0, <1>1, <2>1 DEF RuntimeStates
  <2>3. /\ reservation'[r] = NoReservation
        /\ \A q \in Requests : q # r => /\ reservation'[q] = Bump(reservation, {a})[q]
                                        /\ pc'[q] = pc[q] /\ target'[q] = target[q]
    BY <1>0, <1>1, <2>1
  <2>4. a \in Accounts /\ target[r] = a
    BY <1>0
  <2>5. \A b \in Accounts : b # a =>
          \/ /\ runtime'[b].last_selected_at = runtime[b].last_selected_at
             /\ admitted'[b] = admitted[b]
          \/ runtime'[b].last_selected_at = Never /\ admitted'[b] = Never.at
    BY <2>2
  <2>6. runtime'[a].last_selected_at = [at |-> now, by |-> None] /\ admitted'[a] = now /\ now' = now
    BY <2>1, <2>2
  <2> HIDE DEF a, stamp
  <2> QED BY <2>3, <2>4, <2>5, <2>6, ProbeSelected
<1> QED BY <1>2, <1>3

(* A reservation that comes to nothing leaves the account due. *)
LEMMA ProbeGivenBack ==
    ASSUME Inv, PInv, NEW r \in Requests, Holds(r), GiveBack(r),
           NEW to, pc' = [pc EXCEPT ![r] = to]
    PROVE  PInv'
<1> DEFINE a == target[r]
           last == runtime[a].last_selected_at
           stamp == _release_due_probe_reservation_locked(r)
           released == apply_lease_release(runtime[a], {r})
           B == IF r \in runtime[a].leases THEN {a} ELSE {}
<1>1. a \in Accounts /\ Good(runtime[a])
  BY DEF Inv, Table, AllGood
<1>2. /\ runtime' = [runtime EXCEPT ![a] = [released EXCEPT !.last_selected_at = stamp]]
      /\ reservation' = [Bump(reservation, B) EXCEPT ![r] = NoReservation]
      /\ target' = [target EXCEPT ![r] = None] /\ now' = now /\ admitted' = admitted
  BY DEF GiveBack
<1>3. released \in RuntimeStates
  <2>1. {r} \in SUBSET Requests
    OBVIOUS
  <2>2. Good(released)
    BY <1>1, <2>1, ReleaseKeepsGood
  <2> QED BY <2>2 DEF Good
<1>4. /\ DOMAIN pc = Requests /\ runtime \in [Accounts -> RuntimeStates]
      /\ DOMAIN target = Requests /\ now \in Nat /\ now' \in Nat /\ now' >= now
      /\ Bump(reservation, B) \in [Requests -> Reservations]
      /\ PROBE_QUIET \in Nat \ {0} /\ admitted[a] \in Int
  BY <1>1, <1>2, BumpType, SelectionAssumption DEF Inv, TypeOK
<1> HIDE DEF released, stamp
<1>5. [released EXCEPT !.last_selected_at = stamp].last_selected_at = stamp
  BY <1>3 DEF RuntimeStates
<1>6. /\ runtime'[a].last_selected_at = stamp
      /\ \A b \in Accounts : b # a => runtime'[b] = runtime[b]
      /\ reservation'[r] = NoReservation
      /\ \A q \in Requests : q # r => /\ reservation'[q] = Bump(reservation, B)[q]
                                      /\ pc'[q] = pc[q] /\ target'[q] = target[q]
  BY <1>1, <1>2, <1>4, <1>5
<1>7. \A q \in Requests : q # r =>
        /\ reservation'[q].previous = reservation[q].previous
        /\ reservation'[q].reserved_at = reservation[q].reserved_at
        /\ reservation'[q] # NoReservation <=> reservation[q] # NoReservation
  BY <1>6, BumpKeeps DEF Inv
<1>8. \A b \in Accounts : StampedAt(b)'
  <2> TAKE b \in Accounts
  <2>1. CASE b # a
    <3>1. \A q \in Requests : target[q] = b => q # r
      BY <2>1
    <3> QED BY <1>2, <1>4, <1>6, <1>7, <2>1, <3>1, StampStays
  <2>2. CASE b = a /\ ~(reservation[r] # NoReservation /\ last = reservation[r].reserved_at)
    <3>1. stamp = last
      BY <2>2 DEF stamp, _release_due_probe_reservation_locked
    <3>2. \A q \in Requests :
            reservation[q] # NoReservation /\ reservation[q].reserved_at = last => q # r
      BY <2>2
    <3>3. runtime'[b].last_selected_at = runtime[b].last_selected_at /\ admitted'[b] = admitted[b]
      BY <1>2, <1>6, <2>2, <3>1
    <3>4. \A q \in Requests :
            (/\ reservation[q] # NoReservation /\ target[q] = b
             /\ reservation[q].reserved_at = runtime[b].last_selected_at) =>
                /\ reservation'[q] # NoReservation /\ target'[q] = b
                /\ reservation'[q].reserved_at = reservation[q].reserved_at
      BY <1>6, <1>7, <2>2, <3>2
    <3> QED BY <1>4, <3>3, <3>4, StampStays
  <2>3. CASE b = a /\ reservation[r] # NoReservation /\ last = reservation[r].reserved_at
    <3> DEFINE v == reservation[r]
    <3>1. stamp = v.previous
      BY <2>3 DEF stamp, _release_due_probe_reservation_locked
    <3>2. /\ v.reserved_at.by = r /\ Sound(v.reserved_at, now) /\ Sound(v.previous, now)
          /\ v.reserved_at.at - v.previous.at >= PROBE_QUIET
          /\ v.reserved_at.at <= admitted[a] \/ After(v.previous, admitted[a])
      BY <2>3 DEF PInv, ReservedAt
    <3>3. v.reserved_at.at \in Int /\ v.previous.at \in Int
      BY DEF Inv, TypeOK, Reservations, Stamps
    <3>4. admitted[a] < v.reserved_at.at
      <4>1. After(last, admitted[a])
        BY <1>1 DEF PInv, StampedAt
      <4> QED BY <2>3, <3>2, <4>1, SelectionAssumption DEF After
    <3> HIDE DEF v
    <3>5. After(v.previous, admitted[a])
      BY <1>4, <3>2, <3>3, <3>4
    <3>6. now - v.previous.at >= PROBE_QUIET
      BY <1>4, <3>2, <3>3 DEF Sound
    <3> QED BY <1>2, <1>6, <2>3, <3>1, <3>2, <3>5, <3>6 DEF StampedAt
  <2> QED BY <2>1, <2>2, <2>3
<1>9. \A q \in Requests : ReservedAt(q)'
  <2> TAKE q \in Requests
  <2>1. \A b \in Accounts : admitted'[b] \in {admitted[b], now, -PROBE_QUIET}
    BY <1>2
  <2>2. reservation'[q] # NoReservation => q # r
    BY <1>6
  <2> QED BY <1>4, <1>6, <1>7, <2>1, <2>2, ReservationStays
<1> QED BY <1>8, <1>9, AssemblePInv

(* Every step keeps the stamps in order. *)
LEMMA NextPInv == Inv /\ PInv /\ [Next]_vars => PInv'
<1> SUFFICES ASSUME Inv, PInv, [Next]_vars PROVE PInv'
  OBVIOUS
<1>0. now \in Nat /\ now >= now /\ DOMAIN pc = Requests
  BY DEF Inv, TypeOK
<1>1. CASE ChangeAccounts \/ Tick \/ UNCHANGED vars \/ \E r \in Requests : GrowStale(r)
  <2>1. UNCHANGED <<runtime, target, admitted, reservation, pc>>
    BY <1>1 DEF ChangeAccounts, Tick, GrowStale, vars, selection
  <2>2. now' \in Nat /\ now' >= now
    BY <1>0, <1>1 DEF ChangeAccounts, Tick, GrowStale, vars
  <2> QED BY <2>1, <2>2, ProbeEnvironment
<1>2. CASE \E a \in Accounts : _sync_runtime_state(a)
  BY <1>0, <1>2, ProbeEnvironment DEF _sync_runtime_state
<1>3. ASSUME NEW r \in Requests,
             StartSelection(r) \/ StopWaiting(r) \/ load_selection_inputs(r) \/ PersistRefusal(r)
      PROVE  PInv'
  <2>1. UNCHANGED <<runtime, target, admitted, reservation, now>> /\ pc[r] # "persist"
    BY <1>3 DEF StartSelection, StopWaiting, load_selection_inputs, PersistRefusal, selection
  <2>2. \E to : pc' = [pc EXCEPT ![r] = to]
    BY <1>3 DEF StartSelection, StopWaiting, load_selection_inputs, PersistRefusal, Return
  <2>3. \A q \in Requests : pc[q] = "persist" => pc'[q] = pc[q]
    BY <1>0, <2>1, <2>2
  <2> QED BY <1>0, <2>1, <2>3, ProbeEnvironment
<1>4. ASSUME NEW r \in Requests,
             PersistRaises(r) \/ PersistStale(r) \/ CommitFails(r) \/ release_account_lease(r)
      PROVE  PInv'
  <2>1. Holds(r) /\ GiveBack(r)
    BY <1>4 DEF PersistRaises, PersistStale, CommitFails, release_account_lease, Holds
  <2>2. \E to : pc' = [pc EXCEPT ![r] = to]
    BY <1>4 DEF PersistRaises, PersistStale, CommitFails, release_account_lease, Return,
                RetryReservation
  <2> QED BY <2>1, <2>2, ProbeGivenBack
<1> QED BY <1>1, <1>2, <1>3, <1>4, ProbeNothingTaken, ProbeAdmit, ProbeReserved, ProbePersisted,
           ProbePinned DEF Next

(* No account has been selected at the start. *)
LEMMA InitPInv == Init => PInv
<1> SUFFICES ASSUME Init PROVE PInv
  OBVIOUS
<1>1. \A r \in Requests : ReservedAt(r)
  BY DEF Init, ReservedAt
<1>2. ASSUME NEW a \in Accounts PROVE StampedAt(a)
  <2>1. runtime[a].last_selected_at = Never /\ admitted[a] = Never.at /\ now = 0
    BY DEF Init, RuntimeState
  <2>2. Sound(Never, 0) /\ After(Never, Never.at)
    BY SelectionAssumption DEF Sound, After, Never
  <2> QED BY <2>1, <2>2 DEF StampedAt
<1> QED BY <1>1, <1>2 DEF PInv

(* The stamps are in order throughout. *)
LEMMA AlwaysPInv == Spec => []PInv
BY InitPInv, NextPInv, AlwaysInv, PTL DEF Spec

(* For any requests whose reservations overlap, overtake and abandon each  *)
(* other, an account that no selection has reserved is due for its next    *)
(* probe or was really selected at its last_selected_at.                   *)
THEOREM UnusedProbesComeBack == Spec => []UnusedProbesReturned
<1>1. PInv => UnusedProbesReturned
  BY DEF PInv, StampedAt, UnusedProbesReturned, Due
<1> QED BY <1>1, AlwaysPInv, PTL

(* A recovery probe is committed only when the account was left alone for  *)
(* the quiet interval, whichever selections held the reservation before.   *)
THEOREM ProbesKeepApart == Spec => ProbesSpaced
<1> DEFINE Spaced == \A r \in Requests :
              reservation[r] # NoReservation /\ pc'[r] = "holding" =>
                 now - admitted[target[r]] >= PROBE_QUIET
<1>1. ASSUME Inv, PInv, [Next]_vars PROVE Spaced
  <2> SUFFICES ASSUME NEW r \in Requests, reservation[r] # NoReservation, pc'[r] = "holding"
               PROVE  now - admitted[target[r]] >= PROBE_QUIET
    OBVIOUS
  <2> DEFINE v == reservation[r]
             a == target[r]
  <2>1. /\ pc[r] = "persist" /\ v.reserved_at.by = r /\ Sound(v.reserved_at, now)
        /\ v.reserved_at.at - v.previous.at >= PROBE_QUIET
        /\ v.reserved_at.at <= admitted[a] \/ After(v.previous, admitted[a])
    BY <1>1 DEF PInv, ReservedAt
  <2>2. a \in Accounts /\ DOMAIN pc = Requests
    BY <1>1, <2>1 DEF Inv, Table, Holds, TypeOK
  <2>3. _commit_due_probe_reservation_locked(r)
    <3>1. ASSUME NEW q \in Requests, q # r, NEW to, pc' = [pc EXCEPT ![q] = to] PROVE FALSE
      BY <2>1, <2>2, <3>1
    <3>2. ASSUME NEW to, to # "holding", pc' = [pc EXCEPT ![r] = to] PROVE FALSE
      BY <2>2, <3>2
    <3>3. pc' # pc
      BY <2>1
    <3>4. ~ChangeAccounts /\ ~Tick /\ ~(UNCHANGED vars) /\ ~\E b \in Accounts : _sync_runtime_state(b)
      BY <3>3 DEF ChangeAccounts, Tick, vars, _sync_runtime_state
    <3>5. PICK q \in Requests :
            \/ StartSelection(q) \/ StopWaiting(q) \/ load_selection_inputs(q)
            \/ Refuse(q) \/ PersistRefusal(q)
            \/ \E available \in SUBSET Accounts, b \in Accounts :
                  \/ Admit(q, available, b)
                  \/ _reserve_due_probe_locked(q, available, b)
                  \/ Invalidate(q, available, b)
            \/ PersistRaises(q) \/ PersistStale(q) \/ PersistOk(q)
            \/ _commit_due_probe_reservation_locked(q) \/ CommitFails(q)
            \/ \E b \in Accounts : acquire_account_lease(q, b)
            \/ release_account_lease(q) \/ GrowStale(q)
      BY <1>1, <3>4 DEF Next
    <3>6. ~GrowStale(q)
      BY <3>3 DEF GrowStale
    <3>7. \E to : pc' = [pc EXCEPT ![q] = to]
      <4>1. CASE \E b \in Accounts : acquire_account_lease(q, b)
        BY <3>3, <4>1 DEF acquire_account_lease
      <4>2. CASE ~\E b \in Accounts : acquire_account_lease(q, b)
        BY <3>5, <3>6, <4>2
           DEF StartSelection, StopWaiting, load_selection_inputs, Refuse, PersistRefusal, Admit,
               _reserve_due_probe_locked, Invalidate, PersistRaises, PersistStale, PersistOk,
               _commit_due_probe_reservation_locked, CommitFails, release_account_lease,
               Return, RetryReservation
      <4> QED BY <4>1, <4>2
    <3>8. q = r
      BY <3>1, <3>7
    <3>9. /\ ~StartSelection(q) /\ ~StopWaiting(q) /\ ~load_selection_inputs(q)
          /\ ~Refuse(q) /\ ~PersistRefusal(q)
          /\ ~release_account_lease(q) /\ ~\E b \in Accounts : acquire_account_lease(q, b)
          /\ ~PersistOk(q)
          /\ ~\E available \in SUBSET Accounts, b \in Accounts :
                  \/ Admit(q, available, b)
                  \/ _reserve_due_probe_locked(q, available, b)
                  \/ Invalidate(q, available, b)
      BY <2>1, <3>8 DEF StartSelection, StopWaiting, load_selection_inputs, Refuse, PersistRefusal, Prepare,
             release_account_lease, acquire_account_lease, PersistOk, Admit,
             _reserve_due_probe_locked, Invalidate, Select
    <3>10. ~PersistRaises(q) /\ ~PersistStale(q) /\ ~CommitFails(q)
      <4>1. "idle" # "holding" /\ "load" # "holding"
        OBVIOUS
      <4> QED BY <3>2, <3>8, <4>1 DEF PersistRaises, PersistStale, CommitFails, Return, RetryReservation
    <3> QED BY <3>5, <3>6, <3>8, <3>9, <3>10
  <2>4. runtime[a].last_selected_at = v.reserved_at
    BY <2>3 DEF _commit_due_probe_reservation_locked, _probe_reservation_current_locked
  <2>5. After(v.reserved_at, admitted[a])
    BY <1>1, <2>2, <2>4 DEF PInv, StampedAt
  <2>6. /\ v.reserved_at.at \in Int /\ v.previous.at \in Int /\ admitted[a] \in Int
        /\ now \in Nat /\ PROBE_QUIET \in Nat
    BY <1>1, <2>2, SelectionAssumption DEF Inv, TypeOK, Reservations, Stamps
  <2> HIDE DEF v, a
  <2>7. admitted[a] < v.reserved_at.at
    BY <2>1, <2>5, SelectionAssumption DEF After
  <2>8. admitted[a] <= v.previous.at
    BY <2>1, <2>6, <2>7 DEF After
  <2>9. now - admitted[a] >= PROBE_QUIET
    BY <2>1, <2>6, <2>8 DEF Sound
  <2> QED BY <2>9 DEF a
<1>2. Inv /\ PInv /\ [Next]_vars => [Spaced]_vars
  BY <1>1
<1> QED BY <1>2, AlwaysInv, AlwaysPInv, PTL DEF Spec, ProbesSpaced


-----------------------------------------------------------------------------
(* The circuit breaker.  Its three invariants together are inductive:      *)
(* BreakerTypeOK gives the ranges, and neither of the other two needs the  *)
(* other.                                                                  *)
BreakerInv == BreakerTypeOK /\ ProbeSlotOwned /\ CountsMatchState

(* A breaker starts closed, with no calls and nothing counted. *)
LEMMA InitBreaker == BreakerInit => BreakerInv
<1> SUFFICES ASSUME BreakerInit PROVE BreakerInv
  OBVIOUS
<1> USE ThresholdsAssumption DEF ThresholdsAssumption, BreakerInit
<1>1. BreakerTypeOK
  <2>1. success_count \in 0..(success_threshold - 1) /\ failures \in 0..MaxFailures
    OBVIOUS
  <2>2. failure_count \in Nat /\ call \in [Calls -> {"none", "normal", "probe"}]
    OBVIOUS
  <2>3. elapsed \in BOOLEAN /\ probe_in_flight \in BOOLEAN /\ _state \in {"closed", "open"}
    BY Zenon
  <2>4. recorded \subseteq Calls
    OBVIOUS
  <2> QED BY <2>1, <2>2, <2>3, <2>4, Zenon DEF BreakerTypeOK
<1>2. ProbeSlotOwned
  <2>1. \A c \in Calls : call[c] # "probe"
    OBVIOUS
  <2> QED BY <2>1, Zenon DEF ProbeSlotOwned
<1>3. CountsMatchState
  BY DEF CountsMatchState
<1> QED BY <1>1, <1>2, <1>3 DEF BreakerInv

(* A check claims the slot only when it is free. *)
LEMMA CheckKeeps == ASSUME BreakerInv, NEW c \in Calls, pre_call_check(c) PROVE BreakerInv'
<1> USE DEF BreakerInv, pre_call_check, counters
<1>1. BreakerTypeOK'
  BY DEF BreakerTypeOK
<1>2. CountsMatchState'
  BY DEF CountsMatchState
<1>3. ProbeSlotOwned'
  <2>1. CASE state = "half_open"
    <3>1. ~probe_in_flight /\ probe_in_flight' /\ call' = [call EXCEPT ![c] = "probe"]
      BY <2>1 DEF BreakerTypeOK
    <3>2. \A d \in Calls : call[d] # "probe"
      BY <3>1 DEF ProbeSlotOwned
    <3> QED BY <3>1, <3>2 DEF ProbeSlotOwned, BreakerTypeOK
  <2>2. CASE state # "half_open"
    <3>1. probe_in_flight' = probe_in_flight /\ call' = [call EXCEPT ![c] = "normal"]
      BY <2>2 DEF BreakerTypeOK
    <3>2. \A d \in Calls : call'[d] = "probe" <=> call[d] = "probe"
      BY <3>1 DEF BreakerTypeOK
    <3> QED BY <3>1, <3>2 DEF ProbeSlotOwned, BreakerTypeOK
  <2> QED BY <2>1, <2>2
<1> QED BY <1>1, <1>2, <1>3

(* A routed websocket is no probe. *)
LEMMA RoutedKeeps == ASSUME BreakerInv, NEW c \in Calls, OpenRouted(c) PROVE BreakerInv'
<1> USE DEF BreakerInv, OpenRouted, counters
<1>1. \A d \in Calls : call'[d] = "probe" <=> call[d] = "probe"
  BY DEF BreakerTypeOK
<1>2. ProbeSlotOwned'
  BY <1>1 DEF ProbeSlotOwned
<1> QED BY <1>2 DEF BreakerTypeOK, CountsMatchState

(* A recorded success resets what it closes. *)
LEMMA SuccessKeeps == ASSUME BreakerInv, NEW c \in Calls, _record_success(c) PROVE BreakerInv'
<1> USE ThresholdsAssumption DEF ThresholdsAssumption, BreakerInv, _record_success, Record, counters, closes
<1>1. ProbeSlotOwned'
  BY DEF ProbeSlotOwned
<1>2. BreakerTypeOK'
  <2>1. failure_count' \in Nat /\ success_count' \in 0..(success_threshold - 1)
    BY DEF BreakerTypeOK, count_after_closing
  <2>2. _state' \in {"closed", "open"}
    BY DEF BreakerTypeOK
  <2>3. recorded' \subseteq Calls
    BY DEF BreakerTypeOK
  <2> QED BY <2>1, <2>2, <2>3, Zenon DEF BreakerTypeOK
<1>3. CountsMatchState'
  BY DEF CountsMatchState, BreakerTypeOK, count_after_closing, state
<1> QED BY <1>1, <1>2, <1>3

(* A recorded failure opens the breaker exactly at the threshold. *)
LEMMA FailureKeeps == ASSUME BreakerInv, NEW c \in Calls, _record_failure(c) PROVE BreakerInv'
<1> USE ThresholdsAssumption DEF ThresholdsAssumption, BreakerInv, _record_failure, Record
<1>1. ProbeSlotOwned'
  BY DEF ProbeSlotOwned
<1>2. BreakerTypeOK'
  <2>1. failure_count' \in Nat /\ success_count' \in 0..(success_threshold - 1)
    BY DEF BreakerTypeOK
  <2>2. failures' \in 0..MaxFailures
    BY DEF BreakerTypeOK
  <2>3. recorded' \subseteq Calls
    BY DEF BreakerTypeOK
  <2>4. _state' \in {"closed", "open"} /\ elapsed' \in BOOLEAN
    BY Zenon DEF BreakerTypeOK
  <2> QED BY <2>1, <2>2, <2>3, <2>4, Zenon DEF BreakerTypeOK
<1>3. CountsMatchState'
  BY DEF CountsMatchState, BreakerTypeOK
<1> QED BY <1>1, <1>2, <1>3

(* The end of a probe frees its own slot, the end of another call none. *)
LEMMA EndKeeps == ASSUME BreakerInv, NEW c \in Calls, EndCall(c) PROVE BreakerInv'
<1> USE DEF BreakerInv, EndCall, counters, release_half_open_probe
<1>1. BreakerTypeOK'
  BY DEF BreakerTypeOK
<1>2. CountsMatchState'
  BY DEF CountsMatchState
<1>3. ProbeSlotOwned'
  <2>1. CASE call[c] = "probe"
    <3>1. \A d \in Calls : call'[d] # "probe"
      BY <2>1 DEF BreakerTypeOK, ProbeSlotOwned
    <3>2. ~probe_in_flight'
      BY <2>1
    <3> QED BY <3>1, <3>2, Zenon DEF ProbeSlotOwned
  <2>2. CASE call[c] # "probe"
    <3>1. \A d \in Calls : call'[d] = "probe" <=> call[d] = "probe"
      BY <2>2 DEF BreakerTypeOK
    <3>2. probe_in_flight' = probe_in_flight
      BY <2>2
    <3>3. probe_in_flight' <=> \E d \in Calls : call'[d] = "probe"
      <4>1. probe_in_flight <=> \E d \in Calls : call[d] = "probe"
        BY DEF ProbeSlotOwned
      <4>2. (\E d \in Calls : call[d] = "probe") <=> \E d \in Calls : call'[d] = "probe"
        BY <3>1
      <4> HIDE DEF EndCall, BreakerInv
      <4> QED BY <3>2, <4>1, <4>2, Zenon
    <3>4. \A d, e \in Calls : call'[d] = "probe" /\ call'[e] = "probe" => d = e
      BY <3>1 DEF ProbeSlotOwned
    <3> QED BY <3>3, <3>4 DEF ProbeSlotOwned
  <2> QED BY <2>1, <2>2
<1> QED BY <1>1, <1>2, <1>3

(* Every step of the breaker preserves the invariant. *)
LEMMA NextBreaker == BreakerInv /\ [BreakerNext]_breaker_vars => BreakerInv'
<1> SUFFICES ASSUME BreakerInv, [BreakerNext]_breaker_vars PROVE BreakerInv'
  OBVIOUS
<1>1. CASE UNCHANGED breaker_vars
  BY <1>1 DEF BreakerInv, BreakerTypeOK, ProbeSlotOwned, CountsMatchState, breaker_vars, counters
<1>2. CASE recovery_timeout
  BY <1>2 DEF recovery_timeout, BreakerInv, BreakerTypeOK, ProbeSlotOwned, CountsMatchState, counters
<1>3. CASE \E c \in Calls : pre_call_check(c)
  BY <1>3, CheckKeeps
<1>4. CASE \E c \in Calls : OpenRouted(c)
  BY <1>4, RoutedKeeps
<1>5. CASE \E c \in Calls : _record_success(c)
  BY <1>5, SuccessKeeps
<1>6. CASE \E c \in Calls : _record_failure(c)
  BY <1>6, FailureKeeps
<1>7. CASE \E c \in Calls : EndCall(c)
  BY <1>7, EndKeeps
<1> QED BY <1>1, <1>2, <1>3, <1>4, <1>5, <1>6, <1>7 DEF BreakerNext

(* The inductive invariant holds throughout. *)
LEMMA AlwaysBreaker == BreakerSpec => []BreakerInv
BY InitBreaker, NextBreaker, PTL DEF BreakerSpec

(* The state of the breaker keeps its shape. *)
THEOREM BreakerTypeCorrect == BreakerSpec => []BreakerTypeOK
<1>1. BreakerInv => BreakerTypeOK
  BY DEF BreakerInv
<1> QED BY <1>1, AlwaysBreaker, PTL

(* However many calls overlap and however they end, the half-open slot of  *)
(* pre_call_check belongs to exactly one live probe or to none.            *)
THEOREM ProbeSlotAlwaysOwned == BreakerSpec => []ProbeSlotOwned
<1>1. BreakerInv => ProbeSlotOwned
  BY DEF BreakerInv
<1> QED BY <1>1, AlwaysBreaker, PTL

(* For all thresholds, the stored state and the failure count agree after  *)
(* any order of late results.                                              *)
THEOREM CountsAlwaysMatchState == BreakerSpec => []CountsMatchState
<1>1. BreakerInv => CountsMatchState
  BY DEF BreakerInv
<1> QED BY <1>1, AlwaysBreaker, PTL
=============================================================================
