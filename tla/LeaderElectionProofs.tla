------------------------ MODULE LeaderElectionProofs ------------------------
(***************************************************************************)
(* Proofs about LeaderElection for any number of replicas and schedulers,  *)
(* any lease length and cancel grace, and any number of database errors    *)
(* and crashes: types, and, when the results of statements are read        *)
(* promptly, that no body runs and no replica leads past its lease.        *)
(***************************************************************************)
EXTENDS LeaderElection, TLAPS

Intervals == 0..Max2(renew_interval, renew_timeout + 1)

(* A result that was read is a lease. *)
AnchorsLease == \A w \in Workers : req[w] = "anchored" => rem[w] # None

TInv == TypeOK /\ AnchorsLease

-----------------------------------------------------------------------------
(* Operators. *)

(* The intervals are positive. *)
LEMMA IntervalFacts ==
    /\ renew_interval \in Nat \ {0} /\ renew_timeout \in Nat \ {0}
    /\ 0 \in Intervals /\ 0 \in 0..renew_interval /\ renew_interval \in 0..renew_interval
    /\ TTL \in Time /\ -1 \in Time /\ 0 \in Time
  <1>1. TTL \div 3 \in Int /\ TTL \div 6 \in Int
    BY ConstantsAssumption
  <1>2. PICK a \in Int, b \in Int : a = TTL \div 3 /\ b = TTL \div 6
    BY <1>1
  <1>3. renew_interval = Max2(1, a) /\ renew_timeout = Max2(1, b)
    BY <1>2 DEF renew_interval, renew_timeout
  <1>4. renew_interval \in Nat \ {0} /\ renew_timeout \in Nat \ {0}
    BY <1>3 DEF Max2
  <1>5. TTL \in Time /\ -1 \in Time /\ 0 \in Time
    BY ConstantsAssumption DEF Time
  <1> QED
    BY <1>4, <1>5 DEF Intervals, Max2

(* How long a heartbeat sleeps and waits. *)
LEMMA BudgetFacts ==
    ASSUME NEW left \in Int
    PROVE  /\ sleep_budget(left) \in Intervals /\ renew_wait(left) \in Intervals
           /\ left > 0 => sleep_budget(left) < left
           /\ left >= 0 => renew_wait(left) <= left
  <1>1. PICK i \in Nat \ {0}, t \in Nat \ {0} : i = renew_interval /\ t = renew_timeout
    BY IntervalFacts
  <1>2. sleep_budget(left) = Min2(i, Max2(0, left - t)) /\ renew_wait(left) = Min2(t, Max2(0, left))
    BY <1>1 DEF sleep_budget, renew_wait
  <1>3. Intervals = 0..Max2(i, t + 1)
    BY <1>1 DEF Intervals
  <1> QED
    BY <1>1, <1>2, <1>3 DEF Min2, Max2

(* Time that has passed. *)
LEMMA PastFacts ==
    ASSUME NEW t \in Time
    PROVE  Past(t) \in Time /\ (Past(t) >= 0 => Past(t) = t - 1 /\ t >= 1)
  BY ConstantsAssumption DEF Past, Time

(* A row as time passes. *)
LEMMA PastRowFacts ==
    /\ PastRow(None) = None
    /\ \A x \in Row : /\ x # None /\ PastRow(x) \in Row /\ PastRow(x).leader = x.leader
                      /\ PastRow(x).left = Past(x.left) /\ x.left \in Time
  <1>1. PastRow(None) = None
    BY DEF PastRow
  <1>2. ASSUME NEW x \in Row
        PROVE  /\ x # None /\ PastRow(x) \in Row /\ PastRow(x).leader = x.leader
               /\ PastRow(x).left = Past(x.left) /\ x.left \in Time
    <2>1. x # None /\ x.left \in Time
      BY ConstantsAssumption DEF Row, Time
    <2>2. Past(x.left) \in Time
      BY <2>1, PastFacts
    <2>3. PastRow(x) = [x EXCEPT !.left = Past(x.left)]
      BY <2>1 DEF PastRow
    <2> QED
      BY <2>1, <2>2, <2>3 DEF Row
  <1> QED
    BY <1>1, <1>2

(* The row a grant leaves behind. *)
LEMMA GrantedRow ==
    ASSUME NEW r \in Replicas
    PROVE  /\ [leader |-> r, left |-> TTL] \in Row /\ [leader |-> r, left |-> TTL] # None
  <1>1. [leader |-> r, left |-> TTL] \in Row
    BY IntervalFacts DEF Row
  <1> QED
    BY <1>1, PastRowFacts

(* A transaction. *)
LEMMA TxFacts ==
    ASSUME NEW w \in Workers, NEW x \in Row \cup {None}
    PROVE  /\ [by |-> w, old |-> x] \in [by : Workers, old : Row \cup {None}]
           /\ [by |-> w, old |-> x] # None
  BY ConstantsAssumption DEF Row, Time

-----------------------------------------------------------------------------
(* Types: the parts of the state that the actions share. *)

DbTypes ==
    /\ row \in Row \cup {None}
    /\ tx \in [by : Workers, old : Row \cup {None}] \cup {None}
SharedTypes ==
    /\ is_leader \in [Replicas -> BOOLEAN]
    /\ lease_deadline \in [Replicas -> Time \cup {None}]
ProcessTypes ==
    /\ mode \in [Replicas -> {"up", "closing", "releasing", "down"}]
    /\ stopped \in SUBSET Workers
    /\ keeper \in [Replicas -> 0..renew_interval \cup {None}]
WorkTypes ==
    /\ body \in [Workers -> {"none", "running", "cancelling"}]
    /\ grace \in [Workers -> 0..CancelGrace] /\ graceful \in [Workers -> BOOLEAN]
    /\ detached \in [Workers -> {"no", "lost", "graceful"}]
BeatTypes ==
    /\ hb \in [Workers -> {"off", "check", "sleep", "renew"}]
    /\ hb_deadline \in [Workers -> Time]
    /\ timer \in [Workers -> Intervals]
    /\ consecutive_errors \in [Workers -> 0..MAX_CONSECUTIVE_RENEW_ERRORS - 1]
IoTypes ==
    /\ req \in [Workers -> {"none", "sent", "executed", "anchored"}]
    /\ rem \in [Workers -> Time \cup {None}]
    /\ ghost \in [Workers -> {"none", "acquire", "renew"}]
    /\ errors \in 0..MaxErrors
    /\ AnchorsLease

(* The parts make up the type invariant. *)
LEMMA TypeParts ==
    /\ TInv <=> DbTypes /\ SharedTypes /\ ProcessTypes /\ WorkTypes /\ BeatTypes /\ IoTypes
    /\ TInv' <=> DbTypes' /\ SharedTypes' /\ ProcessTypes' /\ WorkTypes' /\ BeatTypes' /\ IoTypes'
  BY DEF TInv, TypeOK, DbTypes, SharedTypes, ProcessTypes, WorkTypes, BeatTypes, IoTypes, Intervals

(* What a step leaves alone keeps its type. *)
LEMMA TypesStay ==
    ASSUME TInv
    PROVE  /\ UNCHANGED db => DbTypes'
           /\ UNCHANGED shared => SharedTypes'
           /\ UNCHANGED process => ProcessTypes'
           /\ UNCHANGED work => WorkTypes'
           /\ UNCHANGED heartbeat => BeatTypes'
           /\ UNCHANGED io => IoTypes'
  BY TypeParts DEF db, shared, process, work, heartbeat, io, DbTypes, SharedTypes, ProcessTypes,
     WorkTypes, BeatTypes, IoTypes, AnchorsLease, MAX_CONSECUTIVE_RENEW_ERRORS

(* The owner of a worker is a replica. *)
LEMMA OwnerType == \A w \in Workers : Owner[w] \in Replicas
  BY ConstantsAssumption

(* Demotion. *)
LEMMA DemoteTypes ==
    ASSUME TInv, NEW r \in Replicas, Demote(r)
    PROVE  SharedTypes'
  BY TypeParts DEF Demote, SharedTypes

(* The forgotten heartbeat. *)
LEMMA ForgetTypes ==
    ASSUME TInv, NEW w \in Workers, hb' = [hb EXCEPT ![w] = "off"], ForgetHeartbeat(w)
    PROVE  BeatTypes'
  <1>1. 0 \in 0..(MAX_CONSECUTIVE_RENEW_ERRORS - 1)
    BY DEF MAX_CONSECUTIVE_RENEW_ERRORS
  <1> QED
    BY <1>1, TypeParts, IntervalFacts DEF BeatTypes, ForgetHeartbeat

(* The loss of the lease. *)
LEMMA LeaseLostTypes ==
    ASSUME TInv, NEW w \in Workers, LeaseLost(w)
    PROVE  WorkTypes' /\ BeatTypes'
  <1>1. BeatTypes'
    BY ForgetTypes DEF LeaseLost
  <1>2. CancelGrace \in 0..CancelGrace
    BY ConstantsAssumption
  <1>3. WorkTypes'
    BY <1>2, TypeParts DEF LeaseLost, WorkTypes
  <1> QED
    BY <1>1, <1>3

(* The start of a body. *)
LEMMA StartBodyTypes ==
    ASSUME TInv, NEW w \in Workers, NEW d \in Time, StartBody(w, d)
    PROVE  WorkTypes' /\ BeatTypes'
  <1>1. 0 \in 0..(MAX_CONSECUTIVE_RENEW_ERRORS - 1)
    BY DEF MAX_CONSECUTIVE_RENEW_ERRORS
  <1> QED
    BY <1>1, TypeParts DEF StartBody, WorkTypes, BeatTypes

(* The end of a transaction. *)
LEMMA EndTxTypes ==
    ASSUME TInv, NEW w \in Workers, EndTx(w)
    PROVE  DbTypes'
  BY TypeParts, TypesStay DEF EndTx, DbTypes, db

(* A cancelled statement. *)
LEMMA AbandonTypes ==
    ASSUME TInv, NEW w \in Workers, Abandon(w)
    PROVE  DbTypes' /\ IoTypes'
  <1>1. DbTypes'
    BY EndTxTypes DEF Abandon
  <1>2. IoTypes'
    BY TypeParts DEF Abandon, IoTypes, AnchorsLease
  <1> QED
    BY <1>1, <1>2

(* A failed renewal. *)
LEMMA RenewFailedTypes ==
    ASSUME TInv, NEW w \in Workers, RenewFailed(w)
    PROVE  SharedTypes' /\ WorkTypes' /\ BeatTypes'
  <1> DEFINE r == Owner[w]
             count == consecutive_errors[w] + 1
             retry == may_retry(count, hb_deadline[w])
             adopt == /\ is_leader[r] /\ lease_deadline[r] # None
                      /\ lease_deadline[r] > hb_deadline[w]
  <1>1. CASE ~retry /\ ~adopt /\ Demote(r) /\ LeaseLost(w)
    BY <1>1, DemoteTypes, LeaseLostTypes, OwnerType
  <1>2. CASE /\ retry
             /\ hb' = [hb EXCEPT ![w] = "check"]
             /\ consecutive_errors' = [consecutive_errors EXCEPT ![w] = count]
             /\ UNCHANGED <<shared, work, hb_deadline, timer>>
    <2>1. consecutive_errors[w] \in 0..(MAX_CONSECUTIVE_RENEW_ERRORS - 1)
      BY TypeParts DEF BeatTypes
    <2>2. count \in 0..(MAX_CONSECUTIVE_RENEW_ERRORS - 1)
      BY <1>2, <2>1 DEF may_retry, MAX_CONSECUTIVE_RENEW_ERRORS
    <2> HIDE DEF count
    <2>3. BeatTypes'
      BY <1>2, <2>2, TypeParts DEF BeatTypes
    <2> QED
      BY <1>2, <2>3, TypesStay
  <1>3. CASE /\ ~retry /\ adopt
             /\ hb' = [hb EXCEPT ![w] = "check"]
             /\ hb_deadline' = [hb_deadline EXCEPT ![w] = lease_deadline[r]]
             /\ consecutive_errors' = [consecutive_errors EXCEPT ![w] = 0]
             /\ UNCHANGED <<shared, work, timer>>
    <2>1. lease_deadline[r] \in Time
      BY <1>3, TypeParts, OwnerType DEF SharedTypes
    <2>2. 0 \in 0..(MAX_CONSECUTIVE_RENEW_ERRORS - 1)
      BY DEF MAX_CONSECUTIVE_RENEW_ERRORS
    <2>3. BeatTypes'
      BY <1>3, <2>1, <2>2, TypeParts DEF BeatTypes
    <2> QED
      BY <1>3, <2>3, TypesStay
  <1> QED
    BY <1>1, <1>2, <1>3 DEF RenewFailed

-----------------------------------------------------------------------------
(* Types: one lemma per kind of step. *)

(* Sending a statement, executing it and reading what it returned. *)
LEMMA StatementTypes ==
    ASSUME TInv, NEW w \in Workers,
           try_acquire(w) \/ Execute(w) \/ ReadResult(w) \/ GhostExecutes(w)
    PROVE  TInv'
  <1> USE OwnerType
  <1>1. CASE try_acquire(w)
    <2>1. IoTypes'
      BY <1>1, TypeParts DEF try_acquire, IoTypes, AnchorsLease
    <2> QED
      BY <1>1, <2>1, TypesStay, TypeParts DEF try_acquire
  <1>2. CASE Execute(w)
    <2> DEFINE r == Owner[w]
               ok == IF Renewing(w) THEN renew_matches(r) ELSE acquire_matches(r)
    <2>1. IoTypes'
      <3>1. rem' = [rem EXCEPT ![w] = IF ok THEN TTL ELSE None]
        BY <1>2 DEF Execute
      <3> HIDE DEF ok
      <3>2. rem' \in [Workers -> Time \cup {None}]
        BY <3>1, TypeParts, IntervalFacts DEF IoTypes
      <3>3. \A u \in Workers : u # w => rem'[u] = rem[u]
        BY <3>1, TypeParts DEF IoTypes
      <3>4. req' = [req EXCEPT ![w] = "executed"] /\ UNCHANGED <<ghost, errors>>
        BY <1>2 DEF Execute
      <3> QED
        BY <3>2, <3>3, <3>4, TypeParts DEF IoTypes, AnchorsLease
    <2>2. DbTypes'
      <3>1. CASE ok
        <4>1. tx' = [by |-> w, old |-> row] /\ row' = [leader |-> r, left |-> TTL]
          BY <1>2, <3>1 DEF Execute
        <4>2. row \in Row \cup {None}
          BY TypeParts DEF DbTypes
        <4> QED
          BY <4>1, <4>2, TxFacts, GrantedRow DEF DbTypes
      <3>2. CASE ~ok
        <4>1. UNCHANGED db
          BY <1>2, <3>2 DEF Execute
        <4> QED
          BY <4>1, TypesStay
      <3> QED
        BY <3>1, <3>2
    <2> QED
      BY <1>2, <2>1, <2>2, TypesStay, TypeParts DEF Execute
  <1>3. CASE ReadResult(w)
    <2>1. IoTypes'
      BY <1>3, TypeParts DEF ReadResult, IoTypes, AnchorsLease
    <2>2. SharedTypes' /\ WorkTypes' /\ BeatTypes'
      <3>1. CASE UNCHANGED <<shared, work, heartbeat>>
        BY <3>1, TypesStay
      <3>2. CASE Demote(Owner[w]) /\ LeaseLost(w)
        BY <3>2, DemoteTypes, LeaseLostTypes
      <3>3. CASE Demote(Owner[w]) /\ UNCHANGED <<work, heartbeat>>
        BY <3>3, DemoteTypes, TypesStay
      <3> QED
        BY <1>3, <3>1, <3>2, <3>3 DEF ReadResult
    <2> QED
      BY <1>3, <2>1, <2>2, TypesStay, TypeParts DEF ReadResult
  <1>4. CASE GhostExecutes(w)
    <2>1. IoTypes'
      BY <1>4, TypeParts DEF GhostExecutes, IoTypes, AnchorsLease
    <2>2. row' \in Row \cup {None}
      BY <1>4, TypeParts, GrantedRow DEF GhostExecutes, DbTypes
    <2>3. DbTypes'
      BY <1>4, <2>2, TypeParts DEF GhostExecutes, DbTypes
    <2> QED
      BY <1>4, <2>1, <2>3, TypesStay, TypeParts DEF GhostExecutes
  <1> QED
    BY <1>1, <1>2, <1>3, <1>4

(* A commit and a database error. *)
LEMMA OutcomeTypes ==
    ASSUME TInv, NEW w \in Workers, Commit(w) \/ DatabaseError(w)
    PROVE  TInv'
  <1> USE OwnerType
  <1>1. CASE Commit(w)
    <2>1. rem[w] \in Time
      BY <1>1, TypeParts DEF Commit, IoTypes, AnchorsLease
    <2>2. IoTypes'
      BY <1>1, TypeParts DEF Commit, IoTypes, AnchorsLease
    <2>3. DbTypes'
      BY <1>1, TypeParts DEF Commit, DbTypes
    <2>4. lease_deadline' \in [Replicas -> Time \cup {None}]
      BY <1>1, <2>1, TypeParts DEF Commit, anchored_deadline, SharedTypes
    <2>5. is_leader' \in [Replicas -> BOOLEAN]
      BY <1>1, TypeParts DEF Commit, SharedTypes
    <2>6. WorkTypes' /\ BeatTypes'
      <3>1. CASE StartBody(w, anchored_deadline(w))
        <4>1. StartBody(w, rem[w])
          BY <3>1 DEF anchored_deadline
        <4> QED
          BY <2>1, <4>1, StartBodyTypes
      <3>2. CASE /\ hb' = [hb EXCEPT ![w] = "check"]
                 /\ hb_deadline' = [hb_deadline EXCEPT ![w] = anchored_deadline(w)]
                 /\ consecutive_errors' = [consecutive_errors EXCEPT ![w] = 0]
                 /\ UNCHANGED <<is_leader, timer, work>>
        <4>1. 0 \in 0..(MAX_CONSECUTIVE_RENEW_ERRORS - 1)
          BY DEF MAX_CONSECUTIVE_RENEW_ERRORS
        <4>2. BeatTypes'
          BY <2>1, <3>2, <4>1, TypeParts DEF BeatTypes, anchored_deadline
        <4> QED
          BY <3>2, <4>2, TypesStay
      <3> QED
        BY <1>1, <3>1, <3>2 DEF Commit
    <2>7. SharedTypes'
      BY <2>4, <2>5 DEF SharedTypes
    <2> QED
      BY <1>1, <2>2, <2>3, <2>6, <2>7, TypesStay, TypeParts DEF Commit
  <1>2. CASE DatabaseError(w)
    <2>1. DbTypes'
      BY <1>2, EndTxTypes DEF DatabaseError
    <2>2. errors' \in 0..MaxErrors
      BY <1>2, TypeParts, ConstantsAssumption DEF DatabaseError, IoTypes
    <2>3. IoTypes'
      BY <1>2, <2>2, TypeParts DEF DatabaseError, IoTypes, AnchorsLease
    <2>4. SharedTypes' /\ WorkTypes' /\ BeatTypes'
      <3>1. CASE RenewFailed(w)
        BY <3>1, RenewFailedTypes
      <3>2. CASE /\ may_preserve(Owner[w]) /\ StartBody(w, lease_deadline[Owner[w]])
                 /\ UNCHANGED shared
        <4>1. lease_deadline[Owner[w]] \in Time
          BY <3>2, TypeParts DEF may_preserve, SharedTypes
        <4> QED
          BY <3>2, <4>1, StartBodyTypes, TypesStay
      <3>3. CASE Demote(Owner[w]) /\ UNCHANGED <<work, heartbeat>>
        BY <3>3, DemoteTypes, TypesStay
      <3> QED
        BY <1>2, <3>1, <3>2, <3>3 DEF DatabaseError
    <2> QED
      BY <1>2, <2>1, <2>3, <2>4, TypesStay, TypeParts DEF DatabaseError
  <1> QED
    BY <1>1, <1>2

(* The heartbeat loop. *)
LEMMA HeartbeatTypes ==
    ASSUME TInv, NEW w \in Workers,
           HeartbeatCheck(w) \/ HeartbeatRenew(w) \/ HeartbeatTimeout(w)
    PROVE  TInv'
  <1> USE OwnerType
  <1>1. CASE HeartbeatCheck(w)
    <2> DEFINE r == Owner[w]
               left == IF lease_deadline[r] # None THEN Max2(hb_deadline[w], lease_deadline[r])
                       ELSE hb_deadline[w]
    <2>1. left \in Time
      <3>1. hb_deadline[w] \in Time /\ (lease_deadline[r] # None => lease_deadline[r] \in Time)
        BY TypeParts DEF BeatTypes, SharedTypes
      <3> QED
        BY <3>1 DEF Max2
    <2>2. left \in Int
      BY <2>1, ConstantsAssumption DEF Time
    <2>3. \/ Demote(r) /\ LeaseLost(w)
          \/ /\ hb' = [hb EXCEPT ![w] = "sleep"]
             /\ hb_deadline' = [hb_deadline EXCEPT ![w] = left]
             /\ timer' = [timer EXCEPT ![w] = sleep_budget(left)]
             /\ UNCHANGED <<shared, work, consecutive_errors>>
      BY <1>1 DEF HeartbeatCheck
    <2> HIDE DEF left
    <2>4. SharedTypes' /\ WorkTypes' /\ BeatTypes'
      <3>1. CASE Demote(r) /\ LeaseLost(w)
        BY <3>1, DemoteTypes, LeaseLostTypes
      <3>2. CASE /\ hb' = [hb EXCEPT ![w] = "sleep"]
                 /\ hb_deadline' = [hb_deadline EXCEPT ![w] = left]
                 /\ timer' = [timer EXCEPT ![w] = sleep_budget(left)]
                 /\ UNCHANGED <<shared, work, consecutive_errors>>
        <4>1. sleep_budget(left) \in Intervals
          BY <2>2, BudgetFacts
        <4>2. BeatTypes'
          BY <2>1, <3>2, <4>1, TypeParts DEF BeatTypes
        <4> QED
          BY <3>2, <4>2, TypesStay
      <3> QED
        BY <2>3, <3>1, <3>2
    <2> QED
      BY <1>1, <2>4, TypesStay, TypeParts DEF HeartbeatCheck
  <1>2. CASE HeartbeatRenew(w)
    <2>1. IoTypes'
      BY <1>2, TypeParts DEF HeartbeatRenew, IoTypes, AnchorsLease
    <2>2. WorkTypes' /\ BeatTypes'
      <3>1. CASE LeaseLost(w)
        BY <3>1, LeaseLostTypes
      <3>2. CASE /\ hb' = [hb EXCEPT ![w] = "renew"]
                 /\ timer' = [timer EXCEPT ![w] = renew_wait(hb_deadline[w])]
                 /\ UNCHANGED <<work, hb_deadline, consecutive_errors>>
        <4>1. hb_deadline[w] \in Int
          BY TypeParts, ConstantsAssumption DEF BeatTypes, Time
        <4>2. renew_wait(hb_deadline[w]) \in Intervals
          BY <4>1, BudgetFacts
        <4>3. BeatTypes'
          BY <3>2, <4>2, TypeParts DEF BeatTypes
        <4> QED
          BY <3>2, <4>3, TypesStay
      <3> QED
        BY <1>2, <3>1, <3>2 DEF HeartbeatRenew
    <2> QED
      BY <1>2, <2>1, <2>2, TypesStay, TypeParts DEF HeartbeatRenew
  <1>3. CASE HeartbeatTimeout(w)
    BY <1>3, AbandonTypes, RenewFailedTypes, TypesStay, TypeParts DEF HeartbeatTimeout
  <1> QED
    BY <1>1, <1>2, <1>3

(* The end of a run. *)
LEMMA EndRunTypes ==
    ASSUME TInv, NEW w \in Workers, BodyExits(w) \/ Detach(w) \/ DetachedExits(w)
    PROVE  TInv'
  <1>1. CASE DetachedExits(w)
    <2>1. WorkTypes'
      BY <1>1, TypeParts DEF DetachedExits, WorkTypes
    <2> QED
      BY <1>1, <2>1, TypesStay, TypeParts DEF DetachedExits
  <1>2. CASE BodyExits(w) \/ Detach(w)
    <2>1. EndRun(w)
      BY <1>2 DEF BodyExits, Detach
    <2>2. DbTypes' /\ IoTypes' /\ BeatTypes' /\ SharedTypes' /\ ProcessTypes'
      BY <2>1, AbandonTypes, ForgetTypes, TypesStay DEF EndRun
    <2>3. detached' \in [Workers -> {"no", "lost", "graceful"}]
      BY <1>2, TypeParts DEF BodyExits, Detach, WorkTypes
    <2>4. 0 \in 0..CancelGrace
      BY ConstantsAssumption
    <2>5. WorkTypes'
      BY <2>1, <2>3, <2>4, TypeParts DEF EndRun, WorkTypes
    <2> QED
      BY <2>2, <2>5, TypeParts
  <1> QED
    BY <1>1, <1>2

(* A scheduler stop. *)
LEMMA StopTypes ==
    ASSUME TInv, NEW w \in Workers, StopScheduler(w)
    PROVE  TInv'
  <1>1. ProcessTypes'
    BY TypeParts DEF StopScheduler, ProcessTypes
  <1>2. CancelGrace \in 0..CancelGrace
    BY ConstantsAssumption
  <1>3. HoldsLease(Owner[w]) \in BOOLEAN
    BY DEF HoldsLease
  <1>4. WorkTypes'
    <2>1. CASE UNCHANGED <<body, grace, graceful>>
      BY <2>1, TypeParts DEF StopScheduler, WorkTypes
    <2>2. CASE /\ body' = [body EXCEPT ![w] = "cancelling"]
               /\ grace' = [grace EXCEPT ![w] = CancelGrace]
               /\ graceful' = [graceful EXCEPT ![w] = HoldsLease(Owner[w])]
      <3>1. graceful' \in [Workers -> BOOLEAN]
        BY <1>3, <2>2, TypeParts DEF WorkTypes
      <3> QED
        BY <1>2, <2>2, <3>1, TypeParts DEF StopScheduler, WorkTypes
    <2> QED
      BY <2>1, <2>2 DEF StopScheduler
  <1>5. DbTypes' /\ IoTypes'
    BY AbandonTypes, TypesStay DEF StopScheduler
  <1> QED
    BY <1>1, <1>4, <1>5, TypesStay, TypeParts DEF StopScheduler

(* Shutdown: the keeper, the release and the deletion of the row. *)
LEMMA ShutdownTypes ==
    ASSUME TInv, NEW r \in Replicas,
           start_release_keeper(r) \/ renew_lease_row(r) \/ release(r) \/ release_row(r)
    PROVE  TInv'
  <1>1. CASE start_release_keeper(r)
    <2>1. ProcessTypes'
      BY <1>1, TypeParts, IntervalFacts DEF start_release_keeper, keeper_start, ProcessTypes
    <2> QED
      BY <1>1, <2>1, TypesStay, TypeParts DEF start_release_keeper
  <1>2. CASE renew_lease_row(r)
    <2>1. ProcessTypes'
      BY <1>2, TypeParts, IntervalFacts DEF renew_lease_row, ProcessTypes
    <2>2. errors' \in 0..MaxErrors
      BY <1>2, TypeParts, ConstantsAssumption DEF renew_lease_row, IoTypes
    <2>3. IoTypes'
      BY <1>2, <2>2, TypeParts DEF renew_lease_row, IoTypes, AnchorsLease
    <2>4. row' \in Row \cup {None}
      <3>1. row' \in {row, [row EXCEPT !.left = TTL]} /\ (row' # row => row # None)
        BY <1>2 DEF renew_lease_row, renew_matches
      <3> QED
        BY <3>1, TypeParts, IntervalFacts DEF DbTypes, Row
    <2>5. DbTypes'
      BY <1>2, <2>4, TypeParts DEF renew_lease_row, DbTypes
    <2> QED
      BY <1>2, <2>1, <2>3, <2>5, TypesStay, TypeParts DEF renew_lease_row
  <1>3. CASE release(r)
    <2>1. ProcessTypes'
      BY <1>3, TypeParts, IntervalFacts DEF release, ProcessTypes
    <2> QED
      BY <1>3, <2>1, DemoteTypes, TypesStay, TypeParts DEF release
  <1>4. CASE release_row(r)
    <2>1. ProcessTypes'
      BY <1>4, TypeParts DEF release_row, ProcessTypes
    <2>2. errors' \in 0..MaxErrors
      BY <1>4, TypeParts, ConstantsAssumption DEF release_row, IoTypes
    <2>3. IoTypes'
      BY <1>4, <2>2, TypeParts DEF release_row, IoTypes, AnchorsLease
    <2>4. row' \in {row, None}
      BY <1>4 DEF release_row
    <2>5. DbTypes'
      BY <1>4, <2>4, TypeParts DEF release_row, DbTypes
    <2> QED
      BY <1>4, <2>1, <2>3, <2>5, TypesStay, TypeParts DEF release_row
  <1> QED
    BY <1>1, <1>2, <1>3, <1>4

(* A crash. *)
LEMMA CrashTypes ==
    ASSUME TInv, NEW r \in Replicas, Crash(r)
    PROVE  TInv'
  <1>1. ProcessTypes'
    BY TypeParts DEF Crash, ProcessTypes
  <1>2. 0 \in 0..CancelGrace /\ 0 \in 0..(MAX_CONSECUTIVE_RENEW_ERRORS - 1)
    BY ConstantsAssumption DEF MAX_CONSECUTIVE_RENEW_ERRORS
  <1>3. WorkTypes'
    BY <1>2, TypeParts DEF Crash, Cleared, WorkTypes
  <1>4. BeatTypes'
    BY <1>2, IntervalFacts, TypeParts DEF Crash, Cleared, BeatTypes
  <1>5. IoTypes'
    BY TypeParts DEF Crash, Cleared, IoTypes, AnchorsLease
  <1>6. DbTypes'
    BY TypeParts, TypesStay DEF Crash, DbTypes, db
  <1> QED
    BY <1>1, <1>3, <1>4, <1>5, <1>6, DemoteTypes, TypeParts DEF Crash

(* Counting a timer down. *)
LEMMA DownFacts ==
    ASSUME NEW n \in Nat, NEW t \in 0..n
    PROVE  Down(t) \in 0..n
  BY ConstantsAssumption DEF Down

(* Time passing. *)
LEMMA TickTypes ==
    ASSUME TInv, Tick
    PROVE  TInv'
  <1>1. DbTypes'
    <2>1. row' \in Row \cup {None}
      BY TypeParts, PastRowFacts DEF Tick, DbTypes
    <2>2. tx' \in [by : Workers, old : Row \cup {None}] \cup {None}
      <3>1. CASE tx = None
        BY <3>1 DEF Tick
      <3>2. CASE tx # None
        <4>1. tx \in [by : Workers, old : Row \cup {None}]
          BY <3>2, TypeParts DEF DbTypes
        <4>2. tx' = [tx EXCEPT !.old = PastRow(tx.old)]
          BY <3>2 DEF Tick
        <4>3. PastRow(tx.old) \in Row \cup {None}
          BY <4>1, PastRowFacts
        <4> QED
          BY <4>1, <4>2, <4>3
      <3> QED
        BY <3>1, <3>2
    <2> QED
      BY <2>1, <2>2 DEF DbTypes
  <1>2. \A t \in Time \cup {None} : Past(t) \in Time \cup {None}
    BY PastFacts DEF Past
  <1>3. SharedTypes'
    BY <1>2, TypeParts DEF Tick, SharedTypes
  <1>4. ProcessTypes'
    <2>1. \A t \in 0..renew_interval \cup {None} : Down(t) \in 0..renew_interval \cup {None}
      <3>1. Down(None) = None
        BY DEF Down
      <3>2. \A t \in 0..renew_interval : Down(t) \in 0..renew_interval
        BY IntervalFacts, DownFacts
      <3> QED
        BY <3>1, <3>2
    <2> QED
      BY <2>1, TypeParts DEF Tick, ProcessTypes
  <1>5. WorkTypes'
    <2>1. \A t \in 0..CancelGrace : Down(t) \in 0..CancelGrace
      BY ConstantsAssumption, DownFacts
    <2> QED
      BY <2>1, TypeParts DEF Tick, WorkTypes
  <1>6. BeatTypes'
    <2>1. \A t \in Intervals : Down(t) \in Intervals
      <3>1. PICK n \in Nat : Intervals = 0..n
        BY IntervalFacts DEF Intervals, Max2
      <3> QED
        BY <3>1, DownFacts
    <2>2. \A t \in Time : Past(t) \in Time
      BY PastFacts
    <2> QED
      BY <2>1, <2>2, IntervalFacts, TypeParts DEF Tick, BeatTypes
  <1>7. IoTypes'
    <2>1. \A t \in Time : Past(t) \in Time /\ Past(t) # None
      BY PastFacts, ConstantsAssumption DEF Time
    <2>2. rem' \in [Workers -> Time \cup {None}]
      BY <1>2, TypeParts DEF Tick, IoTypes
    <2>3. AnchorsLease'
      BY <2>1, TypeParts DEF Tick, IoTypes, AnchorsLease
    <2> QED
      BY <2>2, <2>3, TypeParts DEF Tick, IoTypes
  <1> QED
    BY <1>1, <1>3, <1>4, <1>5, <1>6, <1>7, TypeParts

(* The type invariant holds of the initial states. *)
LEMMA InitTypes == Init => TInv
  <1> SUFFICES ASSUME Init PROVE TInv
    OBVIOUS
  <1>1. 0 \in 0..CancelGrace /\ 0 \in 0..(MAX_CONSECUTIVE_RENEW_ERRORS - 1) /\ 0 \in 0..MaxErrors
    BY ConstantsAssumption DEF MAX_CONSECUTIVE_RENEW_ERRORS
  <1> QED
    BY <1>1, IntervalFacts, TypeParts
    DEF Init, DbTypes, SharedTypes, ProcessTypes, WorkTypes, BeatTypes, IoTypes, AnchorsLease

(* Every step keeps the type invariant. *)
LEMMA TypesPreserved == TInv /\ [Next]_vars => TInv'
  <1> SUFFICES ASSUME TInv, [Next]_vars PROVE TInv'
    OBVIOUS
  <1>1. ASSUME NEW w \in Workers, WorkerStep(w) PROVE TInv'
    BY <1>1, StatementTypes, OutcomeTypes, HeartbeatTypes, EndRunTypes, StopTypes DEF WorkerStep
  <1>2. ASSUME NEW r \in Replicas, ReplicaStep(r) PROVE TInv'
    BY <1>2, ShutdownTypes, CrashTypes DEF ReplicaStep
  <1>3. CASE UNCHANGED vars
    BY <1>3, TypesStay, TypeParts DEF vars
  <1> QED
    BY <1>1, <1>2, <1>3, TickTypes DEF Next

(* The shape of the lease and of every heartbeat: no timer, deadline or    *)
(* row is ever set beyond the configured TTL and intervals, and no         *)
(* heartbeat outlives MAX_CONSECUTIVE_RENEW_ERRORS failures in a row.      *)
THEOREM TypeCorrect == Spec => []TypeOK
  <1>1. TInv => TypeOK
    BY DEF TInv
  <1> QED
    BY <1>1, InitTypes, TypesPreserved, PTL DEF Spec

-----------------------------------------------------------------------------
(* Safety.  What keeps a leader within its lease is that the database's    *)
(* row backs every deadline kept locally, by the singleton and by each     *)
(* heartbeat, and that the row an open transaction would roll back to      *)
(* backs them as well.                                                     *)

(* A local deadline t of replica r that has not passed is covered by x. *)
Backs(x, r, t) == t # None => (t >= 0 => x # None /\ x.leader = r /\ t <= x.left)

Supports(x) ==
    /\ \A r \in Replicas : Backs(x, r, lease_deadline[r])
    /\ \A w \in Workers : hb[w] # "off" => Backs(x, Owner[w], hb_deadline[w])

SupportsNext(x) ==
    /\ \A r \in Replicas : Backs(x, r, lease_deadline'[r])
    /\ \A w \in Workers : hb'[w] # "off" => Backs(x, Owner[w], hb_deadline'[w])

LeaseBacked == Supports(row) /\ (tx # None => Supports(tx.old))

(* A lease that was returned and not yet committed is the locked row. *)
Answered(w) ==
    rem[w] # None =>
        /\ req[w] \in {"executed", "anchored"}
        /\ tx # None /\ tx.by = w
        /\ row # None /\ row.leader = Owner[w] /\ rem[w] <= row.left

(* A heartbeat sleeps, and waits for an answer, no longer than its lease   *)
(* lasts; a running body has a heartbeat; and only a renewal or the call   *)
(* of a scheduler that was not stopped has a statement in flight.          *)
BeatOK(w) ==
    /\ hb[w] = "sleep" => timer[w] < hb_deadline[w]
    /\ hb[w] = "renew" => timer[w] <= hb_deadline[w]
    /\ body[w] = "running" => hb[w] # "off"
    /\ body[w] = "none" => hb[w] = "off"
    /\ req[w] # "none" => hb[w] = "renew" \/ (hb[w] = "off" /\ body[w] = "none" /\ w \notin stopped)

(* A replica that has begun to release, or is down, holds no deadline. *)
Quiet(r) ==
    mode[r] \in {"releasing", "down"} =>
        /\ lease_deadline[r] = None
        /\ \A w \in WorkersOf(r) : hb[w] = "off" /\ req[w] = "none" /\ body[w] = "none"

AllAnswered == \A w \in Workers : Answered(w)
AllBeatsOK == \A w \in Workers : BeatOK(w)
AllQuiet == \A r \in Replicas : Quiet(r)

SInv == TInv /\ LeaseBacked /\ AllAnswered /\ AllBeatsOK /\ AllQuiet

(* The next values make up the next invariant. *)
LEMMA Assemble == TInv' /\ LeaseBacked' /\ AllAnswered' /\ AllBeatsOK' /\ AllQuiet' => SInv'
  BY DEF SInv

(* What the row has to back after a step. *)
LEMMA BackedNext ==
    ASSUME SupportsNext(row'), tx' # None => SupportsNext((tx.old)')
    PROVE  LeaseBacked'
  BY DEF LeaseBacked, Supports, SupportsNext

-----------------------------------------------------------------------------
(* Safety: what a step of one worker leaves alone. *)

LocalBeat(w) ==
    \A u \in Workers \ {w} :
        body'[u] = body[u] /\ hb'[u] = hb[u] /\ hb_deadline'[u] = hb_deadline[u] /\ timer'[u] = timer[u]
LocalIo(w) ==
    \A u \in Workers \ {w} : req'[u] = req[u] /\ rem'[u] = rem[u] /\ (u \in stopped' <=> u \in stopped)

(* Deadlines are dropped, or handed from the singleton to a heartbeat. *)
NoNewDeadline(w) ==
    /\ \A r \in Replicas : lease_deadline'[r] \in {lease_deadline[r], None}
    /\ hb'[w] # "off" => \/ hb[w] # "off" /\ hb_deadline'[w] = hb_deadline[w]
                         \/ hb_deadline'[w] = lease_deadline[Owner[w]]

(* The transaction of w ends, either way. *)
EndsOwnTx(w) ==
    tx # None /\ tx.by = w /\ tx' = None /\ row' \in {row, tx.old}

(* What w was answered is forgotten, or kept with the transaction. *)
KeepsAnswer(w) ==
    \/ rem'[w] = None
    \/ UNCHANGED db /\ rem'[w] = rem[w] /\ req'[w] \in {req[w], "anchored"}

(* Dropped and handed-on deadlines need no new lease. *)
LEMMA SupportKept ==
    ASSUME TInv, NEW w \in Workers, LocalBeat(w), NoNewDeadline(w)
    PROVE  \A x : Supports(x) => SupportsNext(x)
  <1> SUFFICES ASSUME NEW x, Supports(x) PROVE SupportsNext(x)
    OBVIOUS
  <1>1. \A r \in Replicas : Backs(x, r, lease_deadline'[r])
    BY DEF NoNewDeadline, Supports, Backs
  <1>2. hb'[w] # "off" => Backs(x, Owner[w], hb_deadline'[w])
    BY OwnerType DEF NoNewDeadline, Supports
  <1>3. \A u \in Workers \ {w} : hb'[u] # "off" => Backs(x, Owner[u], hb_deadline'[u])
    BY DEF LocalBeat, Supports
  <1> QED
    BY <1>1, <1>2, <1>3 DEF SupportsNext

(* Such a step keeps the lease backed, even when it ends a transaction. *)
LEMMA BackedKept ==
    ASSUME SInv, NEW w \in Workers, LocalBeat(w), NoNewDeadline(w), UNCHANGED db \/ EndsOwnTx(w)
    PROVE  LeaseBacked'
  <1>1. \A x : Supports(x) => SupportsNext(x)
    BY SupportKept DEF SInv
  <1>2. Supports(row) /\ (tx # None => Supports(tx.old))
    BY DEF SInv, LeaseBacked
  <1>3. CASE UNCHANGED db
    BY <1>1, <1>2, <1>3, BackedNext DEF db
  <1>4. CASE EndsOwnTx(w)
    BY <1>1, <1>2, <1>4, BackedNext DEF EndsOwnTx
  <1> QED
    BY <1>3, <1>4

(* The answers of the others are not touched. *)
LEMMA AnsweredKept ==
    ASSUME SInv, NEW w \in Workers, LocalIo(w), UNCHANGED db \/ EndsOwnTx(w), KeepsAnswer(w)
    PROVE  AllAnswered'
  <1> SUFFICES ASSUME NEW u \in Workers PROVE Answered(u)'
    BY DEF AllAnswered
  <1>1. Answered(u)
    BY DEF SInv, AllAnswered
  <1>2. CASE u = w
    BY <1>1, <1>2 DEF Answered, KeepsAnswer, db
  <1>3. CASE u # w /\ UNCHANGED db
    BY <1>1, <1>3 DEF Answered, LocalIo, db
  <1>4. CASE u # w /\ EndsOwnTx(w)
    BY <1>1, <1>4 DEF Answered, LocalIo, EndsOwnTx
  <1> QED
    BY <1>2, <1>3, <1>4

(* Nor are their heartbeats. *)
LEMMA BeatsKept ==
    ASSUME SInv, NEW w \in Workers, LocalBeat(w), LocalIo(w), BeatOK(w)'
    PROVE  AllBeatsOK'
  <1> SUFFICES ASSUME NEW u \in Workers, u # w PROVE BeatOK(u)'
    BY DEF AllBeatsOK
  <1>1. BeatOK(u)
    BY DEF SInv, AllBeatsOK
  <1> QED
    BY <1>1 DEF BeatOK, LocalBeat, LocalIo

(* A worker with something going on belongs to a replica that is not quiet. *)
LEMMA BusyReplica ==
    ASSUME SInv, NEW w \in Workers, hb[w] # "off" \/ req[w] # "none" \/ body[w] # "none"
    PROVE  mode[Owner[w]] \notin {"releasing", "down"}
  BY OwnerType DEF SInv, AllQuiet, Quiet, WorkersOf

(* Its step leaves the quiet replicas quiet. *)
LEMMA QuietKept ==
    ASSUME SInv, NEW w \in Workers, LocalBeat(w), LocalIo(w), mode' = mode,
           mode[Owner[w]] \notin {"releasing", "down"},
           \A r \in Replicas : r # Owner[w] => lease_deadline'[r] \in {lease_deadline[r], None}
    PROVE  AllQuiet'
  <1> SUFFICES ASSUME NEW r \in Replicas, mode[r] \in {"releasing", "down"}
               PROVE  /\ lease_deadline'[r] = None
                      /\ \A u \in WorkersOf(r) : hb'[u] = "off" /\ req'[u] = "none" /\ body'[u] = "none"
    BY DEF AllQuiet, Quiet, WorkersOf
  <1>1. Quiet(r) /\ r # Owner[w]
    BY DEF SInv, AllQuiet
  <1>2. lease_deadline'[r] = None
    BY <1>1 DEF Quiet
  <1>3. ASSUME NEW u \in WorkersOf(r)
        PROVE  hb'[u] = "off" /\ req'[u] = "none" /\ body'[u] = "none"
    <2>1. u \in Workers /\ u # w
      BY <1>1, <1>3 DEF WorkersOf
    <2> QED
      BY <1>1, <2>1 DEF Quiet, LocalBeat, LocalIo
  <1> QED
    BY <1>2, <1>3

(* A worker's step as a whole. *)
LEMMA WorkerStepSafe ==
    ASSUME SInv, TInv', NEW w \in Workers, LocalBeat(w), LocalIo(w), NoNewDeadline(w),
           UNCHANGED db \/ EndsOwnTx(w), KeepsAnswer(w), BeatOK(w)', mode' = mode,
           mode[Owner[w]] \notin {"releasing", "down"}
    PROVE  SInv'
  <1>1. LeaseBacked' /\ AllAnswered' /\ AllBeatsOK'
    BY BackedKept, AnsweredKept, BeatsKept
  <1>2. AllQuiet'
    BY QuietKept DEF NoNewDeadline
  <1> QED
    BY <1>1, <1>2, Assemble

-----------------------------------------------------------------------------
(* Safety: the parts that the actions of a worker share. *)

(* Demotion drops a deadline. *)
LEMMA DemoteFacts ==
    ASSUME TInv, NEW r \in Replicas, Demote(r)
    PROVE  \A q \in Replicas : lease_deadline'[q] \in {lease_deadline[q], None}
  BY TypeParts DEF Demote, SharedTypes

(* A heartbeat that lost the lease. *)
LEMMA LostFacts ==
    ASSUME TInv, NEW w \in Workers, LeaseLost(w)
    PROVE  LocalBeat(w) /\ hb'[w] = "off" /\ body'[w] = "cancelling"
  BY TypeParts DEF LeaseLost, ForgetHeartbeat, LocalBeat, WorkTypes, BeatTypes

(* A body that starts. *)
LEMMA StartFacts ==
    ASSUME TInv, NEW w \in Workers, NEW d, StartBody(w, d)
    PROVE  LocalBeat(w) /\ hb'[w] = "check" /\ body'[w] = "running" /\ hb_deadline'[w] = d
  BY TypeParts DEF StartBody, LocalBeat, WorkTypes, BeatTypes

(* A transaction that is given up. *)
LEMMA EndTxFacts ==
    ASSUME NEW w \in Workers, EndTx(w)
    PROVE  UNCHANGED db \/ EndsOwnTx(w)
  BY DEF EndTx, EndsOwnTx

(* A statement that is given up. *)
LEMMA AbandonFacts ==
    ASSUME TInv, NEW w \in Workers, Abandon(w)
    PROVE  /\ UNCHANGED db \/ EndsOwnTx(w)
           /\ req'[w] = "none" /\ rem'[w] = None
           /\ \A u \in Workers \ {w} : req'[u] = req[u] /\ rem'[u] = rem[u]
  <1>1. UNCHANGED db \/ EndsOwnTx(w)
    BY EndTxFacts DEF Abandon
  <1>2. /\ req'[w] = "none" /\ rem'[w] = None
        /\ \A u \in Workers \ {w} : req'[u] = req[u] /\ rem'[u] = rem[u]
    BY TypeParts DEF Abandon, IoTypes
  <1> QED
    BY <1>1, <1>2

(* A renewal that failed. *)
LEMMA RenewFailedFacts ==
    ASSUME TInv, NEW w \in Workers, hb[w] = "renew", RenewFailed(w)
    PROVE  /\ LocalBeat(w) /\ NoNewDeadline(w)
           /\ \/ hb'[w] = "off" /\ body'[w] = "cancelling"
              \/ hb'[w] = "check" /\ body'[w] = body[w]
  <1> DEFINE r == Owner[w]
             count == consecutive_errors[w] + 1
             retry == may_retry(count, hb_deadline[w])
             adopt == /\ is_leader[r] /\ lease_deadline[r] # None
                      /\ lease_deadline[r] > hb_deadline[w]
  <1>1. CASE Demote(r) /\ LeaseLost(w)
    BY <1>1, DemoteFacts, LostFacts, OwnerType DEF NoNewDeadline
  <1>2. CASE /\ hb' = [hb EXCEPT ![w] = "check"]
             /\ UNCHANGED <<shared, work, hb_deadline, timer>>
    BY <1>2, TypeParts DEF LocalBeat, NoNewDeadline, BeatTypes, shared, work
  <1>3. CASE /\ hb' = [hb EXCEPT ![w] = "check"]
             /\ hb_deadline' = [hb_deadline EXCEPT ![w] = lease_deadline[r]]
             /\ UNCHANGED <<shared, work, timer>>
    BY <1>3, TypeParts DEF LocalBeat, NoNewDeadline, BeatTypes, shared, work
  <1> QED
    BY <1>1, <1>2, <1>3 DEF RenewFailed

(* A heartbeat without a statement, past its timers. *)
LEMMA CalmBeat ==
    ASSUME NEW w \in Workers, req'[w] = "none",
           \/ hb'[w] = "off" /\ body'[w] = "cancelling"
           \/ hb'[w] = "check" /\ body'[w] # "none"
           \/ hb'[w] = "off" /\ body'[w] = "none"
    PROVE  BeatOK(w)'
  BY DEF BeatOK

-----------------------------------------------------------------------------
(* Safety: the actions of a worker. *)

(* Sending an acquire. *)
LEMMA AcquireSafe ==
    ASSUME SInv, TInv', NEW w \in Workers, try_acquire(w)
    PROVE  SInv'
  <1>1. TInv /\ BeatOK(w) /\ Answered(w)
    BY DEF SInv, AllBeatsOK, AllAnswered
  <1>2. LocalBeat(w) /\ LocalIo(w)
    BY <1>1, TypeParts
    DEF try_acquire, LocalBeat, LocalIo, IoTypes, work, heartbeat, process
  <1>3. NoNewDeadline(w)
    BY DEF try_acquire, NoNewDeadline, shared, heartbeat
  <1>4. rem'[w] = None
    BY <1>1 DEF try_acquire, Answered
  <1>5. BeatOK(w)'
    BY <1>1, TypeParts DEF try_acquire, BeatOK, IoTypes, work, heartbeat, process
  <1>6. mode' = mode /\ mode[Owner[w]] \notin {"releasing", "down"} /\ UNCHANGED db
    BY DEF try_acquire, process
  <1> QED
    BY <1>2, <1>3, <1>4, <1>5, <1>6, WorkerStepSafe DEF KeepsAnswer

(* Reading a result. *)
LEMMA ReadSafe ==
    ASSUME SInv, TInv', NEW w \in Workers, ReadResult(w)
    PROVE  SInv'
  <1>1. TInv /\ BeatOK(w)
    BY DEF SInv, AllBeatsOK
  <1>2. mode' = mode /\ UNCHANGED db /\ rem' = rem /\ stopped' = stopped
    BY DEF ReadResult, process
  <1>3. mode[Owner[w]] \notin {"releasing", "down"}
    BY BusyReplica DEF ReadResult
  <1>4. LocalIo(w)
    BY <1>1, <1>2, TypeParts DEF ReadResult, LocalIo, IoTypes
  <1>5. CASE rem[w] # None
    <2>1. UNCHANGED <<shared, work, heartbeat>> /\ req' = [req EXCEPT ![w] = "anchored"]
      BY <1>5 DEF ReadResult
    <2>2. LocalBeat(w) /\ NoNewDeadline(w)
      BY <2>1 DEF LocalBeat, NoNewDeadline, shared, work, heartbeat
    <2>3. req'[w] = "anchored" /\ req[w] = "executed"
      BY <1>1, <2>1, TypeParts DEF IoTypes, ReadResult
    <2>4. BeatOK(w)'
      BY <1>1, <1>2, <2>1, <2>3 DEF BeatOK, work, heartbeat
    <2> QED
      BY <1>2, <1>3, <1>4, <2>2, <2>3, <2>4, WorkerStepSafe DEF KeepsAnswer
  <1>6. CASE rem[w] = None
    <2>1. Demote(Owner[w]) /\ req'[w] = "none"
      BY <1>1, <1>6, TypeParts DEF ReadResult, IoTypes
    <2>2. \A q \in Replicas : lease_deadline'[q] \in {lease_deadline[q], None}
      BY <1>1, <2>1, DemoteFacts, OwnerType
    <2>3. CASE Renewing(w)
      <3>1. LeaseLost(w)
        BY <1>6, <2>3 DEF ReadResult
      <3>2. LocalBeat(w) /\ hb'[w] = "off" /\ body'[w] = "cancelling"
        BY <1>1, <3>1, LostFacts
      <3>3. BeatOK(w)' /\ NoNewDeadline(w)
        BY <2>1, <2>2, <3>2, CalmBeat DEF NoNewDeadline
      <3> QED
        BY <1>2, <1>3, <1>4, <1>6, <3>2, <3>3, WorkerStepSafe DEF KeepsAnswer
    <2>4. CASE ~Renewing(w)
      <3>1. UNCHANGED <<work, heartbeat>>
        BY <1>6, <2>4 DEF ReadResult
      <3>2. LocalBeat(w) /\ NoNewDeadline(w)
        BY <2>2, <3>1 DEF LocalBeat, NoNewDeadline, work, heartbeat
      <3>3. BeatOK(w)'
        BY <1>1, <2>1, <3>1 DEF BeatOK, work, heartbeat
      <3> QED
        BY <1>2, <1>3, <1>4, <1>6, <3>2, <3>3, WorkerStepSafe DEF KeepsAnswer
    <2> QED
      BY <2>3, <2>4
  <1> QED
    BY <1>5, <1>6

(* A database error. *)
LEMMA ErrorSafe ==
    ASSUME SInv, TInv', NEW w \in Workers, DatabaseError(w)
    PROVE  SInv'
  <1>1. TInv /\ BeatOK(w)
    BY DEF SInv, AllBeatsOK
  <1>2. mode' = mode /\ stopped' = stopped
    BY DEF DatabaseError, process
  <1>3. mode[Owner[w]] \notin {"releasing", "down"}
    BY BusyReplica DEF DatabaseError
  <1>4. LocalIo(w) /\ req'[w] = "none" /\ rem'[w] = None
    BY <1>1, <1>2, TypeParts DEF DatabaseError, LocalIo, IoTypes
  <1>5. UNCHANGED db \/ EndsOwnTx(w)
    BY EndTxFacts DEF DatabaseError
  <1>6. LocalBeat(w) /\ NoNewDeadline(w) /\ BeatOK(w)'
    <2>1. CASE Renewing(w) /\ RenewFailed(w)
      <3>1. /\ LocalBeat(w) /\ NoNewDeadline(w)
            /\ \/ hb'[w] = "off" /\ body'[w] = "cancelling"
               \/ hb'[w] = "check" /\ body'[w] = body[w]
        BY <1>1, <2>1, RenewFailedFacts DEF Renewing
      <3>2. body[w] # "none"
        BY <1>1, <2>1 DEF BeatOK, Renewing
      <3> QED
        BY <1>4, <3>1, <3>2, CalmBeat
    <2>2. CASE StartBody(w, lease_deadline[Owner[w]]) /\ UNCHANGED shared
      <3>1. LocalBeat(w) /\ hb'[w] = "check" /\ body'[w] = "running"
            /\ hb_deadline'[w] = lease_deadline[Owner[w]]
        BY <1>1, <2>2, StartFacts
      <3> QED
        BY <1>4, <2>2, <3>1, CalmBeat DEF NoNewDeadline, shared
    <2>3. CASE Demote(Owner[w]) /\ UNCHANGED <<work, heartbeat>>
      <3>1. \A q \in Replicas : lease_deadline'[q] \in {lease_deadline[q], None}
        BY <1>1, <2>3, DemoteFacts, OwnerType
      <3>2. LocalBeat(w) /\ NoNewDeadline(w)
        BY <2>3, <3>1 DEF LocalBeat, NoNewDeadline, work, heartbeat
      <3>3. BeatOK(w)'
        BY <1>1, <1>4, <2>3 DEF BeatOK, work, heartbeat
      <3> QED
        BY <3>2, <3>3
    <2> QED
      BY <2>1, <2>2, <2>3 DEF DatabaseError
  <1> QED
    BY <1>2, <1>3, <1>4, <1>5, <1>6, WorkerStepSafe DEF KeepsAnswer

(* The heartbeat loop looks at its deadline. *)
LEMMA CheckSafe ==
    ASSUME SInv, TInv', NEW w \in Workers, HeartbeatCheck(w)
    PROVE  SInv'
  <1> DEFINE r == Owner[w]
             left == IF lease_deadline[r] # None THEN Max2(hb_deadline[w], lease_deadline[r])
                     ELSE hb_deadline[w]
  <1>1. TInv /\ BeatOK(w) /\ Answered(w)
    BY DEF SInv, AllBeatsOK, AllAnswered
  <1>2. mode' = mode /\ stopped' = stopped /\ UNCHANGED db /\ req' = req /\ rem' = rem
    BY DEF HeartbeatCheck, process, io
  <1>3. hb[w] = "check" /\ req[w] = "none" /\ body[w] # "none"
    BY <1>1 DEF HeartbeatCheck, BeatOK
  <1>4. mode[Owner[w]] \notin {"releasing", "down"} /\ LocalIo(w) /\ rem'[w] = None
    BY <1>1, <1>2, <1>3, BusyReplica DEF LocalIo, Answered
  <1>5. CASE Demote(r) /\ LeaseLost(w)
    <2>1. \A q \in Replicas : lease_deadline'[q] \in {lease_deadline[q], None}
      BY <1>1, <1>5, DemoteFacts, OwnerType
    <2>2. LocalBeat(w) /\ hb'[w] = "off" /\ body'[w] = "cancelling"
      BY <1>1, <1>5, LostFacts
    <2>3. BeatOK(w)' /\ NoNewDeadline(w)
      BY <1>2, <1>3, <2>1, <2>2, CalmBeat DEF NoNewDeadline
    <2> QED
      BY <1>2, <1>4, <2>2, <2>3, WorkerStepSafe DEF KeepsAnswer
  <1>6. CASE /\ left > 0
             /\ hb' = [hb EXCEPT ![w] = "sleep"]
             /\ hb_deadline' = [hb_deadline EXCEPT ![w] = left]
             /\ timer' = [timer EXCEPT ![w] = sleep_budget(left)]
             /\ UNCHANGED <<shared, work, consecutive_errors>>
    <2>1. left \in {hb_deadline[w], lease_deadline[r]}
      BY DEF Max2
    <2>2. left \in Int
      <3>1. hb_deadline[w] \in Int /\ (lease_deadline[r] # None => lease_deadline[r] \in Int)
        BY <1>1, TypeParts, OwnerType, ConstantsAssumption DEF BeatTypes, SharedTypes, Time
      <3> QED
        BY <3>1 DEF Max2
    <2> HIDE DEF left
    <2>3. /\ hb'[w] = "sleep" /\ hb_deadline'[w] = left /\ timer'[w] = sleep_budget(left)
          /\ body' = body /\ lease_deadline' = lease_deadline
      BY <1>1, <1>6, TypeParts DEF BeatTypes, work, shared
    <2>4. LocalBeat(w)
      BY <1>1, <1>6, <2>3, TypeParts DEF LocalBeat, BeatTypes
    <2>5. NoNewDeadline(w)
      BY <1>3, <2>1, <2>3 DEF NoNewDeadline
    <2>6. sleep_budget(left) < left
      BY <1>6, <2>2, BudgetFacts
    <2>7. BeatOK(w)'
      BY <1>2, <1>3, <2>3, <2>6 DEF BeatOK
    <2> QED
      BY <1>2, <1>4, <2>4, <2>5, <2>7, WorkerStepSafe DEF KeepsAnswer
  <1> QED
    BY <1>5, <1>6 DEF HeartbeatCheck

(* The heartbeat loop renews, or finds the leadership gone. *)
LEMMA RenewSafe ==
    ASSUME SInv, TInv', NEW w \in Workers, HeartbeatRenew(w)
    PROVE  SInv'
  <1>1. TInv /\ BeatOK(w) /\ Answered(w)
    BY DEF SInv, AllBeatsOK, AllAnswered
  <1>2. mode' = mode /\ stopped' = stopped /\ UNCHANGED db /\ UNCHANGED shared /\ rem' = rem
    BY DEF HeartbeatRenew, process
  <1>3. hb[w] = "sleep" /\ timer[w] = 0 /\ req[w] = "none" /\ body[w] # "none" /\ 0 < hb_deadline[w]
    BY <1>1 DEF HeartbeatRenew, BeatOK
  <1>4. mode[Owner[w]] \notin {"releasing", "down"} /\ rem'[w] = None
    BY <1>1, <1>2, <1>3, BusyReplica DEF Answered
  <1>5. LocalIo(w)
    BY <1>1, <1>2, TypeParts DEF HeartbeatRenew, LocalIo, IoTypes
  <1>6. CASE /\ hb' = [hb EXCEPT ![w] = "renew"]
             /\ timer' = [timer EXCEPT ![w] = renew_wait(hb_deadline[w])]
             /\ UNCHANGED <<work, hb_deadline, consecutive_errors>>
    <2>1. /\ hb'[w] = "renew" /\ timer'[w] = renew_wait(hb_deadline[w])
          /\ hb_deadline' = hb_deadline /\ body' = body
      BY <1>1, <1>6, TypeParts DEF BeatTypes, work
    <2>2. LocalBeat(w)
      BY <1>1, <1>6, <2>1, TypeParts DEF LocalBeat, BeatTypes
    <2>3. NoNewDeadline(w)
      BY <1>2, <1>3, <2>1 DEF NoNewDeadline, shared
    <2>4. hb_deadline[w] \in Int
      BY <1>1, TypeParts, ConstantsAssumption DEF BeatTypes, Time
    <2>5. renew_wait(hb_deadline[w]) <= hb_deadline[w]
      BY <1>3, <2>4, BudgetFacts
    <2>6. BeatOK(w)'
      BY <1>3, <2>1, <2>5 DEF BeatOK
    <2> QED
      BY <1>2, <1>4, <1>5, <2>2, <2>3, <2>6, WorkerStepSafe DEF KeepsAnswer
  <1>7. CASE LeaseLost(w) /\ UNCHANGED req
    <2>1. LocalBeat(w) /\ hb'[w] = "off" /\ body'[w] = "cancelling"
      BY <1>1, <1>7, LostFacts
    <2>2. BeatOK(w)' /\ NoNewDeadline(w)
      BY <1>2, <1>3, <1>7, <2>1, CalmBeat DEF NoNewDeadline, shared
    <2> QED
      BY <1>2, <1>4, <1>5, <2>1, <2>2, WorkerStepSafe DEF KeepsAnswer
  <1> QED
    BY <1>6, <1>7 DEF HeartbeatRenew

(* A renewal runs out of time. *)
LEMMA TimeoutSafe ==
    ASSUME SInv, TInv', NEW w \in Workers, HeartbeatTimeout(w)
    PROVE  SInv'
  <1>1. TInv /\ BeatOK(w) /\ hb[w] = "renew" /\ mode' = mode /\ stopped' = stopped
    BY DEF SInv, AllBeatsOK, HeartbeatTimeout, Renewing, process
  <1>2. mode[Owner[w]] \notin {"releasing", "down"} /\ body[w] # "none"
    BY <1>1, BusyReplica DEF BeatOK
  <1>3. /\ UNCHANGED db \/ EndsOwnTx(w)
        /\ req'[w] = "none" /\ rem'[w] = None /\ LocalIo(w)
    BY <1>1, AbandonFacts DEF HeartbeatTimeout, LocalIo
  <1>4. /\ LocalBeat(w) /\ NoNewDeadline(w)
        /\ \/ hb'[w] = "off" /\ body'[w] = "cancelling"
           \/ hb'[w] = "check" /\ body'[w] = body[w]
    BY <1>1, RenewFailedFacts DEF HeartbeatTimeout
  <1>5. BeatOK(w)'
    BY <1>2, <1>3, <1>4, CalmBeat
  <1> QED
    BY <1>1, <1>2, <1>3, <1>4, <1>5, WorkerStepSafe DEF KeepsAnswer

(* A run ends, with its body or without. *)
LEMMA EndRunSafe ==
    ASSUME SInv, TInv', NEW w \in Workers, body[w] # "none", EndRun(w)
    PROVE  SInv'
  <1>1. TInv /\ mode' = mode /\ stopped' = stopped /\ UNCHANGED shared
    BY DEF SInv, EndRun, process
  <1>2. mode[Owner[w]] \notin {"releasing", "down"}
    BY BusyReplica
  <1>3. /\ UNCHANGED db \/ EndsOwnTx(w)
        /\ req'[w] = "none" /\ rem'[w] = None /\ LocalIo(w)
    BY <1>1, AbandonFacts DEF EndRun, LocalIo
  <1>4. LocalBeat(w) /\ hb'[w] = "off" /\ body'[w] = "none"
    BY <1>1, TypeParts DEF EndRun, ForgetHeartbeat, LocalBeat, WorkTypes, BeatTypes
  <1>5. BeatOK(w)' /\ NoNewDeadline(w)
    BY <1>1, <1>3, <1>4, CalmBeat DEF NoNewDeadline, shared
  <1> QED
    BY <1>1, <1>2, <1>3, <1>4, <1>5, WorkerStepSafe DEF KeepsAnswer

(* A scheduler is stopped. *)
LEMMA StopSafe ==
    ASSUME SInv, TInv', NEW w \in Workers, StopScheduler(w)
    PROVE  SInv'
  <1>1. TInv /\ BeatOK(w) /\ mode' = mode /\ UNCHANGED shared /\ UNCHANGED heartbeat
    BY DEF SInv, AllBeatsOK, StopScheduler
  <1>2. mode[Owner[w]] \notin {"releasing", "down"} /\ stopped' = stopped \cup {w}
    BY DEF StopScheduler
  <1>3. NoNewDeadline(w)
    BY <1>1 DEF NoNewDeadline, shared, heartbeat
  <1>4. CASE /\ body[w] = "running" /\ body' = [body EXCEPT ![w] = "cancelling"]
             /\ UNCHANGED <<db, io>>
    <2>1. body'[w] = "cancelling" /\ LocalBeat(w) /\ LocalIo(w)
      BY <1>1, <1>2, <1>4, TypeParts DEF LocalBeat, LocalIo, WorkTypes, heartbeat, io
    <2>2. BeatOK(w)'
      BY <1>1, <1>4, <2>1 DEF BeatOK, heartbeat, io
    <2> QED
      BY <1>1, <1>2, <1>3, <1>4, <2>1, <2>2, WorkerStepSafe DEF KeepsAnswer, io
  <1>5. CASE Abandon(w) /\ Acquiring(w) /\ body' = body
    <2>1. /\ UNCHANGED db \/ EndsOwnTx(w)
          /\ req'[w] = "none" /\ rem'[w] = None /\ LocalIo(w)
      BY <1>1, <1>2, <1>5, AbandonFacts DEF LocalIo
    <2>2. LocalBeat(w)
      BY <1>1, <1>5 DEF LocalBeat, heartbeat
    <2>3. BeatOK(w)'
      BY <1>1, <1>5, <2>1 DEF BeatOK, heartbeat
    <2> QED
      BY <1>1, <1>2, <1>3, <2>1, <2>2, <2>3, WorkerStepSafe DEF KeepsAnswer
  <1>6. CASE ~Acquiring(w) /\ UNCHANGED <<db, io>> /\ body' = body
    <2>1. LocalBeat(w) /\ LocalIo(w)
      BY <1>1, <1>2, <1>6 DEF LocalBeat, LocalIo, heartbeat, io
    <2>2. BeatOK(w)'
      BY <1>1, <1>6 DEF BeatOK, heartbeat, io, Acquiring
    <2> QED
      BY <1>1, <1>2, <1>3, <1>6, <2>1, <2>2, WorkerStepSafe DEF KeepsAnswer, io
  <1> QED
    BY <1>4, <1>5, <1>6 DEF StopScheduler

(* What the heartbeats and the singletons are made of. *)
beats == <<body, hb, hb_deadline, timer>>

(* A step that leaves heartbeats and deadlines alone. *)
LEMMA Still ==
    ASSUME SInv, UNCHANGED <<beats, lease_deadline>>
    PROVE  /\ \A x : Supports(x) => SupportsNext(x)
           /\ UNCHANGED <<req, stopped>> => AllBeatsOK'
           /\ UNCHANGED <<req, mode>> => AllQuiet'
           /\ UNCHANGED <<req, rem, db>> => AllAnswered'
           /\ UNCHANGED db => LeaseBacked'
  <1>1. \A x : Supports(x) => SupportsNext(x)
    BY DEF Supports, SupportsNext, beats
  <1>2. ASSUME UNCHANGED <<req, stopped>> PROVE AllBeatsOK'
    BY <1>2 DEF SInv, AllBeatsOK, BeatOK, beats
  <1>3. ASSUME UNCHANGED <<req, mode>> PROVE AllQuiet'
    BY <1>3 DEF SInv, AllQuiet, Quiet, WorkersOf, beats
  <1>4. ASSUME UNCHANGED <<req, rem, db>> PROVE AllAnswered'
    BY <1>4 DEF SInv, AllAnswered, Answered, db
  <1>5. ASSUME UNCHANGED db PROVE LeaseBacked'
    BY <1>1, <1>5, BackedNext DEF SInv, LeaseBacked, db
  <1> QED
    BY <1>1, <1>2, <1>3, <1>4, <1>5

(* A body that was left behind ends. *)
LEMMA DetachedSafe ==
    ASSUME SInv, TInv', NEW w \in Workers, DetachedExits(w)
    PROVE  SInv'
  <1>1. UNCHANGED <<beats, lease_deadline>> /\ UNCHANGED <<req, rem, mode, stopped, db>>
    BY DEF DetachedExits, beats, heartbeat, shared, io, process
  <1> QED
    BY <1>1, Still, Assemble

(* A lease is granted to r: it takes a lease away from nobody. *)
LEMMA GrantBacked ==
    ASSUME SInv, NEW r \in Replicas, UNCHANGED <<beats, lease_deadline>>,
           row = None \/ row.leader = r \/ row.left < 0,
           row' = [leader |-> r, left |-> TTL],
           tx' # None => (tx.old)' = row
    PROVE  LeaseBacked'
  <1>1. TInv /\ Supports(row)
    BY DEF SInv, LeaseBacked
  <1>2. row'.leader = r /\ row'.left = TTL /\ row' # None
    BY GrantedRow
  <1>3. row # None => row \in Row /\ row.left \in Int
    BY <1>1, TypeParts, ConstantsAssumption DEF DbTypes, Row, Time
  <1>4. ASSUME NEW q \in Replicas, NEW t \in Time \cup {None}, Backs(row, q, t)
        PROVE  Backs(row', q, t)
    <2>1. CASE t = None
      BY <2>1 DEF Backs
    <2>2. CASE t # None /\ t >= 0
      <3>1. row # None /\ row.leader = q /\ t <= row.left /\ t \in Int /\ t <= TTL
        BY <1>4, <2>2, ConstantsAssumption DEF Backs, Time
      <3>2. q = r
        BY <1>3, <2>2, <3>1
      <3> QED
        BY <1>2, <3>1, <3>2 DEF Backs
    <2>3. CASE t # None /\ ~(t >= 0)
      BY <2>3 DEF Backs
    <2> QED
      BY <2>1, <2>2, <2>3
  <1>5. Supports(row')
    BY <1>1, <1>4, OwnerType, TypeParts DEF Supports, SharedTypes, BeatTypes
  <1>6. \A x : Supports(x) => SupportsNext(x)
    BY Still
  <1> QED
    BY <1>1, <1>5, <1>6, BackedNext

(* The statements are granted only where that is so. *)
LEMMA MatchesFacts ==
    ASSUME TInv, NEW r \in Replicas, renew_matches(r) \/ acquire_matches(r)
    PROVE  row = None \/ row.leader = r \/ row.left < 0
  BY DEF renew_matches, acquire_matches

(* While no transaction is open nobody was answered. *)
LEMMA NobodyAnswered ==
    ASSUME SInv, tx = None
    PROVE  \A w \in Workers : rem[w] = None
  BY DEF SInv, AllAnswered, Answered

(* Executing a statement. *)
LEMMA ExecuteSafe ==
    ASSUME SInv, TInv', NEW w \in Workers, Execute(w)
    PROVE  SInv'
  <1> DEFINE r == Owner[w]
             ok == IF Renewing(w) THEN renew_matches(r) ELSE acquire_matches(r)
  <1>1. TInv /\ r \in Replicas /\ tx = None /\ req[w] = "sent"
    BY OwnerType DEF SInv, Execute
  <1>2. UNCHANGED <<beats, lease_deadline>> /\ UNCHANGED <<mode, stopped>>
    BY DEF Execute, beats, heartbeat, shared, process, work
  <1>3. /\ req'[w] = "executed"
        /\ \A u \in Workers \ {w} : req'[u] = req[u] /\ rem'[u] = rem[u]
    BY <1>1, TypeParts DEF Execute, IoTypes
  <1>4. AllBeatsOK'
    BY <1>1, <1>2, <1>3 DEF SInv, AllBeatsOK, BeatOK, beats
  <1>5. mode[r] \notin {"releasing", "down"}
    BY <1>1, BusyReplica
  <1>6. AllQuiet'
    <2>1. LocalBeat(w) /\ LocalIo(w)
      BY <1>2, <1>3 DEF LocalBeat, LocalIo, beats
    <2> QED
      BY <1>2, <1>5, <2>1, QuietKept
  <1>7. \A u \in Workers : u # w => rem'[u] = None
    BY <1>1, <1>3, NobodyAnswered
  <1>8. CASE ok
    <2>1. /\ tx' = [by |-> w, old |-> row] /\ row' = [leader |-> r, left |-> TTL]
          /\ rem' = [rem EXCEPT ![w] = TTL]
      BY <1>8 DEF Execute
    <2>2. row = None \/ row.leader = r \/ row.left < 0
      BY <1>1, <1>8, MatchesFacts
    <2>3. tx'.old = row /\ tx'.by = w /\ tx' # None
      <3>1. row \in Row \cup {None}
        BY <1>1, TypeParts DEF DbTypes
      <3> QED
        BY <2>1, <3>1, TxFacts
    <2>4. LeaseBacked'
      BY <1>1, <1>2, <2>1, <2>2, <2>3, GrantBacked
    <2>5. rem'[w] = TTL /\ row'.left = TTL /\ row'.leader = r /\ row' # None
      BY <1>1, <2>1, TypeParts, GrantedRow DEF IoTypes
    <2>6. AllAnswered'
      BY <1>3, <1>7, <2>3, <2>5, ConstantsAssumption DEF AllAnswered, Answered
    <2> QED
      BY <1>4, <1>6, <2>4, <2>6, Assemble
  <1>9. CASE ~ok
    <2>1. UNCHANGED db /\ rem' = [rem EXCEPT ![w] = None]
      BY <1>9 DEF Execute
    <2>2. LeaseBacked'
      BY <1>2, <2>1, Still
    <2>3. AllAnswered'
      BY <1>1, <1>7, <2>1, TypeParts DEF AllAnswered, Answered, IoTypes
    <2> QED
      BY <1>4, <1>6, <2>2, <2>3, Assemble
  <1> QED
    BY <1>8, <1>9

(* A row that nobody holds locked changes unseen. *)
LEMMA UnseenAnswers ==
    ASSUME SInv, tx = None, rem' = rem
    PROVE  AllAnswered'
  BY NobodyAnswered DEF AllAnswered, Answered

(* A cancelled statement that reaches the database after all. *)
LEMMA GhostSafe ==
    ASSUME SInv, TInv', NEW w \in Workers, GhostExecutes(w)
    PROVE  SInv'
  <1>1. /\ UNCHANGED <<beats, lease_deadline>> /\ UNCHANGED <<mode, stopped, req, rem>> /\ tx' = tx
        /\ TInv /\ Owner[w] \in Replicas
    BY OwnerType DEF GhostExecutes, beats, heartbeat, shared, process, work, SInv
  <1>2. AllBeatsOK' /\ AllQuiet'
    BY <1>1, Still
  <1>3. CASE UNCHANGED row
    BY <1>1, <1>2, <1>3, Still, Assemble DEF db
  <1>4. CASE /\ tx = None /\ (renew_matches(Owner[w]) \/ acquire_matches(Owner[w]))
             /\ row' = [leader |-> Owner[w], left |-> TTL]
    <2>1. LeaseBacked'
      BY <1>1, <1>4, MatchesFacts, GrantBacked
    <2>2. AllAnswered'
      BY <1>1, <1>4, UnseenAnswers
    <2> QED
      BY <1>2, <2>1, <2>2, Assemble
  <1> QED
    BY <1>3, <1>4 DEF GhostExecutes

(* A commit: what was returned becomes the local deadline. *)
LEMMA CommitSafe ==
    ASSUME SInv, TInv', NEW w \in Workers, Commit(w)
    PROVE  SInv'
  <1> DEFINE r == Owner[w]
  <1>1. TInv /\ BeatOK(w) /\ r \in Replicas /\ req[w] = "anchored"
    BY OwnerType DEF SInv, AllBeatsOK, Commit
  <1>2. rem[w] # None
    BY <1>1, TypeParts DEF IoTypes, AnchorsLease
  <1>3. tx # None /\ tx.by = w /\ row # None /\ row.leader = r /\ rem[w] <= row.left
    BY <1>2 DEF SInv, AllAnswered, Answered
  <1>4. tx' = None /\ row' = row /\ mode' = mode /\ stopped' = stopped
    BY DEF Commit, process
  <1>5. /\ req'[w] = "none" /\ rem'[w] = None
        /\ \A u \in Workers \ {w} : req'[u] = req[u] /\ rem'[u] = rem[u]
    BY <1>1, TypeParts DEF Commit, IoTypes
  <1>6. LocalIo(w)
    BY <1>4, <1>5 DEF LocalIo
  <1>7. /\ lease_deadline'[r] = rem[w]
        /\ \A q \in Replicas : q # r => lease_deadline'[q] = lease_deadline[q]
    BY <1>1, TypeParts DEF Commit, anchored_deadline, SharedTypes
  <1>8. /\ LocalBeat(w) /\ hb'[w] = "check" /\ hb_deadline'[w] = rem[w] /\ body'[w] # "none"
    <2>1. CASE StartBody(w, anchored_deadline(w))
      <3>1. StartBody(w, rem[w])
        BY <2>1 DEF anchored_deadline
      <3> QED
        BY <1>1, <3>1, StartFacts
    <2>2. CASE /\ Renewing(w) /\ hb' = [hb EXCEPT ![w] = "check"]
               /\ hb_deadline' = [hb_deadline EXCEPT ![w] = anchored_deadline(w)]
               /\ UNCHANGED <<is_leader, timer, work>>
      <3>1. body[w] # "none"
        BY <1>1, <2>2 DEF BeatOK, Renewing
      <3> QED
        BY <1>1, <2>2, <3>1, TypeParts DEF anchored_deadline, LocalBeat, BeatTypes, work
    <2> QED
      BY <2>1, <2>2 DEF Commit
  <1>9. AllBeatsOK'
    BY <1>5, <1>6, <1>8, CalmBeat, BeatsKept
  <1>10. AllQuiet'
    BY <1>1, <1>4, <1>6, <1>7, <1>8, BusyReplica, QuietKept
  <1>11. AllAnswered'
    <2>1. EndsOwnTx(w)
      BY <1>3, <1>4 DEF EndsOwnTx
    <2> QED
      BY <1>5, <1>6, <2>1, AnsweredKept DEF KeepsAnswer
  <1>12. SupportsNext(row)
    <2>1. Supports(row) /\ Backs(row, r, rem[w])
      BY <1>3 DEF SInv, LeaseBacked, Backs
    <2>2. \A q \in Replicas : Backs(row, q, lease_deadline'[q])
      BY <1>7, <2>1 DEF Supports
    <2>3. \A u \in Workers : hb'[u] # "off" => Backs(row, Owner[u], hb_deadline'[u])
      BY <1>8, <2>1 DEF Supports, LocalBeat
    <2> QED
      BY <2>2, <2>3 DEF SupportsNext
  <1> QED
    BY <1>4, <1>9, <1>10, <1>11, <1>12, BackedNext, Assemble

-----------------------------------------------------------------------------
(* Safety: shutdown, crashes and time. *)

(* The keeper starts, or renews the row for its replica. *)
LEMMA KeeperSafe ==
    ASSUME SInv, TInv', NEW r \in Replicas, start_release_keeper(r) \/ renew_lease_row(r)
    PROVE  SInv'
  <1>1. CASE start_release_keeper(r)
    <2>1. /\ UNCHANGED <<beats, lease_deadline>> /\ UNCHANGED <<stopped, req, rem, db>>
          /\ mode[r] = "up" /\ mode' = [mode EXCEPT ![r] = "closing"] /\ TInv
      BY <1>1 DEF start_release_keeper, beats, heartbeat, shared, work, io, SInv
    <2>2. \A q \in Replicas : mode'[q] \in {"releasing", "down"} => mode[q] \in {"releasing", "down"}
      BY <2>1, TypeParts DEF ProcessTypes
    <2>3. AllQuiet'
      BY <2>1, <2>2 DEF SInv, AllQuiet, Quiet, WorkersOf, beats
    <2> QED
      BY <2>1, <2>3, Still, Assemble
  <1>2. CASE renew_lease_row(r)
    <2>1. /\ UNCHANGED <<beats, lease_deadline>> /\ UNCHANGED <<mode, stopped, req, rem>>
          /\ tx = None /\ tx' = None /\ TInv
      BY <1>2 DEF renew_lease_row, beats, heartbeat, shared, work, SInv
    <2>2. AllBeatsOK' /\ AllQuiet' /\ AllAnswered'
      BY <2>1, Still, UnseenAnswers
    <2>3. CASE row' = row
      BY <2>1, <2>2, <2>3, Still, Assemble DEF db
    <2>4. CASE renew_matches(r) /\ row' = [row EXCEPT !.left = TTL]
      <3>1. row \in Row /\ row.leader = r
        BY <2>1, <2>4, TypeParts DEF renew_matches, DbTypes
      <3>2. row' = [leader |-> r, left |-> TTL]
        BY <2>4, <3>1 DEF Row
      <3>3. LeaseBacked'
        BY <2>1, <3>1, <3>2, GrantBacked
      <3> QED
        BY <2>2, <3>3, Assemble
    <2> QED
      BY <1>2, <2>3, <2>4 DEF renew_lease_row
  <1> QED
    BY <1>1, <1>2

(* The release begins: the replica has nothing left to lose. *)
LEMMA ReleaseSafe ==
    ASSUME SInv, TInv', NEW r \in Replicas, release(r)
    PROVE  SInv'
  <1>1. /\ UNCHANGED beats /\ UNCHANGED <<stopped, req, rem, db>>
        /\ mode' = [mode EXCEPT ![r] = "releasing"] /\ TInv /\ Demote(r)
    BY DEF release, beats, heartbeat, work, io, SInv
  <1>2. AllBeatsOK' /\ AllAnswered'
    BY <1>1 DEF SInv, AllBeatsOK, BeatOK, AllAnswered, Answered, beats, db
  <1>3. /\ lease_deadline'[r] = None
        /\ \A q \in Replicas : lease_deadline'[q] \in {lease_deadline[q], None}
    BY <1>1, TypeParts DEF Demote, SharedTypes
  <1>4. LeaseBacked'
    <2>1. \A x : Supports(x) => SupportsNext(x)
      BY <1>1, <1>3 DEF Supports, SupportsNext, Backs, beats
    <2> QED
      BY <1>1, <2>1, BackedNext DEF SInv, LeaseBacked, db
  <1>5. \A w \in WorkersOf(r) : hb[w] = "off" /\ req[w] = "none" /\ body[w] = "none"
    <2> SUFFICES ASSUME NEW w \in WorkersOf(r)
                 PROVE  hb[w] = "off" /\ req[w] = "none" /\ body[w] = "none"
      OBVIOUS
    <2>1. w \in Workers /\ w \in stopped /\ body[w] = "none"
      BY DEF release, WorkersOf
    <2>2. BeatOK(w)
      BY <2>1 DEF SInv, AllBeatsOK
    <2> QED
      BY <2>1, <2>2 DEF BeatOK
  <1>6. AllQuiet'
    <2> SUFFICES ASSUME NEW q \in Replicas, mode'[q] \in {"releasing", "down"}
                 PROVE  /\ lease_deadline'[q] = None
                        /\ \A u \in WorkersOf(q) : hb[u] = "off" /\ req[u] = "none" /\ body[u] = "none"
      BY <1>1 DEF AllQuiet, Quiet, WorkersOf, beats
    <2>1. CASE q = r
      BY <1>3, <1>5, <2>1
    <2>2. CASE q # r
      <3>1. mode[q] \in {"releasing", "down"}
        BY <1>1, <2>2, TypeParts DEF ProcessTypes
      <3> QED
        BY <1>3, <3>1 DEF SInv, AllQuiet, Quiet
    <2> QED
      BY <2>1, <2>2
  <1> QED
    BY <1>2, <1>4, <1>6, Assemble

(* The row is deleted: no deadline needed it. *)
LEMMA ReleaseRowSafe ==
    ASSUME SInv, TInv', NEW r \in Replicas, release_row(r)
    PROVE  SInv'
  <1>1. /\ UNCHANGED <<beats, lease_deadline>> /\ UNCHANGED <<stopped, req, rem>>
        /\ mode[r] = "releasing" /\ mode' = [mode EXCEPT ![r] = "down"]
        /\ tx = None /\ tx' = None /\ TInv
    BY DEF release_row, beats, heartbeat, shared, work, SInv
  <1>2. AllBeatsOK' /\ AllAnswered'
    BY <1>1, Still, UnseenAnswers
  <1>3. \A q \in Replicas : mode'[q] \in {"releasing", "down"} => mode[q] \in {"releasing", "down"}
    BY <1>1, TypeParts DEF ProcessTypes
  <1>4. AllQuiet'
    BY <1>1, <1>3 DEF SInv, AllQuiet, Quiet, WorkersOf, beats
  <1>5. Supports(row)
    BY DEF SInv, LeaseBacked
  <1>6. LeaseBacked'
    <2>1. CASE row' = row
      BY <1>1, <2>1, Still DEF db
    <2>2. CASE row # None /\ row.leader = r /\ row' = None
      <3>1. Quiet(r) /\ lease_deadline[r] = None
        BY <1>1 DEF SInv, AllQuiet, Quiet
      <3>2. \A q \in Replicas : Backs(None, q, lease_deadline[q])
        <4>1. \A q \in Replicas : Backs(row, q, lease_deadline[q])
          BY <1>5 DEF Supports
        <4> QED
          BY <2>2, <3>1, <4>1 DEF Backs
      <3>3. ASSUME NEW w \in Workers, hb[w] # "off" PROVE Backs(None, Owner[w], hb_deadline[w])
        <4>1. Owner[w] # r
          BY <1>1, <3>1, <3>3 DEF Quiet, WorkersOf
        <4>2. Backs(row, Owner[w], hb_deadline[w])
          BY <1>5, <3>3 DEF Supports
        <4> QED
          BY <2>2, <4>1, <4>2 DEF Backs
      <3>4. SupportsNext(None)
        BY <1>1, <3>2, <3>3 DEF SupportsNext, beats
      <3> QED
        BY <1>1, <2>2, <3>4, BackedNext
    <2> QED
      BY <2>1, <2>2 DEF release_row
  <1> QED
    BY <1>2, <1>4, <1>6, Assemble

(* A process is killed. *)
LEMMA CrashSafe ==
    ASSUME SInv, TInv', NEW r \in Replicas, Crash(r)
    PROVE  SInv'
  <1>1. TInv /\ mode' = [mode EXCEPT ![r] = "down"] /\ Demote(r) /\ stopped' = stopped
    BY DEF SInv, Crash
  <1>2. \A w \in Workers :
            /\ Owner[w] = r => /\ body'[w] = "none" /\ hb'[w] = "off" /\ hb_deadline'[w] = 0 /\ timer'[w] = 0
                               /\ req'[w] = "none" /\ rem'[w] = None
            /\ Owner[w] # r => /\ body'[w] = body[w] /\ hb'[w] = hb[w] /\ hb_deadline'[w] = hb_deadline[w]
                               /\ timer'[w] = timer[w] /\ req'[w] = req[w] /\ rem'[w] = rem[w]
    BY DEF Crash, Cleared
  <1>3. /\ lease_deadline'[r] = None
        /\ \A q \in Replicas : lease_deadline'[q] \in {lease_deadline[q], None}
    BY <1>1, TypeParts DEF Demote, SharedTypes
  <1>4. \A x : Supports(x) => SupportsNext(x)
    BY <1>2, <1>3 DEF Supports, SupportsNext, Backs
  <1>5. \/ tx # None /\ Owner[tx.by] = r /\ tx' = None /\ row' \in {row, tx.old}
        \/ row' = row /\ tx' = tx
    BY DEF Crash, db
  <1>6. LeaseBacked'
    <2>1. Supports(row) /\ (tx # None => Supports(tx.old))
      BY DEF SInv, LeaseBacked
    <2> QED
      BY <1>4, <1>5, <2>1, BackedNext
  <1>7. AllBeatsOK'
    <2> SUFFICES ASSUME NEW w \in Workers PROVE BeatOK(w)'
      BY DEF AllBeatsOK
    <2>1. BeatOK(w)
      BY DEF SInv, AllBeatsOK
    <2>2. CASE Owner[w] = r
      BY <1>2, <2>2 DEF BeatOK
    <2>3. CASE Owner[w] # r
      BY <1>1, <1>2, <2>1, <2>3 DEF BeatOK
    <2> QED
      BY <2>2, <2>3
  <1>8. AllAnswered'
    <2> SUFFICES ASSUME NEW w \in Workers PROVE Answered(w)'
      BY DEF AllAnswered
    <2>1. Answered(w)
      BY DEF SInv, AllAnswered
    <2>2. CASE Owner[w] = r
      BY <1>2, <2>2 DEF Answered
    <2>3. CASE Owner[w] # r
      BY <1>2, <1>5, <2>1, <2>3 DEF Answered
    <2> QED
      BY <2>2, <2>3
  <1>9. AllQuiet'
    <2> SUFFICES ASSUME NEW q \in Replicas, mode'[q] \in {"releasing", "down"}
                 PROVE  /\ lease_deadline'[q] = None
                        /\ \A u \in Workers : Owner[u] = q => hb'[u] = "off" /\ req'[u] = "none" /\ body'[u] = "none"
      BY DEF AllQuiet, Quiet, WorkersOf
    <2>1. CASE q = r
      BY <1>2, <1>3, <2>1
    <2>2. CASE q # r
      <3>1. mode[q] \in {"releasing", "down"}
        BY <1>1, <2>2, TypeParts DEF ProcessTypes
      <3>2. Quiet(q)
        BY DEF SInv, AllQuiet
      <3> QED
        BY <1>2, <1>3, <2>2, <3>1, <3>2 DEF Quiet, WorkersOf
    <2> QED
      BY <2>1, <2>2
  <1> QED
    BY <1>6, <1>7, <1>8, <1>9, Assemble

(* A row covers as much after time has passed as it did before. *)
LEMMA PastBacks ==
    ASSUME NEW x \in Row \cup {None}, NEW r \in Replicas, NEW t \in Time \cup {None}, Backs(x, r, t)
    PROVE  Backs(PastRow(x), r, Past(t))
  <1>1. CASE t = None
    BY <1>1 DEF Past, Backs
  <1>2. CASE t # None
    <2>1. t \in Time /\ Past(t) \in Time /\ t \in Int /\ Past(t) \in Int
      BY <1>2, PastFacts, ConstantsAssumption DEF Time
    <2>2. CASE Past(t) >= 0
      <3>1. t >= 1 /\ Past(t) = t - 1
        BY <2>1, <2>2, PastFacts
      <3>2. x # None /\ x.leader = r /\ t <= x.left
        BY <1>2, <2>1, <3>1 DEF Backs
      <3>3. x \in Row /\ x.left \in Int
        BY <3>2, ConstantsAssumption DEF Row, Time
      <3>4. Past(x.left) = x.left - 1
        BY <2>1, <3>1, <3>2, <3>3, ConstantsAssumption DEF Past
      <3>5. PastRow(x) # None /\ PastRow(x).leader = r /\ PastRow(x).left = x.left - 1
        BY <3>2, <3>3, <3>4, PastRowFacts
      <3> QED
        BY <2>1, <3>1, <3>2, <3>3, <3>5 DEF Backs
    <2>3. CASE ~(Past(t) >= 0)
      BY <2>3 DEF Backs
    <2> QED
      BY <2>2, <2>3
  <1> QED
    BY <1>1, <1>2

(* Time passes.  Only here does it matter that results are read promptly:  *)
(* a lease that was returned and not read does not grow old locally.       *)
LEMMA TickSafe ==
    ASSUME SInv, TInv', PromptResponses, Tick
    PROVE  SInv'
  <1>1. TInv /\ Supports(row) /\ (tx # None => Supports(tx.old))
    BY DEF SInv, LeaseBacked
  <1>2. UNCHANGED <<mode, stopped, body, hb, req>>
    BY DEF Tick
  <1>3. /\ \A r \in Replicas : lease_deadline'[r] = Past(lease_deadline[r])
        /\ \A w \in Workers : hb[w] # "off" => hb_deadline'[w] = Past(hb_deadline[w])
    BY DEF Tick
  <1>4. ASSUME NEW x \in Row \cup {None}, Supports(x) PROVE SupportsNext(PastRow(x))
    <2>1. \A r \in Replicas : Backs(PastRow(x), r, Past(lease_deadline[r]))
      BY <1>1, <1>4, PastBacks, TypeParts DEF Supports, SharedTypes
    <2>2. \A w \in Workers : hb[w] # "off" => Backs(PastRow(x), Owner[w], Past(hb_deadline[w]))
      BY <1>1, <1>4, PastBacks, TypeParts, OwnerType DEF Supports, BeatTypes
    <2> QED
      BY <1>2, <1>3, <2>1, <2>2 DEF SupportsNext
  <1>5. LeaseBacked'
    <2>1. row \in Row \cup {None} /\ row' = PastRow(row)
      BY <1>1, TypeParts DEF DbTypes, Tick
    <2>2. tx' # None => tx # None /\ tx.old \in Row \cup {None} /\ tx'.old = PastRow(tx.old)
      <3>1. CASE tx = None
        BY <3>1 DEF Tick
      <3>2. CASE tx # None
        <4>1. tx \in [by : Workers, old : Row \cup {None}]
          BY <1>1, <3>2, TypeParts DEF DbTypes
        <4>2. tx' = [tx EXCEPT !.old = PastRow(tx.old)]
          BY <3>2 DEF Tick
        <4> QED
          BY <3>2, <4>1, <4>2
      <3> QED
        BY <3>1, <3>2
    <2> QED
      BY <1>1, <1>4, <2>1, <2>2, BackedNext
  <1>6. AllBeatsOK'
    <2> SUFFICES ASSUME NEW w \in Workers PROVE BeatOK(w)'
      BY DEF AllBeatsOK
    <2>1. BeatOK(w) /\ ~TimerDue(w)
      BY DEF SInv, AllBeatsOK, Tick
    <2>2. /\ timer[w] \in Nat /\ hb_deadline[w] \in Int
          /\ hb_deadline[w] \in Time
      BY <1>1, TypeParts, ConstantsAssumption DEF BeatTypes, Intervals, Time
    <2>3. hb[w] \in {"sleep", "renew"} =>
              timer'[w] = timer[w] - 1 /\ hb_deadline'[w] = hb_deadline[w] - 1
      <3> SUFFICES ASSUME hb[w] \in {"sleep", "renew"}
                   PROVE  timer'[w] = timer[w] - 1 /\ hb_deadline'[w] = hb_deadline[w] - 1
        OBVIOUS
      <3>1. timer[w] > 0 /\ hb_deadline[w] > 0
        BY <2>1, <2>2 DEF TimerDue, BeatOK
      <3>2. timer[w] # None /\ hb_deadline[w] # None
        BY <2>2, ConstantsAssumption
      <3>3. timer'[w] = Down(timer[w]) /\ hb_deadline'[w] = Past(hb_deadline[w])
        BY DEF Tick
      <3> QED
        BY <2>2, <3>1, <3>2, <3>3 DEF Down, Past
    <2> QED
      BY <1>2, <2>1, <2>2, <2>3 DEF BeatOK
  <1>7. AllAnswered'
    <2> SUFFICES ASSUME NEW w \in Workers, rem'[w] # None PROVE Answered(w)'
      BY DEF AllAnswered, Answered
    <2>1. Answered(w) /\ req[w] # "executed"
      BY DEF SInv, AllAnswered, Tick, TimerDue
    <2>2. rem[w] # None
      BY DEF Tick, Past
    <2>3. /\ req[w] = "anchored" /\ tx # None /\ tx.by = w
          /\ row # None /\ row.leader = Owner[w] /\ rem[w] <= row.left
      BY <2>1, <2>2 DEF Answered
    <2>4. rem'[w] = Past(rem[w]) /\ rem[w] \in Time
      BY <1>1, <2>2, <2>3, TypeParts DEF Tick, IoTypes
    <2>5. row \in Row
      BY <1>1, <2>3, TypeParts DEF DbTypes
    <2>6. row' # None /\ row'.leader = Owner[w] /\ row'.left = Past(row.left) /\ row.left \in Time
      BY <2>3, <2>5, PastRowFacts DEF Tick
    <2>7. Past(rem[w]) <= Past(row.left)
      BY <2>3, <2>4, <2>6, ConstantsAssumption DEF Past, Time
    <2>8. tx' # None /\ tx'.by = w
      <3>1. tx \in [by : Workers, old : Row \cup {None}]
        BY <1>1, <2>3, TypeParts DEF DbTypes
      <3>2. tx' = [tx EXCEPT !.old = PastRow(tx.old)]
        BY <2>3 DEF Tick
      <3>3. tx' = [by |-> w, old |-> PastRow(tx.old)] /\ PastRow(tx.old) \in Row \cup {None}
        BY <2>3, <3>1, <3>2, PastRowFacts
      <3> QED
        BY <3>3, TxFacts
    <2> QED
      BY <1>2, <2>3, <2>4, <2>6, <2>7, <2>8 DEF Answered
  <1>8. AllQuiet'
    <2>1. \A r \in Replicas : lease_deadline[r] = None => lease_deadline'[r] = None
      BY <1>3 DEF Past
    <2> QED
      BY <1>2, <2>1 DEF SInv, AllQuiet, Quiet, WorkersOf
  <1> QED
    BY <1>5, <1>6, <1>7, <1>8, Assemble

(* The invariant holds of the initial states. *)
LEMMA InitSafe == Init => SInv
  <1> SUFFICES ASSUME Init PROVE SInv
    OBVIOUS
  <1>1. TInv
    BY InitTypes
  <1>2. LeaseBacked
    BY DEF Init, LeaseBacked, Supports, Backs
  <1>3. AllAnswered /\ AllBeatsOK
    BY DEF Init, AllAnswered, Answered, AllBeatsOK, BeatOK
  <1>4. AllQuiet
    BY DEF Init, AllQuiet, Quiet
  <1> QED
    BY <1>1, <1>2, <1>3, <1>4 DEF SInv

(* Every step keeps the invariant. *)
LEMMA SafePreserved == PromptResponses /\ SInv /\ [Next]_vars => SInv'
  <1> SUFFICES ASSUME PromptResponses, SInv, [Next]_vars PROVE SInv'
    OBVIOUS
  <1>1. TInv'
    BY TypesPreserved DEF SInv
  <1>2. ASSUME NEW w \in Workers, WorkerStep(w) PROVE SInv'
    <2>1. CASE BodyExits(w) \/ Detach(w)
      <3>1. body[w] # "none" /\ EndRun(w)
        BY <2>1 DEF BodyExits, Detach
      <3> QED
        BY <1>1, <3>1, EndRunSafe
    <2> QED
      BY <1>1, <1>2, <2>1, AcquireSafe, ExecuteSafe, ReadSafe, CommitSafe, ErrorSafe, CheckSafe,
         RenewSafe, TimeoutSafe, DetachedSafe, GhostSafe, StopSafe
      DEF WorkerStep
  <1>3. ASSUME NEW r \in Replicas, ReplicaStep(r) PROVE SInv'
    BY <1>1, <1>3, KeeperSafe, ReleaseSafe, ReleaseRowSafe, CrashSafe DEF ReplicaStep
  <1>4. CASE Tick
    BY <1>1, <1>4, TickSafe
  <1>5. CASE UNCHANGED vars
    <2>1. UNCHANGED <<beats, lease_deadline>> /\ UNCHANGED <<req, rem, mode, stopped, db>>
      BY <1>5 DEF vars, beats, heartbeat, shared, io, process, work
    <2> QED
      BY <1>1, <2>1, Still, Assemble
  <1> QED
    BY <1>2, <1>3, <1>4, <1>5 DEF Next

(* What the invariant says of a running body and of a leader. *)
LEMMA WithinLease == SInv => LeaderStaysWithinLease
  <1> SUFFICES ASSUME SInv PROVE LeaderStaysWithinLease
    OBVIOUS
  <1>1. TInv /\ Supports(row)
    BY DEF SInv, LeaseBacked
  <1>2. RunningOwnsLease
    <2> SUFFICES ASSUME NEW w \in Workers, body[w] = "running", hb[w] # "check"
                 PROVE  HoldsLease(Owner[w])
      BY DEF RunningOwnsLease
    <2>1. BeatOK(w) /\ Backs(row, Owner[w], hb_deadline[w]) /\ hb[w] \in {"sleep", "renew"}
      BY <1>1, TypeParts DEF SInv, AllBeatsOK, BeatOK, Supports, BeatTypes
    <2>2. timer[w] \in Nat /\ hb_deadline[w] \in Int /\ hb_deadline[w] # None
      BY <1>1, TypeParts, ConstantsAssumption DEF BeatTypes, Intervals, Time
    <2>3. hb_deadline[w] >= 0
      BY <2>1, <2>2 DEF BeatOK
    <2>4. row # None /\ row.leader = Owner[w] /\ hb_deadline[w] <= row.left
      BY <2>1, <2>2, <2>3 DEF Backs
    <2>5. row.left \in Int
      BY <1>1, <2>4, TypeParts, ConstantsAssumption DEF DbTypes, Row, Time
    <2> QED
      BY <2>2, <2>3, <2>4, <2>5 DEF HoldsLease
  <1>3. DeadlineWithinLease
    <2> SUFFICES ASSUME NEW r \in Replicas, lease_deadline[r] # None, lease_deadline[r] > 0
                 PROVE  row # None /\ row.leader = r /\ lease_deadline[r] <= row.left
      BY DEF DeadlineWithinLease
    <2>1. Backs(row, r, lease_deadline[r]) /\ lease_deadline[r] \in Int
      BY <1>1, TypeParts, ConstantsAssumption DEF Supports, SharedTypes, Time
    <2> QED
      BY <2>1 DEF Backs
  <1> QED
    BY <1>2, <1>3 DEF LeaderStaysWithinLease

(* When results are read as they arrive, no replica believes itself the    *)
(* leader past the lease the database granted it, and no gated body runs   *)
(* past it once its heartbeat has looked: try_acquire and renew anchor the *)
(* local deadline at the reading, and the heartbeat's sleep and time-box   *)
(* end before it.                                                          *)
THEOREM LeaderWithinLease ==
    ASSUME PromptResponses
    PROVE  Spec => []LeaderStaysWithinLease
  <1>1. Init => SInv
    BY InitSafe
  <1>2. SInv /\ [Next]_vars => SInv'
    BY SafePreserved
  <1>3. SInv => LeaderStaysWithinLease
    BY WithinLease
  <1> QED
    BY <1>1, <1>2, <1>3, PTL DEF Spec

(* Then a body that runs uncancelled owns the lease, on one replica only,  *)
(* through database errors, crashes and statements that take effect late.  *)
THEOREM OneRunningLeader ==
    ASSUME PromptResponses
    PROVE  Spec => []RunningOwnsLease
  <1>1. LeaderStaysWithinLease => RunningOwnsLease
    BY DEF LeaderStaysWithinLease
  <1> QED
    BY <1>1, LeaderWithinLease, PTL

-----------------------------------------------------------------------------
(* Draining.  The lease of a body that a scheduler stop cancelled is held  *)
(* by its own heartbeat while run_if_leader waits for it, and by the       *)
(* keeper and the release drain after it was left behind.  What is needed  *)
(* for the handover is that the keeper is never later than the lease, and  *)
(* that the lease was renewed before the grace is over.                    *)

Going(r) == mode[r] \in {"closing", "releasing"}

(* The bodies that the keeper has to hold the lease for. *)
Needs(w) == detached[w] = "graceful" \/ (graceful[w] /\ grace[w] < CancelGrace)

Covered(x) ==
    /\ \A r \in Replicas : Going(r) /\ x # None =>
           (x.leader = r => (x.left > 0 => keeper[r] < x.left))
    /\ \A w \in Workers : Going(Owner[w]) /\ Needs(w) =>
           x # None /\ x.leader = Owner[w] /\ x.left > 0

CoveredNext(x) ==
    /\ \A r \in Replicas : Going(r)' /\ x # None =>
           (x.leader = r => (x.left > 0 => keeper'[r] < x.left))
    /\ \A w \in Workers : (Going(Owner[w]) /\ Needs(w))' =>
           x # None /\ x.leader = Owner[w] /\ x.left > 0

LeaseCovered == errors = 0 => Covered(row) /\ (tx # None => Covered(tx.old))

(* A heartbeat's deadline has not passed. *)
HbAhead == \A w \in Workers : hb[w] # "off" => hb_deadline[w] >= 0

(* With prompt answers and commits no transaction lasts. *)
FreshAnswers ==
    /\ \A w \in Workers : rem[w] # None => rem[w] = TTL
    /\ tx # None => rem[tx.by] # None

(* A gracefully cancelled body has a heartbeat and a keeper. *)
GraceOf(w) ==
    /\ graceful[w] => hb[w] # "off" /\ body[w] = "cancelling"
    /\ graceful[w] \/ detached[w] = "graceful" => mode[Owner[w]] # "up"
GraceShape ==
    /\ \A w \in Workers : GraceOf(w)
    /\ \A r \in Replicas : Going(r) => keeper[r] # None

DInv == SInv /\ LeaseCovered /\ HbAhead /\ FreshAnswers /\ GraceShape

(* The next values make up the next invariant. *)
LEMMA AssembleDrain == SInv' /\ LeaseCovered' /\ HbAhead' /\ FreshAnswers' /\ GraceShape' => DInv'
  BY DEF DInv

(* What has to be covered after a step. *)
LEMMA CoveredAfter ==
    ASSUME errors' = 0 => CoveredNext(row') /\ (tx' # None => CoveredNext((tx.old)'))
    PROVE  LeaseCovered'
  BY DEF LeaseCovered, Covered, CoveredNext

(* How a step of worker w may treat the bodies that drain: it cancels its  *)
(* own gracefully, keeps it or leaves it behind.                           *)
GraceStep(w) ==
    /\ \A u \in Workers \ {w} :
           graceful'[u] = graceful[u] /\ grace'[u] = grace[u] /\ detached'[u] = detached[u]
    /\ graceful'[w] => /\ hb'[w] # "off" /\ body'[w] = "cancelling"
                       /\ \/ graceful[w] /\ grace'[w] = grace[w]
                          \/ grace'[w] = CancelGrace /\ mode[Owner[w]] # "up"
    /\ detached'[w] = "graceful" => Needs(w)

(* A step that gives up the transaction of w, if there is one. *)
GivesUpTx(w) == EndsOwnTx(w) \/ (UNCHANGED db /\ ~(tx # None /\ tx.by = w))

(* Such a step adds no body to the keeper's charge. *)
LEMMA GraceKept ==
    ASSUME DInv, NEW w \in Workers, LocalBeat(w), GraceStep(w), UNCHANGED <<mode, keeper>>
    PROVE  /\ GraceShape'
           /\ \A x : Covered(x) => CoveredNext(x)
  <1>1. TInv /\ GraceShape
    BY DEF DInv, SInv
  <1>2. \A u \in Workers : Needs(u)' => Needs(u)
    <2>1. \A u \in Workers \ {w} : Needs(u)' => Needs(u)
      BY DEF GraceStep, Needs
    <2>2. Needs(w)' => Needs(w)
      BY ConstantsAssumption DEF GraceStep, Needs
    <2> QED
      BY <2>1, <2>2
  <1>3. \A r \in Replicas : Going(r)' <=> Going(r)
    BY DEF Going
  <1>4. \A x : Covered(x) => CoveredNext(x)
    <2> SUFFICES ASSUME NEW x, Covered(x) PROVE CoveredNext(x)
      OBVIOUS
    <2>1. \A r \in Replicas : Going(r)' /\ x # None =>
              (x.leader = r => (x.left > 0 => keeper'[r] < x.left))
      BY <1>3 DEF Covered
    <2>2. \A u \in Workers : (Going(Owner[u]) /\ Needs(u))' =>
              x # None /\ x.leader = Owner[u] /\ x.left > 0
      BY <1>2, OwnerType DEF Covered, Going
    <2> QED
      BY <2>1, <2>2 DEF CoveredNext
  <1>5. \A u \in Workers \ {w} : GraceOf(u)'
    BY <1>1 DEF GraceShape, GraceOf, GraceStep, LocalBeat
  <1>6. GraceOf(w)'
    <2>1. GraceOf(w)
      BY <1>1 DEF GraceShape
    <2> QED
      BY <2>1 DEF GraceOf, GraceStep, Needs
  <1>7. \A r \in Replicas : Going(r)' => keeper'[r] # None
    BY <1>1, <1>3 DEF GraceShape
  <1> QED
    BY <1>4, <1>5, <1>6, <1>7 DEF GraceShape

(* The heartbeats of the others are as far ahead as they were. *)
LEMMA AheadKept ==
    ASSUME DInv, NEW w \in Workers, LocalBeat(w), hb'[w] # "off" => hb_deadline'[w] >= 0
    PROVE  HbAhead'
  BY DEF DInv, HbAhead, LocalBeat

(* Answers are kept or given up with their transaction. *)
LEMMA FreshKept ==
    ASSUME DInv, NEW w \in Workers, LocalIo(w),
           \/ UNCHANGED db /\ rem'[w] = rem[w]
           \/ GivesUpTx(w) /\ rem'[w] = None
    PROVE  FreshAnswers'
  <1>1. FreshAnswers /\ TInv
    BY DEF DInv, SInv
  <1>2. \A u \in Workers : rem'[u] # None => rem'[u] = TTL
    BY <1>1 DEF FreshAnswers, LocalIo
  <1>3. ASSUME tx' # None PROVE rem'[tx'.by] # None
    <2>1. tx' = tx
      BY <1>3 DEF GivesUpTx, EndsOwnTx, db
    <2>2. tx.by \in Workers
      BY <1>1, <1>3, <2>1, TypeParts DEF DbTypes
    <2>3. rem[tx.by] # None
      BY <1>1, <1>3, <2>1 DEF FreshAnswers
    <2> QED
      BY <1>3, <2>1, <2>2, <2>3 DEF LocalIo, GivesUpTx, EndsOwnTx
  <1> QED
    BY <1>2, <1>3 DEF FreshAnswers

(* A worker's step as a whole. *)
LEMMA WorkerDrains ==
    ASSUME DInv, SInv', NEW w \in Workers, LocalBeat(w), LocalIo(w), GraceStep(w),
           UNCHANGED <<mode, keeper>>, hb'[w] # "off" => hb_deadline'[w] >= 0,
           \/ UNCHANGED db /\ rem'[w] = rem[w]
           \/ GivesUpTx(w) /\ rem'[w] = None,
           errors' = 0 => errors = 0
    PROVE  DInv'
  <1>1. GraceShape' /\ HbAhead' /\ FreshAnswers'
    BY GraceKept, AheadKept, FreshKept
  <1>2. \A x : Covered(x) => CoveredNext(x)
    BY GraceKept
  <1>3. LeaseCovered'
    <2>1. CASE UNCHANGED db
      BY <1>2, <2>1, CoveredAfter DEF DInv, LeaseCovered, db
    <2>2. CASE EndsOwnTx(w)
      BY <1>2, <2>2, CoveredAfter DEF DInv, LeaseCovered, EndsOwnTx
    <2> QED
      BY <2>1, <2>2 DEF GivesUpTx
  <1> QED
    BY <1>1, <1>3, AssembleDrain

-----------------------------------------------------------------------------
(* Draining: the actions of a worker. *)

(* The parts of a worker's step leave the other workers alone. *)
LEMMA RenewFailedLocal ==
    ASSUME TInv, NEW w \in Workers, RenewFailed(w)
    PROVE  LocalBeat(w)
  <1>1. CASE LeaseLost(w)
    BY <1>1, LostFacts
  <1>2. CASE hb' = [hb EXCEPT ![w] = "check"] /\ UNCHANGED <<work, hb_deadline, timer>>
    BY <1>2, TypeParts DEF LocalBeat, BeatTypes, work
  <1>3. CASE /\ hb' = [hb EXCEPT ![w] = "check"] /\ UNCHANGED <<work, timer>>
             /\ hb_deadline' = [hb_deadline EXCEPT ![w] = lease_deadline[Owner[w]]]
    BY <1>3, TypeParts DEF LocalBeat, BeatTypes, work
  <1> QED
    BY <1>1, <1>2, <1>3 DEF RenewFailed

(* And so does the whole step. *)
LEMMA WorkerIsLocal ==
    ASSUME TInv, NEW w \in Workers, WorkerStep(w)
    PROVE  LocalBeat(w) /\ LocalIo(w)
  <1>1. CASE try_acquire(w) \/ Execute(w) \/ GhostExecutes(w) \/ DetachedExits(w)
    <2>1. LocalBeat(w)
      BY <1>1 DEF try_acquire, Execute, GhostExecutes, DetachedExits, LocalBeat, work, heartbeat
    <2>2. LocalIo(w)
      BY <1>1, TypeParts
      DEF try_acquire, Execute, GhostExecutes, DetachedExits, LocalIo, process, io, IoTypes
    <2> QED
      BY <2>1, <2>2
  <1>2. CASE ReadResult(w)
    <2>1. LocalBeat(w)
      BY <1>2, LostFacts DEF ReadResult, LocalBeat, work, heartbeat
    <2>2. LocalIo(w)
      BY <1>2, TypeParts DEF ReadResult, LocalIo, process, IoTypes
    <2> QED
      BY <2>1, <2>2
  <1>3. CASE Commit(w)
    <2>1. LocalBeat(w)
      <3>1. CASE StartBody(w, anchored_deadline(w))
        BY <3>1, StartFacts
      <3>2. CASE /\ hb' = [hb EXCEPT ![w] = "check"]
                 /\ hb_deadline' = [hb_deadline EXCEPT ![w] = anchored_deadline(w)]
                 /\ UNCHANGED <<is_leader, timer, work>>
        BY <3>2, TypeParts DEF LocalBeat, BeatTypes, work
      <3> QED
        BY <1>3, <3>1, <3>2 DEF Commit
    <2>2. LocalIo(w)
      BY <1>3, TypeParts DEF Commit, LocalIo, process, IoTypes
    <2> QED
      BY <2>1, <2>2
  <1>4. CASE DatabaseError(w)
    <2>1. LocalBeat(w)
      BY <1>4, RenewFailedLocal, StartFacts DEF DatabaseError, LocalBeat, work, heartbeat
    <2>2. LocalIo(w)
      BY <1>4, TypeParts DEF DatabaseError, LocalIo, process, IoTypes
    <2> QED
      BY <2>1, <2>2
  <1>5. CASE HeartbeatCheck(w)
    <2>1. LocalBeat(w)
      <3>1. CASE LeaseLost(w)
        BY <3>1, LostFacts
      <3>2. CASE \E d, t : /\ hb' = [hb EXCEPT ![w] = "sleep"]
                           /\ hb_deadline' = [hb_deadline EXCEPT ![w] = d]
                           /\ timer' = [timer EXCEPT ![w] = t]
                           /\ UNCHANGED work
        BY <3>2, TypeParts DEF LocalBeat, BeatTypes, work
      <3> QED
        BY <1>5, <3>1, <3>2 DEF HeartbeatCheck
    <2>2. LocalIo(w)
      BY <1>5 DEF HeartbeatCheck, LocalIo, process, io
    <2> QED
      BY <2>1, <2>2
  <1>6. CASE HeartbeatRenew(w)
    <2>1. LocalBeat(w)
      <3>1. CASE LeaseLost(w)
        BY <3>1, LostFacts
      <3>2. CASE /\ hb' = [hb EXCEPT ![w] = "renew"]
                 /\ timer' = [timer EXCEPT ![w] = renew_wait(hb_deadline[w])]
                 /\ UNCHANGED <<work, hb_deadline, consecutive_errors>>
        BY <3>2, TypeParts DEF LocalBeat, BeatTypes, work
      <3> QED
        BY <1>6, <3>1, <3>2 DEF HeartbeatRenew
    <2>2. LocalIo(w)
      BY <1>6, TypeParts DEF HeartbeatRenew, LocalIo, process, IoTypes
    <2> QED
      BY <2>1, <2>2
  <1>7. CASE HeartbeatTimeout(w)
    BY <1>7, RenewFailedLocal, AbandonFacts DEF HeartbeatTimeout, LocalIo, process
  <1>8. CASE BodyExits(w) \/ Detach(w)
    <2>1. EndRun(w)
      BY <1>8 DEF BodyExits, Detach
    <2>2. LocalBeat(w)
      BY <2>1, TypeParts DEF EndRun, ForgetHeartbeat, LocalBeat, WorkTypes, BeatTypes
    <2>3. LocalIo(w)
      BY <2>1, AbandonFacts DEF EndRun, LocalIo, process
    <2> QED
      BY <2>2, <2>3
  <1>9. CASE StopScheduler(w)
    <2>1. LocalBeat(w)
      BY <1>9, TypeParts DEF StopScheduler, LocalBeat, WorkTypes, heartbeat
    <2>2. LocalIo(w)
      BY <1>9, AbandonFacts DEF StopScheduler, LocalIo, io
    <2> QED
      BY <2>1, <2>2
  <1> QED
    BY <1>1, <1>2, <1>3, <1>4, <1>5, <1>6, <1>7, <1>8, <1>9 DEF WorkerStep

(* What is lost or starts anew does not drain; the rest drains on. *)
LEMMA GraceParts ==
    ASSUME DInv, NEW w \in Workers
    PROVE  /\ LeaseLost(w) => GraceStep(w)
           /\ \A d : StartBody(w, d) => GraceStep(w)
           /\ UNCHANGED work /\ (hb[w] # "off" => hb'[w] # "off") => GraceStep(w)
  <1>1. TInv /\ GraceOf(w)
    BY DEF DInv, SInv, GraceShape
  <1>2. ASSUME LeaseLost(w) PROVE GraceStep(w)
    BY <1>1, <1>2, TypeParts DEF LeaseLost, GraceStep, Needs, WorkTypes
  <1>3. ASSUME NEW d, StartBody(w, d) PROVE GraceStep(w)
    BY <1>1, <1>3, TypeParts DEF StartBody, GraceStep, Needs, WorkTypes
  <1>4. ASSUME UNCHANGED work, hb[w] # "off" => hb'[w] # "off" PROVE GraceStep(w)
    BY <1>1, <1>4 DEF GraceStep, Needs, GraceOf, work
  <1> QED
    BY <1>2, <1>3, <1>4

(* A failed renewal keeps its heartbeat only with time left. *)
LEMMA RenewFailedDrains ==
    ASSUME DInv, NEW w \in Workers, hb[w] = "renew", RenewFailed(w)
    PROVE  GraceStep(w) /\ (hb'[w] # "off" => hb_deadline'[w] >= 0)
  <1> DEFINE r == Owner[w]
             count == consecutive_errors[w] + 1
             retry == may_retry(count, hb_deadline[w])
             adopt == /\ is_leader[r] /\ lease_deadline[r] # None
                      /\ lease_deadline[r] > hb_deadline[w]
  <1>1. TInv /\ hb_deadline[w] >= 0 /\ hb_deadline[w] \in Int
    BY TypeParts, ConstantsAssumption DEF DInv, SInv, HbAhead, BeatTypes, Time
  <1>2. CASE LeaseLost(w)
    BY <1>1, <1>2, GraceParts, LostFacts
  <1>3. CASE /\ hb' = [hb EXCEPT ![w] = "check"]
             /\ UNCHANGED <<shared, work, hb_deadline, timer>>
    <2>1. hb'[w] = "check" /\ hb_deadline'[w] = hb_deadline[w]
      BY <1>1, <1>3, TypeParts DEF BeatTypes
    <2> QED
      BY <1>1, <1>3, <2>1, GraceParts
  <1>4. CASE /\ adopt
             /\ hb' = [hb EXCEPT ![w] = "check"]
             /\ hb_deadline' = [hb_deadline EXCEPT ![w] = lease_deadline[r]]
             /\ UNCHANGED <<shared, work, timer>>
    <2>1. hb'[w] = "check" /\ hb_deadline'[w] = lease_deadline[r]
      BY <1>1, <1>4, TypeParts DEF BeatTypes
    <2>2. lease_deadline[r] \in Int
      BY <1>1, <1>4, TypeParts, OwnerType, ConstantsAssumption DEF SharedTypes, Time
    <2> QED
      BY <1>1, <1>4, <2>1, <2>2, GraceParts
  <1> QED
    BY <1>2, <1>3, <1>4 DEF RenewFailed

(* A heartbeat that stays as it was is as far ahead as it was. *)
LEMMA SameBeat ==
    ASSUME DInv, NEW w \in Workers, UNCHANGED heartbeat
    PROVE  hb'[w] # "off" => hb_deadline'[w] >= 0
  BY DEF DInv, HbAhead, heartbeat

(* A transaction that is given up. *)
LEMMA EndTxGivesUp ==
    ASSUME NEW w \in Workers, EndTx(w)
    PROVE  GivesUpTx(w)
  BY DEF EndTx, GivesUpTx, EndsOwnTx

(* Statements sent, read and failed. *)
LEMMA StatementDrains ==
    ASSUME DInv, SInv', NEW w \in Workers, try_acquire(w) \/ ReadResult(w) \/ DatabaseError(w)
    PROVE  DInv'
  <1>1. TInv /\ SInv /\ LocalBeat(w) /\ LocalIo(w)
    BY WorkerIsLocal DEF DInv, SInv, WorkerStep
  <1>2. CASE try_acquire(w)
    <2>1. UNCHANGED <<mode, keeper, db, rem, errors, work, heartbeat>>
      BY <1>2 DEF try_acquire, process
    <2>2. GraceStep(w)
      BY <2>1, GraceParts DEF heartbeat
    <2> QED
      BY <1>1, <2>1, <2>2, SameBeat, WorkerDrains
  <1>3. CASE ReadResult(w)
    <2>1. UNCHANGED <<mode, keeper, db, rem, errors>>
      BY <1>3 DEF ReadResult, process
    <2>2. CASE UNCHANGED <<work, heartbeat>>
      <3>1. GraceStep(w)
        BY <2>2, GraceParts DEF heartbeat
      <3> QED
        BY <1>1, <2>1, <2>2, <3>1, SameBeat, WorkerDrains
    <2>3. CASE LeaseLost(w)
      BY <1>1, <2>1, <2>3, GraceParts, LostFacts, WorkerDrains
    <2> QED
      BY <1>3, <2>2, <2>3 DEF ReadResult
  <1>4. CASE DatabaseError(w)
    <2>1. UNCHANGED <<mode, keeper>> /\ GivesUpTx(w) /\ rem'[w] = None
      BY <1>1, <1>4, EndTxGivesUp, TypeParts DEF DatabaseError, process, IoTypes
    <2>2. errors' = 0 => errors = 0
      BY <1>1, <1>4, TypeParts, ConstantsAssumption DEF DatabaseError, IoTypes
    <2>3. GraceStep(w) /\ (hb'[w] # "off" => hb_deadline'[w] >= 0)
      <3>1. CASE Renewing(w) /\ RenewFailed(w)
        BY <3>1, RenewFailedDrains DEF Renewing
      <3>2. CASE may_preserve(Owner[w]) /\ StartBody(w, lease_deadline[Owner[w]])
        <4>1. hb_deadline'[w] = lease_deadline[Owner[w]]
          BY <1>1, <3>2, StartFacts
        <4>2. lease_deadline[Owner[w]] \in Int /\ lease_deadline[Owner[w]] > 0
          BY <1>1, <3>2, TypeParts, OwnerType, ConstantsAssumption DEF may_preserve, SharedTypes, Time
        <4> QED
          BY <3>2, <4>1, <4>2, GraceParts
      <3>3. CASE UNCHANGED <<work, heartbeat>>
        BY <3>3, GraceParts, SameBeat DEF heartbeat
      <3> QED
        BY <1>4, <3>1, <3>2, <3>3 DEF DatabaseError
    <2> QED
      BY <1>1, <2>1, <2>2, <2>3, WorkerDrains
  <1> QED
    BY <1>2, <1>3, <1>4

(* The heartbeat loop. *)
LEMMA HeartbeatDrains ==
    ASSUME DInv, SInv', NEW w \in Workers,
           HeartbeatCheck(w) \/ HeartbeatRenew(w) \/ HeartbeatTimeout(w)
    PROVE  DInv'
  <1>1. TInv /\ SInv /\ LocalBeat(w) /\ LocalIo(w)
    BY WorkerIsLocal DEF DInv, SInv, WorkerStep
  <1>2. CASE HeartbeatCheck(w)
    <2> DEFINE r == Owner[w]
               left == IF lease_deadline[r] # None THEN Max2(hb_deadline[w], lease_deadline[r])
                       ELSE hb_deadline[w]
    <2>1. UNCHANGED <<mode, keeper, db, rem, errors>>
      BY <1>2 DEF HeartbeatCheck, process, io
    <2>2. CASE LeaseLost(w)
      BY <1>1, <2>1, <2>2, GraceParts, LostFacts, WorkerDrains
    <2>3. CASE /\ left > 0
               /\ hb' = [hb EXCEPT ![w] = "sleep"]
               /\ hb_deadline' = [hb_deadline EXCEPT ![w] = left]
               /\ UNCHANGED <<shared, work, consecutive_errors>>
      <3>1. left \in Int
        <4>1. hb_deadline[w] \in Int /\ (lease_deadline[r] # None => lease_deadline[r] \in Int)
          BY <1>1, TypeParts, OwnerType, ConstantsAssumption DEF BeatTypes, SharedTypes, Time
        <4> QED
          BY <4>1 DEF Max2
      <3> HIDE DEF left
      <3>2. hb'[w] = "sleep" /\ hb_deadline'[w] = left
        BY <1>1, <2>3, TypeParts DEF BeatTypes
      <3>3. GraceStep(w) /\ hb_deadline'[w] >= 0
        BY <2>3, <3>1, <3>2, GraceParts
      <3> QED
        BY <1>1, <2>1, <3>3, WorkerDrains
    <2> QED
      BY <1>2, <2>2, <2>3 DEF HeartbeatCheck
  <1>3. CASE HeartbeatRenew(w)
    <2>1. UNCHANGED <<mode, keeper, db, rem, errors>> /\ hb[w] = "sleep"
      BY <1>3 DEF HeartbeatRenew, process
    <2>2. CASE LeaseLost(w)
      BY <1>1, <2>1, <2>2, GraceParts, LostFacts, WorkerDrains
    <2>3. CASE /\ hb' = [hb EXCEPT ![w] = "renew"]
               /\ UNCHANGED <<work, hb_deadline, consecutive_errors>>
      <3>1. hb'[w] = "renew"
        BY <1>1, <2>3, TypeParts DEF BeatTypes
      <3>2. GraceStep(w) /\ hb_deadline'[w] >= 0
        BY <2>1, <2>3, <3>1, GraceParts DEF DInv, HbAhead
      <3> QED
        BY <1>1, <2>1, <3>2, WorkerDrains
    <2> QED
      BY <1>3, <2>2, <2>3 DEF HeartbeatRenew
  <1>4. CASE HeartbeatTimeout(w)
    <2>1. /\ UNCHANGED <<mode, keeper, errors>> /\ GivesUpTx(w) /\ rem'[w] = None
          /\ hb[w] = "renew" /\ RenewFailed(w)
      BY <1>1, <1>4, EndTxGivesUp, AbandonFacts DEF HeartbeatTimeout, Abandon, Renewing, process
    <2> QED
      BY <1>1, <2>1, RenewFailedDrains, WorkerDrains
  <1> QED
    BY <1>2, <1>3, <1>4

(* Bodies that end, are stopped or are left behind. *)
LEMMA BodyDrains ==
    ASSUME DInv, SInv', NEW w \in Workers,
           BodyExits(w) \/ Detach(w) \/ DetachedExits(w) \/ StopScheduler(w)
    PROVE  DInv'
  <1>1. TInv /\ SInv /\ LocalBeat(w) /\ LocalIo(w) /\ GraceOf(w)
    BY WorkerIsLocal DEF DInv, SInv, WorkerStep, GraceShape
  <1>2. CASE BodyExits(w) \/ Detach(w)
    <2>1. EndRun(w)
      BY <1>2 DEF BodyExits, Detach
    <2>2. /\ UNCHANGED <<mode, keeper, errors>> /\ GivesUpTx(w) /\ rem'[w] = None
      BY <1>1, <2>1, EndTxGivesUp, AbandonFacts DEF EndRun, Abandon, process
    <2>3. hb'[w] = "off" /\ ~graceful'[w]
      BY <1>1, <2>1, TypeParts DEF EndRun, WorkTypes, BeatTypes
    <2>4. \A u \in Workers \ {w} :
              graceful'[u] = graceful[u] /\ grace'[u] = grace[u] /\ detached'[u] = detached[u]
      BY <1>1, <1>2, <2>1, TypeParts DEF EndRun, BodyExits, Detach, WorkTypes
    <2>5. detached'[w] = "graceful" => Needs(w)
      <3>1. CASE BodyExits(w)
        BY <3>1 DEF BodyExits, Needs
      <3>2. CASE Detach(w)
        BY <1>1, <3>2, TypeParts, ConstantsAssumption DEF Detach, Needs, WorkTypes
      <3> QED
        BY <1>2, <3>1, <3>2
    <2>6. GraceStep(w)
      BY <2>3, <2>4, <2>5 DEF GraceStep
    <2> QED
      BY <1>1, <2>2, <2>3, <2>6, WorkerDrains
  <1>3. CASE DetachedExits(w)
    <2>1. UNCHANGED <<mode, keeper, errors, db, rem, heartbeat, body, grace, graceful>>
      BY <1>3 DEF DetachedExits, process, io
    <2>2. GraceStep(w)
      BY <1>1, <1>3, <2>1, TypeParts DEF DetachedExits, GraceStep, GraceOf, WorkTypes, heartbeat
    <2> QED
      BY <1>1, <2>1, <2>2, SameBeat, WorkerDrains
  <1>4. CASE StopScheduler(w)
    <2>1. UNCHANGED <<mode, keeper, detached, heartbeat>> /\ mode[Owner[w]] = "closing"
      BY <1>4 DEF StopScheduler
    <2>2. CASE /\ body[w] = "running"
               /\ body' = [body EXCEPT ![w] = "cancelling"]
               /\ grace' = [grace EXCEPT ![w] = CancelGrace]
               /\ graceful' = [graceful EXCEPT ![w] = HoldsLease(Owner[w])]
               /\ UNCHANGED <<db, io>>
      <3>1. hb[w] # "off"
        BY <2>2 DEF DInv, SInv, AllBeatsOK, BeatOK
      <3>2. GraceStep(w)
        BY <1>1, <2>1, <2>2, <3>1, TypeParts DEF GraceStep, Needs, WorkTypes, heartbeat
      <3> QED
        BY <1>1, <2>1, <2>2, <3>2, SameBeat, WorkerDrains DEF io
    <2>3. CASE UNCHANGED work
      <3>1. GraceStep(w)
        BY <2>1, <2>3, GraceParts DEF heartbeat
      <3>2. CASE Abandon(w)
        <4>1. UNCHANGED errors /\ GivesUpTx(w) /\ rem'[w] = None
          BY <1>1, <3>2, EndTxGivesUp, AbandonFacts DEF Abandon
        <4> QED
          BY <1>1, <2>1, <3>1, <4>1, SameBeat, WorkerDrains
      <3>3. CASE UNCHANGED <<db, io>>
        BY <1>1, <2>1, <3>1, <3>3, SameBeat, WorkerDrains DEF io
      <3> QED
        BY <1>4, <2>3, <3>2, <3>3 DEF StopScheduler
    <2> QED
      BY <1>4, <2>1, <2>2, <2>3 DEF StopScheduler, work
  <1> QED
    BY <1>2, <1>3, <1>4

-----------------------------------------------------------------------------
(* Draining: grants, commits, shutdown and time. *)

(* A lease lasts longer than the interval of its renewals. *)
LEMMA RenewedInTime ==
    ASSUME TTL > 1
    PROVE  renew_interval < TTL
  <1>1. PICK a \in Int : a = TTL \div 3
    BY ConstantsAssumption
  <1>2. TTL \in Nat /\ a < TTL
    BY <1>1, ConstantsAssumption
  <1>3. renew_interval = Max2(1, a)
    BY <1>1 DEF renew_interval
  <1> QED
    BY <1>2, <1>3 DEF Max2

(* What a step leaves alone when it concerns neither bodies nor modes. *)
draining == <<mode, keeper, graceful, grace, detached, hb, body>>

(* Such a step. *)
LEMMA StillDrains ==
    ASSUME DInv, UNCHANGED draining
    PROVE  GraceShape' /\ \A x : Covered(x) => CoveredNext(x)
  <1>1. GraceShape'
    BY DEF DInv, GraceShape, GraceOf, Going, draining
  <1>2. \A x : Covered(x) => CoveredNext(x)
    BY DEF Covered, CoveredNext, Going, Needs, draining
  <1> QED
    BY <1>1, <1>2

(* A lease that is granted to r covers what r needs, and nobody else had   *)
(* a need for the row.                                                     *)
LEMMA GrantCovered ==
    ASSUME DInv, TTL > 1, errors = 0, NEW r \in Replicas,
           row = None \/ row.leader = r \/ row.left < 0
    PROVE  Covered([leader |-> r, left |-> TTL])
  <1> DEFINE x == [leader |-> r, left |-> TTL]
  <1>1. TInv /\ Covered(row) /\ GraceShape
    BY DEF DInv, SInv, LeaseCovered
  <1>2. x # None /\ x.leader = r /\ x.left = TTL
    BY GrantedRow
  <1>3. row # None => row.left \in Int
    BY <1>1, TypeParts, ConstantsAssumption DEF DbTypes, Row, Time
  <1> HIDE DEF x
  <1>4. ASSUME Going(r) PROVE keeper[r] < TTL
    <2>1. keeper[r] \in 0..renew_interval
      BY <1>1, <1>4, TypeParts DEF GraceShape, ProcessTypes
    <2> QED
      BY <2>1, RenewedInTime, IntervalFacts, ConstantsAssumption
  <1>5. ASSUME NEW w \in Workers, Going(Owner[w]), Needs(w)
        PROVE  Owner[w] = r
    BY <1>1, <1>3, <1>5 DEF Covered
  <1>6. Covered(x)
    BY <1>2, <1>4, <1>5, ConstantsAssumption DEF Covered
  <1> QED
    BY <1>6 DEF x

(* After a grant everything is covered that was. *)
LEMMA GrantDrains ==
    ASSUME DInv, TTL > 1, NEW r \in Replicas, UNCHANGED draining, errors' = errors,
           row = None \/ row.leader = r \/ row.left < 0,
           row' = [leader |-> r, left |-> TTL],
           tx' # None => (tx.old)' = row
    PROVE  LeaseCovered'
  <1>1. errors = 0 => Covered(row) /\ Covered(row')
    BY GrantCovered DEF DInv, LeaseCovered
  <1> QED
    BY <1>1, StillDrains, CoveredAfter

(* Executing a statement. *)
LEMMA ExecuteDrains ==
    ASSUME DInv, TTL > 1, SInv', NEW w \in Workers, Execute(w)
    PROVE  DInv'
  <1> DEFINE r == Owner[w]
             ok == IF Renewing(w) THEN renew_matches(r) ELSE acquire_matches(r)
  <1>1. TInv /\ SInv /\ r \in Replicas /\ tx = None /\ FreshAnswers
    BY OwnerType DEF DInv, SInv, Execute
  <1>2. UNCHANGED draining /\ UNCHANGED <<hb, hb_deadline, errors>>
    BY DEF Execute, draining, process, work, heartbeat
  <1>3. GraceShape' /\ HbAhead'
    BY <1>2, StillDrains DEF DInv, HbAhead
  <1>4. \A u \in Workers : rem[u] = None
    BY <1>1, NobodyAnswered
  <1>5. CASE ok
    <2>1. /\ tx' = [by |-> w, old |-> row] /\ row' = [leader |-> r, left |-> TTL]
          /\ rem' = [rem EXCEPT ![w] = TTL]
      BY <1>5 DEF Execute
    <2>2. tx'.old = row /\ tx'.by = w
      BY <2>1
    <2>3. row = None \/ row.leader = r \/ row.left < 0
      BY <1>1, <1>5, MatchesFacts
    <2>4. LeaseCovered'
      BY <1>1, <1>2, <2>1, <2>2, <2>3, GrantDrains
    <2>5. rem'[w] = TTL /\ \A u \in Workers \ {w} : rem'[u] = None
      BY <1>1, <1>4, <2>1, TypeParts DEF IoTypes
    <2>6. FreshAnswers'
      BY <2>2, <2>5, ConstantsAssumption DEF FreshAnswers
    <2> QED
      BY <1>3, <2>4, <2>6, AssembleDrain
  <1>6. CASE ~ok
    <2>1. UNCHANGED db /\ rem' = [rem EXCEPT ![w] = None]
      BY <1>6 DEF Execute
    <2>2. \A u \in Workers : rem'[u] = None
      BY <1>1, <1>4, <2>1, TypeParts DEF IoTypes
    <2>3. FreshAnswers'
      BY <1>1, <2>1, <2>2 DEF FreshAnswers, db
    <2>4. LeaseCovered'
      BY <1>2, <2>1, StillDrains, CoveredAfter DEF DInv, LeaseCovered, db
    <2> QED
      BY <1>3, <2>3, <2>4, AssembleDrain
  <1> QED
    BY <1>5, <1>6

(* A cancelled statement that reaches the database after all. *)
LEMMA GhostDrains ==
    ASSUME DInv, TTL > 1, SInv', NEW w \in Workers, GhostExecutes(w)
    PROVE  DInv'
  <1>1. TInv /\ Owner[w] \in Replicas
    BY OwnerType DEF DInv, SInv
  <1>2. UNCHANGED draining /\ UNCHANGED <<hb, hb_deadline, errors, tx, rem>>
    BY DEF GhostExecutes, draining, process, work, heartbeat
  <1>3. GraceShape' /\ HbAhead' /\ FreshAnswers'
    BY <1>2, StillDrains DEF DInv, HbAhead, FreshAnswers
  <1>4. CASE UNCHANGED row
    <2>1. LeaseCovered'
      BY <1>2, <1>4, StillDrains, CoveredAfter DEF DInv, LeaseCovered
    <2> QED
      BY <1>3, <2>1, AssembleDrain
  <1>5. CASE /\ tx = None /\ (renew_matches(Owner[w]) \/ acquire_matches(Owner[w]))
             /\ row' = [leader |-> Owner[w], left |-> TTL]
    <2>1. LeaseCovered'
      BY <1>1, <1>2, <1>5, MatchesFacts, GrantDrains
    <2> QED
      BY <1>3, <2>1, AssembleDrain
  <1> QED
    BY <1>4, <1>5 DEF GhostExecutes

(* A commit. *)
LEMMA CommitDrains ==
    ASSUME DInv, SInv', NEW w \in Workers, Commit(w)
    PROVE  DInv'
  <1>1. TInv /\ SInv /\ LocalBeat(w) /\ LocalIo(w) /\ FreshAnswers
    BY WorkerIsLocal DEF DInv, SInv, WorkerStep
  <1>2. UNCHANGED <<mode, keeper, row, errors>> /\ tx' = None /\ rem'[w] = None
    BY <1>1, TypeParts DEF Commit, process, IoTypes
  <1>3. rem[w] = TTL /\ tx # None /\ tx.by = w
    BY <1>1, TypeParts DEF Commit, IoTypes, AnchorsLease, FreshAnswers, SInv, AllAnswered, Answered
  <1>4. EndsOwnTx(w)
    BY <1>2, <1>3 DEF EndsOwnTx
  <1>5. GraceStep(w) /\ hb_deadline'[w] = TTL
    <2>1. CASE StartBody(w, anchored_deadline(w))
      <3>1. StartBody(w, TTL)
        BY <1>3, <2>1 DEF anchored_deadline
      <3> QED
        BY <1>1, <3>1, GraceParts, StartFacts
    <2>2. CASE /\ hb' = [hb EXCEPT ![w] = "check"]
               /\ hb_deadline' = [hb_deadline EXCEPT ![w] = anchored_deadline(w)]
               /\ UNCHANGED <<is_leader, timer, work>>
      <3>1. hb'[w] = "check" /\ hb_deadline'[w] = TTL
        BY <1>1, <1>3, <2>2, TypeParts DEF anchored_deadline, BeatTypes
      <3> QED
        BY <2>2, <3>1, GraceParts
    <2> QED
      BY <2>1, <2>2 DEF Commit
  <1> QED
    BY <1>1, <1>2, <1>4, <1>5, WorkerDrains, ConstantsAssumption DEF GivesUpTx

(* The keeper starts before the first scheduler is stopped. *)
LEMMA StartKeeperDrains ==
    ASSUME DInv, SInv', NEW r \in Replicas, start_release_keeper(r)
    PROVE  DInv'
  <1>1. TInv /\ GraceShape
    BY DEF DInv, SInv
  <1>2. /\ UNCHANGED <<db, rem, errors, hb, hb_deadline, body, graceful, grace, detached>>
        /\ mode[r] = "up" /\ mode' = [mode EXCEPT ![r] = "closing"]
        /\ keeper' = [keeper EXCEPT ![r] = 0]
    BY DEF start_release_keeper, keeper_start, io, work, heartbeat
  <1>3. /\ mode'[r] = "closing" /\ keeper'[r] = 0
        /\ \A q \in Replicas : q # r => mode'[q] = mode[q] /\ keeper'[q] = keeper[q]
    BY <1>1, <1>2, TypeParts DEF ProcessTypes
  <1>4. HbAhead' /\ FreshAnswers'
    BY <1>2 DEF DInv, HbAhead, FreshAnswers, db
  <1>5. GraceShape'
    <2>1. \A w \in Workers : GraceOf(w)'
      BY <1>1, <1>2, <1>3, OwnerType DEF GraceShape, GraceOf
    <2>2. \A q \in Replicas : Going(q)' => keeper'[q] # None
      BY <1>1, <1>3, ConstantsAssumption DEF GraceShape, Going
    <2> QED
      BY <2>1, <2>2 DEF GraceShape
  <1>6. \A x : Covered(x) => CoveredNext(x)
    <2> SUFFICES ASSUME NEW x, Covered(x) PROVE CoveredNext(x)
      OBVIOUS
    <2>1. \A q \in Replicas : Going(q)' /\ x # None =>
              (x.leader = q => (x.left > 0 => keeper'[q] < x.left))
      BY <1>3 DEF Covered, Going
    <2>2. ASSUME NEW w \in Workers, (Going(Owner[w]) /\ Needs(w))'
          PROVE  Going(Owner[w]) /\ Needs(w)
      <3>1. Needs(w) /\ (graceful[w] \/ detached[w] = "graceful")
        BY <1>2, <2>2 DEF Needs
      <3>2. mode[Owner[w]] # "up"
        BY <1>1, <3>1 DEF GraceShape, GraceOf
      <3> QED
        BY <1>2, <1>3, <2>2, <3>1, <3>2, OwnerType DEF Going
    <2> QED
      BY <2>1, <2>2 DEF Covered, CoveredNext
  <1>7. LeaseCovered'
    BY <1>2, <1>6, CoveredAfter DEF DInv, LeaseCovered, db
  <1> QED
    BY <1>4, <1>5, <1>7, AssembleDrain

(* The keeper, or the release drain, renews the row. *)
LEMMA KeeperDrains ==
    ASSUME DInv, TTL > 1, SInv', NEW r \in Replicas, renew_lease_row(r)
    PROVE  DInv'
  <1>1. TInv /\ GraceShape
    BY DEF DInv, SInv
  <1>2. /\ UNCHANGED <<mode, rem, hb, hb_deadline, body, graceful, grace, detached>>
        /\ tx = None /\ tx' = None /\ keeper' = [keeper EXCEPT ![r] = renew_interval]
    BY DEF renew_lease_row, work, heartbeat
  <1>3. /\ keeper'[r] = renew_interval
        /\ \A q \in Replicas : q # r => keeper'[q] = keeper[q]
    BY <1>1, <1>2, TypeParts DEF ProcessTypes
  <1>4. HbAhead' /\ FreshAnswers'
    BY <1>2 DEF DInv, HbAhead, FreshAnswers
  <1>5. GraceShape'
    <2>1. \A q \in Replicas : Going(q)' => keeper'[q] # None
      BY <1>1, <1>2, <1>3, IntervalFacts, ConstantsAssumption DEF GraceShape, Going
    <2> QED
      BY <1>1, <1>2, <2>1 DEF GraceShape, GraceOf
  <1>6. LeaseCovered'
    <2> SUFFICES ASSUME errors' = 0 PROVE CoveredNext(row')
      BY <1>2, CoveredAfter
    <2>1. errors = 0 /\ row' = IF renew_matches(r) THEN [row EXCEPT !.left = TTL] ELSE row
      BY <1>1, TypeParts DEF renew_lease_row, IoTypes
    <2>2. Covered(row) /\ row \in Row \cup {None}
      BY <1>1, <2>1, TypeParts DEF DInv, LeaseCovered, DbTypes
    <2>3. Covered(row')
      <3>1. CASE renew_matches(r)
        <4>1. row \in Row /\ row.leader = r
          BY <2>2, <3>1 DEF renew_matches
        <4>2. row' = [leader |-> r, left |-> TTL]
          BY <2>1, <3>1, <4>1 DEF Row
        <4> QED
          BY <2>1, <4>1, <4>2, GrantCovered
      <3>2. CASE ~renew_matches(r)
        BY <2>1, <2>2, <3>2
      <3> QED
        BY <3>1, <3>2
    <2>4. row' # None /\ row'.leader = r => (row'.left > 0 => row'.left = TTL)
      <3>1. CASE renew_matches(r)
        BY <2>1, <2>2, <3>1 DEF renew_matches, Row
      <3>2. CASE ~renew_matches(r)
        BY <2>1, <3>2 DEF renew_matches
      <3> QED
        BY <3>1, <3>2
    <2>5. \A q \in Replicas : Going(q)' /\ row' # None =>
              (row'.leader = q => (row'.left > 0 => keeper'[q] < row'.left))
      BY <1>2, <1>3, <2>3, <2>4, RenewedInTime DEF Covered, Going
    <2>6. \A w \in Workers : (Going(Owner[w]) /\ Needs(w))' =>
              row' # None /\ row'.leader = Owner[w] /\ row'.left > 0
      BY <1>2, <2>3 DEF Covered, Going, Needs
    <2> QED
      BY <2>5, <2>6 DEF CoveredNext
  <1> QED
    BY <1>4, <1>5, <1>6, AssembleDrain

(* The release drain takes over from the keeper. *)
LEMMA ReleaseDrains ==
    ASSUME DInv, SInv', NEW r \in Replicas, release(r)
    PROVE  DInv'
  <1>1. TInv /\ GraceShape
    BY DEF DInv, SInv
  <1>2. /\ UNCHANGED <<db, rem, errors, hb, hb_deadline, body, graceful, grace, detached>>
        /\ mode[r] = "closing" /\ mode' = [mode EXCEPT ![r] = "releasing"]
        /\ keeper' = [keeper EXCEPT ![r] = 0]
    BY DEF release, io, work, heartbeat
  <1>3. /\ mode'[r] = "releasing" /\ keeper'[r] = 0
        /\ \A q \in Replicas : q # r => mode'[q] = mode[q] /\ keeper'[q] = keeper[q]
    BY <1>1, <1>2, TypeParts DEF ProcessTypes
  <1>4. HbAhead' /\ FreshAnswers'
    BY <1>2 DEF DInv, HbAhead, FreshAnswers, db
  <1>5. GraceShape'
    <2>1. \A w \in Workers : GraceOf(w)'
      BY <1>1, <1>2, <1>3, OwnerType DEF GraceShape, GraceOf
    <2>2. \A q \in Replicas : Going(q)' => keeper'[q] # None
      BY <1>1, <1>3, ConstantsAssumption DEF GraceShape, Going
    <2> QED
      BY <2>1, <2>2 DEF GraceShape
  <1>6. \A x : Covered(x) => CoveredNext(x)
    <2> SUFFICES ASSUME NEW x, Covered(x) PROVE CoveredNext(x)
      OBVIOUS
    <2>1. \A q \in Replicas : Going(q)' /\ x # None =>
              (x.leader = q => (x.left > 0 => keeper'[q] < x.left))
      BY <1>3 DEF Covered, Going
    <2>2. \A w \in Workers : (Going(Owner[w]) /\ Needs(w))' => Going(Owner[w]) /\ Needs(w)
      BY <1>2, <1>3, OwnerType DEF Going, Needs
    <2> QED
      BY <2>1, <2>2 DEF Covered, CoveredNext
  <1>7. LeaseCovered'
    BY <1>2, <1>6, CoveredAfter DEF DInv, LeaseCovered, db
  <1> QED
    BY <1>4, <1>5, <1>7, AssembleDrain

(* The release ends, with the row or without. *)
LEMMA ReleaseRowDrains ==
    ASSUME DInv, SInv', NEW r \in Replicas, release_row(r)
    PROVE  DInv'
  <1>1. TInv /\ GraceShape
    BY DEF DInv, SInv
  <1>2. /\ UNCHANGED <<rem, hb, hb_deadline, body, graceful, grace, detached>>
        /\ tx = None /\ tx' = None /\ mode[r] = "releasing" /\ mode' = [mode EXCEPT ![r] = "down"]
        /\ keeper' = [keeper EXCEPT ![r] = None]
    BY DEF release_row, work, heartbeat
  <1>3. /\ mode'[r] = "down"
        /\ \A q \in Replicas : q # r => mode'[q] = mode[q] /\ keeper'[q] = keeper[q]
    BY <1>1, <1>2, TypeParts DEF ProcessTypes
  <1>4. HbAhead' /\ FreshAnswers'
    BY <1>2 DEF DInv, HbAhead, FreshAnswers
  <1>5. GraceShape'
    <2>1. \A w \in Workers : GraceOf(w)'
      BY <1>1, <1>2, <1>3, OwnerType DEF GraceShape, GraceOf
    <2>2. \A q \in Replicas : Going(q)' => keeper'[q] # None
      BY <1>1, <1>3 DEF GraceShape, Going
    <2> QED
      BY <2>1, <2>2 DEF GraceShape
  <1>6. LeaseCovered'
    <2> SUFFICES ASSUME errors' = 0 PROVE CoveredNext(row')
      BY <1>2, CoveredAfter
    <2>1. errors = 0
      BY <1>1, TypeParts DEF release_row, IoTypes
    <2>2. Covered(row)
      BY <2>1 DEF DInv, LeaseCovered
    <2>3. row' = row \/ (row # None /\ row.leader = r /\ row' = None)
      BY DEF release_row
    <2>4. \A q \in Replicas : Going(q)' => q # r /\ Going(q) /\ keeper'[q] = keeper[q]
      BY <1>3 DEF Going
    <2>5. \A w \in Workers : (Going(Owner[w]) /\ Needs(w))' =>
              Owner[w] # r /\ Going(Owner[w]) /\ Needs(w)
      BY <1>2, <1>3, OwnerType DEF Going, Needs
    <2> QED
      BY <2>2, <2>3, <2>4, <2>5 DEF Covered, CoveredNext
  <1> QED
    BY <1>4, <1>5, <1>6, AssembleDrain

(* A process is killed: nothing of it drains any more. *)
LEMMA CrashDrains ==
    ASSUME DInv, SInv', NEW r \in Replicas, Crash(r)
    PROVE  DInv'
  <1>1. TInv /\ GraceShape /\ FreshAnswers
    BY DEF DInv, SInv
  <1>2. /\ mode'[r] = "down"
        /\ \A q \in Replicas : q # r => mode'[q] = mode[q] /\ keeper'[q] = keeper[q]
    BY <1>1, TypeParts DEF Crash, ProcessTypes
  <1>3. \A w \in Workers :
            /\ Owner[w] = r => /\ hb'[w] = "off" /\ rem'[w] = None /\ graceful'[w] = FALSE
                               /\ detached'[w] = "no"
            /\ Owner[w] # r => /\ hb'[w] = hb[w] /\ hb_deadline'[w] = hb_deadline[w] /\ body'[w] = body[w]
                               /\ rem'[w] = rem[w] /\ graceful'[w] = graceful[w] /\ grace'[w] = grace[w]
                               /\ detached'[w] = detached[w]
    BY DEF Crash, Cleared
  <1>4. /\ errors' = errors
        /\ \/ tx # None /\ Owner[tx.by] = r /\ tx' = None /\ row' \in {row, tx.old}
           \/ row' = row /\ tx' = tx /\ (tx # None => Owner[tx.by] # r)
    BY DEF Crash, db
  <1>5. HbAhead'
    BY <1>3 DEF DInv, HbAhead
  <1>6. FreshAnswers'
    <2>1. \A w \in Workers : rem'[w] # None => rem'[w] = TTL
      BY <1>1, <1>3 DEF FreshAnswers
    <2>2. tx # None => tx.by \in Workers
      BY <1>1, TypeParts DEF DbTypes
    <2>3. tx' # None => rem'[tx'.by] # None
      BY <1>1, <1>3, <1>4, <2>2 DEF FreshAnswers
    <2> QED
      BY <2>1, <2>3 DEF FreshAnswers
  <1>7. GraceShape'
    <2>1. ASSUME NEW w \in Workers PROVE GraceOf(w)'
      <3>1. GraceOf(w) /\ Owner[w] \in Replicas
        BY <1>1, OwnerType DEF GraceShape
      <3>2. CASE Owner[w] = r
        BY <1>2, <1>3, <3>2 DEF GraceOf
      <3>3. CASE Owner[w] # r
        BY <1>2, <1>3, <3>1, <3>3 DEF GraceOf
      <3> QED
        BY <3>2, <3>3
    <2>2. \A q \in Replicas : Going(q)' => keeper'[q] # None
      BY <1>1, <1>2 DEF GraceShape, Going
    <2> QED
      BY <2>1, <2>2 DEF GraceShape
  <1>8. \A x : Covered(x) => CoveredNext(x)
    <2>1. \A q \in Replicas : Going(q)' => Going(q) /\ keeper'[q] = keeper[q]
      BY <1>2 DEF Going
    <2>2. ASSUME NEW w \in Workers, (Going(Owner[w]) /\ Needs(w))' PROVE Going(Owner[w]) /\ Needs(w)
      <3>1. Owner[w] # r
        BY <1>2, <2>2 DEF Going
      <3> QED
        BY <1>2, <1>3, <2>2, <3>1, OwnerType DEF Going, Needs
    <2> QED
      BY <2>1, <2>2 DEF Covered, CoveredNext
  <1>9. LeaseCovered'
    BY <1>4, <1>8, CoveredAfter DEF DInv, LeaseCovered
  <1> QED
    BY <1>5, <1>6, <1>7, <1>9, AssembleDrain

(* Time passes only when every heartbeat and the keeper have time left, so *)
(* the row that a draining body needs has some left afterwards.            *)
LEMMA TickDrains ==
    ASSUME DInv, PromptResponses, PromptCommits, SInv', Tick
    PROVE  DInv'
  <1>1. TInv /\ SInv /\ GraceShape /\ FreshAnswers /\ Supports(row)
    BY DEF DInv, SInv, LeaseBacked
  <1>2. tx = None
    <2> SUFFICES ASSUME tx # None PROVE FALSE
      OBVIOUS
    <2>1. tx.by \in Workers /\ rem[tx.by] # None
      BY <1>1, TypeParts DEF DbTypes, FreshAnswers
    <2>2. req[tx.by] \in {"executed", "anchored"}
      BY <1>1, <2>1 DEF SInv, AllAnswered, Answered
    <2> QED
      BY <2>1, <2>2 DEF Tick, TimerDue
  <1>3. \A w \in Workers : rem[w] = None
    BY <1>1, <1>2, NobodyAnswered
  <1>4. FreshAnswers'
    <2>1. tx' = None /\ \A w \in Workers : rem'[w] = None
      BY <1>2, <1>3 DEF Tick, Past
    <2> QED
      BY <2>1 DEF FreshAnswers
  <1>5. ASSUME NEW w \in Workers, hb[w] # "off"
        PROVE  /\ hb_deadline[w] \in Int /\ hb_deadline[w] >= 1
               /\ row # None /\ row.leader = Owner[w] /\ hb_deadline[w] <= row.left
               /\ hb_deadline'[w] = hb_deadline[w] - 1
    <2>1. ~TimerDue(w) /\ BeatOK(w) /\ hb[w] \in {"off", "check", "sleep", "renew"}
      BY <1>1, TypeParts DEF Tick, SInv, AllBeatsOK, BeatTypes
    <2>2. timer[w] \in Nat /\ hb_deadline[w] \in Int /\ hb_deadline[w] # None
      BY <1>1, TypeParts, ConstantsAssumption DEF BeatTypes, Intervals, Time
    <2>3. hb_deadline[w] >= 1
      BY <1>5, <2>1, <2>2 DEF TimerDue, BeatOK
    <2>4. row # None /\ row.leader = Owner[w] /\ hb_deadline[w] <= row.left
      BY <1>1, <1>5, <2>2, <2>3 DEF Supports, Backs
    <2>5. hb_deadline'[w] = Past(hb_deadline[w])
      BY <1>5 DEF Tick
    <2>6. Past(hb_deadline[w]) = hb_deadline[w] - 1
      BY <2>2, <2>3 DEF Past
    <2> QED
      BY <2>2, <2>3, <2>4, <2>5, <2>6
  <1>6. HbAhead'
    <2> SUFFICES ASSUME NEW w \in Workers, hb'[w] # "off" PROVE hb_deadline'[w] >= 0
      BY DEF HbAhead
    <2>1. hb[w] # "off"
      BY DEF Tick
    <2> QED
      BY <1>5, <2>1
  <1>7. \A r \in Replicas : Going(r) => keeper[r] \in Nat /\ keeper[r] # None /\ keeper'[r] = Down(keeper[r])
    BY <1>1, TypeParts, IntervalFacts DEF GraceShape, ProcessTypes, Tick
  <1>8. GraceShape'
    <2>1. \A w \in Workers : GraceOf(w)'
      BY <1>1 DEF GraceShape, GraceOf, Tick
    <2>2. \A r \in Replicas : Going(r)' => Going(r)
      BY DEF Going, Tick
    <2>3. \A r \in Replicas : Going(r) => keeper'[r] \in Nat
      BY <1>7 DEF Down
    <2> QED
      BY <2>1, <2>2, <2>3, ConstantsAssumption DEF GraceShape
  <1>9. LeaseCovered'
    <2> SUFFICES ASSUME errors' = 0 PROVE CoveredNext(row')
      BY <1>2, CoveredAfter DEF Tick
    <2>1. Covered(row)
      BY DEF DInv, LeaseCovered, Tick
    <2>2. row # None =>
              /\ row.left \in Int /\ row' # None /\ row'.leader = row.leader
              /\ row'.left = Past(row.left)
      BY <1>1, TypeParts, PastRowFacts, ConstantsAssumption DEF DbTypes, Row, Time, Tick
    <2>3. row = None => row' = None
      BY PastRowFacts DEF Tick
    <2>4. row # None /\ row.left >= 1 => row'.left = row.left - 1
      BY <2>2, ConstantsAssumption DEF Past
    <2>5. row # None /\ row'.left > 0 => row.left = row'.left + 1
      BY <2>2, ConstantsAssumption DEF Past
    <2>6. ASSUME NEW r \in Replicas, Going(r)', row' # None, row'.leader = r, row'.left > 0
          PROVE  keeper'[r] < row'.left
      <3>1. Going(r) /\ row # None /\ row.leader = r
        BY <2>2, <2>3, <2>6 DEF Going, Tick
      <3>2. row.left \in Int /\ row.left = row'.left + 1 /\ row'.left \in Int
        BY <2>2, <2>5, <2>6, <3>1, ConstantsAssumption DEF Past
      <3>3. keeper[r] < row.left
        BY <2>1, <2>6, <3>1, <3>2 DEF Covered
      <3>4. keeper[r] \in Nat /\ keeper[r] # None /\ keeper'[r] = Down(keeper[r])
        BY <1>7, <3>1
      <3> QED
        BY <2>6, <3>2, <3>3, <3>4 DEF Down
    <2>7. ASSUME NEW w \in Workers, (Going(Owner[w]) /\ Needs(w))'
          PROVE  row' # None /\ row'.leader = Owner[w] /\ row'.left > 0
      <3> DEFINE r == Owner[w]
      <3>1. r \in Replicas /\ Going(r) /\ (detached[w] = "graceful" \/ graceful[w])
        BY <2>7, OwnerType DEF Going, Needs, Tick
      <3>2. row # None /\ row.leader = r /\ row.left > 0 /\ ~KeeperDue(r) =>
                (~(keeper[r] = 0) => row'.left > 0)
        <4> SUFFICES ASSUME row # None, row.leader = r, row.left > 0, ~(keeper[r] = 0)
                     PROVE  row'.left > 0
          OBVIOUS
        <4>1. keeper[r] < row.left /\ keeper[r] \in Nat
          BY <1>7, <2>1, <3>1 DEF Covered
        <4>2. row.left \in Int /\ row.left >= 2
          BY <2>2, <4>1
        <4> QED
          BY <2>4, <4>2
      <3>3. ~KeeperDue(r)
        BY <3>1 DEF Tick
      <3>4. CASE detached[w] = "graceful"
        <4>1. row # None /\ row.leader = r /\ row.left > 0
          BY <2>1, <3>1, <3>4 DEF Covered, Needs
        <4>2. ~(keeper[r] = 0)
          BY <1>2, <3>3, <3>4 DEF KeeperDue, WorkersOf
        <4> QED
          BY <2>2, <3>2, <3>3, <4>1, <4>2
      <3>5. CASE graceful[w]
        <4>1. hb[w] # "off"
          BY <1>1, <3>5 DEF GraceShape, GraceOf
        <4>2. row # None /\ row.leader = r /\ hb_deadline[w] <= row.left /\ hb_deadline[w] \in Int
              /\ hb_deadline[w] >= 1
          BY <1>5, <4>1
        <4>3. row.left > 0
          BY <2>2, <4>2
        <4>4. mode[r] # "releasing"
          BY <1>1, <4>1, BusyReplica
        <4>5. ~(keeper[r] = 0)
          BY <1>2, <3>3, <4>4 DEF KeeperDue
        <4> QED
          BY <2>2, <3>2, <3>3, <4>2, <4>3, <4>5
      <3> QED
        BY <3>1, <3>4, <3>5
    <2> QED
      BY <2>6, <2>7 DEF CoveredNext
  <1> QED
    BY <1>4, <1>6, <1>8, <1>9, AssembleDrain

(* The invariant holds of the initial states. *)
LEMMA InitDrains == Init => DInv
  <1> SUFFICES ASSUME Init PROVE DInv
    OBVIOUS
  <1>1. SInv
    BY InitSafe
  <1>2. LeaseCovered
    BY OwnerType DEF Init, LeaseCovered, Covered, Going
  <1>3. HbAhead /\ FreshAnswers
    BY DEF Init, HbAhead, FreshAnswers
  <1>4. GraceShape
    BY DEF Init, GraceShape, GraceOf, Going
  <1> QED
    BY <1>1, <1>2, <1>3, <1>4 DEF DInv

(* Every step keeps the invariant. *)
LEMMA DrainsPreserved ==
    ASSUME PromptResponses, PromptCommits, TTL > 1, DInv, [Next]_vars
    PROVE  DInv'
  <1>1. SInv'
    BY SafePreserved DEF DInv
  <1>2. ASSUME NEW w \in Workers, WorkerStep(w) PROVE DInv'
    BY <1>1, <1>2, StatementDrains, HeartbeatDrains, BodyDrains, ExecuteDrains, GhostDrains, CommitDrains
    DEF WorkerStep
  <1>3. ASSUME NEW r \in Replicas, ReplicaStep(r) PROVE DInv'
    BY <1>1, <1>3, StartKeeperDrains, KeeperDrains, ReleaseDrains, ReleaseRowDrains, CrashDrains
    DEF ReplicaStep
  <1>4. CASE Tick
    BY <1>1, <1>4, TickDrains
  <1>5. CASE UNCHANGED vars
    <2>1. UNCHANGED draining /\ UNCHANGED <<hb, hb_deadline, errors, row, tx, rem>>
      BY <1>5 DEF vars, draining, db, process, work, heartbeat, io
    <2>2. GraceShape' /\ HbAhead' /\ FreshAnswers'
      BY <2>1, StillDrains DEF DInv, HbAhead, FreshAnswers
    <2>3. LeaseCovered'
      BY <2>1, StillDrains, CoveredAfter DEF DInv, LeaseCovered
    <2> QED
      BY <1>1, <2>2, <2>3, AssembleDrain
  <1> QED
    BY <1>2, <1>3, <1>4, <1>5 DEF Next

(* What the invariant says of a draining body. *)
LEMMA DrainHolds == DInv => DrainingBodyKeepsLease
  <1> SUFFICES ASSUME DInv, NEW w \in Workers, errors = 0, Going(Owner[w]),
                      graceful[w] \/ detached[w] = "graceful"
               PROVE  HoldsLease(Owner[w])
    BY DEF DrainingBodyKeepsLease, Going
  <1>1. TInv /\ Supports(row) /\ Covered(row) /\ GraceOf(w)
    BY DEF DInv, SInv, LeaseBacked, LeaseCovered, GraceShape
  <1>2. row # None => row.left \in Int
    BY <1>1, TypeParts, ConstantsAssumption DEF DbTypes, Row, Time
  <1>3. CASE detached[w] = "graceful"
    <2>1. row # None /\ row.leader = Owner[w] /\ row.left > 0
      BY <1>1, <1>3 DEF Covered, Needs
    <2> QED
      BY <1>2, <2>1 DEF HoldsLease
  <1>4. CASE graceful[w]
    <2>1. hb[w] # "off"
      BY <1>1, <1>4 DEF GraceOf
    <2>2. hb_deadline[w] >= 0 /\ hb_deadline[w] \in Int /\ hb_deadline[w] # None
      BY <1>1, <2>1, TypeParts, ConstantsAssumption DEF DInv, HbAhead, BeatTypes, Time
    <2>3. row # None /\ row.leader = Owner[w] /\ hb_deadline[w] <= row.left
      BY <1>1, <2>1, <2>2 DEF Supports, Backs
    <2> QED
      BY <1>2, <2>2, <2>3 DEF HoldsLease
  <1> QED
    BY <1>3, <1>4

(* Through the stop of the schedulers, the cancel grace, the detachment of *)
(* what outlives it and the release drain, a body that was stopped under   *)
(* its lease keeps that lease while the database does not fail: heartbeat, *)
(* keeper and drain hand the renewal over in time.  The lease has to       *)
(* outlast the renewal interval, which the minimum of                      *)
(* leader_election_ttl_seconds ensures.                                    *)
THEOREM DrainKeepsLease ==
    ASSUME PromptResponses, PromptCommits, TTL > 1
    PROVE  Spec => []DrainingBodyKeepsLease
  <1>1. Init => DInv
    BY InitDrains
  <1>2. DInv /\ [Next]_vars => DInv'
    BY DrainsPreserved
  <1>3. DInv => DrainingBodyKeepsLease
    BY DrainHolds
  <1> QED
    BY <1>1, <1>2, <1>3, PTL DEF Spec

=============================================================================
