------------------------- MODULE UsageReservations -------------------------
(***************************************************************************)
(* The usage ledger of API keys: app/modules/api_keys/service.py,          *)
(* repository.py and reset_scheduler.py.                                   *)
(*                                                                         *)
(* A request reserves a part of every limit that applies to it, and is     *)
(* settled later: finalized or failed with its actual usage, released, or  *)
(* swept when stale.  Each is a transaction of several statements on a     *)
(* shared database.  A written row stays locked until the transaction      *)
(* ends, and an UPDATE re-evaluates its WHERE clause on the committed row  *)
(* once it has the lock (READ COMMITTED).                                  *)
(*                                                                         *)
(* A limit's reset_at only ever serves as an identity of its window: it is *)
(* modelled by the window's number, and its passing by the set "expired".  *)
(***************************************************************************)
EXTENDS Integers, FiniteSets, FiniteSetsExt, Functions

CONSTANTS
    Limits, Reservations,
    Clients,            \* concurrent requests and settlers
    Sweeper,            \* the leader's reset scheduler
    MaxValues,          \* the max_value an administrator may set
    Budgets, Actuals,   \* reserved budgets and settled usages
    None,
    Outcomes,           \* how a request ends: "finalized", "failed"
    Ages,               \* the ages reservations may reach: "idle", "old"
    UsageResets,        \* the administrator may also reset usage
    MaxUpdates,         \* bound: administrator's updates
    MaxWindows,         \* bound: windows of a limit
    MaxErrors           \* bound: failing statements

Item == [delta : Nat, win : Nat]

ASSUME ConstantsAssumption ==
    /\ IsFiniteSet(Reservations)
    /\ MaxValues \subseteq Nat /\ MaxValues # {}
    /\ Budgets \subseteq Nat /\ Actuals \subseteq Nat
    /\ Sweeper \notin Clients /\ None \notin Int /\ None \notin Item
    /\ Outcomes \subseteq {"finalized", "failed"} /\ Ages \subseteq {"idle", "old"}
    /\ UsageResets \in BOOLEAN /\ MaxUpdates \in Nat
    /\ MaxWindows \in Nat /\ MaxErrors \in Nat

Actors == Clients \cup {Sweeper}

VARIABLES
    limit,      \* committed limit rows: [current, max, win]
    expired,    \* the limits whose reset_at has passed
    res,        \* committed reservations: [status, items, actual]
    idle, old,  \* reservations past the stale age and past the maximum age
    op, goal,   \* where each transaction is and what it is for
    batch,      \* the reservations it is still to process, one at a time
    claims,     \* the reservation rows it has locked
    todo,       \* the limits it is still to process
    seen,       \* the limit rows it read
    draft,      \* the counters it has written, their rows locked
    items,      \* the reservation items it has built
    actual,     \* the usage it settles
    admin,      \* the limits an administrator's update has read
    updates,    \* how many updates an administrator has begun
    errors

rows == <<limit, expired, res>>
ages == <<idle, old>>
tx == <<op, goal, batch, claims, todo, seen, draft, items, actual>>
vars == <<rows, ages, tx, admin, updates, errors>>

NoItems == [l \in Limits |-> None]
NoUsage == [l \in Limits |-> 0]
Settled == {"finalized", "failed", "released"}

Locked(l, a) == \E b \in Actors \ {a} : draft[b][l] # None
Value(a, l) == IF draft[a][l] # None THEN draft[a][l] ELSE limit[l].current

-----------------------------------------------------------------------------
(* The statements' conditions and the amounts. *)
MutantReserveUnguarded(a, l, delta) == limit[l].win = seen[a][l].win

try_reserve_usage(a, l, delta) ==
    /\ limit[l].win = seen[a][l].win
    /\ Value(a, l) + delta <= limit[l].max

reserve_delta(row, budget) ==
    IF row.max <= row.current THEN 0 ELSE Min({row.max - row.current, budget})

MutantRefundBelowZero(a, l, item, delta) == TRUE

adjust_reserved_usage(a, l, item, delta) ==
    /\ limit[l].win = item.win
    /\ delta < 0 => Value(a, l) >= -delta

transition_matches(r) == res[r].status = "reserved"

MutantHeartbeatKeepsAlive(r) == r \in idle

stale_clause(r) == r \in idle \/ r \in old

-----------------------------------------------------------------------------
Init ==
    /\ limit \in [Limits -> [current : {0}, max : MaxValues, win : {0}]]
    /\ expired = {}
    /\ res = [r \in Reservations |->
                 [status |-> "none", items |-> NoItems, actual |-> NoUsage]]
    /\ idle = {} /\ old = {}
    /\ op = [a \in Actors |-> "idle"] /\ goal = [a \in Actors |-> "none"]
    /\ batch = [a \in Actors |-> {}] /\ claims = [a \in Actors |-> {}]
    /\ todo = [a \in Actors |-> {}] /\ seen = [a \in Actors |-> None]
    /\ draft = [a \in Actors |-> NoItems] /\ items = [a \in Actors |-> NoItems]
    /\ actual = [a \in Actors |-> NoUsage]
    /\ admin = None /\ updates = 0 /\ errors = 0

(* The transaction is over; what it wrote is committed or dropped. *)
End(a) ==
    /\ op' = [op EXCEPT ![a] = "idle"] /\ goal' = [goal EXCEPT ![a] = "none"]
    /\ batch' = [batch EXCEPT ![a] = {}] /\ claims' = [claims EXCEPT ![a] = {}]
    /\ todo' = [todo EXCEPT ![a] = {}] /\ seen' = [seen EXCEPT ![a] = None]
    /\ draft' = [draft EXCEPT ![a] = NoItems] /\ items' = [items EXCEPT ![a] = NoItems]
    /\ actual' = [actual EXCEPT ![a] = NoUsage]

Rollback(a) == End(a) /\ UNCHANGED rows

CommitCounters(a) ==
    limit' = [l \in Limits |-> IF draft[a][l] # None
                               THEN [limit[l] EXCEPT !.current = draft[a][l]] ELSE limit[l]]

Write(a, l, value) == draft' = [draft EXCEPT ![a][l] = value]
Processed(a, l) == todo' = [todo EXCEPT ![a] = @ \ {l}]

-----------------------------------------------------------------------------
(* enforce_limits_for_request.  The clock is read before the limits are,   *)
(* so a window that passes in between is not seen as expired.              *)
enforce_limits_for_request(a, r, applicable, lapsed) ==
    /\ a \in Clients /\ op[a] = "idle"
    /\ res[r].status = "none" /\ \A b \in Actors : r \notin batch[b]
    /\ batch' = [batch EXCEPT ![a] = {r}]
    /\ goal' = [goal EXCEPT ![a] = "reserve"]
    /\ items' = [items EXCEPT ![a] = [l \in Limits |-> IF l \in applicable
                                                       THEN [delta |-> 0, win |-> 0] ELSE None]]
    /\ seen' = [seen EXCEPT ![a] = limit]
    /\ IF lapsed = {}
       THEN op' = [op EXCEPT ![a] = "reserve"] /\ todo' = [todo EXCEPT ![a] = applicable]
       ELSE op' = [op EXCEPT ![a] = "reset"] /\ todo' = [todo EXCEPT ![a] = lapsed]
    /\ UNCHANGED <<rows, ages, claims, draft, actual, admin, updates, errors>>

MutantResetUnconditional(a, l) == TRUE

reset_matches(a, l) == limit[l].win = seen[a][l].win

(* reset_limit: one statement and its commit.  The new window is computed  *)
(* from the reset_at that was read.                                        *)
NewWindow(l, win) ==
    /\ limit' = [limit EXCEPT ![l].current = 0, ![l].win = win + 1]
    /\ expired' = expired \ {l}
    /\ UNCHANGED res

lazy_reset(a, l) ==
    /\ op[a] = "reset" /\ l \in todo[a] /\ ~Locked(l, a)
    /\ IF reset_matches(a, l) THEN NewWindow(l, seen[a][l].win) ELSE UNCHANGED rows
    /\ Processed(a, l)
    /\ UNCHANGED <<ages, op, goal, batch, claims, seen, draft, items, actual, admin, updates, errors>>

(* After any reset the limits are read again. *)
RefetchLimits(a) ==
    /\ op[a] = "reset" /\ todo[a] = {}
    /\ seen' = [seen EXCEPT ![a] = limit]
    /\ op' = [op EXCEPT ![a] = "reserve"]
    /\ todo' = [todo EXCEPT ![a] = {l \in Limits : items[a][l] # None}]
    /\ UNCHANGED <<rows, ages, goal, batch, claims, draft, items, actual, admin, updates, errors>>

ReserveLimit(a, l, budget) ==
    /\ op[a] = "reserve" /\ l \in todo[a]
    /\ LET row == seen[a][l]
           delta == reserve_delta(row, budget)
       IN  \/ /\ row.current >= row.max
              /\ Rollback(a)
           \/ /\ row.current < row.max /\ delta > 0 /\ ~Locked(l, a)
              /\ ~try_reserve_usage(a, l, delta)
              /\ Rollback(a)
           \/ /\ row.current < row.max /\ delta > 0 /\ ~Locked(l, a)
              /\ try_reserve_usage(a, l, delta)
              /\ Write(a, l, Value(a, l) + delta)
              /\ items' = [items EXCEPT ![a][l] = [delta |-> delta, win |-> row.win]]
              /\ Processed(a, l)
              /\ UNCHANGED <<rows, op, goal, batch, claims, seen, actual>>
           \/ /\ row.current < row.max /\ delta <= 0
              /\ items' = [items EXCEPT ![a][l] = [delta |-> 0, win |-> row.win]]
              /\ Processed(a, l)
              /\ UNCHANGED <<rows, op, goal, batch, claims, seen, draft, actual>>
    /\ UNCHANGED <<ages, admin, updates, errors>>

(* Without applicable limits there is nothing to reserve. *)
create_usage_reservation(a) ==
    /\ op[a] = "reserve" /\ todo[a] = {}
    /\ CommitCounters(a)
    /\ res' = [r \in Reservations |->
                  IF r \in batch[a] /\ items[a] # NoItems
                  THEN [status |-> "reserved", items |-> items[a], actual |-> NoUsage]
                  ELSE res[r]]
    /\ End(a)
    /\ UNCHANGED <<expired, ages, admin, updates, errors>>

-----------------------------------------------------------------------------
(* finalize, fail and release_usage_reservation: any number of them may    *)
(* run for the same reservation.  The status is read before it is claimed. *)
settle_usage_reservation(a, r, status, usage) ==
    /\ a \in Clients /\ op[a] = "idle" /\ res[r].status = "reserved"
    /\ op' = [op EXCEPT ![a] = "claim"]
    /\ goal' = [goal EXCEPT ![a] = status]
    /\ batch' = [batch EXCEPT ![a] = {r}]
    /\ actual' = [actual EXCEPT ![a] = usage]
    /\ UNCHANGED <<rows, ages, claims, todo, seen, draft, items, admin, updates, errors>>

(* release_stale_usage_reservations: one batch, one transaction. *)
release_stale_usage_reservations ==
    /\ op[Sweeper] = "idle"
    /\ LET stale == {r \in Reservations : res[r].status = "reserved" /\ stale_clause(r)}
       IN  stale # {} /\ batch' = [batch EXCEPT ![Sweeper] = stale]
    /\ op' = [op EXCEPT ![Sweeper] = "claim"]
    /\ goal' = [goal EXCEPT ![Sweeper] = "released"]
    /\ UNCHANGED <<rows, ages, claims, todo, seen, draft, items, actual, admin, updates, errors>>

ClaimedElsewhere(r, a) == \E b \in Actors \ {a} : r \in claims[b]

Claim(a, r) ==
    /\ op[a] = "claim" /\ r \in batch[a] /\ ~ClaimedElsewhere(r, a)
    /\ \/ /\ transition_matches(r) /\ (a = Sweeper => stale_clause(r))
          /\ claims' = [claims EXCEPT ![a] = @ \cup {r}]
          /\ items' = [items EXCEPT ![a] = res[r].items]
          /\ todo' = [todo EXCEPT ![a] = {l \in Limits : res[r].items[l] # None}]
          /\ op' = [op EXCEPT ![a] = "adjust"]
          /\ batch' = [batch EXCEPT ![a] = @ \ {r}]
          /\ UNCHANGED <<rows, goal, seen, draft, actual>>
       \/ /\ ~transition_matches(r) /\ a # Sweeper
          /\ Rollback(a)
       \/ /\ ~(transition_matches(r) /\ stale_clause(r)) /\ a = Sweeper
          /\ batch' = [batch EXCEPT ![a] = @ \ {r}]
          /\ UNCHANGED <<rows, op, goal, claims, todo, seen, draft, items, actual>>
    /\ UNCHANGED <<ages, admin, updates, errors>>

settle_delta(used, item) == used - item.delta

Adjust(a, l) ==
    /\ op[a] = "adjust" /\ l \in todo[a] /\ ~Locked(l, a)
    /\ LET delta == settle_delta(IF goal[a] = "released" THEN 0 ELSE actual[a][l], items[a][l])
       IN  IF (delta # 0 \/ goal[a] = "released") /\ adjust_reserved_usage(a, l, items[a][l], delta)
           THEN Write(a, l, Value(a, l) + delta)
           ELSE UNCHANGED draft
    /\ Processed(a, l)
    /\ UNCHANGED <<rows, ages, op, goal, batch, claims, seen, items, actual, admin, updates, errors>>

(* The next reservation of the batch, or the commit. *)
NextOfBatch(a) ==
    /\ op[a] = "adjust" /\ todo[a] = {} /\ batch[a] # {}
    /\ op' = [op EXCEPT ![a] = "claim"]
    /\ UNCHANGED <<rows, ages, goal, batch, claims, todo, seen, draft, items, actual, admin,
                   updates, errors>>

CommitSettlement(a) ==
    /\ op[a] \in {"claim", "adjust"} /\ todo[a] = {} /\ batch[a] = {}
    /\ CommitCounters(a)
    /\ res' = [r \in Reservations |->
                  IF r \in claims[a]
                  THEN [res[r] EXCEPT !.status = goal[a],
                           !.actual = IF goal[a] = "released" THEN NoUsage
                                      ELSE [l \in Limits |-> IF res[r].items[l] # None
                                                             THEN actual[a][l] ELSE 0]]
                  ELSE res[r]]
    /\ End(a)
    /\ idle' = idle \ claims[a] /\ old' = old \ claims[a]
    /\ UNCHANGED <<expired, admin, updates, errors>>

(* A statement fails, or the database picks a as the victim of a deadlock. *)
Holds(b, a, r, l) ==
    /\ b # a
    /\ IF op[a] = "claim" THEN r \in batch[a] /\ r \in claims[b]
                          ELSE l \in todo[a] /\ draft[b][l] # None

Waiting(a) ==
    \/ /\ op[a] = "claim" /\ batch[a] # {}
       /\ \A r \in batch[a] : ClaimedElsewhere(r, a)
    \/ /\ op[a] \in {"reset", "reserve", "adjust"} /\ todo[a] # {}
       /\ \A l \in todo[a] : Locked(l, a)

Deadlocked(a) ==
    \E cycle \in SUBSET Actors :
        /\ a \in cycle
        /\ \A b \in cycle :
              /\ Waiting(b)
              /\ \E c \in cycle, r \in Reservations, l \in Limits : Holds(c, b, r, l)

Abort(a) ==
    /\ op[a] # "idle"
    /\ \/ Deadlocked(a) /\ UNCHANGED errors
       \/ ~Deadlocked(a) /\ errors < MaxErrors /\ errors' = errors + 1
    /\ Rollback(a)
    /\ UNCHANGED <<ages, admin, updates>>

-----------------------------------------------------------------------------
(* The reservation heartbeat. *)
touch_usage_reservation(r) ==
    /\ res[r].status = "reserved" /\ r \in idle
    /\ \A a \in Actors : r \notin claims[a]
    /\ idle' = idle \ {r}
    /\ UNCHANGED <<rows, old, tx, admin, updates, errors>>

(* The scheduler's sweep of expired limits; each reset is a compare and    *)
(* swap on the window it read.                                             *)
reset_expired_limits(l) ==
    /\ l \in expired /\ \A a \in Actors : draft[a][l] = None
    /\ NewWindow(l, limit[l].win)
    /\ UNCHANGED <<ages, tx, admin, updates, errors>>

(* update_key: the limits are read, and matched rows written later.  The   *)
(* unit of work writes only the columns whose value differs from the one   *)
(* it read.                                                                *)
ReadForUpdate ==
    /\ admin = None /\ updates < MaxUpdates
    /\ admin' = limit
    /\ updates' = updates + 1
    /\ UNCHANGED <<rows, ages, tx, errors>>

written(stored, read, new) == IF new = read THEN stored ELSE new

upsert_limits(maximum, reset_usage) ==
    /\ admin # None /\ \A a \in Actors, l \in Limits : draft[a][l] = None
    /\ admin' = None
    /\ \/ /\ ~reset_usage
          /\ limit' = [l \in Limits |->
                [limit[l] EXCEPT !.max = written(@, admin[l].max, maximum[l])]]
          /\ UNCHANGED expired
       \/ /\ reset_usage /\ UsageResets /\ \A l \in Limits : limit[l].win < MaxWindows
          /\ limit' = [l \in Limits |->
                [current |-> written(limit[l].current, admin[l].current, 0),
                 max |-> written(limit[l].max, admin[l].max, maximum[l]),
                 win |-> limit[l].win + 1]]
          /\ expired' = {}
    /\ UNCHANGED <<res, ages, tx, updates, errors>>

-----------------------------------------------------------------------------
(* Time passes. *)
WindowPasses(l) ==
    /\ l \notin expired /\ limit[l].win < MaxWindows
    /\ expired' = expired \cup {l}
    /\ UNCHANGED <<limit, res, ages, tx, admin, updates, errors>>

GrowsIdle(r) ==
    /\ "idle" \in Ages /\ res[r].status = "reserved" /\ r \notin idle
    /\ idle' = idle \cup {r}
    /\ UNCHANGED <<rows, old, tx, admin, updates, errors>>

GrowsOld(r) ==
    /\ "old" \in Ages /\ res[r].status = "reserved" /\ r \notin old
    /\ old' = old \cup {r}
    /\ UNCHANGED <<rows, idle, tx, admin, updates, errors>>

Usages == [Limits -> Actuals]

ClientStarts(a) ==
    \E r \in Reservations :
        \/ \E applicable \in SUBSET Limits, lapsed \in SUBSET expired :
              enforce_limits_for_request(a, r, applicable, lapsed)
        \/ \E usage \in Usages, status \in Outcomes :
              settle_usage_reservation(a, r, status, usage)
        \/ settle_usage_reservation(a, r, "released", NoUsage)

TxStep(a) ==
    \/ RefetchLimits(a) \/ create_usage_reservation(a) \/ NextOfBatch(a) \/ CommitSettlement(a)
    \/ \E r \in Reservations : Claim(a, r)
    \/ \E l \in Limits :
          lazy_reset(a, l) \/ Adjust(a, l) \/ \E budget \in Budgets : ReserveLimit(a, l, budget)

Next ==
    \/ \E a \in Clients : ClientStarts(a)
    \/ release_stale_usage_reservations
    \/ \E a \in Actors : TxStep(a) \/ Abort(a)
    \/ \E r \in Reservations : touch_usage_reservation(r) \/ GrowsIdle(r) \/ GrowsOld(r)
    \/ \E l \in Limits : reset_expired_limits(l) \/ WindowPasses(l)
    \/ ReadForUpdate
    \/ \E maximum \in [Limits -> MaxValues], reset_usage \in BOOLEAN :
          upsert_limits(maximum, reset_usage)

Spec == Init /\ [][Next]_vars

(* Transactions go on, a transaction that waits for a row is served before *)
(* the same actor can come back for it (lock waits queue), the leader's    *)
(* scheduler keeps sweeping, time passes.                                  *)
FairSpec ==
    /\ Spec
    /\ \A a \in Actors : WF_vars(TxStep(a) \/ (Deadlocked(a) /\ Abort(a)))
    /\ \A a \in Actors, r \in Reservations : SF_vars(Claim(a, r))
    /\ \A a \in Actors, l \in Limits : SF_vars(Adjust(a, l))
    /\ WF_vars(release_stale_usage_reservations)
    /\ \A r \in Reservations : WF_vars(GrowsOld(r))

-----------------------------------------------------------------------------
(* The shape of the state; counters never go below zero. *)
TypeOK ==
    /\ limit \in [Limits -> [current : Nat, max : MaxValues, win : 0..MaxWindows]]
    /\ expired \subseteq Limits
    /\ res \in [Reservations -> [status : Settled \cup {"none", "reserved"},
                                 items : [Limits -> Item \cup {None}],
                                 actual : [Limits -> Nat]]]
    /\ idle \subseteq Reservations /\ old \subseteq Reservations
    /\ op \in [Actors -> {"idle", "reset", "reserve", "claim", "adjust"}]
    /\ goal \in [Actors -> Settled \cup {"none", "reserve"}]
    /\ batch \in [Actors -> SUBSET Reservations] /\ claims \in [Actors -> SUBSET Reservations]
    /\ todo \in [Actors -> SUBSET Limits]
    /\ draft \in [Actors -> [Limits -> Nat \cup {None}]]
    /\ actual \in [Actors -> [Limits -> Nat]]
    /\ updates \in 0..MaxUpdates /\ errors \in 0..MaxErrors

Charge(r, l) ==
    LET item == res[r].items[l]
    IN  CASE item = None -> 0
          [] item # None /\ item.win # limit[l].win -> 0
          [] item # None /\ item.win = limit[l].win ->
                IF res[r].status = "reserved" THEN item.delta ELSE res[r].actual[l]

Charges(l) == [r \in Reservations |-> Charge(r, l)]

(* current_value of a limit is exactly what the reservations of its        *)
(* present window account for: outstanding ones with reserved_delta,       *)
(* finalized and failed ones with actual_delta, released ones with         *)
(* nothing.  Whatever mix of settlers, sweeps, window resets, deadlocks    *)
(* and failing statements ran, nothing is charged twice or refunded twice. *)
LedgerExact ==
    \A l \in Limits :
        limit[l].current = SumFunction(Charges(l))

(* enforce_limits_for_request admits a request only while everything       *)
(* charged to the limit, itself included, is within the max_value then in  *)
(* force, although it decides on rows that may be stale when it writes.    *)
NoOverAdmission ==
    [][\A r \in Reservations, l \in Limits :
          (/\ res[r].status = "none" /\ res'[r].status = "reserved"
           /\ res'[r].items[l] # None /\ res'[r].items[l].delta > 0)
          => limit'[l].current <= limit'[l].max]_vars

(* A reservation nobody settles is reclaimed by the leader's sweep even if *)
(* a leaked heartbeat keeps touching it.                                   *)
OrphansReclaimed ==
    \A r \in Reservations : (res[r].status = "reserved") ~> (res[r].status # "reserved")

(* Every new window, also the one update_key starts for resetUsage, begins *)
(* at zero.                                                                *)
ResetStartsAtZero ==
    [][\A l \in Limits : limit'[l].win # limit[l].win => limit'[l].current = 0]_vars
=============================================================================
