---------------------------- MODULE CapPartition ----------------------------
(***************************************************************************)
(* Cluster-wide account caps: every replica enforces its own share of each *)
(* configured cap, computed from the members it last read from the bridge  *)
(* ring.  A larger share is adopted only once the same partition has been  *)
(* read for a whole stability window.                                      *)
(*                                                                         *)
(* A replica's heartbeat task is a loop: write the own ring row, read the  *)
(* active rows, look up the dashboard's caps, feed the members to the      *)
(* holder.  Between these steps the other replicas run.  Time is counted   *)
(* in ticks; a row's age is the time since last_heartbeat_at.              *)
(***************************************************************************)
EXTENDS Integers, FiniteSets, Folds

CONSTANTS
    Replicas,        \* instance ids, in the order in which they sort
    Kinds,           \* the two caps: of response creations and of streams
    StartupCaps,     \* the caps of the settings
    DashboardCaps,   \* the caps in effect: the dashboard overrides them
    Interval,        \* RING_HEARTBEAT_INTERVAL_SECONDS
    StaleAfter,      \* RING_STALE_THRESHOLD_SECONDS
    Grace,           \* RING_STALE_GRACE_SECONDS
    Window,          \* proxy_account_cap_partition_scale_down_seconds
    MaxGap,          \* bound: the longest time between two rounds of a loop
    MaxUpsets        \* bound: crashes, stops and failures

ASSUME ReplicasAssumption == Replicas \subseteq Nat /\ IsFiniteSet(Replicas)

ASSUME CapsAssumption ==
    {StartupCaps, DashboardCaps} \subseteq [Kinds -> Nat]

\* The order of the module's constants and of the setting's minimum.
ASSUME TimesAssumption ==
    /\ {Interval, StaleAfter, Grace, Window, MaxGap, MaxUpsets} \subseteq Nat
    /\ 0 < Interval /\ Interval <= MaxGap /\ MaxGap < StaleAfter
    /\ Interval <= Grace /\ Grace <= StaleAfter /\ StaleAfter <= Window

VARIABLES
    age,         \* the ring: the age of every replica's row
    pc,          \* where a replica's heartbeat task is
    idle,        \* time since its last round ended
    fetched,     \* the members its unfinished round has read
    adopted,     \* CapPartitionHolder._adopted
    pending,     \* CapPartitionHolder._pending, as a set of at most one
    pendingAge,  \* time since _pending_since
    gatedOn,     \* history: the caps its last observation compared shares by
    seen,        \* history: the partition its last read showed, as a set,
                 \* {} if that read failed
    steady,      \* history: for how long its reads have shown that
    upsets       \* crashes, stops and failures so far

holder == <<adopted, pending, pendingAge>>
history == <<gatedOn, seen, steady>>
vars == <<age, pc, idle, fetched, adopted, pending, pendingAge, gatedOn,
          seen, steady, upsets>>

Partitions == [count : 1..Cardinality(Replicas), rank : 0..Cardinality(Replicas) - 1]
Whole == [count |-> 1, rank |-> 0]
Running == {r \in Replicas : pc[r] # "down"}

-----------------------------------------------------------------------------
(* The pure part: shares, partitions, growth. *)

partition_cap(cap, p) ==
    IF cap <= 0 THEN 0
    ELSE IF p.count <= 1 THEN cap
    ELSE LET share == (cap \div p.count)
                        + (IF p.rank < cap % p.count THEN 1 ELSE 0)
         IN  IF share < 1 THEN 1 ELSE share

\* Mutant: ranks counted from one.
MutantRankFromOne(r, active) ==
    [count |-> Cardinality(active \cup {r}),
     rank  |-> Cardinality({m \in active \cup {r} : m <= r})]

\* The replica itself is counted even when its own row is stale or missing.
PartitionOf(r, active) ==
    [count |-> Cardinality(active \cup {r}),
     rank  |-> Cardinality({m \in active : m < r})]

Grows(old, new, by) ==
    \E k \in Kinds : partition_cap(by[k], new) > partition_cap(by[k], old)

\* Mutant: growth judged by the number of members alone.
MutantAnyResize(old, new, by) == old.count # new.count

could_grow_share(old, new, by) == Grows(old, new, by)

-----------------------------------------------------------------------------
(* The ring. *)

\* The age of a row nobody lists any more, purged or not: a running replica
\* always has a row, and nothing tells a stale row from a missing one.
Silent == StaleAfter + 1

Older(a) == IF a = Silent THEN a ELSE a + 1

\* A row at the threshold is still active: last_heartbeat_at >= cutoff.
list_active == {r \in Replicas : age[r] <= StaleAfter}

Upset == upsets < MaxUpsets /\ upsets' = upsets + 1

-----------------------------------------------------------------------------
(* One replica's heartbeat task. *)

\* A process starts with the whole of every cap.  The registration attempts
\* that fail change nothing; the one that succeeds writes the row.
register(r) ==
    /\ pc[r] = "down"
    /\ pc' = [pc EXCEPT ![r] = "read"]
    /\ age' = [age EXCEPT ![r] = 0]
    /\ UNCHANGED <<idle, fetched, holder, history, upsets>>

heartbeat(r) ==
    /\ pc[r] = "sleep" /\ idle[r] >= Interval
    /\ pc' = [pc EXCEPT ![r] = "read"]
    /\ \/ age' = [age EXCEPT ![r] = 0] /\ UNCHANGED upsets
       \/ Upset /\ UNCHANGED age
    /\ UNCHANGED <<idle, fetched, holder, history>>

read_members(r) ==
    /\ pc[r] = "read"
    /\ pc' = [pc EXCEPT ![r] = "observe"]
    /\ fetched' = [fetched EXCEPT ![r] = list_active]
    /\ UNCHANGED <<age, idle, holder, history, upsets>>

ClearPending(r) ==
    /\ pending' = [pending EXCEPT ![r] = {}]
    /\ pendingAge' = [pendingAge EXCEPT ![r] = 0]

\* Mutant: a failed read leaves the window running.
MutantKeepsPending(r) == UNCHANGED <<pending, pendingAge>>

note_failed_read(r) == ClearPending(r)

fail_read(r) ==
    /\ pc[r] = "read" /\ Upset
    /\ pc' = [pc EXCEPT ![r] = "sleep"]
    /\ idle' = [idle EXCEPT ![r] = 0]
    /\ note_failed_read(r)
    /\ seen' = [seen EXCEPT ![r] = {}]
    /\ steady' = [steady EXCEPT ![r] = 0]
    /\ UNCHANGED <<age, fetched, adopted, gatedOn>>

WindowPassed(r) == pendingAge[r] >= Window

\* Mutant: the pending partition is compared by identity.
MutantEveryReadIsNew(r, observed) == TRUE

NewTarget(r, observed) == observed \notin pending[r]

observe_members(r, observed, by) ==
    \/ /\ observed = adopted[r]
       /\ ClearPending(r)
       /\ UNCHANGED adopted
    \/ /\ observed # adopted[r]
       /\ \/ ~could_grow_share(adopted[r], observed, by)
          \/ ~NewTarget(r, observed) /\ WindowPassed(r)
       /\ adopted' = [adopted EXCEPT ![r] = observed]
       /\ ClearPending(r)
    \/ /\ could_grow_share(adopted[r], observed, by)
       /\ NewTarget(r, observed)
       /\ pending' = [pending EXCEPT ![r] = {observed}]
       /\ pendingAge' = [pendingAge EXCEPT ![r] = 0]
       /\ UNCHANGED adopted
    \/ /\ could_grow_share(adopted[r], observed, by)
       /\ ~NewTarget(r, observed) /\ ~WindowPassed(r)
       /\ UNCHANGED holder

\* A failed look-up of the dashboard's caps falls back to the settings' own.
refresh_cap_partition(r) ==
    /\ pc[r] = "observe"
    /\ pc' = [pc EXCEPT ![r] = "sleep"]
    /\ idle' = [idle EXCEPT ![r] = 0]
    /\ \E by \in {DashboardCaps, StartupCaps} :
          /\ IF by = DashboardCaps THEN UNCHANGED upsets ELSE Upset
          /\ observe_members(r, PartitionOf(r, fetched[r]), by)
          /\ gatedOn' = [gatedOn EXCEPT ![r] = by]
    /\ seen' = [seen EXCEPT ![r] = {PartitionOf(r, fetched[r])}]
    /\ steady' = [steady EXCEPT ![r] = IF seen'[r] = seen[r] THEN @ ELSE 0]
    /\ fetched' = [fetched EXCEPT ![r] = {}]
    /\ UNCHANGED age

\* The process is gone, and its holder with it.
Gone(r) ==
    /\ pc' = [pc EXCEPT ![r] = "down"]
    /\ idle' = [idle EXCEPT ![r] = 0]
    /\ fetched' = [fetched EXCEPT ![r] = {}]
    /\ adopted' = [adopted EXCEPT ![r] = Whole]
    /\ ClearPending(r)
    /\ gatedOn' = [gatedOn EXCEPT ![r] = StartupCaps]
    /\ seen' = [seen EXCEPT ![r] = {}]
    /\ steady' = [steady EXCEPT ![r] = 0]

Crash(r) == pc[r] # "down" /\ Upset /\ Gone(r) /\ UNCHANGED age

\* Shutdown ends the loop and ages the row, whatever its age was.
mark_stale(r) ==
    /\ pc[r] # "down" /\ Upset /\ Gone(r)
    /\ age' = [age EXCEPT ![r] = StaleAfter - Grace]

Tick ==
    /\ \A r \in Running : idle[r] < MaxGap
    /\ age' = [r \in Replicas |-> Older(age[r])]
    /\ idle' = [r \in Replicas |-> IF r \in Running THEN idle[r] + 1 ELSE 0]
    /\ pendingAge' = [r \in Replicas |->
           IF pending[r] # {} /\ pendingAge[r] < Window
           THEN pendingAge[r] + 1 ELSE pendingAge[r]]
    /\ steady' = [r \in Replicas |->
           IF seen[r] # {} /\ steady[r] < Window
           THEN steady[r] + 1 ELSE steady[r]]
    /\ UNCHANGED <<pc, fetched, adopted, pending, gatedOn, seen, upsets>>

-----------------------------------------------------------------------------
Init ==
    /\ age = [r \in Replicas |-> Silent]
    /\ pc = [r \in Replicas |-> "down"]
    /\ idle = [r \in Replicas |-> 0]
    /\ fetched = [r \in Replicas |-> {}]
    /\ adopted = [r \in Replicas |-> Whole]
    /\ pending = [r \in Replicas |-> {}]
    /\ pendingAge = [r \in Replicas |-> 0]
    /\ gatedOn = [r \in Replicas |-> StartupCaps]
    /\ seen = [r \in Replicas |-> {}]
    /\ steady = [r \in Replicas |-> 0]
    /\ upsets = 0

Round(r) ==
    heartbeat(r) \/ read_members(r) \/ refresh_cap_partition(r)

Next ==
    \/ \E r \in Replicas : \/ register(r) \/ Round(r) \/ fail_read(r)
                           \/ Crash(r) \/ mark_stale(r)
    \/ Tick

\* Time passes and the event loops run their heartbeat tasks: a task does one
\* round per Interval and time waits for every task, so nobody is starved.
Fairness == WF_vars(Tick \/ \E r \in Replicas : Round(r))

Spec == Init /\ [][Next]_vars /\ Fairness

-----------------------------------------------------------------------------
\* Every variable has its type: in particular an adopted partition is one a
\* ring can have, with the replica's rank below the number of members.
TypeOK ==
    /\ age \in [Replicas -> 0..Silent]
    /\ pc \in [Replicas -> {"down", "read", "observe", "sleep"}]
    /\ idle \in [Replicas -> 0..MaxGap]
    /\ fetched \in [Replicas -> SUBSET Replicas]
    /\ adopted \in [Replicas -> Partitions]
    /\ \A r \in Replicas : adopted[r].rank < adopted[r].count
    /\ pending \in [Replicas -> SUBSET Partitions]
    /\ \A r \in Replicas : Cardinality(pending[r]) <= 1
    /\ pendingAge \in [Replicas -> 0..Window]
    /\ gatedOn \in [Replicas -> {StartupCaps, DashboardCaps}]
    /\ seen \in [Replicas -> SUBSET Partitions]
    /\ steady \in [Replicas -> 0..Window]
    /\ upsets \in 0..MaxUpsets

\* No replica's share of a cap it compares by grows unless every read it made
\* over a whole stability window showed the partition it adopts, without a
\* failed read in between (observe_members, note_failed_read): a missed
\* heartbeat, a rolling replacement or a read outage inflates no share.
GrowthEarned ==
    [][\A r \in Running :
          r \in Running' /\ Grows(adopted[r], adopted'[r], gatedOn'[r])
            => seen[r] = {adopted'[r]} /\ steady[r] >= Window]_vars

\* What the running replicas admit together.
SumOfShares(k) ==
    MapThenFoldSet(+, 0, LAMBDA r : partition_cap(DashboardCaps[k], adopted[r]),
                   LAMBDA S : CHOOSE r \in S : TRUE, Running)

\* Every running replica's last read showed the ring as it is, and none of
\* them compared by other caps than those in effect.
AllAgree ==
    \A r \in Running :
        seen[r] = {PartitionOf(r, Running)} /\ gatedOn[r] = DashboardCaps

\* A replica holds the ring it reads back, because its share of another cap
\* would grow, although its share of this one would shrink.
HoldsMixedChange(r, k) ==
    \E p \in seen[r] :
        /\ partition_cap(DashboardCaps[k], p) < partition_cap(DashboardCaps[k], adopted[r])
        /\ Grows(adopted[r], p, DashboardCaps)

\* Once every replica has read the ring as it is, the shares they enforce add
\* up to no more than the cap (or to one slot each, where the cap is smaller
\* than the ring), although some of them may still hold the partition of an
\* older ring back for their stability window (partition_cap, observe_members).
\* The exception is what the growth test makes of a change that moves the two
\* caps in opposite directions: it is held back as a whole.
SharesFitCap ==
    AllAgree => \A k \in Kinds :
        DashboardCaps[k] > 0 =>
            \/ SumOfShares(k) <= LET R == Cardinality(Running)
                                 IN  IF DashboardCaps[k] > R THEN DashboardCaps[k] ELSE R
            \/ \E r \in Running : HoldsMixedChange(r, k)

\* After the last crash, stop or failure every running replica comes to hold
\* its exact part of the ring and keeps it: the share of a dead replica is
\* taken over, the share of a new one made room for (observe_members).
CapacityReclaimed ==
    <>[](\A r \in Running : adopted[r] = PartitionOf(r, Running))
=============================================================================
