------------------------- MODULE CapPartitionProofs -------------------------
(***************************************************************************)
(* Proofs about CapPartition for every set of replicas, all caps, every    *)
(* stability window and any number of crashes and failures.                *)
(***************************************************************************)
EXTENDS CapPartition, FiniteSetTheorems, WellFoundedInduction, TLAPS

(* A pending partition is the one every read has shown for as long as it   *)
(* has been pending.                                                       *)
PendingWatched(r) ==
    pending[r] # {} =>
        /\ \E p \in Partitions : pending[r] = {p}
        /\ pending[r] = seen[r]
        /\ pendingAge[r] <= steady[r]

(* A replica that does not hold what it last read holds it back because it *)
(* would grow a share.                                                     *)
ReadHeeded(r) ==
    \A p \in seen[r] : adopted[r] = p \/ Grows(adopted[r], p, gatedOn[r])

IInv ==
    /\ TypeOK
    /\ \A r \in Replicas : PendingWatched(r) /\ ReadHeeded(r)

-----------------------------------------------------------------------------
(* What a replica computes from a list of members is a partition of that   *)
(* ring: it counts at least itself and its rank is below the count.        *)
LEMMA PartitionOfType ==
    ASSUME NEW r \in Replicas, NEW active \in SUBSET Replicas
    PROVE  /\ PartitionOf(r, active) \in Partitions
           /\ PartitionOf(r, active).rank < PartitionOf(r, active).count
  <1> DEFINE all == active \cup {r}
             lower == {m \in active : m < r}
  <1>1. all \subseteq Replicas /\ IsFiniteSet(Replicas)
    BY ReplicasAssumption
  <1>2. IsFiniteSet(all) /\ Cardinality(all) <= Cardinality(Replicas)
    BY <1>1, FS_Subset
  <1>3. lower \subseteq all \ {r}
    BY ReplicasAssumption
  <1>4. IsFiniteSet(all \ {r}) /\ Cardinality(all \ {r}) = Cardinality(all) - 1
    BY <1>2, FS_RemoveElement
  <1>5. IsFiniteSet(lower) /\ Cardinality(lower) <= Cardinality(all) - 1
    BY <1>3, <1>4, FS_Subset
  <1>6. Cardinality(lower) \in Nat /\ Cardinality(all) \in Nat /\ Cardinality(Replicas) \in Nat
    BY <1>1, <1>2, <1>5, FS_CardinalityType
  <1>7. Cardinality(lower) \in 0..Cardinality(Replicas) - 1 /\ Cardinality(all) \in 1..Cardinality(Replicas)
    BY <1>2, <1>5, <1>6
  <1> QED
    BY <1>5, <1>6, <1>7 DEF PartitionOf, Partitions

(* The share of a replica that has not joined a ring is the whole cap. *)
LEMMA WholeType ==
    ASSUME Replicas # {}
    PROVE  Whole \in Partitions /\ Whole.rank < Whole.count
  <1>1. PICK r \in Replicas : TRUE
    OBVIOUS
  <1>2. IsFiniteSet({r}) /\ Cardinality({r}) = 1
    BY FS_Singleton
  <1>3. Cardinality(Replicas) \in Nat /\ 1 <= Cardinality(Replicas)
    BY <1>1, <1>2, FS_Subset, FS_CardinalityType, ReplicasAssumption
  <1> QED
    BY <1>3 DEF Whole, Partitions

(* A share is a number of slots. *)
LEMMA ShareType ==
    ASSUME NEW cap \in Nat, NEW p \in Partitions
    PROVE  partition_cap(cap, p) \in Nat
  <1>1. p.count \in Nat /\ p.rank \in Int
    <2>1. Cardinality(Replicas) \in Nat
      BY FS_CardinalityType, ReplicasAssumption
    <2> QED
      BY <2>1 DEF Partitions
  <1>2. CASE p.count <= 1
    BY <1>1, <1>2 DEF partition_cap
  <1>3. CASE p.count > 1
    <2>1. cap \div p.count \in Nat
      BY <1>1, <1>3
    <2> QED
      BY <1>1, <1>3, <2>1 DEF partition_cap
  <1> QED
    BY <1>1, <1>2, <1>3

(* Keeping a partition grows no share. *)
LEMMA NoGrowthByStaying ==
    ASSUME NEW p \in Partitions, NEW by \in {StartupCaps, DashboardCaps}
    PROVE  ~Grows(p, p, by)
  <1>1. \A k \in Kinds : by[k] \in Nat
    BY CapsAssumption
  <1>2. \A k \in Kinds : partition_cap(by[k], p) \in Nat
    BY <1>1, ShareType
  <1> QED
    BY <1>2 DEF Grows

-----------------------------------------------------------------------------
(* The inductive invariant, action by action. *)

(* No replica has joined, read or held anything back. *)
LEMMA InitIInv == Init => IInv
  <1> SUFFICES ASSUME Init PROVE IInv
    OBVIOUS
  <1>1. TypeOK
    <2>1. \A r \in Replicas : Whole \in Partitions /\ Whole.rank < Whole.count
      BY WholeType
    <2>2. Cardinality({}) = 0
      BY FS_EmptySet
    <2> QED
      BY <2>1, <2>2, TimesAssumption DEF Init, TypeOK, Silent
  <1> QED
    BY <1>1 DEF Init, IInv, PendingWatched, ReadHeeded

(* Replica r drops what it was waiting for. *)
LEMMA ClearPendingType ==
    ASSUME TypeOK, NEW r \in Replicas, ClearPending(r)
    PROVE  /\ pending' \in [Replicas -> SUBSET Partitions]
           /\ \A q \in Replicas : Cardinality(pending'[q]) <= 1
           /\ pendingAge' \in [Replicas -> 0..Window]
           /\ \A q \in Replicas : q # r => pending'[q] = pending[q] /\ pendingAge'[q] = pendingAge[q]
           /\ pending'[r] = {}
  <1>1. Cardinality({}) = 0
    BY FS_EmptySet
  <1> QED
    BY <1>1, TimesAssumption DEF ClearPending, TypeOK

(* What is kept for a replica an action leaves alone. *)
LEMMA OthersKeep ==
    ASSUME NEW q \in Replicas, PendingWatched(q), ReadHeeded(q),
           pending'[q] = pending[q], pendingAge'[q] = pendingAge[q],
           seen'[q] = seen[q], steady'[q] = steady[q],
           adopted'[q] = adopted[q], gatedOn'[q] = gatedOn[q]
    PROVE  PendingWatched(q)' /\ ReadHeeded(q)'
  BY DEF PendingWatched, ReadHeeded

(* A heartbeat row is written: no replica learns anything yet. *)
LEMMA RegisterStep ==
    ASSUME IInv, NEW r \in Replicas, register(r) \/ heartbeat(r) \/ read_members(r)
    PROVE  IInv'
  <1>1. TypeOK'
    <2>1. CASE register(r)
      BY <2>1, TimesAssumption DEF IInv, TypeOK, register, holder, history, Silent
    <2>2. CASE heartbeat(r)
      <3>1. age' \in [Replicas -> 0..Silent] /\ upsets' \in 0..MaxUpsets
        BY <2>2, TimesAssumption DEF IInv, TypeOK, heartbeat, Upset, Silent
      <3> QED
        BY <2>2, <3>1 DEF IInv, TypeOK, heartbeat, holder, history
    <2>3. CASE read_members(r)
      BY <2>3 DEF IInv, TypeOK, read_members, holder, history, list_active
    <2> QED
      BY <2>1, <2>2, <2>3
  <1>2. UNCHANGED <<pending, pendingAge, seen, steady, adopted, gatedOn>>
    BY DEF register, heartbeat, read_members, holder, history
  <1> QED
    BY <1>1, <1>2, OthersKeep DEF IInv

(* A failed read starts the watch over. *)
LEMMA FailReadStep ==
    ASSUME IInv, NEW r \in Replicas, fail_read(r)
    PROVE  IInv'
  <1>0. TypeOK /\ ClearPending(r)
    BY DEF IInv, fail_read, note_failed_read
  <1>1. TypeOK'
    BY <1>0, ClearPendingType, TimesAssumption DEF TypeOK, fail_read, Upset
  <1>2. PendingWatched(r)' /\ ReadHeeded(r)'
    BY <1>0, ClearPendingType DEF PendingWatched, ReadHeeded, fail_read, TypeOK
  <1>3. ASSUME NEW q \in Replicas, q # r PROVE PendingWatched(q)' /\ ReadHeeded(q)'
    BY <1>0, <1>3, ClearPendingType, OthersKeep DEF fail_read, IInv, TypeOK
  <1> QED
    BY <1>1, <1>2, <1>3 DEF IInv

(* A crash or an orderly exit forgets what the replica was watching. *)
LEMMA GoneStep ==
    ASSUME IInv, NEW r \in Replicas, Crash(r) \/ mark_stale(r)
    PROVE  IInv'
  <1>0. TypeOK /\ ClearPending(r) /\ Gone(r) /\ Upset
    BY DEF IInv, Gone, Crash, mark_stale
  <1>1. TypeOK'
    <2>1. Whole \in Partitions /\ Whole.rank < Whole.count
      BY WholeType
    <2>2. age' \in [Replicas -> 0..Silent]
      BY <1>0, TimesAssumption DEF TypeOK, Crash, mark_stale, Silent
    <2>3. adopted' \in [Replicas -> Partitions] /\ \A q \in Replicas : adopted'[q].rank < adopted'[q].count
      BY <1>0, <2>1 DEF TypeOK, Gone
    <2>4. upsets' \in 0..MaxUpsets
      BY <1>0, TimesAssumption DEF TypeOK, Upset
    <2>5. /\ pending' \in [Replicas -> SUBSET Partitions]
          /\ \A q \in Replicas : Cardinality(pending'[q]) <= 1
          /\ pendingAge' \in [Replicas -> 0..Window]
      BY <1>0, ClearPendingType
    <2>6. gatedOn' \in [Replicas -> {StartupCaps, DashboardCaps}]
      BY <1>0 DEF TypeOK, Gone
    <2>7. /\ pc' \in [Replicas -> {"down", "read", "observe", "sleep"}]
          /\ idle' \in [Replicas -> 0..MaxGap]
          /\ fetched' \in [Replicas -> SUBSET Replicas]
          /\ seen' \in [Replicas -> SUBSET Partitions]
          /\ steady' \in [Replicas -> 0..Window]
      BY <1>0, TimesAssumption DEF TypeOK, Gone
    <2> QED
      BY <2>2, <2>3, <2>4, <2>5, <2>6, <2>7 DEF TypeOK
  <1>2. PendingWatched(r)' /\ ReadHeeded(r)'
    BY <1>0, ClearPendingType DEF PendingWatched, ReadHeeded, Gone, TypeOK
  <1>3. ASSUME NEW q \in Replicas, q # r PROVE PendingWatched(q)' /\ ReadHeeded(q)'
    BY <1>0, <1>3, ClearPendingType, OthersKeep DEF Gone, IInv, TypeOK
  <1> QED
    BY <1>1, <1>2, <1>3 DEF IInv

(* Time passes for what is pending and for what was read alike. *)
LEMMA TickStep ==
    ASSUME IInv, Tick
    PROVE  IInv'
  <1>1. TypeOK'
    <2>1. age' \in [Replicas -> 0..Silent]
      <3>1. \A a \in 0..Silent : Older(a) \in 0..Silent
        BY TimesAssumption DEF Older, Silent
      <3> QED
        BY <3>1 DEF IInv, TypeOK, Tick
    <2>2. idle' \in [Replicas -> 0..MaxGap]
      BY TimesAssumption DEF IInv, TypeOK, Tick, Running
    <2>3. pendingAge' \in [Replicas -> 0..Window] /\ steady' \in [Replicas -> 0..Window]
      BY TimesAssumption DEF IInv, TypeOK, Tick
    <2> QED
      BY <2>1, <2>2, <2>3 DEF IInv, TypeOK, Tick
  <1>2. ASSUME NEW q \in Replicas PROVE PendingWatched(q)'
    <2>1. pendingAge[q] \in 0..Window /\ steady[q] \in 0..Window /\ Window \in Nat
      BY TimesAssumption DEF IInv, TypeOK
    <2>2. PendingWatched(q)
      BY DEF IInv
    <2> QED
      BY <2>1, <2>2 DEF Tick, PendingWatched
  <1>3. ASSUME NEW q \in Replicas PROVE ReadHeeded(q)'
    BY DEF Tick, ReadHeeded, IInv
  <1> QED
    BY <1>1, <1>2, <1>3 DEF IInv

(* The observation of the members just read. *)
LEMMA ObserveStep ==
    ASSUME IInv, NEW r \in Replicas, refresh_cap_partition(r)
    PROVE  IInv'
  <1> DEFINE observed == PartitionOf(r, fetched[r])
  <1>0. TypeOK /\ PendingWatched(r)
    BY DEF IInv
  <1>1. observed \in Partitions /\ observed.rank < observed.count
    BY <1>0, PartitionOfType DEF TypeOK
  <1>2. PICK by \in {DashboardCaps, StartupCaps} :
            /\ IF by = DashboardCaps THEN UNCHANGED upsets ELSE Upset
            /\ observe_members(r, observed, by)
            /\ gatedOn' = [gatedOn EXCEPT ![r] = by]
    BY DEF refresh_cap_partition
  <1>3. /\ seen' = [seen EXCEPT ![r] = {observed}]
        /\ steady' = [steady EXCEPT ![r] = IF {observed} = seen[r] THEN @ ELSE 0]
    BY <1>0 DEF refresh_cap_partition, TypeOK
  <1> HIDE DEF observed
  <1>4. \/ ClearPending(r) /\ adopted[r] = observed /\ UNCHANGED adopted
        \/ ClearPending(r) /\ adopted' = [adopted EXCEPT ![r] = observed]
        \/ /\ Grows(adopted[r], observed, by)
           /\ pending' = [pending EXCEPT ![r] = {observed}]
           /\ pendingAge' = [pendingAge EXCEPT ![r] = 0]
           /\ UNCHANGED adopted
        \/ /\ Grows(adopted[r], observed, by)
           /\ observed \in pending[r]
           /\ UNCHANGED <<adopted, pending, pendingAge>>
    BY <1>2 DEF observe_members, could_grow_share, NewTarget, holder
  <1>5. /\ adopted' \in [Replicas -> Partitions]
        /\ \A q \in Replicas : adopted'[q].rank < adopted'[q].count
        /\ \A q \in Replicas : q # r => adopted'[q] = adopted[q]
        /\ adopted'[r] = observed \/ Grows(adopted'[r], observed, by)
    BY <1>0, <1>1, <1>4 DEF TypeOK
  <1>6. /\ pending' \in [Replicas -> SUBSET Partitions]
        /\ \A q \in Replicas : Cardinality(pending'[q]) <= 1
        /\ pendingAge' \in [Replicas -> 0..Window]
        /\ \A q \in Replicas : q # r => pending'[q] = pending[q] /\ pendingAge'[q] = pendingAge[q]
    <2>1. Cardinality({observed}) = 1
      BY FS_Singleton
    <2>2. CASE ClearPending(r)
      BY <1>0, <2>2, ClearPendingType
    <2>3. CASE /\ pending' = [pending EXCEPT ![r] = {observed}]
               /\ pendingAge' = [pendingAge EXCEPT ![r] = 0]
      BY <1>0, <1>1, <2>1, <2>3, TimesAssumption DEF TypeOK
    <2>4. CASE UNCHANGED <<pending, pendingAge>>
      BY <1>0, <2>4 DEF TypeOK
    <2> QED
      BY <1>4, <2>2, <2>3, <2>4
  <1>7. TypeOK'
    <2>1. upsets' \in 0..MaxUpsets
      BY <1>0, <1>2, TimesAssumption DEF TypeOK, Upset
    <2>2. gatedOn' \in [Replicas -> {StartupCaps, DashboardCaps}]
      BY <1>0, <1>2 DEF TypeOK
    <2>3. seen' \in [Replicas -> SUBSET Partitions] /\ steady' \in [Replicas -> 0..Window]
      BY <1>0, <1>1, <1>3, TimesAssumption DEF TypeOK
    <2> QED
      BY <1>0, <1>5, <1>6, <2>1, <2>2, <2>3, TimesAssumption DEF TypeOK, refresh_cap_partition
  <1>8. PendingWatched(r)'
    <2>1. seen'[r] = {observed} /\ steady'[r] = IF {observed} = seen[r] THEN steady[r] ELSE 0
      BY <1>0, <1>3 DEF TypeOK
    <2>2. steady[r] \in Nat
      BY <1>0, TimesAssumption DEF TypeOK
    <2>3. CASE ClearPending(r)
      BY <1>0, <2>3, ClearPendingType DEF PendingWatched
    <2>4. CASE /\ pending' = [pending EXCEPT ![r] = {observed}]
               /\ pendingAge' = [pendingAge EXCEPT ![r] = 0]
      BY <1>0, <1>1, <2>1, <2>2, <2>4 DEF PendingWatched, TypeOK
    <2>5. CASE observed \in pending[r] /\ UNCHANGED <<pending, pendingAge>>
      BY <1>0, <1>1, <2>1, <2>5 DEF PendingWatched
    <2> QED
      BY <1>4, <2>3, <2>4, <2>5
  <1>9. ReadHeeded(r)'
    BY <1>0, <1>2, <1>3, <1>5 DEF ReadHeeded, TypeOK
  <1>10. ASSUME NEW q \in Replicas, q # r PROVE PendingWatched(q)' /\ ReadHeeded(q)'
    BY <1>0, <1>2, <1>3, <1>5, <1>6, <1>10, OthersKeep DEF IInv, TypeOK
  <1> QED
    BY <1>7, <1>8, <1>9, <1>10 DEF IInv

(* Every step keeps the invariant. *)
LEMMA NextIInv == IInv /\ [Next]_vars => IInv'
  <1> SUFFICES ASSUME IInv, [Next]_vars PROVE IInv'
    OBVIOUS
  <1>1. CASE UNCHANGED vars
    BY <1>1 DEF vars, IInv, TypeOK, PendingWatched, ReadHeeded
  <1>2. CASE Tick
    BY <1>2, TickStep
  <1>3. ASSUME NEW r \in Replicas,
               register(r) \/ Round(r) \/ fail_read(r) \/ Crash(r) \/ mark_stale(r)
        PROVE  IInv'
    BY <1>3, RegisterStep, ObserveStep, FailReadStep, GoneStep DEF Round
  <1> QED
    BY <1>1, <1>2, <1>3 DEF Next

(* What the other theorems use: whatever crashes, stops or fails, a pending *)
(* partition has been read all the while it was pending, and a replica that *)
(* holds back what it read does so to keep a share from growing            *)
(* (observe_members, note_failed_read).                                    *)
THEOREM SafetyInvariant == Spec => []IInv
  BY InitIInv, NextIInv, PTL DEF Spec

(* Every variable keeps its type: an adopted partition is always one a     *)
(* ring can have, with the replica's rank below the number of members.     *)
THEOREM TypeCorrect == Spec => []TypeOK
  <1>1. IInv => TypeOK
    BY DEF IInv
  <1> QED
    BY <1>1, SafetyInvariant, PTL

(* No share grows unless every read of a whole stability window showed the *)
(* partition it grows by (observe_members, note_failed_read), on rings of  *)
(* any size, for all caps and for every window.                            *)
THEOREM GrowthIsEarned == Spec => GrowthEarned
  <1> DEFINE Earned == \A r \in Running :
                 r \in Running' /\ Grows(adopted[r], adopted'[r], gatedOn'[r])
                   => seen[r] = {adopted'[r]} /\ steady[r] >= Window
  <1>1. IInv /\ IInv' /\ [Next]_vars => [Earned]_vars
    <2> SUFFICES ASSUME IInv, IInv', Next, NEW r \in Replicas, r \in Running, r \in Running',
                        Grows(adopted[r], adopted'[r], gatedOn'[r])
                 PROVE  seen[r] = {adopted'[r]} /\ steady[r] >= Window
      BY DEF Running
    <2>1. TypeOK /\ TypeOK' /\ PendingWatched(r)
      BY DEF IInv
    <2>2. adopted'[r] # adopted[r]
      <3>1. adopted[r] \in Partitions /\ gatedOn'[r] \in {StartupCaps, DashboardCaps}
        BY <2>1 DEF TypeOK
      <3> QED
        BY <3>1, NoGrowthByStaying
    <2>3. refresh_cap_partition(r)
      <3>1. CASE Tick
        BY <2>2, <3>1 DEF Tick
      <3>2. ASSUME NEW q \in Replicas,
                   register(q) \/ heartbeat(q) \/ read_members(q) \/ fail_read(q)
            PROVE  FALSE
        BY <2>2, <3>2 DEF register, heartbeat, read_members, fail_read, holder
      <3>3. ASSUME NEW q \in Replicas, Crash(q) \/ mark_stale(q)
            PROVE  FALSE
        BY <2>1, <2>2, <3>3 DEF Crash, mark_stale, Gone, Running, TypeOK
      <3>4. ASSUME NEW q \in Replicas, refresh_cap_partition(q), q # r
            PROVE  FALSE
        BY <2>1, <2>2, <3>4 DEF refresh_cap_partition, observe_members, holder, TypeOK
      <3> QED
        BY <3>1, <3>2, <3>3, <3>4 DEF Next, Round
    <2> DEFINE observed == PartitionOf(r, fetched[r])
    <2>4. PICK by : /\ observe_members(r, observed, by)
                    /\ gatedOn' = [gatedOn EXCEPT ![r] = by]
      BY <2>3 DEF refresh_cap_partition
    <2>5. gatedOn'[r] = by
      BY <2>1, <2>4 DEF TypeOK
    <2> HIDE DEF observed
    <2>6. adopted'[r] = observed /\ observed \in pending[r] /\ pendingAge[r] >= Window
      BY <2>1, <2>2, <2>4, <2>5
         DEF observe_members, could_grow_share, NewTarget, WindowPassed, holder, TypeOK
    <2>7. pendingAge[r] \in Nat /\ steady[r] \in Nat /\ Window \in Nat
      BY <2>1, TimesAssumption DEF TypeOK
    <2> QED
      BY <2>1, <2>6, <2>7 DEF PendingWatched
  <1> QED
    BY <1>1, SafetyInvariant, PTL DEF Spec, GrowthEarned

-----------------------------------------------------------------------------
(* Sums over finite sets. *)

(* Induction over the numbers in a set that holds zero and every successor. *)
LEMMA NatSetInduction ==
    ASSUME NEW T \in SUBSET Nat, 0 \in T, \A n \in T : n + 1 \in T
    PROVE  \A n \in Nat : n \in T
  <1> DEFINE U == Nat \ T
  <1> SUFFICES ASSUME U # {} PROVE FALSE
    OBVIOUS
  <1>1. \A x, y \in Nat : x < y => <<x, y>> \in OpToRel(<, Nat)
    BY DEF OpToRel
  <1>2. \E m \in U : \A u \in U : ~(<<u, m>> \in OpToRel(<, Nat))
    BY NatLessThanWellFounded, WFMin
  <1>3. PICK m \in U : \A u \in U : ~(<<u, m>> \in OpToRel(<, Nat))
    BY <1>2
  <1>4. m \in Nat /\ m # 0
    OBVIOUS
  <1>5. m - 1 \in Nat /\ m - 1 < m /\ (m - 1) + 1 = m
    BY <1>4
  <1>6. m - 1 \in T
    BY <1>1, <1>3, <1>4, <1>5
  <1> QED
    BY <1>5, <1>6

First(s) == CHOOSE r \in s : TRUE

(* g adds up the weights w over every subset of S, first member by first. *)
SumsTo(w, S, g) ==
    g = [s \in SUBSET S |-> IF s = {} THEN 0 ELSE w[First(s)] + g[s \ {First(s)}]]

(* Such a function exists: it is built for ever larger subsets. *)
LEMMA SumExists ==
    ASSUME NEW S, IsFiniteSet(S), NEW w
    PROVE  \E g : SumsTo(w, S, g)
  <1> DEFINE Upto(n) == {s \in SUBSET S : Cardinality(s) <= n}
             Good(n, g) == g = [s \in Upto(n) |->
                 IF s = {} THEN 0 ELSE w[First(s)] + g[s \ {First(s)}]]
             T == {n \in Nat : \E g : Good(n, g)}
  <1>1. \A s \in SUBSET S : IsFiniteSet(s) /\ Cardinality(s) \in Nat /\ Cardinality(s) <= Cardinality(S)
    BY FS_Subset, FS_CardinalityType
  <1>2. \A s \in SUBSET S : Cardinality(s) = 0 <=> s = {}
    BY <1>1, FS_EmptySet
  <1>3. \A s \in SUBSET S : s # {} => /\ First(s) \in s
                                      /\ s \ {First(s)} \in SUBSET S
                                      /\ Cardinality(s \ {First(s)}) = Cardinality(s) - 1
    BY <1>1, FS_RemoveElement DEF First
  <1>4. 0 \in T
    <2> DEFINE g == [s \in Upto(0) |-> 0]
    <2>1. \A s \in Upto(0) : s = {}
      BY <1>1, <1>2
    <2>2. Good(0, g)
      BY <2>1
    <2> QED
      BY <2>2
  <1>5. ASSUME NEW n \in T PROVE n + 1 \in T
    <2>1. PICK g : Good(n, g)
      OBVIOUS
    <2> DEFINE h == [s \in Upto(n + 1) |->
                       IF s = {} THEN 0 ELSE w[First(s)] + g[s \ {First(s)}]]
    <2>2. ASSUME NEW s \in Upto(n) PROVE s \in Upto(n + 1) /\ h[s] = g[s]
      <3>1. s \in Upto(n + 1)
        BY <1>1
      <3> QED
        BY <2>1, <3>1
    <2>3. ASSUME NEW s \in Upto(n + 1), s # {} PROVE s \ {First(s)} \in Upto(n)
      BY <1>1, <1>3, <2>3
    <2>4. ASSUME NEW s \in Upto(n + 1), s # {} PROVE h[s \ {First(s)}] = g[s \ {First(s)}]
      BY <2>2, <2>3, <2>4
    <2>5. Good(n + 1, h)
      BY <2>4
    <2>6. n \in Nat
      OBVIOUS
    <2> QED
      <3> HIDE DEF Good, h
      <3> QED
        BY <2>5, <2>6
  <1>6. \A n \in Nat : n \in T
    <2> HIDE DEF T
    <2>1. T \in SUBSET Nat
      BY DEF T
    <2> QED
      BY <1>4, <1>5, <2>1, NatSetInduction
  <1>7. Cardinality(S) \in T /\ Upto(Cardinality(S)) = SUBSET S
    BY <1>1, <1>6
  <1> QED
    BY <1>7 DEF SumsTo

Excess(w, S, base) == {r \in S : w[r] > base}

(* Weights of at most base + 1 sum up to base for every member and one more *)
(* for every member that exceeds it.                                        *)
LEMMA SumBound ==
    ASSUME NEW S, IsFiniteSet(S), NEW w \in [S -> Nat], NEW g, SumsTo(w, S, g),
           NEW base \in Nat, \A r \in S : w[r] <= base + 1
    PROVE  /\ g[S] \in Nat
           /\ g[S] <= base * Cardinality(S) + Cardinality(Excess(w, S, base))
  <1> DEFINE Over(s) == {r \in s : w[r] > base}
             Fits(s) == g[s] \in Nat /\ g[s] <= base * Cardinality(s) + Cardinality(Over(s))
             T == {n \in Nat : \A s \in SUBSET S : Cardinality(s) = n => Fits(s)}
  <1>1. \A s \in SUBSET S : IsFiniteSet(s) /\ Cardinality(s) \in Nat
    BY FS_Subset, FS_CardinalityType
  <1>2. 0 \in T
    <2> SUFFICES ASSUME NEW s \in SUBSET S, Cardinality(s) = 0 PROVE Fits(s)
      OBVIOUS
    <2>1. s = {}
      BY <1>1, FS_EmptySet
    <2>2. g[s] = 0
      BY <2>1 DEF SumsTo
    <2>3. Over(s) = {}
      BY <2>1
    <2> QED
      BY <2>1, <2>2, <2>3, FS_EmptySet
  <1>3. ASSUME NEW n \in T PROVE n + 1 \in T
    <2> SUFFICES ASSUME NEW s \in SUBSET S, Cardinality(s) = n + 1 PROVE Fits(s)
      OBVIOUS
    <2> DEFINE x == First(s)
               t == s \ {x}
    <2>1. s # {}
      <3>1. n \in Nat
        OBVIOUS
      <3> HIDE DEF T
      <3> QED
        BY <3>1, FS_EmptySet
    <2>2. x \in s /\ x \in S
      BY <2>1 DEF First
    <2>3. t \in SUBSET S /\ Cardinality(t) = n
      BY <1>1, <2>2, FS_RemoveElement
    <2>4. g[s] = w[x] + g[t]
      BY <2>1 DEF SumsTo
    <2>5. w[x] \in Nat /\ w[x] <= base + 1
      BY <2>2
    <2>6. Fits(t)
      BY <2>3
    <2>7. IsFiniteSet(Over(t)) /\ Cardinality(Over(t)) \in Nat
      BY <1>1, <2>3, FS_Subset, FS_CardinalityType
    <2>8. base * (n + 1) = base * n + base /\ base * n \in Nat /\ base * (n + 1) \in Nat
      OBVIOUS
    <2>9. CASE w[x] > base
      <3>1. Over(s) = Over(t) \cup {x} /\ x \notin Over(t)
        BY <2>2, <2>9
      <3>2. Cardinality(Over(s)) = Cardinality(Over(t)) + 1
        BY <2>7, <3>1, FS_AddElement
      <3> QED
        <4> HIDE DEF x, t, Over
        <4> QED
          BY <2>3, <2>4, <2>5, <2>6, <2>7, <2>8, <3>2
    <2>10. CASE w[x] <= base
      <3>1. Over(s) = Over(t)
        BY <2>2, <2>5, <2>10
      <3> QED
        <4> HIDE DEF x, t, Over
        <4> QED
          BY <2>3, <2>4, <2>5, <2>6, <2>7, <2>8, <2>10, <3>1
    <2> QED
      BY <2>5, <2>9, <2>10
  <1>4. \A n \in Nat : n \in T
    <2> HIDE DEF T
    <2>1. T \in SUBSET Nat
      BY DEF T
    <2> QED
      BY <1>2, <1>3, <2>1, NatSetInduction
  <1>5. Fits(S)
    BY <1>1, <1>4
  <1> QED
    BY <1>5 DEF Excess

(* Replicas of one ring have different ranks. *)
LEMMA RanksDiffer ==
    ASSUME NEW A \in SUBSET Replicas, NEW r \in A, NEW q \in A, r < q
    PROVE  PartitionOf(r, A).rank < PartitionOf(q, A).rank
  <1> DEFINE Lower(m) == {l \in A : l < m}
  <1>1. A \in SUBSET Nat /\ IsFiniteSet(A)
    BY ReplicasAssumption, FS_Subset
  <1>2. \A m \in A : IsFiniteSet(Lower(m)) /\ Cardinality(Lower(m)) \in Nat
    BY <1>1, FS_Subset, FS_CardinalityType
  <1>3. r \notin Lower(r) /\ Lower(r) \cup {r} \in SUBSET Lower(q)
    <2>1. r \in Nat /\ q \in Nat /\ \A l \in A : l \in Nat
      BY <1>1
    <2>2. ~(r < r) /\ \A l \in A : l < r => l < q
      BY <2>1
    <2>3. \A l \in Lower(r) : l \in Lower(q)
      BY <2>2
    <2> QED
      BY <2>2, <2>3
  <1>4. Cardinality(Lower(r) \cup {r}) = Cardinality(Lower(r)) + 1
    BY <1>2, <1>3, FS_AddElement
  <1>5. Cardinality(Lower(r) \cup {r}) <= Cardinality(Lower(q))
    BY <1>2, <1>3, FS_Subset
  <1>6. /\ PartitionOf(r, A).rank = Cardinality(Lower(r))
        /\ PartitionOf(q, A).rank = Cardinality(Lower(q))
    BY DEF PartitionOf
  <1> QED
    <2> HIDE DEF Lower
    <2> QED
      BY <1>2, <1>4, <1>5, <1>6

(* At most n replicas of a ring have a rank below n. *)
LEMMA FewLowRanks ==
    ASSUME NEW A \in SUBSET Replicas, NEW n \in Nat
    PROVE  Cardinality({r \in A : PartitionOf(r, A).rank < n}) <= n
  <1> DEFINE Low == {r \in A : PartitionOf(r, A).rank < n}
             f == [r \in Low |-> PartitionOf(r, A).rank]
  <1>1. IsFiniteSet(A) /\ A \in SUBSET Nat
    BY ReplicasAssumption, FS_Subset
  <1>2. IsFiniteSet(Low) /\ Cardinality(Low) \in Nat
    BY <1>1, FS_Subset, FS_CardinalityType
  <1>3. IsFiniteSet(0..n - 1) /\ Cardinality(0..n - 1) = n
    BY FS_Interval
  <1>4. f \in [Low -> 0..n - 1]
    <2>1. \A r \in A : PartitionOf(r, A).rank \in Nat
      BY <1>1, PartitionOfType, FS_CardinalityType, ReplicasAssumption DEF Partitions
    <2> QED
      BY <2>1
  <1>5. ~(n < Cardinality(Low))
    <2> SUFFICES ASSUME n < Cardinality(Low) PROVE FALSE
      OBVIOUS
    <2>1. \E x, y \in Low : x # y /\ f[x] = f[y]
      <3> HIDE DEF f, Low
      <3> QED
        BY <1>2, <1>3, <1>4, FS_PigeonHole
    <2>2. PICK x \in Low, y \in Low : x # y /\ PartitionOf(x, A).rank = PartitionOf(y, A).rank
      BY <2>1
    <2>3. x < y \/ y < x
      BY <1>1, <2>2
    <2> QED
      BY <1>1, <1>4, <2>2, <2>3, RanksDiffer
  <1> QED
    BY <1>2, <1>5

(* The exact parts of one ring fit the cap, or the ring where the cap is   *)
(* smaller: the remainder goes to as many ranks as there are slots in it,  *)
(* and no two replicas have the same rank.                                 *)
LEMMA ExactPartsFit ==
    ASSUME NEW cap \in Nat \ {0}, NEW A \in SUBSET Replicas,
           NEW w \in [A -> Nat], NEW g, SumsTo(w, A, g),
           \A r \in A : w[r] <= partition_cap(cap, PartitionOf(r, A))
    PROVE  g[A] <= IF cap > Cardinality(A) THEN cap ELSE Cardinality(A)
  <1> DEFINE R == Cardinality(A)
             base == cap \div R
             rem == cap % R
             Over(b) == Excess(w, A, b)
  <1> SUFFICES g[A] <= IF cap > R THEN cap ELSE R
    OBVIOUS
  <1>1. IsFiniteSet(A) /\ R \in Nat
    BY ReplicasAssumption, FS_Subset, FS_CardinalityType
  <1>2. \A r \in A : PartitionOf(r, A).count = R
    <2>1. \A r \in A : A \cup {r} = A
      OBVIOUS
    <2> QED
      BY <2>1 DEF PartitionOf
  <1>3. \A r \in A : PartitionOf(r, A).rank \in Int
    BY PartitionOfType, FS_CardinalityType, ReplicasAssumption DEF Partitions
  <1>4. \A b \in Nat : IsFiniteSet(Over(b)) /\ Cardinality(Over(b)) \in Nat /\ Cardinality(Over(b)) <= R
    BY <1>1, FS_Subset, FS_CardinalityType DEF Excess
  <1>5. CASE R <= 1
    <2>1. \A r \in A : w[r] \in Nat /\ w[r] <= cap /\ w[r] <= cap + 1
      BY <1>2, <1>5 DEF partition_cap
    <2>2. g[A] \in Nat /\ g[A] <= cap * R + Cardinality(Over(cap))
      BY <1>1, <2>1, SumBound
    <2>3. Over(cap) = {}
      BY <2>1 DEF Excess
    <2>4. Cardinality(Over(cap)) = 0
      BY <2>3, FS_EmptySet
    <2>5. R = 0 \/ R = 1
      BY <1>1, <1>5
    <2>6. cap * R = IF R = 0 THEN 0 ELSE cap
      BY <2>5
    <2> QED
      <3> HIDE DEF R, Over
      <3> QED
        BY <1>1, <2>2, <2>4, <2>5, <2>6
  <1>6. CASE R > 1 /\ cap < R
    <2>1. base = 0 /\ rem = cap
      BY <1>1, <1>6
    <2>2. \A r \in A : w[r] \in Nat /\ w[r] <= 0 + 1
      BY <1>1, <1>2, <1>3, <1>6, <2>1 DEF partition_cap
    <2>3. g[A] \in Nat /\ g[A] <= 0 * R + Cardinality(Over(0))
      BY <1>1, <2>2, SumBound
    <2>4. 0 * R = 0 /\ Cardinality(Over(0)) \in Nat /\ Cardinality(Over(0)) <= R
      BY <1>1, <1>4
    <2> QED
      <3> HIDE DEF R, Over
      <3> QED
        BY <1>1, <1>6, <2>3, <2>4
  <1>7. CASE R > 1 /\ cap >= R
    <2>1. base \in Nat /\ rem \in Nat /\ cap = base * R + rem /\ base >= 1
      BY <1>1, <1>7
    <2>2. ASSUME NEW r \in A
          PROVE  /\ w[r] \in Nat /\ w[r] <= base + 1
                 /\ PartitionOf(r, A).rank < rem \/ w[r] <= base
      <3> DEFINE p == PartitionOf(r, A)
      <3>1. p.count = R /\ p.rank \in Int /\ w[r] \in Nat /\ w[r] <= partition_cap(cap, p)
        BY <1>2, <1>3
      <3> HIDE DEF R, p
      <3>2. partition_cap(cap, p) = base + (IF p.rank < rem THEN 1 ELSE 0)
        BY <1>1, <1>7, <2>1, <3>1 DEF partition_cap
      <3> HIDE DEF base, rem
      <3> QED
        BY <2>1, <3>1, <3>2 DEF p
    <2>3. g[A] \in Nat /\ g[A] <= base * R + Cardinality(Over(base))
      <3> HIDE DEF base, rem
      <3> QED
        BY <1>1, <2>1, <2>2, SumBound
    <2>4. Over(base) \in SUBSET {r \in A : PartitionOf(r, A).rank < rem}
      <3> HIDE DEF base, rem
      <3> QED
        BY <2>1, <2>2 DEF Excess
    <2>5. Cardinality(Over(base)) <= rem
      <3> HIDE DEF base, rem
      <3> DEFINE Low == {r \in A : PartitionOf(r, A).rank < rem}
      <3>1. IsFiniteSet(Low) /\ Cardinality(Low) \in Nat
        BY <1>1, FS_Subset, FS_CardinalityType
      <3>2. Cardinality(Low) <= rem
        BY <2>1, FewLowRanks
      <3>3. Cardinality(Over(base)) <= Cardinality(Low)
        BY <2>4, <3>1, FS_Subset
      <3>4. Cardinality(Over(base)) \in Nat
        BY <1>4, <2>1
      <3> QED
        <4> HIDE DEF Low, Over
        <4> QED
          BY <2>1, <3>1, <3>2, <3>3, <3>4
    <2> QED
      <3> HIDE DEF base, rem, Over
      <3>1. base * R \in Nat
        BY <1>1, <2>1
      <3> QED
        BY <1>1, <1>4, <1>7, <2>1, <2>3, <2>5, <3>1
  <1> QED
    BY <1>1, <1>5, <1>6, <1>7

-----------------------------------------------------------------------------
(* What the replicas admit together is the sum of their shares. *)
LEMMA SumOfSharesIsSum ==
    ASSUME NEW k, IsFiniteSet(Running), NEW w,
           w = [r \in Running |-> partition_cap(DashboardCaps[k], adopted[r])]
    PROVE  \E g : SumsTo(w, Running, g) /\ SumOfShares(k) = g[Running]
  <1> DEFINE Is(g) == g = [s \in SUBSET Running |->
                IF s = {} THEN 0
                ELSE LET x == CHOOSE r \in s : TRUE
                     IN  partition_cap(DashboardCaps[k], adopted[x]) + g[s \ {x}]]
             sum == CHOOSE g : Is(g)
  <1>1. SumOfShares(k) = sum[Running]
    BY DEF SumOfShares, MapThenFoldSet
  <1>2. ASSUME NEW g PROVE Is(g) <=> SumsTo(w, Running, g)
    <2>1. \A s \in SUBSET Running : s # {} =>
              w[First(s)] = partition_cap(DashboardCaps[k], adopted[CHOOSE r \in s : TRUE])
      BY DEF First
    <2> QED
      BY <2>1 DEF SumsTo, First
  <1>3. \E g : Is(g)
    <2> HIDE DEF Is
    <2> QED
      BY <1>2, SumExists
  <1>4. Is(sum)
    <2> HIDE DEF Is
    <2> QED
      BY <1>3
  <1> QED
    <2> HIDE DEF Is, sum
    <2> QED
      BY <1>1, <1>2, <1>4

(* Once every replica has read the ring as it is, the shares fit the cap,  *)
(* but for replicas that hold back a change moving the caps in opposite    *)
(* directions (partition_cap, observe_members): for rings of any size.     *)
THEOREM SharesFit == Spec => []SharesFitCap
  <1>1. IInv => SharesFitCap
    <2> SUFFICES ASSUME IInv, AllAgree, NEW k \in Kinds, DashboardCaps[k] > 0,
                        \A r \in Running : ~HoldsMixedChange(r, k)
                 PROVE  SumOfShares(k) <= IF DashboardCaps[k] > Cardinality(Running)
                                          THEN DashboardCaps[k] ELSE Cardinality(Running)
      BY DEF SharesFitCap
    <2> DEFINE cap == DashboardCaps[k]
               w == [r \in Running |-> partition_cap(cap, adopted[r])]
    <2>1. TypeOK /\ cap \in Nat \ {0}
      BY CapsAssumption DEF IInv
    <2>2. Running \in SUBSET Replicas /\ IsFiniteSet(Running)
      BY ReplicasAssumption, FS_Subset DEF Running
    <2>3. ASSUME NEW r \in Running
          PROVE  /\ partition_cap(cap, adopted[r]) \in Nat
                 /\ partition_cap(cap, adopted[r]) <= partition_cap(cap, PartitionOf(r, Running))
      <3> DEFINE p == PartitionOf(r, Running)
      <3>1. r \in Replicas /\ seen[r] = {p} /\ gatedOn[r] = DashboardCaps
        BY <2>2 DEF AllAgree
      <3>2. p \in Partitions /\ adopted[r] \in Partitions
        BY <2>1, <2>2, <3>1, PartitionOfType DEF TypeOK
      <3> HIDE DEF p, cap
      <3>3. partition_cap(cap, adopted[r]) \in Nat /\ partition_cap(cap, p) \in Nat
        BY <2>1, <3>2, ShareType
      <3>4. adopted[r] = p \/ Grows(adopted[r], p, DashboardCaps)
        BY <3>1 DEF IInv, ReadHeeded
      <3>5. adopted[r] = p \/ ~(partition_cap(cap, p) < partition_cap(cap, adopted[r]))
        BY <3>1, <3>4 DEF HoldsMixedChange, cap
      <3> QED
        BY <3>3, <3>5 DEF p
    <2>4. w \in [Running -> Nat] /\ \A r \in Running : w[r] <= partition_cap(cap, PartitionOf(r, Running))
      BY <2>3
    <2>5. PICK g : SumsTo(w, Running, g) /\ SumOfShares(k) = g[Running]
      BY <2>2, SumOfSharesIsSum
    <2> HIDE DEF w, cap
    <2>6. g[Running] <= IF cap > Cardinality(Running) THEN cap ELSE Cardinality(Running)
      BY <2>1, <2>2, <2>4, <2>5, ExactPartsFit
    <2> QED
      BY <2>5, <2>6 DEF cap
  <1> QED
    BY <1>1, SafetyInvariant, PTL
=============================================================================
