---------------------- MODULE CacheInvalidationProofs ----------------------
(***************************************************************************)
(* Proofs about CacheInvalidation for any number of replicas, namespaces,  *)
(* changes, failures, retries and crashes: types, and that no invalidation *)
(* is lost while a process still runs.                                     *)
(***************************************************************************)
EXTENDS CacheInvalidation, TLAPS

PollRecords ==
    [pc : {"idle", "flush", "rows", "callback"}, queue : SUBSET Namespaces,
     rows : [Namespaces -> Nat], todo : SUBSET Namespaces]
BumpRecords ==
    [pc : {"idle", "write", "close", "ack"}, ns : Namespaces \cup {None},
     attempt : 0..(BUMP_RETRY_ATTEMPTS - 1), keep : BOOLEAN, mark : Nat]

(* Caches are sets of changes. *)
CacheShape == cache \in [Replicas -> [Namespaces -> SUBSET Nat]]

(* A poll has read versions that were published. *)
RowsPublished == \A r \in Replicas, n \in Namespaces : poll[r].rows[n] <= version[n]

(* Polls run in prime and after start, and start arms the poller. *)
PollPhases ==
    \A r \in Replicas :
        /\ poll[r].pc # "idle" => phase[r] \in {"prime", "run"}
        /\ phase[r] = "run" => initialized[r]

(* A bump in progress has its namespace; only bump_local acknowledges. *)
BumpOK(r, b) ==
    /\ b.pc # "idle" => b.ns \in Namespaces
    /\ b.pc = "idle" => b = NoBump
    /\ b.pc = "ack" \/ b.keep => r \in LocalBumpers
BumpShape == \A r \in Replicas, t \in Tasks : BumpOK(r, bumping[r][t])

IInv == TypeOK /\ CacheShape /\ RowsPublished /\ PollPhases /\ BumpShape /\ NoLostInvalidation

(* Somebody is still going to publish namespace n. *)
Publishes(q, t, n) == bumping[q][t].pc = "write" /\ bumping[q][t].ns = n
Owes(n) ==
    \E q \in Replicas : n \in pending[q] \/ \E t \in Tasks : Publishes(q, t, n)

-----------------------------------------------------------------------------
(* Operators. *)

(* The maximum of two naturals. *)
LEMMA MaxTwo ==
    ASSUME NEW a \in Nat, NEW b \in Nat
    PROVE  Max({a, b}) = IF a >= b THEN a ELSE b
  <1>1. \E x \in {a, b} : \A y \in {a, b} : x >= y
    OBVIOUS
  <1> QED
    BY <1>1 DEF Max

(* The idle bump and the idle poll are records of their types. *)
LEMMA IdleRecords ==
    /\ NoBump \in BumpRecords /\ NoBump.pc = "idle" /\ NoPoll \in PollRecords /\ NoPoll.pc = "idle"
    /\ \A r : BumpOK(r, NoBump)
    /\ \A n \in Namespaces : NoPoll.rows[n] = 0
  <1>1. NoBump \in BumpRecords /\ NoBump.pc = "idle" /\ NoBump.keep = FALSE
    BY ConstantsAssumption DEF NoBump, BumpRecords
  <1>2. NoPoll \in PollRecords /\ NoPoll.pc = "idle" /\ NoPoll.rows = [n \in Namespaces |-> 0]
    BY DEF NoPoll, PollRecords
  <1> QED
    BY <1>1, <1>2 DEF BumpOK

(* What a replica knows is a version. *)
LEMMA KnownType ==
    ASSUME TypeOK, NEW r \in Replicas, NEW n \in Namespaces
    PROVE  Known(r, n) \in Nat /\ version[n] \in Nat /\ Known(r, n) <= version[n]
  <1>1. known[r][n] \in Nat \cup {None}
    BY DEF TypeOK
  <1> QED
    BY <1>1 DEF TypeOK, Known

(* Facts about the state of one replica. *)
LEMMA ReplicaFacts ==
    ASSUME IInv
    PROVE  /\ poll \in [Replicas -> PollRecords]
           /\ bumping \in [Replicas -> [Tasks -> BumpRecords]]
           /\ \A r \in Replicas : poll[r] \in PollRecords
           /\ \A r \in Replicas, t \in Tasks : bumping[r][t] \in BumpRecords /\ BumpOK(r, bumping[r][t])
           /\ pending \in [Replicas -> SUBSET Namespaces]
           /\ version \in [Namespaces -> Nat]
           /\ known \in [Replicas -> [Namespaces -> Nat \cup {None}]]
           /\ writes \in [Namespaces -> 0..MaxWrites] /\ writes \in [Namespaces -> Nat]
  <1>1. poll \in [Replicas -> PollRecords] /\ bumping \in [Replicas -> [Tasks -> BumpRecords]]
    BY DEF IInv, TypeOK, PollRecords, BumpRecords
  <1>2. 0..MaxWrites \subseteq Nat
    BY ConstantsAssumption
  <1> QED
    BY <1>1, <1>2 DEF IInv, TypeOK, BumpShape

-----------------------------------------------------------------------------
(* The parts of the invariant, each with what keeps it. *)

(* The types of the variables apart from cache and known. *)
Frame ==
    /\ phase \in [Replicas -> {"down", "prime", "load", "start", "run"}]
    /\ pending \in [Replicas -> SUBSET Namespaces]
    /\ initialized \in [Replicas -> BOOLEAN]
    /\ poll \in [Replicas -> PollRecords]
    /\ bumping \in [Replicas -> [Tasks -> BumpRecords]]
    /\ lost \subseteq Namespaces
    /\ errors \in 0..MaxErrors /\ crashes \in 0..MaxCrashes

(* Versions and what is known of them. *)
Knowledge ==
    /\ version \in [Namespaces -> Nat]
    /\ known \in [Replicas -> [Namespaces -> Nat \cup {None}]]
    /\ \A r \in Replicas, n \in Namespaces : Known(r, n) <= version[n]

(* Rows and what the caches reflect of them. *)
Contents ==
    /\ writes \in [Namespaces -> 0..MaxWrites]
    /\ cache \in [Replicas -> [Namespaces -> SUBSET Nat]]
    /\ \A r \in Replicas, n \in Namespaces : cache[r][n] \subseteq Rows(n)

(* The parts give the types. *)
LEMMA Parts ==
    /\ IInv <=> /\ Frame /\ Knowledge /\ Contents /\ RowsPublished /\ PollPhases /\ BumpShape
                /\ NoLostInvalidation
  BY DEF IInv, TypeOK, CacheShape, Frame, Knowledge, Contents, PollRecords, BumpRecords

(* The same in the next state. *)
LEMMA Assemble ==
    ASSUME Frame', Knowledge', Contents', RowsPublished', PollPhases', BumpShape', NoLostInvalidation'
    PROVE  IInv'
  BY DEF IInv, TypeOK, CacheShape, Frame, Knowledge, Contents, PollRecords, BumpRecords

(* Nothing is lost by a step under which every debt to publish is kept or  *)
(* paid by a new version, and a replica that is stale afterwards was so    *)
(* before with no less to learn, or is owed a bump.                        *)
LEMMA DebtsKept ==
    ASSUME IInv, Knowledge', lost \subseteq lost',
           \A n \in Namespaces : version'[n] >= version[n],
           \A n \in Namespaces \ lost' : Owes(n) => Owes(n)' \/ version'[n] > version[n],
           \A r \in Replicas \ LocalBumpers, n \in Namespaces \ lost' :
              Stale(r, n)' => (Stale(r, n) /\ Known(r, n)' <= Known(r, n)) \/ Owes(n)'
    PROVE  NoLostInvalidation'
  <1> SUFFICES ASSUME NEW r \in Replicas \ LocalBumpers, NEW n \in Namespaces \ lost', Stale(r, n)'
               PROVE  Owed(r, n)'
    BY DEF NoLostInvalidation
  <1>1. \A m \in Namespaces : Owes(m)' => Owed(r, m)'
    BY DEF Owes, Owed, Publishes
  <1>2. /\ Known(r, n) \in Nat /\ version[n] \in Nat /\ Known(r, n) <= version[n]
        /\ version'[n] \in Nat
    BY KnownType DEF IInv, Knowledge
  <1>3. Known(r, n)' \in Nat
    <2>1. known'[r][n] \in Nat \cup {None}
      BY DEF Knowledge
    <2> QED
      BY <2>1 DEF Known
  <1>4. CASE Owes(n)'
    BY <1>1, <1>4
  <1>5. CASE ~Owes(n)'
    <2>1. Stale(r, n) /\ Known(r, n)' <= Known(r, n)
      BY <1>5
    <2>2. Owes(n) \/ version[n] > Known(r, n)
      <3>1. n \notin lost
        OBVIOUS
      <3> QED
        BY <2>1, <3>1 DEF IInv, NoLostInvalidation, Owed, Owes, Publishes
    <2>3. version'[n] > Known(r, n)'
      <3>1. CASE version[n] > Known(r, n)
        BY <1>2, <1>3, <2>1, <3>1
      <3>2. CASE Owes(n)
        <4>1. version'[n] > version[n]
          BY <1>5, <3>2
        <4> QED
          BY <1>2, <1>3, <2>1, <4>1
      <3> QED
        BY <2>2, <3>1, <3>2
    <2> QED
      BY <2>3 DEF Owed
  <1> QED
    BY <1>4, <1>5

(* The same for a step that changes no cache, row or knowledge, and does   *)
(* not let a replica begin to serve.                                       *)
LEMMA DebtsKeptQuietly ==
    ASSUME IInv, UNCHANGED <<writes, cache, known>>, version' \in [Namespaces -> Nat],
           UNCHANGED lost, \A r \in Replicas : Serving(r)' => Serving(r),
           \A n \in Namespaces : version'[n] >= version[n],
           \A n \in Namespaces : Owes(n) => Owes(n)' \/ version'[n] > version[n]
    PROVE  NoLostInvalidation' /\ Knowledge' /\ Contents'
  <1>1. \A r \in Replicas, n \in Namespaces : Known(r, n)' = Known(r, n)
    BY DEF Known
  <1>2. Knowledge'
    <2>1. ASSUME NEW r \in Replicas, NEW n \in Namespaces
          PROVE  Known(r, n)' <= version'[n]
      <3>1. Known(r, n) \in Nat /\ version[n] \in Nat /\ Known(r, n) <= version[n] /\ version'[n] \in Nat
        BY KnownType DEF IInv
      <3> QED
        BY <1>1, <3>1
    <2> QED
      BY <2>1, ReplicaFacts DEF Knowledge
  <1>3. \A r \in Replicas, n \in Namespaces : Stale(r, n)' => Stale(r, n) /\ Known(r, n)' <= Known(r, n)
    <2>1. \A r \in Replicas, n \in Namespaces : Known(r, n) \in Nat
      BY KnownType DEF IInv
    <2> QED
      BY <1>1, <2>1 DEF Stale, Rows
  <1>4. Contents'
    BY Parts DEF Contents, Rows
  <1>5. NoLostInvalidation'
    BY <1>2, <1>3, DebtsKept
  <1> QED
    BY <1>2, <1>4, <1>5

(* Failures stay within their bound. *)
LEMMA FailureBound ==
    ASSUME IInv, Fails \/ UNCHANGED counts
    PROVE  errors' \in 0..MaxErrors /\ crashes' \in 0..MaxCrashes
  BY ConstantsAssumption DEF IInv, TypeOK, Fails, counts

(* One bump goes on as b. *)
LEMMA BumpMoves ==
    ASSUME IInv, NEW r \in Replicas, NEW t \in Tasks, NEW b \in BumpRecords, BumpOK(r, b),
           bumping' = [bumping EXCEPT ![r][t] = b]
    PROVE  /\ bumping' \in [Replicas -> [Tasks -> BumpRecords]] /\ BumpShape'
           /\ \A q \in Replicas, u \in Tasks :
                bumping'[q][u] = IF q = r /\ u = t THEN b ELSE bumping[q][u]
  <1>1. bumping \in [Replicas -> [Tasks -> BumpRecords]]
    BY ReplicaFacts
  <1>2. \A q \in Replicas, u \in Tasks :
          bumping'[q][u] = IF q = r /\ u = t THEN b ELSE bumping[q][u]
    BY <1>1
  <1>3. BumpShape'
    <2>1. ASSUME NEW q \in Replicas, NEW u \in Tasks
          PROVE  BumpOK(q, bumping'[q][u])
      BY <1>2, ReplicaFacts
    <2> QED
      BY <2>1 DEF BumpShape, BumpOK, NoBump
  <1> QED
    BY <1>1, <1>2, <1>3

(* No bump changes. *)
LEMMA BumpsStay ==
    ASSUME IInv, UNCHANGED bumping
    PROVE  bumping' \in [Replicas -> [Tasks -> BumpRecords]] /\ BumpShape'
  BY ReplicaFacts DEF IInv, BumpShape, BumpOK, NoBump

(* One poll goes on as x. *)
LEMMA PollMoves ==
    ASSUME IInv, NEW r \in Replicas, NEW x \in PollRecords, poll' = [poll EXCEPT ![r] = x],
           x.pc # "idle" => phase'[r] \in {"prime", "run"},
           \A n \in Namespaces : x.rows[n] <= version[n], UNCHANGED version,
           \A q \in Replicas : q # r => phase'[q] = phase[q],
           \A q \in Replicas : phase'[q] = "run" => initialized'[q]
    PROVE  poll' \in [Replicas -> PollRecords] /\ RowsPublished' /\ PollPhases'
  <1>1. \A q \in Replicas : poll'[q] = IF q = r THEN x ELSE poll[q]
    BY ReplicaFacts
  <1>2. RowsPublished'
    BY <1>1 DEF IInv, RowsPublished
  <1>3. PollPhases'
    BY <1>1 DEF IInv, PollPhases
  <1>4. poll' \in [Replicas -> PollRecords]
    BY ReplicaFacts
  <1> QED
    BY <1>2, <1>3, <1>4

(* No poll changes, and versions only grow. *)
LEMMA PollsStay ==
    ASSUME IInv, UNCHANGED <<poll, phase, initialized>>, version' \in [Namespaces -> Nat],
           \A n \in Namespaces : version'[n] >= version[n]
    PROVE  poll' \in [Replicas -> PollRecords] /\ RowsPublished' /\ PollPhases'
  <1>1. RowsPublished'
    <2>1. ASSUME NEW r \in Replicas, NEW n \in Namespaces
          PROVE  poll[r].rows[n] <= version'[n]
      <3>1. poll[r].rows[n] \in Nat /\ version[n] \in Nat /\ version'[n] \in Nat
        BY ReplicaFacts DEF PollRecords
      <3> QED
        BY <3>1 DEF IInv, RowsPublished
    <2> QED
      BY <2>1 DEF RowsPublished
  <1>2. PollPhases'
    BY DEF IInv, PollPhases
  <1> QED
    BY <1>1, <1>2, ReplicaFacts

-----------------------------------------------------------------------------
(* The bumps. *)

(* The version row is written. *)
LEMMA BumpOnceStep ==
    ASSUME IInv, NEW r \in Replicas, NEW t \in Tasks, _bump_once(r, t)
    PROVE  IInv'
  <1>1. PICK n, b : /\ n = bumping[r][t].ns
                    /\ b = [bumping[r][t] EXCEPT !.pc = "close", !.mark = version[n] + 1]
    OBVIOUS
  <1>2. /\ bumping[r][t] \in BumpRecords /\ BumpOK(r, bumping[r][t]) /\ bumping[r][t].pc = "write"
        /\ version \in [Namespaces -> Nat]
    BY ReplicaFacts DEF _bump_once
  <1>3. n \in Namespaces
    BY <1>1, <1>2 DEF BumpOK
  <1>4. b \in BumpRecords /\ b.pc = "close" /\ b.ns = n /\ b.keep = bumping[r][t].keep
    <2>1. version[n] + 1 \in Nat
      BY <1>2, <1>3
    <2> QED
      BY <1>1, <1>2, <2>1 DEF BumpRecords
  <1>5. BumpOK(r, b)
    BY <1>2, <1>3, <1>4 DEF BumpOK
  <1>6. /\ bumping' = [bumping EXCEPT ![r][t] = b] /\ version' = [version EXCEPT ![n] = @ + 1]
        /\ UNCHANGED <<writes, phase, known, pending, initialized, cache, poll, lost, errors, crashes>>
    BY <1>1, ReplicaFacts DEF _bump_once, local, counts
  <1>7. /\ version' \in [Namespaces -> Nat]
        /\ \A m \in Namespaces : version'[m] >= version[m]
        /\ version'[n] > version[n]
    BY <1>2, <1>3, <1>6
  <1>8. /\ bumping' \in [Replicas -> [Tasks -> BumpRecords]] /\ BumpShape'
        /\ \A q \in Replicas, u \in Tasks :
             bumping'[q][u] = IF q = r /\ u = t THEN b ELSE bumping[q][u]
    BY <1>4, <1>5, <1>6, BumpMoves
  <1>9. \A m \in Namespaces : Owes(m) => Owes(m)' \/ version'[m] > version[m]
    BY <1>1, <1>6, <1>7, <1>8 DEF Owes, Publishes
  <1>10. NoLostInvalidation' /\ Knowledge' /\ Contents'
    BY <1>6, <1>7, <1>9, DebtsKeptQuietly DEF Serving
  <1>11. poll' \in [Replicas -> PollRecords] /\ RowsPublished' /\ PollPhases'
    BY <1>6, <1>7, PollsStay
  <1>12. Frame'
    BY <1>6, <1>8, <1>11, Parts DEF Frame
  <1> QED
    BY <1>8, <1>10, <1>11, <1>12, Assemble

(* A bump ends, or is tried again. *)
LEMMA BumpEndsStep ==
    ASSUME IInv, NEW r \in Replicas, NEW t \in Tasks,
           BumpSucceeds(r, t) \/ \E retryable \in BOOLEAN : BumpFails(r, t, retryable)
    PROVE  IInv'
  <1>1. PICK c : c = bumping[r][t]
    OBVIOUS
  <1>2. c \in BumpRecords /\ BumpOK(r, c) /\ c.pc \in {"write", "close"} /\ c.ns \in Namespaces
    BY <1>1, ReplicaFacts DEF BumpSucceeds, BumpFails, BumpOK
  <1>3. /\ UNCHANGED <<shared, phase, known, initialized, cache, poll, lost>>
        /\ Fails \/ UNCHANGED counts
    BY DEF BumpSucceeds, BumpFails
  <1>4. PICK b \in BumpRecords :
          /\ BumpOK(r, b) /\ bumping' = [bumping EXCEPT ![r][t] = b]
          /\ \/ b.pc = "write" /\ b.ns = c.ns /\ UNCHANGED pending
             \/ pending' = [pending EXCEPT ![r] = @ \cup {c.ns}]
             \/ c.pc = "close" /\ UNCHANGED pending
    <2>1. CASE BumpSucceeds(r, t) /\ c.keep
      <3>1. PICK b : b = [c EXCEPT !.pc = "ack"]
        OBVIOUS
      <3>2. b \in BumpRecords /\ b.pc = "ack" /\ b.ns = c.ns /\ b.keep = c.keep
        BY <1>2, <3>1 DEF BumpRecords
      <3>3. BumpOK(r, b)
        BY <1>2, <2>1, <3>2 DEF BumpOK
      <3>4. bumping' = [bumping EXCEPT ![r][t] = b] /\ c.pc = "close" /\ pending' = pending
        BY <1>1, <2>1, <3>1, ReplicaFacts DEF BumpSucceeds, EndBump, pending_after
      <3> QED
        BY <3>2, <3>3, <3>4
    <2>2. CASE BumpSucceeds(r, t) /\ ~c.keep
      <3>1. bumping' = [bumping EXCEPT ![r][t] = NoBump] /\ c.pc = "close" /\ pending' = pending
        BY <1>1, <2>2, ReplicaFacts DEF BumpSucceeds, EndBump, pending_after
      <3> QED
        BY <3>1, IdleRecords
    <2>3. ASSUME NEW retryable \in BOOLEAN, BumpFails(r, t, retryable), retryable /\ may_retry(c.attempt)
          PROVE  \E b \in BumpRecords :
                   /\ BumpOK(r, b) /\ bumping' = [bumping EXCEPT ![r][t] = b]
                   /\ b.pc = "write" /\ b.ns = c.ns /\ UNCHANGED pending
      <3>1. PICK b : b = [c EXCEPT !.pc = "write", !.attempt = c.attempt + 1]
        OBVIOUS
      <3>2. c.attempt + 1 \in 0..(BUMP_RETRY_ATTEMPTS - 1)
        <4>1. c.attempt \in 0..(BUMP_RETRY_ATTEMPTS - 1)
          BY <1>2 DEF BumpRecords
        <4> QED
          BY <2>3, <4>1, ConstantsAssumption DEF may_retry
      <3>3. b \in BumpRecords /\ b.pc = "write" /\ b.ns = c.ns /\ b.keep = c.keep
        BY <1>2, <3>1, <3>2 DEF BumpRecords
      <3>4. BumpOK(r, b)
        BY <1>2, <3>3 DEF BumpOK
      <3>5. bumping' = [bumping EXCEPT ![r][t] = b] /\ UNCHANGED pending
        BY <1>1, <2>3, <3>1, ReplicaFacts DEF BumpFails
      <3> QED
        BY <3>3, <3>4, <3>5
    <2>4. ASSUME NEW retryable \in BOOLEAN, BumpFails(r, t, retryable), ~(retryable /\ may_retry(c.attempt))
          PROVE  /\ bumping' = [bumping EXCEPT ![r][t] = NoBump]
                 /\ pending' = [pending EXCEPT ![r] = @ \cup {c.ns}]
      BY <1>1, <2>4, ReplicaFacts DEF BumpFails, EndBump, pending_after
    <2> QED
      BY <2>1, <2>2, <2>3, <2>4, IdleRecords
  <1>5. pending' \in [Replicas -> SUBSET Namespaces] /\ \A q \in Replicas : pending[q] \subseteq pending'[q]
    <2>1. pending \in [Replicas -> SUBSET Namespaces]
      BY ReplicaFacts
    <2>2. CASE UNCHANGED pending
      BY <2>1, <2>2
    <2>3. CASE pending' = [pending EXCEPT ![r] = @ \cup {c.ns}]
      BY <1>2, <2>1, <2>3
    <2> QED
      BY <1>4, <2>2, <2>3
  <1>6. /\ bumping' \in [Replicas -> [Tasks -> BumpRecords]] /\ BumpShape'
        /\ \A q \in Replicas, u \in Tasks :
             bumping'[q][u] = IF q = r /\ u = t THEN b ELSE bumping[q][u]
    BY <1>4, BumpMoves
  <1>7. \A m \in Namespaces : Owes(m) => Owes(m)'
    <2> SUFFICES ASSUME NEW m \in Namespaces, Owes(m) PROVE Owes(m)'
      OBVIOUS
    <2>1. CASE \E q \in Replicas : m \in pending[q]
      BY <1>5, <2>1 DEF Owes
    <2>2. CASE \E q \in Replicas, u \in Tasks : Publishes(q, u, m) /\ ~(q = r /\ u = t)
      BY <1>6, <2>2 DEF Owes, Publishes
    <2>3. CASE Publishes(r, t, m)
      <3>1. c.pc = "write" /\ c.ns = m
        BY <1>1, <2>3 DEF Publishes
      <3>2. CASE b.pc = "write" /\ b.ns = c.ns
        BY <1>6, <3>1, <3>2 DEF Owes, Publishes
      <3>3. CASE pending' = [pending EXCEPT ![r] = @ \cup {c.ns}]
        BY <3>1, <3>3, ReplicaFacts DEF Owes
      <3> QED
        BY <1>4, <3>1, <3>2, <3>3
    <2> QED
      BY <2>1, <2>2, <2>3 DEF Owes
  <1>8. /\ UNCHANGED <<writes, version>> /\ version' \in [Namespaces -> Nat]
        /\ \A m \in Namespaces : version'[m] >= version[m]
    BY <1>3, ReplicaFacts DEF shared
  <1>9. NoLostInvalidation' /\ Knowledge' /\ Contents'
    BY <1>3, <1>7, <1>8, DebtsKeptQuietly DEF Serving
  <1>10. poll' \in [Replicas -> PollRecords] /\ RowsPublished' /\ PollPhases'
    BY <1>3, <1>8, PollsStay
  <1>11. Frame'
    BY <1>3, <1>5, <1>6, <1>10, Parts, FailureBound DEF Frame
  <1> QED
    BY <1>6, <1>9, <1>10, <1>11, Assemble

(* bump_local acknowledges what it reads; the replica is a local bumper. *)
LEMMA AckStep ==
    ASSUME IInv, NEW r \in Replicas, bump_local_ack(r)
    PROVE  IInv'
  <1>1. /\ UNCHANGED <<shared, phase, pending, initialized, cache, poll, lost>>
        /\ Fails \/ UNCHANGED counts
        /\ bumping' = [bumping EXCEPT ![r]["writer"] = NoBump]
    BY DEF bump_local_ack
  <1>2. PICK c, n : c = bumping[r]["writer"] /\ n = c.ns
    OBVIOUS
  <1>3. c.pc = "ack" /\ n \in Namespaces /\ r \in LocalBumpers
    BY <1>2, ReplicaFacts DEF bump_local_ack, BumpOK, Tasks
  <1>4. /\ bumping' \in [Replicas -> [Tasks -> BumpRecords]] /\ BumpShape'
        /\ \A q \in Replicas, u \in Tasks :
             bumping'[q][u] = IF q = r /\ u = "writer" THEN NoBump ELSE bumping[q][u]
    BY <1>1, BumpMoves, IdleRecords DEF Tasks
  <1>5. \A m \in Namespaces : Owes(m) => Owes(m)'
    BY <1>1, <1>2, <1>3, <1>4 DEF Owes, Publishes
  <1>6. /\ known' \in [Replicas -> [Namespaces -> Nat \cup {None}]]
        /\ \A q \in Replicas, m \in Namespaces :
             known'[q][m] = known[q][m] \/ (q = r /\ m = n /\ known'[q][m] = version[n])
    <2>1. Known(r, n) \in Nat /\ version[n] \in Nat /\ Known(r, n) <= version[n]
      BY <1>3, KnownType DEF IInv
    <2>2. Max({Known(r, n), version[n]}) = version[n]
      BY <2>1, MaxTwo
    <2>3. known' = known \/ known' = [known EXCEPT ![r][n] = version[n]]
      BY <1>2, <2>2 DEF bump_local_ack
    <2>4. known \in [Replicas -> [Namespaces -> Nat \cup {None}]]
      BY ReplicaFacts
    <2>5. CASE known' = known
      BY <2>4, <2>5
    <2>6. CASE known' = [known EXCEPT ![r][n] = version[n]]
      BY <1>3, <2>1, <2>4, <2>6
    <2> QED
      BY <2>3, <2>5, <2>6
  <1>7. UNCHANGED <<writes, version>> /\ version \in [Namespaces -> Nat]
    BY <1>1, ReplicaFacts DEF shared
  <1>8. Knowledge'
    <2>1. ASSUME NEW q \in Replicas, NEW m \in Namespaces
          PROVE  Known(q, m)' <= version[m]
      <3>1. Known(q, m) \in Nat /\ version[m] \in Nat /\ Known(q, m) <= version[m]
        BY KnownType DEF IInv
      <3> QED
        BY <1>6, <3>1 DEF Known
    <2> QED
      BY <1>6, <1>7, <2>1 DEF Knowledge
  <1>9. Contents'
    BY <1>1, <1>7, Parts DEF Contents, Rows
  <1>10. NoLostInvalidation'
    <2>1. \A q \in Replicas \ LocalBumpers, m \in Namespaces : Stale(q, m)' => Stale(q, m)
      BY <1>1, <1>7 DEF Stale, Serving, Rows
    <2>2. \A q \in Replicas \ LocalBumpers, m \in Namespaces : Known(q, m)' <= Known(q, m)
      <3> SUFFICES ASSUME NEW q \in Replicas \ LocalBumpers, NEW m \in Namespaces
                   PROVE  Known(q, m)' <= Known(q, m)
        OBVIOUS
      <3>1. known'[q][m] = known[q][m]
        BY <1>3, <1>6
      <3>2. Known(q, m) \in Nat
        BY KnownType DEF IInv
      <3> QED
        BY <3>1, <3>2 DEF Known
    <2>3. \A m \in Namespaces : version'[m] >= version[m]
      BY <1>7
    <2> QED
      BY <1>1, <1>5, <1>8, <2>1, <2>2, <2>3, DebtsKept
  <1>11. poll' \in [Replicas -> PollRecords] /\ RowsPublished' /\ PollPhases'
    BY <1>1, <1>7, PollsStay
  <1>12. Frame'
    BY <1>1, <1>4, <1>11, Parts, FailureBound DEF Frame
  <1> QED
    BY <1>4, <1>8, <1>9, <1>10, <1>11, <1>12, Assemble

(* A bump starts: the marker becomes the bump. *)
LEMMA StartBumpFacts ==
    ASSUME IInv, NEW r \in Replicas, NEW t \in Tasks, NEW n \in Namespaces, NEW keep \in BOOLEAN,
           keep => r \in LocalBumpers, bumping[r][t] = NoBump, StartBump(r, t, n, keep)
    PROVE  /\ pending' \in [Replicas -> SUBSET Namespaces]
           /\ bumping' \in [Replicas -> [Tasks -> BumpRecords]] /\ BumpShape'
           /\ Owes(n)' /\ \A m \in Namespaces : Owes(m) => Owes(m)'
  <1>1. PICK b : b = [pc |-> "write", ns |-> n, attempt |-> 0, keep |-> keep, mark |-> 0]
    OBVIOUS
  <1>2. b \in BumpRecords /\ b.pc = "write" /\ b.ns = n /\ b.keep = keep
    BY <1>1, ConstantsAssumption DEF BumpRecords
  <1>3. BumpOK(r, b)
    BY <1>2 DEF BumpOK
  <1>4. bumping' = [bumping EXCEPT ![r][t] = b] /\ pending' = [pending EXCEPT ![r] = @ \ {n}]
    BY <1>1 DEF StartBump
  <1>5. /\ bumping' \in [Replicas -> [Tasks -> BumpRecords]] /\ BumpShape'
        /\ \A q \in Replicas, u \in Tasks :
             bumping'[q][u] = IF q = r /\ u = t THEN b ELSE bumping[q][u]
    BY <1>2, <1>3, <1>4, BumpMoves
  <1>6. /\ pending' \in [Replicas -> SUBSET Namespaces]
        /\ \A q \in Replicas, m \in Namespaces : m \in pending[q] => m = n \/ m \in pending'[q]
    BY <1>4, ReplicaFacts
  <1>7. Owes(n)'
    BY <1>2, <1>5 DEF Owes, Publishes
  <1>8. \A m \in Namespaces : Owes(m) => Owes(m)'
    <2> SUFFICES ASSUME NEW m \in Namespaces, Owes(m), m # n PROVE Owes(m)'
      BY <1>7
    <2>1. ~Publishes(r, t, m)
      BY IdleRecords DEF Publishes
    <2> QED
      BY <1>5, <1>6, <2>1 DEF Owes, Publishes
  <1> QED
    BY <1>5, <1>6, <1>7, <1>8

(* A request changes the rows and has a bump to publish. *)
LEMMA ChangeStep ==
    ASSUME IInv, NEW r \in Replicas, NEW n \in Namespaces,
           ChangeAndBump(r, n) \/ request_bump(r, n) \/ bump_local(r, n)
    PROVE  IInv'
  <1>1. Change(r, n)
    BY DEF ChangeAndBump, request_bump, bump_local
  <1>2. /\ UNCHANGED <<version, phase, known, initialized, poll, lost, errors, crashes>>
        /\ writes[n] < MaxWrites /\ writes' = [writes EXCEPT ![n] = @ + 1]
    BY <1>1 DEF Change, counts
  <1>3. /\ pending' \in [Replicas -> SUBSET Namespaces]
        /\ bumping' \in [Replicas -> [Tasks -> BumpRecords]] /\ BumpShape'
        /\ Owes(n)' /\ \A m \in Namespaces : Owes(m) => Owes(m)'
    <2>1. CASE ChangeAndBump(r, n)
      BY <2>1, StartBumpFacts DEF ChangeAndBump, Tasks
    <2>2. CASE bump_local(r, n)
      BY <2>2, StartBumpFacts DEF bump_local, Tasks
    <2>3. CASE request_bump(r, n)
      <3>1. pending' = [pending EXCEPT ![r] = @ \cup {n}] /\ UNCHANGED bumping
        BY <2>3 DEF request_bump
      <3>2. /\ pending' \in [Replicas -> SUBSET Namespaces] /\ n \in pending'[r]
            /\ \A q \in Replicas : pending[q] \subseteq pending'[q]
        BY <3>1, ReplicaFacts
      <3>3. Owes(n)' /\ \A m \in Namespaces : Owes(m) => Owes(m)'
        BY <3>1, <3>2 DEF Owes, Publishes
      <3> QED
        BY <3>1, <3>2, <3>3, BumpsStay
    <2> QED
      BY <2>1, <2>2, <2>3
  <1>4. /\ writes' \in [Namespaces -> 0..MaxWrites] /\ writes'[n] = writes[n] + 1 /\ writes[n] \in Nat
        /\ \A m \in Namespaces : m # n => writes'[m] = writes[m]
    BY <1>2, ReplicaFacts, ConstantsAssumption
  <1>5. PICK C : cache' = [cache EXCEPT ![r][n] = C] /\ C \subseteq 1..(writes[n] + 1)
    <2>1. cache[r][n] \subseteq 1..writes[n]
      BY DEF IInv, TypeOK, Rows
    <2>2. cache[r][n] \cup {writes[n] + 1} \subseteq 1..(writes[n] + 1)
      BY <1>4, <2>1
    <2>3. CASE ChangeAndBump(r, n) \/ request_bump(r, n)
      BY <1>4, <2>3 DEF ChangeAndBump, request_bump
    <2>4. CASE bump_local(r, n)
      <3>1. cache' = [cache EXCEPT ![r][n] = cache[r][n] \cup {writes[n] + 1}]
        BY <1>4, <2>4 DEF bump_local
      <3> QED
        BY <2>2, <3>1
    <2> QED
      BY <2>3, <2>4
  <1>6. Contents'
    <2>1. cache \in [Replicas -> [Namespaces -> SUBSET Nat]] /\ C \in SUBSET Nat
      BY <1>4, <1>5 DEF IInv, CacheShape
    <2>2. cache' \in [Replicas -> [Namespaces -> SUBSET Nat]]
      BY <1>5, <2>1
    <2>3. \A q \in Replicas, m \in Namespaces : cache'[q][m] = IF q = r /\ m = n THEN C ELSE cache[q][m]
      BY <1>5, <2>1
    <2>4. ASSUME NEW q \in Replicas, NEW m \in Namespaces
          PROVE  cache'[q][m] \subseteq 1..writes'[m]
      <3>1. cache[q][m] \subseteq 1..writes[m] /\ writes[m] \in Nat
        BY ReplicaFacts DEF IInv, TypeOK, Rows
      <3>2. CASE m = n
        BY <1>4, <1>5, <2>3, <3>1, <3>2
      <3>3. CASE m # n
        BY <1>4, <2>3, <3>1, <3>3
      <3> QED
        BY <3>2, <3>3
    <2> QED
      BY <1>4, <2>2, <2>4 DEF Contents, Rows
  <1>7. Knowledge'
    <2>1. \A q \in Replicas, m \in Namespaces : Known(q, m)' = Known(q, m)
      BY <1>2 DEF Known
    <2> QED
      BY <1>2, <2>1, Parts DEF Knowledge
  <1>8. NoLostInvalidation'
    <2>1. ASSUME NEW q \in Replicas \ LocalBumpers, NEW m \in Namespaces, Stale(q, m)'
          PROVE  (Stale(q, m) /\ Known(q, m)' <= Known(q, m)) \/ Owes(m)'
      <3>1. CASE m = n
        BY <1>3, <3>1
      <3>2. CASE m # n
        <4>1. cache'[q][m] = cache[q][m] /\ writes'[m] = writes[m]
          BY <1>4, <1>5, <3>2 DEF IInv, CacheShape
        <4>2. Known(q, m) \in Nat /\ Known(q, m)' = Known(q, m)
          BY <1>2, KnownType DEF IInv, Known
        <4> QED
          BY <1>2, <2>1, <4>1, <4>2 DEF Stale, Serving, Rows
      <3> QED
        BY <3>1, <3>2
    <2>2. \A m \in Namespaces : version'[m] >= version[m]
      BY <1>2, ReplicaFacts
    <2> QED
      BY <1>2, <1>3, <1>7, <2>1, <2>2, DebtsKept
  <1>9. poll' \in [Replicas -> PollRecords] /\ RowsPublished' /\ PollPhases'
    BY <1>2, PollsStay, ReplicaFacts
  <1>10. Frame'
    BY <1>2, <1>3, <1>9, Parts DEF Frame
  <1> QED
    BY <1>3, <1>6, <1>7, <1>8, <1>9, <1>10, Assemble

-----------------------------------------------------------------------------
(* The poller. *)

(* A step of the poller that publishes, learns and loads nothing. *)
LEMMA PollStep ==
    ASSUME IInv, UNCHANGED <<writes, version, known, cache, lost>>, Fails \/ UNCHANGED counts,
           phase' \in [Replicas -> {"down", "prime", "load", "start", "run"}],
           \A q \in Replicas : Serving(q)' => Serving(q),
           initialized' \in [Replicas -> BOOLEAN],
           pending' \in [Replicas -> SUBSET Namespaces],
           bumping' \in [Replicas -> [Tasks -> BumpRecords]], BumpShape',
           \A m \in Namespaces : Owes(m) => Owes(m)',
           poll' \in [Replicas -> PollRecords], RowsPublished', PollPhases'
    PROVE  IInv'
  <1>1. version' \in [Namespaces -> Nat] /\ \A m \in Namespaces : version'[m] >= version[m]
    BY ReplicaFacts
  <1>2. NoLostInvalidation' /\ Knowledge' /\ Contents'
    BY <1>1, DebtsKeptQuietly
  <1>3. Frame'
    BY Parts, FailureBound DEF Frame
  <1> QED
    BY <1>2, <1>3, Assemble

(* Debts and bumps that do not change. *)
LEMMA DebtsStay ==
    ASSUME IInv, UNCHANGED <<pending, bumping>>
    PROVE  /\ pending' \in [Replicas -> SUBSET Namespaces]
           /\ bumping' \in [Replicas -> [Tasks -> BumpRecords]] /\ BumpShape'
           /\ \A m \in Namespaces : Owes(m) => Owes(m)'
  BY ReplicaFacts, BumpsStay DEF Owes, Publishes

(* A poll begins, reads a changed row, or takes up a pending bump. *)
LEMMA PollBeginsStep ==
    ASSUME IInv, NEW r \in Replicas,
           _poll_once(r) \/ \E n \in Namespaces : Changed(r, n) \/ _flush_pending_bumps(r, n)
    PROVE  IInv'
  <1>1. /\ UNCHANGED <<writes, version, known, cache, lost, errors, crashes, phase, initialized>>
        /\ Fails \/ UNCHANGED counts
    BY DEF _poll_once, Changed, _flush_pending_bumps, shared, local, counts
  <1>2. PICK c : c = poll[r]
    OBVIOUS
  <1>3. c \in PollRecords
    BY <1>2, ReplicaFacts
  <1>4. PICK x \in PollRecords :
          poll' = [poll EXCEPT ![r] = x] /\ x.rows = c.rows /\ phase[r] \in {"prime", "run"}
    <2>1. CASE _poll_once(r)
      <3>1. PICK x : x = [c EXCEPT !.pc = "flush", !.queue = pending[r]]
        OBVIOUS
      <3>2. x \in PollRecords /\ x.rows = c.rows
        BY <1>3, <3>1, ReplicaFacts DEF PollRecords
      <3> QED
        BY <1>2, <2>1, <3>1, <3>2 DEF _poll_once
    <2>2. ASSUME NEW n \in Namespaces, Changed(r, n)
          PROVE  \E x \in PollRecords :
                   poll' = [poll EXCEPT ![r] = x] /\ x.rows = c.rows /\ phase[r] \in {"prime", "run"}
      <3>1. PICK x : x = [c EXCEPT !.pc = "callback", !.queue = {n}, !.todo = c.todo \ {n}]
        OBVIOUS
      <3>2. x \in PollRecords /\ x.rows = c.rows
        BY <1>3, <3>1 DEF PollRecords
      <3>3. phase[r] \in {"prime", "run"}
        BY <2>2 DEF Changed, IInv, PollPhases
      <3> QED
        BY <1>2, <2>2, <3>1, <3>2, <3>3 DEF Changed
    <2>3. ASSUME NEW n \in Namespaces, _flush_pending_bumps(r, n)
          PROVE  \E x \in PollRecords :
                   poll' = [poll EXCEPT ![r] = x] /\ x.rows = c.rows /\ phase[r] \in {"prime", "run"}
      <3>1. PICK x : x = [c EXCEPT !.queue = c.queue \ {n}]
        OBVIOUS
      <3>2. x \in PollRecords /\ x.rows = c.rows
        BY <1>3, <3>1 DEF PollRecords
      <3>3. phase[r] \in {"prime", "run"}
        BY <2>3 DEF _flush_pending_bumps, IInv, PollPhases
      <3> QED
        BY <1>2, <2>3, <3>1, <3>2, <3>3 DEF _flush_pending_bumps
    <2> QED
      BY <2>1, <2>2, <2>3
  <1>5. poll' \in [Replicas -> PollRecords] /\ RowsPublished' /\ PollPhases'
    <2>1. \A n \in Namespaces : x.rows[n] <= version[n]
      BY <1>2, <1>4 DEF IInv, RowsPublished
    <2>2. \A q \in Replicas : phase'[q] = "run" => initialized'[q]
      BY <1>1 DEF IInv, PollPhases
    <2> QED
      BY <1>1, <1>4, <2>1, <2>2, PollMoves
  <1>6. /\ pending' \in [Replicas -> SUBSET Namespaces]
        /\ bumping' \in [Replicas -> [Tasks -> BumpRecords]] /\ BumpShape'
        /\ \A m \in Namespaces : Owes(m) => Owes(m)'
    <2>1. CASE UNCHANGED <<pending, bumping>>
      BY <2>1, DebtsStay
    <2>2. ASSUME NEW n \in Namespaces, _flush_pending_bumps(r, n)
          PROVE  /\ pending' \in [Replicas -> SUBSET Namespaces]
                 /\ bumping' \in [Replicas -> [Tasks -> BumpRecords]] /\ BumpShape'
                 /\ \A m \in Namespaces : Owes(m) => Owes(m)'
      BY <2>2, StartBumpFacts DEF _flush_pending_bumps, Tasks
    <2> QED
      BY <2>1, <2>2 DEF _poll_once, Changed, local
  <1> QED
    BY <1>1, <1>5, <1>6, PollStep, Parts DEF Frame, Serving

(* The end of a poll moves the start-up on, and nobody begins to serve. *)
LEMMA PhaseAfterPollFacts ==
    ASSUME IInv, NEW r \in Replicas, PhaseAfterPoll(r)
    PROVE  /\ phase' \in [Replicas -> {"down", "prime", "load", "start", "run"}]
           /\ \A q \in Replicas : q # r => phase'[q] = phase[q]
           /\ \A q \in Replicas : phase'[q] \in {"start", "run"} => phase[q] = phase'[q]
           /\ \A q \in Replicas : Serving(q)' => Serving(q)
  <1>1. phase \in [Replicas -> {"down", "prime", "load", "start", "run"}]
    BY DEF IInv, TypeOK
  <1>2. /\ phase' \in [Replicas -> {"down", "prime", "load", "start", "run"}]
        /\ \A q \in Replicas : phase'[q] = phase[q] \/ (q = r /\ phase'[q] = "load")
    BY <1>1 DEF PhaseAfterPoll
  <1> QED
    BY <1>2 DEF Serving

(* A poll reads the versions or gives up, and ends when it has seen all. *)
LEMMA PollEndsStep ==
    ASSUME IInv, NEW r \in Replicas, ReadVersions(r) \/ PollDone(r)
    PROVE  IInv'
  <1>1. /\ UNCHANGED <<writes, version, known, cache, lost, pending, bumping>>
        /\ Fails \/ UNCHANGED counts
    BY DEF ReadVersions, PollDone, shared, local
  <1>2. poll[r] \in PollRecords /\ poll[r].pc # "idle" /\ phase[r] \in {"prime", "run"}
    BY ReplicaFacts DEF ReadVersions, PollDone, IInv, PollPhases
  <1>3. /\ phase' \in [Replicas -> {"down", "prime", "load", "start", "run"}]
        /\ \A q \in Replicas : q # r => phase'[q] = phase[q]
        /\ \A q \in Replicas : phase'[q] \in {"start", "run"} => phase[q] = phase'[q]
        /\ \A q \in Replicas : Serving(q)' => Serving(q)
    <2>1. CASE UNCHANGED phase
      BY <2>1 DEF IInv, TypeOK, Serving
    <2>2. CASE PhaseAfterPoll(r)
      BY <2>2, PhaseAfterPollFacts
    <2> QED
      BY <2>1, <2>2 DEF ReadVersions, PollDone
  <1>4. /\ initialized' \in [Replicas -> BOOLEAN]
        /\ \A q \in Replicas : phase'[q] = "run" => initialized'[q]
    <2>1. initialized \in [Replicas -> BOOLEAN] /\ \A q \in Replicas : phase'[q] = "run" => initialized[q]
      BY <1>3 DEF IInv, TypeOK, PollPhases
    <2>2. CASE UNCHANGED initialized
      BY <2>1, <2>2
    <2>3. CASE initialized' = [initialized EXCEPT ![r] = TRUE]
      BY <2>1, <2>3
    <2> QED
      BY <2>2, <2>3 DEF ReadVersions, PollDone, local
  <1>5. PICK x \in PollRecords :
          /\ poll' = [poll EXCEPT ![r] = x] /\ \A n \in Namespaces : x.rows[n] <= version[n]
          /\ x.pc = "idle" \/ UNCHANGED phase
    <2>1. CASE poll' = [poll EXCEPT ![r] = NoPoll]
      <3>1. \A n \in Namespaces : NoPoll.rows[n] <= version[n]
        BY IdleRecords, ReplicaFacts
      <3> QED
        BY <2>1, <3>1, IdleRecords
    <2>2. CASE /\ poll' = [poll EXCEPT ![r].pc = "rows", ![r].rows = version,
                                       ![r].todo = {n \in Namespaces : version[n] > 0}]
               /\ UNCHANGED phase
      <3>1. PICK x : x = [poll[r] EXCEPT !.pc = "rows", !.rows = version,
                                         !.todo = {n \in Namespaces : version[n] > 0}]
        OBVIOUS
      <3>2. x \in PollRecords /\ x.rows = version
        BY <1>2, <3>1, ReplicaFacts DEF PollRecords
      <3>3. \A n \in Namespaces : version[n] <= version[n]
        BY ReplicaFacts
      <3> QED
        BY <2>2, <3>1, <3>2, <3>3
    <2> QED
      BY <2>1, <2>2 DEF ReadVersions, PollDone
  <1>6. poll' \in [Replicas -> PollRecords] /\ RowsPublished' /\ PollPhases'
    BY <1>1, <1>2, <1>3, <1>4, <1>5, PollMoves
  <1>7. /\ pending' \in [Replicas -> SUBSET Namespaces]
        /\ bumping' \in [Replicas -> [Tasks -> BumpRecords]] /\ BumpShape'
        /\ \A m \in Namespaces : Owes(m) => Owes(m)'
    BY <1>1, DebtsStay
  <1> QED
    BY <1>1, <1>3, <1>4, <1>6, <1>7, PollStep

(* A version is acknowledged: without a callback only when there is        *)
(* nothing to learn from it, or after the callback has reloaded the cache. *)
LEMMA AcknowledgeStep ==
    ASSUME IInv, NEW r \in Replicas, NEW n \in Namespaces, Unchanged(r, n) \/ _run_callbacks(r, n)
    PROVE  IInv'
  <1>1. /\ UNCHANGED <<writes, version, phase, pending, initialized, bumping, lost>>
        /\ Fails \/ UNCHANGED counts
    BY DEF Unchanged, _run_callbacks, shared
  <1>2. PICK c, a : c = poll[r] /\ a = acknowledged(r, n)
    OBVIOUS
  <1>3. /\ c \in PollRecords /\ c.pc \in {"rows", "callback"} /\ phase[r] \in {"prime", "run"}
        /\ c.rows[n] \in Nat /\ c.rows[n] <= version[n]
    BY <1>2, ReplicaFacts DEF Unchanged, _run_callbacks, IInv, PollPhases, RowsPublished, PollRecords
  <1>4. /\ Known(r, n) \in Nat /\ version[n] \in Nat /\ Known(r, n) <= version[n]
        /\ a = (IF Known(r, n) >= c.rows[n] THEN Known(r, n) ELSE c.rows[n])
    BY <1>2, <1>3, KnownType, MaxTwo DEF IInv, acknowledged
  <1>5. a \in Nat /\ a <= version[n]
    BY <1>3, <1>4
  <1>6. PICK x \in PollRecords : poll' = [poll EXCEPT ![r] = x] /\ x.rows = c.rows
    <2>1. CASE Unchanged(r, n)
      <3>1. PICK x : x = [c EXCEPT !.todo = c.todo \ {n}]
        OBVIOUS
      <3>2. x \in PollRecords /\ x.rows = c.rows
        BY <1>3, <3>1 DEF PollRecords
      <3> QED
        BY <1>2, <2>1, <3>1, <3>2 DEF Unchanged
    <2>2. CASE _run_callbacks(r, n)
      <3>1. PICK x : x = [c EXCEPT !.pc = "rows", !.queue = {}]
        OBVIOUS
      <3>2. x \in PollRecords /\ x.rows = c.rows
        BY <1>3, <3>1 DEF PollRecords
      <3> QED
        BY <1>2, <2>2, <3>1, <3>2 DEF _run_callbacks
    <2> QED
      BY <2>1, <2>2
  <1>7. poll' \in [Replicas -> PollRecords] /\ RowsPublished' /\ PollPhases'
    <2>1. \A m \in Namespaces : x.rows[m] <= version[m]
      BY <1>2, <1>6 DEF IInv, RowsPublished
    <2>2. \A q \in Replicas : phase'[q] = "run" => initialized'[q]
      BY <1>1 DEF IInv, PollPhases
    <2> QED
      BY <1>1, <1>3, <1>6, <2>1, <2>2, PollMoves
  <1>8. PICK k \in {known[r][n], a} : known' = [known EXCEPT ![r][n] = k]
    BY <1>2 DEF Unchanged, _run_callbacks, after_failed_callback
  <1>9. /\ known' \in [Replicas -> [Namespaces -> Nat \cup {None}]]
        /\ \A q \in Replicas, m \in Namespaces :
             known'[q][m] = IF q = r /\ m = n THEN k ELSE known[q][m]
    <2>1. known \in [Replicas -> [Namespaces -> Nat \cup {None}]] /\ k \in Nat \cup {None}
      BY <1>5, ReplicaFacts
    <2> QED
      BY <1>8, <2>1
  <1>10. \A q \in Replicas, m \in Namespaces : q # r \/ m # n => Known(q, m)' = Known(q, m)
    BY <1>9 DEF Known
  <1>11. Known(r, n)' \in {Known(r, n), a}
    BY <1>5, <1>8, <1>9, ConstantsAssumption DEF Known
  <1>12. Knowledge'
    <2>1. ASSUME NEW q \in Replicas, NEW m \in Namespaces
          PROVE  Known(q, m)' <= version[m]
      BY <1>4, <1>5, <1>10, <1>11, KnownType DEF IInv
    <2> QED
      BY <1>1, <1>9, <2>1, ReplicaFacts DEF Knowledge
  <1>13. /\ Contents'
         /\ \A q \in Replicas, m \in Namespaces : q # r \/ m # n => cache'[q][m] = cache[q][m]
         /\ cache'[r][n] = Rows(n) \/ UNCHANGED cache
    <2>1. CASE UNCHANGED cache
      BY <1>1, <2>1, Parts DEF Contents, Rows
    <2>2. CASE cache' = [cache EXCEPT ![r][n] = Rows(n)]
      <3>1. Rows(n) \in SUBSET Nat /\ cache \in [Replicas -> [Namespaces -> SUBSET Nat]]
        BY ReplicaFacts DEF Rows, IInv, CacheShape
      <3>2. /\ cache' \in [Replicas -> [Namespaces -> SUBSET Nat]]
            /\ \A q \in Replicas, m \in Namespaces :
                 cache'[q][m] = IF q = r /\ m = n THEN Rows(n) ELSE cache[q][m]
        BY <2>2, <3>1
      <3> QED
        BY <1>1, <3>2, Parts DEF Contents, Rows
    <2> QED
      BY <2>1, <2>2 DEF Unchanged, _run_callbacks
  <1>14. ASSUME NEW q \in Replicas \ LocalBumpers, NEW m \in Namespaces, Stale(q, m)'
         PROVE  Stale(q, m) /\ Known(q, m)' <= Known(q, m)
    <2>1. Known(q, m) \in Nat
      BY KnownType DEF IInv
    <2>2. CASE q # r \/ m # n
      BY <1>1, <1>10, <1>13, <1>14, <2>1, <2>2 DEF Stale, Serving, Rows
    <2>3. CASE q = r /\ m = n /\ _run_callbacks(r, n)
      <3>1. cache'[r][n] # Rows(n)
        BY <1>1, <1>14, <2>3 DEF Stale, Rows
      <3>2. UNCHANGED cache /\ known' = [known EXCEPT ![r][n] = known[r][n]]
        <4>1. Rows(n) \in SUBSET Nat /\ cache \in [Replicas -> [Namespaces -> SUBSET Nat]]
          BY ReplicaFacts DEF Rows, IInv, CacheShape
        <4>2. ~(cache' = [cache EXCEPT ![r][n] = Rows(n)])
          BY <3>1, <4>1
        <4> QED
          BY <2>3, <4>2 DEF _run_callbacks, after_failed_callback
      <3>3. known'[r][n] = known[r][n]
        BY <3>2, ReplicaFacts
      <3> QED
        BY <1>1, <1>14, <2>1, <2>3, <3>2, <3>3 DEF Stale, Serving, Rows, Known
    <2>4. CASE q = r /\ m = n /\ Unchanged(r, n)
      <3>1. UNCHANGED cache
        BY <2>4 DEF Unchanged
      <3>2. phase[r] = "run"
        BY <1>1, <1>3, <1>14, <2>4 DEF Stale, Serving
      <3>3. c.rows[n] <= Known(r, n)
        <4>1. initialized[r]
          BY <3>2 DEF IInv, PollPhases
        <4>2. ~changed(r, n)
          BY <2>4 DEF Unchanged
        <4>3. known[r][n] \in Nat \cup {None}
          BY ReplicaFacts
        <4> QED
          BY <1>2, <1>3, <4>1, <4>2, <4>3 DEF changed, Known
      <3>4. a = Known(r, n)
        BY <1>3, <1>4, <3>3
      <3> QED
        BY <1>1, <1>11, <1>14, <2>1, <2>4, <3>1, <3>4 DEF Stale, Serving, Rows
    <2> QED
      BY <2>2, <2>3, <2>4
  <1>15. /\ pending' \in [Replicas -> SUBSET Namespaces]
         /\ bumping' \in [Replicas -> [Tasks -> BumpRecords]] /\ BumpShape'
         /\ \A m \in Namespaces : Owes(m) => Owes(m)'
    BY <1>1, DebtsStay
  <1>16. NoLostInvalidation'
    <2>1. \A m \in Namespaces : version'[m] >= version[m]
      BY <1>1, ReplicaFacts
    <2> QED
      BY <1>1, <1>12, <1>14, <1>15, <2>1, DebtsKept
  <1>17. Frame'
    BY <1>1, <1>7, <1>15, Parts, FailureBound DEF Frame
  <1> QED
    BY <1>7, <1>12, <1>13, <1>15, <1>16, <1>17, Assemble

-----------------------------------------------------------------------------
(* Start-up and crash. *)

(* A replica is launched, or starts its poller. *)
LEMMA LaunchStep ==
    ASSUME IInv, NEW r \in Replicas, Launch(r) \/ start(r)
    PROVE  IInv'
  <1>1. /\ UNCHANGED <<writes, version, known, cache, lost, pending, bumping, poll, errors, crashes>>
        /\ Fails \/ UNCHANGED counts
    BY DEF Launch, start, shared, local, counts
  <1>2. /\ phase \in [Replicas -> {"down", "prime", "load", "start", "run"}]
        /\ initialized \in [Replicas -> BOOLEAN]
    BY DEF IInv, TypeOK
  <1>3. /\ phase' \in [Replicas -> {"down", "prime", "load", "start", "run"}]
        /\ initialized' \in [Replicas -> BOOLEAN]
        /\ \A q \in Replicas : Serving(q)' => Serving(q)
        /\ PollPhases'
    <2>1. CASE Launch(r)
      BY <1>1, <1>2, <2>1 DEF Launch, Serving, IInv, PollPhases, local
    <2>2. CASE start(r)
      BY <1>1, <1>2, <2>2 DEF start, armed, Serving, IInv, PollPhases
    <2> QED
      BY <2>1, <2>2
  <1>4. RowsPublished' /\ poll' \in [Replicas -> PollRecords]
    BY <1>1, ReplicaFacts DEF IInv, RowsPublished
  <1>5. /\ pending' \in [Replicas -> SUBSET Namespaces]
        /\ bumping' \in [Replicas -> [Tasks -> BumpRecords]] /\ BumpShape'
        /\ \A m \in Namespaces : Owes(m) => Owes(m)'
    BY <1>1, DebtsStay
  <1> QED
    BY <1>1, <1>3, <1>4, <1>5, PollStep

(* A replica loads its caches and begins to serve. *)
LEMMA LoadCachesStep ==
    ASSUME IInv, NEW r \in Replicas, LoadCaches(r)
    PROVE  IInv'
  <1>1. /\ UNCHANGED <<writes, version, known, lost, pending, bumping, poll, initialized, errors, crashes>>
        /\ cache' = [cache EXCEPT ![r] = [n \in Namespaces |-> Rows(n)]]
        /\ phase[r] = "load" /\ phase' = [phase EXCEPT ![r] = "start"]
    BY DEF LoadCaches, shared, counts
  <1>2. /\ phase \in [Replicas -> {"down", "prime", "load", "start", "run"}]
        /\ cache \in [Replicas -> [Namespaces -> SUBSET Nat]]
        /\ \A n \in Namespaces : Rows(n) \in SUBSET Nat
    BY ReplicaFacts DEF IInv, TypeOK, CacheShape, Rows
  <1>3. /\ cache' \in [Replicas -> [Namespaces -> SUBSET Nat]]
        /\ \A q \in Replicas, n \in Namespaces : cache'[q][n] = IF q = r THEN Rows(n) ELSE cache[q][n]
    BY <1>1, <1>2
  <1>4. /\ phase' \in [Replicas -> {"down", "prime", "load", "start", "run"}] /\ PollPhases'
        /\ \A q \in Replicas : q # r => phase'[q] = phase[q]
    BY <1>1, <1>2 DEF IInv, PollPhases
  <1>5. Contents'
    BY <1>1, <1>3, Parts DEF Contents, Rows
  <1>6. \A q \in Replicas, n \in Namespaces : Known(q, n)' = Known(q, n) /\ Known(q, n) \in Nat
    BY <1>1, KnownType DEF IInv, Known
  <1>7. Knowledge'
    BY <1>1, <1>6, Parts DEF Knowledge
  <1>8. \A q \in Replicas, n \in Namespaces : Stale(q, n)' => Stale(q, n) /\ Known(q, n)' <= Known(q, n)
    BY <1>1, <1>3, <1>4, <1>6 DEF Stale, Serving, Rows
  <1>9. RowsPublished' /\ poll' \in [Replicas -> PollRecords]
    BY <1>1, ReplicaFacts DEF IInv, RowsPublished
  <1>10. /\ pending' \in [Replicas -> SUBSET Namespaces]
         /\ bumping' \in [Replicas -> [Tasks -> BumpRecords]] /\ BumpShape'
         /\ \A m \in Namespaces : Owes(m) => Owes(m)'
    BY <1>1, DebtsStay
  <1>11. NoLostInvalidation'
    <2>1. \A m \in Namespaces : version'[m] >= version[m]
      BY <1>1, ReplicaFacts
    <2> QED
      BY <1>1, <1>7, <1>8, <1>10, <2>1, DebtsKept
  <1>12. Frame'
    BY <1>1, <1>4, <1>9, <1>10, Parts DEF Frame
  <1> QED
    BY <1>4, <1>5, <1>7, <1>9, <1>10, <1>11, <1>12, Assemble

(* A process dies; the namespaces it still had to publish are marked. *)
LEMMA CrashStep ==
    ASSUME IInv, NEW r \in Replicas, Crash(r)
    PROVE  IInv'
  <1>1. /\ UNCHANGED <<writes, version, errors>> /\ crashes < MaxCrashes /\ crashes' = crashes + 1
        /\ lost' = lost \cup pending[r] \cup
                     {bumping[r][t].ns : t \in {u \in Tasks : bumping[r][u].pc = "write"}}
        /\ phase' = [phase EXCEPT ![r] = "down"]
        /\ known' = [known EXCEPT ![r] = NoVersions]
        /\ pending' = [pending EXCEPT ![r] = {}]
        /\ initialized' = [initialized EXCEPT ![r] = FALSE]
        /\ cache' = [cache EXCEPT ![r] = [n \in Namespaces |-> {}]]
        /\ poll' = [poll EXCEPT ![r] = NoPoll]
        /\ bumping' = [bumping EXCEPT ![r] = [t \in Tasks |-> NoBump]]
    BY DEF Crash, shared
  <1>2. /\ phase' \in [Replicas -> {"down", "prime", "load", "start", "run"}]
        /\ initialized' \in [Replicas -> BOOLEAN]
        /\ pending' \in [Replicas -> SUBSET Namespaces]
        /\ phase'[r] = "down" /\ pending'[r] = {}
        /\ \A q \in Replicas : q # r =>
             phase'[q] = phase[q] /\ pending'[q] = pending[q] /\ initialized'[q] = initialized[q]
    BY <1>1 DEF IInv, TypeOK
  <1>3. /\ bumping' \in [Replicas -> [Tasks -> BumpRecords]]
        /\ \A q \in Replicas, t \in Tasks : bumping'[q][t] = IF q = r THEN NoBump ELSE bumping[q][t]
    BY <1>1, ReplicaFacts, IdleRecords
  <1>4. BumpShape'
    <2>1. ASSUME NEW q \in Replicas, NEW t \in Tasks
          PROVE  BumpOK(q, bumping'[q][t])
      BY <1>3, ReplicaFacts, IdleRecords
    <2> QED
      BY <2>1 DEF BumpShape, BumpOK, NoBump
  <1>5. /\ poll' \in [Replicas -> PollRecords]
        /\ \A q \in Replicas : poll'[q] = IF q = r THEN NoPoll ELSE poll[q]
    BY <1>1, ReplicaFacts, IdleRecords
  <1>6. RowsPublished' /\ PollPhases'
    <2>1. \A n \in Namespaces : NoPoll.rows[n] <= version[n]
      BY ReplicaFacts, IdleRecords
    <2>2. RowsPublished'
      BY <1>1, <1>5, <2>1 DEF IInv, RowsPublished
    <2>3. PollPhases'
      BY <1>2, <1>5, IdleRecords DEF IInv, PollPhases
    <2> QED
      BY <2>2, <2>3
  <1>7. Contents'
    <2>1. /\ cache' \in [Replicas -> [Namespaces -> SUBSET Nat]]
          /\ \A q \in Replicas, n \in Namespaces : cache'[q][n] = IF q = r THEN {} ELSE cache[q][n]
      BY <1>1 DEF IInv, CacheShape
    <2> QED
      BY <1>1, <2>1, Parts DEF Contents, Rows
  <1>8. /\ known' \in [Replicas -> [Namespaces -> Nat \cup {None}]]
        /\ \A q \in Replicas, n \in Namespaces : known'[q][n] = IF q = r THEN None ELSE known[q][n]
    BY <1>1, ReplicaFacts DEF NoVersions
  <1>9. Knowledge'
    <2>1. ASSUME NEW q \in Replicas, NEW n \in Namespaces
          PROVE  Known(q, n)' <= version[n]
      <3>1. Known(q, n) \in Nat /\ version[n] \in Nat /\ Known(q, n) <= version[n]
        BY KnownType DEF IInv
      <3> QED
        BY <1>8, <3>1 DEF Known
    <2> QED
      BY <1>1, <1>8, <2>1, ReplicaFacts DEF Knowledge
  <1>10. lost' \subseteq Namespaces /\ lost \subseteq lost'
    <2>1. \A t \in Tasks : bumping[r][t].pc = "write" => bumping[r][t].ns \in Namespaces
      BY ReplicaFacts DEF BumpOK
    <2>2. lost \subseteq Namespaces /\ pending[r] \subseteq Namespaces
      BY ReplicaFacts DEF IInv, TypeOK
    <2> QED
      BY <1>1, <2>1, <2>2
  <1>11. ASSUME NEW n \in Namespaces \ lost', Owes(n)
         PROVE  Owes(n)'
    <2>1. n \notin pending[r] /\ \A t \in Tasks : ~Publishes(r, t, n)
      BY <1>1, <1>11 DEF Publishes
    <2> QED
      BY <1>2, <1>3, <1>11, <2>1 DEF Owes, Publishes
  <1>12. ASSUME NEW q \in Replicas, NEW n \in Namespaces, Stale(q, n)'
         PROVE  Stale(q, n) /\ Known(q, n)' <= Known(q, n)
    <2>1. q # r
      BY <1>2, <1>12 DEF Stale, Serving
    <2>2. cache'[q][n] = cache[q][n] /\ known'[q][n] = known[q][n] /\ phase'[q] = phase[q]
      BY <1>1, <1>2, <1>8, <2>1 DEF IInv, CacheShape
    <2>3. Known(q, n) \in Nat
      BY KnownType DEF IInv
    <2> QED
      BY <1>1, <1>12, <2>2, <2>3 DEF Stale, Serving, Rows, Known
  <1>13. NoLostInvalidation'
    <2>1. \A m \in Namespaces : version'[m] >= version[m]
      BY <1>1, ReplicaFacts
    <2> QED
      BY <1>9, <1>10, <1>11, <1>12, <2>1, DebtsKept
  <1>14. Frame'
    <2>1. crashes' \in 0..MaxCrashes /\ errors' \in 0..MaxErrors
      BY <1>1, ConstantsAssumption DEF IInv, TypeOK
    <2> QED
      BY <1>2, <1>3, <1>5, <1>10, <2>1 DEF Frame
  <1> QED
    BY <1>4, <1>6, <1>7, <1>9, <1>13, <1>14, Assemble

-----------------------------------------------------------------------------
(* The theorems. *)

(* The initial states. *)
LEMMA InitSafe == Init => IInv
  <1> SUFFICES ASSUME Init PROVE IInv
    OBVIOUS
  <1>1. Frame
    BY IdleRecords, ConstantsAssumption DEF Init, Frame
  <1>2. Knowledge
    BY ConstantsAssumption DEF Init, Knowledge, Known, NoVersions
  <1>3. Contents
    BY ConstantsAssumption DEF Init, Contents
  <1>4. RowsPublished /\ PollPhases
    BY IdleRecords DEF Init, RowsPublished, PollPhases
  <1>5. BumpShape
    BY IdleRecords DEF Init, BumpShape
  <1>6. NoLostInvalidation
    BY DEF Init, NoLostInvalidation, Stale, Serving
  <1> QED
    BY <1>1, <1>2, <1>3, <1>4, <1>5, <1>6, Parts

(* Every step. *)
LEMMA NextSafe == IInv /\ [Next]_vars => IInv'
  <1> SUFFICES ASSUME IInv, [Next]_vars PROVE IInv'
    OBVIOUS
  <1>1. ASSUME NEW r \in Replicas, TaskStep(r)
        PROVE  IInv'
    BY <1>1, PollBeginsStep, PollEndsStep, AcknowledgeStep, LoadCachesStep, LaunchStep, AckStep,
       BumpOnceStep, BumpEndsStep DEF TaskStep
  <1>2. ASSUME NEW r \in Replicas, Launch(r) \/ Crash(r)
        PROVE  IInv'
    BY <1>2, LaunchStep, CrashStep
  <1>3. ASSUME NEW r \in Replicas, NEW t \in Tasks, NEW retryable \in BOOLEAN, BumpFails(r, t, retryable)
        PROVE  IInv'
    BY <1>3, BumpEndsStep
  <1>4. ASSUME NEW r \in Replicas, NEW n \in Namespaces,
               ChangeAndBump(r, n) \/ request_bump(r, n) \/ bump_local(r, n)
        PROVE  IInv'
    BY <1>4, ChangeStep
  <1>5. CASE UNCHANGED vars
    <2>1. /\ UNCHANGED <<writes, version, known, cache, lost, phase, initialized, pending, bumping, poll>>
          /\ UNCHANGED counts
      BY <1>5 DEF vars, shared, local
    <2>2. version \in [Namespaces -> Nat] /\ \A n \in Namespaces : version[n] >= version[n]
      BY ReplicaFacts
    <2> QED
      BY <2>1, <2>2, PollStep, DebtsStay, PollsStay DEF IInv, TypeOK, Serving
  <1> QED
    BY <1>1, <1>2, <1>3, <1>4, <1>5 DEF Next

(* The inductive invariant holds in every reachable state. *)
THEOREM SafetyInvariant == Spec => []IInv
  BY InitSafe, NextSafe, PTL DEF Spec

(* The state keeps its shape: a bump never starts an attempt past          *)
(* BUMP_RETRY_ATTEMPTS, and no replica acknowledges a version that nobody  *)
(* has published.                                                          *)
THEOREM TypeCorrect == Spec => []TypeOK
  <1>1. IInv => TypeOK
    BY DEF IInv
  <1> QED
    BY <1>1, SafetyInvariant, PTL

(* A serving replica whose cache misses a change has a bump still to come, *)
(* however bumps, their retries, failing polls and callbacks, start-ups    *)
(* and crashes of any number of replicas interleave (bump, request_bump,   *)
(* _poll_once, prime, start).                                              *)
THEOREM NothingIsLost == Spec => []NoLostInvalidation
  <1>1. IInv => NoLostInvalidation
    BY DEF IInv
  <1> QED
    BY <1>1, SafetyInvariant, PTL
=============================================================================
