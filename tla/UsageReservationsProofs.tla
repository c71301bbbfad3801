---------------------- MODULE UsageReservationsProofs ----------------------
(***************************************************************************)
(* Proofs about UsageReservations for every set of limits, reservations    *)
(* and clients, all budgets and usages, any number of windows, updates and *)
(* failing statements.                                                     *)
(***************************************************************************)
EXTENDS UsageReservations, FiniteSetTheorems, WellFoundedInduction, TLAPS

-----------------------------------------------------------------------------
(* Sums over finite sets. *)

(* Induction over the numbers in a set that holds zero and every successor. *)
LEMMA NatSetInduction ==
    ASSUME NEW T \in SUBSET Nat, 0 \in T, \A n \in T : n + 1 \in T
    PROVE  \A n \in Nat : n \in T
  <1> DEFINE U == Nat \ T
  <1> SUFFICES ASSUME U # {} PROVE FALSE
    OBVIOUS
  <1>1. \A x, y \in Nat : x < y => <<x, y>> \in OpToRel(<, Nat)
    BY DEF OpToRel
  <1>2. \E m \in U : \A u \in U : ~(<<u, m>> \in OpToRel(<, Nat))
    BY NatLessThanWellFounded, WFMin
  <1>3. PICK m \in U : \A u \in U : ~(<<u, m>> \in OpToRel(<, Nat))
    BY <1>2
  <1>4. m \in Nat /\ m # 0
    OBVIOUS
  <1>5. m - 1 \in Nat /\ m - 1 < m /\ (m - 1) + 1 = m
    BY <1>4
  <1>6. m - 1 \in T
    BY <1>1, <1>3, <1>4, <1>5
  <1> QED
    BY <1>5, <1>6

(* The member of a set that CHOOSE takes. *)
First(s) == CHOOSE r \in s : TRUE

(* g adds up the weights w over every subset of S, first member by first. *)
SumsTo(w, S, g) ==
    g = [s \in SUBSET S |-> IF s = {} THEN 0 ELSE w[First(s)] + g[s \ {First(s)}]]

(* Such a function exists: it is built for ever larger subsets. *)
LEMMA SumExists ==
    ASSUME NEW S, IsFiniteSet(S), NEW w
    PROVE  \E g : SumsTo(w, S, g)
  <1> DEFINE Upto(n) == {s \in SUBSET S : Cardinality(s) <= n}
             Good(n, g) == g = [s \in Upto(n) |->
                 IF s = {} THEN 0 ELSE w[First(s)] + g[s \ {First(s)}]]
             T == {n \in Nat : \E g : Good(n, g)}
  <1>1. \A s \in SUBSET S : IsFiniteSet(s) /\ Cardinality(s) \in Nat /\ Cardinality(s) <= Cardinality(S)
    BY FS_Subset, FS_CardinalityType
  <1>2. \A s \in SUBSET S : Cardinality(s) = 0 <=> s = {}
    BY <1>1, FS_EmptySet
  <1>3. \A s \in SUBSET S : s # {} => /\ First(s) \in s
                                      /\ s \ {First(s)} \in SUBSET S
                                      /\ Cardinality(s \ {First(s)}) = Cardinality(s) - 1
    BY <1>1, FS_RemoveElement DEF First
  <1>4. 0 \in T
    <2> DEFINE g == [s \in Upto(0) |-> 0]
    <2>1. \A s \in Upto(0) : s = {}
      BY <1>1, <1>2
    <2>2. Good(0, g)
      BY <2>1
    <2> QED
      BY <2>2
  <1>5. ASSUME NEW n \in T PROVE n + 1 \in T
    <2>1. PICK g : Good(n, g)
      OBVIOUS
    <2> DEFINE h == [s \in Upto(n + 1) |->
                       IF s = {} THEN 0 ELSE w[First(s)] + g[s \ {First(s)}]]
    <2>2. ASSUME NEW s \in Upto(n) PROVE s \in Upto(n + 1) /\ h[s] = g[s]
      <3>1. s \in Upto(n + 1)
        BY <1>1
      <3> QED
        BY <2>1, <3>1
    <2>3. ASSUME NEW s \in Upto(n + 1), s # {} PROVE s \ {First(s)} \in Upto(n)
      BY <1>1, <1>3, <2>3
    <2>4. ASSUME NEW s \in Upto(n + 1), s # {} PROVE h[s \ {First(s)}] = g[s \ {First(s)}]
      BY <2>2, <2>3, <2>4
    <2>5. Good(n + 1, h)
      BY <2>4
    <2>6. n \in Nat
      OBVIOUS
    <2> QED
      <3> HIDE DEF Good, h
      <3> QED
        BY <2>5, <2>6
  <1>6. \A n \in Nat : n \in T
    <2> HIDE DEF T
    <2>1. T \in SUBSET Nat
      BY DEF T
    <2> QED
      BY <1>4, <1>5, <2>1, NatSetInduction
  <1>7. Cardinality(S) \in T /\ Upto(Cardinality(S)) = SUBSET S
    BY <1>1, <1>6
  <1> QED
    BY <1>7 DEF SumsTo

(* A property of all sets below a finite one, shown by their size. *)
LEMMA SizeInduction ==
    ASSUME NEW S, IsFiniteSet(S), NEW G \in SUBSET (SUBSET S),
           {} \in G,
           \A s \in SUBSET S : s # {} /\ s \ {First(s)} \in G => s \in G
    PROVE  \A s \in SUBSET S : s \in G
  <1> DEFINE T == {n \in Nat : \A s \in SUBSET S : Cardinality(s) = n => s \in G}
  <1>1. \A s \in SUBSET S : IsFiniteSet(s) /\ Cardinality(s) \in Nat
    BY FS_Subset, FS_CardinalityType
  <1>2. \A s \in SUBSET S : Cardinality(s) = 0 <=> s = {}
    BY <1>1, FS_EmptySet
  <1>3. \A s \in SUBSET S : s # {} => /\ First(s) \in s
                                      /\ s \ {First(s)} \in SUBSET S
                                      /\ Cardinality(s \ {First(s)}) = Cardinality(s) - 1
    BY <1>1, FS_RemoveElement DEF First
  <1>4. 0 \in T
    BY <1>2
  <1>5. ASSUME NEW n \in T PROVE n + 1 \in T
    <2>1. n \in Nat
      OBVIOUS
    <2>2. ASSUME NEW s \in SUBSET S, Cardinality(s) = n + 1 PROVE s \in G
      <3>1. s # {}
        BY <1>2, <2>1, <2>2
      <3>2. Cardinality(s \ {First(s)}) = n
        BY <1>3, <2>1, <2>2, <3>1
      <3>3. s \ {First(s)} \in G
        BY <1>3, <3>1, <3>2
      <3> QED
        BY <3>1, <3>3
    <2> QED
      BY <2>1, <2>2
  <1>6. \A n \in Nat : n \in T
    <2>1. T \in SUBSET Nat
      OBVIOUS
    <2> HIDE DEF T
    <2> QED
      BY <1>4, <1>5, <2>1, NatSetInduction
  <1> QED
    BY <1>1, <1>6

(* Sums of naturals are naturals. *)
LEMMA SumsType ==
    ASSUME NEW S, IsFiniteSet(S), NEW w \in [S -> Nat], NEW g, SumsTo(w, S, g)
    PROVE  \A s \in SUBSET S : g[s] \in Nat
  <1> DEFINE G == {s \in SUBSET S : g[s] \in Nat}
  <1>1. {} \in G
    BY DEF SumsTo
  <1>2. ASSUME NEW s \in SUBSET S, s # {}, s \ {First(s)} \in G PROVE s \in G
    <2>1. First(s) \in S
      BY <1>2 DEF First
    <2>2. g[s] = w[First(s)] + g[s \ {First(s)}]
      BY <1>2 DEF SumsTo
    <2> QED
      BY <1>2, <2>1, <2>2
  <1>3. G \in SUBSET (SUBSET S)
    OBVIOUS
  <1>4. \A s \in SUBSET S : s \in G
    <2> HIDE DEF G
    <2> QED
      BY <1>1, <1>2, <1>3, SizeInduction
  <1> QED
    BY <1>4

(* Weights that differ in one place have sums that differ as much. *)
LEMMA SumsUpdate ==
    ASSUME NEW S, IsFiniteSet(S), NEW w \in [S -> Nat], NEW v \in [S -> Nat], NEW x \in S,
           \A r \in S : r # x => v[r] = w[r],
           NEW g, SumsTo(w, S, g), NEW h, SumsTo(v, S, h)
    PROVE  \A s \in SUBSET S : h[s] = IF x \in s THEN g[s] - w[x] + v[x] ELSE g[s]
  <1> DEFINE G == {s \in SUBSET S : h[s] = IF x \in s THEN g[s] - w[x] + v[x] ELSE g[s]}
  <1>0. \A s \in SUBSET S : g[s] \in Nat /\ h[s] \in Nat
    BY SumsType
  <1>1. {} \in G
    BY DEF SumsTo
  <1>2. ASSUME NEW s \in SUBSET S, s # {}, s \ {First(s)} \in G PROVE s \in G
    <2> DEFINE f == First(s)
               rest == s \ {f}
    <2>1. f \in s /\ f \in S /\ rest \in SUBSET S
      BY <1>2 DEF First
    <2>2. g[s] = w[f] + g[rest] /\ h[s] = v[f] + h[rest]
      BY <1>2 DEF SumsTo
    <2>3. w[f] \in Nat /\ v[f] \in Nat /\ w[x] \in Nat /\ v[x] \in Nat
      BY <2>1
    <2>4. h[rest] = IF x \in rest THEN g[rest] - w[x] + v[x] ELSE g[rest]
      BY <1>2
    <2>5. g[rest] \in Nat /\ h[rest] \in Nat
      BY <1>0, <2>1
    <2> HIDE DEF f
    <2>6. CASE f = x
      <3>1. x \in s /\ x \notin rest
        BY <2>1, <2>6
      <3>2. h[rest] = g[rest]
        BY <2>4, <3>1
      <3>3. h[s] = g[s] - w[x] + v[x]
        <4> HIDE DEF rest
        <4> QED
          BY <2>2, <2>3, <2>5, <2>6, <3>2
      <3> QED
        BY <3>1, <3>3
    <2>7. CASE f # x
      <3>1. (x \in s <=> x \in rest) /\ v[f] = w[f]
        BY <2>1, <2>7
      <3>2. h[s] = IF x \in s THEN g[s] - w[x] + v[x] ELSE g[s]
        <4> HIDE DEF rest
        <4> QED
          BY <2>2, <2>3, <2>4, <2>5, <3>1
      <3> QED
        BY <3>2
    <2> QED
      BY <2>6, <2>7
  <1>3. G \in SUBSET (SUBSET S)
    OBVIOUS
  <1>4. \A s \in SUBSET S : s \in G
    <2> HIDE DEF G
    <2> QED
      BY <1>1, <1>2, <1>3, SizeInduction
  <1> QED
    BY <1>4

(* SumFunction adds up in this way. *)
LEMMA SumFunctionIsSum ==
    ASSUME NEW S, IsFiniteSet(S), NEW w \in [S -> Nat]
    PROVE  \E g : SumsTo(w, S, g) /\ SumFunction(w) = g[S]
  <1> DEFINE Is(g) == g = [s \in SUBSET S |->
                IF s = {} THEN 0
                ELSE LET x == CHOOSE r \in s : TRUE IN  w[x] + g[s \ {x}]]
             sum == CHOOSE g : Is(g)
  <1>0. DOMAIN w = S
    OBVIOUS
  <1>1. SumFunction(w) = sum[S]
    BY <1>0 DEF SumFunction, SumFunctionOnSet, FoldFunctionOnSet, MapThenFoldSet
  <1>2. ASSUME NEW g PROVE Is(g) <=> SumsTo(w, S, g)
    BY DEF SumsTo, First
  <1>3. \E g : Is(g)
    <2> HIDE DEF Is
    <2> QED
      BY <1>2, SumExists
  <1>4. Is(sum)
    <2> HIDE DEF Is
    <2> QED
      BY <1>3
  <1> QED
    <2> HIDE DEF Is, sum
    <2> QED
      BY <1>1, <1>2, <1>4

(* What a ledger's sums are used for: they are naturals, ... *)
LEMMA SumType ==
    ASSUME NEW w \in [Reservations -> Nat]
    PROVE  SumFunction(w) \in Nat
  <1>1. IsFiniteSet(Reservations)
    BY ConstantsAssumption
  <1>2. PICK g : SumsTo(w, Reservations, g) /\ SumFunction(w) = g[Reservations]
    BY <1>1, SumFunctionIsSum
  <1> QED
    BY <1>1, <1>2, SumsType

(* ... change with one summand, ... *)
LEMMA SumUpdate ==
    ASSUME NEW w \in [Reservations -> Nat], NEW v \in [Reservations -> Nat],
           NEW x \in Reservations, \A r \in Reservations : r # x => v[r] = w[r]
    PROVE  SumFunction(v) = SumFunction(w) - w[x] + v[x]
  <1>1. IsFiniteSet(Reservations)
    BY ConstantsAssumption
  <1>2. PICK g : SumsTo(w, Reservations, g) /\ SumFunction(w) = g[Reservations]
    BY <1>1, SumFunctionIsSum
  <1>3. PICK h : SumsTo(v, Reservations, h) /\ SumFunction(v) = h[Reservations]
    BY <1>1, SumFunctionIsSum
  <1>4. \A s \in SUBSET Reservations : h[s] = IF x \in s THEN g[s] - w[x] + v[x] ELSE g[s]
    BY <1>1, <1>2, <1>3, SumsUpdate
  <1> QED
    BY <1>2, <1>3, <1>4

(* ... cover every summand, ... *)
LEMMA SumCovers ==
    ASSUME NEW w \in [Reservations -> Nat], NEW x \in Reservations
    PROVE  w[x] <= SumFunction(w)
  <1> DEFINE v == [w EXCEPT ![x] = 0]
  <1>1. v \in [Reservations -> Nat] /\ v[x] = 0 /\ \A r \in Reservations : r # x => v[r] = w[r]
    OBVIOUS
  <1> HIDE DEF v
  <1>2. SumFunction(v) = SumFunction(w) - w[x] + v[x]
    BY <1>1, SumUpdate
  <1>3. SumFunction(v) \in Nat /\ SumFunction(w) \in Nat /\ w[x] \in Nat
    BY <1>1, SumType
  <1> QED
    BY <1>1, <1>2, <1>3

(* ... and vanish with all of them. *)
LEMMA SumZero ==
    ASSUME NEW w \in [Reservations -> Nat], \A r \in Reservations : w[r] = 0
    PROVE  SumFunction(w) = 0
  <1> DEFINE S == Reservations
  <1>1. IsFiniteSet(S)
    BY ConstantsAssumption
  <1>2. PICK g : SumsTo(w, S, g) /\ SumFunction(w) = g[S]
    BY <1>1, SumFunctionIsSum
  <1> DEFINE G == {s \in SUBSET S : g[s] = 0}
  <1>3. {} \in G
    BY <1>2 DEF SumsTo
  <1>4. ASSUME NEW s \in SUBSET S, s # {}, s \ {First(s)} \in G PROVE s \in G
    <2>1. First(s) \in S
      BY <1>4 DEF First
    <2>2. g[s] = w[First(s)] + g[s \ {First(s)}]
      BY <1>2, <1>4 DEF SumsTo
    <2> QED
      BY <1>4, <2>1, <2>2
  <1>5. G \in SUBSET (SUBSET S)
    OBVIOUS
  <1>6. \A s \in SUBSET S : s \in G
    <2> HIDE DEF G, S
    <2> QED
      BY <1>1, <1>3, <1>4, <1>5, SizeInduction
  <1> QED
    BY <1>2, <1>6

-----------------------------------------------------------------------------
(* What a transaction may rely on. *)

LimitRows == [Limits -> [current : Nat, max : MaxValues, win : 0..MaxWindows]]
ItemRows == [Limits -> Item \cup {None}]

(* The types, those of what a transaction has read included. *)
Shape ==
    /\ TypeOK
    /\ seen \in [Actors -> LimitRows \cup {None}] /\ items \in [Actors -> ItemRows]
    /\ admin \in LimitRows \cup {None}
    /\ \A l \in expired : limit[l].win < MaxWindows

Admitting(a) == op[a] \in {"reset", "reserve"}
Settling(a) == op[a] \in {"claim", "adjust"}

(* What a transaction has in hand at each of its stages. *)
StageOK(a) ==
    /\ op[a] = "idle" => batch[a] = {} /\ claims[a] = {} /\ todo[a] = {} /\ draft[a] = NoItems
    /\ Admitting(a) => seen[a] \in LimitRows /\ goal[a] = "reserve" /\ claims[a] = {}
    /\ op[a] = "reset" => draft[a] = NoItems /\ \A l \in todo[a] : seen[a][l].win < MaxWindows
    /\ Settling(a) => goal[a] \in Settled
    /\ op[a] = "claim" => todo[a] = {}
    /\ op[a] = "adjust" => \A l \in todo[a] : items[a][l] # None

(* A reservation row that is not there yet has no items. *)
NewRows == \A r \in Reservations : res[r].status = "none" => res[r].items = NoItems

(* A request creates its own reservation, a settler's are there already,   *)
(* and one it has claimed stays reserved until it commits.                 *)
BatchOK(a) ==
    /\ Admitting(a) => \E r \in Reservations : batch[a] = {r} /\ res[r].status = "none"
    /\ Settling(a) => \A r \in batch[a] : res[r].status # "none" /\ r \notin claims[a]
    /\ \A r \in claims[a] : res[r].status = "reserved"

(* Two transactions create different reservations, claim different ones    *)
(* and write different counters.                                           *)
Apart(a, b) ==
    /\ Admitting(a) /\ Admitting(b) => batch[a] # batch[b]
    /\ claims[a] \cap claims[b] = {}
    /\ \A l \in Limits : draft[a][l] = None \/ draft[b][l] = None

(* What a request has reserved so far: the written counter is the          *)
(* committed one and its item, within the maximum.                         *)
ReservingOK(a) ==
    op[a] = "reserve" =>
      \A l \in Limits :
        /\ draft[a][l] # None =>
             /\ l \notin todo[a] /\ items[a][l] # None /\ items[a][l].win = limit[l].win
             /\ draft[a][l] = limit[l].current + items[a][l].delta /\ draft[a][l] <= limit[l].max
        /\ draft[a][l] = None /\ l \notin todo[a] /\ items[a][l] # None => items[a][l].delta = 0

ActorOK(a) == StageOK(a) /\ BatchOK(a) /\ ReservingOK(a)

IInv ==
    /\ Shape /\ NewRows
    /\ \A a \in Actors : ActorOK(a)
    /\ \A a, b \in Actors : a # b => Apart(a, b)

(* A step leaves what transaction b has in hand alone. *)
Same(b) ==
    /\ op'[b] = op[b] /\ goal'[b] = goal[b] /\ batch'[b] = batch[b] /\ claims'[b] = claims[b]
    /\ todo'[b] = todo[b] /\ seen'[b] = seen[b] /\ draft'[b] = draft[b]
    /\ items'[b] = items[b] /\ actual'[b] = actual[b]

(* What a step does to the rows is no business of transaction b. *)
Harmless(b) ==
    /\ \A r \in Reservations : \/ res'[r] = res[r]
                               \/ /\ res'[r].status # "none" /\ r \notin claims[b]
                                  /\ Admitting(b) => r \notin batch[b]
    /\ \A l \in Limits : limit'[l] = limit[l] \/ draft[b][l] = None

-----------------------------------------------------------------------------
(* How steps are put together. *)

(* A transaction the step leaves alone keeps what it relies on. *)
LEMMA ActorFrame ==
    ASSUME Shape, NEW b \in Actors, ActorOK(b), Same(b), Harmless(b)
    PROVE  ActorOK(b)'
  <1>1. StageOK(b)'
    BY DEF ActorOK, StageOK, Same, Admitting, Settling
  <1>2. BatchOK(b)'
    <2>1. claims[b] \subseteq Reservations /\ batch[b] \subseteq Reservations
      BY DEF Shape, TypeOK
    <2>2. ASSUME Admitting(b)' PROVE \E r \in Reservations : batch'[b] = {r} /\ res'[r].status = "none"
      <3>1. PICK r \in Reservations : batch[b] = {r} /\ res[r].status = "none"
        BY <2>2 DEF ActorOK, BatchOK, Same, Admitting
      <3>2. r \in batch[b] /\ Admitting(b)
        BY <2>2, <3>1 DEF Same, Admitting
      <3>3. res'[r] = res[r]
        BY <3>2 DEF Harmless
      <3> QED
        BY <3>1, <3>3 DEF Same
    <2>3. ASSUME Settling(b)', NEW r \in batch'[b] PROVE res'[r].status # "none" /\ r \notin claims'[b]
      <3>1. r \in batch[b] /\ r \in Reservations /\ Settling(b) /\ claims'[b] = claims[b]
        BY <2>1, <2>3 DEF Same, Settling
      <3>2. res[r].status # "none" /\ r \notin claims[b]
        BY <3>1 DEF ActorOK, BatchOK
      <3> QED
        BY <3>1, <3>2 DEF Harmless
    <2>4. ASSUME NEW r \in claims'[b] PROVE res'[r].status = "reserved"
      <3>1. r \in claims[b] /\ r \in Reservations
        BY <2>1, <2>4 DEF Same
      <3> QED
        BY <3>1 DEF Harmless, ActorOK, BatchOK
    <2> QED
      BY <2>2, <2>3, <2>4 DEF BatchOK
  <1>3. ReservingOK(b)'
    <2> SUFFICES ASSUME op'[b] = "reserve", NEW l \in Limits
        PROVE  /\ draft'[b][l] # None =>
                    /\ l \notin todo'[b] /\ items'[b][l] # None /\ items'[b][l].win = limit'[l].win
                    /\ draft'[b][l] = limit'[l].current + items'[b][l].delta
                    /\ draft'[b][l] <= limit'[l].max
               /\ draft'[b][l] = None /\ l \notin todo'[b] /\ items'[b][l] # None
                     => items'[b][l].delta = 0
      BY DEF ReservingOK
    <2>1. op[b] = "reserve" /\ (limit'[l] = limit[l] \/ draft[b][l] = None)
      BY DEF Same, Harmless
    <2>2. draft'[b] = draft[b] /\ todo'[b] = todo[b] /\ items'[b] = items[b]
      BY DEF Same
    <2>3. ReservingOK(b)
      BY DEF ActorOK
    <2> QED
      BY <2>1, <2>2, <2>3 DEF ReservingOK
  <1> QED
    BY <1>1, <1>2, <1>3 DEF ActorOK

(* Being apart is a matter of what two transactions have in hand. *)
LEMMA ApartSymmetric ==
    ASSUME NEW a, NEW b, Apart(a, b)
    PROVE  Apart(b, a)
  BY DEF Apart

(* A step of transaction a alone. *)
LEMMA StepOf ==
    ASSUME IInv, NEW a \in Actors, Shape', NewRows', ActorOK(a)',
           \A b \in Actors \ {a} : Same(b) /\ Harmless(b) /\ Apart(a, b)'
    PROVE  IInv'
  <1>1. ASSUME NEW b \in Actors PROVE ActorOK(b)'
    <2>1. CASE b = a
      BY <2>1
    <2>2. CASE b # a
      BY <2>2, ActorFrame DEF IInv
    <2> QED
      BY <2>1, <2>2
  <1>2. ASSUME NEW b \in Actors, NEW c \in Actors, b # c PROVE Apart(b, c)'
    <2>1. CASE b = a
      BY <1>2, <2>1
    <2>2. CASE c = a
      <3>1. Apart(a, b)'
        BY <1>2, <2>2
      <3> QED
        BY <2>2, <3>1 DEF Apart
    <2>3. CASE b # a /\ c # a
      <3>1. Same(b) /\ Same(c) /\ Apart(b, c)
        BY <1>2, <2>3 DEF IInv
      <3> QED
        BY <3>1 DEF Same, Apart, Admitting
    <2> QED
      BY <2>1, <2>2, <2>3
  <1> QED
    BY <1>1, <1>2 DEF IInv

(* A step of nobody's transaction. *)
LEMMA StepOfNone ==
    ASSUME IInv, Shape', UNCHANGED <<res, tx>>,
           \A l \in Limits : limit'[l] = limit[l] \/ \A b \in Actors : draft[b][l] = None
    PROVE  IInv'
  <1>1. NewRows'
    BY DEF IInv, NewRows
  <1>2. ASSUME NEW b \in Actors PROVE Same(b) /\ Harmless(b)
    BY DEF tx, Same, Harmless
  <1>3. \A b \in Actors : ActorOK(b)'
    BY <1>2, ActorFrame DEF IInv
  <1>4. ASSUME NEW b \in Actors, NEW c \in Actors, b # c PROVE Apart(b, c)'
    <2>1. Same(b) /\ Same(c) /\ Apart(b, c)
      BY <1>2, <1>4 DEF IInv
    <2> QED
      BY <2>1 DEF Same, Apart, Admitting
  <1> QED
    BY <1>1, <1>3, <1>4 DEF IInv

(* A transaction that ends has nothing in hand. *)
LEMMA Ends ==
    ASSUME Shape, NEW a \in Actors, End(a)
    PROVE  /\ ActorOK(a)'
           /\ \A b \in Actors \ {a} : Same(b) /\ Apart(a, b)'
           /\ op' \in [Actors -> {"idle", "reset", "reserve", "claim", "adjust"}]
           /\ goal' \in [Actors -> Settled \cup {"none", "reserve"}]
           /\ batch' \in [Actors -> SUBSET Reservations] /\ claims' \in [Actors -> SUBSET Reservations]
           /\ todo' \in [Actors -> SUBSET Limits]
           /\ seen' \in [Actors -> LimitRows \cup {None}] /\ items' \in [Actors -> ItemRows]
           /\ draft' \in [Actors -> [Limits -> Nat \cup {None}]]
           /\ actual' \in [Actors -> [Limits -> Nat]]
  <1>1. /\ op'[a] = "idle" /\ batch'[a] = {} /\ claims'[a] = {} /\ todo'[a] = {}
        /\ draft'[a] = NoItems
    BY DEF End, Shape, TypeOK
  <1>2. ActorOK(a)'
    BY <1>1 DEF ActorOK, StageOK, BatchOK, ReservingOK, Admitting, Settling
  <1>3. ASSUME NEW b \in Actors \ {a} PROVE Same(b)
    BY DEF End, Same, Shape, TypeOK
  <1>4. ASSUME NEW b \in Actors \ {a} PROVE Apart(a, b)'
    BY <1>1 DEF Apart, Admitting, NoItems
  <1>5. NoItems \in [Limits -> Nat \cup {None}] /\ NoItems \in ItemRows /\ NoUsage \in [Limits -> Nat]
    BY DEF NoItems, NoUsage, ItemRows
  <1>6. /\ op' \in [Actors -> {"idle", "reset", "reserve", "claim", "adjust"}]
        /\ goal' \in [Actors -> Settled \cup {"none", "reserve"}]
        /\ batch' \in [Actors -> SUBSET Reservations] /\ claims' \in [Actors -> SUBSET Reservations]
        /\ todo' \in [Actors -> SUBSET Limits]
    BY DEF End, Shape, TypeOK
  <1>7. /\ seen' \in [Actors -> LimitRows \cup {None}] /\ items' \in [Actors -> ItemRows]
        /\ draft' \in [Actors -> [Limits -> Nat \cup {None}]]
        /\ actual' \in [Actors -> [Limits -> Nat]]
    BY <1>5 DEF End, Shape, TypeOK
  <1> QED
    BY <1>2, <1>3, <1>4, <1>6, <1>7

(* A rollback. *)
LEMMA RollbackStep ==
    ASSUME IInv, NEW a \in Actors, Rollback(a), UNCHANGED <<ages, admin, updates>>,
           errors' \in 0..MaxErrors
    PROVE  IInv'
  <1>1. Shape /\ End(a) /\ UNCHANGED rows
    BY DEF IInv, Rollback
  <1>2. Shape'
    BY <1>1, Ends DEF Shape, TypeOK, rows, ages
  <1>3. NewRows' /\ \A b \in Actors \ {a} : Harmless(b)
    BY <1>1 DEF IInv, NewRows, Harmless, rows
  <1> QED
    BY <1>1, <1>2, <1>3, Ends, StepOf

-----------------------------------------------------------------------------
(* Every step keeps the invariant. *)

(* A step that leaves the rows alone is harmless to everyone. *)
LEMMA RowsAlone ==
    ASSUME IInv, UNCHANGED rows
    PROVE  NewRows' /\ \A b \in Actors : Harmless(b)
  BY DEF IInv, NewRows, Harmless, rows

(* A request starts (enforce_limits_for_request). *)
LEMMA EnforceStep ==
    ASSUME IInv, NEW a \in Clients, NEW r \in Reservations, NEW applicable \in SUBSET Limits,
           NEW lapsed \in SUBSET expired, enforce_limits_for_request(a, r, applicable, lapsed)
    PROVE  IInv'
  <1>1. /\ a \in Actors /\ op[a] = "idle" /\ StageOK(a) /\ Shape /\ UNCHANGED rows
        /\ limit \in LimitRows /\ expired \subseteq Limits
    BY DEF IInv, ActorOK, Actors, Shape, TypeOK, LimitRows, enforce_limits_for_request
  <1>2. draft[a] = NoItems /\ claims[a] = {}
    BY <1>1 DEF StageOK
  <1>3. /\ op'[a] = IF lapsed = {} THEN "reserve" ELSE "reset"
        /\ todo'[a] = IF lapsed = {} THEN applicable ELSE lapsed
        /\ batch'[a] = {r} /\ goal'[a] = "reserve" /\ seen'[a] = limit
        /\ draft'[a] = NoItems /\ claims'[a] = {}
        /\ items'[a] = [l \in Limits |-> IF l \in applicable THEN [delta |-> 0, win |-> 0] ELSE None]
    BY <1>1, <1>2 DEF enforce_limits_for_request, Shape, TypeOK
  <1>4. ASSUME NEW b \in Actors \ {a} PROVE Same(b)
    BY <1>1 DEF enforce_limits_for_request, Same, Shape, TypeOK
  <1>5. Shape'
    <2>1. items' \in [Actors -> ItemRows]
      <3>1. [l \in Limits |-> IF l \in applicable THEN [delta |-> 0, win |-> 0] ELSE None] \in ItemRows
        BY DEF ItemRows, Item
      <3> QED
        BY <1>1, <3>1 DEF enforce_limits_for_request, Shape
    <2>2. todo' \in [Actors -> SUBSET Limits] /\ batch' \in [Actors -> SUBSET Reservations]
      <3>1. lapsed \in SUBSET Limits /\ {r} \in SUBSET Reservations
        BY <1>1
      <3>2. batch' = [batch EXCEPT ![a] = {r}] /\ batch \in [Actors -> SUBSET Reservations]
        BY <1>1 DEF enforce_limits_for_request, Shape, TypeOK
      <3>3. batch' \in [Actors -> SUBSET Reservations]
        BY <3>1, <3>2
      <3>4. \E t \in SUBSET Limits : todo' = [todo EXCEPT ![a] = t]
        BY <3>1 DEF enforce_limits_for_request
      <3> QED
        BY <1>1, <3>3, <3>4 DEF Shape, TypeOK
    <2>3. seen' \in [Actors -> LimitRows \cup {None}]
      BY <1>1 DEF enforce_limits_for_request, Shape, TypeOK
    <2>4. op' \in [Actors -> {"idle", "reset", "reserve", "claim", "adjust"}]
      BY <1>1 DEF enforce_limits_for_request, Shape, TypeOK
    <2>5. goal' \in [Actors -> Settled \cup {"none", "reserve"}]
      BY <1>1 DEF enforce_limits_for_request, Shape, TypeOK
    <2> QED
      BY <1>1, <2>1, <2>2, <2>3, <2>4, <2>5
         DEF enforce_limits_for_request, Shape, TypeOK, rows, ages
  <1>6. StageOK(a)'
    BY <1>1, <1>3 DEF StageOK, Admitting, Settling, Shape
  <1>7. BatchOK(a)'
    BY <1>1, <1>3 DEF BatchOK, Admitting, Settling, enforce_limits_for_request, rows
  <1>8. ReservingOK(a)'
    BY <1>3 DEF ReservingOK, NoItems
  <1>9. ASSUME NEW b \in Actors \ {a} PROVE Apart(a, b)'
    <2>1. r \notin batch[b] /\ batch'[b] = batch[b]
      BY <1>4 DEF enforce_limits_for_request, Same
    <2> QED
      BY <1>3, <2>1 DEF Apart, NoItems
  <1> QED
    BY <1>1, <1>4, <1>5, <1>6, <1>7, <1>8, <1>9, RowsAlone, StepOf DEF ActorOK

(* It resets an expired limit it read (reset_limit). *)
LEMMA LazyResetStep ==
    ASSUME IInv, NEW a \in Actors, NEW l \in Limits, lazy_reset(a, l)
    PROVE  IInv'
  <1>1. /\ op[a] = "reset" /\ StageOK(a) /\ BatchOK(a) /\ Shape /\ l \in todo[a]
        /\ seen[a] \in LimitRows /\ draft[a] = NoItems /\ seen[a][l].win < MaxWindows
    BY DEF IInv, ActorOK, StageOK, Admitting, lazy_reset
  <1>2. limit' \in LimitRows /\ expired' \subseteq Limits /\ \A k \in expired' : limit'[k].win < MaxWindows
    <2>1. limit \in LimitRows /\ expired \subseteq Limits /\ \A k \in expired : limit[k].win < MaxWindows
      BY <1>1 DEF Shape, TypeOK, LimitRows
    <2>2. CASE reset_matches(a, l)
      <3>1. /\ limit' = [limit EXCEPT ![l].current = 0, ![l].win = seen[a][l].win + 1]
            /\ expired' = expired \ {l}
        BY <2>2 DEF lazy_reset, NewWindow
      <3>2. seen[a][l].win \in 0..MaxWindows /\ MaxWindows \in Nat
        BY <1>1, ConstantsAssumption DEF LimitRows
      <3>3. seen[a][l].win + 1 \in 0..MaxWindows
        BY <1>1, <3>2
      <3> QED
        BY <2>1, <3>1, <3>3 DEF LimitRows
    <2>3. CASE ~reset_matches(a, l)
      BY <2>1, <2>3 DEF lazy_reset, rows
    <2> QED
      BY <2>2, <2>3
  <1>3. UNCHANGED res /\ \A k \in Limits : k # l => limit'[k] = limit[k]
    BY <1>1 DEF lazy_reset, NewWindow, rows, Shape, TypeOK
  <1>4. ASSUME NEW b \in Actors \ {a} PROVE Same(b) /\ Harmless(b) /\ Apart(a, b)'
    <2>1. Same(b)
      BY <1>1 DEF lazy_reset, Processed, Same, Shape, TypeOK
    <2>2. draft[b][l] = None
      BY DEF lazy_reset, Locked
    <2>3. Apart(a, b)
      BY DEF IInv
    <2> QED
      BY <1>3, <2>1, <2>2, <2>3 DEF Harmless, Apart, Same, lazy_reset, Admitting
  <1>5. Shape'
    <2>1. todo' \in [Actors -> SUBSET Limits]
      BY <1>1 DEF lazy_reset, Processed, Shape, TypeOK
    <2> QED
      BY <1>1, <1>2, <1>3, <2>1 DEF lazy_reset, Shape, TypeOK, LimitRows, ages
  <1>6. ActorOK(a)'
    <2>1. todo'[a] = todo[a] \ {l} /\ UNCHANGED <<op, goal, batch, claims, seen, draft, items, res>>
      BY <1>1, <1>3 DEF lazy_reset, Processed, Shape, TypeOK
    <2>2. StageOK(a)'
      BY <1>1, <2>1 DEF StageOK, Admitting, Settling
    <2>3. BatchOK(a)'
      BY <1>1, <2>1 DEF BatchOK, Admitting, Settling
    <2>4. ReservingOK(a)'
      BY <1>1, <2>1 DEF ReservingOK
    <2> QED
      BY <2>2, <2>3, <2>4 DEF ActorOK
  <1>7. NewRows'
    BY <1>3 DEF IInv, NewRows
  <1> QED
    BY <1>4, <1>5, <1>6, <1>7, StepOf

(* It reads the limits again after its resets. *)
LEMMA RefetchStep ==
    ASSUME IInv, NEW a \in Actors, RefetchLimits(a)
    PROVE  IInv'
  <1>1. /\ op[a] = "reset" /\ StageOK(a) /\ BatchOK(a) /\ Shape /\ UNCHANGED rows
        /\ limit \in LimitRows /\ draft[a] = NoItems
    BY DEF IInv, ActorOK, StageOK, Shape, TypeOK, LimitRows, RefetchLimits
  <1>2. /\ op'[a] = "reserve" /\ seen'[a] = limit /\ todo'[a] = {l \in Limits : items[a][l] # None}
        /\ UNCHANGED <<res, goal, batch, claims, draft, items, actual>>
    BY <1>1 DEF RefetchLimits, rows, Shape, TypeOK
  <1>3. ASSUME NEW b \in Actors \ {a} PROVE Same(b) /\ Apart(a, b)'
    <2>1. Same(b)
      BY <1>1 DEF RefetchLimits, Same, Shape, TypeOK
    <2>2. Apart(a, b)
      BY DEF IInv
    <2> QED
      BY <1>1, <1>2, <2>1, <2>2 DEF Apart, Same, Admitting
  <1>4. Shape'
    <2>1. /\ op' \in [Actors -> {"idle", "reset", "reserve", "claim", "adjust"}]
          /\ todo' \in [Actors -> SUBSET Limits] /\ seen' \in [Actors -> LimitRows \cup {None}]
      BY <1>1 DEF RefetchLimits, Shape, TypeOK
    <2> QED
      BY <1>1, <2>1 DEF RefetchLimits, Shape, TypeOK, rows, ages
  <1>5. ActorOK(a)'
    <2>1. StageOK(a)'
      BY <1>1, <1>2 DEF StageOK, Admitting, Settling
    <2>2. BatchOK(a)'
      BY <1>1, <1>2 DEF BatchOK, Admitting, Settling
    <2>3. ReservingOK(a)'
      BY <1>1, <1>2 DEF ReservingOK, NoItems
    <2> QED
      BY <2>1, <2>2, <2>3 DEF ActorOK
  <1> QED
    BY <1>1, <1>3, <1>4, <1>5, RowsAlone, StepOf

(* What a request asks of a limit fits what it read. *)
LEMMA ReserveDelta ==
    ASSUME NEW row \in [current : Nat, max : Nat, win : Nat], NEW budget \in Nat
    PROVE  reserve_delta(row, budget) \in Nat
  <1>1. CASE row.max <= row.current
    BY <1>1 DEF reserve_delta
  <1>2. CASE ~(row.max <= row.current)
    <2> DEFINE S == {row.max - row.current, budget}
    <2>1. row.max - row.current \in Nat
      BY <1>2
    <2>2. \E x \in S : \A y \in S : x =< y
      BY <2>1
    <2>3. Min(S) \in S
      BY <2>2 DEF Min
    <2> QED
      BY <1>2, <2>1, <2>3 DEF reserve_delta
  <1> QED
    BY <1>1, <1>2

(* It reserves a part of one limit, or is refused. *)
LEMMA ReserveStep ==
    ASSUME IInv, NEW a \in Actors, NEW l \in Limits, NEW budget \in Budgets,
           ReserveLimit(a, l, budget)
    PROVE  IInv'
  <1> DEFINE row == seen[a][l]
             delta == reserve_delta(row, budget)
  <1>1. /\ op[a] = "reserve" /\ StageOK(a) /\ BatchOK(a) /\ ReservingOK(a) /\ Shape /\ l \in todo[a]
        /\ seen[a] \in LimitRows /\ UNCHANGED <<ages, admin, updates, errors>>
    BY DEF IInv, ActorOK, StageOK, Admitting, ReserveLimit
  <1>2. row \in [current : Nat, max : Nat, win : Nat] /\ budget \in Nat
    <2>1. row \in [current : Nat, max : MaxValues, win : 0..MaxWindows]
      BY <1>1 DEF LimitRows
    <2>2. MaxValues \subseteq Nat /\ 0..MaxWindows \subseteq Nat /\ budget \in Nat
      BY ConstantsAssumption
    <2> HIDE DEF row
    <2> QED
      BY <2>1, <2>2
  <1>3. delta \in Nat /\ row.win \in Nat
    BY <1>2, ReserveDelta
  <1>4. CASE Rollback(a)
    BY <1>1, <1>4, RollbackStep DEF IInv, Shape, TypeOK
  <1>5. ASSUME NEW given \in Nat, NEW counter \in Nat \cup {None},
               draft' = [draft EXCEPT ![a][l] = counter],
               items' = [items EXCEPT ![a][l] = [delta |-> given, win |-> row.win]],
               Processed(a, l), UNCHANGED <<rows, op, goal, batch, claims, seen, actual>>,
               counter # None => /\ ~Locked(l, a) /\ row.win = limit[l].win
                                 /\ counter = limit[l].current + given /\ counter <= limit[l].max,
               counter = None => given = 0
        PROVE  IInv'
    <2>1. /\ todo'[a] = todo[a] \ {l}
          /\ draft'[a] = [draft[a] EXCEPT ![l] = counter]
          /\ items'[a] = [items[a] EXCEPT ![l] = [delta |-> given, win |-> row.win]]
      BY <1>1, <1>5 DEF Processed, Shape, TypeOK
    <2>2. ASSUME NEW b \in Actors \ {a} PROVE Same(b) /\ Apart(a, b)'
      <3>1. Same(b)
        BY <1>1, <1>5 DEF Processed, Same, Shape, TypeOK
      <3>2. Apart(a, b)
        BY DEF IInv
      <3>3. counter # None => draft[b][l] = None
        BY <1>5 DEF Locked
      <3>4. draft[a] \in [Limits -> Nat \cup {None}]
        BY <1>1 DEF Shape, TypeOK
      <3> QED
        BY <1>5, <2>1, <3>1, <3>2, <3>3, <3>4 DEF Apart, Same, Admitting
    <2>3. Shape'
      <3>1. [delta |-> given, win |-> row.win] \in Item
        BY <1>3 DEF Item
      <3>2. items' \in [Actors -> ItemRows]
        BY <1>1, <1>5, <3>1 DEF Shape, ItemRows
      <3>3. draft' \in [Actors -> [Limits -> Nat \cup {None}]] /\ todo' \in [Actors -> SUBSET Limits]
        BY <1>1, <1>5 DEF Shape, TypeOK, Processed
      <3> QED
        BY <1>1, <1>5, <3>2, <3>3 DEF Shape, TypeOK, rows, ages
    <2>4. StageOK(a)'
      BY <1>1, <1>5 DEF StageOK, Admitting, Settling
    <2>5. BatchOK(a)'
      BY <1>1, <1>5 DEF BatchOK, Admitting, Settling, rows
    <2>6. ReservingOK(a)'
      <3> SUFFICES ASSUME NEW k \in Limits
          PROVE /\ draft'[a][k] # None =>
                     /\ k \notin todo'[a] /\ items'[a][k] # None /\ items'[a][k].win = limit'[k].win
                     /\ draft'[a][k] = limit'[k].current + items'[a][k].delta
                     /\ draft'[a][k] <= limit'[k].max
                /\ draft'[a][k] = None /\ k \notin todo'[a] /\ items'[a][k] # None
                     => items'[a][k].delta = 0
        BY DEF ReservingOK
      <3>1. limit' = limit
        BY <1>5 DEF rows
      <3>2. draft[a] \in [Limits -> Nat \cup {None}] /\ items[a] \in ItemRows
        BY <1>1 DEF Shape, TypeOK
      <3>3. CASE k = l
        <4>1. draft'[a][k] = counter /\ items'[a][k] = [delta |-> given, win |-> row.win]
          BY <2>1, <3>2, <3>3 DEF ItemRows
        <4>2. [delta |-> given, win |-> row.win] \in Item
          BY <1>3 DEF Item
        <4>3. items'[a][k] # None
          BY <4>1, <4>2, ConstantsAssumption
        <4> QED
          BY <1>5, <2>1, <3>1, <3>3, <4>1, <4>3
      <3>4. CASE k # l
        <4>1. draft'[a][k] = draft[a][k] /\ items'[a][k] = items[a][k]
          BY <2>1, <3>2, <3>4 DEF ItemRows
        <4>2. k \in todo'[a] <=> k \in todo[a]
          BY <2>1, <3>4
        <4> QED
          BY <1>1, <3>1, <4>1, <4>2 DEF ReservingOK
      <3> QED
        BY <3>3, <3>4
    <2> QED
      BY <1>5, <2>2, <2>3, <2>4, <2>5, <2>6, RowsAlone, StepOf DEF ActorOK
  <1> HIDE DEF row, delta
  <1>6. draft[a][l] = None
    BY <1>1 DEF ReservingOK
  <1>7. CASE /\ ~Locked(l, a) /\ try_reserve_usage(a, l, delta)
             /\ Write(a, l, Value(a, l) + delta)
             /\ items' = [items EXCEPT ![a][l] = [delta |-> delta, win |-> row.win]]
             /\ Processed(a, l)
             /\ UNCHANGED <<rows, op, goal, batch, claims, seen, actual>>
    <2>1. Value(a, l) = limit[l].current /\ limit[l].current \in Nat
      BY <1>1, <1>6 DEF Value, Shape, TypeOK
    <2>2. limit[l].current + delta \in Nat
      BY <1>3, <2>1
    <2>3. row.win = limit[l].win /\ limit[l].current + delta <= limit[l].max
      BY <1>7, <2>1 DEF try_reserve_usage, row
    <2>4. draft' = [draft EXCEPT ![a][l] = limit[l].current + delta]
      BY <1>7, <2>1 DEF Write
    <2>5. None \notin Nat
      BY ConstantsAssumption
    <2> QED
      BY <1>3, <1>5, <1>7, <2>2, <2>3, <2>4, <2>5
  <1>8. CASE /\ items' = [items EXCEPT ![a][l] = [delta |-> 0, win |-> row.win]]
             /\ Processed(a, l)
             /\ UNCHANGED <<rows, op, goal, batch, claims, seen, draft, actual>>
    <2>1. draft' = [draft EXCEPT ![a][l] = None]
      BY <1>1, <1>6, <1>8 DEF Shape, TypeOK
    <2> QED
      BY <1>5, <1>8, <2>1
  <1> QED
    BY <1>4, <1>7, <1>8 DEF ReserveLimit, row, delta

(* The counters a transaction commits. *)
LEMMA CountersCommitted ==
    ASSUME IInv, NEW a \in Actors, CommitCounters(a)
    PROVE  /\ limit' \in LimitRows
           /\ \A l \in Limits : /\ limit'[l].max = limit[l].max /\ limit'[l].win = limit[l].win
                                /\ limit'[l].current = Value(a, l)
                                /\ draft[a][l] = None => limit'[l] = limit[l]
           /\ \A b \in Actors \ {a}, l \in Limits : limit'[l] = limit[l] \/ draft[b][l] = None
  <1>1. limit \in LimitRows /\ draft[a] \in [Limits -> Nat \cup {None}]
    BY DEF IInv, Shape, TypeOK, LimitRows
  <1>2. ASSUME NEW l \in Limits
        PROVE  /\ limit'[l] \in [current : Nat, max : MaxValues, win : 0..MaxWindows]
               /\ limit'[l].max = limit[l].max /\ limit'[l].win = limit[l].win
               /\ limit'[l].current = Value(a, l)
               /\ draft[a][l] = None => limit'[l] = limit[l]
    <2>1. limit[l] \in [current : Nat, max : MaxValues, win : 0..MaxWindows]
      BY <1>1 DEF LimitRows
    <2>2. CASE draft[a][l] = None
      BY <2>1, <2>2 DEF CommitCounters, Value
    <2>3. CASE draft[a][l] # None
      <3>1. draft[a][l] \in Nat /\ limit'[l] = [limit[l] EXCEPT !.current = draft[a][l]]
        BY <1>1, <2>3 DEF CommitCounters
      <3> QED
        BY <2>1, <2>3, <3>1 DEF Value
    <2> QED
      BY <2>2, <2>3
  <1>3. limit' \in LimitRows
    <2>1. limit' = [l \in Limits |-> limit'[l]]
      BY DEF CommitCounters
    <2> QED
      BY <1>2, <2>1 DEF LimitRows
  <1>4. ASSUME NEW b \in Actors \ {a}, NEW l \in Limits PROVE limit'[l] = limit[l] \/ draft[b][l] = None
    <2>1. draft[a][l] = None \/ draft[b][l] = None
      BY DEF IInv, Apart
    <2> QED
      BY <1>2, <2>1
  <1> QED
    BY <1>2, <1>3, <1>4

(* The one row a request creates. *)
LEMMA CreatedRow ==
    ASSUME IInv, NEW a \in Actors, create_usage_reservation(a)
    PROVE  \E r \in Reservations :
              /\ batch[a] = {r} /\ res[r].status = "none"
              /\ \A q \in Reservations : q # r => res'[q] = res[q]
              /\ items[a] = NoItems => res'[r] = res[r]
              /\ items[a] # NoItems =>
                    res'[r] = [status |-> "reserved", items |-> items[a], actual |-> NoUsage]
  <1>1. PICK r \in Reservations : batch[a] = {r} /\ res[r].status = "none"
    BY DEF IInv, ActorOK, BatchOK, Admitting, create_usage_reservation
  <1> QED
    BY <1>1 DEF create_usage_reservation

(* It is nobody else's. *)
LEMMA CreationHarmless ==
    ASSUME IInv, NEW a \in Actors, create_usage_reservation(a), NEW b \in Actors \ {a}
    PROVE  Harmless(b)
  <1>1. ActorOK(b) /\ Apart(a, b) /\ Admitting(a) /\ CommitCounters(a)
    BY DEF IInv, Admitting, create_usage_reservation
  <1>2. PICK r \in Reservations :
              /\ batch[a] = {r} /\ res[r].status = "none"
              /\ \A q \in Reservations : q # r => res'[q] = res[q]
              /\ items[a] = NoItems => res'[r] = res[r]
              /\ items[a] # NoItems =>
                    res'[r] = [status |-> "reserved", items |-> items[a], actual |-> NoUsage]
    BY CreatedRow
  <1>3. r \notin claims[b]
    BY <1>1, <1>2 DEF ActorOK, BatchOK
  <1>4. Admitting(b) => r \notin batch[b]
    BY <1>1, <1>2 DEF ActorOK, BatchOK, Apart
  <1>5. res'[r] = res[r] \/ res'[r].status # "none"
    BY <1>2
  <1>6. \A l \in Limits : limit'[l] = limit[l] \/ draft[b][l] = None
    BY <1>1, CountersCommitted
  <1> QED
    BY <1>2, <1>3, <1>4, <1>5, <1>6 DEF Harmless

(* The reservation and the counters are committed together. *)
LEMMA CreateStep ==
    ASSUME IInv, NEW a \in Actors, create_usage_reservation(a)
    PROVE  IInv'
  <1>1. /\ op[a] = "reserve" /\ Admitting(a) /\ Shape /\ BatchOK(a) /\ End(a) /\ CommitCounters(a)
        /\ UNCHANGED <<expired, ages, admin, updates, errors>>
    BY DEF IInv, ActorOK, Admitting, create_usage_reservation
  <1>2. PICK r \in Reservations : batch[a] = {r} /\ res[r].status = "none"
    BY <1>1 DEF BatchOK
  <1> DEFINE row == [status |-> "reserved", items |-> items[a], actual |-> NoUsage]
  <1>3. /\ \A q \in Reservations : q # r => res'[q] = res[q]
        /\ res'[r] = IF items[a] # NoItems THEN row ELSE res[r]
    BY <1>2 DEF create_usage_reservation
  <1>4. res' \in [Reservations -> [status : Settled \cup {"none", "reserved"},
                                   items : [Limits -> Item \cup {None}], actual : [Limits -> Nat]]]
    <2>1. items[a] \in [Limits -> Item \cup {None}] /\ NoUsage \in [Limits -> Nat]
      BY <1>1 DEF Shape, ItemRows, NoUsage
    <2>2. res' = [q \in Reservations |-> res'[q]]
      BY DEF create_usage_reservation
    <2>3. ASSUME NEW q \in Reservations
          PROVE  res'[q] \in [status : Settled \cup {"none", "reserved"},
                              items : [Limits -> Item \cup {None}], actual : [Limits -> Nat]]
      <3>1. res'[q] = row \/ res'[q] = res[q]
        BY <1>3
      <3> QED
        BY <1>1, <2>1, <3>1 DEF Shape, TypeOK
    <2> QED
      BY <2>2, <2>3
  <1>5. Shape'
    <2>1. \A l \in expired : limit'[l].win < MaxWindows
      BY <1>1, CountersCommitted DEF Shape, TypeOK
    <2> QED
      BY <1>1, <1>4, <2>1, Ends, CountersCommitted DEF Shape, TypeOK, LimitRows, ages
  <1>6. NewRows'
    <2> SUFFICES ASSUME NEW q \in Reservations, res'[q].status = "none" PROVE res'[q].items = NoItems
      BY DEF NewRows
    <2>1. row.status = "reserved"
      OBVIOUS
    <2> HIDE DEF row
    <2>2. res'[q] = res[q]
      BY <1>3, <2>1
    <2> QED
      BY <2>2 DEF IInv, NewRows
  <1>7. \A b \in Actors \ {a} : Harmless(b)
    BY CreationHarmless
  <1> QED
    BY <1>1, <1>5, <1>6, <1>7, Ends, StepOf

(* Settling starts: a client on one reservation, the sweeper on a batch. *)
LEMMA SettlingStarts ==
    ASSUME IInv, NEW a \in Actors, NEW rs \in SUBSET Reservations, NEW status \in Settled,
           op[a] = "idle", \A r \in rs : res[r].status = "reserved",
           op' = [op EXCEPT ![a] = "claim"], goal' = [goal EXCEPT ![a] = status],
           batch' = [batch EXCEPT ![a] = rs], actual' \in [Actors -> [Limits -> Nat]],
           \A b \in Actors \ {a} : actual'[b] = actual[b],
           UNCHANGED <<rows, ages, claims, todo, seen, draft, items, admin, updates, errors>>
    PROVE  IInv'
  <1>1. Shape /\ StageOK(a) /\ UNCHANGED rows
    BY DEF IInv, ActorOK
  <1>2. claims[a] = {} /\ todo[a] = {} /\ draft[a] = NoItems
    BY <1>1 DEF StageOK
  <1>3. op'[a] = "claim" /\ goal'[a] = status /\ batch'[a] = rs
    BY <1>1 DEF Shape, TypeOK
  <1>4. ASSUME NEW b \in Actors \ {a} PROVE Same(b) /\ Apart(a, b)'
    <2>1. Same(b)
      BY <1>1 DEF Same, Shape, TypeOK
    <2> QED
      BY <1>2, <1>3, <2>1 DEF Same, Apart, Admitting, NoItems
  <1>5. Shape'
    <2>1. /\ op' \in [Actors -> {"idle", "reset", "reserve", "claim", "adjust"}]
          /\ goal' \in [Actors -> Settled \cup {"none", "reserve"}]
          /\ batch' \in [Actors -> SUBSET Reservations]
      BY <1>1 DEF Shape, TypeOK
    <2> QED
      BY <1>1, <2>1 DEF Shape, TypeOK, rows, ages
  <1>6. ActorOK(a)'
    <2>1. UNCHANGED <<res, claims, todo, draft, items>>
      BY DEF rows
    <2> QED
      BY <1>2, <1>3, <2>1 DEF ActorOK, StageOK, BatchOK, ReservingOK, Admitting, Settling
  <1> QED
    BY <1>1, <1>4, <1>5, <1>6, RowsAlone, StepOf

(* A client settles a reservation. *)
LEMMA SettleStep ==
    ASSUME IInv, NEW a \in Clients, NEW r \in Reservations, NEW status \in Settled,
           NEW usage \in [Limits -> Nat], settle_usage_reservation(a, r, status, usage)
    PROVE  IInv'
  <1>1. a \in Actors /\ Shape
    BY DEF Actors, IInv
  <1>2. actual' \in [Actors -> [Limits -> Nat]] /\ \A b \in Actors \ {a} : actual'[b] = actual[b]
    BY <1>1 DEF settle_usage_reservation, Shape, TypeOK
  <1>3. {r} \in SUBSET Reservations /\ \A q \in {r} : res[q].status = "reserved"
    BY DEF settle_usage_reservation
  <1> QED
    BY <1>1, <1>2, <1>3, SettlingStarts DEF settle_usage_reservation

(* The sweeper takes up a batch of stale reservations. *)
LEMMA SweepStep ==
    ASSUME IInv, release_stale_usage_reservations
    PROVE  IInv'
  <1>1. PICK stale : /\ stale = {r \in Reservations : res[r].status = "reserved" /\ stale_clause(r)}
                     /\ batch' = [batch EXCEPT ![Sweeper] = stale]
    BY DEF release_stale_usage_reservations
  <1>2. Sweeper \in Actors /\ "released" \in Settled /\ Shape
    BY DEF Actors, Settled, IInv
  <1>3. actual' \in [Actors -> [Limits -> Nat]] /\ \A b \in Actors \ {Sweeper} : actual'[b] = actual[b]
    BY <1>2 DEF release_stale_usage_reservations, Shape, TypeOK
  <1>4. stale \in SUBSET Reservations /\ \A r \in stale : res[r].status = "reserved"
    BY <1>1
  <1> QED
    BY <1>1, <1>2, <1>3, <1>4, SettlingStarts DEF release_stale_usage_reservations

(* A reservation row is claimed, or found settled by another. *)
LEMMA ClaimStep ==
    ASSUME IInv, NEW a \in Actors, NEW r \in Reservations, Claim(a, r)
    PROVE  IInv'
  <1>1. /\ op[a] = "claim" /\ r \in batch[a] /\ ~ClaimedElsewhere(r, a) /\ Shape /\ StageOK(a)
        /\ BatchOK(a) /\ UNCHANGED <<ages, admin, updates, errors>>
    BY DEF IInv, ActorOK, Claim
  <1>2. goal[a] \in Settled /\ todo[a] = {}
    BY <1>1 DEF StageOK, Settling
  <1>3. CASE Rollback(a)
    BY <1>1, <1>3, RollbackStep DEF Shape, TypeOK
  <1>4. CASE /\ transition_matches(r)
             /\ claims' = [claims EXCEPT ![a] = @ \cup {r}]
             /\ items' = [items EXCEPT ![a] = res[r].items]
             /\ todo' = [todo EXCEPT ![a] = {l \in Limits : res[r].items[l] # None}]
             /\ op' = [op EXCEPT ![a] = "adjust"]
             /\ batch' = [batch EXCEPT ![a] = @ \ {r}]
             /\ UNCHANGED <<rows, goal, seen, draft, actual>>
    <2>1. /\ claims'[a] = claims[a] \cup {r} /\ items'[a] = res[r].items
          /\ todo'[a] = {l \in Limits : res[r].items[l] # None}
          /\ op'[a] = "adjust" /\ batch'[a] = batch[a] \ {r} /\ UNCHANGED <<res, goal, seen, draft>>
      BY <1>1, <1>4 DEF Shape, TypeOK, rows
    <2>2. ASSUME NEW b \in Actors \ {a} PROVE Same(b) /\ Apart(a, b)'
      <3>1. Same(b)
        BY <1>1, <1>4 DEF Same, Shape, TypeOK
      <3>2. Apart(a, b) /\ r \notin claims[b]
        BY <1>1 DEF IInv, ClaimedElsewhere
      <3> QED
        BY <2>1, <3>1, <3>2 DEF Same, Apart, Admitting
    <2>3. Shape'
      <3>1. res[r].items \in ItemRows
        BY <1>1 DEF Shape, TypeOK, ItemRows
      <3>2. items' \in [Actors -> ItemRows] /\ claims' \in [Actors -> SUBSET Reservations]
        BY <1>1, <1>4, <3>1 DEF Shape, TypeOK
      <3>3. todo' \in [Actors -> SUBSET Limits] /\ batch' \in [Actors -> SUBSET Reservations]
        BY <1>1, <1>4 DEF Shape, TypeOK
      <3>4. op' \in [Actors -> {"idle", "reset", "reserve", "claim", "adjust"}]
        BY <1>1, <1>4 DEF Shape, TypeOK
      <3> QED
        BY <1>1, <1>4, <3>2, <3>3, <3>4 DEF Shape, TypeOK, rows, ages
    <2>4. StageOK(a)'
      BY <1>2, <2>1 DEF StageOK, Admitting, Settling
    <2>5. BatchOK(a)'
      BY <1>1, <1>4, <2>1 DEF BatchOK, Admitting, Settling, transition_matches
    <2>6. ReservingOK(a)'
      BY <2>1 DEF ReservingOK
    <2> QED
      BY <1>4, <2>2, <2>3, <2>4, <2>5, <2>6, RowsAlone, StepOf DEF ActorOK
  <1>5. CASE /\ batch' = [batch EXCEPT ![a] = @ \ {r}]
             /\ UNCHANGED <<rows, op, goal, claims, todo, seen, draft, items, actual>>
    <2>1. batch'[a] = batch[a] \ {r} /\ UNCHANGED <<res, op, goal, claims, todo, seen, draft, items>>
      BY <1>1, <1>5 DEF Shape, TypeOK, rows
    <2>2. ASSUME NEW b \in Actors \ {a} PROVE Same(b) /\ Apart(a, b)'
      <3>1. Same(b)
        BY <1>1, <1>5 DEF Same, Shape, TypeOK
      <3>2. Apart(a, b)
        BY DEF IInv
      <3> QED
        BY <1>1, <2>1, <3>1, <3>2 DEF Same, Apart, Admitting
    <2>3. Shape'
      <3>1. batch' \in [Actors -> SUBSET Reservations]
        BY <1>1, <1>5 DEF Shape, TypeOK
      <3> QED
        BY <1>1, <1>5, <3>1 DEF Shape, TypeOK, rows, ages
    <2>4. ActorOK(a)'
      BY <1>1, <1>2, <2>1 DEF ActorOK, StageOK, BatchOK, ReservingOK, Admitting, Settling
    <2> QED
      BY <1>5, <2>2, <2>3, <2>4, RowsAlone, StepOf
  <1> QED
    BY <1>3, <1>4, <1>5 DEF Claim

(* What Adjust writes for a limit, if anything. *)
LEMMA AdjustWrites ==
    ASSUME IInv, NEW a \in Actors, NEW l \in Limits, Adjust(a, l)
    PROVE  \E counter \in Nat \cup {None} :
              /\ draft' = [draft EXCEPT ![a][l] = counter]
              /\ counter = None => draft[a][l] = None
  <1>1. op[a] = "adjust" /\ l \in todo[a] /\ Shape /\ items[a][l] # None
    BY DEF IInv, ActorOK, StageOK, Adjust
  <1>2. items[a][l] \in Item /\ items[a][l].delta \in Nat
    BY <1>1 DEF Shape, ItemRows, Item
  <1>3. Value(a, l) \in Nat
    BY <1>1 DEF Value, Shape, TypeOK
  <1>4. PICK delta : /\ delta = settle_delta(IF goal[a] = "released" THEN 0 ELSE actual[a][l], items[a][l])
                     /\ \/ /\ adjust_reserved_usage(a, l, items[a][l], delta)
                           /\ Write(a, l, Value(a, l) + delta)
                        \/ UNCHANGED draft
    BY DEF Adjust
  <1>5. delta \in Int
    BY <1>1, <1>2, <1>4 DEF settle_delta, Shape, TypeOK
  <1>6. CASE UNCHANGED draft
    <2>1. PICK counter : counter = draft[a][l]
      OBVIOUS
    <2>2. counter \in Nat \cup {None} /\ draft' = [draft EXCEPT ![a][l] = counter]
      BY <1>1, <1>6, <2>1 DEF Shape, TypeOK
    <2> QED
      BY <2>1, <2>2
  <1>7. CASE adjust_reserved_usage(a, l, items[a][l], delta) /\ Write(a, l, Value(a, l) + delta)
    <2>1. Value(a, l) + delta \in Nat
      BY <1>3, <1>5, <1>7 DEF adjust_reserved_usage
    <2>2. None \notin Nat
      BY ConstantsAssumption
    <2>3. PICK counter : counter = Value(a, l) + delta
      OBVIOUS
    <2>4. counter \in Nat /\ counter # None /\ draft' = [draft EXCEPT ![a][l] = counter]
      BY <1>7, <2>1, <2>2, <2>3 DEF Write
    <2> QED
      BY <2>4
  <1> QED
    BY <1>4, <1>6, <1>7

(* One limit of a claimed reservation is adjusted. *)
LEMMA AdjustStep ==
    ASSUME IInv, NEW a \in Actors, NEW l \in Limits, Adjust(a, l)
    PROVE  IInv'
  <1>1. /\ op[a] = "adjust" /\ l \in todo[a] /\ ~Locked(l, a) /\ Shape /\ StageOK(a) /\ BatchOK(a)
        /\ UNCHANGED <<rows, ages, op, goal, batch, claims, seen, items, actual, admin, updates, errors>>
    BY DEF IInv, ActorOK, Adjust
  <1>2. PICK counter \in Nat \cup {None} : draft' = [draft EXCEPT ![a][l] = counter]
    BY AdjustWrites
  <1>3. todo'[a] = todo[a] \ {l} /\ draft'[a] = [draft[a] EXCEPT ![l] = counter]
    BY <1>1, <1>2 DEF Adjust, Processed, Shape, TypeOK
  <1>4. ASSUME NEW b \in Actors \ {a} PROVE Same(b) /\ Apart(a, b)'
    <2>1. Same(b)
      BY <1>1, <1>2 DEF Adjust, Processed, Same, Shape, TypeOK
    <2>2. Apart(a, b) /\ draft[b][l] = None
      BY <1>1 DEF IInv, Locked
    <2>3. draft[a] \in [Limits -> Nat \cup {None}]
      BY <1>1 DEF Shape, TypeOK
    <2> QED
      BY <1>1, <1>3, <2>1, <2>2, <2>3 DEF Same, Apart, Admitting
  <1>5. Shape'
    <2>1. draft' \in [Actors -> [Limits -> Nat \cup {None}]] /\ todo' \in [Actors -> SUBSET Limits]
      BY <1>1, <1>2 DEF Shape, TypeOK, Adjust, Processed
    <2> QED
      BY <1>1, <2>1 DEF Shape, TypeOK, rows, ages
  <1>6. ActorOK(a)'
    <2>1. UNCHANGED <<res, op, goal, batch, claims, items>>
      BY <1>1 DEF rows
    <2> QED
      BY <1>1, <1>3, <2>1 DEF ActorOK, StageOK, BatchOK, ReservingOK, Admitting, Settling
  <1> QED
    BY <1>1, <1>4, <1>5, <1>6, RowsAlone, StepOf

(* The sweeper turns to the next reservation of its batch. *)
LEMMA NextOfBatchStep ==
    ASSUME IInv, NEW a \in Actors, NextOfBatch(a)
    PROVE  IInv'
  <1>1. /\ op[a] = "adjust" /\ todo[a] = {} /\ Shape /\ StageOK(a) /\ BatchOK(a)
        /\ UNCHANGED <<rows, ages, goal, batch, claims, todo, seen, draft, items, actual, admin,
                       updates, errors>>
        /\ op' = [op EXCEPT ![a] = "claim"] /\ op'[a] = "claim"
    BY DEF IInv, ActorOK, NextOfBatch, Shape, TypeOK
  <1>2. ASSUME NEW b \in Actors \ {a} PROVE Same(b) /\ Apart(a, b)'
    <2>1. Same(b)
      BY <1>1 DEF Same, Shape, TypeOK
    <2>2. Apart(a, b)
      BY DEF IInv
    <2> QED
      BY <1>1, <2>1, <2>2 DEF Same, Apart, Admitting
  <1>3. Shape'
    <2>1. op' \in [Actors -> {"idle", "reset", "reserve", "claim", "adjust"}]
      BY <1>1 DEF Shape, TypeOK
    <2> QED
      BY <1>1, <2>1 DEF Shape, TypeOK, rows, ages
  <1>4. ActorOK(a)'
    <2>1. UNCHANGED res
      BY <1>1 DEF rows
    <2> QED
      BY <1>1, <2>1 DEF ActorOK, StageOK, BatchOK, ReservingOK, Admitting, Settling
  <1> QED
    BY <1>1, <1>2, <1>3, <1>4, RowsAlone, StepOf

(* A settled row. *)
LEMMA SettledRow ==
    ASSUME IInv, NEW a \in Actors, CommitSettlement(a), NEW r \in Reservations
    PROVE  /\ r \notin claims[a] => res'[r] = res[r]
           /\ r \in claims[a] =>
                /\ res'[r].status = goal[a] /\ res'[r].items = res[r].items
                /\ res'[r].actual = IF goal[a] = "released" THEN NoUsage
                                    ELSE [l \in Limits |-> IF res[r].items[l] # None
                                                           THEN actual[a][l] ELSE 0]
           /\ res'[r] \in [status : Settled \cup {"none", "reserved"},
                           items : [Limits -> Item \cup {None}], actual : [Limits -> Nat]]
  <1>1. /\ res[r] \in [status : Settled \cup {"none", "reserved"},
                       items : [Limits -> Item \cup {None}], actual : [Limits -> Nat]]
        /\ actual[a] \in [Limits -> Nat] /\ goal[a] \in Settled
    BY DEF IInv, ActorOK, StageOK, Settling, Shape, TypeOK, CommitSettlement
  <1>2. CASE r \notin claims[a]
    BY <1>1, <1>2 DEF CommitSettlement
  <1>3. CASE r \in claims[a]
    <2>1. PICK used : used = IF goal[a] = "released" THEN NoUsage
                             ELSE [l \in Limits |-> IF res[r].items[l] # None
                                                    THEN actual[a][l] ELSE 0]
      OBVIOUS
    <2>2. used \in [Limits -> Nat]
      BY <1>1, <2>1 DEF NoUsage
    <2>3. res'[r] = [res[r] EXCEPT !.status = goal[a], !.actual = used]
      BY <1>3, <2>1 DEF CommitSettlement
    <2>4. res'[r].status = goal[a] /\ res'[r].items = res[r].items /\ res'[r].actual = used
      BY <1>1, <2>3
    <2>5. res'[r] \in [status : Settled \cup {"none", "reserved"},
                       items : [Limits -> Item \cup {None}], actual : [Limits -> Nat]]
      BY <1>1, <2>2, <2>3
    <2> QED
      BY <1>3, <2>1, <2>4, <2>5
  <1> QED
    BY <1>2, <1>3

(* A settlement that commits touches no one else's rows and counters. *)
LEMMA SettlementHarmless ==
    ASSUME IInv, NEW a \in Actors, CommitSettlement(a), NEW b \in Actors \ {a}
    PROVE  Harmless(b)
  <1>1. ActorOK(b) /\ Apart(a, b) /\ goal[a] \in Settled /\ BatchOK(a) /\ CommitCounters(a)
    BY DEF IInv, ActorOK, StageOK, Settling, CommitSettlement
  <1>2. ASSUME NEW r \in Reservations, res'[r] # res[r]
        PROVE  res'[r].status # "none" /\ r \notin claims[b] /\ (Admitting(b) => r \notin batch[b])
    <2>1. r \in claims[a] /\ res'[r].status # "none"
      BY <1>1, <1>2, SettledRow DEF Settled
    <2>2. r \notin claims[b]
      BY <1>1, <2>1 DEF Apart
    <2>3. Admitting(b) => r \notin batch[b]
      BY <1>1, <2>1 DEF ActorOK, BatchOK
    <2> QED
      BY <2>1, <2>2, <2>3
  <1>3. \A l \in Limits : limit'[l] = limit[l] \/ draft[b][l] = None
    BY <1>1, CountersCommitted
  <1> QED
    BY <1>2, <1>3 DEF Harmless

(* A settlement commits. *)
LEMMA CommitStep ==
    ASSUME IInv, NEW a \in Actors, CommitSettlement(a)
    PROVE  IInv'
  <1>1. /\ Settling(a) /\ Shape /\ StageOK(a) /\ BatchOK(a) /\ End(a) /\ CommitCounters(a)
        /\ UNCHANGED <<expired, admin, updates, errors>>
    BY DEF IInv, ActorOK, Settling, CommitSettlement
  <1>2. goal[a] \in Settled /\ "none" \notin Settled
    BY <1>1 DEF StageOK, Settled
  <1>3. Shape'
    <2>1. \A l \in expired : limit'[l].win < MaxWindows
      BY <1>1, CountersCommitted DEF Shape, TypeOK
    <2>2. res' = [r \in Reservations |-> res'[r]]
      BY DEF CommitSettlement
    <2>3. res' \in [Reservations -> [status : Settled \cup {"none", "reserved"},
                                     items : [Limits -> Item \cup {None}], actual : [Limits -> Nat]]]
      BY <2>2, SettledRow
    <2>4. idle' \subseteq Reservations /\ old' \subseteq Reservations
      BY <1>1 DEF CommitSettlement, Shape, TypeOK
    <2> QED
      BY <1>1, <2>1, <2>3, <2>4, Ends, CountersCommitted DEF Shape, TypeOK, LimitRows
  <1>4. NewRows'
    <2> SUFFICES ASSUME NEW r \in Reservations, res'[r].status = "none" PROVE res'[r].items = NoItems
      BY DEF NewRows
    <2>1. res'[r] = res[r]
      BY <1>2, SettledRow
    <2> QED
      BY <2>1 DEF IInv, NewRows
  <1>5. \A b \in Actors \ {a} : Harmless(b)
    BY SettlementHarmless
  <1> QED
    BY <1>1, <1>3, <1>4, <1>5, Ends, StepOf

(* A failing statement, or a deadlock. *)
LEMMA AbortStep ==
    ASSUME IInv, NEW a \in Actors, Abort(a)
    PROVE  IInv'
  <1>1. errors' \in 0..MaxErrors
    BY ConstantsAssumption DEF IInv, Shape, TypeOK, Abort
  <1> QED
    BY <1>1, RollbackStep DEF Abort

(* The heartbeat, the administrator's read and time leave limits, rows and *)
(* transactions alone.                                                     *)
LEMMA BystanderStep ==
    ASSUME IInv,
           \/ \E r \in Reservations : touch_usage_reservation(r) \/ GrowsIdle(r) \/ GrowsOld(r)
           \/ \E l \in Limits : WindowPasses(l)
           \/ ReadForUpdate
    PROVE  IInv'
  <1>1. Shape
    BY DEF IInv
  <1>2. CASE \E r \in Reservations : touch_usage_reservation(r) \/ GrowsIdle(r) \/ GrowsOld(r)
    <2>1. UNCHANGED <<rows, tx, admin, updates, errors>>
      BY <1>2 DEF touch_usage_reservation, GrowsIdle, GrowsOld
    <2>2. idle' \subseteq Reservations /\ old' \subseteq Reservations
      BY <1>1, <1>2 DEF touch_usage_reservation, GrowsIdle, GrowsOld, Shape, TypeOK
    <2>3. Shape'
      BY <1>1, <2>1, <2>2 DEF Shape, TypeOK, rows, tx
    <2> QED
      BY <2>1, <2>3, StepOfNone DEF rows
  <1>3. CASE \E l \in Limits : WindowPasses(l)
    <2>1. PICK l \in Limits : WindowPasses(l)
      BY <1>3
    <2>2. UNCHANGED <<limit, res, ages, tx, admin, updates, errors>>
      BY <2>1 DEF WindowPasses
    <2>3. expired' \subseteq Limits /\ \A k \in expired' : limit'[k].win < MaxWindows
      BY <1>1, <2>1, <2>2 DEF WindowPasses, Shape, TypeOK
    <2>4. Shape'
      BY <1>1, <2>2, <2>3 DEF Shape, TypeOK, ages, tx
    <2> QED
      BY <2>2, <2>4, StepOfNone
  <1>4. CASE ReadForUpdate
    <2>1. UNCHANGED <<rows, ages, tx, errors>>
      BY <1>4 DEF ReadForUpdate
    <2>2. admin' \in LimitRows \cup {None} /\ updates' \in 0..MaxUpdates
      BY <1>1, <1>4, ConstantsAssumption DEF ReadForUpdate, Shape, TypeOK, LimitRows
    <2>3. Shape'
      BY <1>1, <2>1, <2>2 DEF Shape, TypeOK, rows, ages, tx
    <2> QED
      BY <2>1, <2>3, StepOfNone DEF rows
  <1> QED
    BY <1>2, <1>3, <1>4

(* The scheduler resets an expired limit. *)
LEMMA ScheduledResetStep ==
    ASSUME IInv, NEW l \in Limits, reset_expired_limits(l)
    PROVE  IInv'
  <1>1. /\ l \in expired /\ Shape /\ UNCHANGED <<res, ages, tx, admin, updates, errors>>
        /\ limit' = [limit EXCEPT ![l].current = 0, ![l].win = limit[l].win + 1]
        /\ expired' = expired \ {l} /\ \A a \in Actors : draft[a][l] = None
    BY DEF IInv, reset_expired_limits, NewWindow
  <1>2. limit \in LimitRows /\ limit[l].win < MaxWindows /\ limit[l].win \in 0..MaxWindows
    BY <1>1 DEF Shape, TypeOK, LimitRows
  <1>3. limit[l].win + 1 \in 0..MaxWindows
    BY <1>2, ConstantsAssumption
  <1>4. limit' \in LimitRows
    BY <1>1, <1>2, <1>3 DEF LimitRows
  <1>5. \A k \in Limits : k # l => limit'[k] = limit[k]
    BY <1>1, <1>2 DEF LimitRows
  <1>6. Shape'
    <2>1. expired' \subseteq Limits /\ \A k \in expired' : limit'[k].win < MaxWindows
      BY <1>1, <1>5 DEF Shape, TypeOK
    <2> QED
      BY <1>1, <1>4, <2>1 DEF Shape, TypeOK, LimitRows, ages, tx
  <1> QED
    BY <1>1, <1>5, <1>6, StepOfNone

(* The administrator writes the limits. *)
LEMMA UpsertStep ==
    ASSUME IInv, NEW maximum \in [Limits -> MaxValues], NEW reset_usage \in BOOLEAN,
           upsert_limits(maximum, reset_usage)
    PROVE  IInv'
  <1>1. /\ Shape /\ UNCHANGED <<res, ages, tx, updates, errors>> /\ admin' = None
        /\ limit \in LimitRows /\ admin \in LimitRows
        /\ \A a \in Actors, l \in Limits : draft[a][l] = None
    BY DEF IInv, Shape, TypeOK, LimitRows, upsert_limits
  <1>2. ASSUME NEW l \in Limits
        PROVE  /\ limit[l] \in [current : Nat, max : MaxValues, win : 0..MaxWindows]
               /\ written(limit[l].max, admin[l].max, maximum[l]) \in MaxValues
               /\ written(limit[l].current, admin[l].current, 0) \in Nat
    BY <1>1 DEF LimitRows, written
  <1>3. limit' \in LimitRows /\ expired' \subseteq Limits /\ \A l \in expired' : limit'[l].win < MaxWindows
    <2>1. CASE ~reset_usage
      <3>1. limit' = [l \in Limits |->
                [limit[l] EXCEPT !.max = written(limit[l].max, admin[l].max, maximum[l])]]
            /\ UNCHANGED expired
        BY <2>1 DEF upsert_limits
      <3>2. limit' \in LimitRows
        BY <1>2, <3>1 DEF LimitRows
      <3>3. \A l \in Limits : limit'[l].win = limit[l].win
        BY <1>2, <3>1
      <3> QED
        BY <1>1, <3>1, <3>2, <3>3 DEF Shape, TypeOK
    <2>2. CASE reset_usage
      <3>1. /\ limit' = [l \in Limits |->
                [current |-> written(limit[l].current, admin[l].current, 0),
                 max |-> written(limit[l].max, admin[l].max, maximum[l]),
                 win |-> limit[l].win + 1]]
            /\ expired' = {} /\ \A l \in Limits : limit[l].win < MaxWindows
        BY <2>2 DEF upsert_limits
      <3>2. \A l \in Limits : limit[l].win + 1 \in 0..MaxWindows
        BY <1>2, <3>1, ConstantsAssumption
      <3> QED
        BY <1>2, <3>1, <3>2 DEF LimitRows
    <2> QED
      BY <2>1, <2>2
  <1>4. Shape'
    BY <1>1, <1>3 DEF Shape, TypeOK, LimitRows, ages, tx
  <1> QED
    BY <1>1, <1>4, StepOfNone

(* Initially nothing is going on. *)
LEMMA InitInv ==
    ASSUME Init
    PROVE  IInv
  <1>1. NoItems \in [Limits -> Nat \cup {None}] /\ NoItems \in ItemRows /\ NoUsage \in [Limits -> Nat]
    BY DEF NoItems, NoUsage, ItemRows
  <1>2. TypeOK
    <2>1. limit \in [Limits -> [current : Nat, max : MaxValues, win : 0..MaxWindows]]
      BY ConstantsAssumption DEF Init
    <2>2. res \in [Reservations -> [status : Settled \cup {"none", "reserved"},
                                    items : [Limits -> Item \cup {None}],
                                    actual : [Limits -> Nat]]]
      BY <1>1 DEF Init, ItemRows
    <2> QED
      BY <1>1, <2>1, <2>2, ConstantsAssumption DEF Init, TypeOK
  <1>3. Shape
    BY <1>1, <1>2 DEF Init, Shape
  <1>4. NewRows
    BY DEF Init, NewRows
  <1>5. \A a \in Actors : ActorOK(a)
    BY DEF Init, ActorOK, StageOK, BatchOK, ReservingOK, Admitting, Settling
  <1>6. \A a, b \in Actors : a # b => Apart(a, b)
    BY DEF Init, Apart, Admitting, NoItems
  <1> QED
    BY <1>3, <1>4, <1>5, <1>6 DEF IInv

(* What settles a reservation, and with which usage. *)
LEMMA SettleInputs ==
    /\ Outcomes \subseteq Settled /\ "released" \in Settled
    /\ Usages \subseteq [Limits -> Nat] /\ NoUsage \in [Limits -> Nat]
  BY ConstantsAssumption DEF Settled, Usages, NoUsage

(* Every step keeps the invariant. *)
LEMMA StepInv ==
    ASSUME IInv, [Next]_vars
    PROVE  IInv'
  <1>1. CASE UNCHANGED vars
    BY <1>1, StepOfNone DEF vars, rows, ages, tx, IInv, Shape, TypeOK
  <1>2. CASE \E a \in Clients : ClientStarts(a)
    <2>1. PICK a \in Clients : ClientStarts(a)
      BY <1>2
    <2>2. PICK r \in Reservations :
            \/ \E applicable \in SUBSET Limits, lapsed \in SUBSET expired :
                  enforce_limits_for_request(a, r, applicable, lapsed)
            \/ \E usage \in Usages, status \in Outcomes : settle_usage_reservation(a, r, status, usage)
            \/ settle_usage_reservation(a, r, "released", NoUsage)
      BY <2>1 DEF ClientStarts
    <2>3. CASE \E usage \in Usages, status \in Outcomes : settle_usage_reservation(a, r, status, usage)
      <3>1. PICK usage \in Usages, status \in Outcomes : settle_usage_reservation(a, r, status, usage)
        BY <2>3
      <3>2. usage \in [Limits -> Nat] /\ status \in Settled
        BY SettleInputs
      <3> QED
        BY <3>1, <3>2, SettleStep
    <2>4. CASE settle_usage_reservation(a, r, "released", NoUsage)
      BY <2>4, SettleInputs, SettleStep
    <2> QED
      BY <2>2, <2>3, <2>4, EnforceStep
  <1>3. CASE release_stale_usage_reservations
    BY <1>3, SweepStep
  <1>4. CASE \E a \in Actors : TxStep(a) \/ Abort(a)
    <2>1. PICK a \in Actors : TxStep(a) \/ Abort(a)
      BY <1>4
    <2>2. CASE Abort(a)
      BY <2>2, AbortStep
    <2>3. CASE TxStep(a)
      BY <2>3, RefetchStep, CreateStep, NextOfBatchStep, CommitStep, ClaimStep, LazyResetStep,
         AdjustStep, ReserveStep DEF TxStep
    <2> QED
      BY <2>1, <2>2, <2>3
  <1>5. CASE \E l \in Limits : reset_expired_limits(l)
    BY <1>5, ScheduledResetStep
  <1>6. CASE \E maximum \in [Limits -> MaxValues], reset_usage \in BOOLEAN :
                upsert_limits(maximum, reset_usage)
    BY <1>6, UpsertStep
  <1> QED
    BY <1>1, <1>2, <1>3, <1>4, <1>5, <1>6, BystanderStep DEF Next

(* The inductive invariant. *)
THEOREM TransactionsSound == Spec => []IInv
  <1>1. Init => IInv
    BY InitInv
  <1>2. IInv /\ [Next]_vars => IInv'
    BY StepInv
  <1> QED
    BY <1>1, <1>2, PTL DEF Spec

(* Types: whatever is reserved, refunded, reset or rolled back, a counter  *)
(* never goes below zero (repository.adjust_reserved_usage,                *)
(* try_reserve_usage).                                                     *)
THEOREM TypeCorrect == Spec => []TypeOK
  <1>1. IInv => TypeOK
    BY DEF IInv, Shape
  <1> QED
    BY <1>1, TransactionsSound, PTL

(* Nothing but create_usage_reservation makes a reservation. *)
LEMMA OnlyCreateAdmits ==
    ASSUME IInv, [Next]_vars, NEW r \in Reservations,
           res[r].status = "none", res'[r].status = "reserved"
    PROVE  \E a \in Actors : create_usage_reservation(a)
  <1>1. res' # res
    OBVIOUS
  <1>2. PICK a \in Actors : create_usage_reservation(a) \/ CommitSettlement(a)
    <2>1. CASE UNCHANGED vars
      BY <1>1, <2>1 DEF vars, rows
    <2>2. CASE \E a \in Clients : ClientStarts(a)
      <3>1. UNCHANGED rows
        BY <2>2 DEF ClientStarts, enforce_limits_for_request, settle_usage_reservation
      <3> QED
        BY <1>1, <3>1 DEF rows
    <2>3. CASE release_stale_usage_reservations
      BY <1>1, <2>3 DEF release_stale_usage_reservations, rows
    <2>4. CASE \E a \in Actors : TxStep(a) \/ Abort(a)
      <3>1. PICK a \in Actors : TxStep(a) \/ Abort(a)
        BY <2>4
      <3>2. CASE Abort(a)
        BY <1>1, <3>2 DEF Abort, Rollback, rows
      <3>3. CASE RefetchLimits(a) \/ NextOfBatch(a)
        BY <1>1, <3>3 DEF RefetchLimits, NextOfBatch, rows
      <3>4. CASE \E q \in Reservations : Claim(a, q)
        BY <1>1, <3>4 DEF Claim, Rollback, rows
      <3>5. CASE \E l \in Limits : lazy_reset(a, l)
        BY <1>1, <3>5 DEF lazy_reset, NewWindow, rows
      <3>6. CASE \E l \in Limits : Adjust(a, l)
        BY <1>1, <3>6 DEF Adjust, rows
      <3>7. CASE \E l \in Limits : \E budget \in Budgets : ReserveLimit(a, l, budget)
        BY <1>1, <3>7 DEF ReserveLimit, Rollback, rows
      <3> QED
        BY <3>1, <3>2, <3>3, <3>4, <3>5, <3>6, <3>7 DEF TxStep
    <2>5. CASE \E q \in Reservations : touch_usage_reservation(q) \/ GrowsIdle(q) \/ GrowsOld(q)
      BY <1>1, <2>5 DEF touch_usage_reservation, GrowsIdle, GrowsOld, rows
    <2>6. CASE \E l \in Limits : reset_expired_limits(l) \/ WindowPasses(l)
      BY <1>1, <2>6 DEF reset_expired_limits, NewWindow, WindowPasses
    <2>7. CASE \/ ReadForUpdate
               \/ \E maximum \in [Limits -> MaxValues], reset_usage \in BOOLEAN :
                     upsert_limits(maximum, reset_usage)
      BY <1>1, <2>7 DEF ReadForUpdate, upsert_limits, rows
    <2> QED
      BY <2>1, <2>2, <2>3, <2>4, <2>5, <2>6, <2>7 DEF Next
  <1>3. ASSUME CommitSettlement(a) PROVE FALSE
    <2>1. r \in claims[a]
      BY <1>1, <1>3, SettledRow
    <2> QED
      BY <2>1 DEF IInv, ActorOK, BatchOK
  <1> QED
    BY <1>2, <1>3

(* A request is admitted only while everything charged to each of its      *)
(* limits, itself included, is within the maximum in force                 *)
(* (enforce_limits_for_request, try_reserve_usage).                        *)
THEOREM AdmissionBounded == Spec => NoOverAdmission
  <1>1. ASSUME IInv, [Next]_vars, NEW r \in Reservations, NEW l \in Limits,
               res[r].status = "none", res'[r].status = "reserved",
               res'[r].items[l] # None, res'[r].items[l].delta > 0
        PROVE  limit'[l].current <= limit'[l].max
    <2>1. PICK a \in Actors : create_usage_reservation(a)
      BY <1>1, OnlyCreateAdmits
    <2>2. res'[r] = [status |-> "reserved", items |-> items[a], actual |-> NoUsage]
      BY <1>1, <2>1 DEF create_usage_reservation
    <2>3. res'[r].items = items[a]
      BY <2>2
    <2>4. op[a] = "reserve" /\ todo[a] = {} /\ ReservingOK(a) /\ CommitCounters(a)
      BY <1>1, <2>1 DEF create_usage_reservation, IInv, ActorOK
    <2>5. draft[a][l] # None
      BY <1>1, <2>3, <2>4 DEF ReservingOK
    <2>6. draft[a][l] <= limit[l].max
      BY <2>4, <2>5 DEF ReservingOK
    <2>7. limit'[l].max = limit[l].max /\ limit'[l].current = draft[a][l]
      BY <1>1, <2>4, <2>5, CountersCommitted DEF Value
    <2> QED
      BY <2>6, <2>7
  <1>2. IInv /\ [Next]_vars =>
          [\A r \in Reservations, l \in Limits :
              (/\ res[r].status = "none" /\ res'[r].status = "reserved"
               /\ res'[r].items[l] # None /\ res'[r].items[l].delta > 0)
              => limit'[l].current <= limit'[l].max]_vars
    BY <1>1
  <1> QED
    BY <1>2, TransactionsSound, PTL DEF Spec, NoOverAdmission

-----------------------------------------------------------------------------
(* What a settlement makes of the charges. *)

(* The charge of a reservation row to limit l in window w, and the one it  *)
(* will have once it is settled with status g and usage u.                 *)
ChargeOf(row, l, w) ==
    IF row.items[l] = None THEN 0
    ELSE IF row.items[l].win # w THEN 0
    ELSE IF row.status = "reserved" THEN row.items[l].delta ELSE row.actual[l]
AfterOf(row, l, w, g, u) ==
    IF row.items[l] = None THEN 0
    ELSE IF row.items[l].win # w THEN 0
    ELSE IF g = "released" THEN 0 ELSE u[l]

(* All charges to a limit, and those charges once the rows in "done" are   *)
(* settled.                                                                *)
ChargesOf(rs, l, w) == [r \in Reservations |-> ChargeOf(rs[r], l, w)]
PlanOf(rs, l, w, done, g, u) ==
    [r \in Reservations |-> IF r \in done THEN AfterOf(rs[r], l, w, g, u) ELSE ChargeOf(rs[r], l, w)]

(* What settler a has done to limit l: the reservation in progress, cur,   *)
(* counts once its item for l is processed.                                *)
Done(a, cur, l) == IF l \in todo[a] THEN claims[a] \ {cur} ELSE claims[a]
Plan(a, cur, l) == PlanOf(res, l, limit[l].win, Done(a, cur, l), goal[a], actual[a])

(* The counter a settler has written is the sum of the charges it will     *)
(* leave; where it has written none, it changes none of them.              *)
Balanced(a, cur, l) ==
    IF draft[a][l] # None THEN draft[a][l] = SumFunction(Plan(a, cur, l))
                          ELSE Plan(a, cur, l) = ChargesOf(res, l, limit[l].win)
SettlingOK(a) ==
    Settling(a) => \E cur :
      /\ op[a] = "adjust" => cur \in claims[a] /\ items[a] = res[cur].items
      /\ \A l \in Limits : Balanced(a, cur, l)

(* No item is of a window still to come. *)
RowsPast ==
    \A r \in Reservations, l \in Limits :
        res[r].items[l] # None => res[r].items[l].win <= limit[l].win
ActorPast(a) ==
    \A l \in Limits : /\ Admitting(a) => seen[a][l].win <= limit[l].win
                      /\ items[a][l] # None => items[a][l].win <= limit[l].win

Exact == \A l \in Limits : limit[l].current = SumFunction(ChargesOf(res, l, limit[l].win))

LInv == Exact /\ RowsPast /\ \A a \in Actors : ActorPast(a) /\ SettlingOK(a)

(* A step that does not reach into what b is about to settle. *)
Calm(b) ==
    \A l \in Limits :
      /\ draft[b][l] # None =>
           /\ limit'[l].win = limit[l].win
           /\ \A r \in Reservations :
                 ChargeOf(res'[r], l, limit[l].win) = ChargeOf(res[r], l, limit[l].win)
      /\ \/ limit'[l].win = limit[l].win
         \/ \A r \in Reservations : res[r].items[l] # None => res[r].items[l].win # limit'[l].win

(* Reservation rows. *)
ResRow == [status : Settled \cup {"none", "reserved"}, items : [Limits -> Item \cup {None}],
           actual : [Limits -> Nat]]

(* Charges are naturals. *)
LEMMA ChargeType ==
    ASSUME NEW row \in ResRow, NEW l \in Limits, NEW w, NEW g, NEW u \in [Limits -> Nat]
    PROVE  ChargeOf(row, l, w) \in Nat /\ AfterOf(row, l, w, g, u) \in Nat
  <1>1. row.items[l] \in Item \cup {None} /\ row.actual[l] \in Nat
    BY DEF ResRow
  <1> QED
    BY <1>1 DEF ChargeOf, AfterOf, Item

(* So are all charges to a limit, planned ones too. *)
LEMMA ChargesType ==
    ASSUME NEW rs \in [Reservations -> ResRow], NEW l \in Limits, NEW w, NEW done, NEW g,
           NEW u \in [Limits -> Nat]
    PROVE  /\ ChargesOf(rs, l, w) \in [Reservations -> Nat]
           /\ PlanOf(rs, l, w, done, g, u) \in [Reservations -> Nat]
  <1>1. \A r \in Reservations : ChargeOf(rs[r], l, w) \in Nat /\ AfterOf(rs[r], l, w, g, u) \in Nat
    BY ChargeType
  <1> QED
    BY <1>1 DEF ChargesOf, PlanOf

(* The ledger of the model and the sums used here. *)
LEMMA ExactIsLedgerExact ==
    ASSUME Shape, Exact
    PROVE  LedgerExact
  <1> SUFFICES ASSUME NEW l \in Limits PROVE Charges(l) = ChargesOf(res, l, limit[l].win)
    BY DEF Exact, LedgerExact
  <1>1. ASSUME NEW r \in Reservations PROVE Charge(r, l) = ChargeOf(res[r], l, limit[l].win)
    <2>1. CASE res[r].items[l] = None
      BY <2>1 DEF Charge, ChargeOf
    <2>2. CASE res[r].items[l] # None /\ res[r].items[l].win # limit[l].win
      BY <2>2 DEF Charge, ChargeOf
    <2>3. CASE res[r].items[l] # None /\ res[r].items[l].win = limit[l].win
      BY <2>3 DEF Charge, ChargeOf
    <2> QED
      BY <2>1, <2>2, <2>3
  <1> QED
    BY <1>1 DEF Charges, ChargesOf

(* A settler the step leaves alone stays balanced. *)
LEMMA BalanceFrame ==
    ASSUME IInv, NEW b \in Actors, SettlingOK(b), Same(b), Harmless(b), Calm(b)
    PROVE  SettlingOK(b)'
  <1> SUFFICES ASSUME Settling(b)'
      PROVE  \E cur : /\ op'[b] = "adjust" => cur \in claims'[b] /\ items'[b] = res'[cur].items
                      /\ \A l \in Limits : Balanced(b, cur, l)'
    BY DEF SettlingOK
  <1>1. Settling(b)
    BY DEF Settling, Same
  <1>2. PICK cur : /\ op[b] = "adjust" => cur \in claims[b] /\ items[b] = res[cur].items
                   /\ \A l \in Limits : Balanced(b, cur, l)
    BY <1>1 DEF SettlingOK
  <1>3. claims[b] \subseteq Reservations /\ \A r \in claims[b] : res'[r] = res[r]
    BY DEF IInv, Shape, TypeOK, Harmless
  <1>4. op'[b] = "adjust" => cur \in claims'[b] /\ items'[b] = res'[cur].items
    BY <1>2, <1>3 DEF Same
  <1>5. ASSUME NEW l \in Limits PROVE Balanced(b, cur, l)'
    <2>1. PICK done, g, u, w, v : /\ done = Done(b, cur, l) /\ g = goal[b] /\ u = actual[b]
                                  /\ w = limit[l].win /\ v = limit'[l].win
      OBVIOUS
    <2>2. done \subseteq claims[b] /\ draft'[b][l] = draft[b][l]
      BY <2>1 DEF Done, Same
    <2>3. Plan(b, cur, l) = PlanOf(res, l, w, done, g, u)
      BY <2>1 DEF Plan
    <2>4. Plan(b, cur, l)' = PlanOf(res', l, v, done, g, u)
      BY <2>1 DEF Plan, Done, Same
    <2>5. \A r \in done : r \in Reservations /\ res'[r] = res[r]
      BY <1>3, <2>2
    <2>6. CASE draft[b][l] # None
      <3>1. v = w /\ \A r \in Reservations : ChargeOf(res'[r], l, w) = ChargeOf(res[r], l, w)
        BY <2>1, <2>6 DEF Calm
      <3>2. PlanOf(res', l, v, done, g, u) = PlanOf(res, l, w, done, g, u)
        BY <2>5, <3>1 DEF PlanOf
      <3>3. draft[b][l] = SumFunction(PlanOf(res, l, w, done, g, u))
        BY <1>2, <2>3, <2>6 DEF Balanced
      <3>4. draft'[b][l] = SumFunction(Plan(b, cur, l)')
        BY <2>2, <2>4, <3>2, <3>3
      <3> QED
        BY <2>2, <2>6, <3>4 DEF Balanced
    <2>7. CASE draft[b][l] = None
      <3>1. PlanOf(res, l, w, done, g, u) = ChargesOf(res, l, w)
        BY <1>2, <2>1, <2>3, <2>7 DEF Balanced
      <3>2. ASSUME NEW r \in done PROVE AfterOf(res'[r], l, v, g, u) = ChargeOf(res'[r], l, v)
        <4>1. r \in Reservations /\ res'[r] = res[r]
          BY <2>5
        <4>2. CASE v = w
          <5>1. PlanOf(res, l, w, done, g, u)[r] = AfterOf(res[r], l, w, g, u)
            BY <4>1 DEF PlanOf
          <5>2. ChargesOf(res, l, w)[r] = ChargeOf(res[r], l, w)
            BY <4>1 DEF ChargesOf
          <5> QED
            BY <3>1, <4>1, <4>2, <5>1, <5>2
        <4>3. CASE v # w
          <5>1. res[r].items[l] # None => res[r].items[l].win # v
            BY <2>1, <4>1, <4>3 DEF Calm
          <5> QED
            BY <4>1, <5>1 DEF AfterOf, ChargeOf
        <4> QED
          BY <4>2, <4>3
      <3>3. PlanOf(res', l, v, done, g, u) = ChargesOf(res', l, v)
        BY <3>2 DEF PlanOf, ChargesOf
      <3> QED
        BY <2>1, <2>2, <2>4, <2>7, <3>3 DEF Balanced
    <2> QED
      BY <2>6, <2>7
  <1> QED
    BY <1>4, <1>5

(* Windows only move on. *)
LEMMA PastFrame ==
    ASSUME IInv, IInv', NEW b \in Actors, ActorPast(b), Same(b),
           \A l \in Limits : limit[l].win <= limit'[l].win
    PROVE  ActorPast(b)'
  <1> SUFFICES ASSUME NEW l \in Limits
      PROVE  /\ Admitting(b)' => seen'[b][l].win <= limit'[l].win
             /\ items'[b][l] # None => items'[b][l].win <= limit'[l].win
    BY DEF ActorPast
  <1>1. limit[l].win \in Nat /\ limit'[l].win \in Nat /\ limit[l].win <= limit'[l].win
    BY DEF IInv, Shape, TypeOK
  <1>2. ASSUME Admitting(b) PROVE seen[b][l].win \in Nat
    <2>1. seen[b] \in LimitRows
      BY <1>2 DEF IInv, ActorOK, StageOK
    <2> QED
      BY <2>1 DEF LimitRows
  <1>3. items[b][l] # None => items[b][l].win \in Nat
    BY DEF IInv, Shape, ItemRows, Item
  <1> QED
    BY <1>1, <1>2, <1>3 DEF ActorPast, Same, Admitting

(* A step of transaction a, or of nobody's. *)
LEMMA LedgerStep ==
    ASSUME IInv, IInv', LInv, NEW A \in SUBSET Actors, Exact', RowsPast',
           \A a \in A : ActorPast(a)' /\ SettlingOK(a)',
           \A b \in Actors \ A : Same(b) /\ Harmless(b) /\ Calm(b),
           \A l \in Limits : limit[l].win <= limit'[l].win
    PROVE  LInv'
  <1>1. ASSUME NEW b \in Actors \ A PROVE ActorPast(b)' /\ SettlingOK(b)'
    <2>1. ActorPast(b) /\ SettlingOK(b) /\ Same(b) /\ Harmless(b) /\ Calm(b)
      BY DEF LInv
    <2>2. SettlingOK(b)'
      BY <2>1, BalanceFrame
    <2> QED
      BY <2>1, <2>2, PastFrame
  <1> QED
    BY <1>1 DEF LInv

(* A step that leaves the rows alone. *)
LEMMA LedgerRowsAlone ==
    ASSUME IInv, IInv', LInv, NEW A \in SUBSET Actors, UNCHANGED <<limit, res>>,
           \A a \in A : ActorPast(a)' /\ SettlingOK(a)',
           \A b \in Actors \ A : Same(b)
    PROVE  LInv'
  <1>1. Exact'
    <2>1. Exact
      BY DEF LInv
    <2> SUFFICES ASSUME NEW l \in Limits
        PROVE  limit'[l].current = SumFunction(ChargesOf(res', l, limit'[l].win))
      BY DEF Exact
    <2>2. limit' = limit /\ res' = res
      OBVIOUS
    <2> QED
      BY <2>1, <2>2 DEF Exact
  <1>2. RowsPast'
    BY DEF LInv, RowsPast
  <1>3. \A b \in Actors : Harmless(b)
    BY DEF Harmless
  <1>4. \A b \in Actors : Calm(b)
    BY DEF Calm
  <1>5. \A l \in Limits : limit[l].win <= limit'[l].win
    BY DEF IInv, Shape, TypeOK
  <1> QED
    BY <1>1, <1>2, <1>3, <1>4, <1>5, LedgerStep

(* The same for the step of one transaction. *)
LEMMA LedgerTxStep ==
    ASSUME IInv, IInv', LInv, NEW a \in Actors, UNCHANGED <<limit, res>>,
           ActorPast(a)', SettlingOK(a)', \A b \in Actors \ {a} : Same(b)
    PROVE  LInv'
  <1>1. PICK A \in SUBSET Actors : A = {a}
    OBVIOUS
  <1>2. \A x \in A : ActorPast(x)' /\ SettlingOK(x)'
    BY <1>1
  <1>3. \A b \in Actors \ A : Same(b)
    BY <1>1
  <1> QED
    BY <1>2, <1>3, LedgerRowsAlone

(* A transaction that ended has nothing to balance. *)
LEMMA LedgerEnds ==
    ASSUME Shape, NEW a \in Actors, End(a)
    PROVE  ActorPast(a)' /\ SettlingOK(a)'
  <1>1. op'[a] = "idle" /\ items'[a] = NoItems
    BY DEF End, Shape, TypeOK
  <1> QED
    BY <1>1 DEF ActorPast, SettlingOK, Admitting, Settling, NoItems

(* A rollback changes no charge. *)
LEMMA LedgerRollback ==
    ASSUME IInv, IInv', LInv, NEW a \in Actors, Rollback(a)
    PROVE  LInv'
  <1>1. End(a) /\ Shape /\ UNCHANGED <<limit, res>>
    BY DEF IInv, Rollback, rows
  <1>2. \A b \in Actors \ {a} : Same(b)
    BY <1>1, Ends
  <1>3. ActorPast(a)' /\ SettlingOK(a)'
    BY <1>1, LedgerEnds
  <1> QED
    BY <1>1, <1>2, <1>3, LedgerTxStep

(* What a transaction's statements touch is its own. *)
LEMMA TxAlone ==
    ASSUME Shape, NEW a \in Actors,
           \/ RefetchLimits(a) \/ NextOfBatch(a) \/ End(a)
           \/ \E r \in Reservations : Claim(a, r)
           \/ \E l \in Limits : lazy_reset(a, l)
           \/ \E l \in Limits : Adjust(a, l)
           \/ \E l \in Limits, budget \in Budgets : ReserveLimit(a, l, budget)
    PROVE  \A b \in Actors \ {a} : Same(b)
  <1>1. CASE End(a)
    BY <1>1, Ends
  <1>2. CASE RefetchLimits(a) \/ NextOfBatch(a)
    BY <1>2 DEF RefetchLimits, NextOfBatch, Same, Shape, TypeOK
  <1>3. CASE \E r \in Reservations : Claim(a, r)
    <2>1. CASE Rollback(a)
      BY <2>1, Ends DEF Rollback
    <2>2. CASE ~Rollback(a)
      BY <1>3, <2>2 DEF Claim, Same, Shape, TypeOK
    <2> QED
      BY <2>1, <2>2
  <1>4. CASE \E l \in Limits : lazy_reset(a, l)
    BY <1>4 DEF lazy_reset, Processed, Same, Shape, TypeOK
  <1>5. CASE \E l \in Limits : Adjust(a, l)
    BY <1>5 DEF Adjust, Write, Processed, Same, Shape, TypeOK
  <1>6. CASE \E l \in Limits, budget \in Budgets : ReserveLimit(a, l, budget)
    <2>1. CASE Rollback(a)
      BY <2>1, Ends DEF Rollback
    <2>2. CASE ~Rollback(a)
      BY <1>6, <2>2 DEF ReserveLimit, Write, Processed, Same, Shape, TypeOK
    <2> QED
      BY <2>1, <2>2
  <1> QED
    BY <1>1, <1>2, <1>3, <1>4, <1>5, <1>6

(* A request reads windows that have begun. *)
LEMMA LedgerEnforce ==
    ASSUME IInv, IInv', LInv, NEW a \in Clients, NEW r \in Reservations,
           NEW applicable \in SUBSET Limits, NEW lapsed \in SUBSET expired,
           enforce_limits_for_request(a, r, applicable, lapsed)
    PROVE  LInv'
  <1>1. a \in Actors /\ Shape /\ UNCHANGED <<limit, res>>
    BY DEF Actors, IInv, enforce_limits_for_request, rows
  <1>2. \A b \in Actors \ {a} : Same(b)
    BY <1>1 DEF enforce_limits_for_request, Same, Shape, TypeOK
  <1>3. /\ op'[a] \in {"reserve", "reset"} /\ seen'[a] = limit
        /\ items'[a] = [l \in Limits |-> IF l \in applicable THEN [delta |-> 0, win |-> 0] ELSE None]
    BY <1>1 DEF enforce_limits_for_request, Shape, TypeOK
  <1>4. \A l \in Limits : limit[l].win \in Nat
    BY <1>1 DEF Shape, TypeOK
  <1>5. ActorPast(a)'
    BY <1>1, <1>3, <1>4 DEF ActorPast
  <1>6. SettlingOK(a)'
    BY <1>3 DEF SettlingOK, Settling
  <1> QED
    BY <1>1, <1>2, <1>5, <1>6, LedgerTxStep

(* So it does when it reads again. *)
LEMMA LedgerRefetch ==
    ASSUME IInv, IInv', LInv, NEW a \in Actors, RefetchLimits(a)
    PROVE  LInv'
  <1>1. /\ Shape /\ UNCHANGED <<limit, res, items>> /\ ActorPast(a)
        /\ op'[a] = "reserve" /\ seen'[a] = limit
    BY DEF IInv, LInv, RefetchLimits, rows, Shape, TypeOK
  <1>2. \A l \in Limits : limit[l].win \in Nat
    BY <1>1 DEF Shape, TypeOK
  <1>3. ActorPast(a)'
    BY <1>1, <1>2 DEF ActorPast
  <1>4. SettlingOK(a)'
    BY <1>1 DEF SettlingOK, Settling
  <1> QED
    BY <1>1, <1>3, <1>4, TxAlone, LedgerTxStep

(* Its items are of the windows it read. *)
LEMMA LedgerReserve ==
    ASSUME IInv, IInv', LInv, NEW a \in Actors, NEW l \in Limits, NEW budget \in Budgets,
           ReserveLimit(a, l, budget)
    PROVE  LInv'
  <1>1. CASE Rollback(a)
    BY <1>1, LedgerRollback
  <1>2. CASE ~Rollback(a)
    <2>1. /\ Shape /\ ActorPast(a) /\ op[a] = "reserve" /\ UNCHANGED <<limit, res, op, seen>>
          /\ seen[a] \in LimitRows
      BY <1>2 DEF IInv, ActorOK, StageOK, Admitting, LInv, ReserveLimit, rows
    <2>2. PICK given : items' = [items EXCEPT ![a][l] = [delta |-> given, win |-> seen[a][l].win]]
      BY <1>2 DEF ReserveLimit
    <2>3. seen[a][l].win <= limit[l].win
      BY <2>1 DEF ActorPast, Admitting
    <2>4. ASSUME NEW k \in Limits, items'[a][k] # None PROVE items'[a][k].win <= limit[k].win
      <3>1. items[a] \in ItemRows /\ items'[a] = [items[a] EXCEPT ![l] = [delta |-> given, win |-> seen[a][l].win]]
        BY <2>1, <2>2 DEF Shape
      <3>2. CASE k = l
        <4>1. items'[a][k].win = seen[a][l].win
          BY <3>1, <3>2 DEF ItemRows
        <4> QED
          BY <2>3, <3>2, <4>1
      <3>3. CASE k # l
        <4>1. items'[a][k] = items[a][k]
          BY <3>1, <3>3 DEF ItemRows
        <4> QED
          BY <2>1, <2>4, <4>1 DEF ActorPast
      <3> QED
        BY <3>2, <3>3
    <2>5. ActorPast(a)'
      BY <2>1, <2>4 DEF ActorPast, Admitting
    <2>6. SettlingOK(a)'
      BY <2>1 DEF SettlingOK, Settling
    <2>7. \A b \in Actors \ {a} : Same(b)
      BY <2>1, TxAlone
    <2> QED
      BY <2>1, <2>5, <2>6, <2>7, LedgerTxStep
  <1> QED
    BY <1>1, <1>2

(* Nothing claimed yet, nothing planned. *)
LEMMA LedgerSettlingStarts ==
    ASSUME IInv, IInv', LInv, NEW a \in Actors, op[a] = "idle",
           \A b \in Actors \ {a} : Same(b),
           op'[a] = "claim", UNCHANGED <<limit, res, claims, seen, draft, items>>
    PROVE  LInv'
  <1>1. claims[a] = {} /\ draft[a] = NoItems /\ ActorPast(a)
    BY DEF IInv, ActorOK, StageOK, LInv
  <1>2. ActorPast(a)'
    BY <1>1 DEF ActorPast, Admitting
  <1>3. ASSUME NEW l \in Limits PROVE Balanced(a, a, l)'
    <2>1. Done(a, a, l)' = {}
      BY <1>1 DEF Done
    <2>2. PICK w, g, u : w = limit'[l].win /\ g = goal'[a] /\ u = actual'[a]
      OBVIOUS
    <2>3. Plan(a, a, l)' = PlanOf(res', l, w, {}, g, u)
      BY <2>1, <2>2 DEF Plan
    <2>4. PlanOf(res', l, w, {}, g, u) = ChargesOf(res', l, w)
      BY DEF PlanOf, ChargesOf
    <2> QED
      BY <1>1, <2>2, <2>3, <2>4 DEF Balanced, NoItems
  <1>4. SettlingOK(a)'
    BY <1>3 DEF SettlingOK
  <1> QED
    BY <1>2, <1>4, LedgerTxStep

(* A client starts to settle. *)
LEMMA LedgerSettle ==
    ASSUME IInv, IInv', LInv, NEW a \in Clients, NEW r \in Reservations, NEW status, NEW usage,
           settle_usage_reservation(a, r, status, usage)
    PROVE  LInv'
  <1>1. /\ a \in Actors /\ Shape /\ op[a] = "idle" /\ op'[a] = "claim"
        /\ UNCHANGED <<limit, res, claims, seen, draft, items>>
    BY DEF Actors, IInv, settle_usage_reservation, rows, Shape, TypeOK
  <1>2. \A b \in Actors \ {a} : Same(b)
    BY <1>1 DEF settle_usage_reservation, Same, Shape, TypeOK
  <1> QED
    BY <1>1, <1>2, LedgerSettlingStarts

(* The sweeper starts to settle. *)
LEMMA LedgerSweep ==
    ASSUME IInv, IInv', LInv, release_stale_usage_reservations
    PROVE  LInv'
  <1>1. /\ Sweeper \in Actors /\ Shape /\ op[Sweeper] = "idle" /\ op'[Sweeper] = "claim"
        /\ UNCHANGED <<limit, res, claims, seen, draft, items>>
    BY DEF Actors, IInv, release_stale_usage_reservations, rows, Shape, TypeOK
  <1>2. \A b \in Actors \ {Sweeper} : Same(b)
    BY <1>1 DEF release_stale_usage_reservations, Same, Shape, TypeOK
  <1> QED
    BY <1>1, <1>2, LedgerSettlingStarts

(* A claimed reservation counts limit by limit, as it is adjusted. *)
LEMMA LedgerClaim ==
    ASSUME IInv, IInv', LInv, NEW a \in Actors, NEW r \in Reservations, Claim(a, r)
    PROVE  LInv'
  <1>1. /\ Shape /\ op[a] = "claim" /\ todo[a] = {} /\ r \in batch[a] /\ r \notin claims[a]
        /\ ActorPast(a) /\ RowsPast /\ Settling(a) /\ SettlingOK(a)
    BY DEF IInv, LInv, ActorOK, StageOK, BatchOK, Settling, Claim
  <1>2. PICK cur : \A l \in Limits : Balanced(a, cur, l)
    BY <1>1 DEF SettlingOK
  <1>3. CASE Rollback(a)
    BY <1>3, LedgerRollback
  <1>4. CASE UNCHANGED <<rows, op, goal, claims, todo, seen, draft, items, actual>>
    <2>1. UNCHANGED <<limit, res>>
      BY <1>4 DEF rows
    <2>2. ActorPast(a)'
      BY <1>1, <1>4, <2>1 DEF ActorPast, Admitting
    <2>3. ASSUME NEW l \in Limits PROVE Balanced(a, cur, l)'
      BY <1>2, <1>4, <2>1 DEF Balanced, Plan, Done
    <2>4. SettlingOK(a)'
      BY <1>1, <1>4, <2>3 DEF SettlingOK
    <2> QED
      BY <1>1, <2>1, <2>2, <2>4, TxAlone, LedgerTxStep
  <1>5. CASE /\ claims' = [claims EXCEPT ![a] = @ \cup {r}]
             /\ items' = [items EXCEPT ![a] = res[r].items]
             /\ todo' = [todo EXCEPT ![a] = {l \in Limits : res[r].items[l] # None}]
             /\ op' = [op EXCEPT ![a] = "adjust"]
             /\ UNCHANGED <<rows, goal, seen, draft, actual>>
    <2>1. /\ claims'[a] = claims[a] \cup {r} /\ items'[a] = res[r].items
          /\ todo'[a] = {l \in Limits : res[r].items[l] # None} /\ op'[a] = "adjust"
          /\ UNCHANGED <<limit, res, goal, seen, draft, actual>>
      BY <1>1, <1>5 DEF Shape, TypeOK, rows
    <2>2. ActorPast(a)'
      BY <1>1, <2>1 DEF ActorPast, RowsPast, Admitting
    <2>3. ASSUME NEW l \in Limits PROVE Balanced(a, r, l)'
      <3>1. PICK w, g, u, cl : w = limit[l].win /\ g = goal[a] /\ u = actual[a] /\ cl = claims[a]
        OBVIOUS
      <3>2. Plan(a, cur, l) = PlanOf(res, l, w, cl, g, u)
        BY <1>1, <3>1 DEF Plan, Done
      <3>3. Plan(a, r, l)' = PlanOf(res, l, w, cl, g, u)
        <4>1. CASE res[r].items[l] # None
          <5>1. Done(a, r, l)' = cl
            BY <1>1, <2>1, <3>1, <4>1 DEF Done
          <5> QED
            BY <2>1, <3>1, <5>1 DEF Plan
        <4>2. CASE res[r].items[l] = None
          <5>1. Done(a, r, l)' = cl \cup {r}
            BY <2>1, <3>1, <4>2 DEF Done
          <5>2. Plan(a, r, l)' = PlanOf(res, l, w, cl \cup {r}, g, u)
            BY <2>1, <3>1, <5>1 DEF Plan
          <5>3. AfterOf(res[r], l, w, g, u) = ChargeOf(res[r], l, w)
            BY <4>2 DEF AfterOf, ChargeOf
          <5>4. PlanOf(res, l, w, cl \cup {r}, g, u) = PlanOf(res, l, w, cl, g, u)
            BY <5>3 DEF PlanOf
          <5> QED
            BY <5>2, <5>4
        <4> QED
          BY <4>1, <4>2
      <3>4. Balanced(a, cur, l)
        BY <1>2
      <3>5. draft'[a][l] = draft[a][l] /\ limit'[l].win = w /\ res' = res
        BY <2>1, <3>1
      <3> QED
        BY <3>1, <3>2, <3>3, <3>4, <3>5 DEF Balanced
    <2>4. SettlingOK(a)'
      BY <2>1, <2>3 DEF SettlingOK
    <2> QED
      BY <1>1, <2>1, <2>2, <2>4, TxAlone, LedgerTxStep
  <1> QED
    BY <1>3, <1>4, <1>5 DEF Claim

(* With every limit adjusted, no reservation is in progress. *)
LEMMA LedgerNextOfBatch ==
    ASSUME IInv, IInv', LInv, NEW a \in Actors, NextOfBatch(a)
    PROVE  LInv'
  <1>1. /\ Shape /\ op[a] = "adjust" /\ op'[a] = "claim" /\ ActorPast(a) /\ SettlingOK(a) /\ Settling(a)
        /\ UNCHANGED <<limit, res, goal, claims, todo, seen, draft, items, actual>>
    BY DEF IInv, LInv, NextOfBatch, rows, Settling, Shape, TypeOK
  <1>2. PICK cur : \A l \in Limits : Balanced(a, cur, l)
    BY <1>1 DEF SettlingOK
  <1>3. ASSUME NEW l \in Limits PROVE Balanced(a, cur, l)'
    BY <1>1, <1>2 DEF Balanced, Plan, Done
  <1>4. SettlingOK(a)'
    BY <1>1, <1>3 DEF SettlingOK
  <1>5. ActorPast(a)'
    BY <1>1 DEF ActorPast, Admitting
  <1> QED
    BY <1>1, <1>4, <1>5, TxAlone, LedgerTxStep

(* The value of a counter in a settlement is the sum of the charges it has *)
(* planned so far.                                                         *)
LEMMA ValueIsPlan ==
    ASSUME IInv, LInv, NEW a \in Actors, NEW cur, NEW l \in Limits, Balanced(a, cur, l)
    PROVE  Value(a, l) = SumFunction(Plan(a, cur, l))
  <1>1. CASE draft[a][l] # None
    BY <1>1 DEF Value, Balanced
  <1>2. CASE draft[a][l] = None
    <2>1. limit[l].current = SumFunction(ChargesOf(res, l, limit[l].win))
      BY DEF LInv, Exact
    <2>2. Plan(a, cur, l) = ChargesOf(res, l, limit[l].win)
      BY <1>2 DEF Balanced
    <2> QED
      BY <1>2, <2>1, <2>2 DEF Value
  <1> QED
    BY <1>1, <1>2

(* Adjusting one limit: the counter moves by what the charge moves, and a  *)
(* refund in the item's own window is never refused.                       *)
LEMMA AdjustBalances ==
    ASSUME IInv, LInv, NEW a \in Actors, NEW l \in Limits, Adjust(a, l),
           NEW cur \in claims[a], items[a] = res[cur].items, Balanced(a, cur, l)
    PROVE  Balanced(a, cur, l)'
  <1>1. /\ Shape /\ op[a] = "adjust" /\ l \in todo[a] /\ items[a][l] # None
        /\ UNCHANGED <<limit, res, goal, claims, actual>>
        /\ res[cur].status = "reserved" /\ cur \in Reservations
    BY DEF IInv, ActorOK, StageOK, BatchOK, Adjust, rows, Shape, TypeOK
  <1>2. PICK w, g, u, cl, it, used :
          /\ w = limit[l].win /\ g = goal[a] /\ u = actual[a] /\ cl = claims[a]
          /\ it = items[a][l] /\ used = IF goal[a] = "released" THEN 0 ELSE actual[a][l]
    OBVIOUS
  <1>3. it \in Item /\ it.delta \in Nat /\ used \in Nat /\ u \in [Limits -> Nat]
    BY <1>1, <1>2 DEF Shape, TypeOK, ItemRows, Item
  <1>4. PICK P, Q : /\ P = PlanOf(res, l, w, cl \ {cur}, g, u)
                    /\ Q = PlanOf(res, l, w, cl, g, u)
    OBVIOUS
  <1>5. P \in [Reservations -> Nat] /\ Q \in [Reservations -> Nat]
    <2>1. res \in [Reservations -> ResRow]
      BY <1>1 DEF Shape, TypeOK, ResRow
    <2> QED
      BY <1>3, <1>4, <2>1, ChargesType
  <1>6. \A r \in Reservations : r # cur => Q[r] = P[r]
    BY <1>4 DEF PlanOf
  <1>7. P[cur] = ChargeOf(res[cur], l, w) /\ Q[cur] = AfterOf(res[cur], l, w, g, u)
    BY <1>1, <1>2, <1>4 DEF PlanOf
  <1>8. SumFunction(Q) = SumFunction(P) - P[cur] + Q[cur]
    BY <1>1, <1>5, <1>6, SumUpdate
  <1>9. Plan(a, cur, l) = P
    BY <1>1, <1>2, <1>4 DEF Plan, Done
  <1>10. Plan(a, cur, l)' = Q
    <2>1. todo'[a] = todo[a] \ {l}
      BY <1>1 DEF Adjust, Processed, Shape, TypeOK
    <2>2. Done(a, cur, l)' = cl
      BY <1>1, <1>2, <2>1 DEF Done
    <2> QED
      BY <1>1, <1>2, <1>4, <2>2 DEF Plan
  <1>11. Value(a, l) = SumFunction(P) /\ SumFunction(P) \in Nat /\ P[cur] <= SumFunction(P)
    BY <1>1, <1>5, <1>9, ValueIsPlan, SumType, SumCovers
  <1>12. draft[a] \in [Limits -> Nat \cup {None}] /\ None \notin Nat
    BY <1>1, ConstantsAssumption DEF Shape, TypeOK
  <1>13. ASSUME UNCHANGED draft, P[cur] = Q[cur] PROVE Balanced(a, cur, l)'
    <2>1. \A r \in Reservations : Q[r] = P[r]
      BY <1>6, <1>13
    <2>2. Q = P
      BY <1>5, <2>1
    <2>3. Plan(a, cur, l)' = Plan(a, cur, l)
      BY <1>9, <1>10, <2>2
    <2>4. draft'[a][l] = draft[a][l] /\ limit'[l].win = limit[l].win /\ res' = res
      BY <1>1, <1>13
    <2> QED
      BY <2>3, <2>4 DEF Balanced
  <1>14. CASE it.win # w
    <2>1. UNCHANGED draft
      BY <1>2, <1>14 DEF Adjust, adjust_reserved_usage
    <2>2. P[cur] = 0 /\ Q[cur] = 0
      BY <1>1, <1>2, <1>7, <1>14 DEF ChargeOf, AfterOf
    <2> QED
      BY <1>13, <2>1, <2>2
  <1>15. CASE it.win = w
    <2>1. P[cur] = it.delta /\ Q[cur] = used
      BY <1>1, <1>2, <1>7, <1>15 DEF ChargeOf, AfterOf
    <2>2. PICK delta : delta = used - it.delta
      OBVIOUS
    <2>3. delta \in Int /\ (delta < 0 => SumFunction(P) >= -delta)
      BY <1>3, <1>11, <2>1, <2>2
    <2>4. adjust_reserved_usage(a, l, items[a][l], delta)
      BY <1>2, <1>11, <1>15, <2>3 DEF adjust_reserved_usage
    <2>5. IF delta # 0 \/ goal[a] = "released" THEN Write(a, l, Value(a, l) + delta)
                                             ELSE UNCHANGED draft
      BY <1>2, <2>2, <2>4 DEF Adjust, settle_delta
    <2>6. CASE delta # 0 \/ goal[a] = "released"
      <3>1. draft'[a][l] = SumFunction(P) + delta
        BY <1>1, <1>11, <1>12, <2>5, <2>6 DEF Write, Shape, TypeOK
      <3>2. SumFunction(Q) = SumFunction(P) + delta
        BY <1>3, <1>8, <1>11, <2>1, <2>2
      <3>3. SumFunction(Q) # None
        <4>1. SumFunction(Q) \in Nat
          BY <1>5, SumType
        <4> QED
          BY <1>12, <4>1
      <3> QED
        BY <1>10, <3>1, <3>2, <3>3 DEF Balanced
    <2>7. CASE ~(delta # 0 \/ goal[a] = "released")
      <3>1. UNCHANGED draft /\ P[cur] = Q[cur]
        BY <1>3, <2>1, <2>2, <2>5, <2>7
      <3> QED
        BY <1>13, <3>1
    <2> QED
      BY <2>6, <2>7
  <1> QED
    BY <1>14, <1>15

(* One limit is adjusted, the others stay as they are. *)
LEMMA LedgerAdjust ==
    ASSUME IInv, IInv', LInv, NEW a \in Actors, NEW l \in Limits, Adjust(a, l)
    PROVE  LInv'
  <1>1. /\ Shape /\ op[a] = "adjust" /\ ActorPast(a) /\ SettlingOK(a) /\ Settling(a)
        /\ UNCHANGED <<limit, res, op, goal, claims, seen, items, actual>>
    BY DEF IInv, LInv, Adjust, rows, Settling
  <1>2. PICK cur : /\ cur \in claims[a] /\ items[a] = res[cur].items
                   /\ \A k \in Limits : Balanced(a, cur, k)
    BY <1>1 DEF SettlingOK
  <1>3. ASSUME NEW k \in Limits PROVE Balanced(a, cur, k)'
    <2>1. CASE k = l
      BY <1>2, <2>1, AdjustBalances
    <2>2. CASE k # l
      <3>1. PICK counter : draft' = [draft EXCEPT ![a][l] = counter]
        BY AdjustWrites
      <3>2. draft'[a][k] = draft[a][k] /\ todo'[a] = todo[a] \ {l}
        BY <1>1, <2>2, <3>1 DEF Adjust, Processed, Shape, TypeOK
      <3>3. Done(a, cur, k)' = Done(a, cur, k)
        BY <1>1, <2>2, <3>2 DEF Done
      <3>4. Plan(a, cur, k)' = Plan(a, cur, k)
        BY <1>1, <3>3 DEF Plan
      <3>5. Balanced(a, cur, k)
        BY <1>2
      <3> QED
        BY <1>1, <3>2, <3>4, <3>5 DEF Balanced
    <2> QED
      BY <2>1, <2>2
  <1>4. SettlingOK(a)'
    BY <1>1, <1>2, <1>3 DEF SettlingOK
  <1>5. ActorPast(a)'
    BY <1>1 DEF ActorPast, Admitting
  <1> QED
    BY <1>1, <1>4, <1>5, TxAlone, LedgerTxStep

(* A commit that leaves b's own limits alone. *)
LEMMA LedgerCommit ==
    ASSUME IInv, IInv', LInv, NEW a \in Actors, End(a), CommitCounters(a), RowsPast',
           \A b \in Actors \ {a} : Harmless(b),
           \A l \in Limits :
              /\ SumFunction(ChargesOf(res', l, limit[l].win)) = Value(a, l)
              /\ draft[a][l] = None => \A r \in Reservations :
                    ChargeOf(res'[r], l, limit[l].win) = ChargeOf(res[r], l, limit[l].win)
    PROVE  LInv'
  <1>1. Shape
    BY DEF IInv
  <1>2. \A l \in Limits : limit'[l].win = limit[l].win /\ limit'[l].current = Value(a, l)
    BY CountersCommitted
  <1>3. Exact'
    <2> SUFFICES ASSUME NEW l \in Limits
        PROVE  limit'[l].current = SumFunction(ChargesOf(res', l, limit'[l].win))
      BY DEF Exact
    <2> QED
      BY <1>2
  <1>4. ASSUME NEW b \in Actors \ {a} PROVE Same(b) /\ Calm(b)
    <2>1. Same(b)
      BY <1>1, Ends
    <2>2. ASSUME NEW l \in Limits, draft[b][l] # None PROVE draft[a][l] = None
      BY <2>2 DEF IInv, Apart
    <2>3. Calm(b)
      BY <1>2, <2>2 DEF Calm
    <2> QED
      BY <2>1, <2>3
  <1>5. ActorPast(a)' /\ SettlingOK(a)'
    BY <1>1, LedgerEnds
  <1>6. \A l \in Limits : limit[l].win <= limit'[l].win
    BY <1>1, <1>2 DEF Shape, TypeOK
  <1>7. PICK A \in SUBSET Actors : A = {a}
    OBVIOUS
  <1>8. \A x \in A : ActorPast(x)' /\ SettlingOK(x)'
    BY <1>5, <1>7
  <1>9. \A b \in Actors \ A : Same(b) /\ Harmless(b) /\ Calm(b)
    BY <1>4, <1>7
  <1> QED
    BY <1>3, <1>6, <1>8, <1>9, LedgerStep

(* The settlement that commits leaves the charges it planned. *)
LEMMA LedgerCommitSettlement ==
    ASSUME IInv, IInv', LInv, NEW a \in Actors, CommitSettlement(a)
    PROVE  LInv'
  <1>1. /\ Shape /\ End(a) /\ CommitCounters(a) /\ Settling(a) /\ SettlingOK(a) /\ todo[a] = {}
        /\ goal[a] \in Settled /\ claims[a] \subseteq Reservations
        /\ RowsPast /\ \A r \in claims[a] : res[r].status = "reserved"
    BY DEF IInv, LInv, ActorOK, StageOK, BatchOK, Settling, CommitSettlement, Shape, TypeOK
  <1>2. PICK cur : \A l \in Limits : Balanced(a, cur, l)
    BY <1>1 DEF SettlingOK
  <1>3. ASSUME NEW l \in Limits
        PROVE  ChargesOf(res', l, limit[l].win) = Plan(a, cur, l)
    <2>1. PICK w, g, u, cl : w = limit[l].win /\ g = goal[a] /\ u = actual[a] /\ cl = claims[a]
      OBVIOUS
    <2>2. Plan(a, cur, l) = PlanOf(res, l, w, cl, g, u)
      BY <1>1, <2>1 DEF Plan, Done
    <2>3. ASSUME NEW r \in Reservations
          PROVE  ChargeOf(res'[r], l, w) =
                    IF r \in cl THEN AfterOf(res[r], l, w, g, u) ELSE ChargeOf(res[r], l, w)
      <3>1. CASE r \notin cl
        <4>1. res'[r] = res[r]
          BY <2>1, <3>1, SettledRow
        <4> QED
          BY <3>1, <4>1
      <3>2. CASE r \in cl
        <4>1. /\ res'[r].status = g /\ res'[r].items = res[r].items
              /\ res'[r].actual = IF g = "released" THEN NoUsage
                                  ELSE [k \in Limits |-> IF res[r].items[k] # None THEN u[k] ELSE 0]
          BY <2>1, <3>2, SettledRow
        <4>2. g # "reserved"
          BY <1>1, <2>1 DEF Settled
        <4>3. res[r].items[l] # None => res'[r].actual[l] = IF g = "released" THEN 0 ELSE u[l]
          BY <4>1 DEF NoUsage
        <4> QED
          BY <3>2, <4>1, <4>2, <4>3 DEF ChargeOf, AfterOf
      <3> QED
        BY <3>1, <3>2
    <2> QED
      BY <2>1, <2>2, <2>3 DEF ChargesOf, PlanOf
  <1>4. ASSUME NEW l \in Limits PROVE SumFunction(ChargesOf(res', l, limit[l].win)) = Value(a, l)
    BY <1>2, <1>3, ValueIsPlan
  <1>5. ASSUME NEW l \in Limits, draft[a][l] = None, NEW r \in Reservations
        PROVE  ChargeOf(res'[r], l, limit[l].win) = ChargeOf(res[r], l, limit[l].win)
    <2>1. ChargesOf(res', l, limit[l].win) = ChargesOf(res, l, limit[l].win)
      BY <1>2, <1>3, <1>5 DEF Balanced
    <2>2. /\ ChargesOf(res', l, limit[l].win)[r] = ChargeOf(res'[r], l, limit[l].win)
          /\ ChargesOf(res, l, limit[l].win)[r] = ChargeOf(res[r], l, limit[l].win)
      BY DEF ChargesOf
    <2> QED
      BY <2>1, <2>2
  <1>6. RowsPast'
    <2> SUFFICES ASSUME NEW r \in Reservations, NEW l \in Limits, res'[r].items[l] # None
        PROVE  res'[r].items[l].win <= limit'[l].win
      BY DEF RowsPast
    <2>1. res'[r].items = res[r].items
      BY SettledRow
    <2>2. limit'[l].win = limit[l].win
      BY <1>1, CountersCommitted
    <2> QED
      BY <1>1, <2>1, <2>2 DEF RowsPast
  <1>7. \A b \in Actors \ {a} : Harmless(b)
    BY SettlementHarmless
  <1> QED
    BY <1>1, <1>4, <1>5, <1>6, <1>7, LedgerCommit

(* What a request has written is the sum with its own reservation in it. *)
LEMMA LedgerCreate ==
    ASSUME IInv, IInv', LInv, NEW a \in Actors, create_usage_reservation(a)
    PROVE  LInv'
  <1>1. /\ Shape /\ End(a) /\ CommitCounters(a) /\ op[a] = "reserve" /\ todo[a] = {}
        /\ ReservingOK(a) /\ RowsPast /\ ActorPast(a)
    BY DEF IInv, LInv, ActorOK, create_usage_reservation
  <1>2. PICK r \in Reservations :
              /\ batch[a] = {r} /\ res[r].status = "none"
              /\ \A q \in Reservations : q # r => res'[q] = res[q]
              /\ items[a] = NoItems => res'[r] = res[r]
              /\ items[a] # NoItems =>
                    res'[r] = [status |-> "reserved", items |-> items[a], actual |-> NoUsage]
    BY CreatedRow
  <1>3. res[r].items = NoItems
    BY <1>2 DEF IInv, NewRows
  <1>4. res'[r].items = items[a] /\ (items[a] # NoItems => res'[r].status = "reserved")
    BY <1>2, <1>3
  <1>5. ASSUME NEW l \in Limits
        PROVE  /\ ChargeOf(res[r], l, limit[l].win) = 0
               /\ ChargeOf(res'[r], l, limit[l].win) = Value(a, l) - limit[l].current
               /\ limit[l].current \in Nat
    <2>1. ChargeOf(res[r], l, limit[l].win) = 0
      BY <1>3 DEF ChargeOf, NoItems
    <2>2. limit[l].current \in Nat
      BY <1>1 DEF Shape, TypeOK
    <2>3. CASE items[a][l] = None
      <3>1. draft[a][l] = None
        BY <1>1, <2>3 DEF ReservingOK
      <3> QED
        BY <1>4, <2>1, <2>2, <2>3, <3>1 DEF ChargeOf, Value
    <2>4. CASE items[a][l] # None
      <3>1. items[a] # NoItems /\ items[a][l].delta \in Nat
        BY <1>1, <2>4 DEF NoItems, Shape, ItemRows, Item
      <3>2. res'[r].items[l] = items[a][l] /\ res'[r].status = "reserved"
        BY <1>4, <3>1
      <3>3. CASE draft[a][l] # None
        <4>1. items[a][l].win = limit[l].win /\ draft[a][l] = limit[l].current + items[a][l].delta
          BY <1>1, <3>3 DEF ReservingOK
        <4>2. ChargeOf(res'[r], l, limit[l].win) = items[a][l].delta
          BY <2>4, <3>2, <4>1 DEF ChargeOf
        <4>3. Value(a, l) = draft[a][l]
          BY <3>3 DEF Value
        <4> QED
          BY <2>1, <2>2, <3>1, <4>1, <4>2, <4>3
      <3>4. CASE draft[a][l] = None
        <4>1. items[a][l].delta = 0
          BY <1>1, <2>4, <3>4 DEF ReservingOK
        <4>2. ChargeOf(res'[r], l, limit[l].win) = 0
          BY <2>4, <3>2, <4>1 DEF ChargeOf
        <4>3. Value(a, l) = limit[l].current
          BY <3>4 DEF Value
        <4> QED
          BY <2>1, <2>2, <4>2, <4>3
      <3> QED
        BY <3>3, <3>4
    <2> QED
      BY <2>3, <2>4
  <1>6. ASSUME NEW l \in Limits PROVE SumFunction(ChargesOf(res', l, limit[l].win)) = Value(a, l)
    <2>1. PICK w, P, Q : /\ w = limit[l].win /\ P = ChargesOf(res, l, w) /\ Q = ChargesOf(res', l, w)
      OBVIOUS
    <2>2. res \in [Reservations -> ResRow] /\ res' \in [Reservations -> ResRow] /\ NoUsage \in [Limits -> Nat]
      BY DEF IInv, Shape, TypeOK, ResRow, NoUsage
    <2>3. P \in [Reservations -> Nat] /\ Q \in [Reservations -> Nat]
      BY <2>1, <2>2, ChargesType
    <2>4. \A q \in Reservations : q # r => Q[q] = P[q]
      BY <1>2, <2>1 DEF ChargesOf
    <2>5. P[r] = 0 /\ Q[r] = Value(a, l) - limit[l].current
      BY <1>5, <2>1 DEF ChargesOf
    <2>6. SumFunction(Q) = SumFunction(P) - P[r] + Q[r]
      BY <2>3, <2>4, SumUpdate
    <2>7. limit[l].current = SumFunction(P)
      BY <2>1 DEF LInv, Exact
    <2>8. Value(a, l) \in Nat /\ limit[l].current \in Nat
      BY <1>1 DEF Value, Shape, TypeOK
    <2> QED
      BY <2>1, <2>5, <2>6, <2>7, <2>8
  <1>7. ASSUME NEW l \in Limits, draft[a][l] = None, NEW q \in Reservations
        PROVE  ChargeOf(res'[q], l, limit[l].win) = ChargeOf(res[q], l, limit[l].win)
    <2>1. CASE q = r
      <3>1. Value(a, l) = limit[l].current
        BY <1>7 DEF Value
      <3> QED
        BY <1>5, <2>1, <3>1
    <2>2. CASE q # r
      BY <1>2, <2>2
    <2> QED
      BY <2>1, <2>2
  <1>8. RowsPast'
    <2> SUFFICES ASSUME NEW q \in Reservations, NEW l \in Limits, res'[q].items[l] # None
        PROVE  res'[q].items[l].win <= limit'[l].win
      BY DEF RowsPast
    <2>1. limit'[l].win = limit[l].win
      BY <1>1, CountersCommitted
    <2>2. CASE q = r
      BY <1>1, <1>4, <2>1, <2>2 DEF ActorPast
    <2>3. CASE q # r
      BY <1>1, <1>2, <2>1, <2>3 DEF RowsPast
    <2> QED
      BY <2>2, <2>3
  <1>9. \A b \in Actors \ {a} : Harmless(b)
    BY CreationHarmless
  <1> QED
    BY <1>1, <1>6, <1>7, <1>8, <1>9, LedgerCommit

(* A new window starts with nothing charged to it. *)
LEMMA LedgerNewWindow ==
    ASSUME IInv, IInv', LInv, NEW A \in SUBSET Actors, NEW l \in Limits, NewWindow(l, limit[l].win),
           \A a \in Actors : draft[a][l] = None,
           \A a \in A : ~Settling(a) /\ UNCHANGED <<op, seen, items>>,
           \A b \in Actors \ A : Same(b)
    PROVE  LInv'
  <1>1. Shape /\ limit \in LimitRows /\ limit[l].win \in Nat /\ RowsPast /\ UNCHANGED res
    BY DEF IInv, LInv, Shape, TypeOK, LimitRows, NewWindow
  <1>2. /\ limit'[l].current = 0 /\ limit'[l].win = limit[l].win + 1
        /\ \A k \in Limits : k # l => limit'[k] = limit[k]
    BY <1>1 DEF NewWindow, LimitRows
  <1>3. ASSUME NEW r \in Reservations, res[r].items[l] # None PROVE res[r].items[l].win # limit'[l].win
    <2>1. res[r].items[l].win \in Nat /\ res[r].items[l].win <= limit[l].win
      BY <1>1, <1>3 DEF RowsPast, Shape, TypeOK, Item
    <2> QED
      BY <1>1, <1>2, <2>1
  <1>4. \A k \in Limits : limit[k].win \in Nat /\ limit[k].win <= limit'[k].win
    <2> SUFFICES ASSUME NEW k \in Limits PROVE limit[k].win \in Nat /\ limit[k].win <= limit'[k].win
      OBVIOUS
    <2>1. limit[k].win \in Nat
      BY <1>1 DEF LimitRows
    <2>2. CASE k = l
      BY <1>1, <1>2, <2>2
    <2>3. CASE k # l
      BY <1>2, <2>1, <2>3
    <2> QED
      BY <2>1, <2>2, <2>3
  <1>5. Exact'
    <2> SUFFICES ASSUME NEW k \in Limits
        PROVE  limit'[k].current = SumFunction(ChargesOf(res', k, limit'[k].win))
      BY DEF Exact
    <2>1. CASE k = l
      <3>1. PICK w, P : w = limit'[l].win /\ P = ChargesOf(res, l, w)
        OBVIOUS
      <3>2. \A r \in Reservations : ChargeOf(res[r], l, w) = 0
        BY <1>3, <3>1 DEF ChargeOf
      <3>3. P \in [Reservations -> Nat] /\ \A r \in Reservations : P[r] = 0
        BY <3>1, <3>2 DEF ChargesOf
      <3>4. SumFunction(P) = 0
        BY <3>3, SumZero
      <3> QED
        BY <1>1, <1>2, <2>1, <3>1, <3>4
    <2>2. CASE k # l
      <3>1. limit[k].current = SumFunction(ChargesOf(res, k, limit[k].win))
        BY DEF LInv, Exact
      <3>2. limit'[k] = limit[k] /\ res' = res
        BY <1>1, <1>2, <2>2
      <3> QED
        BY <3>1, <3>2
    <2> QED
      BY <2>1, <2>2
  <1>6. RowsPast'
    <2> SUFFICES ASSUME NEW r \in Reservations, NEW k \in Limits, res[r].items[k] # None
        PROVE  res[r].items[k].win <= limit'[k].win
      BY <1>1 DEF RowsPast
    <2>1. res[r].items[k].win \in Nat /\ res[r].items[k].win <= limit[k].win
      BY <1>1 DEF RowsPast, Shape, TypeOK, Item
    <2>2. limit'[k].win \in Nat
      BY <1>1, <1>2, <1>4
    <2> QED
      BY <1>4, <2>1, <2>2
  <1>7. ASSUME NEW b \in Actors \ A PROVE Harmless(b) /\ Calm(b)
    <2>1. Harmless(b)
      BY <1>1, <1>2 DEF Harmless
    <2>2. Calm(b)
      <3> SUFFICES ASSUME NEW k \in Limits
          PROVE  /\ draft[b][k] # None =>
                      /\ limit'[k].win = limit[k].win
                      /\ \A r \in Reservations :
                            ChargeOf(res'[r], k, limit[k].win) = ChargeOf(res[r], k, limit[k].win)
                 /\ \/ limit'[k].win = limit[k].win
                    \/ \A r \in Reservations : res[r].items[k] # None => res[r].items[k].win # limit'[k].win
        BY DEF Calm
      <3>1. CASE k = l
        BY <1>3, <3>1
      <3>2. CASE k # l
        BY <1>1, <1>2, <3>2
      <3> QED
        BY <3>1, <3>2
    <2> QED
      BY <2>1, <2>2
  <1>8. ASSUME NEW a \in A PROVE ActorPast(a)' /\ SettlingOK(a)'
    <2>1. SettlingOK(a)'
      BY DEF SettlingOK, Settling
    <2> SUFFICES ASSUME NEW k \in Limits
        PROVE  /\ Admitting(a)' => seen'[a][k].win <= limit'[k].win
               /\ items'[a][k] # None => items'[a][k].win <= limit'[k].win
      BY <2>1 DEF ActorPast
    <2>2. a \in Actors /\ ActorPast(a) /\ StageOK(a)
      BY DEF LInv, IInv, ActorOK
    <2>3. Admitting(a) => seen[a][k].win \in Nat
      BY <2>2 DEF StageOK, LimitRows
    <2>4. items[a][k] # None => items[a][k].win \in Nat
      BY <1>1, <2>2 DEF Shape, ItemRows, Item
    <2>5. limit[k].win \in Nat /\ limit'[k].win \in Nat /\ limit[k].win <= limit'[k].win
      BY <1>1, <1>2, <1>4
    <2>6. UNCHANGED <<op, seen, items>>
      OBVIOUS
    <2> QED
      BY <2>2, <2>3, <2>4, <2>5, <2>6 DEF ActorPast, Admitting
  <1>9. \A k \in Limits : limit[k].win <= limit'[k].win
    BY <1>4
  <1> QED
    BY <1>5, <1>6, <1>7, <1>8, <1>9, LedgerStep

(* A request's reset of an expired limit. *)
LEMMA LedgerLazyReset ==
    ASSUME IInv, IInv', LInv, NEW a \in Actors, NEW l \in Limits, lazy_reset(a, l)
    PROVE  LInv'
  <1>1. /\ Shape /\ op[a] = "reset" /\ draft[a] = NoItems /\ ActorPast(a)
        /\ UNCHANGED <<op, seen, items>>
    BY DEF IInv, LInv, ActorOK, StageOK, lazy_reset
  <1>2. \A b \in Actors \ {a} : Same(b)
    BY <1>1, TxAlone
  <1>3. ~Settling(a) /\ \A b \in Actors : draft[b][l] = None
    BY <1>1 DEF Settling, NoItems, lazy_reset, Locked
  <1>4. PICK A \in SUBSET Actors : A = {a}
    OBVIOUS
  <1>5. CASE reset_matches(a, l)
    <2>1. NewWindow(l, limit[l].win)
      BY <1>5 DEF lazy_reset, reset_matches
    <2>2. \A x \in A : ~Settling(x) /\ UNCHANGED <<op, seen, items>>
      BY <1>1, <1>3, <1>4
    <2>3. \A b \in Actors \ A : Same(b)
      BY <1>2, <1>4
    <2> QED
      BY <1>3, <2>1, <2>2, <2>3, LedgerNewWindow
  <1>6. CASE ~reset_matches(a, l)
    <2>1. UNCHANGED <<limit, res>>
      BY <1>6 DEF lazy_reset, rows
    <2>2. ActorPast(a)'
      BY <1>1, <2>1 DEF ActorPast, Admitting
    <2>3. SettlingOK(a)'
      BY <1>1 DEF SettlingOK, Settling
    <2> QED
      BY <1>2, <2>1, <2>2, <2>3, LedgerTxStep
  <1> QED
    BY <1>5, <1>6

(* The scheduler's. *)
LEMMA LedgerScheduledReset ==
    ASSUME IInv, IInv', LInv, NEW l \in Limits, reset_expired_limits(l)
    PROVE  LInv'
  <1>1. PICK A \in SUBSET Actors : A = {}
    OBVIOUS
  <1>2. \A b \in Actors \ A : Same(b)
    BY DEF reset_expired_limits, Same, tx
  <1>3. NewWindow(l, limit[l].win) /\ \A a \in Actors : draft[a][l] = None
    BY DEF reset_expired_limits
  <1> QED
    BY <1>1, <1>2, <1>3, LedgerNewWindow

(* An update that does not reset usage touches neither counters nor        *)
(* windows.                                                                *)
LEMMA LedgerUpsert ==
    ASSUME IInv, IInv', LInv, ~UsageResets, NEW maximum \in [Limits -> MaxValues],
           NEW reset_usage \in BOOLEAN, upsert_limits(maximum, reset_usage)
    PROVE  LInv'
  <1>1. limit \in LimitRows /\ UNCHANGED <<res, tx>> /\ RowsPast
    BY DEF IInv, LInv, Shape, TypeOK, LimitRows, upsert_limits
  <1>2. limit' = [l \in Limits |->
                    [limit[l] EXCEPT !.max = written(limit[l].max, admin[l].max, maximum[l])]]
    BY DEF upsert_limits
  <1>3. ASSUME NEW l \in Limits
        PROVE  limit'[l].current = limit[l].current /\ limit'[l].win = limit[l].win /\ limit[l].win \in Nat
    BY <1>1, <1>2 DEF LimitRows
  <1>4. Exact'
    <2> SUFFICES ASSUME NEW l \in Limits
        PROVE  limit'[l].current = SumFunction(ChargesOf(res', l, limit'[l].win))
      BY DEF Exact
    <2>1. limit[l].current = SumFunction(ChargesOf(res, l, limit[l].win))
      BY DEF LInv, Exact
    <2> QED
      BY <1>1, <1>3, <2>1
  <1>5. RowsPast'
    BY <1>1, <1>3 DEF RowsPast
  <1>6. PICK A \in SUBSET Actors : A = {}
    OBVIOUS
  <1>7. ASSUME NEW b \in Actors \ A PROVE Same(b) /\ Harmless(b) /\ Calm(b)
    <2>1. Same(b)
      BY <1>1 DEF Same, tx
    <2>2. Harmless(b)
      BY <1>1 DEF Harmless, upsert_limits
    <2>3. Calm(b)
      BY <1>1, <1>3 DEF Calm
    <2> QED
      BY <2>1, <2>2, <2>3
  <1>8. \A l \in Limits : limit[l].win <= limit'[l].win
    BY <1>3
  <1> QED
    BY <1>4, <1>5, <1>6, <1>7, <1>8, LedgerStep

(* A step that changes neither limits, reservations nor transactions. *)
LEMMA LedgerBystander ==
    ASSUME IInv, IInv', LInv, UNCHANGED <<limit, res, tx>>
    PROVE  LInv'
  <1>1. PICK A \in SUBSET Actors : A = {}
    OBVIOUS
  <1>2. \A b \in Actors \ A : Same(b)
    BY DEF Same, tx
  <1> QED
    BY <1>1, <1>2, LedgerRowsAlone

(* An empty ledger is exact. *)
LEMMA LedgerInit ==
    ASSUME Init
    PROVE  LInv
  <1>1. \A r \in Reservations : res[r].items = NoItems
    BY DEF Init
  <1>2. Exact
    <2> SUFFICES ASSUME NEW l \in Limits
        PROVE  limit[l].current = SumFunction(ChargesOf(res, l, limit[l].win))
      BY DEF Exact
    <2>1. PICK w, P : w = limit[l].win /\ P = ChargesOf(res, l, w)
      OBVIOUS
    <2>2. \A r \in Reservations : ChargeOf(res[r], l, w) = 0
      BY <1>1 DEF ChargeOf, NoItems
    <2>3. P \in [Reservations -> Nat] /\ \A r \in Reservations : P[r] = 0
      BY <2>1, <2>2 DEF ChargesOf
    <2>4. SumFunction(P) = 0
      BY <2>3, SumZero
    <2>5. limit[l].current = 0
      BY DEF Init
    <2> QED
      BY <2>1, <2>4, <2>5
  <1>3. RowsPast
    BY <1>1 DEF RowsPast, NoItems
  <1>4. \A a \in Actors : ActorPast(a) /\ SettlingOK(a)
    BY DEF Init, ActorPast, SettlingOK, Admitting, Settling, NoItems
  <1> QED
    BY <1>2, <1>3, <1>4 DEF LInv

(* Every step keeps the ledger exact. *)
LEMMA LedgerNext ==
    ASSUME ~UsageResets, IInv, IInv', LInv, [Next]_vars
    PROVE  LInv'
  <1>1. CASE UNCHANGED vars
    BY <1>1, LedgerBystander DEF vars, rows
  <1>2. CASE \E a \in Clients : ClientStarts(a)
    BY <1>2, LedgerEnforce, LedgerSettle DEF ClientStarts
  <1>3. CASE release_stale_usage_reservations
    BY <1>3, LedgerSweep
  <1>4. CASE \E a \in Actors : TxStep(a) \/ Abort(a)
    <2>1. PICK a \in Actors : TxStep(a) \/ Abort(a)
      BY <1>4
    <2>2. CASE Abort(a)
      BY <2>2, LedgerRollback DEF Abort
    <2>3. CASE TxStep(a)
      BY <2>3, LedgerRefetch, LedgerCreate, LedgerNextOfBatch, LedgerCommitSettlement, LedgerClaim,
         LedgerLazyReset, LedgerAdjust, LedgerReserve DEF TxStep
    <2> QED
      BY <2>1, <2>2, <2>3
  <1>5. CASE \E r \in Reservations : touch_usage_reservation(r) \/ GrowsIdle(r) \/ GrowsOld(r)
    <2>1. UNCHANGED <<limit, res, tx>>
      BY <1>5 DEF touch_usage_reservation, GrowsIdle, GrowsOld, rows
    <2> QED
      BY <2>1, LedgerBystander
  <1>6. CASE \E l \in Limits : WindowPasses(l)
    <2>1. UNCHANGED <<limit, res, tx>>
      BY <1>6 DEF WindowPasses
    <2> QED
      BY <2>1, LedgerBystander
  <1>7. CASE \E l \in Limits : reset_expired_limits(l)
    BY <1>7, LedgerScheduledReset
  <1>8. CASE ReadForUpdate
    <2>1. UNCHANGED <<limit, res, tx>>
      BY <1>8 DEF ReadForUpdate, rows
    <2> QED
      BY <2>1, LedgerBystander
  <1>9. CASE \E maximum \in [Limits -> MaxValues], reset_usage \in BOOLEAN :
                upsert_limits(maximum, reset_usage)
    BY <1>9, LedgerUpsert
  <1> QED
    BY <1>1, <1>2, <1>3, <1>4, <1>5, <1>6, <1>7, <1>8, <1>9 DEF Next

(* While no administrator resets usage, the counter of every limit is      *)
(* exactly what the reservations of its window account for, through every  *)
(* mix of settlers, sweeps, resets, deadlocks and failing statements       *)
(* (api_keys/service.py and repository.py).                                *)
THEOREM LedgerStaysExact == ~UsageResets => (Spec => []LedgerExact)
  <1> SUFFICES ASSUME ~UsageResets PROVE Spec => []LedgerExact
    OBVIOUS
  <1>1. Init => LInv
    BY LedgerInit
  <1>2. IInv /\ IInv' /\ LInv /\ [Next]_vars => LInv'
    BY LedgerNext
  <1>3. IInv /\ LInv => LedgerExact
    BY ExactIsLedgerExact DEF IInv, LInv
  <1> QED
    BY <1>1, <1>2, <1>3, TransactionsSound, PTL DEF Spec

=============================================================================
