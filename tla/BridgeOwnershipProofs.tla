----------------------- MODULE BridgeOwnershipProofs -----------------------
(***************************************************************************)
(* Proofs about BridgeOwnership for any number of processes, instances and *)
(* sessions, all retry bounds and any number of upsets: types, the         *)
(* refinement of FencedSession, the lease of another instance, the row of  *)
(* a registered session and the account of the anchor.                     *)
(***************************************************************************)
EXTENDS BridgeOwnership, TLAPS

Lives == {"none", "creating", "open", "broken", "retiring", "closing", "gone"}
Stages == {"idle", "connect", "claim", "read", "swap", "claimed", "failed"}
SessionRecords ==
    [life : Lives, pc : Stages, acct : Accounts \cup {None}, want : Accounts \cup {None},
     allow : {"no", "lapsed", "forced", "again"}, seen : 0..TTL, tries : 0..(ClaimTries - 1),
     snap : Rows \cup {NoRow}, fence : Fences, release : BOOLEAN, hand : Sessions \cup {None}]

(* The row carries the newest fence. *)
RowNewest == row # NoRow => Fence(row) = granted

(* A process registers its own sessions only, and only ones it created. *)
SlotHome == \A p \in Procs : slot[p] # None => home[slot[p]] = p /\ sess[slot[p]].life # "none"

(* A session that does not exist yet holds no fence and claims nothing. *)
UnbornHoldsNone ==
    \A s \in Sessions : sess[s].life = "none" => sess[s].fence = NoFence /\ sess[s].pc = "idle"

(* A session with a locked row: nothing but the remaining lease has        *)
(* changed since it was read, and nobody else has it locked.               *)
Locks(s) == sess[s].pc = "read" /\ sess[s].snap # NoRow
SameButLease(r, q) ==
    /\ r # NoRow /\ r.owner = q.owner /\ r.state = q.state /\ r.lease <= q.lease
    /\ r.account = q.account /\ r.anchor = q.anchor /\ r.retired = q.retired
LockHeld ==
    db = "postgres" =>
      /\ \A s \in Sessions : Locks(s) => SameButLease(row, sess[s].snap)
      /\ \A s, t \in Sessions : Locks(s) /\ Locks(t) => s = t

IInv == TypeOK /\ RowNewest /\ SlotHome /\ UnbornHoldsNone /\ LockHeld

(* The variables that the fencing does not rest on. *)
PeripheryOK ==
    /\ inflight \in [Procs -> Sessions \cup {None}]
    /\ proc \in [Procs -> {"off", "up", "draining", "closing", "down"}]
    /\ mark \in [Procs -> Nat]
    /\ withdrawn \in BOOLEAN
    /\ moved \in {"none", "attached", "detached"}
    /\ merges \in Nat
    /\ upsets \in 0..MaxUpsets

-----------------------------------------------------------------------------
(* What the sets of values depend on. *)

(* Rows and session objects are the same sets in every step. *)
LEMMA StableTypes ==
    ASSUME UNCHANGED deployment
    PROVE  /\ Rows' = Rows /\ SessionRecords' = SessionRecords
           /\ \A p : Inst(p)' = Inst(p)
  <1>1. \A p : Inst(p)' = Inst(p)
    BY DEF deployment, Inst
  <1>2. Rows' = Rows
    BY <1>1 DEF Rows
  <1>3. SessionRecords' = SessionRecords
    BY <1>2 DEF SessionRecords
  <1> QED
    BY <1>1, <1>2, <1>3

(* A row has a positive id and is not NoRow. *)
LEMMA RowFacts ==
    ASSUME NEW r \in Rows
    PROVE  r # NoRow /\ r.id \in Nat \ {0} /\ Fence(r) = <<r.id, r.epoch>> /\ Fence(r) \in Fences
  <1>1. r.id \in Nat \ {0} /\ r.epoch \in Nat
    BY DEF Rows
  <1>2. r # NoRow
    BY <1>1 DEF NoRow
  <1> QED
    BY <1>1, <1>2 DEF Fence, Fences

(* The instance id a process presents is not None. *)
LEMMA InstNotNone ==
    ASSUME NEW p \in Procs
    PROVE  Inst(p) # None /\ Inst(p) \in {Inst(q) : q \in Procs} \cup {None}
  BY OwnershipAssumption DEF Inst

(* The parts of the invariant give it back. *)
LEMMA Assemble ==
    ASSUME IInv, UNCHANGED deployment, row' \in Rows \cup {NoRow},
           sess' \in [Sessions -> SessionRecords], slot' \in [Procs -> Sessions \cup {None}],
           granted' \in Fences, PeripheryOK', RowNewest', SlotHome', UnbornHoldsNone', LockHeld'
    PROVE  IInv'
  <1>1. db' \in Databases /\ home' \in Homes
    BY DEF IInv, TypeOK, deployment
  <1>2. row' \in Rows' \cup {NoRow} /\ sess' \in [Sessions -> SessionRecords']
    BY StableTypes
  <1>3. TypeOK'
    BY <1>1, <1>2 DEF TypeOK, SessionRecords, Lives, Stages, PeripheryOK
  <1> QED
    BY <1>3 DEF IInv

(* Sessions of which none begins to read the row. *)
SessionsShift ==
    /\ sess' \in [Sessions -> SessionRecords]
    /\ \A t \in Sessions :
         /\ sess'[t].life = "none" => sess'[t] = sess[t]
         /\ sess'[t].pc = "read" => sess[t].pc = "read" /\ sess'[t].snap = sess[t].snap

(* The same when all keep their fences. *)
SessionsMove == SessionsShift /\ \A t \in Sessions : sess'[t].fence = sess[t].fence

(* Slots are emptied, or filled by the sessions of their process. *)
SlotsMove ==
    /\ slot' \in [Procs -> Sessions \cup {None}]
    /\ \A p \in Procs : slot'[p] \in {slot[p], None} \/ (home[slot'[p]] = p /\ sess'[slot'[p]].life # "none")

(* What SessionsShift and SlotsMove keep. *)
LEMMA MovesKeep ==
    ASSUME IInv, UNCHANGED deployment, SessionsShift, SlotsMove
    PROVE  SlotHome' /\ UnbornHoldsNone'
  <1>1. SlotHome'
    BY DEF IInv, SlotHome, SlotsMove, SessionsShift, deployment
  <1>2. UnbornHoldsNone'
    BY DEF IInv, UnbornHoldsNone, SessionsShift
  <1> QED
    BY <1>1, <1>2

(* A step that leaves the row alone. *)
LEMMA QuietShift ==
    ASSUME IInv, UNCHANGED <<row, granted, deployment>>, SessionsShift, SlotsMove, PeripheryOK'
    PROVE  IInv'
  <1>1. SlotHome' /\ UnbornHoldsNone'
    BY MovesKeep
  <1>2. RowNewest'
    BY DEF IInv, RowNewest
  <1>3. LockHeld'
    <2>1. \A t \in Sessions : Locks(t)' => Locks(t) /\ sess'[t].snap = sess[t].snap
      BY DEF SessionsShift, Locks
    <2> QED
      BY <2>1 DEF IInv, LockHeld, deployment, SameButLease
  <1>4. row' \in Rows \cup {NoRow} /\ granted' \in Fences
    BY DEF IInv, TypeOK
  <1> QED
    BY <1>1, <1>2, <1>3, <1>4, Assemble DEF SessionsShift, SlotsMove

(* A step that writes an unlocked row, or deletes it. *)
LEMMA WriteShift ==
    ASSUME IInv, UNCHANGED <<granted, deployment>>, SessionsShift, SlotsMove, PeripheryOK',
           Unlocked, row' \in Rows \cup {NoRow}, row' # NoRow => row # NoRow /\ Fence(row') = Fence(row)
    PROVE  IInv'
  <1>1. SlotHome' /\ UnbornHoldsNone'
    BY MovesKeep
  <1>2. RowNewest'
    BY DEF IInv, RowNewest
  <1>3. LockHeld'
    <2>1. \A t \in Sessions : Locks(t)' => Locks(t)
      BY DEF SessionsShift, Locks
    <2>2. db' = "postgres" => \A t \in Sessions : ~Locks(t)
      BY DEF Unlocked, Locks, deployment
    <2> QED
      BY <2>1, <2>2 DEF LockHeld
  <1>4. granted' \in Fences
    BY DEF IInv, TypeOK
  <1> QED
    BY <1>1, <1>2, <1>3, <1>4, Assemble DEF SessionsShift, SlotsMove

(* A step that leaves the row and all fences alone. *)
LEMMA QuietStep ==
    ASSUME IInv, UNCHANGED <<row, granted, deployment>>, SessionsMove, SlotsMove, PeripheryOK'
    PROVE  IInv'
  BY QuietShift DEF SessionsMove

(* A step that writes an unlocked row and leaves all fences alone. *)
LEMMA WriteStep ==
    ASSUME IInv, UNCHANGED <<granted, deployment>>, SessionsMove, SlotsMove, PeripheryOK',
           Unlocked, row' \in Rows \cup {NoRow}, row' # NoRow => row # NoRow /\ Fence(row') = Fence(row)
    PROVE  IInv'
  BY WriteShift DEF SessionsMove

(* Peripheral variables. *)
LEMMA PeripheryKept ==
    ASSUME IInv, Upset \/ UNCHANGED upsets, UNCHANGED <<inflight, proc, mark, withdrawn, moved, merges>>
    PROVE  PeripheryOK'
  <1>1. upsets' \in 0..MaxUpsets
    BY OwnershipAssumption DEF IInv, TypeOK, Upset
  <1> QED
    BY <1>1 DEF IInv, TypeOK, PeripheryOK

(* The same with a new value in the creation slot. *)
LEMMA InflightMoves ==
    ASSUME IInv, Upset \/ UNCHANGED upsets, UNCHANGED <<proc, mark, withdrawn, moved, merges>>,
           inflight' \in [Procs -> Sessions \cup {None}]
    PROVE  PeripheryOK'
  <1>1. upsets' \in 0..MaxUpsets
    BY OwnershipAssumption DEF IInv, TypeOK, Upset
  <1> QED
    BY <1>1 DEF IInv, TypeOK, PeripheryOK

-----------------------------------------------------------------------------
(* Session objects. *)

(* Every session object is one, and lives in a process. *)
LEMMA SessionFacts ==
    ASSUME IInv
    PROVE  /\ sess \in [Sessions -> SessionRecords]
           /\ \A s \in Sessions : sess[s] \in SessionRecords /\ home[s] \in Procs
           /\ home \in [Sessions -> Procs]
           /\ slot \in [Procs -> Sessions \cup {None}]
           /\ inflight \in [Procs -> Sessions \cup {None}]
           /\ row \in Rows \cup {NoRow}
  <1>1. sess \in [Sessions -> SessionRecords]
    BY DEF IInv, TypeOK, SessionRecords, Lives, Stages
  <1>2. home \in [Sessions -> Procs]
    BY OwnershipAssumption DEF IInv, TypeOK
  <1> QED
    BY <1>1, <1>2 DEF IInv, TypeOK

(* A session on its way out keeps its fence. *)
LEMMA LeavingFacts ==
    ASSUME IInv, NEW s \in Sessions, NEW l \in {"retiring", "closing", "broken"}
    PROVE  /\ Leaving(s, l) \in SessionRecords /\ Leaving(s, l).fence = sess[s].fence
           /\ Leaving(s, l).life = l /\ Leaving(s, l).pc = "idle"
  <1>1. sess[s] \in SessionRecords
    BY SessionFacts
  <1>2. sess[s].fence \in Fences /\ sess[s].acct \in Accounts \cup {None}
    BY <1>1 DEF SessionRecords
  <1>a. PICK a : a = IF l = "retiring" THEN sess[s].acct ELSE None
    OBVIOUS
  <1>4. /\ a \in Accounts \cup {None}
        /\ Leaving(s, l) = [Blank EXCEPT !.life = l, !.fence = sess[s].fence, !.release = TRUE,
                                        !.acct = a, !.want = a]
    BY <1>2, <1>a DEF Leaving
  <1>5. PICK x : x = Leaving(s, l)
    OBVIOUS
  <1>6. x = [life |-> l, pc |-> "idle", acct |-> a, want |-> a, allow |-> "no", seen |-> 0, tries |-> 0,
             snap |-> NoRow, fence |-> sess[s].fence, release |-> TRUE, hand |-> None]
    BY <1>4, <1>5 DEF Blank
  <1>7. 0 \in 0..TTL /\ 0 \in 0..(ClaimTries - 1)
    BY OwnershipAssumption
  <1>8. x \in SessionRecords
    BY <1>2, <1>4, <1>6, <1>7 DEF SessionRecords, Lives, Stages
  <1> QED
    BY <1>5, <1>6, <1>8

(* A claim that fails keeps the fence the session had. *)
LEMMA LostFacts ==
    ASSUME IInv, NEW s \in Sessions
    PROVE  /\ Lost(s) \in SessionRecords /\ Lost(s).fence = sess[s].fence
           /\ Lost(s).life # "none" /\ Lost(s).pc # "read"
  <1>1. sess[s] \in SessionRecords
    BY SessionFacts
  <1>2. CASE sess[s].life = "creating"
    <2> DEFINE x == [sess[s] EXCEPT !.pc = "failed", !.snap = NoRow, !.tries = 0]
    <2>1. Lost(s) = x
      BY <1>2 DEF Lost
    <2>2. x \in SessionRecords
      <3>1. 0 \in 0..(ClaimTries - 1)
        BY OwnershipAssumption
      <3> QED
        BY <1>1, <3>1 DEF SessionRecords, Stages
    <2>3. x.fence = sess[s].fence /\ x.life = sess[s].life /\ x.pc = "failed"
      BY <1>1 DEF SessionRecords
    <2> QED
      BY <1>2, <2>1, <2>2, <2>3
  <1>3. CASE sess[s].life = "open"
    <2>1. Lost(s) = Leaving(s, "broken")
      BY <1>3 DEF Lost
    <2> QED
      BY <2>1, LeavingFacts
  <1>4. CASE sess[s].life \notin {"creating", "open"}
    <2>1. Lost(s) = Leaving(s, "closing")
      BY <1>4 DEF Lost
    <2> QED
      BY <2>1, LeavingFacts
  <1> QED
    BY <1>2, <1>3, <1>4

(* One session goes on as x. *)
LEMMA OneMoves ==
    ASSUME IInv, NEW s \in Sessions, NEW x \in SessionRecords, sess' = [sess EXCEPT ![s] = x],
           x.fence = sess[s].fence, x.life # "none",
           x.pc = "read" => sess[s].pc = "read" /\ x.snap = sess[s].snap
    PROVE  SessionsMove
  <1>1. sess \in [Sessions -> SessionRecords]
    BY SessionFacts
  <1> QED
    BY <1>1 DEF SessionsMove, SessionsShift

(* No session changes. *)
LEMMA NoneMoves ==
    ASSUME IInv, UNCHANGED sess
    PROVE  SessionsMove
  BY SessionFacts DEF SessionsMove, SessionsShift

(* No slot changes. *)
LEMMA SlotsStay ==
    ASSUME IInv, UNCHANGED slot
    PROVE  SlotsMove
  BY SessionFacts DEF SlotsMove

-----------------------------------------------------------------------------
(* Creating, publishing and settling. *)

(* A creation starts; the session it replaces leaves the registry. *)
LEMMA BeginCreateStep ==
    ASSUME IInv, NEW s \in Sessions, BeginCreate(s)
    PROVE  IInv' /\ SessionsMove
  <1> DEFINE p == home[s]
             old == slot[p]
  <1>1. /\ p \in Procs /\ sess \in [Sessions -> SessionRecords] /\ sess[s].life = "none"
        /\ sess[s].fence = NoFence /\ old # s
    BY SessionFacts, OwnershipAssumption DEF BeginCreate, IInv, UnbornHoldsNone, SlotHome
  <1>2. PICK a \in Accounts, force \in BOOLEAN, oldLife \in {"retiring", "closing"} :
           sess' = [t \in Sessions |->
                       CASE t = s   -> [Blank EXCEPT !.life = "creating", !.pc = "connect",
                                          !.acct = a, !.want = a,
                                          !.seen = LookupLease,
                                          !.allow = LookupAllows(force \/ old # None)]
                         [] t = old -> Leaving(t, oldLife)
                         [] OTHER   -> sess[t]]
    BY Zenon DEF BeginCreate
  <1>3. PICK x : x = [Blank EXCEPT !.life = "creating", !.pc = "connect", !.acct = a, !.want = a,
                                   !.seen = LookupLease, !.allow = LookupAllows(force \/ old # None)]
    OBVIOUS
  <1>4. x \in SessionRecords /\ x.fence = NoFence /\ x.life = "creating" /\ x.pc = "connect"
    <2>1. Blank \in SessionRecords
      BY OwnershipAssumption DEF Blank, SessionRecords, Lives, Stages, NoFence, Fences
    <2>2. LookupLease \in 0..TTL
      BY SessionFacts, OwnershipAssumption DEF LookupLease, ActiveOwner, Rows
    <2>3. LookupAllows(force \/ old # None) \in {"no", "lapsed", "forced", "again"}
      BY DEF LookupAllows
    <2> QED
      BY <1>3, <2>1, <2>2, <2>3 DEF SessionRecords, Blank, Lives, Stages
  <1>5. \A t \in Sessions : sess'[t] = IF t = s THEN x ELSE IF t = old THEN Leaving(t, oldLife) ELSE sess[t]
    <2> SUFFICES ASSUME NEW t \in Sessions
                 PROVE  sess'[t] = IF t = s THEN x ELSE IF t = old THEN Leaving(t, oldLife) ELSE sess[t]
      OBVIOUS
    <2> HIDE DEF old
    <2>1. CASE t = s
      BY <1>1, <1>2, <1>3, <2>1
    <2>2. CASE t # s /\ t = old
      BY <1>2, <2>2
    <2>3. CASE t # s /\ t # old
      BY <1>2, <2>3
    <2> QED
      BY <2>1, <2>2, <2>3
  <1>6. SessionsMove
    <2>1. ASSUME NEW t \in Sessions
          PROVE  /\ sess'[t] \in SessionRecords /\ sess'[t].fence = sess[t].fence
                 /\ sess'[t].life = "none" => sess'[t] = sess[t]
                 /\ sess'[t].pc = "read" => sess[t].pc = "read" /\ sess'[t].snap = sess[t].snap
      BY <1>1, <1>4, <1>5, LeavingFacts
    <2>2. sess' = [t \in Sessions |-> sess'[t]]
      BY <1>2
    <2> QED
      BY <2>1, <2>2 DEF SessionsMove, SessionsShift
  <1>7. SlotsMove /\ PeripheryOK'
    <2>1. SlotsMove
      BY <1>1, SessionFacts DEF BeginCreate, SlotsMove
    <2>2. inflight' \in [Procs -> Sessions \cup {None}]
      BY <1>1, SessionFacts DEF BeginCreate
    <2> QED
      BY <2>1, <2>2, InflightMoves DEF BeginCreate, processes, history
  <1> QED
    BY <1>6, <1>7, QuietStep DEF BeginCreate, processes, history

(* A creator loses its slot. *)
LEMMA EvictInflightStep ==
    ASSUME IInv, NEW p \in Procs, EvictInflight(p)
    PROVE  IInv' /\ SessionsMove
  <1>1. PeripheryOK'
    <2>1. inflight' \in [Procs -> Sessions \cup {None}]
      BY SessionFacts DEF EvictInflight
    <2> QED
      BY <2>1, InflightMoves DEF EvictInflight, processes, history
  <1> QED
    BY <1>1, QuietStep, NoneMoves, SlotsStay DEF EvictInflight, processes, history

(* The upstream connection, made or not, and the rejected publication. *)
LEMMA ConnectStep ==
    ASSUME IInv, NEW s \in Sessions, Connected(s) \/ ConnectFailed(s) \/ PublishRejected(s)
    PROVE  IInv' /\ SessionsMove
  <1>1. sess[s] \in SessionRecords /\ 0 \in 0..TTL /\ sess[s].life # "none"
    BY SessionFacts, OwnershipAssumption DEF IInv, UnbornHoldsNone, Connected, ConnectFailed, PublishRejected
  <1>a. PICK y \in SessionRecords :
          /\ sess' = [sess EXCEPT ![s] = y] /\ y.fence = sess[s].fence /\ y.life = sess[s].life
          /\ y.pc # "read"
    <2>1. sess[s].allow \in {"no", "lapsed", "forced", "again"} /\ sess[s].seen \in 0..TTL
      BY <1>1 DEF SessionRecords
    <2>2. CASE Connected(s)
      <3>1. PICK x, a : /\ x = IF inflight[home[s]] = s THEN "claim" ELSE "failed"
                        /\ a = ClaimAllowsTakeover(s)
        OBVIOUS
      <3>2. x \in Stages \ {"read"} /\ a \in {"no", "lapsed", "forced", "again"}
        BY <2>1, <3>1 DEF ClaimAllowsTakeover, Stages
      <3>3. PICK y : y = [sess[s] EXCEPT !.pc = x, !.allow = a, !.seen = 0]
        OBVIOUS
      <3>4. y \in SessionRecords /\ y.fence = sess[s].fence /\ y.life = sess[s].life /\ y.pc = x
        BY <1>1, <3>2, <3>3 DEF SessionRecords
      <3>5. sess' = [sess EXCEPT ![s] = y]
        BY <2>2, <3>1, <3>3 DEF Connected
      <3> QED
        BY <3>2, <3>4, <3>5
    <2>3. CASE ConnectFailed(s)
      <3>1. PICK y : y = [sess[s] EXCEPT !.pc = "failed", !.seen = 0]
        OBVIOUS
      <3>2. y \in SessionRecords /\ y.fence = sess[s].fence /\ y.life = sess[s].life /\ y.pc = "failed"
        BY <1>1, <3>1 DEF SessionRecords, Stages
      <3>3. sess' = [sess EXCEPT ![s] = y]
        BY <2>3, <3>1 DEF ConnectFailed
      <3> QED
        BY <3>2, <3>3
    <2>4. CASE PublishRejected(s)
      <3>1. PICK y : y = [sess[s] EXCEPT !.pc = "failed"]
        OBVIOUS
      <3>2. y \in SessionRecords /\ y.fence = sess[s].fence /\ y.life = sess[s].life /\ y.pc = "failed"
        BY <1>1, <3>1 DEF SessionRecords, Stages
      <3>3. sess' = [sess EXCEPT ![s] = y]
        BY <2>4, <3>1 DEF PublishRejected
      <3> QED
        BY <3>2, <3>3
    <2> QED
      BY <2>2, <2>3, <2>4
  <1>2. SessionsMove
    BY <1>1, <1>a, OneMoves
  <1>3. UNCHANGED <<row, registry, processes, history>> /\ (Upset \/ UNCHANGED upsets)
    BY DEF Connected, ConnectFailed, PublishRejected
  <1>4. PeripheryOK' /\ SlotsMove
    BY <1>3, PeripheryKept, SlotsStay DEF registry, processes, history
  <1> QED
    BY <1>2, <1>3, <1>4, QuietStep DEF registry, processes, history

(* A session starts to claim the row anew. *)
LEMMA BeginReconnectStep ==
    ASSUME IInv, NEW s \in Sessions, BeginReconnect(s)
    PROVE  IInv' /\ SessionsMove
  <1>1. /\ home[s] \in Procs /\ sess[s] \in SessionRecords /\ inflight \in [Procs -> Sessions \cup {None}]
        /\ s # None
    BY SessionFacts, OwnershipAssumption
  <1>2. inflight' \in [Procs -> Sessions \cup {None}] /\ inflight'[home[s]] \in Sessions \cup {None}
    BY <1>1 DEF BeginReconnect
  <1>a. PICK h \in Sessions \cup {None} : h = inflight'[home[s]]
    BY <1>2
  <1>3. PICK a \in Accounts, c \in {"claim", "swap"} :
          sess' = [sess EXCEPT ![s].pc = c, ![s].want = a, ![s].allow = "forced", ![s].hand = h]
    BY <1>a, Zenon DEF BeginReconnect
  <1>4. PICK y : y = [sess[s] EXCEPT !.pc = c, !.want = a, !.allow = "forced", !.hand = h]
    OBVIOUS
  <1>5. y \in SessionRecords /\ y.pc = c /\ y.fence = sess[s].fence /\ y.life = sess[s].life
    BY <1>1, <1>4 DEF SessionRecords, Stages
  <1>6. sess' = [sess EXCEPT ![s] = y]
    BY <1>3, <1>4
  <1>7. SessionsMove
    BY <1>5, <1>6, OneMoves DEF BeginReconnect
  <1>8. PeripheryOK'
    <2>1. upsets' \in 0..MaxUpsets
      BY OwnershipAssumption DEF IInv, TypeOK, Upset, BeginReconnect
    <2>2. moved' \in {"none", "attached", "detached"}
      BY DEF BeginReconnect
    <2> QED
      BY <1>2, <2>1, <2>2 DEF IInv, TypeOK, PeripheryOK, BeginReconnect, processes
  <1> QED
    BY <1>7, <1>8, QuietStep, SlotsStay DEF BeginReconnect, processes

(* A claimed creation becomes the registered session. *)
LEMMA PublishStep ==
    ASSUME IInv, NEW s \in Sessions, Publish(s)
    PROVE  IInv' /\ SessionsMove
  <1>1. /\ home[s] \in Procs /\ sess[s] \in SessionRecords /\ inflight \in [Procs -> Sessions \cup {None}]
        /\ slot \in [Procs -> Sessions \cup {None}]
    BY SessionFacts
  <1>2. PICK y : y = [sess[s] EXCEPT !.life = "open", !.pc = "idle", !.allow = "no"]
    OBVIOUS
  <1>3. y \in SessionRecords /\ y.pc = "idle" /\ y.fence = sess[s].fence /\ y.life = "open"
    BY <1>1, <1>2 DEF SessionRecords, Stages, Lives
  <1>4. sess' = [sess EXCEPT ![s] = y]
    BY <1>2 DEF Publish
  <1>5. SessionsMove
    BY <1>3, <1>4, OneMoves
  <1>6. SlotsMove
    BY <1>1, <1>3, <1>4, SessionFacts DEF Publish, SlotsMove
  <1>7. PeripheryOK'
    <2>1. inflight' \in [Procs -> Sessions \cup {None}]
      BY <1>1 DEF Publish
    <2> QED
      BY <2>1, InflightMoves DEF Publish, processes, history
  <1> QED
    BY <1>5, <1>6, <1>7, QuietStep DEF Publish, processes, history

-----------------------------------------------------------------------------
(* claim_session. *)

(* The end of a hand-off frees at most the slot it took. *)
LEMMA HandoffType ==
    ASSUME IInv, NEW s \in Sessions, CompleteHandoff(s)
    PROVE  inflight' \in [Procs -> Sessions \cup {None}]
  BY SessionFacts DEF CompleteHandoff

(* The locking read: on PostgreSQL it waits for the lock. *)
LEMMA ClaimReadStep ==
    ASSUME IInv, NEW s \in Sessions, ClaimRead(s)
    PROVE  IInv' /\ \A t \in Sessions : sess'[t].fence = sess[t].fence
  <1>1. sess[s] \in SessionRecords /\ row \in Rows \cup {NoRow} /\ sess \in [Sessions -> SessionRecords]
    BY SessionFacts
  <1>2. PICK y : y = [sess[s] EXCEPT !.pc = "read", !.snap = row]
    OBVIOUS
  <1>3. /\ y \in SessionRecords /\ y.pc = "read" /\ y.fence = sess[s].fence /\ y.life = sess[s].life
        /\ y.snap = row
    BY <1>1, <1>2 DEF SessionRecords, Stages
  <1>4. sess' = [sess EXCEPT ![s] = y] /\ sess[s].pc = "claim" /\ sess[s].life # "none"
    BY <1>2 DEF ClaimRead, IInv, UnbornHoldsNone
  <1>5. \A t \in Sessions : sess'[t] = IF t = s THEN y ELSE sess[t]
    BY <1>1, <1>4
  <1>6. UNCHANGED <<row, slot, inflight, deployment, proc, mark, granted, withdrawn, moved, merges, upsets>>
    BY DEF ClaimRead, registry, processes, history
  <1>7. RowNewest' /\ SlotHome' /\ UnbornHoldsNone'
    <2>1. RowNewest'
      BY <1>6 DEF IInv, RowNewest
    <2>2. SlotHome'
      BY <1>3, <1>5, <1>6, SessionFacts DEF IInv, SlotHome, deployment
    <2>3. UnbornHoldsNone'
      BY <1>3, <1>4, <1>5 DEF IInv, UnbornHoldsNone
    <2> QED
      BY <2>1, <2>2, <2>3
  <1>8. LockHeld'
    <2> SUFFICES ASSUME db = "postgres"
                 PROVE  /\ \A t \in Sessions : Locks(t)' => SameButLease(row, sess'[t].snap)
                        /\ \A t, u \in Sessions : Locks(t)' /\ Locks(u)' => t = u
      BY <1>6 DEF LockHeld, deployment, SameButLease
    <2>1. \A t \in Sessions : t # s => (Locks(t)' <=> Locks(t)) /\ sess'[t].snap = sess[t].snap
      BY <1>5 DEF Locks
    <2>2. Locks(s)' => row # NoRow /\ \A t \in Sessions : ~Locks(t)
      BY <1>3, <1>5 DEF Locks, ClaimRead, Unlocked
    <2>3. row # NoRow => SameButLease(row, row)
      <3>1. row # NoRow => row.lease \in 0..TTL
        BY <1>1 DEF Rows
      <3> QED
        BY <3>1, OwnershipAssumption DEF SameButLease
    <2> QED
      BY <1>3, <1>5, <2>1, <2>2, <2>3 DEF IInv, LockHeld
  <1>9. PeripheryOK'
    BY <1>6, PeripheryKept
  <1>10. sess' \in [Sessions -> SessionRecords] /\ granted' \in Fences /\ slot' \in [Procs -> Sessions \cup {None}]
    BY <1>1, <1>3, <1>4, <1>6 DEF IInv, TypeOK
  <1> QED
    BY <1>1, <1>3, <1>5, <1>6, <1>7, <1>8, <1>9, <1>10, Assemble

(* A claim that ends without the row, or is tried again, and a reconnect   *)
(* that fails after it.                                                    *)
LEMMA ClaimFailsStep ==
    ASSUME IInv, NEW s \in Sessions,
           ClaimRefused(s) \/ ClaimAgain(s) \/ ClaimRaceLost(s) \/ ClaimError(s) \/ RebindFailed(s)
    PROVE  IInv' /\ SessionsMove
  <1>1. /\ UNCHANGED <<row, slot, processes, history>> /\ (Upset \/ UNCHANGED upsets)
        /\ CompleteHandoff(s) \/ UNCHANGED inflight
    BY DEF ClaimRefused, ClaimAgain, ClaimRaceLost, ClaimError, RebindFailed, registry
  <1>a. sess[s].life # "none"
    BY DEF IInv, UnbornHoldsNone, ClaimRefused, ClaimAgain, ClaimRaceLost, ClaimError, RebindFailed
  <1>2. SessionsMove
    <2>1. CASE sess' = [sess EXCEPT ![s] = Lost(s)]
      BY <2>1, OneMoves, LostFacts
    <2>2. CASE ClaimAgain(s)
      <3>1. PICK y : y = [sess[s] EXCEPT !.pc = "claim", !.snap = NoRow, !.tries = 0, !.allow = "again"]
        OBVIOUS
      <3>2. 0 \in 0..(ClaimTries - 1) /\ sess[s] \in SessionRecords
        BY OwnershipAssumption, SessionFacts
      <3>3. y \in SessionRecords /\ y.pc = "claim" /\ y.fence = sess[s].fence /\ y.life = sess[s].life
        BY <3>1, <3>2 DEF SessionRecords, Stages
      <3>4. sess' = [sess EXCEPT ![s] = y]
        BY <2>2, <3>1 DEF ClaimAgain
      <3> QED
        BY <1>a, <3>3, <3>4, OneMoves
    <2>3. CASE /\ MayRetry(s)
               /\ sess' = [sess EXCEPT ![s].pc = "claim", ![s].snap = NoRow, ![s].tries = @ + 1]
      <3>1. PICK y : y = [sess[s] EXCEPT !.pc = "claim", !.snap = NoRow, !.tries = sess[s].tries + 1]
        OBVIOUS
      <3>2. sess[s] \in SessionRecords
        BY SessionFacts
      <3>3. sess[s].tries \in 0..(ClaimTries - 1)
        BY <3>2 DEF SessionRecords
      <3>4. sess[s].tries + 1 \in 0..(ClaimTries - 1)
        BY <2>3, <3>3, OwnershipAssumption DEF MayRetry
      <3>5. y \in SessionRecords /\ y.pc = "claim" /\ y.fence = sess[s].fence /\ y.life = sess[s].life
        BY <3>1, <3>2, <3>4 DEF SessionRecords, Stages
      <3>6. sess' = [sess EXCEPT ![s] = y]
        BY <2>3, <3>1
      <3> QED
        BY <1>a, <3>5, <3>6, OneMoves
    <2> QED
      BY <2>1, <2>2, <2>3 DEF ClaimRefused, ClaimRaceLost, ClaimError, RebindFailed
  <1>3. inflight' \in [Procs -> Sessions \cup {None}]
    BY <1>1, HandoffType, SessionFacts
  <1>4. PeripheryOK'
    BY <1>1, <1>3, InflightMoves DEF processes, history
  <1> QED
    BY <1>1, <1>2, <1>4, QuietStep, SlotsStay DEF processes, history

(* A claim that succeeds notes the new fence. *)
LEMMA WonFacts ==
    ASSUME IInv, NEW s \in Sessions, sess[s].life # "none", NEW f \in Fences
    PROVE  /\ Won(s, f) \in SessionRecords /\ Won(s, f).fence = f
           /\ Won(s, f).life = sess[s].life /\ Won(s, f).pc # "read"
  <1>1. sess[s] \in SessionRecords /\ 0 \in 0..(ClaimTries - 1)
    BY SessionFacts, OwnershipAssumption
  <1>2. CASE sess[s].life = "creating"
    BY <1>1, <1>2 DEF Won, SessionRecords, Stages
  <1>3. CASE sess[s].life # "creating"
    BY <1>1, <1>3 DEF Won, SessionRecords, Stages
  <1> QED
    BY <1>2, <1>3

(* The row a claim leaves behind has a newer fence than all before. *)
LEMMA ClaimedFacts ==
    ASSUME IInv, NEW s \in Sessions, ClaimCommit(s)
    PROVE  /\ ClaimedRow(s) \in Rows /\ Fence(ClaimedRow(s)) \in Fences
           /\ ClaimedRow(s).proc = home[s] /\ ClaimedRow(s).owner = Inst(home[s])
           /\ F!Newer(Fence(ClaimedRow(s)), granted)
  <1>1. /\ sess[s] \in SessionRecords /\ row \in Rows \cup {NoRow} /\ home[s] \in Procs
        /\ granted \in Fences
    BY SessionFacts DEF IInv, TypeOK
  <1>2. PICK i, e, n : /\ i = IF sess[s].snap = NoRow THEN granted[1] + 1 ELSE sess[s].snap.id
                       /\ e = IF sess[s].snap = NoRow THEN 1 ELSE sess[s].snap.epoch + 1
                       /\ n = IF KeepsContinuity(s) THEN row.anchor ELSE None
    OBVIOUS
  <1>3. /\ i \in Nat \ {0} /\ e \in Nat \ {0}
        /\ i > granted[1] \/ (i = granted[1] /\ e > granted[2])
    <2>1. granted[1] \in Nat /\ granted[2] \in Nat
      BY <1>1 DEF Fences
    <2>2. CASE sess[s].snap = NoRow
      BY <1>2, <2>1, <2>2
    <2>3. CASE sess[s].snap # NoRow
      <3>1. sess[s].snap \in Rows /\ row \in Rows
        <4>1. sess[s].snap \in Rows
          BY <1>1, <2>3 DEF SessionRecords
        <4>2. Fence(row) = Fence(sess[s].snap) /\ Fence(sess[s].snap)[1] # 0
          BY <2>3, <4>1, RowFacts DEF ClaimCommit
        <4>3. row # NoRow
          BY <4>2 DEF Fence, NoFence
        <4> QED
          BY <1>1, <4>1, <4>3
      <3>2. Fence(sess[s].snap) = granted
        BY <2>3, <3>1, RowFacts DEF ClaimCommit, IInv, RowNewest
      <3>3. /\ sess[s].snap.id = granted[1] /\ sess[s].snap.epoch = granted[2]
            /\ sess[s].snap.id \in Nat \ {0} /\ sess[s].snap.epoch \in Nat \ {0}
        BY <3>1, <3>2, RowFacts DEF Rows
      <3> QED
        BY <1>2, <2>3, <3>3
    <2> QED
      BY <2>2, <2>3
  <1>4. n \in Accounts \cup {None}
    <2>1. KeepsContinuity(s) => row \in Rows
      <3> SUFFICES ASSUME KeepsContinuity(s) PROVE row \in Rows
        OBVIOUS
      <3>1. sess[s].snap # NoRow /\ sess[s].snap \in Rows
        BY <1>1 DEF KeepsContinuity, SessionRecords
      <3>2. Fence(row) = Fence(sess[s].snap) /\ Fence(sess[s].snap)[1] # 0
        BY <3>1, RowFacts DEF ClaimCommit
      <3>3. row # NoRow
        BY <3>2 DEF Fence, NoFence
      <3> QED
        BY <1>1, <3>3
    <2> QED
      BY <1>2, <2>1 DEF Rows
  <1>5. ClaimedRow(s) = [id |-> i, owner |-> Inst(home[s]), proc |-> home[s], epoch |-> e,
                         lease |-> TTL, state |-> "active", account |-> sess[s].want,
                         anchor |-> n, retired |-> FALSE]
    BY <1>2 DEF ClaimedRow
  <1>6. PICK c : c = ClaimedRow(s)
    OBVIOUS
  <1>7. c \in Rows
    <2>1. TTL \in 0..TTL /\ sess[s].want \in Accounts \cup {None}
      BY <1>1, OwnershipAssumption DEF SessionRecords
    <2>2. Inst(home[s]) \in {Inst(q) : q \in Procs} \cup {None}
      BY <1>1, InstNotNone
    <2> QED
      BY <1>1, <1>3, <1>4, <1>5, <1>6, <2>1, <2>2 DEF Rows, RowStates
  <1>8. c.id = i /\ c.epoch = e /\ c.proc = home[s] /\ c.owner = Inst(home[s])
    BY <1>5, <1>6
  <1>9. Fence(c) = <<i, e>> /\ Fence(c) \in Fences
    BY <1>7, <1>8, RowFacts
  <1> QED
    BY <1>3, <1>6, <1>7, <1>8, <1>9 DEF F!Newer

(* A step that leaves fences and claim as they are is no step of the       *)
(* abstract specification.                                                 *)
LEMMA Stutters ==
    ASSUME UNCHANGED <<home, granted, withdrawn, merges>>,
           \A t \in Sessions : sess'[t].fence = sess[t].fence,
           \/ UNCHANGED row
           \/ /\ row # NoRow /\ row' # NoRow /\ row'.proc = row.proc
              /\ (row'.owner # None) <=> (row.owner # None)
              /\ row'.account = row.account /\ row'.anchor = row.anchor
    PROVE  UNCHANGED F!vars
  <1>1. [t \in Sessions |-> sess'[t].fence] = [t \in Sessions |-> sess[t].fence]
    OBVIOUS
  <1>2. (row' # NoRow /\ row'.owner # None) = (row # NoRow /\ row.owner # None)
    OBVIOUS
  <1>3. /\ (IF row' = NoRow THEN None ELSE row'.proc) = (IF row = NoRow THEN None ELSE row.proc)
        /\ (IF row' = NoRow THEN None ELSE <<row'.account, row'.anchor>>) =
           (IF row = NoRow THEN None ELSE <<row.account, row.anchor>>)
    OBVIOUS
  <1>4. NoRow' = NoRow
    BY DEF NoRow
  <1> QED
    BY <1>1, <1>2, <1>3, <1>4 DEF F!vars

(* The commit of a claim is a grant. *)
LEMMA ClaimCommitStep ==
    ASSUME IInv, NEW s \in Sessions, ClaimCommit(s)
    PROVE  IInv' /\ F!Grant(s)
  <1>0. PICK c : c = ClaimedRow(s)
    OBVIOUS
  <1>1. /\ c \in Rows /\ Fence(c) \in Fences /\ c.proc = home[s] /\ c.owner = Inst(home[s])
        /\ F!Newer(Fence(c), granted) /\ c # NoRow
    BY <1>0, ClaimedFacts, RowFacts
  <1>2. /\ row' = c /\ granted' = Fence(c) /\ withdrawn' = FALSE /\ sess[s].pc = "read"
        /\ UNCHANGED <<slot, processes, moved, merges>> /\ (Upset \/ UNCHANGED upsets)
    BY <1>0 DEF ClaimCommit
  <1>3. sess \in [Sessions -> SessionRecords] /\ home[s] \in Procs /\ sess[s].life # "none"
    BY <1>2, SessionFacts DEF IInv, UnbornHoldsNone
  <1>4. PICK x \in SessionRecords :
          /\ sess' = [sess EXCEPT ![s] = x] /\ x.fence \in {Fence(c), sess[s].fence}
          /\ x.life # "none" /\ x.pc # "read"
    <2>1. CASE sess' = [sess EXCEPT ![s] = Won(s, Fence(row'))]
      BY <1>1, <1>2, <1>3, <2>1, WonFacts
    <2>2. CASE sess' = [sess EXCEPT ![s] = Lost(s)]
      BY <2>2, LostFacts
    <2> QED
      BY <2>1, <2>2 DEF ClaimCommit
  <1>5. \A t \in Sessions : sess'[t] = IF t = s THEN x ELSE sess[t]
    BY <1>3, <1>4
  <1>6. IInv'
    <2>1. RowNewest' /\ SlotHome' /\ UnbornHoldsNone'
      <3>1. RowNewest'
        BY <1>2 DEF RowNewest
      <3>2. SlotHome'
        BY <1>2, <1>4, <1>5, SessionFacts DEF IInv, SlotHome, processes, deployment
      <3>3. UnbornHoldsNone'
        BY <1>4, <1>5 DEF IInv, UnbornHoldsNone
      <3> QED
        BY <3>1, <3>2, <3>3
    <2>2. LockHeld'
      <3> SUFFICES ASSUME db = "postgres", NEW t \in Sessions, Locks(t)' PROVE FALSE
        BY <1>2 DEF LockHeld, processes, deployment
      <3>1. Locks(t) /\ t # s
        BY <1>4, <1>5 DEF Locks
      <3>2. row # NoRow
        BY <3>1 DEF IInv, LockHeld, SameButLease
      <3>3. Locks(s)
        BY <1>2, <3>2 DEF ClaimCommit, Locks
      <3> QED
        BY <3>1, <3>3 DEF IInv, LockHeld
    <2>3. PeripheryOK'
      <3>1. inflight' \in [Procs -> Sessions \cup {None}]
        BY HandoffType, SessionFacts DEF ClaimCommit
      <3>2. upsets' \in 0..MaxUpsets
        BY <1>2, OwnershipAssumption DEF IInv, TypeOK, Upset
      <3> QED
        BY <1>2, <3>1, <3>2 DEF IInv, TypeOK, PeripheryOK, processes
    <2>4. sess' \in [Sessions -> SessionRecords] /\ slot' \in [Procs -> Sessions \cup {None}]
      BY <1>2, <1>3, <1>4, SessionFacts
    <2> QED
      BY <1>1, <1>2, <2>1, <2>2, <2>3, <2>4, Assemble DEF processes
  <1>7. F!Grant(s)
    <2>1. PICK hs, hs1 : /\ hs = [t \in Sessions |-> sess[t].fence]
                         /\ hs1 = [t \in Sessions |-> sess'[t].fence]
      OBVIOUS
    <2>2. hs1 \in {hs, [hs EXCEPT ![s] = Fence(c)]}
      BY <1>4, <1>5, <2>1
    <2>3. c.owner # None /\ NoRow' = NoRow /\ home' = home
      BY <1>1, <1>2, <1>3, InstNotNone DEF NoRow, processes, deployment
    <2> QED
      BY <1>1, <1>2, <2>1, <2>2, <2>3 DEF F!Grant
  <1> QED
    BY <1>6, <1>7

-----------------------------------------------------------------------------
(* The steps as steps of the abstract specification. *)

(* A step, or none, of FencedSession. *)
Refines == [F!Next]_(F!vars)

(* A quiet step that keeps all fences is a stuttering step. *)
LEMMA QuietRefines ==
    ASSUME SessionsMove, UNCHANGED <<row, granted, deployment, withdrawn, merges>>
    PROVE  Refines
  <1>1. UNCHANGED F!vars
    BY Stutters DEF SessionsMove, deployment
  <1> QED
    BY <1>1 DEF Refines

(* A creation that failed settles; its claimed epoch may pass to the       *)
(* session registered in the same process.                                 *)
LEMMA SettleStep ==
    ASSUME IInv, NEW s \in Sessions, Settle(s)
    PROVE  IInv' /\ Refines
  <1> DEFINE p == home[s]
             r == slot[p]
             handsOver == /\ Superseded(s)
                          /\ r \notin {None, s}
                          /\ sess[s].fence[1] = sess[r].fence[1]
                          /\ sess[s].fence[2] > sess[r].fence[2]
                          /\ sess[s].acct = sess[r].acct
  <1>1. /\ p \in Procs /\ sess \in [Sessions -> SessionRecords] /\ sess[s] \in SessionRecords
        /\ r \in Sessions \cup {None} /\ home[s] = p
        /\ r # None => home[r] = p /\ sess[r].life # "none"
    BY SessionFacts DEF IInv, SlotHome
  <1>2. PICK x : x = [Leaving(s, "closing") EXCEPT !.release = ~Superseded(s)]
    OBVIOUS
  <1>3. /\ x \in SessionRecords /\ x.fence = sess[s].fence /\ x.life = "closing" /\ x.pc = "idle"
    <2>1. Leaving(s, "closing") \in SessionRecords /\ (~Superseded(s)) \in BOOLEAN
      BY LeavingFacts DEF Superseded
    <2>2. x \in SessionRecords
      BY <1>2, <2>1 DEF SessionRecords
    <2>3. x.fence = Leaving(s, "closing").fence /\ x.life = Leaving(s, "closing").life
          /\ x.pc = Leaving(s, "closing").pc
      BY <1>2, <2>1 DEF SessionRecords
    <2> QED
      BY <2>2, <2>3, LeavingFacts
  <1>4. /\ sess' = [t \in Sessions |->
                      CASE t = s -> [Leaving(s, "closing") EXCEPT !.release = ~Superseded(s)]
                        [] t = r /\ handsOver -> [sess[t] EXCEPT !.fence = sess[s].fence]
                        [] OTHER -> sess[t]]
        /\ inflight' = [inflight EXCEPT ![p] = IF @ = s THEN None ELSE @]
        /\ UNCHANGED <<row, processes, history, slot, upsets>>
    BY DEF Settle
  <1>5. PICK h, q : h \in BOOLEAN /\ h = handsOver /\ q = r
    OBVIOUS
  <1>6. h => q \in Sessions /\ q # s /\ home[q] = home[s] /\ sess[q].life # "none"
    BY <1>1, <1>5
  <1>7. \A t \in Sessions :
          sess'[t] = IF t = s THEN x
                     ELSE IF h /\ t = q THEN [sess[t] EXCEPT !.fence = sess[s].fence] ELSE sess[t]
    <2> SUFFICES ASSUME NEW t \in Sessions
                 PROVE  sess'[t] = IF t = s THEN x
                        ELSE IF h /\ t = q THEN [sess[t] EXCEPT !.fence = sess[s].fence] ELSE sess[t]
      OBVIOUS
    <2> HIDE DEF r, handsOver
    <2>0. handsOver => r # s
      BY <1>5, <1>6
    <2>1. CASE t = s
      BY <1>2, <1>4, <2>1, <2>0
    <2>2. CASE t # s /\ handsOver /\ t = r
      BY <1>4, <1>5, <2>2
    <2>3. CASE t # s /\ ~(handsOver /\ t = r)
      BY <1>4, <1>5, <2>3
    <2> QED
      BY <2>1, <2>2, <2>3
  <1> HIDE DEF r, handsOver, p
  <1>8. ASSUME NEW t \in Sessions
        PROVE  /\ sess'[t] \in SessionRecords
               /\ sess'[t].fence = IF h /\ t = q THEN sess[s].fence ELSE sess[t].fence
               /\ sess'[t].life = "none" => sess'[t] = sess[t]
               /\ sess'[t].pc = "read" => sess[t].pc = "read" /\ sess'[t].snap = sess[t].snap
    <2>1. sess[t] \in SessionRecords /\ sess[s].fence \in Fences
      BY <1>1 DEF SessionRecords
    <2>2. CASE t = s
      BY <1>3, <1>6, <1>7, <2>2
    <2>3. CASE t # s /\ h /\ t = q
      <3>1. PICK y : y = [sess[t] EXCEPT !.fence = sess[s].fence]
        OBVIOUS
      <3>2. /\ y \in SessionRecords /\ y.fence = sess[s].fence /\ y.life = sess[t].life
            /\ y.pc = sess[t].pc /\ y.snap = sess[t].snap
        BY <2>1, <3>1 DEF SessionRecords
      <3> QED
        BY <1>6, <1>7, <2>3, <3>1, <3>2
    <2>4. CASE t # s /\ ~(h /\ t = q)
      BY <1>7, <2>1, <2>4
    <2> QED
      BY <2>2, <2>3, <2>4
  <1>9. SessionsShift
    <2>1. sess' = [t \in Sessions |-> sess'[t]]
      BY <1>4
    <2> QED
      BY <1>8, <2>1 DEF SessionsShift
  <1>10. IInv'
    <2>1. inflight' \in [Procs -> Sessions \cup {None}]
      BY <1>1, <1>4, SessionFacts
    <2>2. PeripheryOK'
      BY <1>4, <2>1, InflightMoves DEF processes, history
    <2> QED
      BY <1>4, <1>9, <2>2, QuietShift, SlotsStay DEF processes, history
  <1>11. Refines
    <2>1. CASE h
      <3>1. PICK hs, hs1 : /\ hs = [t \in Sessions |-> sess[t].fence]
                           /\ hs1 = [t \in Sessions |-> sess'[t].fence]
        OBVIOUS
      <3>2. hs1 = [hs EXCEPT ![q] = hs[s]]
        BY <1>6, <1>8, <2>1, <3>1
      <3>3. UNCHANGED <<row, home, granted, withdrawn, merges>> /\ NoRow' = NoRow
        BY <1>4 DEF processes, deployment, history, NoRow
      <3>4. F!Adopt(q)
        BY <1>6, <2>1, <3>1, <3>2, <3>3 DEF F!Adopt
      <3> QED
        BY <1>6, <2>1, <3>4 DEF Refines, F!Next
    <2>2. CASE ~h
      <3>1. SessionsMove
        BY <1>8, <1>9, <2>2 DEF SessionsMove
      <3> QED
        BY <1>4, <3>1, QuietRefines DEF processes, history
    <2> QED
      BY <2>1, <2>2
  <1> QED
    BY <1>10, <1>11

(* A session leaves the registry or ends its retirement. *)
LEMMA DetachStep ==
    ASSUME IInv, NEW s \in Sessions, Detach(s) \/ RetireDone(s)
    PROVE  IInv' /\ Refines
  <1>1. SessionsMove
    <2>1. PICK l \in {"retiring", "closing"} : sess' = [sess EXCEPT ![s] = Leaving(s, l)]
      BY DEF Detach, RetireDone
    <2> QED
      BY <2>1, LeavingFacts, OneMoves
  <1>2. UNCHANGED <<row, processes, history, inflight>> /\ (Upset \/ UNCHANGED upsets)
    BY DEF Detach, RetireDone, registry
  <1>3. SlotsMove
    <2>1. CASE Detach(s)
      BY <2>1, SessionFacts DEF Detach, SlotsMove
    <2>2. CASE RetireDone(s)
      BY <2>2, SlotsStay DEF RetireDone, registry
    <2> QED
      BY <2>1, <2>2
  <1>4. PeripheryOK'
    BY <1>2, PeripheryKept DEF processes, history
  <1> QED
    BY <1>1, <1>2, <1>3, <1>4, QuietStep, QuietRefines DEF processes, history

(* A fence that matches is the newest, of a claim that stands. *)
LEMMA MatchFacts ==
    ASSUME IInv, NEW s \in Sessions, FenceMatches(s)
    PROVE  row \in Rows /\ row # NoRow /\ sess[s].fence = granted /\ row.owner # None
  BY SessionFacts, InstNotNone DEF FenceMatches, IInv, RowNewest

(* A session object that is gone holds nothing. *)
LEMMA GoneFacts ==
    Gone \in SessionRecords /\ Gone.fence = NoFence /\ Gone.life = "gone" /\ Gone.pc = "idle"
  <1>1. Blank \in SessionRecords
    BY OwnershipAssumption DEF Blank, SessionRecords, Lives, Stages, NoFence, Fences
  <1>2. Gone \in SessionRecords
    BY <1>1 DEF Gone, SessionRecords, Lives
  <1>3. Gone.life = "gone"
    BY DEF Gone, Blank
  <1>4. Gone.fence = Blank.fence /\ Gone.pc = Blank.pc
    BY <1>1 DEF Gone, SessionRecords
  <1>5. Blank.fence = NoFence /\ Blank.pc = "idle"
    BY DEF Blank
  <1> QED
    BY <1>2, <1>3, <1>4, <1>5

(* A session closes. *)
LEMMA CloseStep ==
    ASSUME IInv, NEW s \in Sessions, Close(s)
    PROVE  IInv' /\ Refines
  <1>1. sess' = [sess EXCEPT ![s] = Gone] /\ UNCHANGED <<registry, processes, history>>
        /\ (Upset \/ UNCHANGED upsets)
    BY DEF Close
  <1>2. sess \in [Sessions -> SessionRecords] /\ Gone \in SessionRecords
        /\ Gone.fence = NoFence /\ Gone.life = "gone" /\ Gone.pc = "idle"
    BY SessionFacts, GoneFacts
  <1>3. \A t \in Sessions : sess'[t] = IF t = s THEN Gone ELSE sess[t]
    BY <1>1, <1>2
  <1>4. SessionsShift
    BY <1>1, <1>2, <1>3 DEF SessionsShift
  <1>5. SlotsMove /\ PeripheryOK'
    BY <1>1, SlotsStay, PeripheryKept DEF registry, processes, history
  <1>6. PICK hs, hs1 : /\ hs = [t \in Sessions |-> sess[t].fence]
                       /\ hs1 = [t \in Sessions |-> sess'[t].fence]
    OBVIOUS
  <1>7. hs1 = [hs EXCEPT ![s] = NoFence] /\ hs1 = [t \in Sessions |-> IF t \in {s} THEN NoFence ELSE hs[t]]
    BY <1>2, <1>3, <1>6
  <1>8. UNCHANGED <<home, granted, withdrawn, merges>> /\ NoRow' = NoRow /\ F!NoFence = NoFence
    BY <1>1 DEF processes, deployment, history, NoRow, F!NoFence, NoFence
  <1>9. CASE UNCHANGED row
    <2>1. IInv'
      BY <1>1, <1>4, <1>5, <1>9, QuietShift DEF processes, history
    <2>2. F!Drop
      <3>1. {s} \in SUBSET Sessions
        OBVIOUS
      <3> QED
        BY <1>6, <1>7, <1>8, <1>9, <3>1 DEF F!Drop
    <2> QED
      BY <2>1, <2>2 DEF Refines, F!Next
  <1>10. CASE FenceMatches(s) /\ Unlocked /\ row' = ReleasedRow(s)
    <2>1. row \in Rows /\ row # NoRow /\ sess[s].fence = granted /\ row.owner # None
      BY <1>10, MatchFacts
    <2>2. PICK c : c = ReleasedRow(s)
      OBVIOUS
    <2>3. /\ c \in Rows /\ c.id = row.id /\ c.epoch = row.epoch /\ c.owner = None /\ c.proc = row.proc
          /\ c.account = row.account /\ c.anchor = row.anchor
      <3>1. 0 \in 0..TTL
        BY OwnershipAssumption
      <3> QED
        BY <2>1, <2>2, <3>1 DEF ReleasedRow, Rows, RowStates
    <2>4. c # NoRow /\ Fence(c) = Fence(row)
      BY <2>1, <2>3, RowFacts
    <2>5. IInv'
      BY <1>1, <1>4, <1>5, <1>10, <2>1, <2>2, <2>3, <2>4, WriteShift DEF processes, history
    <2>6. F!Release(s)
      BY <1>6, <1>7, <1>8, <1>10, <2>1, <2>2, <2>3, <2>4 DEF F!Release
    <2> QED
      BY <2>5, <2>6 DEF Refines, F!Next
  <1> QED
    BY <1>9, <1>10 DEF Close

(* A write that leaves id, epoch, process, claim and binding of an         *)
(* unlocked row alone is a stuttering step.                                *)
LEMMA TouchStep ==
    ASSUME IInv, UNCHANGED <<granted, deployment, withdrawn, merges>>, SessionsMove, SlotsMove, PeripheryOK',
           Unlocked, row \in Rows, row' \in Rows, row'.id = row.id, row'.epoch = row.epoch,
           row'.proc = row.proc, row'.owner = row.owner, row'.account = row.account,
           row'.anchor = row.anchor
    PROVE  IInv' /\ Refines
  <1>1. row # NoRow /\ row' # NoRow /\ Fence(row') = Fence(row)
    BY RowFacts
  <1>2. IInv'
    BY <1>1, WriteStep
  <1>3. UNCHANGED F!vars
    BY <1>1, Stutters DEF SessionsMove, deployment
  <1> QED
    BY <1>2, <1>3 DEF Refines

(* A renewal extends the lease, adopts the newest epoch or evicts. *)
LEMMA RenewStep ==
    ASSUME IInv, NEW s \in Sessions, Renew(s)
    PROVE  IInv' /\ Refines
  <1>1. /\ UNCHANGED <<processes, history, inflight, upsets>> /\ Unlocked /\ row \in Rows /\ row # NoRow
        /\ sess[s].life = "open"
    BY SessionFacts DEF Renew
  <1>2. PeripheryOK'
    BY <1>1, PeripheryKept DEF processes, history
  <1>3. CASE row' = [row EXCEPT !.lease = TTL] /\ UNCHANGED <<sess, slot>>
    <2>1. TTL \in 0..TTL
      BY OwnershipAssumption
    <2>2. row' \in Rows
      BY <1>1, <1>3, <2>1 DEF Rows
    <2>3. /\ row'.id = row.id /\ row'.epoch = row.epoch /\ row'.proc = row.proc
          /\ row'.owner = row.owner /\ row'.account = row.account /\ row'.anchor = row.anchor
      BY <1>1, <1>3 DEF Rows
    <2> QED
      BY <1>1, <1>2, <1>3, <2>2, <2>3, TouchStep, NoneMoves, SlotsStay DEF processes, history
  <1>4. CASE Adopts(s) /\ sess' = [sess EXCEPT ![s].fence = Fence(row)] /\ UNCHANGED <<row, slot>>
    <2>1. sess \in [Sessions -> SessionRecords] /\ sess[s] \in SessionRecords /\ Fence(row) \in Fences
      BY <1>1, SessionFacts, RowFacts
    <2>2. PICK y : y = [sess[s] EXCEPT !.fence = Fence(row)]
      OBVIOUS
    <2>3. /\ y \in SessionRecords /\ y.fence = Fence(row) /\ y.life = sess[s].life
          /\ y.pc = sess[s].pc /\ y.snap = sess[s].snap
      BY <2>1, <2>2 DEF SessionRecords
    <2>4. sess' = [sess EXCEPT ![s] = y]
      BY <1>4, <2>2
    <2>5. \A t \in Sessions : sess'[t] = IF t = s THEN y ELSE sess[t]
      BY <2>1, <2>4
    <2>6. SessionsShift
      BY <1>1, <2>1, <2>3, <2>4, <2>5 DEF SessionsShift
    <2>7. IInv'
      BY <1>1, <1>2, <1>4, <2>6, QuietShift, SlotsStay DEF processes, history
    <2>8. PICK hs, hs1 : /\ hs = [t \in Sessions |-> sess[t].fence]
                         /\ hs1 = [t \in Sessions |-> sess'[t].fence]
      OBVIOUS
    <2>9. hs1 = [hs EXCEPT ![s] = granted]
      <3>1. Fence(row) = granted
        BY <1>1 DEF IInv, RowNewest
      <3> QED
        BY <2>3, <2>5, <2>8, <3>1
    <2>10. UNCHANGED <<row, home, granted, withdrawn, merges>> /\ NoRow' = NoRow /\ row.proc = home[s]
      BY <1>1, <1>4 DEF processes, deployment, history, NoRow, Adopts
    <2>11. F!Adopt(s)
      BY <1>1, <2>8, <2>9, <2>10 DEF F!Adopt
    <2> QED
      BY <2>7, <2>11 DEF Refines, F!Next
  <1>5. CASE /\ slot' = [slot EXCEPT ![home[s]] = IF @ = s THEN None ELSE @]
             /\ sess' = [sess EXCEPT ![s] = Leaving(s, "closing")]
             /\ UNCHANGED row
    <2>1. SessionsMove
      BY <1>5, LeavingFacts, OneMoves
    <2>2. SlotsMove
      BY <1>5, SessionFacts DEF SlotsMove
    <2> QED
      BY <1>1, <1>2, <1>5, <2>1, <2>2, QuietStep, QuietRefines DEF processes, history
  <1> QED
    BY <1>3, <1>4, <1>5 DEF Renew

(* A fenced write of account and anchor. *)
LEMMA FencedWriteStep ==
    ASSUME IInv, NEW s \in Sessions, WriteAnchor(s) \/ Rebind(s)
    PROVE  IInv' /\ Refines
  <1>1. /\ FenceMatches(s) /\ Unlocked /\ UNCHANGED <<slot, processes, history>>
        /\ CompleteHandoff(s) \/ UNCHANGED inflight
    BY DEF WriteAnchor, Rebind, registry
  <1>2. row \in Rows /\ row # NoRow /\ sess[s].fence = granted /\ row.owner # None
    BY <1>1, MatchFacts
  <1>3. /\ sess[s] \in SessionRecords /\ sess[s].acct \in Accounts \cup {None} /\ TTL \in 0..TTL
        /\ sess[s].want \in Accounts \cup {None}
    BY SessionFacts, OwnershipAssumption DEF SessionRecords
  <1>4. row' \in Rows /\ row'.id = row.id /\ row'.epoch = row.epoch /\ row'.proc = row.proc
        /\ row'.owner = row.owner
    <2>1. CASE row' = [row EXCEPT !.anchor = sess[s].acct, !.lease = TTL]
      BY <1>2, <1>3, <2>1 DEF Rows
    <2>2. CASE row' = [row EXCEPT !.anchor = None]
      BY <1>2, <2>2 DEF Rows
    <2>3. CASE row' = [row EXCEPT !.account = sess[s].want, !.anchor = None]
      BY <1>2, <1>3, <2>3 DEF Rows
    <2> QED
      BY <2>1, <2>2, <2>3 DEF WriteAnchor, Rebind
  <1>5. row' # NoRow /\ Fence(row') = Fence(row)
    BY <1>2, <1>4, RowFacts
  <1>6. SessionsMove
    <2>1. CASE WriteAnchor(s)
      BY <2>1, NoneMoves DEF WriteAnchor
    <2>2. CASE Rebind(s) /\ sess' = [sess EXCEPT ![s] = Lost(s)]
      BY <2>2, OneMoves, LostFacts
    <2>3. CASE Rebind(s) /\ sess' # [sess EXCEPT ![s] = Lost(s)]
      <3>1. sess' = [sess EXCEPT ![s].pc = "idle", ![s].acct = sess[s].want, ![s].allow = "no", ![s].hand = None]
        BY <2>3 DEF Rebind
      <3>2. PICK y : y = [sess[s] EXCEPT !.pc = "idle", !.acct = sess[s].want, !.allow = "no", !.hand = None]
        OBVIOUS
      <3>3. y \in SessionRecords /\ y.fence = sess[s].fence /\ y.life = sess[s].life /\ y.pc = "idle"
        BY <1>3, <3>2 DEF SessionRecords, Stages
      <3>4. sess' = [sess EXCEPT ![s] = y] /\ sess[s].life # "none"
        BY <2>3, <3>1, <3>2 DEF Rebind, IInv, UnbornHoldsNone
      <3> QED
        BY <3>3, <3>4, OneMoves
    <2> QED
      BY <2>1, <2>2, <2>3
  <1>7. PeripheryOK'
    <2>1. Upset \/ UNCHANGED upsets
      BY DEF WriteAnchor, Rebind
    <2>2. inflight' \in [Procs -> Sessions \cup {None}]
      BY <1>1, HandoffType, SessionFacts
    <2> QED
      BY <1>1, <2>1, <2>2, InflightMoves DEF processes, history
  <1>8. IInv'
    BY <1>1, <1>2, <1>4, <1>5, <1>6, <1>7, WriteStep, SlotsStay DEF processes, history
  <1>9. F!Write(s)
    <2>1. [t \in Sessions |-> sess'[t].fence] = [t \in Sessions |-> sess[t].fence]
      BY <1>6 DEF SessionsMove
    <2>2. home' = home /\ NoRow' = NoRow
      BY <1>1 DEF processes, deployment, NoRow
    <2> QED
      BY <1>1, <1>2, <1>4, <1>5, <2>1, <2>2 DEF F!Write, history
  <1> QED
    BY <1>8, <1>9 DEF Refines, F!Next

(* The close that shutdown started releases the row under a reconnect. *)
LEMMA CloseUnderStep ==
    ASSUME IInv, NEW s \in Sessions, CloseUnderReconnect(s)
    PROVE  IInv' /\ Refines
  <1>1. /\ FenceMatches(s) /\ Unlocked /\ UNCHANGED <<sess, registry, processes, history, upsets>>
        /\ row' = ReleasedRow(s)
    BY DEF CloseUnderReconnect
  <1>2. row \in Rows /\ row # NoRow /\ sess[s].fence = granted /\ row.owner # None
    BY <1>1, MatchFacts
  <1>3. /\ row' \in Rows /\ row'.id = row.id /\ row'.epoch = row.epoch /\ row'.proc = row.proc
        /\ row'.owner = None
    <2>1. PICK z \in RowStates : row' = [row EXCEPT !.owner = None, !.lease = 0, !.state = z]
      BY <1>1 DEF ReleasedRow, RowStates
    <2>2. 0 \in 0..TTL
      BY OwnershipAssumption
    <2> QED
      BY <1>2, <2>1, <2>2 DEF Rows
  <1>4. row' # NoRow /\ Fence(row') = Fence(row)
    BY <1>2, <1>3, RowFacts
  <1>5. IInv'
    BY <1>1, <1>2, <1>3, <1>4, WriteStep, NoneMoves, SlotsStay, PeripheryKept DEF registry, processes, history
  <1>6. F!Write(s)
    <2>1. home' = home /\ NoRow' = NoRow /\ ~(row' # NoRow /\ row'.owner # None)
      BY <1>1, <1>3 DEF processes, deployment, NoRow
    <2> QED
      BY <1>1, <1>2, <1>3, <1>4, <2>1 DEF F!Write, history
  <1> QED
    BY <1>5, <1>6 DEF Refines, F!Next

(* The heartbeat evicts a superseded session. *)
LEMMA ReconcileStep ==
    ASSUME IInv, NEW p \in Procs, Reconcile(p)
    PROVE  IInv' /\ Refines
  <1>1. PICK s \in Sessions : s = slot[p]
    BY SessionFacts DEF Reconcile
  <1>2. /\ slot' = [slot EXCEPT ![p] = None] /\ sess' = [sess EXCEPT ![s] = Leaving(s, "closing")]
        /\ UNCHANGED <<row, processes, history, inflight, upsets>>
    BY <1>1 DEF Reconcile
  <1>3. SessionsMove /\ SlotsMove
    <2>1. SessionsMove
      BY <1>2, LeavingFacts, OneMoves
    <2>2. SlotsMove
      BY <1>2, SessionFacts DEF SlotsMove
    <2> QED
      BY <2>1, <2>2
  <1>4. PeripheryOK'
    BY <1>2, PeripheryKept DEF processes, history
  <1> QED
    BY <1>2, <1>3, <1>4, QuietStep, QuietRefines DEF processes, history

-----------------------------------------------------------------------------
(* Processes and administrative hands. *)

(* Upsets stay within their bound. *)
LEMMA UpsetBound ==
    ASSUME IInv, Upset \/ UNCHANGED upsets
    PROVE  upsets' \in 0..MaxUpsets
  BY OwnershipAssumption DEF IInv, TypeOK, Upset

(* A process begins to drain and selects the row. *)
LEMMA MarkSelectStep ==
    ASSUME IInv, NEW p \in Procs, MarkSelect(p)
    PROVE  IInv' /\ Refines
  <1>1. UNCHANGED <<row, sess, slot, inflight, granted, withdrawn, moved, merges, deployment>> /\ Upset
    BY DEF MarkSelect, registry, history
  <1>2. mark' \in [Procs -> Nat]
    <2>1. row # NoRow => row.id \in Nat
      BY SessionFacts, RowFacts
    <2> QED
      BY <2>1 DEF MarkSelect, IInv, TypeOK
  <1>3. proc' \in [Procs -> {"off", "up", "draining", "closing", "down"}]
    BY DEF MarkSelect, IInv, TypeOK
  <1>4. PeripheryOK'
    BY <1>1, <1>2, <1>3, UpsetBound DEF IInv, TypeOK, PeripheryOK
  <1> QED
    BY <1>1, <1>4, QuietStep, QuietRefines, NoneMoves, SlotsStay

(* The selected row is written by its key. *)
LEMMA MarkWriteStep ==
    ASSUME IInv, NEW p \in Procs, MarkWrite(p)
    PROVE  IInv' /\ Refines
  <1>1. UNCHANGED <<sess, slot, inflight, granted, withdrawn, moved, merges, deployment, proc, upsets>>
        /\ Unlocked
    BY DEF MarkWrite, registry, history
  <1>2. mark' \in [Procs -> Nat]
    BY DEF MarkWrite, IInv, TypeOK
  <1>3. PeripheryOK'
    BY <1>1, <1>2, UpsetBound DEF IInv, TypeOK, PeripheryOK
  <1>4. CASE UNCHANGED row
    BY <1>1, <1>3, <1>4, QuietStep, QuietRefines, NoneMoves, SlotsStay
  <1>5. CASE row # NoRow /\ row' = [row EXCEPT !.state = "draining"]
    <2>1. row \in Rows
      BY <1>5, SessionFacts
    <2>2. row' \in Rows
      BY <1>5, <2>1 DEF Rows, RowStates
    <2>3. /\ row'.id = row.id /\ row'.epoch = row.epoch /\ row'.proc = row.proc
          /\ row'.owner = row.owner /\ row'.account = row.account /\ row'.anchor = row.anchor
      BY <1>5, <2>1 DEF Rows
    <2> QED
      BY <1>1, <1>3, <2>1, <2>2, <2>3, TouchStep, NoneMoves, SlotsStay
  <1> QED
    BY <1>4, <1>5 DEF MarkWrite

(* A draining process empties its registry. *)
LEMMA CloseAllStep ==
    ASSUME IInv, NEW p \in Procs, CloseAll(p)
    PROVE  IInv' /\ Refines
  <1>1. /\ UNCHANGED <<row, granted, withdrawn, merges, deployment, mark, upsets>>
        /\ moved' \in {"none", "attached", "detached"}
    BY DEF CloseAll, IInv, TypeOK
  <1>2. PICK H \in SUBSET Sessions :
          /\ sess' = [s \in Sessions |->
                       IF s \in H THEN [sess[s] EXCEPT !.life = "retiring"]
                       ELSE IF home[s] = p /\ sess[s].life \in {"open", "broken", "retiring"}
                       THEN Leaving(s, "closing") ELSE sess[s]]
          /\ \A s \in H : sess[s].life # "none"
    <2>1. PICK H \in SUBSET Sessions :
            H = {s \in Sessions : home[s] = p /\ sess[s].pc \in {"claim", "read", "swap"}
                                  /\ sess[s].life \in {"open", "retiring"}}
      OBVIOUS
    <2> QED
      BY <2>1 DEF CloseAll
  <1>3. SessionsMove
    <2>1. ASSUME NEW t \in Sessions
          PROVE  /\ sess'[t] \in SessionRecords /\ sess'[t].fence = sess[t].fence
                 /\ sess'[t].life = "none" => sess'[t] = sess[t]
                 /\ sess'[t].pc = "read" => sess[t].pc = "read" /\ sess'[t].snap = sess[t].snap
      <3>1. CASE t \in H
        <4>1. PICK y : y = [sess[t] EXCEPT !.life = "retiring"]
          OBVIOUS
        <4>2. sess[t] \in SessionRecords /\ sess'[t] = y
          BY <1>2, <3>1, <4>1, SessionFacts
        <4>3. /\ y \in SessionRecords /\ y.fence = sess[t].fence /\ y.life = "retiring"
              /\ y.pc = sess[t].pc /\ y.snap = sess[t].snap
          BY <4>1, <4>2 DEF SessionRecords, Lives
        <4> QED
          BY <4>2, <4>3
      <3>2. CASE t \notin H
        <4>1. sess'[t] \in {Leaving(t, "closing"), sess[t]}
          BY <1>2, <3>2
        <4> QED
          BY <4>1, LeavingFacts, SessionFacts
      <3> QED
        BY <3>1, <3>2
    <2>2. sess' = [t \in Sessions |-> sess'[t]]
      BY <1>2
    <2> QED
      BY <2>1, <2>2 DEF SessionsMove, SessionsShift
  <1>4. SlotsMove /\ inflight' \in [Procs -> Sessions \cup {None}]
    BY SessionFacts DEF CloseAll, SlotsMove
  <1>5. proc' \in [Procs -> {"off", "up", "draining", "closing", "down"}]
    BY DEF CloseAll, IInv, TypeOK
  <1>6. PeripheryOK'
    BY <1>1, <1>4, <1>5, UpsetBound DEF IInv, TypeOK, PeripheryOK
  <1> QED
    BY <1>1, <1>3, <1>4, <1>6, QuietStep, QuietRefines

(* A process ends and its sessions with it. *)
LEMMA ExitStep ==
    ASSUME IInv, NEW p \in Procs, Exit(p)
    PROVE  IInv' /\ Refines
  <1>1. UNCHANGED <<row, granted, withdrawn, moved, merges, deployment>> /\ (Upset \/ UNCHANGED upsets)
    BY DEF Exit, history
  <1>2. sess' = [s \in Sessions |-> IF home[s] = p THEN Gone ELSE sess[s]]
    BY DEF Exit
  <1>3. SessionsShift
    <2>1. ASSUME NEW t \in Sessions
          PROVE  /\ sess'[t] \in SessionRecords
                 /\ sess'[t].life = "none" => sess'[t] = sess[t]
                 /\ sess'[t].pc = "read" => sess[t].pc = "read" /\ sess'[t].snap = sess[t].snap
      <3>1. sess'[t] \in {Gone, sess[t]}
        BY <1>2
      <3> QED
        BY <3>1, GoneFacts, SessionFacts
    <2>2. sess' = [t \in Sessions |-> sess'[t]]
      BY <1>2
    <2> QED
      BY <2>1, <2>2 DEF SessionsShift
  <1>4. SlotsMove /\ inflight' \in [Procs -> Sessions \cup {None}]
    BY SessionFacts DEF Exit, SlotsMove
  <1>5. /\ proc' \in [Procs -> {"off", "up", "draining", "closing", "down"}]
        /\ mark' \in [Procs -> Nat]
    BY DEF Exit, IInv, TypeOK
  <1>6. PeripheryOK'
    BY <1>1, <1>4, <1>5, UpsetBound DEF IInv, TypeOK, PeripheryOK
  <1>7. F!Drop
    <2>1. PICK hs, hs1 : /\ hs = [t \in Sessions |-> sess[t].fence]
                         /\ hs1 = [t \in Sessions |-> sess'[t].fence]
      OBVIOUS
    <2>2. PICK H \in SUBSET Sessions : H = {t \in Sessions : home[t] = p}
      OBVIOUS
    <2>3. hs1 = [t \in Sessions |-> IF t \in H THEN NoFence ELSE hs[t]]
      BY <1>2, <2>1, <2>2, GoneFacts
    <2>4. UNCHANGED <<row, home, granted, withdrawn, merges>> /\ NoRow' = NoRow /\ F!NoFence = NoFence
      BY <1>1 DEF deployment, NoRow, F!NoFence, NoFence
    <2> QED
      BY <2>1, <2>3, <2>4 DEF F!Drop
  <1> QED
    BY <1>1, <1>3, <1>4, <1>6, <1>7, QuietShift DEF Refines, F!Next

(* An unlocked row loses its claim by an administrative hand. *)
LEMMA WithdrawStep ==
    ASSUME IInv, UNCHANGED <<granted, deployment, sess, slot, merges>>, PeripheryOK', Unlocked,
           row # NoRow, withdrawn' = TRUE,
           \/ row' = NoRow
           \/ /\ row' \in Rows /\ row'.id = row.id /\ row'.epoch = row.epoch /\ row'.owner = None
    PROVE  IInv' /\ Refines
  <1>1. row \in Rows
    BY SessionFacts
  <1>2. row' \in Rows \cup {NoRow} /\ (row' # NoRow => Fence(row') = Fence(row))
    BY <1>1, RowFacts
  <1>3. IInv'
    BY <1>2, WriteStep, NoneMoves, SlotsStay
  <1>4. F!Withdraw
    <2>1. NoRow' = NoRow /\ home' = home /\ ~(row' # NoRow /\ row'.owner # None)
      BY DEF NoRow, deployment
    <2> QED
      BY <2>1 DEF F!Withdraw
  <1> QED
    BY <1>3, <1>4 DEF Refines, F!Next

(* The next incarnation of an instance starts. *)
LEMMA StartStep ==
    ASSUME IInv, NEW p \in Procs, Start(p)
    PROVE  IInv' /\ Refines
  <1>1. UNCHANGED <<sess, slot, inflight, deployment, mark, granted, moved, merges, upsets>>
    BY DEF Start, registry
  <1>2. PICK l \in BOOLEAN : l <=> row # NoRow /\ row.owner = Inst(p) /\ row.proc # p
    OBVIOUS
  <1>3. /\ proc' \in [Procs -> {"off", "up", "draining", "closing", "down"}]
        /\ withdrawn' \in BOOLEAN
    <2>1. withdrawn' \in BOOLEAN
      BY Zenon DEF Start
    <2> QED
      BY <2>1 DEF Start, IInv, TypeOK
  <1>4. PeripheryOK'
    BY <1>1, <1>3, UpsetBound DEF IInv, TypeOK, PeripheryOK
  <1>5. CASE l
    <2>a. withdrawn' = TRUE
      <3>1. withdrawn'
        BY <1>2, <1>5 DEF Start
      <3> QED
        BY <1>3, <3>1, Zenon
    <2>b. row # NoRow /\ row \in Rows /\ Unlocked
      BY <1>2, <1>5, SessionFacts DEF Start
    <2>1. row # NoRow /\ row \in Rows /\ Unlocked /\ withdrawn' = TRUE /\ 0 \in 0..TTL
      BY <2>a, <2>b, OwnershipAssumption
    <2>2. \/ row' = [row EXCEPT !.owner = None, !.lease = 0, !.state = "closed", !.anchor = None]
          \/ row' = [row EXCEPT !.owner = None, !.lease = 0, !.state = "draining"]
      BY <1>2, <1>5 DEF Start
    <2>3. row' \in Rows /\ row'.id = row.id /\ row'.epoch = row.epoch /\ row'.owner = None
      <3>1. CASE row' = [row EXCEPT !.owner = None, !.lease = 0, !.state = "closed", !.anchor = None]
        BY <2>1, <3>1 DEF Rows, RowStates
      <3>2. CASE row' = [row EXCEPT !.owner = None, !.lease = 0, !.state = "draining"]
        BY <2>1, <3>2 DEF Rows, RowStates
      <3> QED
        BY <2>2, <3>1, <3>2
    <2> QED
      BY <1>1, <1>4, <2>1, <2>3, WithdrawStep
  <1>6. CASE ~l
    <2>1. UNCHANGED row
      BY <1>2, <1>6 DEF Start
    <2>2. UNCHANGED withdrawn
      <3>1. withdrawn \in BOOLEAN /\ withdrawn' \in BOOLEAN
        BY <1>3 DEF IInv, TypeOK
      <3>2. withdrawn' <=> withdrawn
        BY <1>2, <1>6 DEF Start
      <3> QED
        BY <3>1, <3>2, Zenon
    <2> QED
      BY <1>1, <1>4, <2>1, <2>2, QuietStep, QuietRefines, NoneMoves, SlotsStay
  <1> QED
    BY <1>5, <1>6

(* An account is removed, or retention deletes the row. *)
LEMMA AdminStep ==
    ASSUME IInv, CloseForAccount \/ Purge
    PROVE  IInv' /\ Refines
  <1>1. /\ UNCHANGED <<sess, slot, inflight, deployment, proc, mark, granted, moved, merges>> /\ Upset
        /\ withdrawn' = TRUE /\ row # NoRow /\ Unlocked
    BY DEF CloseForAccount, Purge, registry, processes
  <1>2. PeripheryOK'
    BY <1>1, UpsetBound DEF IInv, TypeOK, PeripheryOK
  <1>3. CASE Purge
    BY <1>1, <1>2, <1>3, WithdrawStep DEF Purge
  <1>4. CASE CloseForAccount
    <2>1. row \in Rows /\ 0 \in 0..TTL
      BY <1>1, SessionFacts, OwnershipAssumption
    <2>2. row' \in Rows /\ row'.id = row.id /\ row'.epoch = row.epoch /\ row'.owner = None
      BY <1>4, <2>1 DEF CloseForAccount, Rows, RowStates
    <2> QED
      BY <1>1, <1>2, <2>2, WithdrawStep
  <1> QED
    BY <1>3, <1>4

(* The continuity of the row is retired. *)
LEMMA RetireContinuityStep ==
    ASSUME IInv, RetireContinuity
    PROVE  IInv' /\ Refines
  <1>1. /\ UNCHANGED <<sess, slot, inflight, deployment, proc, mark, granted, withdrawn, moved, merges>> /\ Upset
        /\ row # NoRow /\ Unlocked /\ row' = [row EXCEPT !.retired = TRUE]
    BY DEF RetireContinuity, registry, processes, history
  <1>2. PeripheryOK'
    BY <1>1, PeripheryKept
  <1>3. row \in Rows
    BY <1>1, SessionFacts
  <1>4. row' \in Rows
    BY <1>1, <1>3 DEF Rows
  <1>5. /\ row'.id = row.id /\ row'.epoch = row.epoch /\ row'.proc = row.proc
        /\ row'.owner = row.owner /\ row'.account = row.account /\ row'.anchor = row.anchor
    BY <1>1, <1>3 DEF Rows
  <1> QED
    BY <1>1, <1>2, <1>3, <1>4, <1>5, TouchStep, NoneMoves, SlotsStay

(* The account of the row is merged into another. *)
LEMMA MergeStep ==
    ASSUME IInv, MergeAccounts
    PROVE  IInv' /\ Refines
  <1>1. /\ UNCHANGED <<sess, registry, processes, granted, withdrawn>> /\ Upset /\ Unlocked
        /\ row \in Rows /\ row # NoRow /\ moved' = "detached" /\ merges' = merges + 1
    BY SessionFacts DEF MergeAccounts
  <1>2. PICK a \in Accounts : row' = [row EXCEPT !.account = a]
    BY DEF MergeAccounts
  <1>3. /\ row' \in Rows /\ row'.id = row.id /\ row'.epoch = row.epoch /\ row'.proc = row.proc
        /\ row'.owner = row.owner
    BY <1>1, <1>2 DEF Rows
  <1>4. row' # NoRow /\ Fence(row') = Fence(row)
    BY <1>1, <1>3, RowFacts
  <1>5. PeripheryOK'
    BY <1>1, UpsetBound DEF IInv, TypeOK, PeripheryOK, registry, processes
  <1>6. IInv'
    BY <1>1, <1>3, <1>4, <1>5, WriteStep, NoneMoves, SlotsStay DEF registry, processes
  <1>7. F!Merge
    <2>1. home' = home /\ NoRow' = NoRow
      BY <1>1 DEF processes, deployment, NoRow
    <2> QED
      BY <1>1, <1>3, <1>4, <2>1 DEF F!Merge
  <1> QED
    BY <1>6, <1>7 DEF Refines, F!Next

(* Time passes, under whatever lock. *)
LEMMA TickStep ==
    ASSUME IInv, Tick
    PROVE  IInv' /\ Refines
  <1>1. UNCHANGED <<slot, inflight, deployment, proc, mark, granted, withdrawn, moved, merges, upsets>>
    BY DEF Tick, registry, processes, history
  <1>2. /\ SessionsMove
        /\ \A t \in Sessions : sess'[t].pc = sess[t].pc /\ sess'[t].snap = sess[t].snap
    <2>1. \A t \in Sessions :
            \/ sess'[t] = sess[t]
            \/ sess[t].pc = "connect" /\ sess[t].seen > 0 /\ sess'[t] = [sess[t] EXCEPT !.seen = @ - 1]
      BY DEF Tick
    <2>2. ASSUME NEW t \in Sessions
          PROVE  /\ sess'[t] \in SessionRecords /\ sess'[t].fence = sess[t].fence
                 /\ sess'[t].life = "none" => sess'[t] = sess[t]
                 /\ sess'[t].pc = sess[t].pc /\ sess'[t].snap = sess[t].snap
      <3>1. sess[t] \in SessionRecords
        BY SessionFacts
      <3>2. CASE sess'[t] # sess[t]
        <4>1. PICK n : n = sess[t].seen - 1
          OBVIOUS
        <4>2. n \in 0..TTL
          <5>1. sess[t].seen \in 0..TTL /\ sess[t].seen > 0
            BY <2>1, <3>1, <3>2 DEF SessionRecords
          <5> QED
            BY <4>1, <5>1, OwnershipAssumption
        <4>3. PICK y : y = [sess[t] EXCEPT !.seen = n]
          OBVIOUS
        <4>4. /\ y \in SessionRecords /\ y.fence = sess[t].fence /\ y.life = sess[t].life
              /\ y.pc = sess[t].pc /\ y.snap = sess[t].snap
          BY <3>1, <4>2, <4>3 DEF SessionRecords
        <4>5. sess'[t] = y /\ sess[t].life # "none"
          BY <2>1, <3>2, <4>1, <4>3 DEF IInv, UnbornHoldsNone
        <4> QED
          BY <4>4, <4>5
      <3> QED
        BY <3>1, <3>2
    <2>3. sess' = [t \in Sessions |-> sess'[t]]
      BY DEF Tick
    <2> QED
      BY <2>2, <2>3 DEF SessionsMove, SessionsShift
  <1>3. PeripheryOK' /\ SlotsMove
    BY <1>1, PeripheryKept, SlotsStay
  <1>4. CASE UNCHANGED row
    BY <1>1, <1>2, <1>3, <1>4, QuietStep, QuietRefines
  <1>5. CASE row' # row
    <2>1. row \in Rows /\ row # NoRow /\ row.lease \in 0..TTL /\ row.lease > 0
          /\ row' = [row EXCEPT !.lease = row.lease - 1]
      BY <1>5, SessionFacts DEF Tick, Rows
    <2>2. row' \in Rows /\ row'.lease = row.lease - 1
      <3>1. row.lease - 1 \in 0..TTL
        BY <2>1, OwnershipAssumption
      <3> QED
        BY <2>1, <3>1 DEF Rows
    <2>3. /\ row'.id = row.id /\ row'.epoch = row.epoch /\ row'.proc = row.proc /\ row'.state = row.state
          /\ row'.owner = row.owner /\ row'.account = row.account /\ row'.anchor = row.anchor
          /\ row'.retired = row.retired
      BY <2>1 DEF Rows
    <2>4. row' # NoRow /\ Fence(row') = Fence(row)
      BY <2>1, <2>2, <2>3, RowFacts
    <2>5. LockHeld'
      <3>1. ASSUME NEW t \in Sessions, SameButLease(row, sess[t].snap), Locks(t)
            PROVE  SameButLease(row', sess[t].snap)
        <4>1. sess[t].snap \in Rows
          BY <3>1, SessionFacts DEF Locks, SessionRecords
        <4>2. sess[t].snap.lease \in 0..TTL
          BY <4>1 DEF Rows
        <4>3. row'.lease <= sess[t].snap.lease
          BY <2>1, <2>2, <3>1, <4>2, OwnershipAssumption DEF SameButLease
        <4> QED
          BY <2>3, <2>4, <3>1, <4>3 DEF SameButLease
      <3>2. \A t \in Sessions : Locks(t)' <=> Locks(t)
        BY <1>2 DEF Locks, NoRow
      <3>3. db' = "postgres" => \A t \in Sessions : Locks(t)' => SameButLease(row', sess[t].snap)
        BY <1>1, <3>1, <3>2 DEF IInv, LockHeld, deployment
      <3>4. \A t \in Sessions : SameButLease(row, sess[t].snap)' <=> SameButLease(row', sess[t].snap)
        BY <1>2 DEF SameButLease, NoRow
      <3> QED
        BY <1>1, <3>2, <3>3, <3>4 DEF IInv, LockHeld, deployment
    <2>6. SlotHome' /\ UnbornHoldsNone'
      BY <1>1, <1>2, <1>3, MovesKeep DEF SessionsMove
    <2>7. RowNewest' /\ granted' \in Fences
      BY <1>1, <2>1, <2>4 DEF IInv, RowNewest, TypeOK
    <2>8. IInv'
      BY <1>1, <1>2, <1>3, <2>2, <2>5, <2>6, <2>7, Assemble DEF SessionsMove, SessionsShift, SlotsMove
    <2>9. UNCHANGED F!vars
      BY <1>1, <1>2, <2>1, <2>3, <2>4, Stutters DEF deployment, SessionsMove
    <2> QED
      BY <2>8, <2>9 DEF Refines
  <1> QED
    BY <1>4, <1>5

-----------------------------------------------------------------------------
(* The theorems. *)

(* The initial states satisfy the invariant and are initial states of      *)
(* FencedSession.                                                          *)
LEMMA InitSafe ==
    ASSUME Init
    PROVE  IInv /\ F!Init
  <1>1. Blank \in SessionRecords /\ Blank.fence = NoFence /\ Blank.life = "none" /\ Blank.pc = "idle"
    <2>1. Blank \in SessionRecords
      BY OwnershipAssumption DEF Blank, SessionRecords, Lives, Stages, NoFence, Fences
    <2> QED
      BY <2>1 DEF Blank
  <1>2. sess \in [Sessions -> SessionRecords] /\ \A s \in Sessions : sess[s] = Blank
    BY <1>1 DEF Init
  <1>3. TypeOK
    <2>1. /\ db \in Databases /\ home \in Homes /\ row \in Rows \cup {NoRow}
          /\ slot \in [Procs -> Sessions \cup {None}] /\ inflight \in [Procs -> Sessions \cup {None}]
          /\ proc \in [Procs -> {"off", "up", "draining", "closing", "down"}]
          /\ withdrawn \in BOOLEAN /\ moved \in {"none", "attached", "detached"} /\ merges \in Nat
      BY DEF Init
    <2>2. mark \in [Procs -> Nat] /\ granted \in Fences /\ upsets \in 0..MaxUpsets
      BY OwnershipAssumption DEF Init, NoFence, Fences
    <2> QED
      BY <1>2, <2>1, <2>2 DEF TypeOK, SessionRecords, Lives, Stages
  <1>4. RowNewest /\ SlotHome /\ UnbornHoldsNone /\ LockHeld
    <2>1. RowNewest /\ SlotHome
      BY DEF Init, RowNewest, SlotHome
    <2>2. UnbornHoldsNone
      BY <1>1, <1>2 DEF UnbornHoldsNone
    <2>3. LockHeld
      BY <1>1, <1>2 DEF LockHeld, Locks
    <2> QED
      BY <2>1, <2>2, <2>3
  <1>5. F!Init
    <2>1. [s \in Sessions |-> sess[s].fence] = [s \in Sessions |-> NoFence]
      BY <1>1, <1>2
    <2>2. granted = NoFence /\ row = NoRow /\ withdrawn = FALSE /\ merges = 0 /\ F!NoFence = NoFence
      BY DEF Init, F!NoFence, NoFence
    <2> QED
      BY <2>1, <2>2 DEF F!Init
  <1> QED
    BY <1>3, <1>4, <1>5 DEF IInv

(* Every step keeps the invariant, and is a step of FencedSession or none. *)
LEMMA NextSafe ==
    ASSUME IInv, [Next]_vars
    PROVE  IInv' /\ Refines
  <1>1. ASSUME NEW s \in Sessions, BeginCreate(s)
        PROVE  IInv' /\ Refines
    <2>1. UNCHANGED <<row, granted, deployment, withdrawn, merges>>
      BY <1>1 DEF BeginCreate, processes, history
    <2> QED
      BY <1>1, <2>1, BeginCreateStep, QuietRefines
  <1>2. ASSUME NEW s \in Sessions, Connected(s) \/ ConnectFailed(s) \/ PublishRejected(s)
        PROVE  IInv' /\ Refines
    <2>1. UNCHANGED <<row, granted, deployment, withdrawn, merges>>
      BY <1>2 DEF Connected, ConnectFailed, PublishRejected, processes, history
    <2> QED
      BY <1>2, <2>1, ConnectStep, QuietRefines
  <1>3. ASSUME NEW s \in Sessions, Publish(s)
        PROVE  IInv' /\ Refines
    <2>1. UNCHANGED <<row, granted, deployment, withdrawn, merges>>
      BY <1>3 DEF Publish, processes, history
    <2> QED
      BY <1>3, <2>1, PublishStep, QuietRefines
  <1>4. ASSUME NEW s \in Sessions, BeginReconnect(s)
        PROVE  IInv' /\ Refines
    <2>1. UNCHANGED <<row, granted, deployment, withdrawn, merges>>
      BY <1>4 DEF BeginReconnect, processes
    <2> QED
      BY <1>4, <2>1, BeginReconnectStep, QuietRefines
  <1>5. ASSUME NEW s \in Sessions, ClaimRead(s)
        PROVE  IInv' /\ Refines
    <2>1. UNCHANGED F!vars
      BY <1>5, ClaimReadStep, Stutters DEF ClaimRead, processes, deployment, history
    <2> QED
      BY <1>5, <2>1, ClaimReadStep DEF Refines
  <1>6. ASSUME NEW s \in Sessions,
               ClaimRefused(s) \/ ClaimAgain(s) \/ ClaimRaceLost(s) \/ ClaimError(s) \/ RebindFailed(s)
        PROVE  IInv' /\ Refines
    <2>1. UNCHANGED <<row, granted, deployment, withdrawn, merges>>
      BY <1>6 DEF ClaimRefused, ClaimAgain, ClaimRaceLost, ClaimError, RebindFailed, processes, history
    <2> QED
      BY <1>6, <2>1, ClaimFailsStep, QuietRefines
  <1>7. ASSUME NEW s \in Sessions, ClaimCommit(s)
        PROVE  IInv' /\ Refines
    BY <1>7, ClaimCommitStep DEF Refines, F!Next
  <1>8. ASSUME NEW s \in Sessions,
               Settle(s) \/ Detach(s) \/ RetireDone(s) \/ Close(s) \/ Renew(s) \/ WriteAnchor(s) \/ Rebind(s)
               \/ CloseUnderReconnect(s)
        PROVE  IInv' /\ Refines
    BY <1>8, SettleStep, DetachStep, CloseStep, RenewStep, FencedWriteStep, CloseUnderStep
  <1>9. ASSUME NEW p \in Procs, EvictInflight(p)
        PROVE  IInv' /\ Refines
    BY <1>9, EvictInflightStep, QuietRefines DEF EvictInflight, processes, history
  <1>10. ASSUME NEW p \in Procs,
                Reconcile(p) \/ MarkSelect(p) \/ MarkWrite(p) \/ CloseAll(p) \/ Exit(p) \/ Start(p)
         PROVE  IInv' /\ Refines
    BY <1>10, ReconcileStep, MarkSelectStep, MarkWriteStep, CloseAllStep, ExitStep, StartStep
  <1>11. ASSUME CloseForAccount \/ Purge \/ RetireContinuity \/ MergeAccounts \/ Tick
         PROVE  IInv' /\ Refines
    BY <1>11, AdminStep, RetireContinuityStep, MergeStep, TickStep
  <1>12. ASSUME UNCHANGED vars
         PROVE  IInv' /\ Refines
    <2>1. UNCHANGED <<row, sess, slot, inflight, deployment, proc, mark, granted, withdrawn, moved, merges, upsets>>
      BY <1>12 DEF vars, registry, processes, history
    <2> QED
      BY <2>1, PeripheryKept, NoneMoves, SlotsStay, QuietStep, QuietRefines
  <1> QED
    BY <1>1, <1>2, <1>3, <1>4, <1>5, <1>6, <1>7, <1>8, <1>9, <1>10, <1>11, <1>12
       DEF Next, CreateStep, ClaimStep

(* The inductive invariant holds in every reachable state. *)
THEOREM SafetyInvariant == Spec => []IInv
  <1>1. Init => IInv
    BY InitSafe
  <1>2. IInv /\ [Next]_vars => IInv'
    BY NextSafe
  <1> QED
    BY <1>1, <1>2, PTL DEF Spec

(* The row, the session objects and both slots of the registry stay within *)
(* their types, and a claim within its tries.                              *)
THEOREM TypeCorrect == Spec => []TypeOK
  <1>1. IInv => TypeOK
    BY DEF IInv
  <1> QED
    BY <1>1, SafetyInvariant, PTL

(* The bridge implements FencedSession for any number of processes and     *)
(* sessions on both databases: a superseded session never changes the      *)
(* binding or ends the claim of its successor (claim_session,              *)
(* release_session, renew, rebind and the settling of failed creations).   *)
THEOREM ImplementsFencedSession == Spec => FencedOwnership
  <1>1. Init => F!Init
    BY InitSafe
  <1>2. IInv /\ [Next]_vars => [F!Next]_(F!vars)
    BY NextSafe DEF Refines
  <1> QED
    BY <1>1, <1>2, SafetyInvariant, PTL DEF Spec, FencedOwnership, F!Spec

(* Only the commit of a claim writes a new fence, and it ends the claim of *)
(* its own session alone.                                                  *)
LEMMA OnlyCommitGrants ==
    ASSUME IInv, [Next]_vars, NEW s \in Sessions, Takes(s)
    PROVE  ClaimCommit(s)
  <1>1. granted' # granted
    BY DEF Takes
  <1>2. ASSUME NEW u \in Sessions, ClaimCommit(u)
        PROVE  u = s
    <2>1. PICK x : sess' = [sess EXCEPT ![u] = x]
      BY <1>2 DEF ClaimCommit
    <2>2. sess \in [Sessions -> SessionRecords]
      BY SessionFacts
    <2> QED
      BY <2>1, <2>2 DEF Takes
  <1>3. ASSUME NEW u \in Sessions,
               \/ BeginCreate(u) \/ CreateStep(u) \/ BeginReconnect(u) \/ Detach(u) \/ RetireDone(u)
               \/ Close(u) \/ Renew(u) \/ WriteAnchor(u) \/ Rebind(u) \/ RebindFailed(u) \/ CloseUnderReconnect(u)
        PROVE  FALSE
    BY <1>1, <1>3, Zenon DEF BeginCreate, CreateStep, Connected, ConnectFailed, Publish, PublishRejected,
          Settle, BeginReconnect, Detach, RetireDone, Close, Renew, WriteAnchor, Rebind, RebindFailed,
          CloseUnderReconnect, history
  <1>4. ASSUME NEW u \in Sessions, ClaimStep(u), ~ClaimCommit(u)
        PROVE  FALSE
    BY <1>1, <1>4 DEF ClaimStep, ClaimRead, ClaimRefused, ClaimAgain, ClaimRaceLost, ClaimError, history
  <1>5. ASSUME NEW p \in Procs,
               \/ EvictInflight(p) \/ Reconcile(p) \/ MarkSelect(p) \/ MarkWrite(p) \/ CloseAll(p)
               \/ Exit(p) \/ Start(p)
        PROVE  FALSE
    BY <1>1, <1>5 DEF EvictInflight, Reconcile, MarkSelect, MarkWrite, CloseAll, Exit, Start, history
  <1>6. ASSUME CloseForAccount \/ Purge \/ RetireContinuity \/ MergeAccounts \/ Tick \/ UNCHANGED vars
        PROVE  FALSE
    BY <1>1, <1>6 DEF CloseForAccount, Purge, RetireContinuity, MergeAccounts, Tick, vars, history
  <1> QED
    BY <1>2, <1>3, <1>4, <1>5, <1>6 DEF Next

(* A live lease of another instance is taken only with a permission, by a  *)
(* claim that lost no race, from an owner that is not draining             *)
(* (claim_session), whatever the number of replicas and claims.            *)
THEOREM LeaseNotStolen == Spec => LiveLeaseNotStolen
  <1>1. ASSUME IInv, [Next]_vars, NEW s \in Sessions, Takes(s), ForeignLive(s)
        PROVE  row.state = "active" /\ sess[s].allow # "no" /\ sess[s].tries = 0
    <2>1. ClaimCommit(s)
      BY <1>1, OnlyCommitGrants
    <2>2. /\ row # NoRow /\ row.state # "closed" /\ row.owner # None /\ row.lease > 0
          /\ row.owner # Inst(home[s])
      BY <1>1 DEF ForeignLive, ActiveOwner
    <2>3. sess[s] \in SessionRecords /\ row \in Rows /\ home[s] \in Procs
      BY <1>1, <2>2, SessionFacts
    <2>4. db = "postgres"
      <3>1. row.owner \in {Inst(p) : p \in Procs}
        BY <2>2, <2>3 DEF Rows
      <3>2. db # "sqlite"
        BY <2>2, <2>3, <3>1 DEF Inst
      <3> QED
        BY <1>1, <3>2, OwnershipAssumption DEF IInv, TypeOK
    <2>5. sess[s].snap # NoRow /\ sess[s].snap \in Rows
      BY <2>1, <2>2, <2>3 DEF ClaimCommit, SessionRecords
    <2>6. SameButLease(row, sess[s].snap)
      BY <1>1, <2>1, <2>4, <2>5 DEF IInv, LockHeld, Locks, ClaimCommit
    <2>7. sess[s].snap.lease > 0
      <3>1. sess[s].snap.lease \in Int /\ row.lease \in Int
        BY <2>3, <2>5 DEF Rows
      <3> QED
        BY <2>2, <2>6, <3>1 DEF SameButLease
    <2>8. /\ sess[s].snap.owner \notin {None, Inst(home[s])} /\ sess[s].snap.state = row.state
      BY <2>2, <2>6 DEF SameButLease
    <2>9. row.state # "draining" /\ sess[s].allow # "no" /\ ~(sess[s].tries > 0)
      BY <2>1, <2>2, <2>5, <2>7, <2>8 DEF ClaimCommit, RefusedBy
    <2>10. row.state = "active"
      BY <2>2, <2>3, <2>9 DEF Rows, RowStates
    <2>11. sess[s].tries \in Nat
      BY <2>3, OwnershipAssumption DEF SessionRecords
    <2> QED
      BY <2>9, <2>10, <2>11
  <1>2. IInv /\ [Next]_vars =>
          [\A s \in Sessions : Takes(s) /\ ForeignLive(s)
             => row.state = "active" /\ sess[s].allow # "no" /\ sess[s].tries = 0]_vars
    BY <1>1
  <1> QED
    BY <1>2, SafetyInvariant, PTL DEF Spec, LiveLeaseNotStolen

-----------------------------------------------------------------------------
(* Who may still speak for the row. *)

(* A session the process serves the key with, or is about to. *)
Standing(s) ==
    sess[s].life = "open" \/ (sess[s].life = "creating" /\ inflight[home[s]] = s)

(* A session whose close will release the row, if its fence still matches. *)
Leaver(s) == sess[s].life = "retiring" \/ (sess[s].life = "closing" /\ sess[s].release)

NotNewer(f, g) == f[1] < g[1] \/ (f[1] = g[1] /\ f[2] <= g[2])
Older(f, g) == f[1] < g[1] \/ (f[1] = g[1] /\ f[2] < g[2])

(* What one session object and the history of account changes agree on. *)
Sane(r, m) ==
    /\ r.life = "creating" => r.want = r.acct /\ r.pc # "idle"
    /\ r.pc \in {"connect", "claimed", "failed"} => r.life = "creating"
    /\ r.pc \in {"claim", "read"} => r.life \in {"creating", "open", "retiring"}
    /\ r.pc = "swap" => r.life \in {"open", "retiring"}
    /\ r.life = "creating" /\ r.pc \in {"connect", "claim", "read"} => r.fence = NoFence
    /\ r.life = "open" \/ r.pc = "claimed" => r.fence # NoFence
    /\ r.life = "retiring" /\ m # "detached" => r.pc = "idle"
    /\ m = "none" => r.life # "broken" /\ (r.life = "open" => r.pc = "idle")

SessionsSane == \A s \in Sessions : Sane(sess[s], moved)

(* No session holds a fence that was never granted. *)
FencesGranted == \A s \in Sessions : NotNewer(sess[s].fence, granted)

(* The row's fence is held only where it was granted. *)
FenceAtHome == row # NoRow => \A s \in Sessions : sess[s].fence = Fence(row) => home[s] = row.proc

(* The registered sessions are the open and the broken ones, and a creation *)
(* in flight has nobody registered beside it.                              *)
RegistryAgrees ==
    /\ \A p \in Procs : slot[p] # None => sess[slot[p]].life \in {"open", "broken"}
    /\ \A s \in Sessions : sess[s].life = "open" => slot[home[s]] = s
    /\ \A p \in Procs : inflight[p] # None =>
         /\ home[inflight[p]] = p
         /\ sess[inflight[p]].life = "creating" => slot[p] = None

(* Two creations never share a fence. *)
CreatorsApart ==
    \A s, t \in Sessions :
      sess[s].life = "creating" /\ sess[t].life = "creating" /\ sess[s].fence = sess[t].fence /\ s # t
        => sess[s].fence = NoFence

(* Whoever stands in a process claimed after the ones that retire there. *)
SuccessorsNewer ==
    moved # "detached" =>
      \A s, t \in Sessions :
        Standing(s) /\ sess[t].life = "retiring" /\ home[s] = home[t] /\ sess[s].fence # NoFence
          => Older(sess[t].fence, sess[s].fence)

(* A session with the row's fence serves the row's account, unless it is   *)
(* in the middle of a swap to another one.  A creation                     *)
(* that lost its slot need not, once a session that adopted its epoch was  *)
(* rebound: then nobody is left to take the epoch over from it.            *)
HolderServesAccount ==
    moved # "detached" =>
      \A s \in Sessions : FenceMatches(s) =>
        /\ sess[s].life \in {"open", "retiring"} /\ sess[s].pc # "swap" => sess[s].acct = row.account
        /\ sess[s].life = "creating" =>
             \/ sess[s].acct = row.account
             \/ /\ moved # "none" /\ inflight[home[s]] # s
                /\ \A t \in Sessions : Standing(t) /\ home[t] = home[s]
                     => sess[t].fence \in {NoFence, granted}

(* The row belongs to the instance of the process that claimed it, or to   *)
(* nobody, and exists until it is withdrawn.                               *)
RowOwned == row # NoRow => row.owner \in {None, Inst(row.proc)}
RowStays == granted # NoFence /\ ~withdrawn => row # NoRow

(* Once the row is released, or will be, nobody stands on it. *)
Forsaken == row.owner = None \/ \E t \in Sessions : Leaver(t) /\ sess[t].fence = granted
ForsakenByAll ==
    moved = "none" /\ ~withdrawn /\ row # NoRow /\ Forsaken =>
      \A s \in Sessions : Standing(s) /\ home[s] = row.proc /\ sess[s].fence # NoFence =>
        /\ sess[s].fence # granted
        /\ sess[s].acct # row.account
        /\ \A c \in Sessions : sess[c].life = "creating" => sess[c].fence # granted

(* The anchor, of a retired row too. *)
AnchorBound ==
    db = "postgres" /\ moved # "detached" /\ row # NoRow /\ row.anchor # None => row.anchor = row.account

StandInv ==
    /\ SessionsSane /\ FencesGranted /\ FenceAtHome /\ RegistryAgrees /\ CreatorsApart
    /\ SuccessorsNewer /\ HolderServesAccount /\ RowOwned /\ RowStays /\ ForsakenByAll /\ AnchorBound
-----------------------------------------------------------------------------
(* Steps that give up, or change nothing that matters to the row. *)

(* A session plays the same part as before, or leaves. *)
SamePart(t) ==
    /\ sess'[t].life = sess[t].life /\ sess'[t].fence = sess[t].fence
    /\ sess'[t].acct = sess[t].acct /\ sess'[t].release = sess[t].release
    /\ sess'[t].pc # "swap" => sess[t].pc # "swap"
Fades(t) ==
    /\ sess'[t].life \in {"retiring", "closing", "broken", "gone"}
    /\ sess'[t].fence = sess[t].fence \/ (sess'[t].fence = NoFence /\ sess'[t].life = "gone")
    /\ sess'[t].life = "retiring" => /\ sess[t].life = "open" /\ sess'[t].acct = sess[t].acct
                                     /\ sess[t].pc # "swap" \/ moved' = "detached"
    /\ Leaver(t)' => sess[t].life \in {"open", "broken"} \/ Leaver(t)

(* Nobody is registered, and no creation gets a slot. *)
RegistryWanes ==
    /\ \A p \in Procs : slot'[p] \in {slot[p], None}
    /\ \A p \in Procs :
         \/ inflight'[p] \in {inflight[p], None}
         \/ /\ inflight'[p] \in Sessions /\ home[inflight'[p]] = p
            /\ sess'[inflight'[p]].life \in {"open", "retiring"}
    /\ \A p \in Procs : slot'[p] # None => sess'[slot'[p]].life \in {"open", "broken"}
    /\ \A t \in Sessions : sess'[t].life = "open" => slot'[home[t]] = t

(* The row keeps its claim and account, or one who leaves releases it. *)
RowWanes ==
    \/ row = NoRow /\ row' = NoRow
    \/ /\ row # NoRow /\ row' # NoRow /\ Fence(row') = Fence(row)
       /\ row'.proc = row.proc /\ row'.account = row.account
       /\ row'.anchor \in {row.anchor, None, row.account} \/ moved' = "detached"
       /\ \/ row'.owner = row.owner
          \/ row'.owner = None /\ \E t \in Sessions : Leaver(t) /\ sess[t].fence = granted

(* The history of account changes grows. *)
MovedGrows == moved' = moved \/ moved' = "detached" \/ (moved = "none" /\ moved' = "attached")

(* A process has at most one session open or in creation. *)
LEMMA LoneStander ==
    ASSUME IInv, RegistryAgrees, NEW s \in Sessions, NEW t \in Sessions,
           Standing(s), sess[t].life = "open", home[s] = home[t]
    PROVE  s = t
  BY SessionFacts, OwnershipAssumption DEF Standing, RegistryAgrees

(* A fence that matches is no empty one, and is held where it was granted. *)
LEMMA MatchHome ==
    ASSUME IInv, FenceAtHome, NEW s \in Sessions, FenceMatches(s)
    PROVE  sess[s].fence # NoFence /\ sess[s].fence = granted /\ home[s] = row.proc
  <1>1. row \in Rows /\ row # NoRow /\ sess[s].fence = granted
    BY MatchFacts
  <1>2. Fence(row) # NoFence
    BY <1>1, RowFacts DEF NoFence
  <1> QED
    BY <1>1, <1>2 DEF FenceMatches, FenceAtHome

(* Such steps keep the invariant. *)
LEMMA WaneKeeps ==
    ASSUME IInv, StandInv, IInv', UNCHANGED <<deployment, granted, withdrawn>>, MovedGrows,
           RowWanes, RegistryWanes, \A t \in Sessions : SamePart(t) \/ Fades(t), SessionsSane'
    PROVE  StandInv'
  <1>0. /\ \A t \in Sessions : home[t] \in Procs /\ t # None
        /\ home' = home /\ db' = db /\ NoRow' = NoRow /\ \A p : Inst(p)' = Inst(p)
        /\ granted' = granted /\ withdrawn' = withdrawn
    BY SessionFacts, OwnershipAssumption, StableTypes DEF deployment, NoRow
  <1>1. \A s \in Sessions : Standing(s)' => Standing(s) /\ SamePart(s)
    BY <1>0 DEF Standing, SamePart, Fades, RegistryWanes
  <1>2. \A s, t \in Sessions : Standing(s) /\ sess[t].life = "open" /\ home[s] = home[t] => s = t
    BY LoneStander DEF StandInv
  <1>3. \A s \in Sessions : FenceMatches(s)' =>
          FenceMatches(s) /\ sess'[s].fence = sess[s].fence /\ row'.account = row.account
    <2> SUFFICES ASSUME NEW s \in Sessions, FenceMatches(s)'
                 PROVE  FenceMatches(s) /\ sess'[s].fence = sess[s].fence /\ row'.account = row.account
      OBVIOUS
    <2>1. /\ row' # NoRow /\ Fence(row') = sess'[s].fence /\ row'.owner = Inst(home[s])
          /\ Fence(row)' = Fence(row')
      BY <1>0 DEF FenceMatches, Fence
    <2>2. row # NoRow /\ Fence(row') = Fence(row) /\ row'.account = row.account
      BY <2>1 DEF RowWanes
    <2>3. row'.owner = row.owner
      BY <1>0, <2>1, InstNotNone DEF RowWanes
    <2>4. Fence(row) # NoFence
      BY <2>2, RowFacts, SessionFacts DEF NoFence
    <2>5. sess'[s].fence = sess[s].fence
      BY <2>1, <2>2, <2>4 DEF SamePart, Fades
    <2> QED
      BY <2>1, <2>2, <2>3, <2>5 DEF FenceMatches
  <1>4. FencesGranted'
    <2>1. \A s \in Sessions : sess'[s].fence \in {sess[s].fence, NoFence}
      BY DEF SamePart, Fades
    <2>2. granted[1] \in Nat /\ granted[2] \in Nat
      BY DEF IInv, TypeOK, Fences
    <2>3. NotNewer(NoFence, granted)
      BY <2>2 DEF NotNewer, NoFence
    <2>4. \A s \in Sessions : NotNewer(sess'[s].fence, granted)
      BY <2>1, <2>3 DEF StandInv, FencesGranted
    <2> QED
      BY <1>0, <2>4 DEF FencesGranted, NotNewer
  <1>5. FenceAtHome'
    <2> SUFFICES ASSUME row' # NoRow, NEW s \in Sessions, sess'[s].fence = Fence(row')
                 PROVE  home[s] = row'.proc
      BY <1>0 DEF FenceAtHome, Fence
    <2>1. row # NoRow /\ Fence(row') = Fence(row) /\ row'.proc = row.proc
      BY DEF RowWanes
    <2>2. Fence(row) # NoFence
      BY <2>1, RowFacts, SessionFacts DEF NoFence
    <2>3. sess'[s].fence = sess[s].fence
      BY <2>1, <2>2 DEF SamePart, Fades
    <2> QED
      BY <2>1, <2>3 DEF StandInv, FenceAtHome
  <1>6. RegistryAgrees'
    <2>1. \A p \in Procs : slot'[p] # None => sess'[slot'[p]].life \in {"open", "broken"}
      BY DEF RegistryWanes
    <2>2. \A s \in Sessions : sess'[s].life = "open" => slot'[home[s]] = s
      BY DEF RegistryWanes
    <2>3. ASSUME NEW p \in Procs, inflight'[p] # None
          PROVE  home[inflight'[p]] = p /\ (sess'[inflight'[p]].life = "creating" => slot'[p] = None)
      <3>1. CASE inflight'[p] = inflight[p]
        <4>1. inflight[p] \in Sessions /\ home[inflight[p]] = p
              /\ (sess[inflight[p]].life = "creating" => slot[p] = None)
          BY <2>3, <3>1, SessionFacts DEF StandInv, RegistryAgrees
        <4>2. sess'[inflight[p]].life = "creating" => sess[inflight[p]].life = "creating"
          BY <4>1 DEF SamePart, Fades
        <4> QED
          BY <3>1, <4>1, <4>2 DEF RegistryWanes
      <3>2. CASE inflight'[p] # inflight[p]
        BY <2>3, <3>2 DEF RegistryWanes
      <3> QED
        BY <3>1, <3>2
    <2> QED
      BY <1>0, <2>1, <2>2, <2>3 DEF RegistryAgrees
  <1>7. CreatorsApart'
    <2>1. \A s \in Sessions : sess'[s].life = "creating" =>
            sess[s].life = "creating" /\ sess'[s].fence = sess[s].fence
      BY DEF SamePart, Fades
    <2> QED
      BY <2>1 DEF StandInv, CreatorsApart, NoFence
  <1>8. SuccessorsNewer'
    <2> SUFFICES ASSUME moved' # "detached", NEW s \in Sessions, NEW t \in Sessions,
                        Standing(s)', sess'[t].life = "retiring", home[s] = home[t],
                        sess'[s].fence # NoFence
                 PROVE  Older(sess'[t].fence, sess'[s].fence)
      BY <1>0 DEF SuccessorsNewer, NoFence, Older
    <2>1. Standing(s) /\ sess'[s].fence = sess[s].fence /\ sess'[s].life = sess[s].life
      BY <1>1 DEF SamePart
    <2>2. moved # "detached"
      BY DEF MovedGrows
    <2>3. sess[t].life = "retiring" /\ sess'[t].fence = sess[t].fence
      <3>1. sess[t].life # "open"
        <4>1. SUFFICES ASSUME sess[t].life = "open" PROVE FALSE
          OBVIOUS
        <4>2. s = t
          BY <1>2, <2>1, <4>1
        <4> QED
          BY <2>1, <4>1, <4>2
      <3> QED
        BY <3>1 DEF SamePart, Fades
    <2> QED
      BY <2>1, <2>2, <2>3 DEF StandInv, SuccessorsNewer
  <1>9. HolderServesAccount'
    <2> SUFFICES ASSUME moved' # "detached", NEW s \in Sessions, FenceMatches(s)'
                 PROVE  /\ sess'[s].life \in {"open", "retiring"} /\ sess'[s].pc # "swap"
                             => sess'[s].acct = row'.account
                        /\ sess'[s].life = "creating" =>
                             \/ sess'[s].acct = row'.account
                             \/ /\ moved' # "none" /\ inflight'[home[s]] # s
                                /\ \A t \in Sessions : Standing(t)' /\ home[t] = home[s]
                                     => sess'[t].fence \in {NoFence, granted}
      BY <1>0 DEF HolderServesAccount, NoFence
    <2>1. FenceMatches(s) /\ row'.account = row.account /\ moved # "detached"
      BY <1>3 DEF MovedGrows
    <2>2. sess'[s].life \in {"open", "retiring"} /\ sess'[s].pc # "swap" =>
            /\ sess[s].life \in {"open", "retiring"} /\ sess[s].pc # "swap"
            /\ sess'[s].acct = sess[s].acct
      BY DEF SamePart, Fades
    <2>3. sess'[s].life = "creating" => sess[s].life = "creating" /\ sess'[s].acct = sess[s].acct
      BY DEF SamePart, Fades
    <2>4. ASSUME sess'[s].life = "creating", sess[s].acct # row.account
          PROVE  /\ moved' # "none" /\ inflight'[home[s]] # s
                 /\ \A t \in Sessions : Standing(t)' /\ home[t] = home[s]
                      => sess'[t].fence \in {NoFence, granted}
      <3>1. /\ moved # "none" /\ inflight[home[s]] # s
            /\ \A t \in Sessions : Standing(t) /\ home[t] = home[s] => sess[t].fence \in {NoFence, granted}
        BY <2>1, <2>3, <2>4 DEF StandInv, HolderServesAccount
      <3>2. inflight'[home[s]] # s
        BY <1>0, <2>4, <3>1 DEF RegistryWanes
      <3>3. moved' # "none"
        BY <3>1 DEF MovedGrows
      <3> QED
        BY <1>1, <3>1, <3>2, <3>3 DEF SamePart
    <2>5. sess[s].life \in {"open", "retiring"} /\ sess[s].pc # "swap" => sess[s].acct = row.account
      BY <2>1 DEF StandInv, HolderServesAccount
    <2> QED
      BY <2>1, <2>2, <2>3, <2>4, <2>5
  <1>10. RowOwned' /\ RowStays'
    <2>1. RowOwned'
      BY <1>0 DEF StandInv, RowOwned, RowWanes
    <2>2. RowStays'
      BY <1>0 DEF StandInv, RowStays, RowWanes, NoFence
    <2> QED
      BY <2>1, <2>2
  <1>11. ForsakenByAll'
    <2> SUFFICES ASSUME moved' = "none", ~withdrawn, row' # NoRow, Forsaken',
                        NEW s \in Sessions, Standing(s)', home[s] = row'.proc, sess'[s].fence # NoFence
                 PROVE  /\ sess'[s].fence # granted /\ sess'[s].acct # row'.account
                        /\ \A c \in Sessions : sess'[c].life = "creating" => sess'[c].fence # granted
      BY <1>0 DEF ForsakenByAll, NoFence
    <2>1. /\ moved = "none" /\ row # NoRow /\ row'.proc = row.proc /\ row'.account = row.account
          /\ Fence(row) = granted /\ Fence(row) # NoFence
      <3>1. moved = "none" /\ row # NoRow /\ row'.proc = row.proc /\ row'.account = row.account
        BY DEF MovedGrows, RowWanes
      <3>2. Fence(row) = granted /\ Fence(row) # NoFence
        BY <3>1, RowFacts, SessionFacts DEF NoFence, IInv, RowNewest
      <3> QED
        BY <3>1, <3>2
    <2>2. Standing(s) /\ SamePart(s)
      BY <1>1
    <2>3. Forsaken
      <3>1. CASE row'.owner = None
        BY <2>1, <3>1 DEF RowWanes, Forsaken
      <3>2. CASE row'.owner # None
        <4>1. PICK t \in Sessions : Leaver(t)' /\ sess'[t].fence = granted
          BY <1>0, <3>2 DEF Forsaken
        <4>2. sess[t].fence = granted
          BY <2>1, <4>1 DEF SamePart, Fades
        <4>3. home[t] = home[s]
          BY <2>1, <4>2 DEF StandInv, FenceAtHome
        <4>4. sess[t].life # "broken"
          BY <2>1 DEF StandInv, SessionsSane, Sane
        <4>5. sess[t].life # "open"
          <5>1. SUFFICES ASSUME sess[t].life = "open" PROVE FALSE
            OBVIOUS
          <5>2. s = t
            BY <1>2, <2>2, <4>3, <5>1
          <5> QED
            BY <2>2, <4>1, <5>1, <5>2 DEF SamePart, Leaver
        <4>6. Leaver(t)
          BY <4>1, <4>4, <4>5 DEF SamePart, Fades, Leaver
        <4> QED
          BY <4>2, <4>6 DEF Forsaken
      <3> QED
        BY <3>1, <3>2
    <2>4. \A c \in Sessions : sess'[c].life = "creating" =>
            sess[c].life = "creating" /\ sess'[c].fence = sess[c].fence
      BY DEF SamePart, Fades
    <2>5. /\ sess[s].fence # granted /\ sess[s].acct # row.account
          /\ \A c \in Sessions : sess[c].life = "creating" => sess[c].fence # granted
      BY <2>1, <2>2, <2>3 DEF StandInv, ForsakenByAll, SamePart
    <2> QED
      BY <2>1, <2>2, <2>4, <2>5 DEF SamePart
  <1>12. AnchorBound'
    BY <1>0 DEF StandInv, AnchorBound, RowWanes, MovedGrows
  <1> QED
    BY <1>4, <1>5, <1>6, <1>7, <1>8, <1>9, <1>10, <1>11, <1>12 DEF StandInv

-----------------------------------------------------------------------------
(* The records such steps leave behind. *)

(* A longer history asks less of a session. *)
LEMMA SaneGrows ==
    ASSUME MovedGrows, NEW r, Sane(r, moved)
    PROVE  Sane(r, moved')
  BY DEF MovedGrows, Sane

(* A session on its way out. *)
LEMMA LeavingPart ==
    ASSUME IInv, NEW s \in Sessions, NEW l \in {"retiring", "closing", "broken"}, NEW m,
           l = "broken" => m # "none"
    PROVE  /\ Sane(Leaving(s, l), m) /\ Leaving(s, l).release
           /\ l = "retiring" => Leaving(s, l).acct = sess[s].acct
  <1>1. PICK x : x = Leaving(s, l)
    OBVIOUS
  <1>2. x.life = l /\ x.pc = "idle" /\ x.fence = sess[s].fence
    BY <1>1, LeavingFacts
  <1>3. x.release = TRUE /\ (l = "retiring" => x.acct = sess[s].acct)
    BY <1>1 DEF Leaving, Blank
  <1>4. Sane(x, m)
    BY <1>2 DEF Sane
  <1> QED
    BY <1>1, <1>3, <1>4

(* A step in which no session and no registered one changes. *)
LEMMA NoneWanes ==
    ASSUME IInv, StandInv, IInv', UNCHANGED <<deployment, granted, withdrawn, moved, sess, slot>>,
           RowWanes, \A p \in Procs : inflight'[p] \in {inflight[p], None}
    PROVE  StandInv'
  <1>1. MovedGrows /\ \A t \in Sessions : SamePart(t)
    BY DEF MovedGrows, SamePart
  <1>2. RegistryWanes
    BY DEF RegistryWanes, StandInv, RegistryAgrees
  <1>3. SessionsSane'
    BY DEF StandInv, SessionsSane, Sane, NoFence
  <1> QED
    BY <1>1, <1>2, <1>3, WaneKeeps

(* A step in which one session goes on in the same part. *)
LEMMA OneWanes ==
    ASSUME IInv, StandInv, IInv', UNCHANGED <<deployment, granted, withdrawn, slot>>, MovedGrows, RowWanes,
           NEW s \in Sessions, NEW y, sess' = [sess EXCEPT ![s] = y],
           y.life = sess[s].life, y.fence = sess[s].fence, y.acct = sess[s].acct,
           y.release = sess[s].release, y.pc # "swap" => sess[s].pc # "swap", Sane(y, moved'),
           \A p \in Procs : \/ inflight'[p] \in {inflight[p], None}
                            \/ inflight'[p] = s /\ home[s] = p /\ y.life \in {"open", "retiring"}
    PROVE  StandInv'
  <1>1. sess \in [Sessions -> SessionRecords] /\ slot \in [Procs -> Sessions \cup {None}]
    BY SessionFacts
  <1>2. \A t \in Sessions : sess'[t] = IF t = s THEN y ELSE sess[t]
    BY <1>1
  <1>3. \A t \in Sessions : SamePart(t)
    BY <1>2 DEF SamePart
  <1>4. RegistryWanes
    BY <1>1, <1>2 DEF RegistryWanes, StandInv, RegistryAgrees
  <1>5. SessionsSane'
    <2>1. \A t \in Sessions : Sane(sess'[t], moved')
      BY <1>2, SaneGrows DEF StandInv, SessionsSane
    <2> QED
      BY <2>1 DEF SessionsSane, Sane, NoFence
  <1> QED
    BY <1>3, <1>4, <1>5, WaneKeeps

(* A step in which one session leaves. *)
LEMMA OneFades ==
    ASSUME IInv, StandInv, IInv', UNCHANGED <<deployment, granted, withdrawn, moved>>, RowWanes,
           NEW s \in Sessions, NEW x, sess' = [sess EXCEPT ![s] = x], Sane(x, moved),
           x.life \in {"retiring", "closing", "broken", "gone"},
           x.fence = sess[s].fence \/ (x.fence = NoFence /\ x.life = "gone"),
           x.life = "retiring" => sess[s].life = "open" /\ x.acct = sess[s].acct /\ sess[s].pc # "swap",
           x.life = "closing" => sess[s].life \in {"open", "broken", "retiring"},
           \A p \in Procs : inflight'[p] \in {inflight[p], None},
           \A p \in Procs : slot'[p] = slot[p] \/ (slot'[p] = None /\ slot[p] = s),
           slot'[home[s]] = s => x.life = "broken"
    PROVE  StandInv'
  <1>1. sess \in [Sessions -> SessionRecords] /\ slot \in [Procs -> Sessions \cup {None}]
        /\ home[s] \in Procs
    BY SessionFacts
  <1>2. \A t \in Sessions : sess'[t] = IF t = s THEN x ELSE sess[t]
    BY <1>1
  <1>3. \A t \in Sessions : t # s => SamePart(t)
    BY <1>2 DEF SamePart
  <1>4. Fades(s)
    BY <1>2 DEF Fades, Leaver
  <1>5. RegistryWanes
    <2>1. \A p \in Procs : slot'[p] \in {slot[p], None}
      OBVIOUS
    <2>2. ASSUME NEW p \in Procs, slot'[p] # None
          PROVE  sess'[slot'[p]].life \in {"open", "broken"}
      <3>1. slot'[p] = slot[p] /\ slot[p] \in Sessions /\ home[slot[p]] = p
        BY <1>1, <2>2 DEF IInv, SlotHome
      <3> QED
        BY <1>2, <2>2, <3>1 DEF StandInv, RegistryAgrees
    <2>3. ASSUME NEW t \in Sessions, sess'[t].life = "open"
          PROVE  slot'[home[t]] = t
      <3>1. t # s /\ sess[t].life = "open" /\ home[t] \in Procs
        BY <1>2, <2>3, SessionFacts
      <3> QED
        BY <3>1 DEF StandInv, RegistryAgrees
    <2> QED
      BY <2>1, <2>2, <2>3 DEF RegistryWanes
  <1>6. SessionsSane'
    <2>1. \A t \in Sessions : Sane(sess'[t], moved)
      BY <1>2 DEF StandInv, SessionsSane
    <2> QED
      BY <2>1 DEF SessionsSane, Sane, NoFence
  <1> QED
    BY <1>3, <1>4, <1>5, <1>6, WaneKeeps DEF MovedGrows

-----------------------------------------------------------------------------
(* The steps that are of this kind. *)

(* Connecting, or giving the publication up. *)
LEMMA ConnectStands ==
    ASSUME IInv, StandInv, IInv', NEW s \in Sessions, Connected(s) \/ ConnectFailed(s) \/ PublishRejected(s)
    PROVE  StandInv'
  <1>0. sess \in [Sessions -> SessionRecords] /\ sess[s] \in SessionRecords
    BY SessionFacts
  <1>2. UNCHANGED <<row, registry, processes, history>> /\ sess[s].pc \in {"connect", "claimed"}
    BY DEF Connected, ConnectFailed, PublishRejected
  <1>4. PICK y :
          /\ y.life = sess[s].life /\ y.fence = sess[s].fence /\ y.acct = sess[s].acct
          /\ y.want = sess[s].want /\ y.release = sess[s].release
          /\ y.pc = "failed" \/ (y.pc = "claim" /\ sess[s].pc = "connect")
          /\ sess' = [sess EXCEPT ![s] = y]
    <2>1. CASE Connected(s)
      <3>1. PICK c, b : /\ c = IF inflight[home[s]] = s THEN "claim" ELSE "failed"
                        /\ b = ClaimAllowsTakeover(s)
        OBVIOUS
      <3>2. PICK y : y = [sess[s] EXCEPT !.pc = c, !.allow = b, !.seen = 0]
        OBVIOUS
      <3>3. /\ y.life = sess[s].life /\ y.fence = sess[s].fence /\ y.acct = sess[s].acct
            /\ y.want = sess[s].want /\ y.release = sess[s].release /\ y.pc = c
        BY <1>0, <3>2 DEF SessionRecords
      <3>4. sess' = [sess EXCEPT ![s] = y] /\ sess[s].pc = "connect"
        BY <2>1, <3>1, <3>2 DEF Connected
      <3> QED
        BY <3>1, <3>3, <3>4
    <2>2. CASE ConnectFailed(s)
      <3>1. PICK y : y = [sess[s] EXCEPT !.pc = "failed", !.seen = 0]
        OBVIOUS
      <3>2. /\ y.life = sess[s].life /\ y.fence = sess[s].fence /\ y.acct = sess[s].acct
            /\ y.want = sess[s].want /\ y.release = sess[s].release /\ y.pc = "failed"
        BY <1>0, <3>1 DEF SessionRecords
      <3>3. sess' = [sess EXCEPT ![s] = y]
        BY <2>2, <3>1 DEF ConnectFailed
      <3> QED
        BY <3>2, <3>3
    <2>3. CASE PublishRejected(s)
      <3>1. PICK y : y = [sess[s] EXCEPT !.pc = "failed"]
        OBVIOUS
      <3>2. /\ y.life = sess[s].life /\ y.fence = sess[s].fence /\ y.acct = sess[s].acct
            /\ y.want = sess[s].want /\ y.release = sess[s].release /\ y.pc = "failed"
        BY <1>0, <3>1 DEF SessionRecords
      <3>3. sess' = [sess EXCEPT ![s] = y]
        BY <2>3, <3>1 DEF PublishRejected
      <3> QED
        BY <3>2, <3>3
    <2> QED
      BY <2>1, <2>2, <2>3
  <1>5. Sane(y, moved)
    <2>1. Sane(sess[s], moved)
      BY DEF StandInv, SessionsSane
    <2> QED
      BY <1>2, <1>4, <2>1 DEF Sane
  <1>6. MovedGrows /\ moved' = moved
    BY <1>2 DEF MovedGrows, history
  <1>7. RowWanes
    BY <1>2 DEF RowWanes
  <1> QED
    BY <1>2, <1>4, <1>5, <1>6, <1>7, OneWanes DEF registry, processes, history

(* A claim that is read, or tried again. *)
LEMMA ClaimStands ==
    ASSUME IInv, StandInv, IInv', NEW s \in Sessions, sess[s].pc \in {"claim", "read"},
           UNCHANGED <<row, registry, processes, history>>,
           NEW y, sess' = [sess EXCEPT ![s] = y], y.pc \in {"claim", "read"},
           y.life = sess[s].life, y.fence = sess[s].fence, y.acct = sess[s].acct,
           y.want = sess[s].want, y.release = sess[s].release
    PROVE  StandInv'
  <1>1. Sane(sess[s], moved)
    BY DEF StandInv, SessionsSane
  <1>2. MovedGrows /\ moved' = moved /\ RowWanes
    BY DEF MovedGrows, RowWanes, history
  <1>3. Sane(y, moved')
    BY <1>1, <1>2 DEF Sane
  <1>4. UNCHANGED <<deployment, granted, withdrawn, slot, inflight>>
    BY DEF registry, processes, history
  <1>5. \A p \in Procs : inflight'[p] \in {inflight[p], None}
    BY <1>4
  <1> QED
    BY <1>2, <1>3, <1>4, <1>5, OneWanes

(* The locking read, and a claim tried again. *)
LEMMA RetryStands ==
    ASSUME IInv, StandInv, IInv', NEW s \in Sessions,
           \/ ClaimRead(s) \/ ClaimAgain(s)
           \/ ClaimRaceLost(s) /\ MayRetry(s)
    PROVE  StandInv'
  <1>1. sess[s].pc \in {"claim", "read"} /\ UNCHANGED <<row, registry, processes, history>>
    BY DEF ClaimRead, ClaimAgain, ClaimRaceLost, registry
  <1>2. sess \in [Sessions -> SessionRecords] /\ sess[s] \in SessionRecords
    BY SessionFacts
  <1>3. PICK y :
          \/ y = [sess[s] EXCEPT !.pc = "read", !.snap = row] /\ sess' = [sess EXCEPT ![s] = y]
          \/ /\ y = [sess[s] EXCEPT !.pc = "claim", !.snap = NoRow, !.tries = 0, !.allow = "again"]
             /\ sess' = [sess EXCEPT ![s] = y]
          \/ /\ y = [sess[s] EXCEPT !.pc = "claim", !.snap = NoRow, !.tries = @ + 1]
             /\ sess' = [sess EXCEPT ![s] = y]
    <2>1. CASE ClaimRead(s)
      BY <2>1 DEF ClaimRead
    <2>2. CASE ClaimAgain(s)
      BY <2>2 DEF ClaimAgain
    <2>3. CASE ClaimRaceLost(s) /\ MayRetry(s)
      BY <2>3 DEF ClaimRaceLost
    <2> QED
      BY <2>1, <2>2, <2>3
  <1>4. /\ y.life = sess[s].life /\ y.fence = sess[s].fence /\ y.acct = sess[s].acct
        /\ y.want = sess[s].want /\ y.release = sess[s].release /\ y.pc \in {"claim", "read"}
    BY <1>2, <1>3 DEF SessionRecords
  <1> QED
    BY <1>1, <1>3, <1>4, ClaimStands

(* What a completed hand-off leaves in the in-flight slots. *)
LEMMA HandoffWanes ==
    ASSUME IInv, NEW s \in Sessions, CompleteHandoff(s)
    PROVE  \A p \in Procs : inflight'[p] \in {inflight[p], None}
  BY SessionFacts DEF CompleteHandoff

(* A claim that fails for good. *)
LEMMA LostStands ==
    ASSUME IInv, StandInv, IInv', NEW s \in Sessions, sess[s].pc \in {"claim", "read", "swap"},
           UNCHANGED <<deployment, granted, withdrawn, moved, slot>>, RowWanes, CompleteHandoff(s),
           sess' = [sess EXCEPT ![s] = Lost(s)]
    PROVE  StandInv'
  <1>1. sess[s] \in SessionRecords /\ Sane(sess[s], moved) /\ home[s] \in Procs
    BY SessionFacts DEF StandInv, SessionsSane
  <1>2. \A p \in Procs : inflight'[p] \in {inflight[p], None}
    BY HandoffWanes
  <1>3. CASE sess[s].life = "creating"
    <2>1. PICK y : y = [sess[s] EXCEPT !.pc = "failed", !.snap = NoRow, !.tries = 0]
      OBVIOUS
    <2>2. Lost(s) = y
      BY <1>3, <2>1 DEF Lost
    <2>3. /\ y.life = sess[s].life /\ y.fence = sess[s].fence /\ y.acct = sess[s].acct
          /\ y.want = sess[s].want /\ y.release = sess[s].release /\ y.pc = "failed"
      BY <1>1, <2>1 DEF SessionRecords
    <2>4. Sane(y, moved') /\ MovedGrows /\ sess[s].pc # "swap"
      BY <1>1, <1>3, <2>3 DEF Sane, MovedGrows
    <2> QED
      BY <1>2, <2>2, <2>3, <2>4, OneWanes
  <1>4. CASE sess[s].life = "open"
    <2>1. PICK x : x = Leaving(s, "broken")
      OBVIOUS
    <2>2. moved # "none"
      BY <1>1, <1>4 DEF Sane
    <2>3. Lost(s) = x /\ x.life = "broken" /\ x.fence = sess[s].fence /\ Sane(x, moved)
      BY <1>4, <2>1, <2>2, LeavingFacts, LeavingPart DEF Lost
    <2> QED
      BY <1>2, <2>3, OneFades
  <1>5. CASE sess[s].life = "retiring"
    <2>1. PICK x : x = Leaving(s, "closing")
      OBVIOUS
    <2>2. Lost(s) = x /\ x.life = "closing" /\ x.fence = sess[s].fence /\ Sane(x, moved)
      BY <1>5, <2>1, LeavingFacts, LeavingPart DEF Lost
    <2>3. slot[home[s]] # s
      BY <1>1, <1>5, OwnershipAssumption DEF StandInv, RegistryAgrees
    <2> QED
      BY <1>2, <1>5, <2>2, <2>3, OneFades
  <1> QED
    BY <1>1, <1>3, <1>4, <1>5 DEF Sane

(* The claims that end without the row, and the rebinds that fail. *)
LEMMA ClaimFailsStands ==
    ASSUME IInv, StandInv, IInv', NEW s \in Sessions,
           ClaimRefused(s) \/ (ClaimRaceLost(s) /\ ~MayRetry(s)) \/ ClaimError(s) \/ RebindFailed(s)
    PROVE  StandInv'
  <1>1. /\ sess[s].pc \in {"claim", "read", "swap"} /\ UNCHANGED <<row, slot, processes, history>>
        /\ CompleteHandoff(s) /\ sess' = [sess EXCEPT ![s] = Lost(s)]
    BY DEF ClaimRefused, ClaimRaceLost, ClaimError, RebindFailed
  <1>2. RowWanes
    BY <1>1 DEF RowWanes
  <1> QED
    BY <1>1, <1>2, LostStands DEF processes, history

(* The steps that leave all sessions and the registered ones alone. *)
LEMMA QuietStands ==
    ASSUME IInv, StandInv, IInv',
           \/ \E p \in Procs : EvictInflight(p) \/ MarkSelect(p) \/ MarkWrite(p)
           \/ RetireContinuity
    PROVE  StandInv'
  <1>1. UNCHANGED <<deployment, granted, withdrawn, moved, sess, slot>>
    BY DEF EvictInflight, MarkSelect, MarkWrite, RetireContinuity, processes, history, registry
  <1>2. \A p \in Procs : inflight'[p] \in {inflight[p], None}
    <2>1. CASE UNCHANGED inflight
      BY <2>1
    <2>2. ASSUME NEW q \in Procs, EvictInflight(q)
          PROVE  \A p \in Procs : inflight'[p] \in {inflight[p], None}
      BY <2>2, SessionFacts DEF EvictInflight
    <2> QED
      BY <2>1, <2>2 DEF MarkSelect, MarkWrite, RetireContinuity, registry
  <1>3. RowWanes
    <2>1. CASE UNCHANGED row
      BY <2>1 DEF RowWanes
    <2>2. CASE /\ row # NoRow
               /\ \/ row' = [row EXCEPT !.state = "draining"]
                  \/ row' = [row EXCEPT !.retired = TRUE]
      <3>1. row \in Rows
        BY <2>2, SessionFacts
      <3>2. /\ row'.id = row.id /\ row'.epoch = row.epoch /\ row'.proc = row.proc
            /\ row'.account = row.account /\ row'.anchor = row.anchor /\ row'.owner = row.owner
        BY <2>2, <3>1 DEF Rows
      <3>3. row' \in Rows
        <4>1. row'.id # 0
          BY <3>1, <3>2 DEF Rows
        <4>2. row' # NoRow
          BY <4>1 DEF NoRow
        <4>3. row' \in Rows' \cup {NoRow}
          BY DEF IInv, TypeOK, NoRow
        <4> QED
          BY <1>1, <4>2, <4>3, StableTypes
      <3> QED
        BY <2>2, <3>1, <3>2, <3>3, RowFacts DEF RowWanes
    <2> QED
      BY <2>1, <2>2 DEF EvictInflight, MarkSelect, MarkWrite, RetireContinuity
  <1> QED
    BY <1>1, <1>2, <1>3, NoneWanes

(* Time passes for the row and for what lookups saw. *)
LEMMA TickStands ==
    ASSUME IInv, StandInv, IInv', Tick
    PROVE  StandInv'
  <1>1. UNCHANGED <<deployment, granted, withdrawn, moved, slot, inflight>>
    BY DEF Tick, processes, history, registry
  <1>2. \A t \in Sessions : \/ sess'[t] = sess[t]
                           \/ sess'[t] = [sess[t] EXCEPT !.seen = @ - 1]
    BY DEF Tick
  <1>3. \A t \in Sessions : /\ sess'[t].life = sess[t].life /\ sess'[t].pc = sess[t].pc
                            /\ sess'[t].fence = sess[t].fence /\ sess'[t].acct = sess[t].acct
                            /\ sess'[t].want = sess[t].want /\ sess'[t].release = sess[t].release
    BY <1>2, SessionFacts DEF SessionRecords
  <1>4. SessionsSane'
    <2>1. \A t \in Sessions : Sane(sess'[t], moved)
      BY <1>3 DEF StandInv, SessionsSane, Sane
    <2> QED
      BY <1>1, <2>1 DEF SessionsSane, Sane, NoFence
  <1>5. MovedGrows /\ \A t \in Sessions : SamePart(t)
    BY <1>1, <1>3 DEF MovedGrows, SamePart
  <1>6. RegistryWanes
    BY <1>1, <1>3, SessionFacts DEF RegistryWanes, StandInv, RegistryAgrees
  <1>7. RowWanes
    <2>1. CASE UNCHANGED row
      BY <2>1 DEF RowWanes
    <2>2. CASE row # NoRow /\ row' = [row EXCEPT !.lease = @ - 1]
      <3>1. row \in Rows
        BY <2>2, SessionFacts
      <3>2. /\ row'.id = row.id /\ row'.epoch = row.epoch /\ row'.proc = row.proc
            /\ row'.account = row.account /\ row'.anchor = row.anchor /\ row'.owner = row.owner
        BY <2>2, <3>1 DEF Rows
      <3>3. row' # NoRow /\ row' \in Rows' \cup {NoRow}
        BY <3>1, <3>2 DEF Rows, IInv, TypeOK, NoRow
      <3>4. row' \in Rows
        BY <1>1, <3>3, StableTypes
      <3> QED
        BY <2>2, <3>1, <3>2, <3>4, RowFacts DEF RowWanes
    <2> QED
      BY <2>1, <2>2 DEF Tick
  <1> QED
    BY <1>1, <1>4, <1>5, <1>6, <1>7, WaneKeeps

(* A session begins to move to another account. *)
LEMMA BeginReconnectStands ==
    ASSUME IInv, StandInv, IInv', NEW s \in Sessions, BeginReconnect(s)
    PROVE  StandInv'
  <1>1. /\ home[s] \in Procs /\ sess[s] \in SessionRecords /\ inflight \in [Procs -> Sessions \cup {None}]
        /\ Sane(sess[s], moved) /\ s # None /\ moved \in {"none", "attached", "detached"}
    BY SessionFacts, OwnershipAssumption DEF StandInv, SessionsSane, IInv, TypeOK
  <1>a. PICK h : h = inflight'[home[s]]
    OBVIOUS
  <1>2. PICK a \in Accounts, c \in {"claim", "swap"} :
          sess' = [sess EXCEPT ![s].pc = c, ![s].want = a, ![s].allow = "forced", ![s].hand = h]
    BY <1>a, Zenon DEF BeginReconnect
  <1>3. PICK y : y = [sess[s] EXCEPT !.pc = c, !.want = a, !.allow = "forced", !.hand = h]
    OBVIOUS
  <1>4. /\ y.life = sess[s].life /\ y.fence = sess[s].fence /\ y.acct = sess[s].acct
        /\ y.release = sess[s].release /\ y.pc = c
    BY <1>1, <1>3 DEF SessionRecords
  <1>5. /\ sess[s].life \in {"open", "retiring"} /\ MovedGrows /\ moved' # "none" /\ sess[s].pc = "idle"
        /\ sess[s].life = "retiring" => moved' = "detached"
    BY <1>1 DEF BeginReconnect, MovedGrows
  <1>6. Sane(y, moved')
    BY <1>1, <1>4, <1>5 DEF Sane
  <1>7. \A p \in Procs : inflight'[p] \in {inflight[p], None} \/ (inflight'[p] = s /\ home[s] = p)
    BY <1>1 DEF BeginReconnect
  <1>8. RowWanes /\ UNCHANGED <<deployment, granted, withdrawn, slot>>
    BY DEF BeginReconnect, RowWanes, processes
  <1>9. sess' = [sess EXCEPT ![s] = y] /\ y.life \in {"open", "retiring"}
    BY <1>2, <1>3, <1>4, <1>5
  <1>10. \A p \in Procs : \/ inflight'[p] \in {inflight[p], None}
                          \/ inflight'[p] = s /\ home[s] = p /\ y.life \in {"open", "retiring"}
    BY <1>7, <1>9
  <1> QED
    BY <1>4, <1>5, <1>6, <1>8, <1>9, <1>10, OneWanes

(* A session leaves the registry, or is done retiring. *)
LEMMA DetachStands ==
    ASSUME IInv, StandInv, IInv', NEW s \in Sessions, Detach(s) \/ RetireDone(s)
    PROVE  StandInv'
  <1>1. /\ home[s] \in Procs /\ slot \in [Procs -> Sessions \cup {None}] /\ s # None
        /\ \A p \in Procs : slot[p] = s => p = home[s]
    BY SessionFacts, OwnershipAssumption DEF IInv, SlotHome
  <1>2. PICK l \in {"retiring", "closing"} :
          sess' = [sess EXCEPT ![s] = Leaving(s, l)] /\ (l = "retiring" => sess[s].life # "broken" /\ Detach(s))
    <2>1. CASE Detach(s)
      BY <2>1 DEF Detach
    <2>2. CASE RetireDone(s)
      BY <2>2 DEF RetireDone
    <2> QED
      BY <2>1, <2>2
  <1>3. PICK x : x = Leaving(s, l)
    OBVIOUS
  <1>4. /\ x.life = l /\ x.fence = sess[s].fence /\ Sane(x, moved)
        /\ x.life = "retiring" => x.acct = sess[s].acct
    BY <1>3, LeavingFacts, LeavingPart
  <1>5. /\ UNCHANGED <<deployment, granted, withdrawn, moved, inflight>> /\ RowWanes
    BY DEF Detach, RetireDone, RowWanes, processes, history, registry
  <1>6. Detach(s) => sess[s].life \in {"open", "broken"} /\ slot' = [slot EXCEPT ![home[s]] = None]
    BY <1>1 DEF Detach, StandInv, RegistryAgrees
  <1>7. RetireDone(s) => sess[s].life = "retiring" /\ slot' = slot /\ slot[home[s]] # s
    BY <1>1 DEF RetireDone, StandInv, RegistryAgrees, registry
  <1>8. /\ sess[s].life \in {"open", "broken", "retiring"} /\ sess[s].pc = "idle"
        /\ x.life = "retiring" => sess[s].life = "open"
    BY <1>2, <1>4, <1>6, <1>7 DEF Detach, RetireDone
  <1>9. /\ \A p \in Procs : slot'[p] = slot[p] \/ (slot'[p] = None /\ slot[p] = s)
        /\ slot'[home[s]] # s
    <2>1. CASE Detach(s)
      BY <1>1, <1>6, <2>1 DEF Detach
    <2>2. CASE RetireDone(s)
      BY <1>7, <2>2
    <2> QED
      BY <2>1, <2>2
  <1>10. sess' = [sess EXCEPT ![s] = x] /\ \A p \in Procs : inflight'[p] \in {inflight[p], None}
    BY <1>2, <1>3, <1>5
  <1> QED
    BY <1>4, <1>5, <1>8, <1>9, <1>10, OneFades

(* A session that leaves releases the row. *)
LEMMA ReleaseWanes ==
    ASSUME IInv, NEW s \in Sessions, Leaver(s), FenceMatches(s), row' = ReleasedRow(s)
    PROVE  RowWanes
  <1>1. row \in Rows /\ row # NoRow /\ sess[s].fence = granted
    BY MatchFacts
  <1>2. PICK c : c = ReleasedRow(s)
    OBVIOUS
  <1>3. /\ c \in Rows /\ c.id = row.id /\ c.epoch = row.epoch /\ c.owner = None /\ c.proc = row.proc
        /\ c.account = row.account /\ c.anchor = row.anchor
    <2>1. 0 \in 0..TTL
      BY OwnershipAssumption
    <2> QED
      BY <1>1, <1>2, <2>1 DEF ReleasedRow, Rows, RowStates
  <1>4. row' = c /\ row' # NoRow /\ Fence(row') = Fence(row)
    BY <1>1, <1>2, <1>3, RowFacts
  <1> QED
    BY <1>1, <1>3, <1>4 DEF RowWanes

(* Shutdown releases the row of a session that is reconnecting. *)
LEMMA CloseUnderStands ==
    ASSUME IInv, StandInv, IInv', NEW s \in Sessions, CloseUnderReconnect(s)
    PROVE  StandInv'
  <1>1. UNCHANGED <<deployment, granted, withdrawn, moved, sess, slot, inflight>>
    BY DEF CloseUnderReconnect, registry, processes, history
  <1>2. RowWanes
    BY ReleaseWanes DEF CloseUnderReconnect, Leaver
  <1>3. \A p \in Procs : inflight'[p] \in {inflight[p], None}
    BY <1>1
  <1> QED
    BY <1>1, <1>2, <1>3, NoneWanes

(* A session closes, and releases the row if its fence matches. *)
LEMMA CloseStands ==
    ASSUME IInv, StandInv, IInv', NEW s \in Sessions, Close(s)
    PROVE  StandInv'
  <1>1. /\ home[s] \in Procs /\ s # None
        /\ sess' = [sess EXCEPT ![s] = Gone] /\ sess[s].life = "closing"
        /\ UNCHANGED <<deployment, granted, withdrawn, moved, inflight, slot>>
    BY SessionFacts, OwnershipAssumption DEF Close, registry, processes, history
  <1>2. PICK x : x = Gone
    OBVIOUS
  <1>3. x.life = "gone" /\ x.fence = NoFence /\ Sane(x, moved)
    BY <1>2, GoneFacts DEF Sane
  <1>4. slot[home[s]] # s
    BY <1>1 DEF StandInv, RegistryAgrees
  <1>5. RowWanes
    <2>1. CASE UNCHANGED row
      BY <2>1 DEF RowWanes
    <2>2. CASE sess[s].release /\ FenceMatches(s) /\ row' = ReleasedRow(s)
      BY <1>1, <2>2, ReleaseWanes DEF Leaver
    <2> QED
      BY <2>1, <2>2 DEF Close
  <1>6. /\ sess' = [sess EXCEPT ![s] = x] /\ \A p \in Procs : inflight'[p] \in {inflight[p], None}
        /\ \A p \in Procs : slot'[p] = slot[p] \/ (slot'[p] = None /\ slot[p] = s)
        /\ slot'[home[s]] # s
    BY <1>1, <1>2, <1>4
  <1> QED
    BY <1>1, <1>3, <1>5, <1>6, OneFades

(* An open or broken session is evicted. *)
LEMMA EvictStands ==
    ASSUME IInv, StandInv, IInv', NEW s \in Sessions,
           UNCHANGED <<row, deployment, granted, withdrawn, moved, inflight>>,
           sess[s].life \in {"open", "broken"}, sess' = [sess EXCEPT ![s] = Leaving(s, "closing")],
           \A p \in Procs : slot'[p] = slot[p] \/ (slot'[p] = None /\ slot[p] = s),
           slot'[home[s]] # s
    PROVE  StandInv'
  <1>1. PICK x : x = Leaving(s, "closing")
    OBVIOUS
  <1>2. x.life = "closing" /\ x.fence = sess[s].fence /\ Sane(x, moved)
    BY <1>1, LeavingFacts, LeavingPart
  <1>3. /\ RowWanes /\ sess' = [sess EXCEPT ![s] = x]
        /\ \A p \in Procs : inflight'[p] \in {inflight[p], None}
    BY <1>1 DEF RowWanes
  <1> QED
    BY <1>2, <1>3, OneFades

(* The sweep of the heartbeat. *)
LEMMA ReconcileStands ==
    ASSUME IInv, StandInv, IInv', NEW p \in Procs, Reconcile(p)
    PROVE  StandInv'
  <1>1. PICK s \in Sessions : s = slot[p]
    BY SessionFacts DEF Reconcile
  <1>2. /\ slot' = [slot EXCEPT ![p] = None] /\ sess' = [sess EXCEPT ![s] = Leaving(s, "closing")]
        /\ UNCHANGED <<row, deployment, granted, withdrawn, moved, inflight>>
    BY <1>1 DEF Reconcile, processes, history
  <1>3. sess[s].life \in {"open", "broken"} /\ home[s] = p /\ slot \in [Procs -> Sessions \cup {None}]
        /\ s # None
    BY <1>1, SessionFacts, OwnershipAssumption DEF StandInv, RegistryAgrees, IInv, SlotHome
  <1>4. /\ \A q \in Procs : slot'[q] = slot[q] \/ (slot'[q] = None /\ slot[q] = s)
        /\ slot'[home[s]] # s
    BY <1>1, <1>2, <1>3
  <1> QED
    BY <1>2, <1>3, <1>4, EvictStands

(* A row whose key, epoch, owner, process and account are written anew     *)
(* with the values they had.                                               *)
LEMMA SameClaim ==
    ASSUME IInv, row \in Rows, row' \in Rows, row'.id = row.id, row'.epoch = row.epoch,
           row'.proc = row.proc, row'.owner = row.owner, row'.account = row.account,
           row'.anchor \in {row.anchor, None, row.account} \/ moved' = "detached"
    PROVE  RowWanes
  BY RowFacts DEF RowWanes

(* A response registers its anchor, or a dead one is cleared. *)
LEMMA WriteAnchorStands ==
    ASSUME IInv, StandInv, IInv', NEW s \in Sessions, WriteAnchor(s)
    PROVE  StandInv'
  <1>1. /\ UNCHANGED <<sess, slot, inflight, deployment, granted, withdrawn, moved>> /\ FenceMatches(s)
        /\ sess[s].life \in {"open", "retiring"} /\ sess[s].pc = "idle"
    BY DEF WriteAnchor, registry, processes, history
  <1>2. row \in Rows /\ row # NoRow
    BY <1>1, MatchFacts
  <1>3. sess[s].acct = row.account \/ moved = "detached"
    BY <1>1 DEF StandInv, HolderServesAccount
  <1>4. sess[s].acct \in Accounts \cup {None} /\ TTL \in 0..TTL
    BY SessionFacts, OwnershipAssumption DEF SessionRecords
  <1>5. /\ row' \in Rows /\ row'.id = row.id /\ row'.epoch = row.epoch /\ row'.proc = row.proc
        /\ row'.owner = row.owner /\ row'.account = row.account /\ row'.anchor \in {sess[s].acct, None}
    <2>1. CASE row' = [row EXCEPT !.anchor = sess[s].acct, !.lease = TTL]
      BY <1>2, <1>4, <2>1 DEF Rows
    <2>2. CASE row' = [row EXCEPT !.anchor = None]
      BY <1>2, <2>2 DEF Rows
    <2> QED
      BY <2>1, <2>2 DEF WriteAnchor
  <1>6. RowWanes
    BY <1>1, <1>2, <1>3, <1>5, SameClaim
  <1> QED
    BY <1>1, <1>6, NoneWanes

(* A process empties its registry. *)
LEMMA CloseAllStands ==
    ASSUME IInv, StandInv, IInv', NEW p \in Procs, CloseAll(p)
    PROVE  StandInv'
  <1>1. /\ UNCHANGED <<row, granted, withdrawn, deployment>>
        /\ slot' = [slot EXCEPT ![p] = None] /\ inflight' = [inflight EXCEPT ![p] = None]
    BY DEF CloseAll
  <1>2. PICK H \in SUBSET Sessions :
          /\ sess' = [s \in Sessions |->
                       IF s \in H THEN [sess[s] EXCEPT !.life = "retiring"]
                       ELSE IF home[s] = p /\ sess[s].life \in {"open", "broken", "retiring"}
                       THEN Leaving(s, "closing") ELSE sess[s]]
          /\ \A s \in H : home[s] = p /\ sess[s].life \in {"open", "retiring"} /\ sess[s].pc # "idle"
          /\ moved' = IF H = {} THEN moved ELSE "detached"
    <2>1. PICK H \in SUBSET Sessions :
            H = {s \in Sessions : home[s] = p /\ sess[s].pc \in {"claim", "read", "swap"}
                                  /\ sess[s].life \in {"open", "retiring"}}
      OBVIOUS
    <2> QED
      BY <2>1 DEF CloseAll
  <1>3. /\ slot \in [Procs -> Sessions \cup {None}] /\ inflight \in [Procs -> Sessions \cup {None}]
        /\ \A t \in Sessions : home[t] \in Procs
    BY SessionFacts
  <1>4. MovedGrows /\ (\A t \in H : moved' = "detached")
    BY <1>2 DEF MovedGrows
  <1>5. ASSUME NEW t \in Sessions
        PROVE  /\ SamePart(t) \/ Fades(t)
               /\ Sane(sess'[t], moved')
               /\ home[t] = p => sess'[t].life # "open"
               /\ home[t] # p => sess'[t] = sess[t]
    <2>0. Sane(sess[t], moved) /\ Sane(sess[t], moved') /\ sess[t] \in SessionRecords
      BY <1>4, SaneGrows, SessionFacts DEF StandInv, SessionsSane
    <2>1. CASE t \in H
      <3>1. PICK y : y = [sess[t] EXCEPT !.life = "retiring"]
        OBVIOUS
      <3>2. sess'[t] = y /\ home[t] = p /\ sess[t].life \in {"open", "retiring"} /\ moved' = "detached"
            /\ sess[t].pc # "idle"
        BY <1>2, <1>4, <2>1, <3>1
      <3>3. /\ y.life = "retiring" /\ y.pc = sess[t].pc /\ y.fence = sess[t].fence
            /\ y.acct = sess[t].acct /\ y.want = sess[t].want /\ y.release = sess[t].release
        BY <2>0, <3>1 DEF SessionRecords
      <3>4. Sane(y, moved')
        BY <2>0, <3>2, <3>3 DEF Sane
      <3>5. SamePart(t) \/ Fades(t)
        <4>1. CASE sess[t].life = "retiring"
          BY <3>2, <3>3, <4>1 DEF SamePart
        <4>2. CASE sess[t].life = "open"
          BY <3>2, <3>3, <4>2 DEF Fades
        <4> QED
          BY <3>2, <4>1, <4>2
      <3> QED
        BY <3>2, <3>3, <3>4, <3>5
    <2>2. CASE t \notin H /\ home[t] = p /\ sess[t].life \in {"open", "broken", "retiring"}
      <3>1. PICK x : x = Leaving(t, "closing")
        OBVIOUS
      <3>2. sess'[t] = x /\ x.life = "closing" /\ x.fence = sess[t].fence /\ Sane(x, moved')
        BY <1>2, <2>2, <3>1, LeavingFacts, LeavingPart
      <3>3. sess[t].life \in {"open", "broken"} \/ Leaver(t)
        BY <2>2 DEF Leaver
      <3> QED
        BY <2>2, <3>2, <3>3 DEF Fades
    <2>3. CASE t \notin H /\ ~(home[t] = p /\ sess[t].life \in {"open", "broken", "retiring"})
      <3>1. sess'[t] = sess[t]
        BY <1>2, <2>3
      <3> QED
        BY <2>0, <2>3, <3>1 DEF SamePart
    <2> QED
      BY <1>2, <2>1, <2>2, <2>3
  <1>6. SessionsSane'
    <2>1. \A t \in Sessions : Sane(sess'[t], moved')
      BY <1>5
    <2> QED
      BY <2>1 DEF SessionsSane, Sane, NoFence
  <1>7. RegistryWanes
    <2>1. \A q \in Procs : slot'[q] \in {slot[q], None} /\ inflight'[q] \in {inflight[q], None}
      BY <1>1, <1>3
    <2>2. ASSUME NEW q \in Procs, slot'[q] # None
          PROVE  sess'[slot'[q]].life \in {"open", "broken"}
      <3>1. q # p /\ slot'[q] = slot[q] /\ slot[q] \in Sessions
        BY <1>1, <1>3, <2>2
      <3>2. home[slot[q]] = q /\ sess[slot[q]].life \in {"open", "broken"}
        BY <2>2, <3>1 DEF StandInv, RegistryAgrees, IInv, SlotHome
      <3> QED
        BY <1>5, <3>1, <3>2
    <2>3. ASSUME NEW t \in Sessions, sess'[t].life = "open"
          PROVE  slot'[home[t]] = t
      <3>1. home[t] # p /\ sess[t].life = "open"
        BY <1>5, <2>3
      <3> QED
        BY <1>1, <1>3, <3>1 DEF StandInv, RegistryAgrees
    <2> QED
      BY <2>1, <2>2, <2>3 DEF RegistryWanes
  <1>8. RowWanes /\ \A t \in Sessions : SamePart(t) \/ Fades(t)
    BY <1>1, <1>5 DEF RowWanes
  <1> QED
    BY <1>1, <1>4, <1>6, <1>7, <1>8, WaneKeeps

(* A process ends. *)
LEMMA ExitStands ==
    ASSUME IInv, StandInv, IInv', NEW p \in Procs, Exit(p)
    PROVE  StandInv'
  <1>1. /\ UNCHANGED <<row, granted, withdrawn, moved, deployment>>
        /\ slot' = [slot EXCEPT ![p] = None] /\ inflight' = [inflight EXCEPT ![p] = None]
    BY DEF Exit, history
  <1>2. \A t \in Sessions : sess'[t] = IF home[t] = p THEN Gone ELSE sess[t]
    BY DEF Exit
  <1>3. /\ slot \in [Procs -> Sessions \cup {None}] /\ inflight \in [Procs -> Sessions \cup {None}]
        /\ \A t \in Sessions : home[t] \in Procs
    BY SessionFacts
  <1>4. Gone.life = "gone" /\ Gone.fence = NoFence /\ Sane(Gone, moved)
    BY GoneFacts DEF Sane
  <1>5. \A t \in Sessions : SamePart(t) \/ Fades(t)
    <2> SUFFICES ASSUME NEW t \in Sessions PROVE SamePart(t) \/ Fades(t)
      OBVIOUS
    <2>1. CASE home[t] = p
      <3>1. sess'[t].life = "gone" /\ sess'[t].fence = NoFence
        BY <1>2, <1>4, <2>1
      <3> QED
        BY <3>1 DEF Fades, Leaver
    <2>2. CASE home[t] # p
      BY <1>2, <2>2 DEF SamePart
    <2> QED
      BY <2>1, <2>2
  <1>6. SessionsSane'
    <2>1. \A t \in Sessions : Sane(sess'[t], moved)
      BY <1>2, <1>4 DEF StandInv, SessionsSane
    <2> QED
      BY <1>1, <2>1 DEF SessionsSane, Sane, NoFence
  <1>7. RegistryWanes
    <2>1. \A q \in Procs : slot'[q] \in {slot[q], None} /\ inflight'[q] \in {inflight[q], None}
      BY <1>1, <1>3
    <2>2. ASSUME NEW q \in Procs, slot'[q] # None
          PROVE  sess'[slot'[q]].life \in {"open", "broken"}
      <3>1. q # p /\ slot'[q] = slot[q] /\ slot[q] \in Sessions
        BY <1>1, <1>3, <2>2
      <3>2. home[slot[q]] = q /\ sess[slot[q]].life \in {"open", "broken"}
        BY <2>2, <3>1 DEF StandInv, RegistryAgrees, IInv, SlotHome
      <3> QED
        BY <1>2, <3>1, <3>2
    <2>3. ASSUME NEW t \in Sessions, sess'[t].life = "open"
          PROVE  slot'[home[t]] = t
      <3>1. home[t] # p /\ sess[t].life = "open"
        BY <1>2, <1>4, <2>3
      <3> QED
        BY <1>1, <1>3, <3>1 DEF StandInv, RegistryAgrees
    <2> QED
      BY <2>1, <2>2, <2>3 DEF RegistryWanes
  <1>8. MovedGrows /\ RowWanes
    BY <1>1 DEF MovedGrows, RowWanes
  <1> QED
    BY <1>1, <1>5, <1>6, <1>7, <1>8, WaneKeeps

-----------------------------------------------------------------------------
(* The steps that change who may speak for the row. *)

(* The claim is withdrawn by an administrative hand. *)
LEMMA WithdrawStands ==
    ASSUME IInv, StandInv, IInv', UNCHANGED <<granted, deployment, sess, slot, inflight, moved>>,
           row # NoRow, withdrawn',
           \/ row' = NoRow
           \/ /\ row' # NoRow /\ Fence(row') = Fence(row) /\ row'.owner = None /\ row'.proc = row.proc
              /\ row'.anchor = None \/ (row'.anchor = row.anchor /\ row'.account = row.account)
    PROVE  StandInv'
  <1>0. /\ home' = home /\ db' = db /\ NoRow' = NoRow /\ Fence(row)' = Fence(row')
        /\ \A p : Inst(p)' = Inst(p)
    BY StableTypes DEF deployment, NoRow, Fence, NoFence
  <1>1. SessionsSane' /\ FencesGranted' /\ RegistryAgrees' /\ CreatorsApart' /\ SuccessorsNewer'
    <2>1. SessionsSane'
      BY DEF StandInv, SessionsSane, Sane, NoFence
    <2>2. FencesGranted'
      BY DEF StandInv, FencesGranted, NotNewer
    <2>3. RegistryAgrees' /\ CreatorsApart'
      BY <1>0 DEF StandInv, RegistryAgrees, CreatorsApart, NoFence
    <2>4. SuccessorsNewer'
      BY <1>0 DEF StandInv, SuccessorsNewer, Standing, Older, NoFence
    <2> QED
      BY <2>1, <2>2, <2>3, <2>4
  <1>2. FenceAtHome'
    BY <1>0 DEF StandInv, FenceAtHome
  <1>3. \A s \in Sessions : ~FenceMatches(s)'
    BY <1>0, InstNotNone, SessionFacts DEF FenceMatches
  <1>4. HolderServesAccount'
    BY <1>3 DEF HolderServesAccount
  <1>5. RowOwned' /\ RowStays' /\ ForsakenByAll'
    BY <1>0 DEF RowOwned, RowStays, ForsakenByAll
  <1>6. AnchorBound'
    BY <1>0 DEF StandInv, AnchorBound
  <1> QED
    BY <1>1, <1>2, <1>4, <1>5, <1>6 DEF StandInv

(* A restart cleans up, an account is removed, or retention deletes. *)
LEMMA AdminStands ==
    ASSUME IInv, StandInv, IInv', CloseForAccount \/ Purge \/ \E p \in Procs : Start(p)
    PROVE  StandInv'
  <1>1. UNCHANGED <<granted, deployment, sess, slot, inflight, moved>>
    BY DEF CloseForAccount, Purge, Start, registry, processes
  <1>2. CASE Purge
    BY <1>1, <1>2, WithdrawStands DEF Purge
  <1>3. CASE UNCHANGED <<row, withdrawn>>
    BY <1>1, <1>3, NoneWanes DEF RowWanes
  <1>4. CASE /\ row # NoRow /\ withdrawn'
             /\ \/ row' = [row EXCEPT !.owner = None, !.lease = 0, !.state = "closed", !.anchor = None]
                \/ row' = [row EXCEPT !.owner = None, !.lease = 0, !.state = "draining"]
                \/ row' = [row EXCEPT !.account = None, !.state = "closed", !.owner = None, !.lease = 0,
                                      !.anchor = None]
    <2>1. row \in Rows
      BY <1>4, SessionFacts
    <2>2. /\ row'.id = row.id /\ row'.epoch = row.epoch /\ row'.proc = row.proc /\ row'.owner = None
          /\ row'.anchor = None \/ (row'.anchor = row.anchor /\ row'.account = row.account)
      BY <1>4, <2>1 DEF Rows
    <2>3. row' # NoRow
      BY <2>1, <2>2 DEF Rows, NoRow
    <2>4. Fence(row') = Fence(row)
      BY <1>4, <2>2, <2>3 DEF Fence
    <2> QED
      BY <1>1, <1>4, <2>2, <2>3, <2>4, WithdrawStands
  <1>5. ASSUME NEW p \in Procs, Start(p)
        PROVE  StandInv'
    <2>1. CASE row # NoRow /\ row.owner = Inst(p) /\ row.proc # p
      <3>1. withdrawn'
        BY <1>5, <2>1 DEF Start
      <3>2. \/ row' = [row EXCEPT !.owner = None, !.lease = 0, !.state = "closed", !.anchor = None]
            \/ row' = [row EXCEPT !.owner = None, !.lease = 0, !.state = "draining"]
        BY <1>5, <2>1 DEF Start
      <3> QED
        BY <1>4, <2>1, <3>1, <3>2
    <2>2. CASE ~(row # NoRow /\ row.owner = Inst(p) /\ row.proc # p)
      <3>1. UNCHANGED row
        BY <1>5, <2>2 DEF Start
      <3>2. withdrawn' <=> withdrawn
        BY <1>5, <2>2 DEF Start
      <3>3. withdrawn \in BOOLEAN /\ withdrawn' \in BOOLEAN
        BY DEF IInv, TypeOK
      <3>4. UNCHANGED withdrawn
        BY <3>2, <3>3, Zenon
      <3> QED
        BY <1>3, <3>1, <3>4
    <2> QED
      BY <2>1, <2>2
  <1>6. CASE CloseForAccount
    <2>1. withdrawn'
      BY <1>6 DEF CloseForAccount
    <2> QED
      BY <1>4, <1>6, <2>1 DEF CloseForAccount
  <1> QED
    BY <1>2, <1>5, <1>6

(* The order of fences. *)
LEMMA FenceOrder ==
    ASSUME NEW f \in Fences, NEW g \in Fences, NEW h \in Fences
    PROVE  /\ ~Older(f, f) /\ NotNewer(f, f)
           /\ Older(f, g) /\ Older(g, h) => Older(f, h)
           /\ NotNewer(f, g) /\ Older(g, h) => Older(f, h)
           /\ Older(f, g) => f # g /\ NotNewer(f, g)
           /\ Older(f, g) /\ NotNewer(g, h) => Older(f, h)
  BY DEF Fences, Older, NotNewer

(* An open session adopts the newest epoch of its process. *)
LEMMA AdoptStands ==
    ASSUME IInv, StandInv, IInv', NEW s \in Sessions, sess[s].life = "open", sess[s].pc = "idle", Adopts(s),
           sess' = [sess EXCEPT ![s].fence = Fence(row)],
           UNCHANGED <<row, slot, inflight, deployment, granted, withdrawn, moved>>
    PROVE  StandInv'
  <1>0. /\ \A t \in Sessions : sess[t] \in SessionRecords /\ home[t] \in Procs /\ sess[t].fence \in Fences
        /\ row \in Rows /\ row # NoRow /\ row.account = sess[s].acct /\ row.proc = home[s]
        /\ home' = home /\ db' = db /\ NoRow' = NoRow /\ \A p : Inst(p)' = Inst(p)
        /\ Fence(row)' = Fence(row) /\ granted \in Fences
    BY SessionFacts, StableTypes DEF Adopts, deployment, NoRow, Fence, NoFence, IInv, TypeOK, SessionRecords
  <1>1. PICK y : y = [sess[s] EXCEPT !.fence = granted]
    OBVIOUS
  <1>2. Fence(row) = granted /\ granted # NoFence /\ sess[s].fence # NoFence /\ Older(sess[s].fence, granted)
    <2>1. Fence(row) = granted /\ granted = <<row.id, row.epoch>> /\ row.id # 0
      BY <1>0, RowFacts DEF IInv, RowNewest
    <2>2. Older(sess[s].fence, granted)
      BY <1>0, <2>1 DEF Adopts, Older
    <2>3. sess[s].fence # NoFence
      BY <1>0, <2>1 DEF Adopts, NoFence
    <2> QED
      BY <2>1, <2>2, <2>3 DEF NoFence
  <1>3. /\ y.life = "open" /\ y.pc = sess[s].pc /\ y.acct = sess[s].acct /\ y.fence = granted
        /\ y.release = sess[s].release /\ y.want = sess[s].want
    BY <1>0, <1>1 DEF SessionRecords
  <1>4. \A t \in Sessions : sess'[t] = IF t = s THEN y ELSE sess[t]
    BY <1>1, <1>2, SessionFacts
  <1>5. /\ \A t \in Sessions : /\ sess'[t].life = sess[t].life /\ sess'[t].acct = sess[t].acct
                               /\ sess'[t].pc = sess[t].pc
        /\ \A t \in Sessions : Standing(t)' <=> Standing(t)
        /\ \A t \in Sessions : sess'[t].fence = IF t = s THEN granted ELSE sess[t].fence
    <2>1. ASSUME NEW t \in Sessions
          PROVE  /\ sess'[t].life = sess[t].life /\ sess'[t].acct = sess[t].acct
                 /\ sess'[t].pc = sess[t].pc
                 /\ sess'[t].fence = IF t = s THEN granted ELSE sess[t].fence
      <3>1. CASE t = s
        <4>1. sess'[t] = y /\ sess[t].life = "open"
          BY <1>4, <3>1
        <4>2. /\ sess'[t].life = y.life /\ sess'[t].acct = y.acct /\ sess'[t].fence = y.fence
              /\ sess'[t].pc = y.pc
          BY <4>1
        <4> QED
          BY <1>3, <3>1, <4>1, <4>2
      <3>2. CASE t # s
        BY <1>4, <3>2
      <3> QED
        BY <3>1, <3>2
    <2>2. \A t \in Sessions : Standing(t)' <=> Standing(t)
      BY <1>0, <2>1 DEF Standing
    <2> QED
      BY <2>1, <2>2
  <1>6. SessionsSane'
    <2>1. Sane(y, moved)
      BY <1>2, <1>3 DEF StandInv, SessionsSane, Sane
    <2>2. \A t \in Sessions : Sane(sess'[t], moved)
      BY <1>4, <2>1 DEF StandInv, SessionsSane
    <2> QED
      BY <2>2 DEF SessionsSane, Sane, NoFence
  <1>7. FencesGranted'
    <2>1. \A t \in Sessions : NotNewer(sess'[t].fence, granted)
      BY <1>0, <1>5, FenceOrder DEF StandInv, FencesGranted
    <2> QED
      BY <2>1 DEF FencesGranted, NotNewer
  <1>8. FenceAtHome'
    BY <1>0, <1>2, <1>5 DEF StandInv, FenceAtHome
  <1>9. RegistryAgrees'
    BY <1>0, <1>5, SessionFacts DEF StandInv, RegistryAgrees
  <1>10. CreatorsApart'
    BY <1>5 DEF StandInv, CreatorsApart, NoFence
  <1>11. SuccessorsNewer'
    <2> SUFFICES ASSUME moved # "detached", NEW u \in Sessions, NEW t \in Sessions,
                        Standing(u), sess[t].life = "retiring", home[u] = home[t],
                        sess'[u].fence # NoFence
                 PROVE  Older(sess'[t].fence, sess'[u].fence)
      BY <1>0, <1>5 DEF SuccessorsNewer, NoFence, Older
    <2>1. t # s /\ sess'[t].fence = sess[t].fence
      BY <1>5
    <2>2. CASE u = s
      <3>1. Older(sess[t].fence, sess[s].fence)
        BY <1>2, <2>2 DEF StandInv, SuccessorsNewer
      <3> QED
        BY <1>0, <1>2, <1>5, <2>1, <2>2, <3>1, FenceOrder
    <2>3. CASE u # s
      BY <1>5, <2>1, <2>3 DEF StandInv, SuccessorsNewer
    <2> QED
      BY <2>2, <2>3
  <1>12. HolderServesAccount'
    <2>1. \A t \in Sessions : t # s => (FenceMatches(t)' <=> FenceMatches(t))
      BY <1>0, <1>5 DEF FenceMatches
    <2> SUFFICES ASSUME moved # "detached", NEW u \in Sessions, FenceMatches(u)'
                 PROVE  /\ sess[u].life \in {"open", "retiring"} /\ sess[u].pc # "swap"
                             => sess[u].acct = row.account
                        /\ sess[u].life = "creating" =>
                             \/ sess[u].acct = row.account
                             \/ /\ moved # "none" /\ inflight[home[u]] # u
                                /\ \A t \in Sessions : Standing(t) /\ home[t] = home[u]
                                     => sess'[t].fence \in {NoFence, granted}
      BY <1>0, <1>5 DEF HolderServesAccount, NoFence
    <2>2. CASE u = s
      BY <1>0, <2>2
    <2>3. CASE u # s
      BY <1>5, <2>1, <2>3 DEF StandInv, HolderServesAccount
    <2> QED
      BY <2>2, <2>3
  <1>13. RowOwned' /\ RowStays' /\ AnchorBound'
    BY <1>0 DEF StandInv, RowOwned, RowStays, AnchorBound, NoFence
  <1>14. ForsakenByAll'
    <2> SUFFICES ASSUME moved = "none", ~withdrawn, Forsaken' PROVE FALSE
      BY DEF ForsakenByAll
    <2>1. \A t \in Sessions : Leaver(t)' => Leaver(t) /\ t # s
      BY <1>3, <1>4 DEF Leaver
    <2>2. Forsaken
      BY <1>5, <2>1 DEF Forsaken
    <2>3. Standing(s)
      BY DEF Standing
    <2> QED
      BY <1>0, <1>2, <2>2, <2>3 DEF StandInv, ForsakenByAll
  <1> QED
    BY <1>6, <1>7, <1>8, <1>9, <1>10, <1>11, <1>12, <1>13, <1>14 DEF StandInv

(* A renewal. *)
LEMMA RenewStands ==
    ASSUME IInv, StandInv, IInv', NEW s \in Sessions, Renew(s)
    PROVE  StandInv'
  <1>1. /\ UNCHANGED <<deployment, granted, withdrawn, moved, inflight>>
        /\ sess[s].life = "open" /\ sess[s].pc = "idle" /\ row # NoRow
    BY DEF Renew, processes, history
  <1>2. CASE row' = [row EXCEPT !.lease = TTL] /\ UNCHANGED <<sess, slot>>
    <2>1. row \in Rows /\ TTL \in 0..TTL
      BY <1>1, SessionFacts, OwnershipAssumption
    <2>2. /\ row' \in Rows /\ row'.id = row.id /\ row'.epoch = row.epoch /\ row'.proc = row.proc
          /\ row'.owner = row.owner /\ row'.account = row.account /\ row'.anchor = row.anchor
      BY <1>2, <2>1 DEF Rows
    <2>3. RowWanes
      BY <2>1, <2>2, SameClaim
    <2> QED
      BY <1>1, <1>2, <2>3, NoneWanes
  <1>3. CASE Adopts(s) /\ sess' = [sess EXCEPT ![s].fence = Fence(row)] /\ UNCHANGED <<row, slot>>
    BY <1>1, <1>3, AdoptStands
  <1>4. CASE /\ slot' = [slot EXCEPT ![home[s]] = IF @ = s THEN None ELSE @]
             /\ sess' = [sess EXCEPT ![s] = Leaving(s, "closing")]
             /\ UNCHANGED row
    <2>1. slot \in [Procs -> Sessions \cup {None}] /\ home[s] \in Procs /\ s # None
      BY SessionFacts, OwnershipAssumption
    <2>2. /\ \A p \in Procs : slot'[p] = slot[p] \/ (slot'[p] = None /\ slot[p] = s)
          /\ slot'[home[s]] # s
      BY <1>4, <2>1
    <2> QED
      BY <1>1, <1>4, <2>2, EvictStands
  <1> QED
    BY <1>2, <1>3, <1>4 DEF Renew

(* What the end of a reconnect makes of its session: it serves the account *)
(* it moved to, or is broken or closes.                                    *)
LEMMA ReboundPart ==
    ASSUME IInv, StandInv, NEW s \in Sessions, Rebind(s)
    PROVE  \E x : /\ sess' = [sess EXCEPT ![s] = x] /\ Sane(x, moved) /\ x.fence = sess[s].fence
                  /\ \/ x.life = sess[s].life /\ x.pc = "idle" /\ x.acct = sess[s].want
                     \/ x.life = "broken" /\ sess[s].life = "open"
                     \/ x.life = "closing" /\ sess[s].life = "retiring"
  <1>1. /\ sess[s] \in SessionRecords /\ Sane(sess[s], moved) /\ sess[s].pc = "swap"
        /\ sess[s].life \in {"open", "retiring"}
    BY SessionFacts DEF StandInv, SessionsSane, Rebind, Sane
  <1>2. CASE sess' = [sess EXCEPT ![s].pc = "idle", ![s].acct = sess[s].want, ![s].allow = "no",
                                  ![s].hand = None]
    <2>1. PICK x : x = [sess[s] EXCEPT !.pc = "idle", !.acct = sess[s].want, !.allow = "no", !.hand = None]
      OBVIOUS
    <2>2. /\ x.life = sess[s].life /\ x.pc = "idle" /\ x.acct = sess[s].want /\ x.fence = sess[s].fence
      BY <1>1, <2>1 DEF SessionRecords
    <2>3. Sane(x, moved)
      BY <1>1, <2>2 DEF Sane
    <2>4. sess' = [sess EXCEPT ![s] = x]
      BY <1>2, <2>1
    <2> QED
      BY <2>2, <2>3, <2>4
  <1>3. CASE sess' = [sess EXCEPT ![s] = Lost(s)]
    <2>1. PICK x : x = Lost(s)
      OBVIOUS
    <2>2. sess' = [sess EXCEPT ![s] = x] /\ x.fence = sess[s].fence
      BY <1>3, <2>1, LostFacts
    <2>3. CASE sess[s].life = "open"
      <3>1. x = Leaving(s, "broken") /\ moved # "none"
        BY <1>1, <2>1, <2>3 DEF Lost, Sane
      <3>2. x.life = "broken" /\ Sane(x, moved)
        BY <3>1, LeavingFacts, LeavingPart
      <3> QED
        BY <2>2, <2>3, <3>2
    <2>4. CASE sess[s].life = "retiring"
      <3>1. x = Leaving(s, "closing")
        BY <2>1, <2>4 DEF Lost
      <3>2. x.life = "closing" /\ Sane(x, moved)
        BY <3>1, LeavingFacts, LeavingPart
      <3> QED
        BY <2>2, <2>4, <3>2
    <2> QED
      BY <1>1, <2>3, <2>4
  <1> QED
    BY <1>2, <1>3 DEF Rebind

(* A reconnect binds the row to the account its session moves to. *)
LEMMA RebindStands ==
    ASSUME IInv, StandInv, IInv', NEW s \in Sessions, Rebind(s)
    PROVE  StandInv'
  <1>1. /\ sess[s].pc = "swap" /\ FenceMatches(s) /\ CompleteHandoff(s)
        /\ UNCHANGED <<slot, deployment, granted, withdrawn, moved>>
        /\ row' = [row EXCEPT !.account = sess[s].want, !.anchor = None]
    BY DEF Rebind, processes, history
  <1>2. /\ sess[s].life \in {"open", "retiring"} /\ moved # "none"
        /\ moved # "detached" => sess[s].life = "open"
    BY <1>1 DEF StandInv, SessionsSane, Sane
  <1>3. PICK x : /\ sess' = [sess EXCEPT ![s] = x] /\ Sane(x, moved) /\ x.fence = sess[s].fence
                 /\ \/ x.life = sess[s].life /\ x.pc = "idle" /\ x.acct = sess[s].want
                    \/ x.life = "broken" /\ sess[s].life = "open"
                    \/ x.life = "closing" /\ sess[s].life = "retiring"
    BY ReboundPart
  <1>4. /\ \A t \in Sessions : sess[t] \in SessionRecords /\ home[t] \in Procs /\ t # None
        /\ sess \in [Sessions -> SessionRecords]
        /\ slot \in [Procs -> Sessions \cup {None}] /\ inflight \in [Procs -> Sessions \cup {None}]
        /\ row \in Rows /\ row # NoRow
        /\ home' = home /\ db' = db /\ NoRow' = NoRow /\ \A p : Inst(p)' = Inst(p)
    BY <1>1, SessionFacts, MatchFacts, StableTypes, OwnershipAssumption DEF deployment, NoRow
  <1>5. /\ row' # NoRow /\ Fence(row)' = Fence(row) /\ row'.account = sess[s].want
        /\ row'.anchor = None /\ row'.owner = row.owner /\ row'.proc = row.proc
    <2>1. /\ row'.id = row.id /\ row'.epoch = row.epoch /\ row'.account = sess[s].want
          /\ row'.anchor = None /\ row'.owner = row.owner /\ row'.proc = row.proc
      BY <1>1, <1>4 DEF Rows
    <2>2. row' # NoRow
      BY <1>4, <2>1 DEF Rows, NoRow
    <2> QED
      BY <1>4, <2>1, <2>2 DEF Fence
  <1>6. \A p \in Procs : inflight'[p] \in {inflight[p], None}
    BY <1>1, HandoffWanes
  <1>7. \A t \in Sessions : sess'[t] = IF t = s THEN x ELSE sess[t]
    BY <1>3, <1>4
  <1>8. \A t \in Sessions : sess'[t].fence = sess[t].fence
    BY <1>3, <1>7
  <1>9. \A t \in Sessions : Standing(t)' => Standing(t)
    <2> SUFFICES ASSUME NEW t \in Sessions, Standing(t)' PROVE Standing(t)
      OBVIOUS
    <2>1. inflight'[home[t]] = t => inflight[home[t]] = t
      BY <1>4, <1>6
    <2>2. sess'[t].life \in {"open", "creating"} => sess[t].life = sess'[t].life
      BY <1>2, <1>3, <1>7
    <2> QED
      BY <1>4, <2>1, <2>2 DEF Standing
  <1>10. SessionsSane'
    <2>1. \A t \in Sessions : Sane(sess'[t], moved)
      BY <1>3, <1>7 DEF StandInv, SessionsSane
    <2> QED
      BY <1>1, <2>1 DEF SessionsSane, Sane, NoFence
  <1>11. FencesGranted' /\ FenceAtHome' /\ RegistryAgrees' /\ CreatorsApart'
    <2>1. FencesGranted'
      BY <1>1, <1>8 DEF StandInv, FencesGranted, NotNewer
    <2>2. FenceAtHome'
      BY <1>4, <1>5, <1>8 DEF StandInv, FenceAtHome
    <2>3. RegistryAgrees'
      <3>1. ASSUME NEW q \in Procs, slot'[q] # None
            PROVE  sess'[slot'[q]].life \in {"open", "broken"}
        <4>1. slot[q] \in Sessions /\ slot'[q] = slot[q] /\ sess[slot[q]].life \in {"open", "broken"}
          BY <1>1, <1>4, <3>1 DEF StandInv, RegistryAgrees
        <4> QED
          BY <1>3, <1>7, <4>1
      <3>2. \A t \in Sessions : sess'[t].life = "open" => slot'[home[t]] = t
        BY <1>1, <1>3, <1>7 DEF StandInv, RegistryAgrees
      <3>3. ASSUME NEW q \in Procs, inflight'[q] # None
            PROVE  home[inflight'[q]] = q /\ (sess'[inflight'[q]].life = "creating" => slot'[q] = None)
        <4>1. inflight'[q] = inflight[q] /\ inflight[q] \in Sessions
          BY <1>4, <1>6, <3>3
        <4>2. home[inflight[q]] = q /\ (sess[inflight[q]].life = "creating" => slot[q] = None)
          BY <3>3, <4>1 DEF StandInv, RegistryAgrees
        <4>3. sess'[inflight[q]].life = "creating" => sess[inflight[q]].life = "creating"
          BY <1>2, <1>3, <1>7, <4>1
        <4> QED
          BY <1>1, <4>1, <4>2, <4>3
      <3> QED
        BY <1>4, <3>1, <3>2, <3>3 DEF RegistryAgrees
    <2>4. CreatorsApart'
      <3>1. \A t \in Sessions : sess'[t].life = "creating" => sess[t].life = "creating"
        BY <1>2, <1>3, <1>7
      <3> QED
        BY <1>8, <3>1 DEF StandInv, CreatorsApart, NoFence
    <2> QED
      BY <2>1, <2>2, <2>3, <2>4
  <1>12. SuccessorsNewer'
    <2>1. moved # "detached" => \A t \in Sessions : sess'[t].life = "retiring" => sess[t].life = "retiring"
      BY <1>2, <1>3, <1>7
    <2> QED
      BY <1>1, <1>4, <1>8, <1>9, <2>1 DEF StandInv, SuccessorsNewer, Older, NoFence
  <1>13. HolderServesAccount'
    <2> SUFFICES ASSUME moved # "detached", NEW u \in Sessions, FenceMatches(u)'
                 PROVE  /\ sess'[u].life \in {"open", "retiring"} /\ sess'[u].pc # "swap"
                             => sess'[u].acct = row'.account
                        /\ sess'[u].life = "creating" =>
                             \/ sess'[u].acct = row'.account
                             \/ /\ moved # "none" /\ inflight'[home[u]] # u
                                /\ \A t \in Sessions : Standing(t)' /\ home[t] = home[u]
                                     => sess'[t].fence \in {NoFence, granted}
      BY <1>1, <1>4 DEF HolderServesAccount, NoFence
    <2>1. CASE u = s
      BY <1>2, <1>3, <1>5, <1>7, <2>1
    <2>2. CASE u # s
      <3>1. FenceMatches(u) /\ sess'[u] = sess[u]
        BY <1>4, <1>5, <1>7, <1>8, <2>2 DEF FenceMatches
      <3>2. /\ sess[u].fence = granted /\ sess[s].fence = granted /\ granted # NoFence
            /\ home[u] = home[s]
        BY <1>1, <3>1, MatchHome DEF StandInv
      <3>3. Standing(s) /\ sess[s].life = "open"
        BY <1>2 DEF Standing
      <3>4. \A t \in Sessions : Standing(t) /\ home[t] = home[s] => t = s
        BY <3>3, LoneStander DEF StandInv
      <3>5. sess[u].life # "open"
        BY <2>2, <3>2, <3>4 DEF Standing
      <3>6. sess[u].life # "retiring"
        <4>1. SUFFICES ASSUME sess[u].life = "retiring" PROVE FALSE
          OBVIOUS
        <4>2. Older(granted, granted)
          BY <3>2, <3>3, <4>1 DEF StandInv, SuccessorsNewer
        <4>3. granted \in Fences
          BY DEF IInv, TypeOK
        <4> QED
          BY <4>2, <4>3, FenceOrder
      <3>7. sess[u].life = "creating" => inflight'[home[u]] # u
        BY <1>4, <1>6, <2>2, <3>2, <3>4 DEF Standing
      <3>8. \A t \in Sessions : Standing(t)' /\ home[t] = home[u] => sess'[t].fence = granted
        BY <1>8, <1>9, <3>2, <3>4
      <3> QED
        BY <1>2, <3>1, <3>5, <3>6, <3>7, <3>8
    <2> QED
      BY <2>1, <2>2
  <1>14. RowOwned' /\ RowStays' /\ ForsakenByAll' /\ AnchorBound'
    BY <1>1, <1>2, <1>4, <1>5 DEF StandInv, RowOwned, RowStays, ForsakenByAll, AnchorBound
  <1> QED
    BY <1>10, <1>11, <1>12, <1>13, <1>14 DEF StandInv

(* A merge of accounts gives the row another account. *)
LEMMA MergeStands ==
    ASSUME IInv, StandInv, IInv', MergeAccounts
    PROVE  StandInv'
  <1>1. /\ UNCHANGED <<sess, slot, inflight, deployment, granted, withdrawn>> /\ row # NoRow
        /\ moved' = "detached"
    BY DEF MergeAccounts, registry, processes
  <1>2. PICK a : row' = [row EXCEPT !.account = a]
    BY DEF MergeAccounts
  <1>3. /\ row \in Rows /\ home' = home /\ NoRow' = NoRow /\ \A p : Inst(p)' = Inst(p)
        /\ NoFence' = NoFence
    BY <1>1, SessionFacts, StableTypes DEF deployment, NoRow, NoFence
  <1>4. row' # NoRow /\ Fence(row)' = Fence(row) /\ row'.owner = row.owner /\ row'.proc = row.proc
    <2>1. row'.id = row.id /\ row'.epoch = row.epoch /\ row'.owner = row.owner /\ row'.proc = row.proc
      BY <1>2, <1>3 DEF Rows
    <2>2. row' # NoRow
      BY <1>3, <2>1 DEF Rows, NoRow
    <2> QED
      BY <1>1, <1>3, <2>1, <2>2 DEF Fence
  <1>5. SessionsSane'
    <2>1. \A t \in Sessions : Sane(sess[t], moved')
      BY <1>1, SaneGrows DEF StandInv, SessionsSane, MovedGrows
    <2> QED
      BY <1>1, <2>1 DEF SessionsSane, Sane, NoFence
  <1>6. FencesGranted' /\ FenceAtHome' /\ RegistryAgrees' /\ CreatorsApart'
    <2>1. FencesGranted'
      BY <1>1 DEF StandInv, FencesGranted, NotNewer
    <2>2. FenceAtHome'
      BY <1>1, <1>3, <1>4 DEF StandInv, FenceAtHome
    <2>3. RegistryAgrees' /\ CreatorsApart'
      BY <1>1, <1>3 DEF StandInv, RegistryAgrees, CreatorsApart
    <2> QED
      BY <2>1, <2>2, <2>3
  <1>7. SuccessorsNewer' /\ HolderServesAccount' /\ ForsakenByAll' /\ AnchorBound'
    BY <1>1 DEF SuccessorsNewer, HolderServesAccount, ForsakenByAll, AnchorBound
  <1>8. RowOwned' /\ RowStays'
    BY <1>1, <1>3, <1>4 DEF StandInv, RowOwned, RowStays
  <1> QED
    BY <1>5, <1>6, <1>7, <1>8 DEF StandInv

(* A claimed creation is published. *)
LEMMA PublishStands ==
    ASSUME IInv, StandInv, IInv', NEW s \in Sessions, Publish(s)
    PROVE  StandInv'
  <1> DEFINE p == home[s]
  <1>1. /\ sess[s].pc = "claimed" /\ inflight[p] = s
        /\ inflight' = [inflight EXCEPT ![p] = None] /\ slot' = [slot EXCEPT ![p] = s]
        /\ UNCHANGED <<row, deployment, granted, withdrawn, moved>>
    BY DEF Publish, processes, history
  <1>2. /\ \A t \in Sessions : sess[t] \in SessionRecords /\ home[t] \in Procs /\ t # None
        /\ sess \in [Sessions -> SessionRecords] /\ slot \in [Procs -> Sessions \cup {None}]
        /\ inflight \in [Procs -> Sessions \cup {None}]
        /\ home' = home /\ db' = db /\ NoRow' = NoRow /\ \A q : Inst(q)' = Inst(q)
        /\ Fence(row)' = Fence(row)
    BY <1>1, SessionFacts, OwnershipAssumption, StableTypes DEF deployment, NoRow, Fence, NoFence
  <1>3. PICK y : y = [sess[s] EXCEPT !.life = "open", !.pc = "idle", !.allow = "no"]
    OBVIOUS
  <1>4. /\ y.life = "open" /\ y.pc = "idle" /\ y.acct = sess[s].acct /\ y.fence = sess[s].fence
    BY <1>2, <1>3 DEF SessionRecords
  <1>5. sess[s].life = "creating" /\ sess[s].fence # NoFence /\ slot[p] = None
    BY <1>1, <1>2 DEF StandInv, SessionsSane, Sane, RegistryAgrees
  <1>6. \A t \in Sessions : sess'[t] = IF t = s THEN y ELSE sess[t]
    BY <1>2, <1>3 DEF Publish
  <1>7. \A t \in Sessions : /\ sess'[t].life = IF t = s THEN "open" ELSE sess[t].life
                            /\ t # s => sess'[t].pc = sess[t].pc
                            /\ sess'[t].fence = sess[t].fence /\ sess'[t].acct = sess[t].acct
    BY <1>4, <1>6
  <1>8. \A t \in Sessions : Standing(t)' <=> Standing(t)
    <2> SUFFICES ASSUME NEW t \in Sessions PROVE Standing(t)' <=> Standing(t)
      OBVIOUS
    <2>1. CASE t = s
      BY <1>1, <1>5, <1>7, <2>1 DEF Standing
    <2>2. CASE t # s
      <3>1. inflight'[home[t]] = t <=> inflight[home[t]] = t
        BY <1>1, <1>2, <2>2
      <3> QED
        BY <1>2, <1>7, <2>2, <3>1 DEF Standing
    <2> QED
      BY <2>1, <2>2
  <1>9. SessionsSane'
    <2>1. Sane(y, moved)
      BY <1>4, <1>5 DEF Sane
    <2>2. \A t \in Sessions : Sane(sess'[t], moved)
      BY <1>6, <2>1 DEF StandInv, SessionsSane
    <2> QED
      BY <1>1, <2>2 DEF SessionsSane, Sane, NoFence
  <1>10. FencesGranted' /\ FenceAtHome' /\ CreatorsApart'
    <2>1. FencesGranted'
      BY <1>1, <1>7 DEF StandInv, FencesGranted, NotNewer
    <2>2. FenceAtHome'
      BY <1>1, <1>2, <1>7 DEF StandInv, FenceAtHome
    <2>3. CreatorsApart'
      BY <1>7 DEF StandInv, CreatorsApart, NoFence
    <2> QED
      BY <2>1, <2>2, <2>3
  <1>11. RegistryAgrees'
    <2>1. \A q \in Procs : slot'[q] # None => sess'[slot'[q]].life \in {"open", "broken"}
      BY <1>1, <1>2, <1>7 DEF StandInv, RegistryAgrees
    <2>2. ASSUME NEW t \in Sessions, sess'[t].life = "open"
          PROVE  slot'[home[t]] = t
      <3>1. CASE t = s
        BY <1>1, <1>2, <3>1
      <3>2. CASE t # s
        <4>1. slot[home[t]] = t
          BY <1>7, <2>2, <3>2 DEF StandInv, RegistryAgrees
        <4>2. home[t] # p
          BY <1>2, <1>5, <4>1
        <4> QED
          BY <1>1, <1>2, <4>1, <4>2
      <3> QED
        BY <3>1, <3>2
    <2>3. ASSUME NEW q \in Procs, inflight'[q] # None
          PROVE  home[inflight'[q]] = q /\ (sess'[inflight'[q]].life = "creating" => slot'[q] = None)
      <3>1. q # p /\ inflight'[q] = inflight[q] /\ slot'[q] = slot[q] /\ inflight[q] \in Sessions
        BY <1>1, <1>2, <2>3
      <3>2. home[inflight[q]] = q /\ (sess[inflight[q]].life = "creating" => slot[q] = None)
        BY <2>3, <3>1 DEF StandInv, RegistryAgrees
      <3> QED
        BY <1>7, <3>1, <3>2
    <2> QED
      BY <1>2, <2>1, <2>2, <2>3 DEF RegistryAgrees
  <1>12. SuccessorsNewer'
    BY <1>1, <1>2, <1>7, <1>8 DEF StandInv, SuccessorsNewer, Older, NoFence
  <1>13. HolderServesAccount'
    <2> SUFFICES ASSUME moved # "detached", NEW u \in Sessions, FenceMatches(u)
                 PROVE  /\ sess'[u].life \in {"open", "retiring"} /\ sess'[u].pc # "swap"
                             => sess[u].acct = row.account
                        /\ sess'[u].life = "creating" =>
                             \/ sess[u].acct = row.account
                             \/ /\ moved # "none" /\ inflight'[home[u]] # u
                                /\ \A t \in Sessions : Standing(t) /\ home[t] = home[u]
                                     => sess[t].fence \in {NoFence, granted}
      <3>1. \A t \in Sessions : FenceMatches(t)' <=> FenceMatches(t)
        BY <1>1, <1>2, <1>7 DEF FenceMatches
      <3> QED
        BY <1>1, <1>2, <1>7, <1>8, <3>1 DEF HolderServesAccount, NoFence
    <2>1. CASE u = s
      BY <1>1, <1>5, <1>7, <2>1 DEF StandInv, HolderServesAccount
    <2>2. CASE u # s
      <3>1. inflight'[home[u]] \in {inflight[home[u]], None}
        BY <1>1, <1>2
      <3> QED
        BY <1>2, <1>7, <2>2, <3>1 DEF StandInv, HolderServesAccount
    <2> QED
      BY <2>1, <2>2
  <1>14. RowOwned' /\ RowStays' /\ AnchorBound'
    BY <1>1, <1>2 DEF StandInv, RowOwned, RowStays, AnchorBound, NoFence
  <1>15. ForsakenByAll'
    <2>1. \A t \in Sessions : Leaver(t)' => Leaver(t)
      BY <1>4, <1>6 DEF Leaver
    <2>2. Forsaken' => Forsaken
      BY <1>1, <1>7, <2>1 DEF Forsaken
    <2> QED
      BY <1>1, <1>2, <1>7, <1>8, <2>2 DEF StandInv, ForsakenByAll, NoFence
  <1> QED
    BY <1>9, <1>10, <1>11, <1>12, <1>13, <1>14, <1>15 DEF StandInv

(* A creation starts, and the session it replaces leaves the registry. *)
LEMMA BeginCreateStands ==
    ASSUME IInv, StandInv, IInv', NEW s \in Sessions, BeginCreate(s)
    PROVE  StandInv'
  <1> DEFINE p == home[s]
  <1>0. PICK old : old = slot[p]
    OBVIOUS
  <1>1. /\ sess[s].life = "none" /\ inflight[p] = None
        /\ inflight' = [inflight EXCEPT ![p] = s] /\ slot' = [slot EXCEPT ![p] = None]
        /\ UNCHANGED <<row, deployment, granted, withdrawn, moved>>
    BY DEF BeginCreate, processes, history
  <1>2. /\ \A t \in Sessions : sess[t] \in SessionRecords /\ home[t] \in Procs /\ t # None
        /\ sess \in [Sessions -> SessionRecords] /\ slot \in [Procs -> Sessions \cup {None}]
        /\ inflight \in [Procs -> Sessions \cup {None}]
        /\ home' = home /\ db' = db /\ NoRow' = NoRow /\ \A q : Inst(q)' = Inst(q)
        /\ Fence(row)' = Fence(row)
    BY <1>1, SessionFacts, OwnershipAssumption, StableTypes DEF deployment, NoRow, Fence, NoFence
  <1>3. /\ old # s /\ sess[s].fence = NoFence
        /\ old # None => old \in Sessions /\ home[old] = p /\ sess[old].life \in {"open", "broken"}
    BY <1>0, <1>1, <1>2 DEF IInv, SlotHome, UnbornHoldsNone, StandInv, RegistryAgrees
  <1>a. PICK a \in Accounts, force \in BOOLEAN, l \in {"retiring", "closing"} :
           /\ sess' = [t \in Sessions |->
                       CASE t = s   -> [Blank EXCEPT !.life = "creating", !.pc = "connect",
                                          !.acct = a, !.want = a, !.seen = LookupLease,
                                          !.allow = LookupAllows(force \/ slot[p] # None)]
                         [] t = slot[p] -> Leaving(t, l)
                         [] OTHER   -> sess[t]]
           /\ slot[p] # None /\ sess[slot[p]].life = "broken" => l = "closing"
    BY DEF BeginCreate
  <1>b. PICK b, n : b = LookupAllows(force \/ slot[p] # None) /\ n = LookupLease
    OBVIOUS
  <1>4.    /\ sess' = [t \in Sessions |->
                       CASE t = s   -> [Blank EXCEPT !.life = "creating", !.pc = "connect",
                                          !.acct = a, !.want = a, !.seen = n, !.allow = b]
                         [] t = old -> Leaving(t, l)
                         [] OTHER   -> sess[t]]
           /\ old # None /\ sess[old].life = "broken" => l = "closing"
           /\ old # None => sess[old].pc = "idle"
    BY <1>0, <1>a, <1>b DEF BeginCreate
  <1>5. PICK x : x = [Blank EXCEPT !.life = "creating", !.pc = "connect", !.acct = a, !.want = a,
                                   !.seen = n, !.allow = b]
    OBVIOUS
  <1>6. /\ x.life = "creating" /\ x.pc = "connect" /\ x.acct = a /\ x.want = a /\ x.fence = NoFence
    BY <1>5 DEF Blank
  <1>7. \A t \in Sessions : sess'[t] = IF t = s THEN x ELSE IF t = old THEN Leaving(t, l) ELSE sess[t]
    <2> SUFFICES ASSUME NEW t \in Sessions
                 PROVE  sess'[t] = IF t = s THEN x ELSE IF t = old THEN Leaving(t, l) ELSE sess[t]
      OBVIOUS
    <2>1. CASE t = s
      BY <1>3, <1>4, <1>5, <2>1
    <2>2. CASE t # s /\ t = old
      BY <1>4, <2>2
    <2>3. CASE t # s /\ t # old
      BY <1>4, <2>3
    <2> QED
      BY <2>1, <2>2, <2>3
  <1>8. PICK z : old # None => z = Leaving(old, l)
    OBVIOUS
  <1>9. old # None => /\ z.life = l /\ z.fence = sess[old].fence /\ Sane(z, moved)
                      /\ l = "retiring" => z.acct = sess[old].acct
    BY <1>3, <1>8, LeavingFacts, LeavingPart
  <1>10. \A t \in Sessions : sess'[t] = IF t = s THEN x ELSE IF t = old THEN z ELSE sess[t]
    BY <1>2, <1>7, <1>8
  <1>11. /\ \A t \in Sessions : sess'[t].fence = sess[t].fence
         /\ \A t \in Sessions : t \notin {s, old} => sess'[t] = sess[t]
         /\ sess'[s] = x
    <2>1. sess'[s] = x /\ \A t \in Sessions : t \notin {s, old} => sess'[t] = sess[t]
      BY <1>10
    <2>2. ASSUME NEW t \in Sessions PROVE sess'[t].fence = sess[t].fence
      <3>1. CASE t = s
        BY <1>3, <1>6, <2>1, <3>1
      <3>2. CASE t # s /\ t = old
        <4>1. sess'[t] = z
          BY <1>10, <3>2
        <4> QED
          BY <1>2, <1>9, <3>2, <4>1
      <3>3. CASE t \notin {s, old}
        BY <2>1, <3>3
      <3> QED
        BY <3>1, <3>2, <3>3
    <2> QED
      BY <2>1, <2>2
  <1>12. old # None => sess'[old] = z
    BY <1>3, <1>10
  <1>13. \A t \in Sessions : Standing(t)' /\ home[t] = p => t = s
    <2> SUFFICES ASSUME NEW t \in Sessions, Standing(t)', home[t] = p, t # s PROVE FALSE
      OBVIOUS
    <2>1. inflight'[p] # t
      BY <1>1, <1>2
    <2>2. sess'[t].life = "open"
      BY <1>2, <2>1 DEF Standing
    <2>3. t # old
      BY <1>2, <1>9, <1>12, <2>2
    <2>4. sess[t].life = "open"
      BY <1>11, <2>2, <2>3
    <2>5. slot[p] = t
      BY <2>4 DEF StandInv, RegistryAgrees
    <2> QED
      BY <1>0, <2>3, <2>5
  <1>14. \A t \in Sessions : Standing(t)' /\ home[t] # p => Standing(t) /\ sess'[t] = sess[t]
    <2> SUFFICES ASSUME NEW t \in Sessions, Standing(t)', home[t] # p PROVE Standing(t) /\ sess'[t] = sess[t]
      OBVIOUS
    <2>1. t \notin {s, old}
      BY <1>2, <1>3
    <2>2. sess'[t] = sess[t] /\ inflight'[home[t]] = inflight[home[t]]
      BY <1>1, <1>2, <1>11, <2>1
    <2> QED
      BY <1>2, <2>2 DEF Standing
  <1>15. SessionsSane'
    <2>1. Sane(x, moved)
      BY <1>6 DEF Sane
    <2>2. \A t \in Sessions : Sane(sess'[t], moved)
      BY <1>2, <1>9, <1>10, <2>1 DEF StandInv, SessionsSane
    <2> QED
      BY <1>1, <2>2 DEF SessionsSane, Sane, NoFence
  <1>16. FencesGranted' /\ FenceAtHome'
    <2>1. FencesGranted'
      BY <1>1, <1>11 DEF StandInv, FencesGranted, NotNewer
    <2>2. FenceAtHome'
      BY <1>1, <1>2, <1>11 DEF StandInv, FenceAtHome
    <2> QED
      BY <2>1, <2>2
  <1>17. CreatorsApart'
    <2>1. \A t \in Sessions : sess'[t].life = "creating" =>
            sess'[t].fence = NoFence \/ (sess[t].life = "creating" /\ sess'[t].fence = sess[t].fence)
      <3> SUFFICES ASSUME NEW t \in Sessions, sess'[t].life = "creating"
                   PROVE  sess'[t].fence = NoFence \/ (sess[t].life = "creating" /\ sess'[t].fence = sess[t].fence)
        OBVIOUS
      <3>1. CASE t = s
        BY <1>6, <1>11, <3>1
      <3>2. CASE t = old
        BY <1>2, <1>9, <1>12, <3>2
      <3>3. CASE t \notin {s, old}
        BY <1>11, <3>3
      <3> QED
        BY <3>1, <3>2, <3>3
    <2> QED
      BY <2>1 DEF StandInv, CreatorsApart, NoFence
  <1>18. RegistryAgrees'
    <2>1. ASSUME NEW q \in Procs, slot'[q] # None
          PROVE  sess'[slot'[q]].life \in {"open", "broken"}
      <3>1. q # p /\ slot'[q] = slot[q] /\ slot[q] \in Sessions
        BY <1>1, <1>2, <2>1
      <3>2. home[slot[q]] = q /\ sess[slot[q]].life \in {"open", "broken"}
        BY <2>1, <3>1 DEF StandInv, RegistryAgrees, IInv, SlotHome
      <3>3. slot[q] \notin {s, old}
        BY <1>2, <1>3, <3>1, <3>2
      <3> QED
        BY <1>11, <3>1, <3>2, <3>3
    <2>2. ASSUME NEW t \in Sessions, sess'[t].life = "open"
          PROVE  slot'[home[t]] = t
      <3>1. Standing(t)' /\ t # s
        BY <1>6, <1>11, <2>2 DEF Standing
      <3>2. home[t] # p /\ sess'[t] = sess[t]
        BY <1>13, <1>14, <3>1
      <3> QED
        BY <1>1, <1>2, <2>2, <3>2 DEF StandInv, RegistryAgrees
    <2>3. ASSUME NEW q \in Procs, inflight'[q] # None
          PROVE  home[inflight'[q]] = q /\ (sess'[inflight'[q]].life = "creating" => slot'[q] = None)
      <3>1. CASE q = p
        BY <1>1, <1>2, <3>1
      <3>2. CASE q # p
        <4>1. inflight'[q] = inflight[q] /\ slot'[q] = slot[q] /\ inflight[q] \in Sessions
          BY <1>1, <1>2, <2>3, <3>2
        <4>2. home[inflight[q]] = q /\ (sess[inflight[q]].life = "creating" => slot[q] = None)
          BY <2>3, <4>1 DEF StandInv, RegistryAgrees
        <4>3. inflight[q] \notin {s, old}
          BY <1>2, <1>3, <3>2, <4>1, <4>2
        <4> QED
          BY <1>11, <4>1, <4>2, <4>3
      <3> QED
        BY <3>1, <3>2
    <2> QED
      BY <1>2, <2>1, <2>2, <2>3 DEF RegistryAgrees
  <1>19. SuccessorsNewer'
    <2> SUFFICES ASSUME moved # "detached", NEW u \in Sessions, NEW t \in Sessions,
                        Standing(u)', sess'[t].life = "retiring", home[u] = home[t],
                        sess'[u].fence # NoFence
                 PROVE  Older(sess[t].fence, sess[u].fence)
      BY <1>1, <1>2, <1>11 DEF SuccessorsNewer, NoFence, Older
    <2>1. u # s
      BY <1>6, <1>11
    <2>2. home[u] # p /\ Standing(u)
      BY <1>13, <1>14, <2>1
    <2>3. t \notin {s, old}
      BY <1>2, <1>3, <2>2
    <2> QED
      BY <1>11, <2>2, <2>3 DEF StandInv, SuccessorsNewer
  <1>20. HolderServesAccount'
    <2>1. \A t \in Sessions : FenceMatches(t)' <=> FenceMatches(t)
      BY <1>1, <1>2, <1>11 DEF FenceMatches
    <2> SUFFICES ASSUME moved # "detached", NEW u \in Sessions, FenceMatches(u)
                 PROVE  /\ sess'[u].life \in {"open", "retiring"} /\ sess'[u].pc # "swap"
                             => sess'[u].acct = row.account
                        /\ sess'[u].life = "creating" =>
                             \/ sess'[u].acct = row.account
                             \/ /\ moved # "none" /\ inflight'[home[u]] # u
                                /\ \A t \in Sessions : Standing(t)' /\ home[t] = home[u]
                                     => sess'[t].fence \in {NoFence, granted}
      BY <1>1, <1>2, <2>1 DEF HolderServesAccount, NoFence
    <2>2. u # s
      BY <1>3, MatchHome DEF StandInv
    <2>3. CASE u = old
      <3>1. sess'[u] = z /\ z.life = l /\ (l = "retiring" => z.acct = sess[u].acct)
        BY <1>2, <1>9, <1>12, <2>3
      <3>2. (l = "retiring" => sess[u].life = "open") /\ sess[u].pc = "idle"
        BY <1>2, <1>3, <1>4, <2>3
      <3> QED
        BY <3>1, <3>2 DEF StandInv, HolderServesAccount
    <2>4. CASE u # old
      <3>1. sess'[u] = sess[u]
        BY <1>11, <2>2, <2>4
      <3>2. ASSUME sess[u].life = "creating", sess[u].acct # row.account
            PROVE  /\ moved # "none" /\ inflight'[home[u]] # u
                   /\ \A t \in Sessions : Standing(t)' /\ home[t] = home[u]
                         => sess'[t].fence \in {NoFence, granted}
        <4>1. /\ moved # "none" /\ inflight[home[u]] # u
              /\ \A t \in Sessions : Standing(t) /\ home[t] = home[u] => sess[t].fence \in {NoFence, granted}
          BY <3>2 DEF StandInv, HolderServesAccount
        <4>2. inflight'[home[u]] # u
          BY <1>1, <1>2, <2>2, <4>1
        <4>3. ASSUME NEW t \in Sessions, Standing(t)', home[t] = home[u]
              PROVE  sess'[t].fence \in {NoFence, granted}
          BY <1>3, <1>11, <1>13, <1>14, <4>1, <4>3
        <4> QED
          BY <4>1, <4>2, <4>3
      <3>3. sess[u].life \in {"open", "retiring"} /\ sess[u].pc # "swap" => sess[u].acct = row.account
        BY DEF StandInv, HolderServesAccount
      <3> QED
        BY <3>1, <3>2, <3>3
    <2> QED
      BY <2>3, <2>4
  <1>21. RowOwned' /\ RowStays' /\ AnchorBound'
    BY <1>1, <1>2 DEF StandInv, RowOwned, RowStays, AnchorBound, NoFence
  <1>22. ForsakenByAll'
    <2> SUFFICES ASSUME moved = "none", ~withdrawn, row # NoRow, Forsaken',
                        NEW u \in Sessions, Standing(u)', home[u] = row.proc, sess'[u].fence # NoFence
                 PROVE  /\ sess'[u].fence # granted /\ sess'[u].acct # row.account
                        /\ \A c \in Sessions : sess'[c].life = "creating" => sess'[c].fence # granted
      BY <1>1, <1>2 DEF ForsakenByAll, NoFence
    <2>1. u # s /\ home[u] # p /\ Standing(u) /\ sess'[u] = sess[u]
      BY <1>6, <1>11, <1>13, <1>14
    <2>2. granted = Fence(row) /\ granted # NoFence
      BY RowFacts, SessionFacts DEF IInv, RowNewest, NoFence
    <2>3. \A t \in {s, old} \cap Sessions : sess[t].fence # granted
      BY <1>2, <1>3, <2>1, <2>2 DEF StandInv, FenceAtHome
    <2>4. Forsaken
      <3>1. ASSUME NEW t \in Sessions, Leaver(t)', sess'[t].fence = granted
            PROVE  Leaver(t) /\ sess[t].fence = granted
        <4>1. sess[t].fence = granted /\ t \notin {s, old}
          BY <1>11, <2>3, <3>1
        <4> QED
          BY <1>11, <3>1, <4>1 DEF Leaver
      <3> QED
        BY <1>1, <3>1 DEF Forsaken
    <2>5. /\ sess[u].fence # granted /\ sess[u].acct # row.account
          /\ \A c \in Sessions : sess[c].life = "creating" => sess[c].fence # granted
      BY <2>1, <2>4 DEF StandInv, ForsakenByAll
    <2>6. ASSUME NEW c \in Sessions, sess'[c].life = "creating", sess'[c].fence = granted
          PROVE  FALSE
      <3>1. c \notin {s, old}
        BY <1>11, <2>3, <2>6
      <3> QED
        BY <1>11, <2>5, <2>6, <3>1
    <2> QED
      BY <2>1, <2>5, <2>6
  <1> QED
    BY <1>15, <1>16, <1>17, <1>18, <1>19, <1>20, <1>21, <1>22 DEF StandInv

(* What the commit of a claim makes of its session: it holds the new fence *)
(* for the account it wanted or will swap to, or never heard of it.        *)
LEMMA CommittedPart ==
    ASSUME IInv, StandInv, NEW s \in Sessions, ClaimCommit(s), NEW g \in Fences, g = Fence(ClaimedRow(s)),
           g # NoFence
    PROVE  \E x : /\ sess' = [sess EXCEPT ![s] = x] /\ Sane(x, moved)
                  /\ \/ /\ x.fence = g /\ x.life = sess[s].life
                        /\ IF x.life = "creating" THEN x.acct = sess[s].want ELSE x.pc = "swap"
                     \/ /\ x.fence = sess[s].fence /\ x.life \in {"creating", "broken", "closing"}
                        /\ x.life = "creating" => sess[s].life = "creating" /\ x.fence = NoFence
                        /\ x.life = "closing" => sess[s].life = "retiring"
                        /\ x.life = "broken" => sess[s].life = "open"
  <1>1. sess[s] \in SessionRecords /\ Sane(sess[s], moved) /\ sess[s].pc = "read"
        /\ sess[s].life \in {"creating", "open", "retiring"}
    BY SessionFacts DEF StandInv, SessionsSane, ClaimCommit, Sane
  <1>2. CASE sess' = [sess EXCEPT ![s] = Won(s, Fence(row'))]
    <2>1. PICK x : x = Won(s, g)
      OBVIOUS
    <2>2. sess' = [sess EXCEPT ![s] = x]
      BY <1>2, <2>1 DEF ClaimCommit
    <2>3. CASE sess[s].life = "creating"
      <3>1. x = [sess[s] EXCEPT !.pc = "claimed", !.snap = NoRow, !.tries = 0, !.fence = g]
        BY <2>1, <2>3 DEF Won
      <3>2. /\ x.life = sess[s].life /\ x.fence = g /\ x.acct = sess[s].acct /\ x.want = sess[s].want
            /\ x.pc = "claimed"
        BY <1>1, <3>1 DEF SessionRecords
      <3>3. x.acct = sess[s].want /\ Sane(x, moved)
        BY <1>1, <2>3, <3>2 DEF Sane
      <3> QED
        BY <2>2, <2>3, <3>2, <3>3
    <2>4. CASE sess[s].life # "creating"
      <3>1. x = [sess[s] EXCEPT !.pc = "swap", !.snap = NoRow, !.tries = 0, !.fence = g]
        BY <2>1, <2>4 DEF Won
      <3>2. x.life = sess[s].life /\ x.fence = g /\ x.pc = "swap" /\ x.want = sess[s].want
        BY <1>1, <3>1 DEF SessionRecords
      <3>3. Sane(x, moved)
        BY <1>1, <2>4, <3>2 DEF Sane
      <3> QED
        BY <2>2, <2>4, <3>2, <3>3
    <2> QED
      BY <2>3, <2>4
  <1>3. CASE sess' = [sess EXCEPT ![s] = Lost(s)]
    <2>1. PICK x : x = Lost(s)
      OBVIOUS
    <2>2. sess' = [sess EXCEPT ![s] = x] /\ x.fence = sess[s].fence
      BY <1>3, <2>1, LostFacts
    <2>3. CASE sess[s].life = "creating"
      <3>1. x = [sess[s] EXCEPT !.pc = "failed", !.snap = NoRow, !.tries = 0]
        BY <2>1, <2>3 DEF Lost
      <3>2. x.life = "creating" /\ x.acct = sess[s].acct /\ x.want = sess[s].want /\ x.pc = "failed"
        BY <1>1, <2>3, <3>1 DEF SessionRecords
      <3>3. Sane(x, moved) /\ x.fence = NoFence
        BY <1>1, <2>2, <2>3, <3>2 DEF Sane
      <3> QED
        BY <2>2, <2>3, <3>2, <3>3
    <2>4. CASE sess[s].life = "open"
      <3>1. x = Leaving(s, "broken") /\ moved # "none"
        BY <1>1, <2>1, <2>4 DEF Lost, Sane
      <3>2. x.life = "broken" /\ Sane(x, moved)
        BY <3>1, LeavingFacts, LeavingPart
      <3> QED
        BY <2>2, <2>4, <3>2
    <2>5. CASE sess[s].life = "retiring"
      <3>1. x = Leaving(s, "closing")
        BY <2>1, <2>5 DEF Lost
      <3>2. x.life = "closing" /\ Sane(x, moved)
        BY <3>1, LeavingFacts, LeavingPart
      <3> QED
        BY <2>2, <2>5, <3>2
    <2> QED
      BY <1>1, <2>3, <2>4, <2>5
  <1> QED
    BY <1>2, <1>3 DEF ClaimCommit

(* The anchor that survives a claim is one of the account it is for. *)
LEMMA ClaimedAnchor ==
    ASSUME IInv, StandInv, NEW s \in Sessions, ClaimCommit(s), db = "postgres", moved # "detached",
           ClaimedRow(s).anchor # None
    PROVE  ClaimedRow(s).anchor = ClaimedRow(s).account
  <1>1. /\ ClaimedRow(s).account = sess[s].want
        /\ ClaimedRow(s).anchor = IF KeepsContinuity(s) THEN row.anchor ELSE None
    BY DEF ClaimedRow
  <1>2. KeepsContinuity(s) /\ row.anchor # None
    BY <1>1
  <1>3. sess[s].pc = "read" /\ sess[s].snap # NoRow /\ sess[s].snap.account = sess[s].want
    BY <1>2 DEF KeepsContinuity, ClaimCommit
  <1>4. row # NoRow /\ row.account = sess[s].snap.account
    BY <1>3 DEF IInv, LockHeld, Locks, SameButLease
  <1>5. row.anchor = row.account
    BY <1>2, <1>4 DEF StandInv, AnchorBound
  <1> QED
    BY <1>1, <1>2, <1>3, <1>4, <1>5

(* A claim commits. *)
LEMMA CommitStands ==
    ASSUME IInv, StandInv, IInv', NEW s \in Sessions, ClaimCommit(s)
    PROVE  StandInv'
  <1>0. PICK c : c = ClaimedRow(s)
    OBVIOUS
  <1>1. /\ c \in Rows /\ c # NoRow /\ Fence(c) \in Fences /\ c.proc = home[s] /\ c.owner = Inst(home[s])
        /\ c.account = sess[s].want /\ F!Newer(Fence(c), granted)
    BY <1>0, ClaimedFacts, RowFacts DEF ClaimedRow
  <1>2. PICK g \in Fences : g = Fence(c)
    BY <1>1
  <1>3. /\ row' = c /\ granted' = g /\ ~withdrawn' /\ UNCHANGED <<slot, deployment, moved>>
        /\ UNCHANGED inflight \/ CompleteHandoff(s)
        /\ sess[s].pc = "read"
    BY <1>0, <1>2 DEF ClaimCommit, processes
  <1>4. /\ \A t \in Sessions : sess[t] \in SessionRecords /\ home[t] \in Procs /\ t # None
                               /\ sess[t].fence \in Fences
        /\ sess \in [Sessions -> SessionRecords] /\ granted \in Fences
        /\ slot \in [Procs -> Sessions \cup {None}] /\ inflight \in [Procs -> Sessions \cup {None}]
        /\ home' = home /\ db' = db /\ NoRow' = NoRow /\ \A q : Inst(q)' = Inst(q)
        /\ NoFence' = NoFence /\ Fence(row)' = g
    BY <1>2, <1>3, SessionFacts, OwnershipAssumption, StableTypes
       DEF deployment, NoRow, Fence, NoFence, IInv, TypeOK, SessionRecords
  <1>5. Older(granted, g) /\ g # NoFence
    <2>1. Older(granted, g)
      BY <1>1, <1>2, <1>4 DEF F!Newer, Older, Fences
    <2>2. g # NoFence
      BY <1>4, <2>1 DEF Older, NoFence, Fences
    <2> QED
      BY <2>1, <2>2
  <1>6. \A t \in Sessions : Older(sess[t].fence, g) /\ sess[t].fence # g
    BY <1>2, <1>4, <1>5, FenceOrder DEF StandInv, FencesGranted
  <1>7. PICK x : /\ sess' = [sess EXCEPT ![s] = x] /\ Sane(x, moved)
                 /\ \/ /\ x.fence = g /\ x.life = sess[s].life
                       /\ IF x.life = "creating" THEN x.acct = sess[s].want ELSE x.pc = "swap"
                    \/ /\ x.fence = sess[s].fence /\ x.life \in {"creating", "broken", "closing"}
                       /\ x.life = "creating" => sess[s].life = "creating" /\ x.fence = NoFence
                       /\ x.life = "closing" => sess[s].life = "retiring"
                       /\ x.life = "broken" => sess[s].life = "open"
    BY <1>0, <1>2, <1>5, CommittedPart
  <1>8. \A t \in Sessions : sess'[t] = IF t = s THEN x ELSE sess[t]
    BY <1>4, <1>7
  <1>9. /\ sess[s].life \in {"creating", "open", "retiring"}
        /\ moved # "detached" => sess[s].life # "retiring"
        /\ moved = "none" => sess[s].life = "creating"
    BY <1>3 DEF StandInv, SessionsSane, Sane
  <1>10. \A p \in Procs : inflight'[p] \in {inflight[p], None}
    BY <1>3, HandoffWanes
  <1>11. /\ x.life \in {"creating", "open"} => sess[s].life = x.life
         /\ \A t \in Sessions : Standing(t)' => Standing(t)
    <2>1. x.life \in {"creating", "open"} => sess[s].life = x.life
      BY <1>7
    <2>2. ASSUME NEW t \in Sessions, Standing(t)' PROVE Standing(t)
      <3>1. inflight'[home[t]] = t => inflight[home[t]] = t
        BY <1>4, <1>10
      <3>2. sess'[t].life \in {"creating", "open"} => sess[t].life = sess'[t].life
        BY <1>8, <2>1
      <3> QED
        BY <1>4, <2>2, <3>1, <3>2 DEF Standing
    <2> QED
      BY <2>1, <2>2
  <1>12. SessionsSane'
    <2>1. \A t \in Sessions : Sane(sess'[t], moved)
      BY <1>7, <1>8 DEF StandInv, SessionsSane
    <2> QED
      BY <1>3, <2>1 DEF SessionsSane, Sane, NoFence
  <1>13. FencesGranted'
    <2>1. \A t \in Sessions : sess'[t].fence \in {sess[t].fence, g}
      BY <1>7, <1>8
    <2>2. \A t \in Sessions : NotNewer(sess'[t].fence, g)
      BY <1>2, <1>4, <1>6, <2>1, FenceOrder
    <2> QED
      BY <1>3, <2>2 DEF FencesGranted, NotNewer
  <1>14. \A t \in Sessions : sess'[t].fence = g =>
           /\ t = s /\ x.life = sess[s].life
           /\ IF x.life = "creating" THEN x.acct = sess[s].want ELSE x.pc = "swap"
    BY <1>6, <1>7, <1>8
  <1>15. FenceAtHome' /\ RowOwned' /\ RowStays'
    BY <1>1, <1>3, <1>4, <1>14 DEF FenceAtHome, RowOwned, RowStays
  <1>16. RegistryAgrees'
    <2>1. ASSUME NEW q \in Procs, slot'[q] # None
          PROVE  sess'[slot'[q]].life \in {"open", "broken"}
      <3>1. slot[q] \in Sessions /\ slot'[q] = slot[q] /\ sess[slot[q]].life \in {"open", "broken"}
        BY <1>3, <1>4, <2>1 DEF StandInv, RegistryAgrees
      <3>2. CASE slot[q] = s
        <4>1. x.life \in {"open", "broken"}
          BY <1>7, <1>9, <3>1, <3>2
        <4> QED
          BY <1>8, <3>1, <3>2, <4>1
      <3>3. CASE slot[q] # s
        BY <1>8, <3>1, <3>3
      <3> QED
        BY <3>2, <3>3
    <2>2. \A t \in Sessions : sess'[t].life = "open" => slot'[home[t]] = t
      BY <1>3, <1>8, <1>11 DEF StandInv, RegistryAgrees
    <2>3. ASSUME NEW q \in Procs, inflight'[q] # None
          PROVE  home[inflight'[q]] = q /\ (sess'[inflight'[q]].life = "creating" => slot'[q] = None)
      <3>1. inflight'[q] = inflight[q] /\ inflight[q] \in Sessions
        BY <1>4, <1>10, <2>3
      <3>2. home[inflight[q]] = q /\ (sess[inflight[q]].life = "creating" => slot[q] = None)
        BY <2>3, <3>1 DEF StandInv, RegistryAgrees
      <3>3. sess'[inflight[q]].life = "creating" => sess[inflight[q]].life = "creating"
        BY <1>8, <1>11, <3>1
      <3> QED
        BY <1>3, <3>1, <3>2, <3>3
    <2> QED
      BY <1>4, <2>1, <2>2, <2>3 DEF RegistryAgrees
  <1>17. CreatorsApart'
    <2> SUFFICES ASSUME NEW t \in Sessions, NEW u \in Sessions, sess'[t].life = "creating",
                        sess'[u].life = "creating", sess'[t].fence = sess'[u].fence, t # u
                 PROVE  sess'[t].fence = NoFence
      BY <1>4 DEF CreatorsApart
    <2>1. CASE t # s /\ u # s
      BY <1>8, <2>1 DEF StandInv, CreatorsApart
    <2>2. CASE t = s \/ u = s
      <3>1. x.fence # g
        BY <1>8, <1>14, <2>2
      <3>2. x.life = "creating" /\ x.fence = sess'[t].fence
        BY <1>8, <2>2
      <3> QED
        BY <1>7, <3>1, <3>2
    <2> QED
      BY <2>1, <2>2
  <1>18. SuccessorsNewer'
    <2> SUFFICES ASSUME moved # "detached", NEW u \in Sessions, NEW t \in Sessions,
                        Standing(u)', sess'[t].life = "retiring", home[u] = home[t],
                        sess'[u].fence # NoFence
                 PROVE  Older(sess'[t].fence, sess'[u].fence)
      BY <1>3, <1>4 DEF SuccessorsNewer, Older
    <2>1. t # s /\ sess'[t] = sess[t]
      BY <1>7, <1>8, <1>9
    <2>2. CASE u = s
      <3>1. x.life \in {"creating", "open"} /\ x.fence # NoFence
        BY <1>8, <2>2 DEF Standing
      <3>2. x.fence = g
        BY <1>7, <3>1
      <3> QED
        BY <1>6, <1>8, <2>1, <2>2, <3>2
    <2>3. CASE u # s
      BY <1>8, <1>11, <2>1, <2>3 DEF StandInv, SuccessorsNewer
    <2> QED
      BY <2>2, <2>3
  <1>19. HolderServesAccount'
    <2>1. ASSUME NEW u \in Sessions, FenceMatches(u)'
          PROVE  sess'[u].acct = row'.account \/ (sess'[u].life # "creating" /\ sess'[u].pc = "swap")
      <3>1. sess'[u].fence = g
        BY <1>4, <2>1 DEF FenceMatches
      <3>2. u = s /\ IF x.life = "creating" THEN x.acct = sess[s].want ELSE x.pc = "swap"
        BY <1>14, <3>1
      <3> QED
        BY <1>1, <1>3, <1>8, <3>2
    <2> QED
      BY <2>1 DEF HolderServesAccount
  <1>20. ForsakenByAll'
    <2> SUFFICES ASSUME moved = "none", Forsaken' PROVE FALSE
      BY <1>3 DEF ForsakenByAll
    <2>1. row'.owner # None
      BY <1>1, <1>3, <1>4, InstNotNone
    <2>2. PICK t \in Sessions : Leaver(t)' /\ sess'[t].fence = g
      BY <1>3, <2>1 DEF Forsaken
    <2>3. t = s /\ x.life = "creating"
      BY <1>9, <1>14, <2>2
    <2> QED
      BY <1>8, <2>2, <2>3 DEF Leaver
  <1>21. AnchorBound'
    BY <1>0, <1>3, <1>4, ClaimedAnchor DEF AnchorBound
  <1> QED
    BY <1>12, <1>13, <1>15, <1>16, <1>17, <1>18, <1>19, <1>20, <1>21 DEF StandInv

(* What the settling of a failed creation makes of the sessions: the        *)
(* creation closes, and its fence may pass to the session registered        *)
(* beside it.                                                               *)
LEMMA SettledParts ==
    ASSUME IInv, StandInv, NEW s \in Sessions, Settle(s)
    PROVE  \E h, q :
             /\ h \in BOOLEAN
             /\ h => /\ q \in Sessions /\ q # s /\ home[q] = home[s] /\ Superseded(s)
                     /\ sess[q].life \in {"open", "broken"} /\ sess[q].acct = sess[s].acct
                     /\ Older(sess[q].fence, sess[s].fence)
             /\ sess'[s].life = "closing" /\ sess'[s].pc = "idle" /\ sess'[s].release = ~Superseded(s)
             /\ sess'[s].fence = sess[s].fence
             /\ \A t \in Sessions : t # s =>
                  /\ sess'[t].life = sess[t].life /\ sess'[t].pc = sess[t].pc
                  /\ sess'[t].acct = sess[t].acct /\ sess'[t].want = sess[t].want
                  /\ sess'[t].release = sess[t].release
                  /\ sess'[t].fence = IF h /\ t = q THEN sess[s].fence ELSE sess[t].fence
  <1> DEFINE p == home[s]
             r == slot[p]
             handsOver == /\ Superseded(s)
                          /\ r \notin {None, s}
                          /\ sess[s].fence[1] = sess[r].fence[1]
                          /\ sess[s].fence[2] > sess[r].fence[2]
                          /\ sess[s].acct = sess[r].acct
  <1>1. /\ p \in Procs /\ sess \in [Sessions -> SessionRecords] /\ sess[s] \in SessionRecords
        /\ r \in Sessions \cup {None} /\ home[s] = p
        /\ r # None => home[r] = p /\ sess[r].life \in {"open", "broken"}
    BY SessionFacts DEF IInv, SlotHome, StandInv, RegistryAgrees
  <1>2. PICK x : x = [Leaving(s, "closing") EXCEPT !.release = ~Superseded(s)]
    OBVIOUS
  <1>3. x.fence = sess[s].fence /\ x.life = "closing" /\ x.pc = "idle" /\ x.release = ~Superseded(s)
    <2>1. Leaving(s, "closing") \in SessionRecords
      BY LeavingFacts
    <2>2. x.fence = Leaving(s, "closing").fence /\ x.life = Leaving(s, "closing").life
          /\ x.pc = Leaving(s, "closing").pc /\ x.release = ~Superseded(s)
      BY <1>2, <2>1 DEF SessionRecords
    <2> QED
      BY <2>2, LeavingFacts
  <1>4. sess' = [t \in Sessions |->
                   CASE t = s -> [Leaving(s, "closing") EXCEPT !.release = ~Superseded(s)]
                     [] t = r /\ handsOver -> [sess[t] EXCEPT !.fence = sess[s].fence]
                     [] OTHER -> sess[t]]
    BY DEF Settle
  <1>5. PICK h, q : h \in BOOLEAN /\ h = handsOver /\ q = r
    OBVIOUS
  <1>6. h => /\ q \in Sessions /\ q # s /\ home[q] = home[s] /\ Superseded(s)
             /\ sess[q].life \in {"open", "broken"} /\ sess[q].acct = sess[s].acct
    BY <1>1, <1>5
  <1>7. h => Older(sess[q].fence, sess[s].fence)
    <2>1. h => sess[q].fence \in Fences /\ sess[s].fence \in Fences
      BY <1>1, <1>6 DEF SessionRecords
    <2> QED
      BY <1>5, <2>1 DEF Older, Fences
  <1>8. \A t \in Sessions :
          sess'[t] = IF t = s THEN x
                     ELSE IF h /\ t = q THEN [sess[t] EXCEPT !.fence = sess[s].fence] ELSE sess[t]
    <2> SUFFICES ASSUME NEW t \in Sessions
                 PROVE  sess'[t] = IF t = s THEN x
                        ELSE IF h /\ t = q THEN [sess[t] EXCEPT !.fence = sess[s].fence] ELSE sess[t]
      OBVIOUS
    <2> HIDE DEF r, handsOver
    <2>0. handsOver => r # s
      BY <1>5, <1>6
    <2>1. CASE t = s
      BY <1>2, <1>4, <2>1, <2>0
    <2>2. CASE t # s /\ handsOver /\ t = r
      BY <1>4, <1>5, <2>2
    <2>3. CASE t # s /\ ~(handsOver /\ t = r)
      BY <1>4, <1>5, <2>3
    <2> QED
      BY <2>1, <2>2, <2>3
  <1> HIDE DEF r, handsOver, p
  <1>9. ASSUME NEW t \in Sessions, t # s
        PROVE  /\ sess'[t].life = sess[t].life /\ sess'[t].pc = sess[t].pc
               /\ sess'[t].acct = sess[t].acct /\ sess'[t].want = sess[t].want
               /\ sess'[t].release = sess[t].release
               /\ sess'[t].fence = IF h /\ t = q THEN sess[s].fence ELSE sess[t].fence
    <2>1. CASE h /\ t = q
      <3>1. PICK y : y = [sess[t] EXCEPT !.fence = sess[s].fence]
        OBVIOUS
      <3>2. /\ y.fence = sess[s].fence /\ y.life = sess[t].life /\ y.pc = sess[t].pc
            /\ y.acct = sess[t].acct /\ y.want = sess[t].want /\ y.release = sess[t].release
        BY <1>1, <3>1 DEF SessionRecords
      <3>3. sess'[t] = y
        BY <1>8, <1>9, <2>1, <3>1
      <3> QED
        BY <2>1, <3>2, <3>3
    <2>2. CASE ~(h /\ t = q)
      BY <1>8, <1>9, <2>2
    <2> QED
      BY <2>1, <2>2
  <1>10. sess'[s] = x
    BY <1>8
  <1> QED
    BY <1>3, <1>5, <1>6, <1>7, <1>9, <1>10

(* A failed creation settles. *)
LEMMA SettleStands ==
    ASSUME IInv, StandInv, IInv', NEW s \in Sessions, Settle(s)
    PROVE  StandInv'
  <1>1. /\ \A t \in Sessions : sess[t] \in SessionRecords /\ home[t] \in Procs /\ t # None
                               /\ sess[t].fence \in Fences
        /\ granted \in Fences /\ inflight \in [Procs -> Sessions \cup {None}]
        /\ slot \in [Procs -> Sessions \cup {None}]
        /\ row' = row /\ slot' = slot /\ granted' = granted /\ withdrawn' = withdrawn /\ moved' = moved
        /\ home' = home /\ db' = db /\ NoRow' = NoRow /\ \A p : Inst(p)' = Inst(p)
        /\ NoFence' = NoFence /\ Fence(row)' = Fence(row)
    BY SessionFacts, OwnershipAssumption, StableTypes
       DEF Settle, processes, history, deployment, NoRow, Fence, NoFence, IInv, TypeOK, SessionRecords
  <1>2. \A p \in Procs : inflight'[p] \in {inflight[p], None}
    BY <1>1 DEF Settle
  <1>3. sess[s].life = "creating" /\ Sane(sess[s], moved)
    BY DEF Settle, StandInv, SessionsSane, Sane
  <1>4. PICK h, q :
             /\ h \in BOOLEAN
             /\ h => /\ q \in Sessions /\ q # s /\ home[q] = home[s] /\ Superseded(s)
                     /\ sess[q].life \in {"open", "broken"} /\ sess[q].acct = sess[s].acct
                     /\ Older(sess[q].fence, sess[s].fence)
             /\ sess'[s].life = "closing" /\ sess'[s].pc = "idle" /\ sess'[s].release = ~Superseded(s)
             /\ sess'[s].fence = sess[s].fence
             /\ \A t \in Sessions : t # s =>
                  /\ sess'[t].life = sess[t].life /\ sess'[t].pc = sess[t].pc
                  /\ sess'[t].acct = sess[t].acct /\ sess'[t].want = sess[t].want
                  /\ sess'[t].release = sess[t].release
                  /\ sess'[t].fence = IF h /\ t = q THEN sess[s].fence ELSE sess[t].fence
    BY SettledParts
  <1>5. h => /\ Older(sess[q].fence, granted) /\ sess[q].fence # granted /\ sess[s].fence # NoFence
             /\ sess[q].life = "open" => sess[q].fence # NoFence
    <2>1. h => Older(sess[q].fence, granted) /\ sess[q].fence # granted
      BY <1>1, <1>4, FenceOrder DEF StandInv, FencesGranted
    <2>2. h => sess[s].fence # NoFence
      BY <1>1, <1>4 DEF Older, NoFence, Fences
    <2>3. h => (sess[q].life = "open" => sess[q].fence # NoFence)
      BY <1>4 DEF StandInv, SessionsSane, Sane
    <2> QED
      BY <2>1, <2>2, <2>3
  <1>6. \A t \in Sessions : sess'[t].life \in {"creating", "retiring"} =>
          t # s /\ sess'[t].fence = sess[t].fence
    BY <1>4
  <1>7. \A t \in Sessions : Standing(t)' => /\ Standing(t) /\ t # s /\ sess'[t].life = sess[t].life
                                            /\ (h /\ t = q) => sess[q].life = "open"
    BY <1>1, <1>2, <1>4 DEF Standing
  <1>8. SessionsSane'
    <2>1. ASSUME NEW t \in Sessions PROVE Sane(sess'[t], moved)
      <3>0. Sane(sess[t], moved)
        BY DEF StandInv, SessionsSane
      <3>1. CASE t = s
        BY <1>4, <3>1 DEF Sane
      <3>2. CASE t # s /\ ~(h /\ t = q)
        BY <1>4, <3>0, <3>2 DEF Sane
      <3>3. CASE t # s /\ h /\ t = q
        <4>1. sess'[t].fence # NoFence /\ sess'[t].life \in {"open", "broken"}
          BY <1>4, <1>5, <3>3
        <4> QED
          BY <1>4, <3>0, <3>3, <4>1 DEF Sane
      <3> QED
        BY <3>1, <3>2, <3>3
    <2> QED
      BY <1>1, <2>1 DEF SessionsSane, Sane
  <1>9. FencesGranted'
    <2>1. \A t \in Sessions : NotNewer(sess'[t].fence, granted)
      BY <1>4 DEF StandInv, FencesGranted
    <2> QED
      BY <1>1, <2>1 DEF FencesGranted, NotNewer
  <1>10. FenceAtHome' /\ RowOwned' /\ RowStays' /\ AnchorBound'
    <2>1. FenceAtHome'
      BY <1>1, <1>4 DEF StandInv, FenceAtHome
    <2>2. RowOwned' /\ RowStays' /\ AnchorBound'
      BY <1>1 DEF StandInv, RowOwned, RowStays, AnchorBound
    <2> QED
      BY <2>1, <2>2
  <1>11. RegistryAgrees'
    <2>1. \A p \in Procs : slot[p] # None => /\ slot[p] \in Sessions /\ slot[p] # s
                                             /\ sess[slot[p]].life \in {"open", "broken"}
      BY <1>1, <1>3 DEF StandInv, RegistryAgrees
    <2>2. \A p \in Procs : slot'[p] # None => sess'[slot'[p]].life \in {"open", "broken"}
      BY <1>1, <1>4, <2>1
    <2>3. \A t \in Sessions : sess'[t].life = "open" => slot'[home[t]] = t
      BY <1>1, <1>4 DEF StandInv, RegistryAgrees
    <2>4. ASSUME NEW p \in Procs, inflight'[p] # None
          PROVE  home[inflight'[p]] = p /\ (sess'[inflight'[p]].life = "creating" => slot'[p] = None)
      <3>1. inflight'[p] = inflight[p] /\ inflight[p] \in Sessions
        BY <1>1, <1>2, <2>4
      <3>2. home[inflight[p]] = p /\ (sess[inflight[p]].life = "creating" => slot[p] = None)
        BY <2>4, <3>1 DEF StandInv, RegistryAgrees
      <3>3. sess'[inflight[p]].life = "creating" => sess[inflight[p]].life = "creating"
        BY <1>4, <3>1
      <3> QED
        BY <1>1, <3>1, <3>2, <3>3
    <2> QED
      BY <1>1, <2>2, <2>3, <2>4 DEF RegistryAgrees
  <1>12. CreatorsApart'
    <2>1. \A t \in Sessions : sess'[t].life = "creating" =>
            sess[t].life = "creating" /\ sess'[t].fence = sess[t].fence
      BY <1>4, <1>6
    <2> QED
      BY <1>1, <2>1 DEF StandInv, CreatorsApart
  <1>13. SuccessorsNewer'
    <2> SUFFICES ASSUME moved # "detached", NEW u \in Sessions, NEW t \in Sessions,
                        Standing(u)', sess'[t].life = "retiring", home[u] = home[t],
                        sess'[u].fence # NoFence
                 PROVE  Older(sess'[t].fence, sess'[u].fence)
      BY <1>1 DEF SuccessorsNewer, Older
    <2>1. sess[t].life = "retiring" /\ sess'[t].fence = sess[t].fence /\ Standing(u) /\ u # s
      BY <1>4, <1>6, <1>7
    <2>2. CASE h /\ u = q
      <3>1. sess[q].fence # NoFence
        BY <1>5, <1>7, <2>2
      <3>2. Older(sess[t].fence, sess[q].fence)
        BY <2>1, <2>2, <3>1 DEF StandInv, SuccessorsNewer
      <3>3. Older(sess[t].fence, sess[s].fence)
        BY <1>1, <1>4, <2>2, <3>2, FenceOrder
      <3> QED
        BY <1>4, <2>1, <2>2, <3>3
    <2>3. CASE ~(h /\ u = q)
      BY <1>4, <2>1, <2>3 DEF StandInv, SuccessorsNewer
    <2> QED
      BY <2>2, <2>3
  <1>14. HolderServesAccount'
    <2> SUFFICES ASSUME moved # "detached", NEW u \in Sessions, FenceMatches(u)'
                 PROVE  /\ sess'[u].life \in {"open", "retiring"} /\ sess'[u].pc # "swap"
                             => sess'[u].acct = row.account
                        /\ sess'[u].life = "creating" =>
                             \/ sess'[u].acct = row.account
                             \/ /\ moved # "none" /\ inflight'[home[u]] # u
                                /\ \A t \in Sessions : Standing(t)' /\ home[t] = home[u]
                                     => sess'[t].fence \in {NoFence, granted}
      BY <1>1 DEF HolderServesAccount
    <2>1. row # NoRow /\ Fence(row) = sess'[u].fence /\ row.owner = Inst(home[u])
      BY <1>1 DEF FenceMatches
    <2>2. CASE u = s
      BY <1>4, <2>2
    <2>3. CASE u # s /\ ~(h /\ u = q)
      <3>1. FenceMatches(u)
        BY <1>4, <2>1, <2>3 DEF FenceMatches
      <3>2. ASSUME sess[u].life = "creating", sess[u].acct # row.account
            PROVE  /\ moved # "none" /\ inflight'[home[u]] # u
                   /\ \A t \in Sessions : Standing(t)' /\ home[t] = home[u]
                        => sess'[t].fence \in {NoFence, granted}
        <4>1. /\ moved # "none" /\ inflight[home[u]] # u
              /\ \A t \in Sessions : Standing(t) /\ home[t] = home[u] => sess[t].fence \in {NoFence, granted}
          BY <3>1, <3>2 DEF StandInv, HolderServesAccount
        <4>2. inflight'[home[u]] # u
          BY <1>1, <1>2, <4>1
        <4>3. ASSUME NEW t \in Sessions, Standing(t)', home[t] = home[u]
              PROVE  sess'[t].fence \in {NoFence, granted}
          <5>1. sess[t].fence \in {NoFence, granted} /\ t # s
            BY <1>7, <4>1, <4>3
          <5>2. ~(h /\ t = q)
            BY <1>5, <1>7, <4>3, <5>1
          <5> QED
            BY <1>4, <5>1, <5>2
        <4> QED
          BY <4>1, <4>2, <4>3
      <3>3. sess[u].life \in {"open", "retiring"} /\ sess[u].pc # "swap" => sess[u].acct = row.account
        BY <3>1 DEF StandInv, HolderServesAccount
      <3> QED
        BY <1>4, <2>3, <3>2, <3>3
    <2>4. CASE u # s /\ h /\ u = q
      <3>1. FenceMatches(s)
        BY <1>4, <2>1, <2>4 DEF FenceMatches
      <3>2. ASSUME sess[q].life = "open" PROVE sess[s].acct = row.account
        <4>1. Standing(q) /\ home[q] = home[s] /\ q \in Sessions /\ sess[q].fence \notin {NoFence, granted}
          BY <1>4, <1>5, <2>4, <3>2 DEF Standing
        <4> QED
          BY <1>3, <3>1, <4>1 DEF StandInv, HolderServesAccount
      <3>3. sess[q].life \in {"open", "broken"} /\ sess'[u].life = sess[q].life
            /\ sess'[u].acct = sess[s].acct
        BY <1>4, <2>4
      <3> QED
        BY <3>2, <3>3
    <2> QED
      BY <2>2, <2>3, <2>4
  <1>15. ForsakenByAll'
    <2> SUFFICES ASSUME moved = "none", ~withdrawn, row # NoRow, Forsaken', NEW u \in Sessions,
                        Standing(u)', home[u] = row.proc, sess'[u].fence # NoFence
                 PROVE  /\ sess'[u].fence # granted /\ sess'[u].acct # row.account
                        /\ \A c \in Sessions : sess'[c].life = "creating" => sess'[c].fence # granted
      BY <1>1 DEF ForsakenByAll
    <2>1. /\ Standing(u) /\ u # s /\ sess'[u].acct = sess[u].acct
          /\ \A c \in Sessions : sess'[c].life = "creating" =>
               c # s /\ sess[c].life = "creating" /\ sess'[c].fence = sess[c].fence
      BY <1>4, <1>6, <1>7
    <2>2. sess[u].fence # NoFence
      BY <1>4, <1>5, <1>7, <2>1
    <2>3. CASE Forsaken
      <3>1. /\ sess[u].fence # granted /\ sess[u].acct # row.account
            /\ \A c \in Sessions : sess[c].life = "creating" => sess[c].fence # granted
        BY <2>1, <2>2, <2>3 DEF StandInv, ForsakenByAll
      <3>2. sess'[u].fence # granted
        BY <1>3, <1>4, <2>1, <3>1
      <3> QED
        BY <2>1, <3>1, <3>2
    <2>4. CASE ~Forsaken
      <3>1. PICK t \in Sessions : Leaver(t)' /\ sess'[t].fence = granted
        BY <1>1, <2>4 DEF Forsaken
      <3>2. t = s
        <4>1. SUFFICES ASSUME t # s PROVE FALSE
          OBVIOUS
        <4>2. Leaver(t) /\ sess'[t].fence = sess[t].fence
          BY <1>4, <3>1, <4>1 DEF Leaver
        <4> QED
          BY <2>4, <3>1, <4>2 DEF Forsaken
      <3>3. ~Superseded(s) /\ sess[s].fence = granted /\ ~h
        BY <1>4, <3>1, <3>2 DEF Leaver
      <3>4. Fence(row) = granted /\ granted # NoFence
        BY RowFacts, SessionFacts DEF IInv, RowNewest, NoFence
      <3>5. home[s] = row.proc /\ row.owner = Inst(home[s])
        BY <2>4, <3>3, <3>4 DEF StandInv, FenceAtHome, RowOwned, Forsaken
      <3>6. FenceMatches(s) /\ sess[s].acct = row.account
        <4>1. FenceMatches(s)
          BY <3>3, <3>4, <3>5 DEF FenceMatches
        <4> QED
          BY <1>3, <4>1 DEF StandInv, HolderServesAccount
      <3>7. sess[u].life = "open" /\ slot[home[s]] = u
        <4>1. ~(inflight[home[s]] = u)
          BY <1>1, <2>1, <3>3 DEF Superseded
        <4>2. sess[u].life = "open"
          BY <2>1, <3>5, <4>1 DEF Standing
        <4> QED
          BY <3>5, <4>2 DEF StandInv, RegistryAgrees
      <3>8. sess[u].acct # row.account
        BY <1>1, <2>1, <3>3, <3>6, <3>7 DEF Superseded
      <3>9. sess[u].fence # granted
        <4>1. SUFFICES ASSUME sess[u].fence = granted PROVE FALSE
          OBVIOUS
        <4>2. FenceMatches(u)
          BY <3>4, <3>5, <4>1 DEF FenceMatches
        <4>3. sess[u].pc = "idle"
          BY <3>7 DEF StandInv, SessionsSane, Sane
        <4> QED
          BY <3>7, <3>8, <4>2, <4>3 DEF StandInv, HolderServesAccount
      <3>10. \A c \in Sessions : sess[c].life = "creating" /\ c # s => sess[c].fence # granted
        BY <1>3, <3>3, <3>4 DEF StandInv, CreatorsApart
      <3>11. sess'[u].fence = sess[u].fence
        BY <1>4, <2>1, <3>3
      <3> QED
        BY <2>1, <3>8, <3>9, <3>10, <3>11
    <2> QED
      BY <2>3, <2>4
  <1> QED
    BY <1>8, <1>9, <1>10, <1>11, <1>12, <1>13, <1>14, <1>15 DEF StandInv

-----------------------------------------------------------------------------
(* The invariant, and what it says of a registered session and the anchor. *)

(* The initial states: no session lives and there is no row. *)
LEMMA InitStands ==
    ASSUME Init
    PROVE  StandInv
  <1>1. Blank.life = "none" /\ Blank.pc = "idle" /\ Blank.fence = NoFence
    BY DEF Blank
  <1>2. \A s \in Sessions : sess[s] = Blank
    BY DEF Init
  <1>3. SessionsSane
    BY <1>1, <1>2 DEF SessionsSane, Sane
  <1>4. FencesGranted
    BY <1>1, <1>2 DEF Init, FencesGranted, NotNewer, NoFence
  <1>5. RegistryAgrees /\ CreatorsApart /\ SuccessorsNewer
    BY <1>1, <1>2 DEF Init, RegistryAgrees, CreatorsApart, SuccessorsNewer
  <1>6. FenceAtHome /\ HolderServesAccount /\ RowOwned /\ RowStays /\ ForsakenByAll /\ AnchorBound
    BY DEF Init, FenceAtHome, HolderServesAccount, FenceMatches, RowOwned, RowStays, ForsakenByAll,
           AnchorBound
  <1> QED
    BY <1>3, <1>4, <1>5, <1>6 DEF StandInv

(* Every step keeps the invariant. *)
LEMMA NextStands ==
    ASSUME IInv, StandInv, [Next]_vars
    PROVE  StandInv'
  <1>0. IInv'
    BY NextSafe
  <1>1. ASSUME NEW s \in Sessions,
               \/ BeginCreate(s) \/ Connected(s) \/ ConnectFailed(s) \/ Publish(s) \/ PublishRejected(s)
               \/ Settle(s) \/ BeginReconnect(s)
        PROVE  StandInv'
    BY <1>0, <1>1, BeginCreateStands, ConnectStands, PublishStands, SettleStands, BeginReconnectStands
  <1>2. ASSUME NEW s \in Sessions, ClaimStep(s)
        PROVE  StandInv'
    <2>1. ClaimRead(s) \/ ClaimRefused(s) \/ ClaimAgain(s) \/ ClaimCommit(s) \/ ClaimRaceLost(s) \/ ClaimError(s)
      BY <1>2 DEF ClaimStep
    <2> QED
      BY <1>0, <2>1, RetryStands, ClaimFailsStands, CommitStands
  <1>3. ASSUME NEW s \in Sessions,
               \/ Detach(s) \/ RetireDone(s) \/ Close(s) \/ Renew(s) \/ WriteAnchor(s) \/ Rebind(s)
               \/ RebindFailed(s) \/ CloseUnderReconnect(s)
        PROVE  StandInv'
    BY <1>0, <1>3, DetachStands, CloseStands, RenewStands, WriteAnchorStands, RebindStands,
       ClaimFailsStands, CloseUnderStands
  <1>4. ASSUME NEW p \in Procs, EvictInflight(p) \/ MarkSelect(p) \/ MarkWrite(p)
        PROVE  StandInv'
    BY <1>0, <1>4, QuietStands
  <1>5. ASSUME NEW p \in Procs, Reconcile(p) \/ CloseAll(p) \/ Exit(p) \/ Start(p)
        PROVE  StandInv'
    BY <1>0, <1>5, ReconcileStands, CloseAllStands, ExitStands, AdminStands
  <1>6. ASSUME CloseForAccount \/ Purge \/ RetireContinuity \/ MergeAccounts \/ Tick
        PROVE  StandInv'
    BY <1>0, <1>6, AdminStands, QuietStands, MergeStands, TickStands
  <1>7. ASSUME UNCHANGED vars
        PROVE  StandInv'
    <2>1. UNCHANGED <<row, deployment, granted, withdrawn, moved, sess, slot, inflight>>
      BY <1>7 DEF vars, registry, processes, history
    <2>2. RowWanes /\ \A p \in Procs : inflight'[p] \in {inflight[p], None}
      BY <2>1 DEF RowWanes
    <2> QED
      BY <1>0, <2>1, <2>2, NoneWanes
  <1> QED
    BY <1>1, <1>2, <1>3, <1>4, <1>5, <1>6, <1>7 DEF Next, CreateStep

(* The second invariant holds in every reachable state. *)
THEOREM StandInvariant == Spec => []StandInv
  <1>1. Init => StandInv
    BY InitStands
  <1>2. IInv /\ StandInv /\ [Next]_vars => StandInv'
    BY NextStands
  <1> QED
    BY <1>1, <1>2, SafetyInvariant, PTL DEF Spec

(* As long as no session of the key changed its account, a registered      *)
(* session that holds the newest claim owns the row: neither the failed    *)
(* creations of its process nor the sessions it replaced release it        *)
(* (_settle_failed_http_bridge_creation, release_session), whatever the    *)
(* number of processes and sessions.                                       *)
THEOREM RegisteredOwnsRow == Spec => []RegisteredKeepsRow
  <1>1. ASSUME IInv, StandInv, NEW p \in Procs, slot[p] # None, sess[slot[p]].fence = granted,
               ~withdrawn, moved = "none"
        PROVE  row.owner = Inst(p)
    <2>1. PICK s \in Sessions : s = slot[p]
      BY <1>1, SessionFacts
    <2>2. home[s] = p /\ sess[s].life = "open" /\ sess[s].fence # NoFence /\ Standing(s)
      <3>1. home[s] = p /\ sess[s].life \in {"open", "broken"}
        BY <1>1, <2>1 DEF IInv, SlotHome, StandInv, RegistryAgrees
      <3>2. sess[s].life = "open" /\ sess[s].fence # NoFence
        BY <1>1, <3>1 DEF StandInv, SessionsSane, Sane
      <3> QED
        BY <3>1, <3>2 DEF Standing
    <2>3. row # NoRow /\ Fence(row) = granted
      BY <1>1, <2>1, <2>2 DEF StandInv, RowStays, IInv, RowNewest
    <2>4. row.proc = p
      BY <1>1, <2>1, <2>2, <2>3 DEF StandInv, FenceAtHome
    <2>5. row.owner # None
      BY <1>1, <2>1, <2>2, <2>3, <2>4 DEF StandInv, ForsakenByAll, Forsaken
    <2> QED
      BY <1>1, <2>3, <2>4, <2>5 DEF StandInv, RowOwned
  <1>2. IInv /\ StandInv => RegisteredKeepsRow
    BY <1>1 DEF RegisteredKeepsRow
  <1> QED
    BY <1>2, SafetyInvariant, StandInvariant, PTL

(* On PostgreSQL the recorded anchor is one of the row's account, unless a *)
(* session that had left the registry moved to another account or accounts *)
(* were merged (claim_session, register_owned_alias).                      *)
THEOREM AnchorFollows == Spec => []AnchorFollowsAccount
  <1>1. StandInv => AnchorFollowsAccount
    BY DEF StandInv, AnchorBound, AnchorFollowsAccount
  <1> QED
    BY <1>1, StandInvariant, PTL
=============================================================================
