-------------------------- MODULE BridgeOwnership --------------------------
(***************************************************************************)
(* Ownership of ONE durable HTTP-bridge key across the replicas of the     *)
(* proxy: the row of http_bridge_sessions, the in-memory sessions that     *)
(* claim it, and each process's registry slot and in-flight creation slot  *)
(* for the key.                                                            *)
(*                                                                         *)
(* A claim reads the row and later writes it with a compare-and-set on the *)
(* owner epoch.  On PostgreSQL the read locks the row (SELECT FOR UPDATE), *)
(* so nobody writes it in between; on SQLite the lock is a no-op and the   *)
(* two statements interleave with everything.  SQLite serves one instance, *)
(* whose incarnations share the instance id.                               *)
(***************************************************************************)
EXTENDS Integers

CONSTANTS
    Procs,          \* process incarnations; each has its own process epoch
    InstanceOf,     \* InstanceOf[p]: the configured instance id of p
    FirstProcs,     \* FirstProcs[d]: the incarnations running at the start
    Sessions,       \* in-memory session objects
    Homes,          \* the placements of sessions in incarnations considered
    Accounts,
    Databases,      \* a subset of {"postgres", "sqlite"}
    None,
    TTL,            \* ticks of a lease (30 s in the code)
    ClaimTries,     \* _CLAIM_CAS_ATTEMPTS (5 in the code)
    MaxUpsets       \* bound on evictions, failures, crashes, withdrawals
                    \* and changes of account

ASSUME OwnershipAssumption ==
    /\ InstanceOf \in [Procs -> STRING]
    /\ FirstProcs \in [Databases -> SUBSET Procs]
    /\ Homes \subseteq [Sessions -> Procs]
    /\ Databases \subseteq {"postgres", "sqlite"}
    /\ None \notin Procs \cup Sessions \cup Accounts
    /\ None \notin {InstanceOf[p] : p \in Procs} \cup {"only"}
    /\ TTL \in Nat \ {0} /\ ClaimTries \in Nat \ {0}
    /\ MaxUpsets \in Nat

VARIABLES
    db,         \* the database backend of this deployment
    home,       \* home[s]: the incarnation session s lives in
    row,        \* the key's row in http_bridge_sessions, or NoRow
    sess,       \* sess[s]: the session object (_HTTPBridgeSession)
    slot,       \* slot[p]: _http_bridge_sessions[key] of process p
    inflight,   \* inflight[p]: the creator whose future is in flight
    proc,       \* proc[p]: where process p is in its life
    mark,       \* mark[p]: row id selected by mark_owner_draining
    granted,    \* history: the newest fence ever written
    withdrawn,  \* history: the newest claim was ended administratively
    moved,      \* history: has an attached session of the key changed its
                \* account, or a detached one or a merge of accounts
    merges,     \* history: how often the row's account was merged away
    upsets      \* how many upsets the environment has caused

registry == <<slot, inflight>>
deployment == <<db, home>>
processes == <<deployment, proc, mark>>
history == <<granted, withdrawn, moved, merges>>

vars == <<row, sess, registry, processes, history, upsets>>

(* A fence is the id of a row and the epoch of its owner.                  *)
Fences == Nat \X Nat
NoFence == <<0, 0>>

(* The instance id a process presents.                                     *)
Inst(p) == IF db = "sqlite" THEN "only" ELSE InstanceOf[p]

(* The row, with its lease as the ticks that remain and its anchor as the  *)
(* account that produced the recorded response.                            *)
RowStates == {"active", "draining", "closed"}
NoRow == [id |-> 0]
Rows == [id : Nat \ {0}, owner : {Inst(p) : p \in Procs} \cup {None}, proc : Procs,
         epoch : Nat \ {0}, lease : 0..TTL, state : RowStates,
         account : Accounts \cup {None}, anchor : Accounts \cup {None}, retired : BOOLEAN]

Fence(r) == IF r = NoRow THEN NoFence ELSE <<r.id, r.epoch>>

(* A session object.  life is its place in the registry, pc that of the    *)
(* task that claims the row for it, seen what is left of the lease its     *)
(* lookup saw.                                                             *)
Blank == [life |-> "none", pc |-> "idle", acct |-> None, want |-> None, allow |-> "no",
          seen |-> 0, tries |-> 0, snap |-> NoRow, fence |-> NoFence, release |-> FALSE, hand |-> None]
Gone == [Blank EXCEPT !.life = "gone"]

(* A claim in progress on PostgreSQL holds the lock of the row it read.    *)
Unlocked ==
    db = "postgres" => \A s \in Sessions : sess[s].pc = "read" => sess[s].snap = NoRow

(* _durable_bridge_lookup_active_owner: somebody's lease is live.          *)
ActiveOwner(r) == r # NoRow /\ r.state # "closed" /\ r.owner # None /\ r.lease > 0

(* The WHERE of every fenced statement.                                    *)
MutantEpochNotCompared(s) ==
    /\ row # NoRow
    /\ row.id = sess[s].fence[1]
    /\ row.owner = Inst(home[s])

FenceMatches(s) ==
    /\ row # NoRow
    /\ Fence(row) = sess[s].fence
    /\ row.owner = Inst(home[s])

Upset == upsets < MaxUpsets /\ upsets' = upsets + 1

(* A session on its way out needs only its fence (and its account, while   *)
(* it still answers requests).                                             *)
Leaving(s, l) ==
    [Blank EXCEPT !.life = l, !.fence = sess[s].fence, !.release = TRUE,
                  !.acct = IF l = "retiring" THEN sess[s].acct ELSE None,
                  !.want = IF l = "retiring" THEN sess[s].acct ELSE None]

Running(s) == proc[home[s]] \notin {"off", "down"}

Init ==
    /\ db \in Databases
    /\ home \in Homes
    /\ row = NoRow
    /\ sess = [s \in Sessions |-> Blank]
    /\ slot = [p \in Procs |-> None]
    /\ inflight = [p \in Procs |-> None]
    /\ proc = [p \in Procs |-> IF p \in FirstProcs[db] THEN "up" ELSE "off"]
    /\ mark = [p \in Procs |-> 0]
    /\ granted = NoFence
    /\ withdrawn = FALSE
    /\ moved = "none"
    /\ merges = 0
    /\ upsets = 0

----------------------------------------------------------------------------
(* Creating a session                                                      *)

(* What the lookup made before the upstream connection says: how long the  *)
(* lease it saw still runs, and whether a forced takeover overrules it.    *)
LookupLease == IF ActiveOwner(row) THEN row.lease ELSE 0
LookupAllows(force) == IF force /\ (row = NoRow \/ row.state # "draining") THEN "forced" ELSE "no"

(* _get_or_create_http_bridge_session: the durable lookup is kept for the  *)
(* coming claim; a session already registered for the key is detached, and *)
(* closes at once or after its visible requests.  A forced takeover is the *)
(* local recovery from an unreachable owner.                               *)
BeginCreate(s) ==
    LET p == home[s]
        old == slot[p]
    IN  /\ proc[p] \in {"up", "draining"}
        /\ sess[s].life = "none"
        /\ inflight[p] = None
        /\ inflight' = [inflight EXCEPT ![p] = s]
        /\ slot' = [slot EXCEPT ![p] = None]
        /\ \E a \in Accounts, force \in BOOLEAN, oldLife \in {"retiring", "closing"} :
             LET started == [Blank EXCEPT !.life = "creating", !.pc = "connect",
                                          !.acct = a, !.want = a,
                                          !.seen = LookupLease,
                                          !.allow = LookupAllows(force \/ old # None)]
             IN  /\ old # None /\ sess[old].life = "broken" => oldLife = "closing"
                 /\ sess' = [t \in Sessions |->
                            CASE t = s   -> started
                              [] t = old -> Leaving(t, oldLife)
                              [] OTHER   -> sess[t]]
        /\ old # None => sess[old].pc = "idle"    \* not in a hand-off
        /\ UNCHANGED <<row, processes, history, upsets>>

(* A waiter gives up on the creation in flight and frees the slot          *)
(* (_evict_http_bridge_inflight_waiter).                                   *)
EvictInflight(p) ==
    /\ inflight[p] # None
    /\ \A s \in Sessions : sess[s].hand # inflight[p]
    /\ inflight' = [inflight EXCEPT ![p] = None]
    /\ Upset
    /\ UNCHANGED <<row, sess, processes, history, slot>>

(* What the lookup permits the claim once the connection is made: the      *)
(* lease it saw, renewed meanwhile or not, is compared with the clock now. *)
ClaimAllowsTakeover(s) == IF sess[s].seen = 0 THEN "lapsed" ELSE sess[s].allow

(* The upstream connection is made; a creator that lost its in-flight slot *)
(* meanwhile does not claim (_raise_if_http_bridge_creation_superseded).   *)
Connected(s) ==
    /\ Running(s)
    /\ sess[s].pc = "connect"
    /\ sess' = [sess EXCEPT ![s].pc = IF inflight[home[s]] = s THEN "claim" ELSE "failed",
                            ![s].allow = ClaimAllowsTakeover(s), ![s].seen = 0]
    /\ UNCHANGED <<row, registry, processes, history, upsets>>

ConnectFailed(s) ==
    /\ Running(s)
    /\ sess[s].pc = "connect"
    /\ sess' = [sess EXCEPT ![s].pc = "failed", ![s].seen = 0]
    /\ Upset
    /\ UNCHANGED <<row, registry, processes, history>>

(* A session moves to another account (_reconnect_http_bridge_session).    *)
(* When the owner of its affinity is rebound it first claims the row anew  *)
(* (_claim_http_bridge_replacement_before_swap).  Its hand-off future      *)
(* takes the in-flight slot, or marks the one it finds there.              *)
BeginReconnect(s) ==
    LET p == home[s]
    IN  /\ Running(s)
        /\ sess[s].life \in {"open", "retiring"}
        /\ sess[s].pc = "idle"
        /\ inflight' = [inflight EXCEPT ![p] = IF @ = None THEN s ELSE @]
        /\ \E a \in Accounts \ {sess[s].acct}, stage \in {"claim", "swap"} :
             sess' = [sess EXCEPT ![s].pc = stage, ![s].want = a, ![s].allow = "forced",
                                  ![s].hand = inflight'[p]]
        /\ moved' = IF sess[s].life = "retiring" \/ moved = "detached"
                    THEN "detached" ELSE "attached"
        /\ Upset
        /\ UNCHANGED <<row, processes, slot, granted, withdrawn, merges>>

----------------------------------------------------------------------------
(* claim_session                                                           *)

(* SELECT ... FOR UPDATE                                                   *)
ClaimRead(s) ==
    /\ Running(s)
    /\ sess[s].pc = "claim"
    /\ row # NoRow => Unlocked
    /\ sess' = [sess EXCEPT ![s].pc = "read", ![s].snap = row]
    /\ UNCHANGED <<row, registry, processes, history, upsets>>

(* The read row belongs to another instance whose lease is live, and it is *)
(* draining, or the caller's permission is missing or was outrun by a lost *)
(* race.                                                                   *)
RefusedBy(r, s) ==
    /\ r # NoRow
    /\ r.owner \notin {None, Inst(home[s])}
    /\ r.lease > 0
    /\ \/ r.state = "draining"
       \/ r.state # "closed" /\ (sess[s].allow = "no" \/ sess[s].tries > 0)

(* How a claim task ends: a creation goes on to publish or to settle, a    *)
(* reconnect to swap its connection; a reconnect that fails leaves its     *)
(* session broken.                                                         *)
Won(s, f) ==
    [sess[s] EXCEPT !.pc = IF sess[s].life = "creating" THEN "claimed" ELSE "swap",
                    !.snap = NoRow, !.tries = 0, !.fence = f]

Lost(s) ==
    CASE sess[s].life = "creating" -> [sess[s] EXCEPT !.pc = "failed", !.snap = NoRow, !.tries = 0]
      [] sess[s].life = "open"     -> Leaving(s, "broken")
      [] OTHER                     -> Leaving(s, "closing")

CompleteHandoff(s) ==
    inflight' = IF sess[s].hand = None THEN inflight
                ELSE [inflight EXCEPT ![home[s]] = IF @ = sess[s].hand THEN None ELSE @]

ClaimRefused(s) ==
    /\ Running(s)
    /\ sess[s].pc = "read"
    /\ RefusedBy(sess[s].snap, s)
    /\ sess' = [sess EXCEPT ![s] = Lost(s)]
    /\ CompleteHandoff(s)
    /\ UNCHANGED <<row, slot, processes, history, upsets>>

(* The lease that refused it has run out when the answer is looked at: one *)
(* more claim, with the permission as it was.                              *)
ClaimAgain(s) ==
    /\ Running(s)
    /\ sess[s].pc = "read"
    /\ RefusedBy(sess[s].snap, s)
    /\ sess[s].allow \in {"lapsed", "forced"}
    /\ sess' = [sess EXCEPT ![s].pc = "claim", ![s].snap = NoRow, ![s].tries = 0,
                            ![s].allow = "again"]
    /\ Upset
    /\ UNCHANGED <<row, registry, processes, history>>

MutantOneTryTooMany(s) == sess[s].tries < ClaimTries

MayRetry(s) == sess[s].tries + 1 < ClaimTries

(* The UPDATE finds another epoch, or the INSERT another row: try again    *)
(* with the permission dropped, a bounded number of times.                 *)
ClaimRaceLost(s) ==
    LET snap == sess[s].snap
    IN  /\ Running(s)
        /\ sess[s].pc = "read"
        /\ ~RefusedBy(snap, s)
        /\ IF snap = NoRow THEN row # NoRow ELSE Fence(row) # Fence(snap)
        /\ IF MayRetry(s)
           THEN /\ sess' = [sess EXCEPT ![s].pc = "claim", ![s].snap = NoRow, ![s].tries = @ + 1]
                /\ UNCHANGED inflight
           ELSE /\ sess' = [sess EXCEPT ![s] = Lost(s)]
                /\ CompleteHandoff(s)
        /\ UNCHANGED <<row, slot, processes, history, upsets>>

(* The claim raises: the database fails it, or its caller is cancelled.    *)
ClaimError(s) ==
    /\ Running(s)
    /\ sess[s].pc \in {"claim", "read"}
    /\ sess' = [sess EXCEPT ![s] = Lost(s)]
    /\ CompleteHandoff(s)
    /\ Upset
    /\ UNCHANGED <<row, slot, processes, history>>

(* Whether the continuity survives a claim is decided on the row that was  *)
(* read; what survives is what the row holds when the UPDATE runs.         *)
MutantKeepsAcrossAccounts(s) == sess[s].snap # NoRow /\ ~sess[s].snap.retired

KeepsContinuity(s) ==
    LET snap == sess[s].snap
    IN  snap # NoRow /\ snap.account = sess[s].want /\ ~snap.retired

(* The row a claim leaves behind.                                          *)
ClaimedRow(s) ==
    LET snap == sess[s].snap
    IN  [id      |-> IF snap = NoRow THEN granted[1] + 1 ELSE snap.id,
         owner   |-> Inst(home[s]),
         proc    |-> home[s],
         epoch   |-> IF snap = NoRow THEN 1 ELSE snap.epoch + 1,
         lease   |-> TTL,
         state   |-> "active",
         account |-> sess[s].want,
         anchor  |-> IF KeepsContinuity(s) THEN row.anchor ELSE None,
         retired |-> FALSE]

(* The INSERT or the UPDATE commits.  A claimant cancelled before it notes *)
(* the answer owns a row it does not know of.                              *)
ClaimCommit(s) ==
    LET snap == sess[s].snap
    IN  /\ Running(s)
        /\ sess[s].pc = "read"
        /\ ~RefusedBy(snap, s)
        /\ IF snap = NoRow THEN row = NoRow ELSE Fence(row) = Fence(snap)
        /\ row' = ClaimedRow(s)
        /\ granted' = Fence(row')
        /\ withdrawn' = FALSE
        /\ \/ sess' = [sess EXCEPT ![s] = Won(s, Fence(row'))] /\ UNCHANGED <<inflight, upsets>>
           \/ sess' = [sess EXCEPT ![s] = Lost(s)] /\ CompleteHandoff(s) /\ Upset
        /\ UNCHANGED <<slot, processes, moved, merges>>

----------------------------------------------------------------------------
(* Publishing, and settling a creation that cannot publish                 *)

Publish(s) ==
    LET p == home[s]
    IN  /\ Running(s)
        /\ sess[s].pc = "claimed"
        /\ inflight[p] = s
        /\ inflight' = [inflight EXCEPT ![p] = None]
        /\ slot' = [slot EXCEPT ![p] = s]
        /\ sess' = [sess EXCEPT ![s].life = "open", ![s].pc = "idle", ![s].allow = "no"]
        /\ UNCHANGED <<row, processes, history, upsets>>

(* The slot is lost, or what follows the claim (registering the session    *)
(* header) fails or is cancelled: the creator keeps the fence it noted.    *)
PublishRejected(s) ==
    /\ Running(s)
    /\ sess[s].pc = "claimed"
    /\ sess' = [sess EXCEPT ![s].pc = "failed"]
    /\ \/ inflight[home[s]] # s /\ UNCHANGED upsets
       \/ inflight[home[s]] = s /\ Upset
    /\ UNCHANGED <<row, registry, processes, history>>

(* A replacement in flight, or a registered session on the same account,   *)
(* stands on the row this failed creator claimed.                          *)
MutantOnlyInflightSupersedes(s) == inflight[home[s]] \notin {None, s}

Superseded(s) ==
    LET p == home[s]
    IN  \/ inflight[p] \notin {None, s}
        \/ slot[p] \notin {None, s} /\ sess[slot[p]].acct = sess[s].acct

(* _settle_failed_http_bridge_creation: hand the claimed epoch to the      *)
(* registered session that shares the row, and skip the release when       *)
(* another session replaced this one.                                      *)
Settle(s) ==
    LET p == home[s]
        r == slot[p]
        handsOver == /\ Superseded(s)
                     /\ r \notin {None, s}
                     /\ sess[s].fence[1] = sess[r].fence[1]
                     /\ sess[s].fence[2] > sess[r].fence[2]
                     /\ sess[s].acct = sess[r].acct
    IN  /\ Running(s)
        /\ sess[s].pc = "failed"
        /\ inflight' = [inflight EXCEPT ![p] = IF @ = s THEN None ELSE @]
        /\ sess' = [t \in Sessions |->
                      CASE t = s -> [Leaving(s, "closing") EXCEPT !.release = ~Superseded(s)]
                        [] t = r /\ handsOver -> [sess[t] EXCEPT !.fence = sess[s].fence]
                        [] OTHER -> sess[t]]
        /\ UNCHANGED <<row, processes, history, slot, upsets>>

----------------------------------------------------------------------------
(* A session's life after it is published                                  *)

(* The session leaves the registry: idle prune, a dead upstream, replaced  *)
(* by nobody yet.                                                          *)
Detach(s) ==
    /\ Running(s)
    /\ slot[home[s]] = s
    /\ sess[s].pc = "idle"
    /\ slot' = [slot EXCEPT ![home[s]] = None]
    /\ IF sess[s].life = "broken"
       THEN sess' = [sess EXCEPT ![s] = Leaving(s, "closing")] /\ UNCHANGED upsets
       ELSE /\ \E l \in {"retiring", "closing"} : sess' = [sess EXCEPT ![s] = Leaving(s, l)]
            /\ Upset
    /\ UNCHANGED <<row, processes, history, inflight>>

RetireDone(s) ==
    /\ Running(s)
    /\ sess[s].life = "retiring"
    /\ sess[s].pc = "idle"
    /\ sess' = [sess EXCEPT ![s] = Leaving(s, "closing")]
    /\ UNCHANGED <<row, registry, processes, history, upsets>>

(* release_session: a fenced UPDATE; ownership goes, continuity stays.     *)
ReleasedRow(s) ==
    [row EXCEPT !.owner = None, !.lease = 0,
                !.state = IF proc[home[s]] = "up" THEN "closed" ELSE "draining"]

(* _close_http_bridge_session_resources: one fenced release, whose failure *)
(* is swallowed, and the session object is gone.                           *)
Close(s) ==
    /\ Running(s)
    /\ sess[s].life = "closing"
    /\ \/ /\ sess[s].release
          /\ Unlocked
          /\ FenceMatches(s)
          /\ row' = ReleasedRow(s)
          /\ UNCHANGED upsets
       \/ /\ ~(sess[s].release /\ FenceMatches(s))
          /\ UNCHANGED <<row, upsets>>
       \/ UNCHANGED row /\ Upset
    /\ sess' = [sess EXCEPT ![s] = Gone]
    /\ UNCHANGED <<registry, processes, history>>

(* _renew_durable_http_bridge_lease: extend the lease; a fenced-out        *)
(* session adopts an epoch its own process advanced on its account while   *)
(* it holds the slot, and is evicted otherwise.                            *)
Adopts(s) ==
    /\ row # NoRow
    /\ row.owner = Inst(home[s])
    /\ row.proc = home[s]
    /\ row.id = sess[s].fence[1]
    /\ row.epoch > sess[s].fence[2]
    /\ row.account = sess[s].acct
    /\ slot[home[s]] = s

Renew(s) ==
    /\ Running(s)
    /\ sess[s].life = "open"
    /\ sess[s].pc = "idle"
    /\ Unlocked
    /\ row # NoRow /\ row.id = sess[s].fence[1]
    /\ \/ /\ FenceMatches(s)
          /\ row' = [row EXCEPT !.lease = TTL]
          /\ UNCHANGED <<sess, slot>>
       \/ /\ ~FenceMatches(s)
          /\ Adopts(s)
          /\ sess' = [sess EXCEPT ![s].fence = Fence(row)]
          /\ UNCHANGED <<row, slot>>
       \/ /\ ~FenceMatches(s)
          /\ ~Adopts(s)
          /\ slot' = [slot EXCEPT ![home[s]] = IF @ = s THEN None ELSE @]
          /\ sess' = [sess EXCEPT ![s] = Leaving(s, "closing")]
          /\ UNCHANGED row
    /\ UNCHANGED <<processes, history, inflight, upsets>>

(* A fenced write that leaves the session as it is: a completed response   *)
(* registers its anchor (register_owned_alias), a dead one is cleared      *)
(* (clear_latest_response_anchor).                                         *)
WriteAnchor(s) ==
    /\ Running(s)
    /\ sess[s].life \in {"open", "retiring"}
    /\ sess[s].pc = "idle"
    /\ Unlocked
    /\ FenceMatches(s)
    /\ row' \in {[row EXCEPT !.anchor = sess[s].acct, !.lease = TTL], [row EXCEPT !.anchor = None]}
    /\ UNCHANGED <<sess, registry, processes, history, upsets>>

(* The end of a reconnect: rebind_session_account under the session's      *)
(* fence, with or without a claim before it, then the new connection       *)
(* (_persist_http_bridge_replacement_account, replace_connection).  The    *)
(* reconnect may be cancelled between the two.                             *)
Rebind(s) ==
    /\ Running(s)
    /\ sess[s].pc = "swap"
    /\ Unlocked
    /\ FenceMatches(s)
    /\ row' = [row EXCEPT !.account = sess[s].want, !.anchor = None]
    /\ \/ /\ sess' = [sess EXCEPT ![s].pc = "idle", ![s].acct = sess[s].want, ![s].allow = "no",
                                   ![s].hand = None]
          /\ UNCHANGED upsets
       \/ sess' = [sess EXCEPT ![s] = Lost(s)] /\ Upset
    /\ CompleteHandoff(s)
    /\ UNCHANGED <<slot, processes, history>>

(* The row has another fence, or the statement fails: the reconnect does   *)
(* too, and the fence its claim noted stays.                               *)
RebindFailed(s) ==
    /\ Running(s)
    /\ sess[s].pc = "swap"
    /\ sess' = [sess EXCEPT ![s] = Lost(s)]
    /\ \/ ~FenceMatches(s) /\ UNCHANGED upsets
       \/ FenceMatches(s) /\ Upset
    /\ CompleteHandoff(s)
    /\ UNCHANGED <<row, slot, processes, history>>

(* The heartbeat's sweep evicts a registered session whose row shows       *)
(* another owner or another epoch (_reconcile_durable_http_bridge_         *)
(* ownership).  It decides on a copy of the row read before it takes the   *)
(* registry lock; an eviction by an outdated copy is a Detach.             *)
Reconcile(p) ==
    LET s == slot[p]
    IN  /\ s # None
        /\ sess[s].pc = "idle"
        /\ row # NoRow
        /\ row.id = sess[s].fence[1]
        /\ row.owner # None
        /\ ~FenceMatches(s)
        /\ slot' = [slot EXCEPT ![p] = None]
        /\ sess' = [sess EXCEPT ![s] = Leaving(s, "closing")]
        /\ UNCHANGED <<row, processes, history, inflight, upsets>>

----------------------------------------------------------------------------
(* Processes: drain, crash, restart                                        *)

(* mark_owner_draining selects the instance's ACTIVE rows, and writes each *)
(* by its primary key alone.                                               *)
MarkSelect(p) ==
    /\ proc[p] = "up"
    /\ proc' = [proc EXCEPT ![p] = "draining"]
    /\ mark' = [mark EXCEPT ![p] = IF row # NoRow /\ row.owner = Inst(p) /\ row.state = "active"
                                   THEN row.id ELSE 0]
    /\ Upset
    /\ UNCHANGED <<row, sess, registry, history, deployment>>

MarkWrite(p) ==
    /\ mark[p] # 0
    /\ Unlocked
    /\ row' = IF row # NoRow /\ row.id = mark[p] THEN [row EXCEPT !.state = "draining"] ELSE row
    /\ mark' = [mark EXCEPT ![p] = 0]
    /\ UNCHANGED <<sess, registry, history, deployment, proc, upsets>>

(* close_all_http_bridge_sessions empties both slots and closes whatever   *)
(* was registered or detached; a reconnect it meets goes on.               *)
CloseAll(p) ==
    LET reconnecting == {s \in Sessions : home[s] = p /\ sess[s].pc \in {"claim", "read", "swap"}
                                         /\ sess[s].life \in {"open", "retiring"}}
    IN  /\ proc[p] = "draining"
        /\ mark[p] = 0
        /\ proc' = [proc EXCEPT ![p] = "closing"]
        /\ slot' = [slot EXCEPT ![p] = None]
        /\ inflight' = [inflight EXCEPT ![p] = None]
        /\ sess' = [s \in Sessions |->
                      IF s \in reconnecting THEN [sess[s] EXCEPT !.life = "retiring"]
                      ELSE IF home[s] = p /\ sess[s].life \in {"open", "broken", "retiring"}
                      THEN Leaving(s, "closing") ELSE sess[s]]
        /\ moved' = IF reconnecting = {} THEN moved ELSE "detached"
        /\ UNCHANGED <<row, granted, withdrawn, merges, deployment, mark, upsets>>

(* The close that shutdown started releases the row under a reconnect.     *)
CloseUnderReconnect(s) ==
    /\ proc[home[s]] = "closing"
    /\ sess[s].life = "retiring"
    /\ sess[s].pc # "idle"
    /\ Unlocked
    /\ FenceMatches(s)
    /\ row' = ReleasedRow(s)
    /\ UNCHANGED <<sess, registry, processes, history, upsets>>

(* The process ends, after its sessions or under them.                     *)
Exit(p) ==
    /\ proc[p] \notin {"off", "down"}
    /\ proc' = [proc EXCEPT ![p] = "down"]
    /\ slot' = [slot EXCEPT ![p] = None]
    /\ inflight' = [inflight EXCEPT ![p] = None]
    /\ mark' = [mark EXCEPT ![p] = 0]
    /\ sess' = [s \in Sessions |-> IF home[s] = p THEN Gone ELSE sess[s]]
    /\ IF proc[p] = "closing" /\ \A s \in Sessions : home[s] = p => sess[s].life \in {"none", "gone"}
       THEN UNCHANGED upsets ELSE Upset
    /\ UNCHANGED <<row, history, deployment>>

(* The next incarnation of an instance starts once the last one is leaving,*)
(* and first takes the rows of earlier incarnations out of service: closed *)
(* without continuity, or kept DRAINING when operations refer to them      *)
(* (purge_owned_sessions_on_startup).                                      *)
Start(p) ==
    LET leftover == row # NoRow /\ row.owner = Inst(p) /\ row.proc # p
    IN  /\ proc[p] = "off"
        /\ \A q \in Procs \ {p} : Inst(q) = Inst(p) => proc[q] # "up"
        /\ leftover => Unlocked
        /\ proc' = [proc EXCEPT ![p] = "up"]
        /\ row' \in IF leftover
                    THEN {[row EXCEPT !.owner = None, !.lease = 0, !.state = "closed", !.anchor = None],
                          [row EXCEPT !.owner = None, !.lease = 0, !.state = "draining"]}
                    ELSE {row}
        /\ withdrawn' = (withdrawn \/ leftover)
        /\ UNCHANGED <<sess, registry, deployment, mark, granted, moved, merges, upsets>>

----------------------------------------------------------------------------
(* Administrative hands on the row                                         *)

(* An account is removed (_close_http_bridge_sessions_for_account).        *)
CloseForAccount ==
    /\ row # NoRow
    /\ row.account # None
    /\ Unlocked
    /\ row' = [row EXCEPT !.account = None, !.state = "closed", !.owner = None, !.lease = 0,
                          !.anchor = None]
    /\ withdrawn' = TRUE
    /\ Upset
    /\ UNCHANGED <<sess, registry, processes, granted, moved, merges>>

(* Retention: a CLOSED row, or one whose lease lapsed, or an abandoned one.*)
Purge ==
    /\ row # NoRow
    /\ row.state = "closed" \/ row.lease = 0 \/ row.retired
    /\ Unlocked
    /\ row' = NoRow
    /\ withdrawn' = TRUE
    /\ Upset
    /\ UNCHANGED <<sess, registry, processes, granted, moved, merges>>

(* The row's account cannot serve it (retire_continuity_owner_if_...).     *)
RetireContinuity ==
    /\ row # NoRow
    /\ row.account # None
    /\ ~row.retired
    /\ Unlocked
    /\ row' = [row EXCEPT !.retired = TRUE]
    /\ Upset
    /\ UNCHANGED <<sess, registry, processes, history>>

(* Duplicates of an upstream account are merged: the row of the duplicate  *)
(* is given to the account that stays, whoever owns it, by a statement     *)
(* without a fence (_reconcile_chatgpt_identity_duplicates).               *)
MergeAccounts ==
    /\ row # NoRow
    /\ row.account # None
    /\ Unlocked
    /\ \E a \in Accounts \ {row.account} : row' = [row EXCEPT !.account = a]
    /\ moved' = "detached"
    /\ merges' = merges + 1
    /\ Upset
    /\ UNCHANGED <<sess, registry, processes, granted, withdrawn>>

(* Time passes for the lease of the row and for the leases lookups saw.    *)
Tick ==
    LET Waits(s) == sess[s].pc = "connect" /\ sess[s].seen > 0
    IN  /\ (row # NoRow /\ row.lease > 0) \/ \E s \in Sessions : Waits(s)
        /\ row' = IF row # NoRow /\ row.lease > 0 THEN [row EXCEPT !.lease = @ - 1] ELSE row
        /\ sess' = [s \in Sessions |-> IF Waits(s) THEN [sess[s] EXCEPT !.seen = @ - 1] ELSE sess[s]]
        /\ UNCHANGED <<registry, processes, history, upsets>>

----------------------------------------------------------------------------
CreateStep(s) ==
    \/ Connected(s) \/ ConnectFailed(s) \/ Publish(s) \/ PublishRejected(s) \/ Settle(s)

ClaimStep(s) ==
    \/ ClaimRead(s) \/ ClaimRefused(s) \/ ClaimAgain(s) \/ ClaimRaceLost(s)
    \/ ClaimError(s) \/ ClaimCommit(s)

Next ==
    \/ \E s \in Sessions :
         \/ BeginCreate(s) \/ CreateStep(s) \/ ClaimStep(s) \/ BeginReconnect(s)
         \/ Detach(s) \/ RetireDone(s) \/ Close(s)
         \/ Renew(s) \/ WriteAnchor(s) \/ Rebind(s) \/ RebindFailed(s)
         \/ CloseUnderReconnect(s)
    \/ \E p \in Procs :
         \/ EvictInflight(p) \/ Reconcile(p)
         \/ MarkSelect(p) \/ MarkWrite(p) \/ CloseAll(p) \/ Exit(p) \/ Start(p)
    \/ CloseForAccount \/ Purge \/ RetireContinuity \/ MergeAccounts \/ Tick

Spec == Init /\ [][Next]_vars

----------------------------------------------------------------------------
(* Properties                                                              *)

(* The row, the session objects and both registry slots hold what their    *)
(* types allow; a claim never makes more than _CLAIM_CAS_ATTEMPTS tries.   *)
TypeOK ==
    /\ db \in Databases
    /\ home \in Homes
    /\ row \in Rows \cup {NoRow}
    /\ sess \in [Sessions -> [life : {"none", "creating", "open", "broken", "retiring",
                                     "closing", "gone"},
                             pc : {"idle", "connect", "claim", "read", "swap", "claimed", "failed"},
                             acct : Accounts \cup {None}, want : Accounts \cup {None},
                             allow : {"no", "lapsed", "forced", "again"}, seen : 0..TTL,
                             tries : 0..(ClaimTries - 1), snap : Rows \cup {NoRow}, fence : Fences, release : BOOLEAN,
                             hand : Sessions \cup {None}]]
    /\ slot \in [Procs -> Sessions \cup {None}]
    /\ inflight \in [Procs -> Sessions \cup {None}]
    /\ proc \in [Procs -> {"off", "up", "draining", "closing", "down"}]
    /\ mark \in [Procs -> Nat]
    /\ granted \in Fences
    /\ withdrawn \in BOOLEAN
    /\ moved \in {"none", "attached", "detached"}
    /\ merges \in Nat
    /\ upsets \in 0..MaxUpsets

(* The refinement mapping: a holder's fence is the (id, epoch) its session *)
(* object would put into the WHERE of a fenced statement.                  *)
F == INSTANCE FencedSession WITH
       Holders   <- Sessions,
       top       <- granted,
       topHome   <- IF row = NoRow THEN None ELSE row.proc,
       live      <- row # NoRow /\ row.owner # None,
       held      <- [s \in Sessions |-> sess[s].fence],
       content   <- IF row = NoRow THEN None ELSE <<row.account, row.anchor>>

(* The registry, the claims, renewals, releases, restarts and retention    *)
(* together implement FencedSession: no session of a superseded claim      *)
(* changes the key's account or anchor or ends its successor's claim, no   *)
(* fence is granted twice, and only a merge of accounts writes unfenced.   *)
FencedOwnership == F!Spec

(* The session registered under the key with the newest claim owns the row *)
(* until somebody withdraws it: the settling or closing of failed, evicted *)
(* and replaced siblings in the same process never releases it.  (Once a   *)
(* session of the key has changed its account this fails: see the README.) *)
RegisteredKeepsRow ==
    \A p \in Procs :
      slot[p] # None /\ sess[slot[p]].fence = granted /\ ~withdrawn /\ moved = "none"
        => row.owner = Inst(p)

(* On PostgreSQL the anchor (the last response a follow-up may continue)   *)
(* was produced by the account the row is bound to, whoever claimed,       *)
(* rebound or wrote in between; a detached session that claims for another *)
(* account is the exception the README describes.                          *)
AnchorFollowsAccount ==
    db = "postgres" /\ moved # "detached" /\ row # NoRow /\ row.anchor # None /\ ~row.retired
        => row.anchor = row.account

(* A claim of session s commits, and the row it takes is another instance's *)
(* live one.                                                               *)
Takes(s) == sess[s].pc = "read" /\ sess'[s].pc # "read" /\ granted' # granted

ForeignLive(s) == ActiveOwner(row) /\ row.owner # Inst(home[s])

(* A live lease of another instance is taken only when the claim was       *)
(* permitted to, lost no race on the way and the owner is not draining, as *)
(* the row stands when the claim commits.                                  *)
LiveLeaseNotStolen ==
    [][\A s \in Sessions : Takes(s) /\ ForeignLive(s)
         => row.state = "active" /\ sess[s].allow # "no" /\ sess[s].tries = 0]_vars

(* A claim permitted because the lookup found no live owner takes no live  *)
(* lease.  The code does not keep this: the permission is revalidated only *)
(* after a lost compare-and-set, which a locking read never has.           *)
TakeoverOnlyOfLapsedLease ==
    [][\A s \in Sessions : Takes(s) /\ sess[s].allow = "lapsed" => ~ForeignLive(s)]_vars
=============================================================================
