# Formal verification of codex-lb

codex-lb is a load balancer for Codex/ChatGPT accounts: a FastAPI proxy that spreads
requests over a pool of upstream accounts, with API keys and quotas, an HTTP bridge for
long-lived turns, and background schedulers of which only one replica may run each.
Replicas share a PostgreSQL or SQLite database and nothing else; inside a replica one
asyncio event loop interleaves everything, and signal handlers interrupt even that.

This directory holds TLA+ models of the parts of `app/` whose correctness depends on
orderings, failures and limits that a unit test hardly reaches, TLC runs on small
instances of them, and TLAPS proofs for all instances. `PROJECT.json` maps every
definition that models code to the lines it stands for. (`spec/CoreOwnership.tla`, the
repository's own model, covers the ownership of turns in the HTTP bridge; nothing here
depends on it.)

## 1. Inventory

### Modelled

| Component | State | Operations | What is hard | What makes it correct |
|---|---|---|---|---|
| Drain and shutdown: `core/shutdown.py`, `core/server.py`, `core/middleware/inflight.py`, `modules/health/api.py` | module globals: flags, a reversible deadline, committed deadline candidates, in-flight count | begin, stop, commit, admit, finish, bounded wait, lifecycle resets | a signal handler runs between any two bytecodes, also inside another handler | no deadline is lost or extended, no assert fails, the count is exact, shutdown ends |
| Leader lease: `core/scheduling/leader_election.py`, `main.py` | one database row; per process a leader flag and a local deadline shared by all its schedulers | acquire, renew, gated run with heartbeat, shutdown keeper, release | lost and late answers, stalls, crashes, sibling schedulers, bodies that outlive their stop | a gated body runs only under its replica's lease; a dead leader is replaced |
| API-key usage reservations: `modules/api_keys` | limit rows with window and counter, reservation rows with items | reserve, settle, release, touch, sweep, lazy and scheduled reset, administrator's update | concurrent transactions of several statements, window rollover, repeated settlement, deadlocks | counters equal what the reservations account for; each is settled once, and eventually |
| Cache invalidation bus: `core/cache/invalidation.py` | version rows; per process known versions and pending bumps | bump, request_bump, bump_local, poll, prime | bumps that fail half-way, polls racing bumps, start-up | a stale cache is always still owed an invalidation |
| Circuit breaker: `core/resilience/circuit_breaker.py`, its use in `core/clients/proxy.py` | state, failure and success counts, probe flag | pre-call check, success, failure, end of call | results of calls admitted in an earlier state; cancelled probes | one probe at a time, counts that match the state, recovery |
| Account leases and unbound selection: `modules/proxy/load_balancer.py`, `_load_balancer/unbound_selection.py`, `fair_share.py` | per account a lease table with counters, last selection, version | select, reserve a probe, persist, commit, release, reclaim stale leases, prune, fair share | two awaits inside a selection; leases reclaimed while their request still runs | caps hold, counters are exact, one probe per quiet interval, retries end |
| Durable bridge ownership: `durable_bridge_repository.py`, `_service/http_bridge/helpers.py`, `session_registry.py`, `mixin.py`, `request_submit.py` | one row per session key with owner, epoch, lease, account and anchor; per process a registry slot, an in-flight slot and session objects | look up, claim, publish, settle, reconnect, renew, adopt, rebind, release, drain, restart clean-up, retention, account merge | claims of two sessions in one process, in two instances or across a restart; a read that locks on PostgreSQL and not on SQLite | a fence is granted once, and only its holder changes what the key is bound to or ends its claim |
| Account token refresh: `accounts/auth_manager.py`, `refresh_claims.py`, `accounts/repository.py` | the account's tokens and status, a claim row, in-process singleflight, remembered failures | join or start a refresh, claim, re-read, exchange, guarded write with retries, guarded flags | a refresh token works once; claims expire, answers get lost, an operator signs in meanwhile | no rotation is overwritten; only a dead token is flagged |
| Cluster-wide cap partitioning: `cap_partitioning.py`, `ring_membership.py`, the heartbeat task of `main.py` | ring rows with heartbeats; per replica an adopted and a pending partition | register, heartbeat, read the ring, observe, failed read, mark stale | replicas with different views of the ring; missed heartbeats; a stability window | shares fit the cap once the views agree, grow only after a steady window, and settle |

How they interact: the leader lease gates the sweep of stale reservations and the other
schedulers; the cache bus carries account and settings changes to the selection's inputs
(which the selection model therefore lets change at any time between its steps); the drain
state decides what the in-flight middleware admits, and its end starts the leader's release
sequence; the circuit breaker wraps the upstream call that follows a selection; the share a
cap partition grants is the cap a selection enforces on its replica (`AccountSelection` takes
caps of any value); a refresh decides whether an account is available, and the removal of an
account withdraws the bridge sessions bound to it. Each model
leaves what its neighbours do to it open, so that none of its results depends on another
component being in a particular state.

### Not modelled

| Component | State and operations | What would make it correct | Why not (yet) |
|---|---|---|---|
| Sticky and affinity selection (`sticky_selection.py`, `sticky_repository.py`) | pins from sessions to accounts; rebind, cleanup | a pin never admits over a cap; a lost race rebinds once | planned, extends `AccountSelection` |
| Bridge operation journal (`durable_bridge_repository.py`) | operations, transcripts, aliases, retry circuits beside a session row | an operation is settled once, and replayed only by the owner | planned; its writes use the fence that is modelled |
| Admission gates (`bulkhead.py`, `work_admission.py`, `source_admission.py`) | semaphores, per-stage leases | slots are neither leaked nor released twice when a lease changes stage or a waiter is cancelled | planned |
| Database rate limiter (`db_rate_limiter.py`) | attempt rows | no more than the limit admitted by concurrent replicas | planned |
| Automations (`modules/automations`) | schedules and claimed runs | a due run is dispatched once | planned last |
| Ranking, quota arithmetic, backoff (`core/balancer/logic.py`, `core/usage/quota.py`, `overload_backoff.py`) | floating-point scores | no reference definition | numeric heuristics; `AccountSelection` lets any available account be preferred |
| HTTP bridge sessions, streaming retry and replay | queues and per-turn state in tens of thousands of lines | order and completeness of events | tied to the wire protocol; only the ownership of sessions is modelled |
| Upstream clients, wire formats, egress worker | connections | | I/O and payload translation |
| Dashboard, users, SCIM, settings, reports, retention, logs | rows | | request-response CRUD |
| Limit warm-up and quota planner | rows, claimed by single conditional inserts | | run under the leader lease, no protocol of their own |
| Schema and migrations | | | declarative or generated |

The repository has about 270,000 lines, most of them request handlers, payload translation,
the wire protocol of the bridge and the websocket, dashboards, tests' support and generated
revisions. They keep little state that two actors share; the models cover the protocols that
do, which is a small share of the lines and most of the coordination between replicas.

## 2. Modules

`M.tla` is the specification of a component, `MCM.tla` what its instances need besides a
`.cfg`, `MProofs.tla` the proofs (`AccountProofs` those of `AccountSelection` and
`CircuitBreaker`, the two that guard a call to an account). Operators named `Mutant...` stand next to the definition
they are a faulty variant of; no specification uses them.

**`DrainState`.** The interpreter is a stack of frames (`depth`, `pc`, `arg`, `loc`): the
bottom frame is one synchronous call of the event loop, every frame above it a signal
handler that interrupted the one below. `CommitStep`, `BeginStep`, `StopStep` and
`AdmitStep` each do one read or write of a global, in the source's order; `handle_exit`
pushes a handler at any moment. `shutdown`, `WaitStart`, `WaitPoll` and
`mark_lifespan_completed` are the shutdown sequence, `prepare_*` the lifecycle resets. The
list of deadline candidates is a set, because only its minimum is ever read. `promised` is a
history variable: the deadlines returned while shutdown was committed.

**`LeaderElection`.** The row and the transaction that holds its lock; per replica the
singleton's `is_leader` and `lease_deadline`; per scheduler ("worker") the state of its
`run_if_leader`: the body, its heartbeat with deadline, timer and error count, and the
statement in flight in its stages sent, executed, anchored (the result is read and the
monotonic clock noted). Cancelling a statement leaves a `ghost` that may still execute, and
a failed commit may have taken effect. Times count down and are relative, so the state space
is finite without a bound on time. The renewal's time-box `ttl / 6` is rounded down to ticks.
The shutdown keeper's renewal (`_renew_lease_row`, lines 918-972) is one step that takes effect or
fails: its statement and its commit are not told apart, and a slow one is not modelled.

**`UsageReservations`.** Each client, and the sweep, is a transaction that goes through its
statements one by one: `draft` holds the counters it has written (their rows locked), `claims`
the reservation rows it has locked, `seen` the limit rows it decided on. A statement
re-evaluates its `WHERE` clause on the committed row when it gets the lock, as READ COMMITTED
does. `reset_at` is used only as the identity of a window, hence the number `win`. Rows are
locked in any order: the code has none. The set of limits is fixed: an administrator changes
maxima and resets usage, but adds and deletes no limit (`api_keys/repository.py:632-646`).

**`CacheInvalidation`.** A namespace's rows are the set of changes made so far, a cache the
changes it reflects. Each replica has a poller and one writing request at a time; each await
of `bump`, `_poll_once` and `bump_local` is a step of its own. `lost` records namespaces whose
only bump died with its process, which the code does not claim to survive.

**`CircuitBreaker`.** The methods hold a lock and do not await inside, so each is a step. A
call is checked, recorded and ended in three steps; `OpenRouted` is the websocket that records
without having been checked.

**`AccountSelection`.** Sections under `_runtime_lock` do not await, so each is a step; a
selection suspends while its inputs are loaded and while its choice is persisted. A refused
selection persists what it observed as well, and tries again if an account recovered meanwhile
(`PersistRefusal`, the retry on `runtime_recovered`). A lease is
named after its request. `runtime.version` is only ever compared with the version that a
reservation saw, so the model keeps the comparison. Two readings of the clock are assumed
distinct (a reservation recognises its own stamp in `last_selected_at` by equality). Which
accounts are available and preferred is any choice. A request refused for capacity waits and
tries again, as the streaming retry loop does. A request of kind `none` selects without taking a
lease; the proofs cover it, the run has streams only.

**`FencedSession`** is the abstract specification of a session key: a claim is granted a fence
newer than all before, fences stay in the process they were granted to, and the key's account
and anchor change, and its claim ends, only by the hand of a holder of the newest fence or by an
administrative withdrawal. One hand is outside the fence: the merge of two accounts rewrites the
account of a row whose claim stands (`accounts/repository.py:707-711`); the abstract step `merges`
counts it, so that nothing else can pass for one. It knows no rows, leases, registries or databases.

**`BridgeOwnership`** is one key in detail. `ClaimRead` and `ClaimCommit` are the two
statements of `claim_session`; on PostgreSQL nobody writes the row in between (`Unlocked`), on
SQLite everybody may. `BeginCreate`, `Connected`, `Publish`, `Settle` and `ConnectFailed` are
the life of a creator: the lookup of `BeginCreate` is kept (`seen`), and when the connection is
made the lease it saw is compared with the clock, renewed since or not (`ClaimAllowsTakeover`).
`Renew`, `WriteAnchor`, `Detach`, `Close` are those of a registered session, and a reconnect to
another account is `BeginReconnect`, a claim if the affinity is rebound, then the swap: `Rebind`
changes the session's account and writes the fenced row, `RebindFailed` leaves the session broken
with the fence it has, and `CloseUnderReconnect` ends it when its process closed everything
meanwhile. `Reconcile`, `MarkSelect`, `MarkWrite`, `CloseAll`, `Exit` and `Start` are
the sweeps of a process, its shutdown and its restart; `CloseForAccount`, `Purge`,
`RetireContinuity` and `MergeAccounts` the administrative hands. The lease is the ticks that remain of it. An anchor
is the account whose response it is. `FencedOwnership` states that the whole implements
`FencedSession` under the mapping `F`: the newest fence is the newest `(id, owner_epoch)` ever
written (identifiers and epochs are unbounded; the upsets bound them in a run), a claim lives while the row has an owner, and a session holds the pair it would put
into the `WHERE` of a fenced statement.

**`TokenRefresh`** is one account. A caller reads the row (`LoadAccount`) and asks for a refresh
later, from a copy of any age; it goes through the awaits of `ensure_fresh` one by
one, and those who find the flight of their process join it. An import stores the same token in a
new encryption, or that of an earlier sign-in. Tokens are numbered in the order the
upstream mints them, and `tokens` remembers which one each was exchanged for, and as history
whether it was stored into a row that had been flagged meanwhile (`stranded`); a ciphertext is a
token with the encryption that produced it, because the guarded writes compare ciphertexts. The
upstream may answer, refuse, be unreachable, or rotate and lose the answer, and may revoke the
whole family when a used token is presented. Claims expire at any moment.

**`CapPartition`** has the ring rows by their age and every replica's heartbeat task in its
steps: write the row, read the ring, observe. Time goes on in ticks, and waits for a replica
whose round is overdue. `seen`, `steady` and `gatedOn` are history: what the replica's reads
have shown, for how long, and by which caps it compared.

## 3. Runs

Every property has a mutant in `PROJECT.json`: a plausible bug in one mapped definition under
which TLC finds the property violated.

| Run | Question | Result |
|---|---|---|
| `drain` | signals between any two bytecodes: `PromisedDeadlineKept`, `StopVerdictTruthful`, `DrainedIsQuiet`, `ShutdownCompletes` | holds |
| `leader_siblings` | two schedulers of one process through errors, time-outs, cancellation and the stop sequence: `RunningOwnsLease`, `DrainingBodyKeepsLease` | holds |
| `leader_pair` | two replicas, slow commits, abandoned statements, crashes: `LeaderStaysWithinLease` (`RunningOwnsLease` and `DeadlineWithinLease`), `DeadLeaderReplaced` | holds |
| `usage_ledger` | two clients, the sweep and window resets on two limits: `LedgerExact`, `NoOverAdmission` | holds |
| `usage_sweep` | settlers, sweep, heartbeat and administrator on one reservation, with the maximum lowered: `OrphansReclaimed`, `NoOverAdmission` | holds |
| `cache_bus` | failing statements and callbacks, crash and restart: `NoLostInvalidation`, `EventuallyFresh` | holds |
| `breaker` | overlapping calls with late results: `ProbeSlotOwned`, `RecoversAfterOutage` | holds |
| `bridge` | two sessions of a key in one process, in two instances or across a restart, on both databases, with reconnects and merges: `FencedOwnership`, `RegisteredKeepsRow`, `AnchorFollowsAccount` | holds |
| `bridge_stale_permission` | two replicas that looked the key up before anyone owned it: `TakeoverOnlyOfLapsedLease`, which the repository's specification states | violated, disagreement 4 |
| `token_refresh` | two callers in one process and one in another: `HealthyStaysActive`, `RotationsChain`, `FlagsOnlyDeadTokens` | holds |
| `caps` | three replicas start, miss heartbeats, fail to read, crash and come back: `SharesFitCap`, `GrowthEarned`, `CapacityReclaimed` | holds |
| `selection` | two requests on a healthy and a recovering account while the account list changes: `CountersExact`, `CapsRespected`, `UnusedProbesReturned`, `ProbesSpaced`, `SelectionEnds` | holds |

Every run also checks the type invariant of its module, once per module.

### Where code and documentation disagree

Six disagreements have a configuration of their own, under which TLC finds the named property
violated. The fourth is the run `bridge_stale_permission`; the others are kept beside the runs:

1. `tlc -config LeaderSlowResponse.cfg MCLeaderElection` (`DeadlineWithinLease`): `try_acquire`
   (`leader_election.py:264`) and `renew` (line 359) add the remaining lease the database computed
   to a clock read only when the answer arrives, so the local deadline outlives the row by the
   answer's delay. The comment at lines 201-203 says "the database clock may grant slightly more,
   never less".
2. `tlc -config UsageReset.cfg MCUsageReservations` (`ResetStartsAtZero`): `update_key` with
   `resetUsage` assigns 0 to a row object that already read 0 (`api_keys/repository.py:641`), so
   the flush leaves `current_value` alone; a reservation committed in between stays in the new
   window's counter. `openspec/specs/api-keys/spec.md:50` says "the system MUST initialize
   submitted limits with `current_value: 0`".
3. `tlc -config CacheAbsorb.cfg MCCacheInvalidation` (`AbsorbsOnlyLaterBumps`): `bump_local`
   (`invalidation.py:234`) acknowledges also peer bumps committed before its own; its docstring
   (lines 212-213) limits this to bumps "between our commit and the acknowledging read".
4. `tlc -config BridgeStalePermission.cfg MCBridgeOwnership` (`TakeoverOnlyOfLapsedLease`):
   `claim_session` (`durable_bridge_repository.py:1172`) drops its takeover permission only after
   a lost compare-and-set or insert. The permission is decided on the lookup made before the
   upstream connection. On PostgreSQL the `SELECT ... FOR UPDATE` waits for the winner
   and returns its row, nothing is lost, and the permission takes the
   winner's live lease. `openspec/specs/responses-api-compat/spec.md:7981-7984` says "the loser
   fails closed and reports the winner as owner instead of claiming the row".
5. `tlc -config TokenStranded.cfg MCTokenRefresh` (`TerminalRowIsDead`): under the claim, a refresh
   that re-reads a terminal row fails without asking the upstream
   (`accounts/auth_manager.py:456-472`); the comment there says the row "still holds the SAME
   consumed/dead token" and "a repaired account never reaches here". A claim that expires under its
   holder lets a peer present the used token and flag the row; the holder's late `rotate_tokens`
   then stores a working token under that flag, and no refresh uses it until an operator signs in.
6. `tlc -config SelectionStarved.cfg MCAccountSelection` (`ActiveLightKeysServed`): the fair-share
   gate refuses a heavy key only while the pool is at its congestion threshold
   (`fair_share.py:93`). `fair_share.py:16-18` says "over-share keys cannot reacquire freed
   slots until they drop back under". That is so when the pool with one slot free is still congested, that is while
   `threshold_pct * capacity <= 100 * (capacity - 1)`; above that (the setting allows 0 to 100; 80
   for four slots in the configuration) each freed slot ends the congestion, and the heavy key may
   take it back before the light one is tried again, for ever.

Also met while modelling:

- Fair share: `fair_share.py:14-16` calls light keys starvation-proof, but a key that holds no
  stream is not among the active ones, so a heavy key's share does not shrink for it and it may
  wait for ever at a full pool, whatever the threshold. `ActiveLightKeysServed` therefore speaks of keys that hold a
  stream. The minimum guarantee may also overcommit a pool with more than `capacity / 2` active
  keys; the cap then decides.
- Bridge, after a change of account. A detached session that reconnects on another account
  shares its fence with the registered successor through adoption (`helpers.py:3141-3160`); its
  release then closes the row under the successor, or it writes an anchor of another account. A
  creator evicted while its claim was on the way, whose epoch the registered session adopted and
  moved to another account, releases the row when it settles. A merge of accounts moves the row
  under a session that still serves the old one. Hence the `moved` in
  `RegisteredKeepsRow` and `AnchorFollowsAccount`.
- Bridge, on SQLite: whether the account changes is decided on the row read before, so an anchor
  may be kept under another account. `AnchorFollowsAccount` therefore speaks of PostgreSQL.
- Bridge, elsewhere: `mark_owner_draining` writes by primary key after its select and may mark
  another owner's row; the reconcile sweep evicts on the copy it read; a claimant cancelled before
  the answer owns a row it does not know of until the lease lapses.
- Tokens: importing an old auth file replaces a rotated token by a used one
  (`accounts/repository.py:491-504`); the next refresh is refused and flags the account. This counts
  as spoiling in `HealthyStaysActive`.
- Tokens: what disagreement 5 shows happens only after a claim was outlived, which
  `HealthyStaysActive` therefore excludes; `FlagsOnlyDeadTokens` counts a token that was stored
  under an earlier flag as dead, because no refresh will use it. The deadline that should prevent it is computed after the acquire
  statement has returned.
- Caps: a replica starts with the whole of every cap and keeps it until its first successful read.
  When the dashboard's caps cannot be read, the window is decided by the startup caps
  (`cap_partitioning.py:202-215`), although
  `openspec/specs/proxy-admission-control/spec.md:555` says "never the startup defaults when a
  dashboard override differs"; `gatedOn` keeps the two apart. With two caps one change may grow
  one share and shrink the other, and is then held back as a whole: with caps 5 and 12 a replica
  that moves from rank 0 of 4 to rank 2 of 3 would give up one of its 2 slots of 5 and gain a
  fourth of 12, so it keeps both while its two peers hold 2 of 5 each, and the shares of 5 add up to
  6 for the length of the window (the ring has lost three members above it and gained two below). `SharesFitCap` names this exception (`HoldsMixedChange`); among
  the three replicas of the run it does not arise, the attempt to prove the property for all rings
  brought it to light.

### Bounds, and why they are enough

- `drain`: two frames and two signals: a signal inside a call or inside another signal's
  handler, and a second one after the first returned; one lifecycle, started by the server or
  embedded. The proofs cover any depth and any number of lifecycles.
- `leader_*`: the TTL is 3 ticks, the least at which a lease outlives a renewal interval plus
  a time-box; a time-box is one tick then, so a lease with less than a time-box left has nothing
  left, and the positive remainders are left to the proofs (a TTL of 12 is beyond TLC); one database error for siblings (they share everything an error can spoil) and,
  in `leader_pair`, abandoned statements and slow commits instead of errors. Crashes and
  shutdowns are limited to one replica, so that someone is left to take over.
- `usage_*`: two limits are needed for a half-done reservation and for a deadlock; budgets and
  maxima such that one reservation fits whole and a second only in part; one window rollover; one
  failing statement. The maximum is lowered in `usage_sweep`, where one limit leaves room for it.
- `cache_*`: two changes, two attempts, one error, one crash: a change can be missed while the
  other is being propagated. Namespaces are independent, one suffices.
- `breaker`: three calls, thresholds 3 and 2, an outage long enough to open the breaker again
  from half open.
- `selection`: one healthy and one recovering account with caps of one, where a probe and a
  lease compete; the account list changes once, so that a selection may prune by an old list.
- `bridge`: two sessions, because every hazard of a claim is between a claimant and one other; the
  three placements put them in one process, in two instances or in two lives of one instance. A
  lease of one tick is held or lapsed, which is all a claim distinguishes. Two tries of the
  compare-and-set: one may be lost and another made. Two upsets (failures, evictions, crashes,
  withdrawals, merges, changes of account), so that one may follow another. The two accounts are
  symmetric.
- `token_refresh`: two callers that may join a flight and a third that competes for the claim; each
  kind of retry is made once; three upsets, which lets an operator's hand, an outlived claim and a
  fault meet in one refresh. The two callers of a process are symmetric.
- `caps`: three replicas, the least number with a middle rank. The times keep the order of the
  code's 10, 30, 15 and 30 seconds but not their ratio: two missed heartbeats make a row stale.
  Of the caps 2 and 4 one is smaller than the ring and the other no multiple of it; the startup caps 0 and 5
  disagree with them on which changes grow a share. Two upsets: a peer that misses two heartbeats
  and returns, a crash with a failed read or a failed look-up. `MaxGap` is the assumption that a
  round of the heartbeat task ends before the own row is stale.

### Fairness

- `DrainState`: a frame runs on (WF); time passes and the event loop's FIFO queue returns to
  the shutdown coroutine although other calls keep arriving (SF). No request need end.
- `LeaderElection`: a run proceeds (WF), the database's lock queue serves a statement (SF), and
  finite time holds finitely many steps (SF of `Tick`). Bodies need not finish. `PromptResponses`
  and `PromptCommits` are assumptions about latency, constants of the model; finding 1 is what
  happens without the first. A timer that is due fires before time goes on. `DrainingBodyKeepsLease`
  holds while no database error happens: the keeper swallows errors.
- `UsageReservations`: transactions go on, lock queues are fair (SF of `Claim` and `Adjust`), the
  leader's scheduler keeps sweeping, reservations grow old.
- `CacheInvalidation`: every ready task runs (WF); errors and crashes are finite by their bounds.
- `CircuitBreaker`: clients keep calling and the upstream, once its outage is over, answers some
  of the checked calls (SF). Every call ends (WF).
- `AccountSelection`: a selection's steps happen (WF), a parked request is retried (WF), a request
  ends unless it is in `Lasting`.
- `CapPartition`: time passes or a heartbeat task takes a step (one WF for all: a task does one
  round per interval and time waits for it, so none is starved). Registrations need not happen.
- `BridgeOwnership` and `TokenRefresh` claim safety only and assume no fairness.

Runs without deadlock checking are those in which the bounds let everything stop.

## 4. Proofs

All results hold for every value of the constants, from the `ASSUME` of their module only
(numbers are natural, sets finite where they are counted, `None` is no member), unless a
theorem names a further assumption.

**`DrainStateProofs`**: `DrainTypeCorrect`, `AssertionsNeverFail`, `StartedAlwaysHasDeadline`,
`PromisesAreKept`, `CommitmentIsOneWay`, `StopAnswersTruthfully`, `DrainedStaysQuiet`. The stated
properties are not inductive: what a frame
may rely on when it resumes depends on what handlers above it did. The invariant gives every
program counter its rely condition (`FrameOK`): after `c_append` a candidate exists; after
`c_promote` a candidate covers the reversible deadline (`Covered`), except while `begin_drain`
is between publishing and promoting; while `stop_drain` has cleared the token, the token is down
or a candidate exists; only the bottom frame runs `begin_drain` or `stop_drain`. `CommitRely`
and `BottomRely` say which changes by another frame keep these conditions; every step then
shows its own frame's new condition and cites them for the others. `CommitmentIsOneWay` adds
that a prepared server is marked pending, so the lifespan's start does not wipe out an earlier
signal. `LeastIsMember` gives the minimum from well-foundedness of the naturals.
The answer of `stop_drain` needs `VInv`: without a commitment, what it has cleared so far is
still clear and no candidate exists except one of a handler that has not returned; with one, the
token is set or the handler that sets it is still on the stack; and a handler raises flags only
behind the barrier. `DrainedIsQuiet` needs `QInv`: the counter is never below the number of counted requests (also
across lifecycles, since a reset finds none), and a wait has a commitment behind it or is still
in the frame that makes it; so a counter of zero means an empty set, and what is checked later is
rejected.

**`AccountProofs`**, the circuit breaker: `BreakerTypeCorrect`, `ProbeSlotAlwaysOwned`,
`CountsAlwaysMatchState`.
The conjunction of the three invariants is inductive: the breaker closes only from a state
with the count at its threshold, and closing resets both counts.

**`AccountProofs`**, the selection: `SelectionTypeCorrect`, `CountersAlwaysExact`, `CapsAlwaysRespected`,
`UnusedProbesComeBack`, `ProbesKeepApart`.
The invariant `Inv` adds to the types: every account's counters are the cardinalities of its
lease table and these are within the caps (`AllGood`); the holder of a lease that is not stale
is in the table of its account (`Table`), which pruning keeps because it spares accounts with
leases; attempts are below the maximum where one more is made, after a refusal too (`Attempts`). Lemmas on one
account's record (release, acquire, stamp) carry the counting. The probes need `PInv`, because
reservations nest: one may be made over another that has become due again, and each puts back
what it replaced. The stamp a reservation replaced was due when it was replaced (so giving it back
leaves the account due), and was set no earlier than the last real selection, unless that
selection is younger than the reservation; a stamp left by a reservation is younger than the last
real selection (so a reservation still in place can be committed).

**`CapPartitionProofs`**: `TypeCorrect`, `GrowthIsEarned`, `SharesFit`. `IInv` says that a pending
partition is the one every read has shown for as long as it has been pending, and that a replica
that does not hold what it last read holds it back because a share would grow. For `SharesFit`
the shares are bounded one by one by the shares of the ring everybody reads (`ReadHeeded`, and
the exception), and those add up to the cap: the ranks of the running replicas are
`0 .. n-1`, each once, and `cap % n` of them get one slot more. The sum is over a set, so the
argument goes by the size of the set; the induction is the least natural number for which the
statement fails, taken from well-foundedness, since induction with an operator as parameter is
out of the provers' reach.

**`TokenRefreshProofs`**: `TypeCorrect`, `RotationsAlwaysChain`, `FlagsOnlyTheDead`,
`HealthyAccountStaysActive`. `IInv` says what a refresh may rely on at each await (`RecOK`): it is
about the token it last saw in the row, a new token was exchanged for that one, and a stage that
may flag is about a dead token; a flagged row and a remembered failure are about dead tokens.
`HealthyInv` adds, as long as nothing is spoiled: one flight per process, at most one holder of
the claim past it (`HoldersClaim`), the row's token works or somebody holds its successor
(`RowBacked`), and nobody accuses the row's token or knows an unstored one (`RowApart`,
`NewApart`).

**`BridgeOwnershipProofs`**: `TypeCorrect`, `ImplementsFencedSession`, `LeaseNotStolen`,
`RegisteredOwnsRow`, `AnchorFollows`. `IInv`: the
row carries the newest fence (`RowNewest`), registries hold their own process's sessions, a
session that does not exist holds nothing, and on PostgreSQL a locked row differs from what was
read only in the remaining lease, with one lock holder at a time (`LockHeld`). Each action is then
a step of `FencedSession` or a stutter: a claim grants the successor of the newest fence, and the
fenced statements match the row's fence, which is the newest, or change nothing.

The last two rest on a second invariant, `StandInv`, because a registered session shares its row
with the other sessions of its process: those it replaced, which still close and release, and
creations that lost their slot and still claim. A session *stands* if it is open or a creation in
the in-flight slot. `StandInv` says who holds which fence: fences are granted before they are held
and only where the row says (`FencesGranted`, `FenceAtHome`), the registry lists the open and the
broken sessions (`RegistryAgrees`), two creations never share one (`CreatorsApart`), whoever stands
claimed after those that retire beside it (`SuccessorsNewer`), and the holder of the row's fence
serves the row's account, except while it swaps to the one it claimed for (`HolderServesAccount`). The core is `ForsakenByAll`: once the row has no
owner, or a leaving session will release it, nobody who stands in that process holds the row's
fence or serves its account, and no creation can hand the fence on, so neither the hand-over in
`Settle` nor the adoption in `Renew` brings a standing session back to a released row. The part
about the account fails once a session changed its account, which is the exception
`RegisteredKeepsRow` states. `AnchorFollows` needs `HolderServesAccount` for the fenced writes and
`LockHeld` for the continuity a claim keeps; it holds for retired rows too (`AnchorBound`).

**`CacheInvalidationProofs`**: `TypeCorrect`, `NothingIsLost`. `NoLostInvalidation` is inductive
together with: polls have read published versions only (`RowsPublished`), run only in `prime` and
after `start`, and a bump in progress has its namespace. A cache that misses a change is owed
either a bump (pending, or a request about to write) or a poll that will see a newer version; the
argument is that no step drops such a debt without publishing a version (`DebtsKept`).

**`LeaderElectionProofs`**: `TypeCorrect`; `LeaderWithinLease` and `OneRunningLeader`, which assume
`PromptResponses`; `DrainKeepsLease`, which assumes `PromptResponses`, `PromptCommits` and
`TTL > 1` (the setting's minimum is five seconds, `core/config/settings.py:489`; with a TTL of one
tick a renewal cannot be in time). Without prompt answers the first two are false, see
disagreement 1. `TInv` is the type invariant with the anchors of answers. `SInv` says that the row,
and the row a rollback would bring back, both back the shared deadline of every replica and the
deadlines of its heartbeats (`LeaseBacked`), that an answer on its way is the locked row
(`AllAnswered`), that a running body has a heartbeat whose deadline has not passed (`AllBeatsOK`),
and that a released replica keeps no deadline (`AllQuiet`). The assumption is used in `Tick` only: no time
passes between an answer and the clock reading. `DInv` adds the shutdown keeper: as long as no error happened the lease of a
draining replica outlasts the keeper's next heartbeat (`LeaseCovered`, `HbAhead`, `FreshAnswers`).

**`UsageReservationsProofs`**: `TypeCorrect` and `AdmissionBounded`, for every history;
`LedgerStaysExact`, which assumes `~UsageResets`. A reset of usage by the
administrator may leave a concurrent reservation in the new window's counter (disagreement 2),
and the ledger is not exact then; a change of the maxima is included, adding and deleting limits
is not modelled.
`IInv` says what a transaction may rely on between two of its statements (`ActorOK`): what it has
in hand at each stage; a request creates a reservation that is not there yet and is no one
else's, a claimed reservation stays reserved until its settler commits; and while a request
reserves, a counter it has written is the committed one plus its item, in the window of the item
and within the maximum (`ReservingOK`), because the row is locked from then on. Two transactions
never create the same reservation, claim the same one or write the same counter (`Apart`). A step
of one transaction keeps this for the others because it leaves what they have in hand alone
(`Same`) and changes only rows they have neither claimed nor written (`Harmless`).

`LedgerExact` is not inductive, because a settlement changes counters and reservations statement
by statement and shows both only when it commits. `LInv` adds what it is about to show: `Plan` is
the charges to a limit as they will be, with the reservations it has processed settled and the one
in progress not yet; a counter it has written is the sum of its plan, and where it has written
none the plan changes nothing (`Balanced`). Adjusting one limit changes one summand of the plan and
the counter by the same amount; since a sum covers each of its summands, the guard of
`adjust_reserved_usage` never refuses a refund in the item's own window, and in another window
both charges are zero. No item is of a window still to come (`RowsPast`, `ActorPast`), so a new
window starts with nothing charged. `SumType`, `SumUpdate`, `SumCovers` and `SumZero` are the facts
about `SumFunction` this rests on, proved as in `CapPartitionProofs` by the size of the set.

Only model-checked: all liveness (`ShutdownCompletes`, `DeadLeaderReplaced`, `OrphansReclaimed`,
`EventuallyFresh`, `RecoversAfterOutage`, `CapacityReclaimed`, `SelectionEnds`), which is out of
the prover's reach. Every other property of the passing runs is
also proved. `CountsMatchState`, `NoAssertionFailure`, `StartedHasDeadline`,
`CommittedNeverExtends` and `LiveLeaseNotStolen` are proved for all constants and have no run. The
last is what remains of disagreement 4: a claim never takes a live lease without a permission of
some age.

## 5. Plan

1. `BridgeOperations`: the operation journal under the fence of `BridgeOwnership`.
2. `AccountSelection` extended by sticky selection: the pinned account, the recheck in the
   commit section, rebinding.
3. `AdmissionGates`, `RateLimiter`, then the automations' dispatch.
4. Abstract specifications of what is there: the lease as timed mutual exclusion
   (`LeaderElection` implements it under prompt answers), the ledger as an atomic counter
   per window (`UsageReservations` implements it at its commits).
