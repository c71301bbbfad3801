------------------------- MODULE CacheInvalidation -------------------------
(***************************************************************************)
(* The cross-replica cache invalidation bus: app/core/cache/               *)
(* invalidation.py and its start-up in app/main.py.                        *)
(*                                                                         *)
(* A replica that changes shared rows bumps the namespace's version row;   *)
(* every replica polls the versions and runs the namespace's callbacks     *)
(* before it acknowledges a version it has not seen.  Between any two      *)
(* awaits of a task the other tasks of the process and the other replicas  *)
(* may run.                                                                *)
(*                                                                         *)
(* The rows behind a namespace are the set 1..writes of the changes made   *)
(* so far, a cache the changes it reflects.                                *)
(***************************************************************************)
EXTENDS Integers, FiniteSets, FiniteSetsExt

CONSTANTS
    Replicas, Namespaces,
    LocalBumpers,               \* replicas that use bump_local
    None,
    BUMP_RETRY_ATTEMPTS,
    MaxWrites,                  \* bound: changes per namespace
    MaxErrors, MaxCrashes       \* bounds: failing statements or callbacks, crashes

ASSUME ConstantsAssumption ==
    /\ LocalBumpers \subseteq Replicas /\ None \notin Nat
    /\ BUMP_RETRY_ATTEMPTS \in Nat \ {0}
    /\ MaxWrites \in Nat /\ MaxErrors \in Nat /\ MaxCrashes \in Nat

(* The poller and one request at a time of every replica bump. *)
Tasks == {"poll", "writer"}

VARIABLES
    writes,         \* changes committed to the rows behind a namespace
    version,        \* the cache_invalidation rows, 0 when there is none
    phase,          \* where the process is in its start-up
    known,          \* _known_versions
    pending,        \* _pending_bumps
    initialized,    \* _poll_initialized
    cache,          \* the changes the replica's caches reflect
    poll,           \* _poll_once in progress: pc, queue, rows, todo
    bumping,        \* bump and bump_local in progress, per task
    lost,           \* namespaces of bumps that died with their process
    errors, crashes

shared == <<writes, version>>
local == <<known, pending, initialized, cache>>
counts == <<errors, crashes>>
vars == <<shared, phase, local, poll, bumping, lost, counts>>

NoBump == [pc |-> "idle", ns |-> None, attempt |-> 0, keep |-> FALSE, mark |-> 0]
NoPoll == [pc |-> "idle", queue |-> {}, rows |-> [n \in Namespaces |-> 0], todo |-> {}]
NoVersions == [n \in Namespaces |-> None]

Rows(n) == 1..writes[n]
Known(r, n) == IF known[r][n] = None THEN 0 ELSE known[r][n]

Init ==
    /\ writes = [n \in Namespaces |-> 0] /\ version = [n \in Namespaces |-> 0]
    /\ phase = [r \in Replicas |-> "down"]
    /\ known = [r \in Replicas |-> NoVersions]
    /\ pending = [r \in Replicas |-> {}]
    /\ initialized = [r \in Replicas |-> FALSE]
    /\ cache = [r \in Replicas |-> [n \in Namespaces |-> {}]]
    /\ poll = [r \in Replicas |-> NoPoll]
    /\ bumping = [r \in Replicas |-> [t \in Tasks |-> NoBump]]
    /\ lost = {} /\ errors = 0 /\ crashes = 0

Fails == errors < MaxErrors /\ errors' = errors + 1 /\ UNCHANGED crashes

-----------------------------------------------------------------------------
(* bump: the marker is consumed before the write, so that a request that   *)
(* arrives during it survives.                                             *)
StartBump(r, t, n, keep) ==
    /\ pending' = [pending EXCEPT ![r] = @ \ {n}]
    /\ bumping' = [bumping EXCEPT ![r][t] = [pc |-> "write", ns |-> n, attempt |-> 0,
                                             keep |-> keep, mark |-> 0]]

MutantMarkerDroppedAfter(r, n, succeeded) ==
    IF succeeded THEN pending[r] \ {n} ELSE pending[r] \cup {n}

pending_after(r, n, succeeded) == IF succeeded THEN pending[r] ELSE pending[r] \cup {n}

EndBump(r, t, succeeded) ==
    LET b == bumping[r][t]
    IN  /\ pending' = [pending EXCEPT ![r] = pending_after(r, b.ns, succeeded)]
        /\ bumping' = [bumping EXCEPT ![r][t] =
              IF succeeded /\ b.keep THEN [b EXCEPT !.pc = "ack"] ELSE NoBump]

(* The session is closed, an await of its own, after the commit. *)
_bump_once(r, t) ==
    LET n == bumping[r][t].ns
    IN  /\ bumping[r][t].pc = "write"
        /\ version' = [version EXCEPT ![n] = @ + 1]
        /\ bumping' = [bumping EXCEPT ![r][t].pc = "close", ![r][t].mark = version[n] + 1]
        /\ UNCHANGED <<writes, phase, local, poll, lost, counts>>

BumpSucceeds(r, t) ==
    /\ bumping[r][t].pc = "close"
    /\ EndBump(r, t, TRUE)
    /\ UNCHANGED <<shared, phase, known, initialized, cache, poll, lost, counts>>

may_retry(attempt) == attempt < BUMP_RETRY_ATTEMPTS - 1

(* An OperationalError is retried, anything else, a cancellation included, *)
(* ends the bump, before or after the commit.                              *)
BumpFails(r, t, retryable) ==
    LET b == bumping[r][t]
    IN  /\ b.pc \in {"write", "close"}
        /\ Fails
        /\ IF retryable /\ may_retry(b.attempt)
           THEN /\ bumping' = [bumping EXCEPT ![r][t].pc = "write", ![r][t].attempt = @ + 1]
                /\ UNCHANGED pending
           ELSE EndBump(r, t, FALSE)
        /\ UNCHANGED <<shared, phase, known, initialized, cache, poll, lost>>

(* bump_local records the version it reads as observed; failing to read it *)
(* only costs a redundant callback.                                        *)
bump_local_ack(r) ==
    LET b == bumping[r]["writer"]
    IN  /\ b.pc = "ack"
        /\ \/ /\ known' = [known EXCEPT ![r][b.ns] = Max({Known(r, b.ns), version[b.ns]})]
              /\ UNCHANGED counts
           \/ Fails /\ UNCHANGED known
        /\ bumping' = [bumping EXCEPT ![r]["writer"] = NoBump]
        /\ UNCHANGED <<shared, phase, pending, initialized, cache, poll, lost>>

-----------------------------------------------------------------------------
(* A request changes the rows, drops its own cache and propagates: by an   *)
(* immediate bump, by a coalesced request_bump, or by bump_local, which    *)
(* evicts only what the request itself touched.                            *)
Change(r, n) ==
    /\ phase[r] = "run" /\ writes[n] < MaxWrites
    /\ writes' = [writes EXCEPT ![n] = @ + 1]
    /\ UNCHANGED <<version, phase, known, initialized, poll, lost, counts>>

ChangeAndBump(r, n) ==
    /\ bumping[r]["writer"] = NoBump
    /\ Change(r, n)
    /\ cache' = [cache EXCEPT ![r][n] = 1..writes'[n]]
    /\ StartBump(r, "writer", n, FALSE)

request_bump(r, n) ==
    /\ Change(r, n)
    /\ cache' = [cache EXCEPT ![r][n] = 1..writes'[n]]
    /\ pending' = [pending EXCEPT ![r] = @ \cup {n}]
    /\ UNCHANGED bumping

bump_local(r, n) ==
    /\ r \in LocalBumpers /\ bumping[r]["writer"] = NoBump
    /\ Change(r, n)
    /\ cache' = [cache EXCEPT ![r][n] = @ \cup {writes'[n]}]
    /\ StartBump(r, "writer", n, TRUE)

-----------------------------------------------------------------------------
(* _poll_once, also the body of prime. *)
_poll_once(r) ==
    /\ phase[r] \in {"prime", "run"} /\ poll[r].pc = "idle"
    /\ poll' = [poll EXCEPT ![r].pc = "flush", ![r].queue = pending[r]]
    /\ UNCHANGED <<shared, phase, local, bumping, lost, counts>>

_flush_pending_bumps(r, n) ==
    /\ poll[r].pc = "flush" /\ n \in poll[r].queue
    /\ bumping[r]["poll"] = NoBump
    /\ StartBump(r, "poll", n, FALSE)
    /\ poll' = [poll EXCEPT ![r].queue = @ \ {n}]
    /\ UNCHANGED <<shared, phase, known, initialized, cache, lost, counts>>

(* The end of prime, failed or not, lets the start-up go on. *)
PhaseAfterPoll(r) ==
    phase' = IF phase[r] = "prime" THEN [phase EXCEPT ![r] = "load"] ELSE phase

ReadVersions(r) ==
    /\ poll[r].pc = "flush" /\ poll[r].queue = {} /\ bumping[r]["poll"] = NoBump
    /\ \/ /\ poll' = [poll EXCEPT ![r].pc = "rows", ![r].rows = version,
                                  ![r].todo = {n \in Namespaces : version[n] > 0}]
          /\ UNCHANGED <<phase, counts>>
       \/ /\ poll' = [poll EXCEPT ![r] = NoPoll]
          /\ PhaseAfterPoll(r)
          /\ Fails
    /\ UNCHANGED <<shared, local, bumping, lost>>

changed(r, n) ==
    \/ known[r][n] # None /\ poll[r].rows[n] > known[r][n]
    \/ known[r][n] = None /\ initialized[r] /\ poll[r].rows[n] > 0

MutantAcknowledgesNext(r, n) == poll[r].rows[n] + 1

acknowledged(r, n) == Max({Known(r, n), poll[r].rows[n]})

Unchanged(r, n) ==
    /\ poll[r].pc = "rows" /\ n \in poll[r].todo /\ ~changed(r, n)
    /\ known' = [known EXCEPT ![r][n] = acknowledged(r, n)]
    /\ poll' = [poll EXCEPT ![r].todo = @ \ {n}]
    /\ UNCHANGED <<shared, phase, pending, initialized, cache, bumping, lost, counts>>

(* The decision is taken before the callbacks are awaited. *)
Changed(r, n) ==
    /\ poll[r].pc = "rows" /\ n \in poll[r].todo /\ changed(r, n)
    /\ poll' = [poll EXCEPT ![r].pc = "callback", ![r].queue = {n}, ![r].todo = @ \ {n}]
    /\ UNCHANGED <<shared, phase, local, bumping, lost, counts>>

after_failed_callback(r, n) == known[r][n]

_run_callbacks(r, n) ==
    /\ poll[r].pc = "callback" /\ n \in poll[r].queue
    /\ poll' = [poll EXCEPT ![r].pc = "rows", ![r].queue = {}]
    /\ \/ /\ cache' = [cache EXCEPT ![r][n] = Rows(n)]
          /\ known' = [known EXCEPT ![r][n] = acknowledged(r, n)]
          /\ UNCHANGED counts
       \/ /\ Fails
          /\ known' = [known EXCEPT ![r][n] = after_failed_callback(r, n)]
          /\ UNCHANGED cache
    /\ UNCHANGED <<shared, phase, pending, initialized, bumping, lost>>

PollDone(r) ==
    /\ poll[r].pc = "rows" /\ poll[r].todo = {}
    /\ poll' = [poll EXCEPT ![r] = NoPoll]
    /\ initialized' = [initialized EXCEPT ![r] = TRUE]
    /\ PhaseAfterPoll(r)
    /\ UNCHANGED <<shared, known, pending, cache, bumping, lost, counts>>

-----------------------------------------------------------------------------
(* Start-up: install and prime the poller, load the caches, start polling. *)
Launch(r) ==
    /\ phase[r] = "down"
    /\ phase' = [phase EXCEPT ![r] = "prime"]
    /\ UNCHANGED <<shared, local, poll, bumping, lost, counts>>

LoadCaches(r) ==
    /\ phase[r] = "load"
    /\ phase' = [phase EXCEPT ![r] = "start"]
    /\ cache' = [cache EXCEPT ![r] = [n \in Namespaces |-> Rows(n)]]
    /\ UNCHANGED <<shared, known, pending, initialized, poll, bumping, lost, counts>>

MutantStartsUnarmed(r) == initialized[r]

armed(r) == TRUE

start(r) ==
    /\ phase[r] = "start"
    /\ phase' = [phase EXCEPT ![r] = "run"]
    /\ initialized' = [initialized EXCEPT ![r] = armed(r)]
    /\ UNCHANGED <<shared, known, pending, cache, poll, bumping, lost, counts>>

(* The process dies; what it had not published is gone. *)
Crash(r) ==
    /\ phase[r] # "down" /\ crashes < MaxCrashes
    /\ crashes' = crashes + 1
    /\ lost' = lost \cup pending[r] \cup
                 {bumping[r][t].ns : t \in {u \in Tasks : bumping[r][u].pc = "write"}}
    /\ phase' = [phase EXCEPT ![r] = "down"]
    /\ known' = [known EXCEPT ![r] = NoVersions]
    /\ pending' = [pending EXCEPT ![r] = {}]
    /\ initialized' = [initialized EXCEPT ![r] = FALSE]
    /\ cache' = [cache EXCEPT ![r] = [n \in Namespaces |-> {}]]
    /\ poll' = [poll EXCEPT ![r] = NoPoll]
    /\ bumping' = [bumping EXCEPT ![r] = [t \in Tasks |-> NoBump]]
    /\ UNCHANGED <<shared, errors>>

TaskStep(r) ==
    \/ _poll_once(r) \/ ReadVersions(r) \/ PollDone(r)
    \/ LoadCaches(r) \/ start(r) \/ bump_local_ack(r)
    \/ \E n \in Namespaces :
          _flush_pending_bumps(r, n) \/ Unchanged(r, n) \/ Changed(r, n) \/ _run_callbacks(r, n)
    \/ \E t \in Tasks : _bump_once(r, t) \/ BumpSucceeds(r, t)

Next ==
    \E r \in Replicas :
        \/ TaskStep(r) \/ Launch(r) \/ Crash(r)
        \/ \E t \in Tasks, retryable \in BOOLEAN : BumpFails(r, t, retryable)
        \/ \E n \in Namespaces : ChangeAndBump(r, n) \/ request_bump(r, n) \/ bump_local(r, n)

Spec == Init /\ [][Next]_vars

(* The event loop runs every ready task; the poller never stops polling.   *)
(* A namespace's row of a poll is reached although polls follow each other. *)
FairSpec ==
    /\ Spec
    /\ \A r \in Replicas :
          /\ WF_vars(_poll_once(r)) /\ WF_vars(ReadVersions(r)) /\ WF_vars(PollDone(r))
          /\ WF_vars(LoadCaches(r)) /\ WF_vars(start(r)) /\ WF_vars(bump_local_ack(r))
          /\ \A t \in Tasks : WF_vars(_bump_once(r, t) \/ BumpSucceeds(r, t))
          /\ \A n \in Namespaces :
                /\ WF_vars(_flush_pending_bumps(r, n))
                /\ WF_vars(Unchanged(r, n) \/ Changed(r, n))
                /\ WF_vars(_run_callbacks(r, n))

-----------------------------------------------------------------------------
(* The shape of the state; a bump never starts an attempt past the last,   *)
(* and no replica acknowledges a version nobody has published.             *)
TypeOK ==
    /\ writes \in [Namespaces -> 0..MaxWrites] /\ version \in [Namespaces -> Nat]
    /\ phase \in [Replicas -> {"down", "prime", "load", "start", "run"}]
    /\ known \in [Replicas -> [Namespaces -> Nat \cup {None}]]
    /\ \A r \in Replicas, n \in Namespaces : Known(r, n) <= version[n]
    /\ pending \in [Replicas -> SUBSET Namespaces]
    /\ initialized \in [Replicas -> BOOLEAN]
    /\ \A r \in Replicas, n \in Namespaces : cache[r][n] \subseteq Rows(n)
    /\ poll \in [Replicas -> [pc : {"idle", "flush", "rows", "callback"},
                              queue : SUBSET Namespaces, rows : [Namespaces -> Nat],
                              todo : SUBSET Namespaces]]
    /\ bumping \in [Replicas -> [Tasks -> [pc : {"idle", "write", "close", "ack"},
                                           ns : Namespaces \cup {None},
                                           attempt : 0..(BUMP_RETRY_ATTEMPTS - 1),
                                           keep : BOOLEAN, mark : Nat]]]
    /\ lost \subseteq Namespaces
    /\ errors \in 0..MaxErrors /\ crashes \in 0..MaxCrashes

Serving(r) == phase[r] \in {"start", "run"}

Stale(r, n) == Serving(r) /\ cache[r][n] # Rows(n)

Owed(r, n) ==
    \/ \E q \in Replicas :
          \/ n \in pending[q]
          \/ \E t \in Tasks : bumping[q][t].pc = "write" /\ bumping[q][t].ns = n
    \/ version[n] > Known(r, n)

(* A serving replica whose cache misses a change is still going to be told *)
(* of it: some process has the bump to publish, or the published version   *)
(* is one the replica has not acknowledged.  Only a bump that died with    *)
(* its process, and a bump_local of the replica itself, may break this.    *)
NoLostInvalidation ==
    \A r \in Replicas \ LocalBumpers, n \in Namespaces \ lost : Stale(r, n) => Owed(r, n)

(* Every change reaches the caches of every replica that keeps running.    *)
EventuallyFresh ==
    \A r \in Replicas \ LocalBumpers, n \in Namespaces :
        Stale(r, n) ~> (~Stale(r, n) \/ n \in lost)

(* The docstring of bump_local: the only peer bumps it acknowledges        *)
(* without running the callback land between its commit and the            *)
(* acknowledging read.                                                     *)
AbsorbsOnlyLaterBumps ==
    [][\A r \in Replicas, n \in Namespaces :
          (/\ bumping[r]["writer"].pc = "ack" /\ bumping[r]["writer"].ns = n
           /\ known'[r][n] # known[r][n] /\ bumping'[r]["writer"] = NoBump /\ phase'[r] = "run")
          => Known(r, n) >= bumping[r]["writer"].mark - 1]_vars
=============================================================================
