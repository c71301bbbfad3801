--------------------------- MODULE LeaderElection ---------------------------
(***************************************************************************)
(* The scheduler leader lease of app/core/scheduling/leader_election.py.   *)
(*                                                                         *)
(* One row of the database names the leader and when its lease expires.    *)
(* Every replica is one process with one LeaderElection singleton; its     *)
(* schedulers ("workers") call run_if_leader concurrently, and each call   *)
(* heartbeats the shared lease while its gated body runs.                  *)
(*                                                                         *)
(* Times are relative: row.left is what is left of the lease on the        *)
(* database's clock, lease_deadline[r] what is left on r's own.  Both      *)
(* clocks run at the same rate.  A value of -1 stands for any time in the  *)
(* past.  A timer that is due fires before time goes on: the event loop is *)
(* assumed responsive, which the code's own deadline arithmetic needs too. *)
(***************************************************************************)
EXTENDS Integers, FiniteSets

CONSTANTS
    Replicas, Workers,
    Owner,              \* the replica each worker belongs to
    Mortal,             \* the replicas that may crash or shut down
    TTL,                \* settings.leader_election_ttl_seconds
    CancelGrace,        \* _CANCEL_GRACE_SECONDS
    None,
    PromptResponses,    \* no time passes between a statement and reading its result
    PromptCommits,      \* nor between reading it and the end of the commit
    MaxErrors           \* bound: database errors

ASSUME ConstantsAssumption ==
    /\ Owner \in [Workers -> Replicas] /\ Mortal \subseteq Replicas
    /\ TTL \in Nat \ {0} /\ CancelGrace \in Nat \ {0} /\ None \notin Replicas \cup Int
    /\ None \notin [leader : Replicas, left : -1..TTL]
    /\ None \notin [by : Workers, old : [leader : Replicas, left : -1..TTL] \cup {None}]
    /\ PromptResponses \in BOOLEAN /\ PromptCommits \in BOOLEAN /\ MaxErrors \in Nat

VARIABLES
    row,            \* the scheduler_leader row: None or [leader, left]
    tx,             \* the transaction holding the row lock: None or [by, old]
    is_leader, lease_deadline,      \* the singleton's shared state
    mode,           \* "up", "closing", "releasing" or "down"
    stopped,        \* the workers whose scheduler was stopped
    keeper,         \* time to the next renewal of the keeper or the release drain
    body,           \* the gated body of each worker's current run_if_leader
    grace,          \* how much longer a cancelled body is waited for
    graceful,       \* it was cancelled by a scheduler stop, its lease still held
    detached,       \* bodies left behind by earlier runs: "no", "lost", "graceful"
    hb, hb_deadline, timer, consecutive_errors,     \* the heartbeat of that run
    req, rem,       \* the statement in flight and the lease it returned
    ghost,          \* a cancelled statement that may still reach the database
    errors          \* database errors so far

shared == <<is_leader, lease_deadline>>
db == <<row, tx>>
heartbeat == <<hb, hb_deadline, timer, consecutive_errors>>
process == <<mode, stopped, keeper>>
work == <<body, grace, graceful, detached>>
io == <<req, rem, ghost, errors>>
vars == <<db, shared, process, work, heartbeat, io>>

Time == -1..TTL
Row == [leader : Replicas, left : Time]

Min2(a, b) == IF a <= b THEN a ELSE b
Max2(a, b) == IF a >= b THEN a ELSE b

renew_interval == Max2(1, TTL \div 3)
renew_timeout == Max2(1, TTL \div 6)    \* ttl / 6 in the code: exact for TTL <= 6
MAX_CONSECUTIVE_RENEW_ERRORS == 2

-----------------------------------------------------------------------------
(* The guards of the SQL statements. *)
MutantNeverTakesOver(r) == row # None => row.leader = r

acquire_matches(r) == row # None => row.leader = r \/ row.left < 0

renew_matches(r) == row # None /\ row.leader = r /\ row.left > 0

(* Preserving leadership through a failed acquire. *)
may_preserve(r) == is_leader[r] /\ lease_deadline[r] # None /\ lease_deadline[r] > 0

(* How long a heartbeat sleeps, and how long it then waits for a renewal. *)
sleep_budget(left) == Min2(renew_interval, Max2(0, left - renew_timeout))

MutantWaitIgnoresDeadline(left) == renew_timeout + 1

renew_wait(left) == Min2(renew_timeout, Max2(0, left))

(* Whether a heartbeat tries again after its count-th failure in a row. *)
MutantOneRetryTooMany(count, left) == count <= MAX_CONSECUTIVE_RENEW_ERRORS /\ left > 0

may_retry(count, left) == count < MAX_CONSECUTIVE_RENEW_ERRORS /\ left > 0

(* The deadline a commit leaves behind: what the statement returned, less  *)
(* the time since its result was read.                                     *)
MutantFreshTtl(w) == TTL

anchored_deadline(w) == rem[w]

-----------------------------------------------------------------------------
Init ==
    /\ row = None /\ tx = None
    /\ is_leader = [r \in Replicas |-> FALSE]
    /\ lease_deadline = [r \in Replicas |-> None]
    /\ mode = [r \in Replicas |-> "up"] /\ stopped = {} /\ keeper = [r \in Replicas |-> None]
    /\ body = [w \in Workers |-> "none"] /\ grace = [w \in Workers |-> 0]
    /\ graceful = [w \in Workers |-> FALSE] /\ detached = [w \in Workers |-> "no"]
    /\ hb = [w \in Workers |-> "off"] /\ hb_deadline = [w \in Workers |-> 0]
    /\ timer = [w \in Workers |-> 0] /\ consecutive_errors = [w \in Workers |-> 0]
    /\ req = [w \in Workers |-> "none"] /\ rem = [w \in Workers |-> None]
    /\ ghost = [w \in Workers |-> "none"]
    /\ errors = 0

HoldsLease(r) == row # None /\ row.leader = r /\ row.left >= 0
Acquiring(w) == req[w] # "none" /\ hb[w] = "off"
Renewing(w) == hb[w] = "renew"

Demote(r) ==
    /\ is_leader' = [is_leader EXCEPT ![r] = FALSE]
    /\ lease_deadline' = [lease_deadline EXCEPT ![r] = None]

ForgetHeartbeat(w) ==
    /\ hb_deadline' = [hb_deadline EXCEPT ![w] = 0]
    /\ timer' = [timer EXCEPT ![w] = 0]
    /\ consecutive_errors' = [consecutive_errors EXCEPT ![w] = 0]

(* The heartbeat ends with the lease lost and run_if_leader cancels the    *)
(* body; a body already cancelled by a scheduler stop just drains on.      *)
LeaseLost(w) ==
    /\ hb' = [hb EXCEPT ![w] = "off"]
    /\ body' = [body EXCEPT ![w] = "cancelling"]
    /\ grace' = [grace EXCEPT ![w] = IF body[w] = "cancelling" THEN @ ELSE CancelGrace]
    /\ graceful' = [graceful EXCEPT ![w] = FALSE]
    /\ ForgetHeartbeat(w)
    /\ UNCHANGED detached

(* run_if_leader goes on after try_acquire returned TRUE. *)
StartBody(w, deadline) ==
    /\ body' = [body EXCEPT ![w] = "running"]
    /\ hb' = [hb EXCEPT ![w] = "check"]
    /\ hb_deadline' = [hb_deadline EXCEPT ![w] = deadline]
    /\ consecutive_errors' = [consecutive_errors EXCEPT ![w] = 0]
    /\ graceful' = [graceful EXCEPT ![w] = FALSE]
    /\ UNCHANGED <<grace, detached, timer>>

(* The open transaction of w, if any, ends without its client knowing how. *)
EndTx(w) ==
    IF tx # None /\ tx.by = w
    THEN tx' = None /\ row' \in {row, tx.old}
    ELSE UNCHANGED db

-----------------------------------------------------------------------------
(* run_if_leader calls try_acquire: the statement is sent. *)
try_acquire(w) ==
    /\ mode[Owner[w]] \in {"up", "closing"} /\ w \notin stopped
    /\ body[w] = "none" /\ req[w] = "none"
    /\ req' = [req EXCEPT ![w] = "sent"]
    /\ UNCHANGED <<db, shared, process, work, heartbeat, rem, ghost, errors>>

(* The database executes the acquire or the renewal and keeps the row      *)
(* locked until the transaction ends.                                      *)
Execute(w) ==
    /\ req[w] = "sent" /\ tx = None
    /\ LET r == Owner[w]
           ok == IF Renewing(w) THEN renew_matches(r) ELSE acquire_matches(r)
       IN  /\ rem' = [rem EXCEPT ![w] = IF ok THEN TTL ELSE None]
           /\ IF ok
              THEN /\ tx' = [by |-> w, old |-> row]
                   /\ row' = [leader |-> r, left |-> TTL]
              ELSE UNCHANGED db
    /\ req' = [req EXCEPT ![w] = "executed"]
    /\ UNCHANGED <<shared, process, work, heartbeat, ghost, errors>>

(* The result is read and its instant noted.  No row is the authoritative  *)
(* answer of a non-owner: it demotes before the commit.                    *)
ReadResult(w) ==
    /\ req[w] = "executed"
    /\ \/ /\ rem[w] # None
          /\ req' = [req EXCEPT ![w] = "anchored"]
          /\ UNCHANGED <<shared, work, heartbeat>>
       \/ /\ rem[w] = None
          /\ req' = [req EXCEPT ![w] = "none"]
          /\ Demote(Owner[w])
          /\ IF Renewing(w) THEN LeaseLost(w) ELSE UNCHANGED <<work, heartbeat>>
    /\ UNCHANGED <<db, process, rem, ghost, errors>>

Commit(w) ==
    /\ req[w] = "anchored"
    /\ tx' = None
    /\ req' = [req EXCEPT ![w] = "none"]
    /\ lease_deadline' = [lease_deadline EXCEPT ![Owner[w]] = anchored_deadline(w)]
    /\ \/ /\ Acquiring(w)
          /\ is_leader' = [is_leader EXCEPT ![Owner[w]] = TRUE]
          /\ StartBody(w, anchored_deadline(w))
       \/ /\ Renewing(w)
          /\ hb' = [hb EXCEPT ![w] = "check"]
          /\ hb_deadline' = [hb_deadline EXCEPT ![w] = anchored_deadline(w)]
          /\ consecutive_errors' = [consecutive_errors EXCEPT ![w] = 0]
          /\ UNCHANGED <<is_leader, timer, work>>
    /\ rem' = [rem EXCEPT ![w] = None]
    /\ UNCHANGED <<row, process, ghost, errors>>

(* A renewal errored or ran out of its time-box. *)
RenewFailed(w) ==
    LET r == Owner[w]
        count == consecutive_errors[w] + 1
        retry == may_retry(count, hb_deadline[w])
        adopt == /\ is_leader[r] /\ lease_deadline[r] # None
                 /\ lease_deadline[r] > hb_deadline[w]
    IN  \/ /\ retry
           /\ hb' = [hb EXCEPT ![w] = "check"]
           /\ consecutive_errors' = [consecutive_errors EXCEPT ![w] = count]
           /\ UNCHANGED <<shared, work, hb_deadline, timer>>
        \/ /\ ~retry /\ adopt
           /\ hb' = [hb EXCEPT ![w] = "check"]
           /\ hb_deadline' = [hb_deadline EXCEPT ![w] = lease_deadline[r]]
           /\ consecutive_errors' = [consecutive_errors EXCEPT ![w] = 0]
           /\ UNCHANGED <<shared, work, timer>>
        \/ ~retry /\ ~adopt /\ Demote(r) /\ LeaseLost(w)

(* A statement or its commit fails.  Whether a failed commit took effect   *)
(* is unknown.                                                             *)
DatabaseError(w) ==
    /\ errors < MaxErrors /\ errors' = errors + 1
    /\ req[w] # "none"
    /\ req' = [req EXCEPT ![w] = "none"]
    /\ EndTx(w)
    /\ \/ Renewing(w) /\ RenewFailed(w)
       \/ /\ Acquiring(w) /\ may_preserve(Owner[w])
          /\ StartBody(w, lease_deadline[Owner[w]])
          /\ UNCHANGED shared
       \/ /\ Acquiring(w) /\ ~may_preserve(Owner[w])
          /\ Demote(Owner[w])
          /\ UNCHANGED <<work, heartbeat>>
    /\ rem' = [rem EXCEPT ![w] = None]
    /\ UNCHANGED <<process, ghost>>

(* Cancelling a statement in flight leaves it open whether it executes. *)
Abandon(w) ==
    /\ req' = [req EXCEPT ![w] = "none"]
    /\ EndTx(w)
    /\ ghost' = IF req[w] # "sent" THEN ghost
                ELSE [ghost EXCEPT ![w] = IF Renewing(w) THEN "renew" ELSE "acquire"]
    /\ rem' = [rem EXCEPT ![w] = None]
    /\ UNCHANGED errors

GhostExecutes(w) ==
    /\ ghost[w] # "none"
    /\ ghost' = [ghost EXCEPT ![w] = "none"]
    /\ \/ UNCHANGED row
       \/ /\ tx = None
          /\ IF ghost[w] = "renew" THEN renew_matches(Owner[w]) ELSE acquire_matches(Owner[w])
          /\ row' = [leader |-> Owner[w], left |-> TTL]
    /\ UNCHANGED <<tx, shared, process, work, heartbeat, req, rem, errors>>

-----------------------------------------------------------------------------
(* The heartbeat loop. *)
HeartbeatCheck(w) ==
    /\ hb[w] = "check"
    /\ LET r == Owner[w]
           left == IF lease_deadline[r] # None THEN Max2(hb_deadline[w], lease_deadline[r])
                   ELSE hb_deadline[w]
       IN  \/ /\ left <= 0
              /\ Demote(r) /\ LeaseLost(w)
           \/ /\ left > 0
              /\ hb' = [hb EXCEPT ![w] = "sleep"]
              /\ hb_deadline' = [hb_deadline EXCEPT ![w] = left]
              /\ timer' = [timer EXCEPT ![w] = sleep_budget(left)]
              /\ UNCHANGED <<shared, work, consecutive_errors>>
    /\ UNCHANGED <<db, process, io>>

HeartbeatRenew(w) ==
    /\ hb[w] = "sleep" /\ timer[w] = 0
    /\ \/ /\ is_leader[Owner[w]]
          /\ hb' = [hb EXCEPT ![w] = "renew"]
          /\ timer' = [timer EXCEPT ![w] = renew_wait(hb_deadline[w])]
          /\ req' = [req EXCEPT ![w] = "sent"]
          /\ UNCHANGED <<work, hb_deadline, consecutive_errors>>
       \/ /\ ~is_leader[Owner[w]]
          /\ LeaseLost(w)
          /\ UNCHANGED req
    /\ UNCHANGED <<db, shared, process, rem, ghost, errors>>

HeartbeatTimeout(w) ==
    /\ Renewing(w) /\ timer[w] = 0
    /\ Abandon(w) /\ RenewFailed(w)
    /\ UNCHANGED process

(* run_if_leader returns: the body finished, or drained after being        *)
(* cancelled; its heartbeat is cancelled with what it has in flight.       *)
EndRun(w) ==
    /\ body' = [body EXCEPT ![w] = "none"]
    /\ grace' = [grace EXCEPT ![w] = 0]
    /\ graceful' = [graceful EXCEPT ![w] = FALSE]
    /\ hb' = [hb EXCEPT ![w] = "off"]
    /\ ForgetHeartbeat(w)
    /\ Abandon(w)
    /\ UNCHANGED <<shared, process>>

BodyExits(w) == body[w] # "none" /\ EndRun(w) /\ UNCHANGED detached

(* _cancel_within_grace gives up waiting and leaves the body behind. *)
Detach(w) ==
    /\ body[w] = "cancelling" /\ grace[w] = 0
    /\ EndRun(w)
    /\ detached' = [detached EXCEPT ![w] =
                       IF graceful[w] \/ @ = "graceful" THEN "graceful" ELSE "lost"]

DetachedExits(w) ==
    /\ detached[w] # "no"
    /\ detached' = [detached EXCEPT ![w] = "no"]
    /\ UNCHANGED <<db, shared, process, body, grace, graceful, heartbeat, io>>

-----------------------------------------------------------------------------
(* Graceful shutdown: the keeper renews across the schedulers' stops, then *)
(* release drains the detached bodies and deletes the row.                 *)
WorkersOf(r) == {w \in Workers : Owner[w] = r}

MutantKeeperNotStarted(r) == None
keeper_start(r) == 0

start_release_keeper(r) ==
    /\ r \in Mortal /\ mode[r] = "up"
    /\ mode' = [mode EXCEPT ![r] = "closing"]
    /\ keeper' = [keeper EXCEPT ![r] = keeper_start(r)]
    /\ UNCHANGED <<db, shared, stopped, work, heartbeat, io>>

(* A scheduler's stop cancels its run_if_leader; the heartbeat goes on     *)
(* while the body drains.                                                  *)
StopScheduler(w) ==
    /\ mode[Owner[w]] = "closing" /\ w \notin stopped
    /\ stopped' = stopped \cup {w}
    /\ \/ /\ body[w] = "running"
          /\ body' = [body EXCEPT ![w] = "cancelling"]
          /\ grace' = [grace EXCEPT ![w] = CancelGrace]
          /\ graceful' = [graceful EXCEPT ![w] = HoldsLease(Owner[w])]
          /\ UNCHANGED <<db, io>>
       \/ /\ Acquiring(w)
          /\ Abandon(w)
          /\ UNCHANGED <<body, grace, graceful>>
       \/ /\ body[w] # "running" /\ ~Acquiring(w)
          /\ UNCHANGED <<db, io, body, grace, graceful>>
    /\ UNCHANGED <<shared, mode, keeper, detached, heartbeat>>

(* _renew_lease_row: no local state, and errors are swallowed.  The        *)
(* release drain renews only while detached bodies remain.                 *)
renew_lease_row(r) ==
    /\ keeper[r] = 0 /\ tx = None
    /\ mode[r] = "releasing" => \E w \in WorkersOf(r) : detached[w] # "no"
    /\ \/ /\ row' = IF renew_matches(r) THEN [row EXCEPT !.left = TTL] ELSE row
          /\ UNCHANGED errors
       \/ /\ errors < MaxErrors /\ errors' = errors + 1
          /\ UNCHANGED row
    /\ keeper' = [keeper EXCEPT ![r] = renew_interval]
    /\ UNCHANGED <<tx, shared, mode, stopped, work, heartbeat, req, rem, ghost>>

release(r) ==
    /\ mode[r] = "closing"
    /\ \A w \in WorkersOf(r) : w \in stopped /\ body[w] = "none"
    /\ mode' = [mode EXCEPT ![r] = "releasing"]
    /\ keeper' = [keeper EXCEPT ![r] = 0]
    /\ Demote(r)
    /\ UNCHANGED <<db, stopped, work, heartbeat, io>>

(* The row is deleted once no detached body is left; otherwise, or when    *)
(* the delete fails, it is left to expire.                                 *)
release_row(r) ==
    /\ mode[r] = "releasing" /\ tx = None
    /\ \/ /\ \A w \in WorkersOf(r) : detached[w] = "no"
          /\ row' = IF row # None /\ row.leader = r THEN None ELSE row
          /\ UNCHANGED errors
       \/ /\ \A w \in WorkersOf(r) : detached[w] = "no"
          /\ errors < MaxErrors /\ errors' = errors + 1
          /\ UNCHANGED row
       \/ /\ \E w \in WorkersOf(r) : detached[w] # "no"
          /\ UNCHANGED <<row, errors>>
    /\ mode' = [mode EXCEPT ![r] = "down"]
    /\ keeper' = [keeper EXCEPT ![r] = None]
    /\ UNCHANGED <<tx, shared, stopped, work, heartbeat, req, rem, ghost>>

Cleared(f, r, value) == [w \in Workers |-> IF Owner[w] = r THEN value ELSE f[w]]

(* The process is killed.  Statements it had in flight may or may not take *)
(* effect; everything local is gone.                                       *)
Crash(r) ==
    /\ r \in Mortal /\ mode[r] # "down"
    /\ mode' = [mode EXCEPT ![r] = "down"]
    /\ keeper' = [keeper EXCEPT ![r] = None]
    /\ Demote(r)
    /\ body' = Cleared(body, r, "none") /\ detached' = Cleared(detached, r, "no")
    /\ grace' = Cleared(grace, r, 0) /\ graceful' = Cleared(graceful, r, FALSE)
    /\ hb' = Cleared(hb, r, "off") /\ hb_deadline' = Cleared(hb_deadline, r, 0)
    /\ timer' = Cleared(timer, r, 0) /\ consecutive_errors' = Cleared(consecutive_errors, r, 0)
    /\ req' = Cleared(req, r, "none") /\ rem' = Cleared(rem, r, None)
    /\ ghost' = Cleared(ghost, r, "none")
    /\ IF tx # None /\ Owner[tx.by] = r
       THEN tx' = None /\ row' \in {row, tx.old}
       ELSE UNCHANGED db
    /\ UNCHANGED <<stopped, errors>>

-----------------------------------------------------------------------------
Past(t) == IF t = None \/ t = -1 THEN t ELSE t - 1
PastRow(x) == IF x = None THEN None ELSE [x EXCEPT !.left = Past(@)]
Down(t) == IF t = None \/ t = 0 THEN t ELSE t - 1

TimerDue(w) ==
    \/ hb[w] = "check"
    \/ hb[w] \in {"sleep", "renew"} /\ timer[w] = 0
    \/ body[w] = "cancelling" /\ grace[w] = 0
    \/ PromptResponses /\ req[w] = "executed"
    \/ PromptCommits /\ req[w] = "anchored"

KeeperDue(r) ==
    /\ keeper[r] = 0 /\ tx = None
    /\ mode[r] = "releasing" => \E w \in WorkersOf(r) : detached[w] # "no"

Tick ==
    /\ \A w \in Workers : ~TimerDue(w)
    /\ \A r \in Replicas : ~KeeperDue(r)
    /\ row' = PastRow(row)
    /\ tx' = IF tx = None THEN None ELSE [tx EXCEPT !.old = PastRow(@)]
    /\ lease_deadline' = [r \in Replicas |-> Past(lease_deadline[r])]
    /\ keeper' = [r \in Replicas |-> Down(keeper[r])]
    /\ hb_deadline' = [w \in Workers |-> IF hb[w] = "off" THEN 0 ELSE Past(hb_deadline[w])]
    /\ timer' = [w \in Workers |-> Down(timer[w])]
    /\ grace' = [w \in Workers |-> Down(grace[w])]
    /\ rem' = [w \in Workers |-> IF req[w] = "anchored" THEN Past(rem[w]) ELSE rem[w]]
    /\ UNCHANGED <<is_leader, mode, stopped, body, graceful, detached, hb, consecutive_errors, req, ghost, errors>>

WorkerStep(w) ==
    \/ try_acquire(w) \/ Execute(w) \/ ReadResult(w) \/ Commit(w) \/ DatabaseError(w)
    \/ HeartbeatCheck(w) \/ HeartbeatRenew(w) \/ HeartbeatTimeout(w)
    \/ BodyExits(w) \/ Detach(w) \/ DetachedExits(w) \/ GhostExecutes(w)
    \/ StopScheduler(w)

ReplicaStep(r) ==
    start_release_keeper(r) \/ renew_lease_row(r) \/ release(r) \/ release_row(r) \/ Crash(r)

Next ==
    \/ \E w \in Workers : WorkerStep(w)
    \/ \E r \in Replicas : ReplicaStep(r)
    \/ Tick

Spec == Init /\ [][Next]_vars

(* What a run of run_if_leader does next by itself, an answer aside. *)
RunProceeds(w) ==
    \/ try_acquire(w) \/ ReadResult(w) \/ Commit(w)
    \/ HeartbeatCheck(w) \/ HeartbeatRenew(w) \/ HeartbeatTimeout(w) \/ Detach(w)

(* Schedulers keep ticking, runs proceed, the database serves statements   *)
(* and no finite time holds infinitely many steps (SF of Tick).  Nothing   *)
(* obliges a body to finish, a process to stop or an error to happen.      *)
FairSpec ==
    /\ Spec
    /\ \A w \in Workers : WF_vars(RunProceeds(w)) /\ SF_vars(Execute(w))
    /\ \A r \in Replicas : SF_vars(renew_lease_row(r))
    /\ SF_vars(Tick)

-----------------------------------------------------------------------------
(* The shape of the state; no timer or lease is set beyond its interval,   *)
(* and a heartbeat never counts MAX_CONSECUTIVE_RENEW_ERRORS errors and    *)
(* still goes on.                                                          *)
TypeOK ==
    /\ row \in Row \cup {None}
    /\ tx \in [by : Workers, old : Row \cup {None}] \cup {None}
    /\ is_leader \in [Replicas -> BOOLEAN]
    /\ lease_deadline \in [Replicas -> Time \cup {None}]
    /\ mode \in [Replicas -> {"up", "closing", "releasing", "down"}]
    /\ stopped \in SUBSET Workers
    /\ keeper \in [Replicas -> 0..renew_interval \cup {None}]
    /\ body \in [Workers -> {"none", "running", "cancelling"}]
    /\ grace \in [Workers -> 0..CancelGrace] /\ graceful \in [Workers -> BOOLEAN]
    /\ detached \in [Workers -> {"no", "lost", "graceful"}]
    /\ hb \in [Workers -> {"off", "check", "sleep", "renew"}]
    /\ hb_deadline \in [Workers -> Time]
    /\ timer \in [Workers -> 0..Max2(renew_interval, renew_timeout + 1)]
    /\ consecutive_errors \in [Workers -> 0..MAX_CONSECUTIVE_RENEW_ERRORS - 1]
    /\ req \in [Workers -> {"none", "sent", "executed", "anchored"}]
    /\ rem \in [Workers -> Time \cup {None}]
    /\ ghost \in [Workers -> {"none", "acquire", "renew"}]
    /\ errors \in 0..MaxErrors

(* A gated body runs uncancelled only while the row names its replica and  *)
(* has not expired, so never on two replicas at once.  The exception is    *)
(* the instant before its heartbeat first looks at the lease: a commit     *)
(* that outlasts the lease lets the body's first segment run.              *)
RunningOwnsLease ==
    \A w \in Workers : body[w] = "running" /\ hb[w] # "check" => HoldsLease(Owner[w])

(* "The database clock may grant slightly more, never less": the locally   *)
(* tracked deadline of a leader never outruns its row.                     *)
DeadlineWithinLease ==
    \A r \in Replicas :
        is_leader[r] /\ lease_deadline[r] # None /\ lease_deadline[r] > 0 =>
            row # None /\ row.leader = r /\ lease_deadline[r] <= row.left

(* With answers that arrive in time the two hold together: no replica      *)
(* believes itself the leader past its row, and no body runs past it.      *)
LeaderStaysWithinLease == RunningOwnsLease /\ DeadlineWithinLease

(* Through the whole stop sequence and the release drain, a body that was  *)
(* stopped while its lease was held keeps that lease until it is done, as  *)
(* long as the database does not fail.                                     *)
DrainingBodyKeepsLease ==
    \A w \in Workers :
        /\ errors = 0
        /\ graceful[w] \/ detached[w] = "graceful"
        /\ mode[Owner[w]] \in {"closing", "releasing"}
        => HoldsLease(Owner[w])

(* A row left behind by a dead process does not keep the others out for    *)
(* ever.                                                                   *)
DeadLeaderReplaced ==
    (row # None /\ mode[row.leader] = "down") ~> (row = None \/ mode[row.leader] # "down")
=============================================================================
