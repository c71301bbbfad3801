----------------------------- MODULE DrainState -----------------------------
(***************************************************************************)
(* The process-wide drain state of app/core/shutdown.py, and its callers:  *)
(* the server (app/core/server.py), the drain endpoints                    *)
(* (app/modules/health/api.py), the lifespan (app/main.py) and the         *)
(* admission middleware (app/core/middleware/inflight.py).                 *)
(*                                                                         *)
(* All of it runs on one thread, but a signal handler may run between any  *)
(* two bytecodes of it, and a second signal may interrupt the handler.     *)
(* The thread is therefore a stack of frames, frame 1 at the bottom; only  *)
(* the frame at "depth" moves, one read or write of global state at a      *)
(* time, and a signal pushes a commit_shutdown frame above it.  A frame at *)
(* the bottom is one synchronous call made by the event loop.              *)
(***************************************************************************)
EXTENDS Integers, FiniteSets

CONSTANTS
    None,           \* Python's None
    Requests,       \* HTTP requests and WebSockets that arrive
    Timeout,        \* settings.shutdown_drain_timeout_seconds
    HeaderDeadlines,\* absolute deadlines a preStop hook may send
    MaxDepth,       \* bound: nesting of the event-loop call and signals
    MaxSignals,     \* bound: signals delivered
    MaxLifecycles,  \* bound: lifespans started in this process
    MaxNow          \* bound: time.monotonic()

ASSUME ConstantsAssumption ==
    /\ Timeout \in Nat /\ HeaderDeadlines \subseteq Nat /\ None \notin Nat
    /\ MaxDepth \in Nat \ {0} /\ MaxSignals \in Nat /\ MaxNow \in Nat
    /\ MaxLifecycles \in Nat

VARIABLES
    now,                            \* time.monotonic()
    draining, drain_deadline, drain_started, bridge_drain_active,
    shutdown_committed,
    shutdown_deadline_candidates,   \* the append-only list; only its minimum is read
    server_start_pending, lifespan_completed,
    in_flight,
    rstate,                         \* where each request is in the middleware
    phase,                          \* lifecycle of the server and its lifespan
    signals,                        \* signal handlers are installed / signals so far
    depth, pc, arg, loc,            \* frames: their program counter, argument, local
    waiter, wait_deadline,          \* wait_for_in_flight_drain
    promised                        \* history: deadlines returned under a committed shutdown

flags == <<draining, drain_deadline, drain_started, bridge_drain_active,
           shutdown_committed, shutdown_deadline_candidates>>
startup == <<server_start_pending, lifespan_completed, phase, signals>>
work == <<in_flight, rstate>>
frames == <<depth, pc, arg, loc>>
waiting == <<waiter, wait_deadline>>
vars == <<now, flags, startup, work, frames, waiting, promised>>

Deadline == Nat \cup {None}

CommitPC == {"c_test", "c_compute", "c_append", "c_promote", "c_committed",
             "c_draining", "c_bridge", "c_started", "c_return"}
BeginPC == {"b_test", "b_fast_draining", "b_fast_bridge", "b_fast_return",
            "b_compute", "b_publish", "b_draining", "b_bridge", "b_started",
            "b_effective", "b_promote"}
StopPC == {"t_test", "t_started", "t_draining", "t_deadline", "t_bridge",
           "t_recheck", "t_restore", "t_return"}
AdmitPC == {"a_register", "a_check"}
PC == CommitPC \cup BeginPC \cup StopPC \cup AdmitPC \cup {"none", "assertion_failed"}

Top == pc[depth]

-----------------------------------------------------------------------------
(* The minimum the code takes over the reversible deadline and the         *)
(* committed candidates.                                                   *)
Published == shutdown_deadline_candidates \cup
                (IF drain_deadline = None THEN {} ELSE {drain_deadline})

Least(S) == CHOOSE d \in S : \A e \in S : d <= e

effective_drain_deadline == IF Published = {} THEN None ELSE Least(Published)

MutantOwnTimeoutForgotten(requested) == requested

new_drain_deadline_candidate(requested) ==
    LET own == now + Timeout
    IN  IF requested # None /\ requested < own THEN requested ELSE own

MutantCommitNotConsulted == draining

is_draining == draining \/ shutdown_committed

(* What commit_shutdown publishes: its own candidate, then every           *)
(* reversible deadline already published.                                  *)
appended_candidates == shutdown_deadline_candidates \cup {loc[depth]}

MutantReversibleNotPromoted == shutdown_deadline_candidates

promoted_candidates == Published

(* The order in which stop_drain clears the reversible state. *)
stop_order ==
    [t_test |-> "t_started", t_started |-> "t_draining", t_draining |-> "t_deadline",
     t_deadline |-> "t_bridge", t_bridge |-> "t_recheck"]

(* Its second look at the barrier, which a signal may have closed since. *)
MutantTokenNotRestored == "t_return"

stop_recheck ==
    CASE ~shutdown_committed -> "t_return"
      [] shutdown_committed /\ shutdown_deadline_candidates # {} -> "t_restore"
      [] OTHER -> "assertion_failed"

-----------------------------------------------------------------------------
Init ==
    /\ now = 0
    /\ draining = FALSE /\ drain_deadline = None /\ drain_started = FALSE
    /\ bridge_drain_active = FALSE /\ shutdown_committed = FALSE
    /\ shutdown_deadline_candidates = {}
    /\ server_start_pending = FALSE /\ lifespan_completed = FALSE
    /\ in_flight = 0 /\ rstate = [r \in Requests |-> [at |-> "new", kind |-> "http"]]
    /\ phase = "off" /\ signals = [on |-> FALSE, count |-> 0, lives |-> 0]
    /\ depth = 0
    /\ pc = [l \in 1..MaxDepth |-> "none"]
    /\ arg = [l \in 1..MaxDepth |-> None]
    /\ loc = [l \in 1..MaxDepth |-> None]
    /\ waiter = "none" /\ wait_deadline = None
    /\ promised = {}

(* Control moves inside the top frame. *)
Goto(label) == /\ pc' = [pc EXCEPT ![depth] = label]
               /\ UNCHANGED <<depth, arg>>
Step(label) == Goto(label) /\ UNCHANGED <<loc, promised>>

Push(label, deadline_monotonic) ==
    /\ depth < MaxDepth
    /\ depth' = depth + 1
    /\ pc' = [pc EXCEPT ![depth + 1] = label]
    /\ arg' = [arg EXCEPT ![depth + 1] = deadline_monotonic]
    /\ loc' = [loc EXCEPT ![depth + 1] = None]

Pop == /\ depth' = depth - 1
       /\ pc' = [pc EXCEPT ![depth] = "none"]
       /\ UNCHANGED <<arg, loc>>

(* return deadline, after the assert that there is one *)
ReturnEffective ==
    IF effective_drain_deadline = None
    THEN Step("assertion_failed")
    ELSE /\ Pop
         /\ promised' = IF shutdown_committed
                        THEN promised \cup {effective_drain_deadline}
                        ELSE promised

Rest == UNCHANGED <<now, startup, work, waiting>>

-----------------------------------------------------------------------------
(* commit_shutdown: the signal handler, the server's shutdown, the         *)
(* lifespan's exit, and a drain request that carries a deadline.           *)
CommitStep ==
    /\ depth > 0
    /\ \/ /\ Top = "c_test"
          /\ Step(IF shutdown_committed /\ arg[depth] = None THEN "c_return" ELSE "c_compute")
          /\ UNCHANGED flags
       \/ /\ Top = "c_compute"
          /\ loc' = [loc EXCEPT ![depth] = new_drain_deadline_candidate(arg[depth])]
          /\ Goto("c_append")
          /\ UNCHANGED <<flags, promised>>
       \/ /\ Top = "c_append"
          /\ shutdown_deadline_candidates' = appended_candidates
          /\ Step("c_promote")
          /\ UNCHANGED <<draining, drain_deadline, drain_started, bridge_drain_active,
                         shutdown_committed>>
       \/ /\ Top = "c_promote"
          /\ shutdown_deadline_candidates' = promoted_candidates
          /\ Step("c_committed")
          /\ UNCHANGED <<draining, drain_deadline, drain_started, bridge_drain_active,
                         shutdown_committed>>
       \/ /\ Top = "c_committed"
          /\ shutdown_committed' = TRUE
          /\ Step("c_draining")
          /\ UNCHANGED <<draining, drain_deadline, drain_started, bridge_drain_active,
                         shutdown_deadline_candidates>>
       \/ /\ Top = "c_draining"
          /\ draining' = TRUE
          /\ Step("c_bridge")
          /\ UNCHANGED <<drain_deadline, drain_started, bridge_drain_active,
                         shutdown_committed, shutdown_deadline_candidates>>
       \/ /\ Top = "c_bridge"
          /\ bridge_drain_active' = TRUE
          /\ Step("c_started")
          /\ UNCHANGED <<draining, drain_deadline, drain_started, shutdown_committed,
                         shutdown_deadline_candidates>>
       \/ /\ Top = "c_started"
          /\ drain_started' = TRUE
          /\ Step("c_return")
          /\ UNCHANGED <<draining, drain_deadline, bridge_drain_active, shutdown_committed,
                         shutdown_deadline_candidates>>
       \/ /\ Top = "c_return"
          /\ ReturnEffective
          /\ UNCHANGED flags
    /\ Rest

(* begin_drain, called headerless by the drain endpoint. *)
BeginStep ==
    /\ depth > 0
    /\ \/ /\ Top = "b_test"
          /\ Step(IF drain_started THEN "b_fast_draining" ELSE "b_compute")
          /\ UNCHANGED flags
       \/ /\ Top \in {"b_fast_draining", "b_draining"}
          /\ draining' = TRUE
          /\ Step(IF Top = "b_draining" THEN "b_bridge" ELSE "b_fast_bridge")
          /\ UNCHANGED <<drain_deadline, drain_started, bridge_drain_active,
                         shutdown_committed, shutdown_deadline_candidates>>
       \/ /\ Top \in {"b_fast_bridge", "b_bridge"}
          /\ bridge_drain_active' = TRUE
          /\ Step(IF Top = "b_bridge" THEN "b_started" ELSE "b_fast_return")
          /\ UNCHANGED <<draining, drain_deadline, drain_started, shutdown_committed,
                         shutdown_deadline_candidates>>
       \/ /\ Top = "b_fast_return"
          /\ ReturnEffective
          /\ UNCHANGED flags
       \/ /\ Top = "b_compute"
          /\ loc' = [loc EXCEPT ![depth] = new_drain_deadline_candidate(None)]
          /\ Goto("b_publish")
          /\ UNCHANGED <<flags, promised>>
       \/ /\ Top = "b_publish"
          /\ drain_deadline' = IF drain_deadline = None \/ loc[depth] < drain_deadline
                               THEN loc[depth] ELSE drain_deadline
          /\ Step("b_draining")
          /\ UNCHANGED <<draining, drain_started, bridge_drain_active, shutdown_committed,
                         shutdown_deadline_candidates>>
       \/ /\ Top = "b_started"
          /\ drain_started' = TRUE
          /\ Step("b_effective")
          /\ UNCHANGED <<draining, drain_deadline, bridge_drain_active, shutdown_committed,
                         shutdown_deadline_candidates>>
       \/ /\ Top = "b_effective"
          /\ IF effective_drain_deadline = None
             THEN Step("assertion_failed")
             ELSE /\ loc' = [loc EXCEPT ![depth] = effective_drain_deadline]
                  /\ Goto("b_promote")
                  /\ UNCHANGED promised
          /\ UNCHANGED flags
       \/ /\ Top = "b_promote"
          /\ Pop
          /\ IF shutdown_committed
             THEN /\ shutdown_deadline_candidates' =
                        shutdown_deadline_candidates \cup {loc[depth]}
                  /\ promised' = promised \cup {loc[depth]}
             ELSE UNCHANGED <<shutdown_deadline_candidates, promised>>
          /\ UNCHANGED <<draining, drain_deadline, drain_started, bridge_drain_active,
                         shutdown_committed>>
    /\ Rest

(* stop_drain: the operator takes a headerless drain back. *)
StopStep ==
    /\ depth > 0
    /\ \/ /\ Top = "t_test"
          /\ IF shutdown_committed THEN Pop /\ UNCHANGED promised ELSE Step(stop_order.t_test)
          /\ UNCHANGED flags
       \/ /\ Top = "t_started"
          /\ drain_started' = FALSE
          /\ Step(stop_order.t_started)
          /\ UNCHANGED <<draining, drain_deadline, bridge_drain_active, shutdown_committed,
                         shutdown_deadline_candidates>>
       \/ /\ Top = "t_draining"
          /\ draining' = FALSE
          /\ Step(stop_order.t_draining)
          /\ UNCHANGED <<drain_deadline, drain_started, bridge_drain_active,
                         shutdown_committed, shutdown_deadline_candidates>>
       \/ /\ Top = "t_deadline"
          /\ drain_deadline' = None
          /\ Step(stop_order.t_deadline)
          /\ UNCHANGED <<draining, drain_started, bridge_drain_active, shutdown_committed,
                         shutdown_deadline_candidates>>
       \/ /\ Top = "t_bridge"
          /\ bridge_drain_active' = FALSE
          /\ Step(stop_order.t_bridge)
          /\ UNCHANGED <<draining, drain_deadline, drain_started, shutdown_committed,
                         shutdown_deadline_candidates>>
       \/ /\ Top = "t_recheck"
          /\ Step(stop_recheck)
          /\ UNCHANGED flags
       \/ /\ Top = "t_restore"
          /\ drain_started' = TRUE
          /\ Step("t_return")
          /\ UNCHANGED <<draining, drain_deadline, bridge_drain_active, shutdown_committed,
                         shutdown_deadline_candidates>>
       \/ /\ Top = "t_return"
          /\ Pop /\ UNCHANGED <<flags, promised>>
    /\ Rest

-----------------------------------------------------------------------------
(* InFlightMiddleware: "http" is a tracked HTTP path, "bridge" the tracked *)
(* owner-forward path that drain still admits, "socket" a Responses        *)
(* WebSocket and "other" any other WebSocket.                              *)
Kinds == {"http", "bridge", "socket", "other"}
Counted == {"registered", "admitted", "rejecting"}

Arrive(r, kind) ==
    /\ depth = 0 /\ phase \in {"running", "closing"} /\ waiter # "starting"
    /\ rstate[r].at = "new"
    /\ Push("a_register", None)
    /\ rstate' = [rstate EXCEPT ![r] = [at |-> "arriving", kind |-> kind]]
    /\ UNCHANGED <<now, flags, startup, in_flight, waiting, promised>>

decrement_in_flight == in_flight' = IF in_flight > 0 THEN in_flight - 1 ELSE 0

(* A scope that leaves the middleware's count at the drain check: a        *)
(* rejected WebSocket, and one that is not a Responses socket.             *)
uncounted_at_check(kind, rejected) ==
    kind = "other" \/ (rejected /\ kind = "socket")

AdmitStep(r) ==
    /\ depth > 0
    /\ \/ /\ Top = "a_register" /\ rstate[r].at = "arriving"
          /\ in_flight' = in_flight + 1
          /\ rstate' = [rstate EXCEPT ![r].at = "registered"]
          /\ Step("a_check")
       \/ /\ Top = "a_check" /\ rstate[r].at = "registered"
          /\ LET rejected == is_draining /\ rstate[r].kind # "bridge"
                 socket == rstate[r].kind \in {"socket", "other"}
             IN  /\ rstate' = [rstate EXCEPT ![r].at =
                        CASE rejected /\ socket -> "rejected"
                          [] rejected /\ ~socket -> "rejecting"
                          [] ~rejected /\ rstate[r].kind = "other" -> "untracked"
                          [] OTHER -> "admitted"]
                 /\ IF uncounted_at_check(rstate[r].kind, rejected)
                    THEN decrement_in_flight ELSE UNCHANGED in_flight
          /\ Pop /\ UNCHANGED promised
    /\ UNCHANGED <<now, flags, startup, waiting>>

(* The wrapped application, or the 503 response, returns. *)
Finish(r) ==
    /\ depth = 0 /\ waiter # "starting"
    /\ rstate[r].at \in {"admitted", "rejecting", "untracked"}
    /\ IF rstate[r].at \in Counted THEN decrement_in_flight ELSE UNCHANGED in_flight
    /\ rstate' = [rstate EXCEPT ![r].at = "done"]
    /\ UNCHANGED <<now, flags, startup, frames, waiting, promised>>

-----------------------------------------------------------------------------
(* Calls of the event loop and of the signal machinery. *)
CallWindow == now + Timeout <= MaxNow

MainCall(label, deadline_monotonic) ==
    /\ depth = 0 /\ CallWindow /\ waiter # "starting"
    /\ Push(label, deadline_monotonic)

begin_drain ==
    /\ phase \in {"running", "closing"} /\ MainCall("b_test", None)
    /\ UNCHANGED <<now, flags, startup, work, waiting, promised>>

stop_drain ==
    /\ phase \in {"running", "closing"} /\ MainCall("t_test", None)
    /\ UNCHANGED <<now, flags, startup, work, waiting, promised>>

start_internal_drain(deadline_monotonic) ==
    /\ phase \in {"running", "closing"} /\ MainCall("c_test", deadline_monotonic)
    /\ UNCHANGED <<now, flags, startup, work, waiting, promised>>

handle_exit ==
    /\ signals.on /\ signals.count < MaxSignals /\ CallWindow
    /\ Push("c_test", None)
    /\ signals' = [signals EXCEPT !.count = @ + 1]
    /\ UNCHANGED <<now, flags, server_start_pending, lifespan_completed, phase,
                   work, waiting, promised>>

(* The server's shutdown, or the exit of an embedded lifespan. *)
shutdown ==
    /\ phase = "running" /\ MainCall("c_test", None)
    /\ phase' = "closing" /\ waiter' = "starting"
    /\ UNCHANGED <<now, flags, server_start_pending, lifespan_completed, signals,
                   work, wait_deadline, promised>>

reset ==
    /\ draining' = FALSE /\ drain_deadline' = None /\ drain_started' = FALSE
    /\ bridge_drain_active' = FALSE /\ shutdown_committed' = FALSE
    /\ shutdown_deadline_candidates' = {}
    /\ lifespan_completed' = FALSE /\ in_flight' = 0
    /\ promised' = {}

prepare_server_start ==
    /\ phase = "off" /\ depth = 0 /\ signals.lives < MaxLifecycles
    /\ reset /\ server_start_pending' = TRUE
    /\ phase' = "prepared"
    /\ signals' = [signals EXCEPT !.on = TRUE, !.lives = @ + 1]
    /\ UNCHANGED <<now, rstate, frames, waiting>>

lifespan_resets == lifespan_completed /\ ~server_start_pending

prepare_lifespan_start ==
    /\ depth = 0
    /\ \/ phase = "prepared" /\ UNCHANGED signals
       \/ /\ phase = "off" /\ signals.lives < MaxLifecycles
          /\ signals' = [signals EXCEPT !.lives = @ + 1]
    /\ phase' = "running"
    /\ IF lifespan_resets
       THEN reset
       ELSE UNCHANGED <<flags, lifespan_completed, in_flight, promised>>
    /\ server_start_pending' = FALSE
    /\ UNCHANGED <<now, rstate, frames, waiting>>

mark_lifespan_completed ==
    /\ phase = "closing" /\ depth = 0 /\ waiter \in {"drained", "timeout", "aborted"}
    /\ server_start_pending' = FALSE /\ lifespan_completed' = TRUE
    /\ phase' = "off" /\ signals' = [signals EXCEPT !.on = FALSE]
    /\ waiter' = "none" /\ wait_deadline' = None
    /\ rstate' = [r \in Requests |-> [rstate[r] EXCEPT !.at =
                    IF @ = "new" THEN "new" ELSE "done"]]
    /\ UNCHANGED <<now, flags, in_flight, frames, promised>>

-----------------------------------------------------------------------------
(* wait_for_in_flight_drain: what runs up to the first sleep, then one     *)
(* round of the polling loop per wake-up.                                  *)
MutantDeadlineOnlyWhenIdle(deadline) == in_flight = 0 /\ deadline <= now

deadline_reached(deadline) == deadline <= now

WaitRound(deadline) ==
    LET shared == effective_drain_deadline
        tightened == IF shared # None /\ shared < deadline THEN shared ELSE deadline
    IN  \/ /\ in_flight = 0
           /\ waiter' = "drained" /\ UNCHANGED wait_deadline
        \/ /\ in_flight > 0 /\ signals.count > 1      \* uvicorn's force_exit
           /\ waiter' = "aborted" /\ UNCHANGED wait_deadline
        \/ /\ in_flight > 0
           /\ wait_deadline' = tightened
           /\ waiter' = IF deadline_reached(tightened) THEN "timeout" ELSE "waiting"

WaitStart ==
    /\ waiter = "starting" /\ depth = 0
    /\ LET shared == effective_drain_deadline
       IN  WaitRound(IF shared # None /\ shared > now THEN shared ELSE now)
    /\ UNCHANGED <<now, flags, startup, work, frames, promised>>

WaitPoll ==
    /\ waiter = "waiting" /\ depth = 0
    /\ WaitRound(wait_deadline)
    /\ UNCHANGED <<now, flags, startup, work, frames, promised>>

Tick ==
    /\ now < MaxNow
    /\ depth = 0 \/ now + Timeout < MaxNow
    /\ now' = now + 1
    /\ UNCHANGED <<flags, startup, work, frames, waiting, promised>>

FrameStep == CommitStep \/ BeginStep \/ StopStep \/ \E r \in Requests : AdmitStep(r)

Next ==
    \/ FrameStep
    \/ begin_drain \/ stop_drain \/ handle_exit \/ shutdown
    \/ \E d \in HeaderDeadlines : start_internal_drain(d)
    \/ prepare_server_start \/ prepare_lifespan_start \/ mark_lifespan_completed
    \/ \E r \in Requests, kind \in Kinds : Arrive(r, kind)
    \/ \E r \in Requests : Finish(r)
    \/ WaitStart \/ WaitPoll
    \/ Tick

Spec == Init /\ [][Next]_vars

(* A frame always runs on, time passes, and the event loop's FIFO ready    *)
(* queue gets back to the coroutine of the shutdown sequence.              *)
FairSpec ==
    /\ Spec
    /\ WF_vars(FrameStep) /\ SF_vars(Tick)
    /\ SF_vars(WaitStart) /\ SF_vars(WaitPoll) /\ SF_vars(mark_lifespan_completed)

-----------------------------------------------------------------------------
(* The shape of the state; the in-flight counter never goes below zero and *)
(* no frame is left outside the stack's bound.                             *)
TypeOK ==
    /\ now \in Nat
    /\ draining \in BOOLEAN /\ drain_started \in BOOLEAN
    /\ bridge_drain_active \in BOOLEAN /\ shutdown_committed \in BOOLEAN
    /\ drain_deadline \in Deadline
    /\ shutdown_deadline_candidates \in SUBSET Nat
    /\ server_start_pending \in BOOLEAN /\ lifespan_completed \in BOOLEAN
    /\ in_flight \in Nat
    /\ rstate \in [Requests -> [at : Counted \cup {"new", "arriving", "rejected",
                                                   "untracked", "done"},
                                kind : Kinds]]
    /\ phase \in {"off", "prepared", "running", "closing"}
    /\ signals \in [on : BOOLEAN, count : Nat, lives : Nat]
    /\ depth \in 0..MaxDepth
    /\ pc \in [1..MaxDepth -> PC]
    /\ arg \in [1..MaxDepth -> Deadline]
    /\ loc \in [1..MaxDepth -> Deadline]
    /\ waiter \in {"none", "starting", "waiting", "drained", "timeout", "aborted"}
    /\ wait_deadline \in Deadline
    /\ promised \in SUBSET Nat

(* No assert of begin_drain, commit_shutdown or stop_drain fails, whatever *)
(* bytecode a signal lands on.                                             *)
NoAssertionFailure == \A l \in 1..depth : pc[l] # "assertion_failed"

(* "a synchronous signal never observes 'started' with the deadline        *)
(* already erased": between any two bytecodes, the token that lets a later *)
(* begin_drain skip its own candidate implies that a deadline exists.      *)
StartedHasDeadline == drain_started => Published # {}

(* A deadline handed back by commit_shutdown, or by a begin_drain that ran *)
(* into it, is kept: a deadline at least as early stays in force, however  *)
(* stop_drain and later calls interleave.                                  *)
PromisedDeadlineKept ==
    \A p \in promised : \E d \in Published : d <= p

(* stop_drain answers TRUE only when nothing of the drain is left, and     *)
(* answers FALSE only with the admission token back in place.              *)
StopVerdictTruthful ==
    depth > 0 /\ Top = "t_return" =>
        IF shutdown_committed
        THEN drain_started /\ shutdown_deadline_candidates # {}
        ELSE ~drain_started /\ ~draining /\ ~bridge_drain_active /\ Published = {}

(* A shutdown that reports the work drained has none of it running, and    *)
(* admits none later except what owner-forwarding is allowed to.           *)
DrainedIsQuiet ==
    waiter = "drained" =>
        \A r \in Requests : rstate[r].at = "admitted" => rstate[r].kind = "bridge"

(* Committed shutdown is one-way until a new lifecycle starts, also when   *)
(* the signal lands between server start and lifespan start; and no        *)
(* deadline that was in force then is ever replaced by a later one.        *)
CommittedNeverExtends ==
    [][shutdown_committed =>
          \/ /\ shutdown_committed'
             /\ \A d \in Published : \E e \in Published' : e <= d
          \/ phase = "off"]_vars

(* Every shutdown comes to an end although requests may never finish.      *)
ShutdownCompletes == phase = "closing" ~> phase = "off"
=============================================================================
