--------------------------- MODULE CircuitBreaker ---------------------------
(***************************************************************************)
(* The per-account circuit breaker: app/core/resilience/circuit_breaker.py *)
(* and its use around upstream calls in app/core/clients/proxy.py.         *)
(*                                                                         *)
(* No critical section of the breaker awaits, so its lock is never         *)
(* contended and every method is one step.  A call is checked, recorded    *)
(* (or not) and ended in separate steps, between which any other call may  *)
(* be admitted, recorded or ended: a websocket records at its terminal     *)
(* event and gives its probe back after it is closed; an HTTP call does    *)
(* both without an await in between.                                       *)
(***************************************************************************)
EXTENDS Integers, FiniteSets

CONSTANTS
    Calls,              \* the upstream calls that may be in flight at a time
    failure_threshold, success_threshold,
    MaxFailures         \* bound: failed calls of the outage

ASSUME ThresholdsAssumption ==
    /\ failure_threshold \in Nat \ {0} /\ success_threshold \in Nat \ {0}
    /\ MaxFailures \in Nat

VARIABLES
    _state,             \* the stored state
    failure_count, success_count,
    elapsed,            \* recovery_timeout_seconds have passed since the last failure
    probe_in_flight,    \* _half_open_probe_in_flight
    call,               \* every call: "none", "normal" or "probe"
    recorded,           \* the calls whose outcome is recorded
    failures            \* how many calls have failed

counters == <<failure_count, success_count>>
breaker_vars == <<_state, counters, elapsed, probe_in_flight, call, recorded, failures>>

(* The state property: an open breaker turns half open by time alone. *)
state == IF _state = "open" /\ elapsed THEN "half_open" ELSE _state

BreakerInit ==
    /\ _state = "closed" /\ failure_count = 0 /\ success_count = 0
    /\ elapsed = FALSE /\ probe_in_flight = FALSE
    /\ call = [c \in Calls |-> "none"] /\ recorded = {} /\ failures = 0

-----------------------------------------------------------------------------
(* Refused while open, and while half open with a probe in flight. *)
pre_call_check(c) ==
    /\ call[c] = "none"
    /\ state # "open" /\ ~(state = "half_open" /\ probe_in_flight)
    /\ probe_in_flight' = (probe_in_flight \/ state = "half_open")
    /\ call' = [call EXCEPT ![c] = IF state = "half_open" THEN "probe" ELSE "normal"]
    /\ UNCHANGED <<_state, counters, elapsed, recorded, failures>>

(* A websocket opened through a proxy route records without a check. *)
OpenRouted(c) ==
    /\ call[c] = "none"
    /\ call' = [call EXCEPT ![c] = "normal"]
    /\ UNCHANGED <<_state, counters, elapsed, probe_in_flight, recorded, failures>>

Record(c) ==
    /\ call[c] # "none" /\ c \notin recorded
    /\ recorded' = recorded \cup {c}
    /\ UNCHANGED <<probe_in_flight, call>>

count_after_closing == 0

MutantClosesLate(count) == count > success_threshold

closes(count) == count >= success_threshold

_record_success(c) ==
    /\ Record(c)
    /\ \/ /\ state = "half_open" /\ closes(success_count + 1)
          /\ _state' = "closed" /\ failure_count' = count_after_closing /\ success_count' = 0
       \/ /\ state = "half_open" /\ ~closes(success_count + 1)
          /\ success_count' = success_count + 1
          /\ UNCHANGED <<_state, failure_count>>
       \/ /\ state = "closed"
          /\ failure_count' = 0
          /\ UNCHANGED <<_state, success_count>>
       \/ /\ state = "open"
          /\ UNCHANGED <<_state, counters>>
    /\ UNCHANGED <<elapsed, failures>>

_record_failure(c) ==
    /\ failures < MaxFailures /\ failures' = failures + 1
    /\ Record(c)
    /\ failure_count' = failure_count + 1 /\ success_count' = 0
    /\ elapsed' = FALSE
    /\ _state' = IF failure_count + 1 >= failure_threshold THEN "open" ELSE _state

MutantOnlyRecordedReleases(c) ==
    IF call[c] = "probe" /\ c \in recorded THEN FALSE ELSE probe_in_flight

MutantAnyCallReleases(c) == FALSE

release_half_open_probe(c) == IF call[c] = "probe" THEN FALSE ELSE probe_in_flight

(* The finally clause of the call: whatever its outcome, a cancellation or *)
(* an error that counts as neither included, a probe gives back its slot.  *)
EndCall(c) ==
    /\ call[c] # "none"
    /\ call' = [call EXCEPT ![c] = "none"]
    /\ recorded' = recorded \ {c}
    /\ probe_in_flight' = release_half_open_probe(c)
    /\ UNCHANGED <<_state, counters, elapsed, failures>>

recovery_timeout ==
    /\ _state = "open" /\ ~elapsed
    /\ elapsed' = TRUE
    /\ UNCHANGED <<_state, counters, probe_in_flight, call, recorded, failures>>

BreakerNext ==
    \/ recovery_timeout
    \/ \E c \in Calls :
          \/ pre_call_check(c) \/ OpenRouted(c)
          \/ _record_success(c) \/ _record_failure(c)
          \/ EndCall(c)

BreakerSpec == BreakerInit /\ [][BreakerNext]_breaker_vars

(* Time passes, calls end, clients keep calling, and an upstream whose     *)
(* outage is over answers some of the calls.                               *)
FairBreakerSpec ==
    /\ BreakerSpec
    /\ WF_breaker_vars(recovery_timeout)
    /\ \A c \in Calls :
          SF_breaker_vars(pre_call_check(c)) /\ SF_breaker_vars(_record_success(c)) /\ WF_breaker_vars(EndCall(c))

-----------------------------------------------------------------------------
(* The shape of the state; success_count stays below its threshold. *)
BreakerTypeOK ==
    /\ _state \in {"closed", "open"}
    /\ failure_count \in Nat /\ success_count \in 0..(success_threshold - 1)
    /\ elapsed \in BOOLEAN /\ probe_in_flight \in BOOLEAN
    /\ call \in [Calls -> {"none", "normal", "probe"}] /\ recorded \subseteq Calls
    /\ failures \in 0..MaxFailures

(* The half-open slot is taken exactly while one call holds it: two probes *)
(* never run at a time, and no end of a call, late, failed or cancelled,   *)
(* leaves the slot taken or frees the slot of another probe.               *)
ProbeSlotOwned ==
    /\ probe_in_flight <=> \E c \in Calls : call[c] = "probe"
    /\ \A c, d \in Calls : call[c] = "probe" /\ call[d] = "probe" => c = d

(* The breaker is open exactly when failure_threshold failures have been   *)
(* counted since it last closed: late results of calls admitted in another *)
(* state never leave it closed with a spent allowance, or open without     *)
(* cause; and a closed breaker has no successes of an earlier half-open    *)
(* period that would shorten the next one.                                 *)
CountsMatchState ==
    /\ _state = "open" <=> failure_count >= failure_threshold
    /\ _state = "closed" => success_count = 0

(* Once the outage is over the breaker closes for good: no schedule of     *)
(* probes, cancellations and late results keeps it open or half open.      *)
RecoversAfterOutage == <>[](_state = "closed")
=============================================================================
