-------------------------- MODULE DrainStateProofs --------------------------
(***************************************************************************)
(* Proofs that the safety invariants of DrainState hold for every nesting  *)
(* of signals, every timeout and every set of requests.                    *)
(***************************************************************************)
EXTENDS DrainState, FiniteSetTheorems, WellFoundedInduction, TLAPS

(* Stages of a frame after which something is known of the shared state. *)
PromotedStages == {"c_committed", "c_draining", "c_bridge", "c_started", "c_return"}
CandidateStages == PromotedStages \cup {"c_promote"}
FastStages == {"b_fast_draining", "b_fast_bridge", "b_fast_return"}
PublishedStages == {"b_draining", "b_bridge", "b_started", "b_effective", "b_promote"}
TokenCleared == {"t_draining", "t_deadline", "t_bridge", "t_recheck", "t_return"}

(* A committed candidate covers the reversible deadline, except while      *)
(* begin_drain is between publishing and promoting it.                     *)
Covered ==
    drain_deadline # None /\ pc[1] \notin PublishedStages =>
        \E c \in shutdown_deadline_candidates : c <= drain_deadline

(* What frame l may rely on when it resumes. *)
FrameOK(l) ==
    /\ l > depth => pc[l] = "none"
    /\ l > 1 => pc[l] \in CommitPC \cup {"none"}
    /\ pc[l] # "assertion_failed"
    /\ pc[l] \in {"c_append", "b_publish", "b_promote"} => loc[l] \in Nat
    /\ pc[l] \in CandidateStages => shutdown_deadline_candidates # {}
    /\ pc[l] \in PromotedStages => Covered
    /\ pc[l] \in FastStages => Published # {}
    /\ pc[l] \in PublishedStages => drain_deadline \in Nat
    /\ pc[l] = "b_promote" => loc[l] <= drain_deadline
    /\ pc[l] \in TokenCleared => ~drain_started \/ shutdown_deadline_candidates # {}
    /\ pc[l] = "t_restore" => shutdown_deadline_candidates # {}

FrameInv == \A l \in 1..MaxDepth : FrameOK(l)

CommittedInv ==
    /\ shutdown_committed => shutdown_deadline_candidates # {} /\ Covered
    /\ promised # {} => shutdown_committed

(* The part of the type invariant the argument uses. *)
CoreTypeOK ==
    /\ now \in Nat
    /\ draining \in BOOLEAN /\ drain_started \in BOOLEAN
    /\ bridge_drain_active \in BOOLEAN /\ shutdown_committed \in BOOLEAN
    /\ drain_deadline \in Deadline
    /\ shutdown_deadline_candidates \in SUBSET Nat
    /\ depth \in 0..MaxDepth
    /\ pc \in [1..MaxDepth -> PC]
    /\ arg \in [1..MaxDepth -> Deadline]
    /\ loc \in [1..MaxDepth -> Deadline]
    /\ promised \in SUBSET Nat

IInv == /\ CoreTypeOK /\ FrameInv /\ CommittedInv
        /\ StartedHasDeadline /\ PromisedDeadlineKept

-----------------------------------------------------------------------------
(* The minimum of a non-empty set of deadlines is one of them. *)
LEMMA LeastIsMember ==
    ASSUME NEW S \in SUBSET Nat, S # {}
    PROVE  Least(S) \in S /\ \A e \in S : Least(S) <= e
<1>1. \A x, y \in Nat : x < y => <<x, y>> \in OpToRel(<, Nat)
  BY DEF OpToRel
<1>2. \E d \in S : \A e \in S : ~(<<e, d>> \in OpToRel(<, Nat))
  BY NatLessThanWellFounded, WFMin
<1>3. PICK d \in S : \A e \in S : ~(<<e, d>> \in OpToRel(<, Nat))
  BY <1>2
<1>4. \A e \in S : e \in Nat
  OBVIOUS
<1>5. \A e \in S : ~(e < d)
  BY <1>1, <1>3, <1>4, Zenon
<1>6. \A e \in S : d <= e
  BY <1>4, <1>5
<1> QED
  BY <1>6 DEF Least

(* The effective deadline is one of the published ones, and the earliest. *)
LEMMA EffectiveIsLeast ==
    ASSUME CoreTypeOK, Published # {}
    PROVE  /\ Published \in SUBSET Nat
           /\ effective_drain_deadline \in Published
           /\ effective_drain_deadline # None
           /\ \A d \in Published : effective_drain_deadline <= d
<1>1. Published \in SUBSET Nat
  BY DEF CoreTypeOK, Published, Deadline
<1>2. effective_drain_deadline = Least(Published)
  BY DEF effective_drain_deadline
<1> QED
  BY <1>1, <1>2, LeastIsMember, ConstantsAssumption

(* Module import leaves every flag down, no deadline and an empty stack of calls. *)
LEMMA InitIInv == Init => IInv
<1> SUFFICES ASSUME Init PROVE IInv
  OBVIOUS
<1>0. /\ pc \in [1..MaxDepth -> PC] /\ depth \in 0..MaxDepth
      /\ arg \in [1..MaxDepth -> Deadline] /\ loc \in [1..MaxDepth -> Deadline]
  BY ConstantsAssumption DEF Init, PC, Deadline
<1>1. CoreTypeOK
  BY <1>0 DEF Init, CoreTypeOK, Deadline
<1>2. Published = {} /\ Covered
  BY DEF Init, Published, Covered
<1>3. FrameInv
  BY <1>2, ConstantsAssumption
     DEF Init, FrameInv, FrameOK, CandidateStages, PromotedStages, FastStages,
         PublishedStages, TokenCleared
<1> QED
  BY <1>1, <1>2, <1>3
     DEF Init, IInv, CommittedInv, StartedHasDeadline, PromisedDeadlineKept

-----------------------------------------------------------------------------
(* Steps that touch neither the flags nor the frames. *)
LEMMA QuietStep ==
    ASSUME IInv, UNCHANGED <<flags, frames, promised>>, now' \in Nat
    PROVE  IInv'
<1>1. Published' = Published /\ Covered' = Covered
  BY DEF flags, frames, Published, Covered
<1>2. FrameInv'
  <2> SUFFICES ASSUME NEW l \in 1..MaxDepth PROVE FrameOK(l)'
    BY DEF FrameInv
  <2>1. FrameOK(l)
    BY DEF IInv, FrameInv
  <2> QED
    BY <1>1, <2>1 DEF flags, frames, FrameOK
<1> QED
  BY <1>1, <1>2 DEF flags, frames, IInv, CoreTypeOK, CommittedInv, StartedHasDeadline,
              PromisedDeadlineKept

(* Calls push a frame that relies on nothing yet. *)
LEMMA PushStep ==
    ASSUME IInv, NEW label \in {"a_register", "b_test", "t_test", "c_test"},
           NEW d \in Deadline,
           label # "c_test" => depth = 0,
           Push(label, d), UNCHANGED <<now, flags, promised>>
    PROVE  IInv'
<1> USE DEF IInv
<1>1. Published' = Published
  BY DEF flags, Published
<1>2. /\ depth \in 0..MaxDepth /\ depth + 1 \in 1..MaxDepth /\ depth' = depth + 1
      /\ pc'[depth + 1] = label
      /\ \A l \in 1..MaxDepth : l # depth + 1 => pc'[l] = pc[l] /\ loc'[l] = loc[l]
  BY ConstantsAssumption DEF Push, CoreTypeOK
<1>3. pc[depth + 1] = "none"
  BY <1>2 DEF FrameInv, FrameOK
<1>4. Covered' = Covered
  BY <1>2, <1>3, ConstantsAssumption DEF flags, Covered, PublishedStages
<1>5. FrameInv'
  <2> SUFFICES ASSUME NEW l \in 1..MaxDepth PROVE FrameOK(l)'
    BY DEF FrameInv
  <2>1. FrameOK(l)
    BY DEF FrameInv
  <2>2. CASE l = depth + 1
    BY <1>2, <2>2 DEF FrameOK, CommitPC, CandidateStages, PromotedStages, FastStages,
                      PublishedStages, TokenCleared
  <2>3. CASE l # depth + 1
    BY <1>1, <1>2, <1>4, <2>1, <2>3 DEF flags, FrameOK
  <2> QED
    BY <2>2, <2>3
<1>6. CoreTypeOK'
  BY <1>2 DEF Push, flags, CoreTypeOK, PC, CommitPC, BeginPC, StopPC, AdmitPC, Deadline
<1> QED
  BY <1>1, <1>4, <1>5, <1>6
     DEF flags, CommittedInv, StartedHasDeadline, PromisedDeadlineKept

-----------------------------------------------------------------------------
(* The control facts every frame step uses. *)
LEMMA GotoFacts ==
    ASSUME CoreTypeOK, depth > 0, NEW label \in PC, Goto(label)
    PROVE  /\ depth \in 1..MaxDepth /\ depth' = depth
           /\ pc' \in [1..MaxDepth -> PC] /\ arg' = arg
           /\ pc'[depth] = label
           /\ \A l \in 1..MaxDepth : l # depth => pc'[l] = pc[l]
BY ConstantsAssumption DEF CoreTypeOK, Goto

(* What returning from the innermost call does to the stack of calls. *)
LEMMA PopFacts ==
    ASSUME CoreTypeOK, depth > 0, Pop
    PROVE  /\ depth \in 1..MaxDepth /\ depth' = depth - 1 /\ depth' \in 0..MaxDepth
           /\ pc' \in [1..MaxDepth -> PC] /\ arg' = arg
           /\ pc'[depth] = "none" /\ loc' = loc
           /\ \A l \in 1..MaxDepth : l # depth => pc'[l] = pc[l]
BY ConstantsAssumption DEF CoreTypeOK, Pop, PC

(* A step of commit_shutdown only adds candidates and raises flags, so it  *)
(* leaves the frames below it what they rely on.                           *)
LEMMA CommitRely ==
    ASSUME IInv, depth \in 1..MaxDepth,
           pc[depth] \in CommitPC, pc'[depth] \in CommitPC \cup {"none"},
           depth' \in {depth, depth - 1}, depth' # depth => pc'[depth] = "none",
           \A l \in 1..MaxDepth : l # depth => pc'[l] = pc[l] /\ loc'[l] = loc[l],
           shutdown_deadline_candidates \subseteq shutdown_deadline_candidates',
           drain_deadline' = drain_deadline,
           drain_started' => drain_started \/ shutdown_deadline_candidates' # {}
    PROVE  /\ Covered => Covered'
           /\ Published \subseteq Published'
           /\ \A l \in 1..MaxDepth : l # depth => FrameOK(l)'
<1>1. Covered => Covered'
  <2>1. pc'[1] \in PublishedStages <=> pc[1] \in PublishedStages
    BY ConstantsAssumption DEF PublishedStages, CommitPC
  <2> QED
    BY <2>1 DEF Covered
<1>2. Published \subseteq Published'
  BY DEF Published
<1>3. ASSUME NEW l \in 1..MaxDepth, l # depth PROVE FrameOK(l)'
  <2>1. FrameOK(l)
    BY DEF IInv, FrameInv
  <2> QED
    BY <1>1, <1>2, <1>3, <2>1 DEF FrameOK
<1> QED
  BY <1>1, <1>2, <1>3

(* Every step of a commit, wherever a signal interrupted it, preserves the invariant. *)
LEMMA CommitStepIInv == ASSUME IInv, CommitStep PROVE IInv'
<1> USE DEF IInv
<1>0. /\ depth > 0 /\ depth \in 1..MaxDepth /\ Top = pc[depth] /\ FrameOK(depth)
      /\ now' = now
  BY ConstantsAssumption DEF CommitStep, CoreTypeOK, Top, FrameInv, Rest
<1>a. /\ shutdown_deadline_candidates \in SUBSET Nat
      /\ Published \in SUBSET Nat
      /\ loc[depth] \in Deadline /\ arg[depth] \in Deadline
  BY <1>0, ConstantsAssumption DEF CoreTypeOK, Published, Deadline
<1>1. CASE Top = "c_test"
  <2>1. /\ Goto(IF shutdown_committed /\ arg[depth] = None THEN "c_return" ELSE "c_compute")
        /\ UNCHANGED flags
        /\ loc' = loc
        /\ promised' = promised
    BY <1>1 DEF CommitStep, Step, appended_candidates, promoted_candidates
  <2>2. /\ depth' = depth /\ pc'[depth] = (IF shutdown_committed /\ arg[depth] = None THEN "c_return" ELSE "c_compute")
        /\ pc' \in [1..MaxDepth -> PC] /\ arg' = arg
        /\ \A l \in 1..MaxDepth : l # depth => pc'[l] = pc[l]
    BY <1>0, <2>1, GotoFacts DEF PC, CommitPC
  <2>4. /\ Covered => Covered'
        /\ Published \subseteq Published'
        /\ \A l \in 1..MaxDepth : l # depth => FrameOK(l)'
    BY <1>0, <1>1, <2>1, <2>2, CommitRely DEF flags, CommitPC, Published, CoreTypeOK, FrameOK, CandidateStages, PromotedStages
  <2>5. FrameOK(depth)'
    BY <1>0, <1>a, <1>1, <2>1, <2>2, <2>4, ConstantsAssumption
       DEF flags, FrameOK, CommittedInv, Covered, Published, CommitPC, CandidateStages, PromotedStages, FastStages,
           PublishedStages, TokenCleared, CoreTypeOK
  <2>6. CoreTypeOK'
    BY <1>0, <1>a, <2>1, <2>2, ConstantsAssumption DEF flags, CoreTypeOK, Deadline
  <2>7. CommittedInv' /\ StartedHasDeadline' /\ PromisedDeadlineKept'
    BY <1>0, <1>1, <2>1, <2>2, <2>4
       DEF flags, CommittedInv, StartedHasDeadline, PromisedDeadlineKept, FrameOK, Published,
           CandidateStages, PromotedStages
  <2> QED
    BY <2>2, <2>4, <2>5, <2>6, <2>7 DEF FrameInv
<1>2. CASE Top = "c_compute"
  <2>1. /\ Goto("c_append")
        /\ UNCHANGED flags
        /\ loc' = [loc EXCEPT ![depth] = new_drain_deadline_candidate(arg[depth])]
        /\ promised' = promised
    BY <1>2 DEF CommitStep, Step, appended_candidates, promoted_candidates
  <2>2. /\ depth' = depth /\ pc'[depth] = ("c_append")
        /\ pc' \in [1..MaxDepth -> PC] /\ arg' = arg
        /\ \A l \in 1..MaxDepth : l # depth => pc'[l] = pc[l]
    BY <1>0, <2>1, GotoFacts DEF PC, CommitPC
  <2>3. new_drain_deadline_candidate(arg[depth]) \in Nat
    BY <1>a, ConstantsAssumption DEF new_drain_deadline_candidate, CoreTypeOK, Deadline
  <2>4. /\ Covered => Covered'
        /\ Published \subseteq Published'
        /\ \A l \in 1..MaxDepth : l # depth => FrameOK(l)'
    BY <1>0, <1>2, <2>1, <2>2, <2>3, CommitRely DEF flags, CommitPC, Published, CoreTypeOK, FrameOK, CandidateStages, PromotedStages
  <2>5. FrameOK(depth)'
    BY <1>0, <1>a, <1>2, <2>1, <2>2, <2>3, <2>4, ConstantsAssumption
       DEF flags, FrameOK, CommittedInv, Covered, Published, CommitPC, CandidateStages, PromotedStages, FastStages,
           PublishedStages, TokenCleared, CoreTypeOK
  <2>6. CoreTypeOK'
    BY <1>0, <1>a, <2>1, <2>2, <2>3, ConstantsAssumption DEF flags, CoreTypeOK, Deadline
  <2>7. CommittedInv' /\ StartedHasDeadline' /\ PromisedDeadlineKept'
    BY <1>0, <1>2, <2>1, <2>2, <2>4
       DEF flags, CommittedInv, StartedHasDeadline, PromisedDeadlineKept, FrameOK, Published,
           CandidateStages, PromotedStages
  <2> QED
    BY <2>2, <2>4, <2>5, <2>6, <2>7 DEF FrameInv
<1>3. CASE Top = "c_append"
  <2>1. /\ Goto("c_promote")
        /\ shutdown_deadline_candidates' = shutdown_deadline_candidates \cup {loc[depth]}
        /\ UNCHANGED <<draining, drain_deadline, drain_started, bridge_drain_active, shutdown_committed>>
        /\ loc' = loc
        /\ promised' = promised
    BY <1>3 DEF CommitStep, Step, appended_candidates, promoted_candidates
  <2>2. /\ depth' = depth /\ pc'[depth] = ("c_promote")
        /\ pc' \in [1..MaxDepth -> PC] /\ arg' = arg
        /\ \A l \in 1..MaxDepth : l # depth => pc'[l] = pc[l]
    BY <1>0, <2>1, GotoFacts DEF PC, CommitPC
  <2>3. loc[depth] \in Nat
    BY <1>0, <1>3 DEF FrameOK
  <2>4. /\ Covered => Covered'
        /\ Published \subseteq Published'
        /\ \A l \in 1..MaxDepth : l # depth => FrameOK(l)'
    BY <1>0, <1>3, <2>1, <2>2, <2>3, CommitRely DEF flags, CommitPC, Published, CoreTypeOK, FrameOK, CandidateStages, PromotedStages
  <2>5. FrameOK(depth)'
    BY <1>0, <1>a, <1>3, <2>1, <2>2, <2>3, <2>4, ConstantsAssumption
       DEF flags, FrameOK, CommittedInv, Covered, Published, CommitPC, CandidateStages, PromotedStages, FastStages,
           PublishedStages, TokenCleared, CoreTypeOK
  <2>6. CoreTypeOK'
    BY <1>0, <1>a, <2>1, <2>2, <2>3, ConstantsAssumption DEF flags, CoreTypeOK, Deadline
  <2>7. CommittedInv' /\ StartedHasDeadline' /\ PromisedDeadlineKept'
    BY <1>0, <1>3, <2>1, <2>2, <2>4
       DEF flags, CommittedInv, StartedHasDeadline, PromisedDeadlineKept, FrameOK, Published,
           CandidateStages, PromotedStages
  <2> QED
    BY <2>2, <2>4, <2>5, <2>6, <2>7 DEF FrameInv
<1>4. CASE Top = "c_promote"
  <2>1. /\ Goto("c_committed")
        /\ shutdown_deadline_candidates' = Published
        /\ UNCHANGED <<draining, drain_deadline, drain_started, bridge_drain_active, shutdown_committed>>
        /\ loc' = loc
        /\ promised' = promised
    BY <1>4 DEF CommitStep, Step, appended_candidates, promoted_candidates
  <2>2. /\ depth' = depth /\ pc'[depth] = ("c_committed")
        /\ pc' \in [1..MaxDepth -> PC] /\ arg' = arg
        /\ \A l \in 1..MaxDepth : l # depth => pc'[l] = pc[l]
    BY <1>0, <2>1, GotoFacts DEF PC, CommitPC
  <2>4. /\ Covered => Covered'
        /\ Published \subseteq Published'
        /\ \A l \in 1..MaxDepth : l # depth => FrameOK(l)'
    BY <1>0, <1>4, <2>1, <2>2, CommitRely DEF flags, CommitPC, Published, CoreTypeOK, FrameOK, CandidateStages, PromotedStages
  <2>3. Covered' /\ shutdown_deadline_candidates' # {}
    <3>1. shutdown_deadline_candidates # {} /\ drain_deadline \in Deadline
      BY <1>0, <1>4 DEF FrameOK, CandidateStages, CoreTypeOK
    <3>2. drain_deadline # None => drain_deadline \in Published /\ drain_deadline <= drain_deadline
      BY <3>1 DEF Published, Deadline
    <3> QED
      BY <2>1, <3>1, <3>2 DEF Covered, Published
  <2>5. FrameOK(depth)'
    BY <1>0, <1>4, <2>2, <2>3
       DEF FrameOK, CommitPC, CandidateStages, PromotedStages, FastStages,
           PublishedStages, TokenCleared
  <2>6. CoreTypeOK'
    BY <1>0, <1>a, <2>1, <2>2, ConstantsAssumption DEF flags, CoreTypeOK, Deadline
  <2>7. CommittedInv' /\ StartedHasDeadline' /\ PromisedDeadlineKept'
    BY <1>0, <1>4, <2>1, <2>2, <2>4
       DEF flags, CommittedInv, StartedHasDeadline, PromisedDeadlineKept, FrameOK, Published,
           CandidateStages, PromotedStages
  <2> QED
    BY <2>2, <2>4, <2>5, <2>6, <2>7 DEF FrameInv
<1>5. CASE Top = "c_committed"
  <2>1. /\ Goto("c_draining")
        /\ shutdown_committed' = TRUE
        /\ UNCHANGED <<draining, drain_deadline, drain_started, bridge_drain_active, shutdown_deadline_candidates>>
        /\ loc' = loc
        /\ promised' = promised
    BY <1>5 DEF CommitStep, Step, appended_candidates, promoted_candidates
  <2>2. /\ depth' = depth /\ pc'[depth] = ("c_draining")
        /\ pc' \in [1..MaxDepth -> PC] /\ arg' = arg
        /\ \A l \in 1..MaxDepth : l # depth => pc'[l] = pc[l]
    BY <1>0, <2>1, GotoFacts DEF PC, CommitPC
  <2>4. /\ Covered => Covered'
        /\ Published \subseteq Published'
        /\ \A l \in 1..MaxDepth : l # depth => FrameOK(l)'
    BY <1>0, <1>5, <2>1, <2>2, CommitRely DEF flags, CommitPC, Published, CoreTypeOK, FrameOK, CandidateStages, PromotedStages
  <2>5. FrameOK(depth)'
    BY <1>0, <1>a, <1>5, <2>1, <2>2, <2>4, ConstantsAssumption
       DEF flags, FrameOK, CommittedInv, Covered, Published, CommitPC, CandidateStages, PromotedStages, FastStages,
           PublishedStages, TokenCleared, CoreTypeOK
  <2>6. CoreTypeOK'
    BY <1>0, <1>a, <2>1, <2>2, ConstantsAssumption DEF flags, CoreTypeOK, Deadline
  <2>7. CommittedInv' /\ StartedHasDeadline' /\ PromisedDeadlineKept'
    BY <1>0, <1>5, <2>1, <2>2, <2>4
       DEF flags, CommittedInv, StartedHasDeadline, PromisedDeadlineKept, FrameOK, Published,
           CandidateStages, PromotedStages
  <2> QED
    BY <2>2, <2>4, <2>5, <2>6, <2>7 DEF FrameInv
<1>6. CASE Top = "c_draining"
  <2>1. /\ Goto("c_bridge")
        /\ draining' = TRUE
        /\ UNCHANGED <<drain_deadline, drain_started, bridge_drain_active, shutdown_committed, shutdown_deadline_candidates>>
        /\ loc' = loc
        /\ promised' = promised
    BY <1>6 DEF CommitStep, Step, appended_candidates, promoted_candidates
  <2>2. /\ depth' = depth /\ pc'[depth] = ("c_bridge")
        /\ pc' \in [1..MaxDepth -> PC] /\ arg' = arg
        /\ \A l \in 1..MaxDepth : l # depth => pc'[l] = pc[l]
    BY <1>0, <2>1, GotoFacts DEF PC, CommitPC
  <2>4. /\ Covered => Covered'
        /\ Published \subseteq Published'
        /\ \A l \in 1..MaxDepth : l # depth => FrameOK(l)'
    BY <1>0, <1>6, <2>1, <2>2, CommitRely DEF flags, CommitPC, Published, CoreTypeOK, FrameOK, CandidateStages, PromotedStages
  <2>5. FrameOK(depth)'
    BY <1>0, <1>a, <1>6, <2>1, <2>2, <2>4, ConstantsAssumption
       DEF flags, FrameOK, CommittedInv, Covered, Published, CommitPC, CandidateStages, PromotedStages, FastStages,
           PublishedStages, TokenCleared, CoreTypeOK
  <2>6. CoreTypeOK'
    BY <1>0, <1>a, <2>1, <2>2, ConstantsAssumption DEF flags, CoreTypeOK, Deadline
  <2>7. CommittedInv' /\ StartedHasDeadline' /\ PromisedDeadlineKept'
    BY <1>0, <1>6, <2>1, <2>2, <2>4
       DEF flags, CommittedInv, StartedHasDeadline, PromisedDeadlineKept, FrameOK, Published,
           CandidateStages, PromotedStages
  <2> QED
    BY <2>2, <2>4, <2>5, <2>6, <2>7 DEF FrameInv
<1>7. CASE Top = "c_bridge"
  <2>1. /\ Goto("c_started")
        /\ bridge_drain_active' = TRUE
        /\ UNCHANGED <<draining, drain_deadline, drain_started, shutdown_committed, shutdown_deadline_candidates>>
        /\ loc' = loc
        /\ promised' = promised
    BY <1>7 DEF CommitStep, Step, appended_candidates, promoted_candidates
  <2>2. /\ depth' = depth /\ pc'[depth] = ("c_started")
        /\ pc' \in [1..MaxDepth -> PC] /\ arg' = arg
        /\ \A l \in 1..MaxDepth : l # depth => pc'[l] = pc[l]
    BY <1>0, <2>1, GotoFacts DEF PC, CommitPC
  <2>4. /\ Covered => Covered'
        /\ Published \subseteq Published'
        /\ \A l \in 1..MaxDepth : l # depth => FrameOK(l)'
    BY <1>0, <1>7, <2>1, <2>2, CommitRely DEF flags, CommitPC, Published, CoreTypeOK, FrameOK, CandidateStages, PromotedStages
  <2>5. FrameOK(depth)'
    BY <1>0, <1>a, <1>7, <2>1, <2>2, <2>4, ConstantsAssumption
       DEF flags, FrameOK, CommittedInv, Covered, Published, CommitPC, CandidateStages, PromotedStages, FastStages,
           PublishedStages, TokenCleared, CoreTypeOK
  <2>6. CoreTypeOK'
    BY <1>0, <1>a, <2>1, <2>2, ConstantsAssumption DEF flags, CoreTypeOK, Deadline
  <2>7. CommittedInv' /\ StartedHasDeadline' /\ PromisedDeadlineKept'
    BY <1>0, <1>7, <2>1, <2>2, <2>4
       DEF flags, CommittedInv, StartedHasDeadline, PromisedDeadlineKept, FrameOK, Published,
           CandidateStages, PromotedStages
  <2> QED
    BY <2>2, <2>4, <2>5, <2>6, <2>7 DEF FrameInv
<1>8. CASE Top = "c_started"
  <2>1. /\ Goto("c_return")
        /\ drain_started' = TRUE
        /\ UNCHANGED <<draining, drain_deadline, bridge_drain_active, shutdown_committed, shutdown_deadline_candidates>>
        /\ loc' = loc
        /\ promised' = promised
    BY <1>8 DEF CommitStep, Step, appended_candidates, promoted_candidates
  <2>2. /\ depth' = depth /\ pc'[depth] = ("c_return")
        /\ pc' \in [1..MaxDepth -> PC] /\ arg' = arg
        /\ \A l \in 1..MaxDepth : l # depth => pc'[l] = pc[l]
    BY <1>0, <2>1, GotoFacts DEF PC, CommitPC
  <2>4. /\ Covered => Covered'
        /\ Published \subseteq Published'
        /\ \A l \in 1..MaxDepth : l # depth => FrameOK(l)'
    BY <1>0, <1>8, <2>1, <2>2, CommitRely DEF flags, CommitPC, Published, CoreTypeOK, FrameOK, CandidateStages, PromotedStages
  <2>5. FrameOK(depth)'
    BY <1>0, <1>a, <1>8, <2>1, <2>2, <2>4, ConstantsAssumption
       DEF flags, FrameOK, CommittedInv, Covered, Published, CommitPC, CandidateStages, PromotedStages, FastStages,
           PublishedStages, TokenCleared, CoreTypeOK
  <2>6. CoreTypeOK'
    BY <1>0, <1>a, <2>1, <2>2, ConstantsAssumption DEF flags, CoreTypeOK, Deadline
  <2>7. CommittedInv' /\ StartedHasDeadline' /\ PromisedDeadlineKept'
    BY <1>0, <1>8, <2>1, <2>2, <2>4
       DEF flags, CommittedInv, StartedHasDeadline, PromisedDeadlineKept, FrameOK, Published,
           CandidateStages, PromotedStages
  <2> QED
    BY <2>2, <2>4, <2>5, <2>6, <2>7 DEF FrameInv
<1>9. CASE Top = "c_return"
  <2>1. Published # {}
    BY <1>0, <1>9 DEF FrameOK, CandidateStages, PromotedStages, Published
  <2>2. /\ effective_drain_deadline \in Published
        /\ effective_drain_deadline # None
        /\ \A d \in Published : effective_drain_deadline <= d
    BY <2>1, EffectiveIsLeast
  <2>3. /\ Pop /\ UNCHANGED flags
        /\ promised' = IF shutdown_committed THEN promised \cup {effective_drain_deadline}
                       ELSE promised
    BY <1>9, <2>2 DEF CommitStep, ReturnEffective
  <2>4. /\ depth' = depth - 1 /\ depth' \in 0..MaxDepth
        /\ pc' \in [1..MaxDepth -> PC] /\ arg' = arg
        /\ pc'[depth] = "none" /\ loc' = loc
        /\ \A l \in 1..MaxDepth : l # depth => pc'[l] = pc[l]
    BY <1>0, <2>3, PopFacts
  <2>5. /\ Covered => Covered'
        /\ Published \subseteq Published'
        /\ \A l \in 1..MaxDepth : l # depth => FrameOK(l)'
    BY <1>0, <1>9, <2>3, <2>4, CommitRely DEF flags, CommitPC
  <2>6. ASSUME NEW l \in 1..MaxDepth, l = depth PROVE FrameOK(l)'
    BY <1>0, <2>4, <2>6
       DEF FrameOK, CandidateStages, PromotedStages, FastStages, PublishedStages, TokenCleared
  <2>7. CoreTypeOK'
    BY <1>0, <1>a, <2>2, <2>3, <2>4 DEF flags, CoreTypeOK
  <2>8. CommittedInv' /\ StartedHasDeadline' /\ PromisedDeadlineKept'
    <3>1. Published' = Published
      BY <2>3 DEF flags, Published
    <3> QED
      BY <1>a, <2>2, <2>3, <2>5, <3>1
         DEF flags, CommittedInv, StartedHasDeadline, PromisedDeadlineKept
  <2> QED
    BY <2>5, <2>6, <2>7, <2>8 DEF FrameInv
<1> QED
  BY <1>0, <1>1, <1>2, <1>3, <1>4, <1>5, <1>6, <1>7, <1>8, <1>9 DEF CommitStep

(* Frames of begin_drain and stop_drain are at the bottom of the stack, so *)
(* no other frame is there to be disturbed.                                *)
LEMMA BottomRely ==
    ASSUME IInv, depth \in 1..MaxDepth, pc[depth] \notin CommitPC,
           pc[depth] # "none"
    PROVE  /\ depth = 1 /\ 1 \in 1..MaxDepth
           /\ \A l \in 1..MaxDepth : l # 1 => pc[l] = "none"
<1>1. FrameOK(depth)
  BY DEF IInv, FrameInv
<1>2. depth = 1
  BY <1>1 DEF FrameOK
<1>3. ASSUME NEW l \in 1..MaxDepth, l # 1 PROVE pc[l] = "none"
  BY <1>2, <1>3 DEF IInv, FrameInv, FrameOK
<1> QED
  BY <1>2, <1>3, ConstantsAssumption

(* The other frames after a step of the bottom one. *)
LEMMA BottomOthers ==
    ASSUME IInv, depth = 1, depth' \in {0, 1}, NEW l \in 1..MaxDepth, l # 1,
           pc'[l] = pc[l], pc[l] = "none"
    PROVE  FrameOK(l)'
BY DEF FrameOK, CommitPC, CandidateStages, PromotedStages, FastStages, PublishedStages, TokenCleared

(* begin_drain preserves the invariant. *)
LEMMA BeginStepIInv == ASSUME IInv, BeginStep PROVE IInv'
<1> USE DEF IInv
<1>0. /\ depth > 0 /\ depth \in 1..MaxDepth /\ Top = pc[depth] /\ now' = now
  BY ConstantsAssumption DEF BeginStep, CoreTypeOK, Top, Rest
<1>a. /\ depth = 1 /\ 1 \in 1..MaxDepth /\ Top = pc[1] /\ FrameOK(1)
      /\ \A l \in 1..MaxDepth : l # 1 => pc[l] = "none"
  <2>1. pc[depth] \notin CommitPC /\ pc[depth] # "none"
    BY <1>0 DEF BeginStep, CommitPC
  <2> QED
    BY <1>0, <2>1, BottomRely DEF FrameInv
<1>b. /\ shutdown_deadline_candidates \in SUBSET Nat
      /\ Published \in SUBSET Nat
      /\ loc[1] \in Deadline /\ drain_deadline \in Deadline
  BY <1>a, ConstantsAssumption DEF CoreTypeOK, Published, Deadline
<1>1. CASE Top = "b_test"
  <2>1. /\ Goto(IF drain_started THEN "b_fast_draining" ELSE "b_compute")
        /\ UNCHANGED flags
        /\ loc' = loc
        /\ promised' = promised
    BY <1>1 DEF BeginStep, Step, stop_order, stop_recheck
  <2>2. /\ depth' = 1 /\ pc'[1] = (IF drain_started THEN "b_fast_draining" ELSE "b_compute")
        /\ pc' \in [1..MaxDepth -> PC] /\ arg' = arg
        /\ \A l \in 1..MaxDepth : l # 1 => pc'[l] = pc[l]
    BY <1>0, <1>a, <1>1, <2>1, GotoFacts DEF PC, BeginPC, StopPC
  <2>3. CoreTypeOK'
    BY <1>0, <1>a, <1>b, <2>1, <2>2, ConstantsAssumption DEF flags, CoreTypeOK, Deadline
  <2>4. FrameOK(1)'
    BY <1>a, <1>b, <1>1, <2>1, <2>2, ConstantsAssumption
       DEF flags, FrameOK, CommittedInv, StartedHasDeadline, Covered, Published, Deadline,
           CandidateStages, PromotedStages, FastStages, PublishedStages, TokenCleared
  <2>5. CommittedInv' /\ StartedHasDeadline' /\ PromisedDeadlineKept'
    BY <1>a, <1>b, <1>1, <2>1, <2>2, ConstantsAssumption
       DEF flags, CommittedInv, StartedHasDeadline, PromisedDeadlineKept, FrameOK, Covered,
           Published, Deadline, CandidateStages, PromotedStages, FastStages, PublishedStages, TokenCleared
  <2> QED
    BY <1>a, <2>2, <2>3, <2>4, <2>5, BottomOthers DEF FrameInv
<1>2. CASE Top = "b_fast_draining"
  <2>1. /\ Goto("b_fast_bridge")
        /\ draining' = TRUE /\ UNCHANGED <<drain_deadline, drain_started, bridge_drain_active, shutdown_committed, shutdown_deadline_candidates>>
        /\ loc' = loc
        /\ promised' = promised
    BY <1>2 DEF BeginStep, Step, stop_order, stop_recheck
  <2>2. /\ depth' = 1 /\ pc'[1] = ("b_fast_bridge")
        /\ pc' \in [1..MaxDepth -> PC] /\ arg' = arg
        /\ \A l \in 1..MaxDepth : l # 1 => pc'[l] = pc[l]
    BY <1>0, <1>a, <1>2, <2>1, GotoFacts DEF PC, BeginPC, StopPC
  <2>3. CoreTypeOK'
    BY <1>0, <1>a, <1>b, <2>1, <2>2, ConstantsAssumption DEF flags, CoreTypeOK, Deadline
  <2>4. FrameOK(1)'
    BY <1>a, <1>b, <1>2, <2>1, <2>2, ConstantsAssumption
       DEF flags, FrameOK, CommittedInv, StartedHasDeadline, Covered, Published, Deadline,
           CandidateStages, PromotedStages, FastStages, PublishedStages, TokenCleared
  <2>5. CommittedInv' /\ StartedHasDeadline' /\ PromisedDeadlineKept'
    BY <1>a, <1>b, <1>2, <2>1, <2>2, ConstantsAssumption
       DEF flags, CommittedInv, StartedHasDeadline, PromisedDeadlineKept, FrameOK, Covered,
           Published, Deadline, CandidateStages, PromotedStages, FastStages, PublishedStages, TokenCleared
  <2> QED
    BY <1>a, <2>2, <2>3, <2>4, <2>5, BottomOthers DEF FrameInv
<1>3. CASE Top = "b_draining"
  <2>1. /\ Goto("b_bridge")
        /\ draining' = TRUE /\ UNCHANGED <<drain_deadline, drain_started, bridge_drain_active, shutdown_committed, shutdown_deadline_candidates>>
        /\ loc' = loc
        /\ promised' = promised
    BY <1>3 DEF BeginStep, Step, stop_order, stop_recheck
  <2>2. /\ depth' = 1 /\ pc'[1] = ("b_bridge")
        /\ pc' \in [1..MaxDepth -> PC] /\ arg' = arg
        /\ \A l \in 1..MaxDepth : l # 1 => pc'[l] = pc[l]
    BY <1>0, <1>a, <1>3, <2>1, GotoFacts DEF PC, BeginPC, StopPC
  <2>3. CoreTypeOK'
    BY <1>0, <1>a, <1>b, <2>1, <2>2, ConstantsAssumption DEF flags, CoreTypeOK, Deadline
  <2>4. FrameOK(1)'
    BY <1>a, <1>b, <1>3, <2>1, <2>2, ConstantsAssumption
       DEF flags, FrameOK, CommittedInv, StartedHasDeadline, Covered, Published, Deadline,
           CandidateStages, PromotedStages, FastStages, PublishedStages, TokenCleared
  <2>5. CommittedInv' /\ StartedHasDeadline' /\ PromisedDeadlineKept'
    BY <1>a, <1>b, <1>3, <2>1, <2>2, ConstantsAssumption
       DEF flags, CommittedInv, StartedHasDeadline, PromisedDeadlineKept, FrameOK, Covered,
           Published, Deadline, CandidateStages, PromotedStages, FastStages, PublishedStages, TokenCleared
  <2> QED
    BY <1>a, <2>2, <2>3, <2>4, <2>5, BottomOthers DEF FrameInv
<1>4. CASE Top = "b_fast_bridge"
  <2>1. /\ Goto("b_fast_return")
        /\ bridge_drain_active' = TRUE /\ UNCHANGED <<draining, drain_deadline, drain_started, shutdown_committed, shutdown_deadline_candidates>>
        /\ loc' = loc
        /\ promised' = promised
    BY <1>4 DEF BeginStep, Step, stop_order, stop_recheck
  <2>2. /\ depth' = 1 /\ pc'[1] = ("b_fast_return")
        /\ pc' \in [1..MaxDepth -> PC] /\ arg' = arg
        /\ \A l \in 1..MaxDepth : l # 1 => pc'[l] = pc[l]
    BY <1>0, <1>a, <1>4, <2>1, GotoFacts DEF PC, BeginPC, StopPC
  <2>3. CoreTypeOK'
    BY <1>0, <1>a, <1>b, <2>1, <2>2, ConstantsAssumption DEF flags, CoreTypeOK, Deadline
  <2>4. FrameOK(1)'
    BY <1>a, <1>b, <1>4, <2>1, <2>2, ConstantsAssumption
       DEF flags, FrameOK, CommittedInv, StartedHasDeadline, Covered, Published, Deadline,
           CandidateStages, PromotedStages, FastStages, PublishedStages, TokenCleared
  <2>5. CommittedInv' /\ StartedHasDeadline' /\ PromisedDeadlineKept'
    BY <1>a, <1>b, <1>4, <2>1, <2>2, ConstantsAssumption
       DEF flags, CommittedInv, StartedHasDeadline, PromisedDeadlineKept, FrameOK, Covered,
           Published, Deadline, CandidateStages, PromotedStages, FastStages, PublishedStages, TokenCleared
  <2> QED
    BY <1>a, <2>2, <2>3, <2>4, <2>5, BottomOthers DEF FrameInv
<1>5. CASE Top = "b_bridge"
  <2>1. /\ Goto("b_started")
        /\ bridge_drain_active' = TRUE /\ UNCHANGED <<draining, drain_deadline, drain_started, shutdown_committed, shutdown_deadline_candidates>>
        /\ loc' = loc
        /\ promised' = promised
    BY <1>5 DEF BeginStep, Step, stop_order, stop_recheck
  <2>2. /\ depth' = 1 /\ pc'[1] = ("b_started")
        /\ pc' \in [1..MaxDepth -> PC] /\ arg' = arg
        /\ \A l \in 1..MaxDepth : l # 1 => pc'[l] = pc[l]
    BY <1>0, <1>a, <1>5, <2>1, GotoFacts DEF PC, BeginPC, StopPC
  <2>3. CoreTypeOK'
    BY <1>0, <1>a, <1>b, <2>1, <2>2, ConstantsAssumption DEF flags, CoreTypeOK, Deadline
  <2>4. FrameOK(1)'
    BY <1>a, <1>b, <1>5, <2>1, <2>2, ConstantsAssumption
       DEF flags, FrameOK, CommittedInv, StartedHasDeadline, Covered, Published, Deadline,
           CandidateStages, PromotedStages, FastStages, PublishedStages, TokenCleared
  <2>5. CommittedInv' /\ StartedHasDeadline' /\ PromisedDeadlineKept'
    BY <1>a, <1>b, <1>5, <2>1, <2>2, ConstantsAssumption
       DEF flags, CommittedInv, StartedHasDeadline, PromisedDeadlineKept, FrameOK, Covered,
           Published, Deadline, CandidateStages, PromotedStages, FastStages, PublishedStages, TokenCleared
  <2> QED
    BY <1>a, <2>2, <2>3, <2>4, <2>5, BottomOthers DEF FrameInv
<1>6. CASE Top = "b_fast_return"
  <2>0. /\ Published # {} /\ effective_drain_deadline \in Published
        /\ effective_drain_deadline # None
        /\ \A d \in Published : effective_drain_deadline <= d
    <3>1. Published # {}
      BY <1>a, <1>b, <1>6, ConstantsAssumption DEF FrameOK, FastStages, PublishedStages, Published
    <3> QED
      BY <3>1, EffectiveIsLeast
  <2>1. /\ Pop
        /\ UNCHANGED flags
        /\ promised' = IF shutdown_committed THEN promised \cup {effective_drain_deadline}
                       ELSE promised
    BY <1>6, <2>0 DEF BeginStep, ReturnEffective
  <2>2. /\ depth' = 0 /\ pc'[1] = "none" /\ loc' = loc
        /\ pc' \in [1..MaxDepth -> PC] /\ arg' = arg
        /\ \A l \in 1..MaxDepth : l # 1 => pc'[l] = pc[l]
    BY <1>0, <1>a, <2>1, PopFacts
  <2>3. CoreTypeOK'
    BY <1>0, <1>a, <1>b, <2>1, <2>2, <2>0, ConstantsAssumption DEF flags, CoreTypeOK, Deadline
  <2>4. FrameOK(1)'
    BY <1>a, <2>2 DEF FrameOK, CandidateStages, PromotedStages, FastStages, PublishedStages, TokenCleared
  <2>5. CommittedInv' /\ StartedHasDeadline' /\ PromisedDeadlineKept'
    BY <1>a, <1>b, <1>6, <2>1, <2>2, <2>0, ConstantsAssumption
       DEF flags, CommittedInv, StartedHasDeadline, PromisedDeadlineKept, FrameOK, Covered,
           Published, Deadline, CandidateStages, PromotedStages, FastStages, PublishedStages, TokenCleared
  <2> QED
    BY <1>a, <2>2, <2>3, <2>4, <2>5, BottomOthers DEF FrameInv
<1>7. CASE Top = "b_compute"
  <2>0. new_drain_deadline_candidate(None) \in Nat
    BY ConstantsAssumption DEF new_drain_deadline_candidate, CoreTypeOK
  <2>1. /\ Goto("b_publish")
        /\ UNCHANGED flags
        /\ loc' = [loc EXCEPT ![1] = new_drain_deadline_candidate(None)]
        /\ promised' = promised
    BY <1>7, <1>a, <2>0 DEF BeginStep, Step, stop_order, stop_recheck
  <2>2. /\ depth' = 1 /\ pc'[1] = ("b_publish")
        /\ pc' \in [1..MaxDepth -> PC] /\ arg' = arg
        /\ \A l \in 1..MaxDepth : l # 1 => pc'[l] = pc[l]
    BY <1>0, <1>a, <1>7, <2>1, GotoFacts DEF PC, BeginPC, StopPC
  <2>3. CoreTypeOK'
    BY <1>0, <1>a, <1>b, <2>1, <2>2, <2>0, ConstantsAssumption DEF flags, CoreTypeOK, Deadline
  <2>4. FrameOK(1)'
    <3>1. loc'[1] \in Nat
      BY <1>a, <2>0, <2>1 DEF CoreTypeOK
    <3> QED
      BY <2>2, <3>1
         DEF FrameOK, CandidateStages, PromotedStages, FastStages, PublishedStages,
             TokenCleared
  <2>5. CommittedInv' /\ StartedHasDeadline' /\ PromisedDeadlineKept'
    BY <1>a, <1>b, <1>7, <2>1, <2>2, <2>0, ConstantsAssumption
       DEF flags, CommittedInv, StartedHasDeadline, PromisedDeadlineKept, FrameOK, Covered,
           Published, Deadline, CandidateStages, PromotedStages, FastStages, PublishedStages, TokenCleared
  <2> QED
    BY <1>a, <2>2, <2>3, <2>4, <2>5, BottomOthers DEF FrameInv
<1>8. CASE Top = "b_publish"
  <2>0. loc[1] \in Nat
    BY <1>a, <1>8 DEF FrameOK
  <2>1. /\ Goto("b_draining")
        /\ drain_deadline' = IF drain_deadline = None \/ loc[1] < drain_deadline
                             THEN loc[1] ELSE drain_deadline
        /\ UNCHANGED <<draining, drain_started, bridge_drain_active, shutdown_committed, shutdown_deadline_candidates>>
        /\ loc' = loc
        /\ promised' = promised
    BY <1>8, <1>a, <2>0 DEF BeginStep, Step, stop_order, stop_recheck
  <2>2. /\ depth' = 1 /\ pc'[1] = ("b_draining")
        /\ pc' \in [1..MaxDepth -> PC] /\ arg' = arg
        /\ \A l \in 1..MaxDepth : l # 1 => pc'[l] = pc[l]
    BY <1>0, <1>a, <1>8, <2>1, GotoFacts DEF PC, BeginPC, StopPC
  <2>3. CoreTypeOK'
    BY <1>0, <1>a, <1>b, <2>1, <2>2, <2>0, ConstantsAssumption DEF flags, CoreTypeOK, Deadline
  <2>4. FrameOK(1)'
    BY <1>a, <1>b, <1>8, <2>1, <2>2, <2>0, ConstantsAssumption
       DEF flags, FrameOK, CommittedInv, StartedHasDeadline, Covered, Published, Deadline,
           CandidateStages, PromotedStages, FastStages, PublishedStages, TokenCleared
  <2>5. CommittedInv' /\ StartedHasDeadline' /\ PromisedDeadlineKept'
    <3>1. drain_deadline' \in Nat /\ drain_deadline' \in Published'
      BY <1>b, <2>0, <2>1, ConstantsAssumption DEF Deadline, Published
    <3>2. \A d \in Published : \E e \in Published' : e <= d
      <4> TAKE d \in Published
      <4>1. CASE d \in shutdown_deadline_candidates
        BY <1>b, <2>1, <4>1 DEF Published
      <4>2. CASE d \notin shutdown_deadline_candidates
        <5>1. d = drain_deadline /\ drain_deadline # None
          BY <4>2 DEF Published
        <5>2. drain_deadline' <= d
          BY <1>b, <2>0, <2>1, <5>1 DEF Deadline
        <5> QED
          BY <3>1, <5>2
      <4> QED
        BY <4>1, <4>2
    <3>3. PromisedDeadlineKept'
      <4> SUFFICES ASSUME NEW p \in promised PROVE \E e \in Published' : e <= p
        BY <2>1 DEF PromisedDeadlineKept
      <4>1. PICK d \in Published : d <= p
        BY DEF PromisedDeadlineKept
      <4>2. PICK e \in Published' : e <= d
        BY <3>2
      <4>3. e \in Nat /\ d \in Nat /\ p \in Nat
        BY <1>b, <2>1, <3>1 DEF CoreTypeOK, Published
      <4> QED
        BY <4>1, <4>2, <4>3
    <3>4. Covered'
      BY <2>2 DEF Covered, PublishedStages
    <3> QED
      BY <2>1, <3>1, <3>3, <3>4 DEF CommittedInv, StartedHasDeadline
  <2> QED
    BY <1>a, <2>2, <2>3, <2>4, <2>5, BottomOthers DEF FrameInv
<1>9. CASE Top = "b_started"
  <2>1. /\ Goto("b_effective")
        /\ drain_started' = TRUE /\ UNCHANGED <<draining, drain_deadline, bridge_drain_active, shutdown_committed, shutdown_deadline_candidates>>
        /\ loc' = loc
        /\ promised' = promised
    BY <1>9 DEF BeginStep, Step, stop_order, stop_recheck
  <2>2. /\ depth' = 1 /\ pc'[1] = ("b_effective")
        /\ pc' \in [1..MaxDepth -> PC] /\ arg' = arg
        /\ \A l \in 1..MaxDepth : l # 1 => pc'[l] = pc[l]
    BY <1>0, <1>a, <1>9, <2>1, GotoFacts DEF PC, BeginPC, StopPC
  <2>3. CoreTypeOK'
    BY <1>0, <1>a, <1>b, <2>1, <2>2, ConstantsAssumption DEF flags, CoreTypeOK, Deadline
  <2>4. FrameOK(1)'
    BY <1>a, <1>b, <1>9, <2>1, <2>2, ConstantsAssumption
       DEF flags, FrameOK, CommittedInv, StartedHasDeadline, Covered, Published, Deadline,
           CandidateStages, PromotedStages, FastStages, PublishedStages, TokenCleared
  <2>5. CommittedInv' /\ StartedHasDeadline' /\ PromisedDeadlineKept'
    BY <1>a, <1>b, <1>9, <2>1, <2>2, ConstantsAssumption
       DEF flags, CommittedInv, StartedHasDeadline, PromisedDeadlineKept, FrameOK, Covered,
           Published, Deadline, CandidateStages, PromotedStages, FastStages, PublishedStages, TokenCleared
  <2> QED
    BY <1>a, <2>2, <2>3, <2>4, <2>5, BottomOthers DEF FrameInv
<1>10. CASE Top = "b_effective"
  <2>0. /\ Published # {} /\ effective_drain_deadline \in Published
        /\ effective_drain_deadline # None
        /\ \A d \in Published : effective_drain_deadline <= d
    <3>1. Published # {}
      BY <1>a, <1>b, <1>10, ConstantsAssumption DEF FrameOK, FastStages, PublishedStages, Published
    <3> QED
      BY <3>1, EffectiveIsLeast
  <2>1. /\ Goto("b_promote")
        /\ UNCHANGED flags
        /\ loc' = [loc EXCEPT ![1] = effective_drain_deadline]
        /\ promised' = promised
    BY <1>10, <1>a, <2>0 DEF BeginStep, Step, stop_order, stop_recheck
  <2>2. /\ depth' = 1 /\ pc'[1] = ("b_promote")
        /\ pc' \in [1..MaxDepth -> PC] /\ arg' = arg
        /\ \A l \in 1..MaxDepth : l # 1 => pc'[l] = pc[l]
    BY <1>0, <1>a, <1>10, <2>1, GotoFacts DEF PC, BeginPC, StopPC
  <2>3. CoreTypeOK'
    BY <1>0, <1>a, <1>b, <2>1, <2>2, <2>0, ConstantsAssumption DEF flags, CoreTypeOK, Deadline
  <2>4. FrameOK(1)'
    <3>1. loc'[1] = effective_drain_deadline
      BY <1>a, <2>1 DEF CoreTypeOK
    <3>2. drain_deadline \in Nat /\ drain_deadline \in Published
      BY <1>a, <1>10, ConstantsAssumption DEF FrameOK, PublishedStages, Published
    <3> QED
      BY <1>b, <2>0, <2>1, <2>2, <3>1, <3>2
         DEF flags, FrameOK, CandidateStages, PromotedStages, FastStages, PublishedStages,
             TokenCleared
  <2>5. CommittedInv' /\ StartedHasDeadline' /\ PromisedDeadlineKept'
    BY <1>a, <1>b, <1>10, <2>1, <2>2, <2>0, ConstantsAssumption
       DEF flags, CommittedInv, StartedHasDeadline, PromisedDeadlineKept, FrameOK, Covered,
           Published, Deadline, CandidateStages, PromotedStages, FastStages, PublishedStages, TokenCleared
  <2> QED
    BY <1>a, <2>2, <2>3, <2>4, <2>5, BottomOthers DEF FrameInv
<1>11. CASE Top = "b_promote"
  <2>0. loc[1] \in Nat /\ loc[1] <= drain_deadline /\ drain_deadline \in Nat
    BY <1>a, <1>11 DEF FrameOK, PublishedStages
  <2>1. /\ Pop
        /\ IF shutdown_committed
           THEN /\ shutdown_deadline_candidates' = shutdown_deadline_candidates \cup {loc[1]}
                /\ promised' = promised \cup {loc[1]}
           ELSE UNCHANGED <<shutdown_deadline_candidates, promised>>
        /\ UNCHANGED <<draining, drain_deadline, drain_started, bridge_drain_active, shutdown_committed>>
    BY <1>11, <1>a, <2>0 DEF BeginStep, ReturnEffective
  <2>2. /\ depth' = 0 /\ pc'[1] = "none" /\ loc' = loc
        /\ pc' \in [1..MaxDepth -> PC] /\ arg' = arg
        /\ \A l \in 1..MaxDepth : l # 1 => pc'[l] = pc[l]
    BY <1>0, <1>a, <2>1, PopFacts
  <2>3. CoreTypeOK'
    <3>1. shutdown_deadline_candidates' \in SUBSET Nat /\ promised' \in SUBSET Nat
      BY <2>0, <2>1 DEF CoreTypeOK
    <3> QED
      BY <1>0, <2>1, <2>2, <3>1, ConstantsAssumption DEF CoreTypeOK
  <2>4. FrameOK(1)'
    BY <1>a, <2>2 DEF FrameOK, CandidateStages, PromotedStages, FastStages, PublishedStages, TokenCleared
  <2>5. CommittedInv' /\ StartedHasDeadline' /\ PromisedDeadlineKept'
    <3>1. Published \subseteq Published'
      BY <2>1 DEF Published
    <3>2. shutdown_committed => Covered' /\ loc[1] \in Published'
      BY <2>0, <2>1 DEF Covered, Published
    <3>3. PromisedDeadlineKept'
      BY <2>0, <2>1, <3>1, <3>2 DEF PromisedDeadlineKept
    <3> QED
      BY <2>1, <3>1, <3>2, <3>3 DEF CommittedInv, StartedHasDeadline
  <2> QED
    BY <1>a, <2>2, <2>3, <2>4, <2>5, BottomOthers DEF FrameInv
<1> QED
  BY <1>0, <1>1, <1>2, <1>3, <1>4, <1>5, <1>6, <1>7, <1>8, <1>9, <1>10, <1>11 DEF BeginStep

(* stop_drain preserves the invariant. *)
LEMMA StopStepIInv == ASSUME IInv, StopStep PROVE IInv'
<1> USE DEF IInv
<1>0. /\ depth > 0 /\ depth \in 1..MaxDepth /\ Top = pc[depth] /\ now' = now
  BY ConstantsAssumption DEF StopStep, CoreTypeOK, Top, Rest
<1>a. /\ depth = 1 /\ 1 \in 1..MaxDepth /\ Top = pc[1] /\ FrameOK(1)
      /\ \A l \in 1..MaxDepth : l # 1 => pc[l] = "none"
  <2>1. pc[depth] \notin CommitPC /\ pc[depth] # "none"
    BY <1>0 DEF StopStep, CommitPC
  <2> QED
    BY <1>0, <2>1, BottomRely DEF FrameInv
<1>b. /\ shutdown_deadline_candidates \in SUBSET Nat
      /\ Published \in SUBSET Nat
      /\ loc[1] \in Deadline /\ drain_deadline \in Deadline
  BY <1>a, ConstantsAssumption DEF CoreTypeOK, Published, Deadline
<1>1. CASE Top = "t_test" /\ shutdown_committed
  <2>1. /\ Pop
        /\ UNCHANGED <<flags, promised>>
    BY <1>1 DEF StopStep, ReturnEffective
  <2>2. /\ depth' = 0 /\ pc'[1] = "none" /\ loc' = loc
        /\ pc' \in [1..MaxDepth -> PC] /\ arg' = arg
        /\ \A l \in 1..MaxDepth : l # 1 => pc'[l] = pc[l]
    BY <1>0, <1>a, <2>1, PopFacts
  <2>3. CoreTypeOK'
    BY <1>0, <1>a, <1>b, <2>1, <2>2, ConstantsAssumption DEF flags, CoreTypeOK, Deadline
  <2>4. FrameOK(1)'
    BY <1>a, <2>2 DEF FrameOK, CandidateStages, PromotedStages, FastStages, PublishedStages, TokenCleared
  <2>5. CommittedInv' /\ StartedHasDeadline' /\ PromisedDeadlineKept'
    BY <1>a, <1>b, <1>1, <2>1, <2>2, ConstantsAssumption
       DEF flags, CommittedInv, StartedHasDeadline, PromisedDeadlineKept, FrameOK, Covered,
           Published, Deadline, CandidateStages, PromotedStages, FastStages, PublishedStages, TokenCleared
  <2> QED
    BY <1>a, <2>2, <2>3, <2>4, <2>5, BottomOthers DEF FrameInv
<1>2. CASE Top = "t_test" /\ ~shutdown_committed
  <2>1. /\ Goto("t_started")
        /\ UNCHANGED flags
        /\ loc' = loc
        /\ promised' = promised
    BY <1>2 DEF StopStep, Step, stop_order, stop_recheck
  <2>2. /\ depth' = 1 /\ pc'[1] = ("t_started")
        /\ pc' \in [1..MaxDepth -> PC] /\ arg' = arg
        /\ \A l \in 1..MaxDepth : l # 1 => pc'[l] = pc[l]
    BY <1>0, <1>a, <1>2, <2>1, GotoFacts DEF PC, BeginPC, StopPC
  <2>3. CoreTypeOK'
    BY <1>0, <1>a, <1>b, <2>1, <2>2, ConstantsAssumption DEF flags, CoreTypeOK, Deadline
  <2>4. FrameOK(1)'
    BY <1>a, <1>b, <1>2, <2>1, <2>2, ConstantsAssumption
       DEF flags, FrameOK, CommittedInv, StartedHasDeadline, Covered, Published, Deadline,
           CandidateStages, PromotedStages, FastStages, PublishedStages, TokenCleared
  <2>5. CommittedInv' /\ StartedHasDeadline' /\ PromisedDeadlineKept'
    BY <1>a, <1>b, <1>2, <2>1, <2>2, ConstantsAssumption
       DEF flags, CommittedInv, StartedHasDeadline, PromisedDeadlineKept, FrameOK, Covered,
           Published, Deadline, CandidateStages, PromotedStages, FastStages, PublishedStages, TokenCleared
  <2> QED
    BY <1>a, <2>2, <2>3, <2>4, <2>5, BottomOthers DEF FrameInv
<1>3. CASE Top = "t_started"
  <2>1. /\ Goto("t_draining")
        /\ drain_started' = FALSE /\ UNCHANGED <<draining, drain_deadline, bridge_drain_active, shutdown_committed, shutdown_deadline_candidates>>
        /\ loc' = loc
        /\ promised' = promised
    BY <1>3 DEF StopStep, Step, stop_order, stop_recheck
  <2>2. /\ depth' = 1 /\ pc'[1] = ("t_draining")
        /\ pc' \in [1..MaxDepth -> PC] /\ arg' = arg
        /\ \A l \in 1..MaxDepth : l # 1 => pc'[l] = pc[l]
    BY <1>0, <1>a, <1>3, <2>1, GotoFacts DEF PC, BeginPC, StopPC
  <2>3. CoreTypeOK'
    BY <1>0, <1>a, <1>b, <2>1, <2>2, ConstantsAssumption DEF flags, CoreTypeOK, Deadline
  <2>4. FrameOK(1)'
    BY <1>a, <1>b, <1>3, <2>1, <2>2, ConstantsAssumption
       DEF flags, FrameOK, CommittedInv, StartedHasDeadline, Covered, Published, Deadline,
           CandidateStages, PromotedStages, FastStages, PublishedStages, TokenCleared
  <2>5. CommittedInv' /\ StartedHasDeadline' /\ PromisedDeadlineKept'
    BY <1>a, <1>b, <1>3, <2>1, <2>2, ConstantsAssumption
       DEF flags, CommittedInv, StartedHasDeadline, PromisedDeadlineKept, FrameOK, Covered,
           Published, Deadline, CandidateStages, PromotedStages, FastStages, PublishedStages, TokenCleared
  <2> QED
    BY <1>a, <2>2, <2>3, <2>4, <2>5, BottomOthers DEF FrameInv
<1>4. CASE Top = "t_draining"
  <2>1. /\ Goto("t_deadline")
        /\ draining' = FALSE /\ UNCHANGED <<drain_deadline, drain_started, bridge_drain_active, shutdown_committed, shutdown_deadline_candidates>>
        /\ loc' = loc
        /\ promised' = promised
    BY <1>4 DEF StopStep, Step, stop_order, stop_recheck
  <2>2. /\ depth' = 1 /\ pc'[1] = ("t_deadline")
        /\ pc' \in [1..MaxDepth -> PC] /\ arg' = arg
        /\ \A l \in 1..MaxDepth : l # 1 => pc'[l] = pc[l]
    BY <1>0, <1>a, <1>4, <2>1, GotoFacts DEF PC, BeginPC, StopPC
  <2>3. CoreTypeOK'
    BY <1>0, <1>a, <1>b, <2>1, <2>2, ConstantsAssumption DEF flags, CoreTypeOK, Deadline
  <2>4. FrameOK(1)'
    BY <1>a, <1>b, <1>4, <2>1, <2>2, ConstantsAssumption
       DEF flags, FrameOK, CommittedInv, StartedHasDeadline, Covered, Published, Deadline,
           CandidateStages, PromotedStages, FastStages, PublishedStages, TokenCleared
  <2>5. CommittedInv' /\ StartedHasDeadline' /\ PromisedDeadlineKept'
    BY <1>a, <1>b, <1>4, <2>1, <2>2, ConstantsAssumption
       DEF flags, CommittedInv, StartedHasDeadline, PromisedDeadlineKept, FrameOK, Covered,
           Published, Deadline, CandidateStages, PromotedStages, FastStages, PublishedStages, TokenCleared
  <2> QED
    BY <1>a, <2>2, <2>3, <2>4, <2>5, BottomOthers DEF FrameInv
<1>5. CASE Top = "t_deadline"
  <2>1. /\ Goto("t_bridge")
        /\ drain_deadline' = None /\ UNCHANGED <<draining, drain_started, bridge_drain_active, shutdown_committed, shutdown_deadline_candidates>>
        /\ loc' = loc
        /\ promised' = promised
    BY <1>5 DEF StopStep, Step, stop_order, stop_recheck
  <2>2. /\ depth' = 1 /\ pc'[1] = ("t_bridge")
        /\ pc' \in [1..MaxDepth -> PC] /\ arg' = arg
        /\ \A l \in 1..MaxDepth : l # 1 => pc'[l] = pc[l]
    BY <1>0, <1>a, <1>5, <2>1, GotoFacts DEF PC, BeginPC, StopPC
  <2>3. CoreTypeOK'
    BY <1>0, <1>a, <1>b, <2>1, <2>2, ConstantsAssumption DEF flags, CoreTypeOK, Deadline
  <2>4. FrameOK(1)'
    BY <1>a, <1>b, <1>5, <2>1, <2>2, ConstantsAssumption
       DEF flags, FrameOK, CommittedInv, StartedHasDeadline, Covered, Published, Deadline,
           CandidateStages, PromotedStages, FastStages, PublishedStages, TokenCleared
  <2>5. CommittedInv' /\ StartedHasDeadline' /\ PromisedDeadlineKept'
    <3>1. Published' = shutdown_deadline_candidates
      BY <2>1 DEF Published
    <3>2. shutdown_committed =>
             \A d \in Published : \E c \in shutdown_deadline_candidates : c <= d
      <4> SUFFICES ASSUME shutdown_committed, NEW d \in Published
                   PROVE  \E c \in shutdown_deadline_candidates : c <= d
        OBVIOUS
      <4>1. CASE d \in shutdown_deadline_candidates
        BY <1>b, <4>1
      <4>2. CASE d \notin shutdown_deadline_candidates
        <5>1. drain_deadline # None /\ d = drain_deadline
          BY <4>2 DEF Published
        <5> QED
          BY <1>a, <1>5, <5>1 DEF CommittedInv, Covered, PublishedStages
      <4> QED
        BY <4>1, <4>2
    <3>3. PromisedDeadlineKept'
      <4> SUFFICES ASSUME NEW p \in promised
                   PROVE  \E c \in shutdown_deadline_candidates : c <= p
        BY <2>1, <3>1 DEF PromisedDeadlineKept
      <4>1. PICK d \in Published : d <= p
        BY DEF PromisedDeadlineKept
      <4>2. PICK c \in shutdown_deadline_candidates : c <= d
        BY <3>2 DEF CommittedInv
      <4>3. c \in Nat /\ d \in Nat /\ p \in Nat
        BY <1>b DEF CoreTypeOK
      <4> QED
        BY <4>1, <4>2, <4>3
    <3>4. StartedHasDeadline'
      BY <1>a, <1>5, <2>1, <3>1 DEF StartedHasDeadline, FrameOK, TokenCleared
    <3> QED
      BY <2>1, <3>3, <3>4 DEF CommittedInv, Covered
  <2> QED
    BY <1>a, <2>2, <2>3, <2>4, <2>5, BottomOthers DEF FrameInv
<1>6. CASE Top = "t_bridge"
  <2>1. /\ Goto("t_recheck")
        /\ bridge_drain_active' = FALSE /\ UNCHANGED <<draining, drain_deadline, drain_started, shutdown_committed, shutdown_deadline_candidates>>
        /\ loc' = loc
        /\ promised' = promised
    BY <1>6 DEF StopStep, Step, stop_order, stop_recheck
  <2>2. /\ depth' = 1 /\ pc'[1] = ("t_recheck")
        /\ pc' \in [1..MaxDepth -> PC] /\ arg' = arg
        /\ \A l \in 1..MaxDepth : l # 1 => pc'[l] = pc[l]
    BY <1>0, <1>a, <1>6, <2>1, GotoFacts DEF PC, BeginPC, StopPC
  <2>3. CoreTypeOK'
    BY <1>0, <1>a, <1>b, <2>1, <2>2, ConstantsAssumption DEF flags, CoreTypeOK, Deadline
  <2>4. FrameOK(1)'
    BY <1>a, <1>b, <1>6, <2>1, <2>2, ConstantsAssumption
       DEF flags, FrameOK, CommittedInv, StartedHasDeadline, Covered, Published, Deadline,
           CandidateStages, PromotedStages, FastStages, PublishedStages, TokenCleared
  <2>5. CommittedInv' /\ StartedHasDeadline' /\ PromisedDeadlineKept'
    BY <1>a, <1>b, <1>6, <2>1, <2>2, ConstantsAssumption
       DEF flags, CommittedInv, StartedHasDeadline, PromisedDeadlineKept, FrameOK, Covered,
           Published, Deadline, CandidateStages, PromotedStages, FastStages, PublishedStages, TokenCleared
  <2> QED
    BY <1>a, <2>2, <2>3, <2>4, <2>5, BottomOthers DEF FrameInv
<1>7. CASE Top = "t_recheck"
  <2>0. stop_recheck = IF shutdown_committed THEN "t_restore" ELSE "t_return"
    BY DEF stop_recheck, CommittedInv, CoreTypeOK
  <2>1. /\ Goto(IF shutdown_committed THEN "t_restore" ELSE "t_return")
        /\ UNCHANGED flags
        /\ loc' = loc
        /\ promised' = promised
    BY <1>7, <2>0 DEF StopStep, Step, stop_order, stop_recheck
  <2>2. /\ depth' = 1 /\ pc'[1] = (IF shutdown_committed THEN "t_restore" ELSE "t_return")
        /\ pc' \in [1..MaxDepth -> PC] /\ arg' = arg
        /\ \A l \in 1..MaxDepth : l # 1 => pc'[l] = pc[l]
    BY <1>0, <1>a, <1>7, <2>1, GotoFacts DEF PC, BeginPC, StopPC
  <2>3. CoreTypeOK'
    BY <1>0, <1>a, <1>b, <2>1, <2>2, <2>0, ConstantsAssumption DEF flags, CoreTypeOK, Deadline
  <2>4. FrameOK(1)'
    BY <1>a, <1>b, <1>7, <2>1, <2>2, <2>0, ConstantsAssumption
       DEF flags, FrameOK, CommittedInv, StartedHasDeadline, Covered, Published, Deadline,
           CandidateStages, PromotedStages, FastStages, PublishedStages, TokenCleared
  <2>5. CommittedInv' /\ StartedHasDeadline' /\ PromisedDeadlineKept'
    BY <1>a, <1>b, <1>7, <2>1, <2>2, <2>0, ConstantsAssumption
       DEF flags, CommittedInv, StartedHasDeadline, PromisedDeadlineKept, FrameOK, Covered,
           Published, Deadline, CandidateStages, PromotedStages, FastStages, PublishedStages, TokenCleared
  <2> QED
    BY <1>a, <2>2, <2>3, <2>4, <2>5, BottomOthers DEF FrameInv
<1>8. CASE Top = "t_restore"
  <2>1. /\ Goto("t_return")
        /\ drain_started' = TRUE /\ UNCHANGED <<draining, drain_deadline, bridge_drain_active, shutdown_committed, shutdown_deadline_candidates>>
        /\ loc' = loc
        /\ promised' = promised
    BY <1>8 DEF StopStep, Step, stop_order, stop_recheck
  <2>2. /\ depth' = 1 /\ pc'[1] = ("t_return")
        /\ pc' \in [1..MaxDepth -> PC] /\ arg' = arg
        /\ \A l \in 1..MaxDepth : l # 1 => pc'[l] = pc[l]
    BY <1>0, <1>a, <1>8, <2>1, GotoFacts DEF PC, BeginPC, StopPC
  <2>3. CoreTypeOK'
    BY <1>0, <1>a, <1>b, <2>1, <2>2, ConstantsAssumption DEF flags, CoreTypeOK, Deadline
  <2>4. FrameOK(1)'
    BY <1>a, <1>b, <1>8, <2>1, <2>2, ConstantsAssumption
       DEF flags, FrameOK, CommittedInv, StartedHasDeadline, Covered, Published, Deadline,
           CandidateStages, PromotedStages, FastStages, PublishedStages, TokenCleared
  <2>5. CommittedInv' /\ StartedHasDeadline' /\ PromisedDeadlineKept'
    BY <1>a, <1>b, <1>8, <2>1, <2>2, ConstantsAssumption
       DEF flags, CommittedInv, StartedHasDeadline, PromisedDeadlineKept, FrameOK, Covered,
           Published, Deadline, CandidateStages, PromotedStages, FastStages, PublishedStages, TokenCleared
  <2> QED
    BY <1>a, <2>2, <2>3, <2>4, <2>5, BottomOthers DEF FrameInv
<1>9. CASE Top = "t_return"
  <2>1. /\ Pop
        /\ UNCHANGED <<flags, promised>>
    BY <1>9 DEF StopStep, ReturnEffective
  <2>2. /\ depth' = 0 /\ pc'[1] = "none" /\ loc' = loc
        /\ pc' \in [1..MaxDepth -> PC] /\ arg' = arg
        /\ \A l \in 1..MaxDepth : l # 1 => pc'[l] = pc[l]
    BY <1>0, <1>a, <2>1, PopFacts
  <2>3. CoreTypeOK'
    BY <1>0, <1>a, <1>b, <2>1, <2>2, ConstantsAssumption DEF flags, CoreTypeOK, Deadline
  <2>4. FrameOK(1)'
    BY <1>a, <2>2 DEF FrameOK, CandidateStages, PromotedStages, FastStages, PublishedStages, TokenCleared
  <2>5. CommittedInv' /\ StartedHasDeadline' /\ PromisedDeadlineKept'
    BY <1>a, <1>b, <1>9, <2>1, <2>2, ConstantsAssumption
       DEF flags, CommittedInv, StartedHasDeadline, PromisedDeadlineKept, FrameOK, Covered,
           Published, Deadline, CandidateStages, PromotedStages, FastStages, PublishedStages, TokenCleared
  <2> QED
    BY <1>a, <2>2, <2>3, <2>4, <2>5, BottomOthers DEF FrameInv
<1> QED
  BY <1>0, <1>1, <1>2, <1>3, <1>4, <1>5, <1>6, <1>7, <1>8, <1>9 DEF StopStep

(* Admission touches no flag; its frame relies on nothing. *)
LEMMA AdmitStepIInv == ASSUME IInv, NEW r \in Requests, AdmitStep(r) PROVE IInv'
<1> USE DEF IInv
<1>0. /\ depth > 0 /\ depth \in 1..MaxDepth /\ Top = pc[depth]
      /\ now' = now /\ UNCHANGED flags /\ promised' = promised
  BY ConstantsAssumption DEF AdmitStep, CoreTypeOK, Top, Step
<1>a. /\ depth = 1 /\ 1 \in 1..MaxDepth /\ pc[1] \in {"a_register", "a_check"}
      /\ \A l \in 1..MaxDepth : l # 1 => pc[l] = "none"
  <2>1. pc[depth] \in {"a_register", "a_check"}
    BY <1>0 DEF AdmitStep
  <2> QED
    BY <1>0, <2>1, BottomRely DEF CommitPC
<1>1. /\ depth' \in {0, 1} /\ loc' = loc /\ arg' = arg
      /\ pc' \in [1..MaxDepth -> PC] /\ pc'[1] \in {"a_check", "none"}
      /\ depth' = 0 => pc'[1] = "none"
      /\ \A l \in 1..MaxDepth : l # 1 => pc'[l] = pc[l]
  <2>1. CASE Top = "a_register"
    <3>1. Goto("a_check") /\ loc' = loc
      BY <2>1 DEF AdmitStep, Step
    <3> QED
      BY <1>0, <1>a, <3>1, GotoFacts DEF PC, AdmitPC
  <2>2. CASE Top = "a_check"
    <3>1. Pop
      BY <2>2 DEF AdmitStep
    <3> QED
      BY <1>0, <1>a, <3>1, PopFacts
  <2> QED
    BY <1>0, <1>a, <2>1, <2>2
<1>2. Published' = Published /\ Covered' = Covered
  BY <1>0, <1>1, <1>a DEF flags, Published, Covered, PublishedStages
<1>3. FrameOK(1)'
  BY <1>1 DEF FrameOK, CandidateStages, PromotedStages, FastStages, PublishedStages, TokenCleared
<1>4. CoreTypeOK'
  BY <1>0, <1>1, ConstantsAssumption DEF flags, CoreTypeOK
<1>5. FrameInv'
  BY <1>1, <1>3, <1>a, BottomOthers DEF FrameInv
<1> QED
  BY <1>0, <1>2, <1>4, <1>5
     DEF flags, CommittedInv, StartedHasDeadline, PromisedDeadlineKept

(* A reset happens with no frame on the stack. *)
LEMMA ResetIInv ==
    ASSUME IInv, reset, depth = 0, UNCHANGED <<now, frames>>
    PROVE  IInv'
<1> USE DEF IInv
<1>1. Published' = {} /\ Covered'
  BY DEF reset, Published, Covered
<1>2. FrameInv'
  <2> SUFFICES ASSUME NEW l \in 1..MaxDepth PROVE FrameOK(l)'
    BY DEF FrameInv
  <2>1. pc'[l] = "none"
    BY DEF FrameInv, FrameOK, frames
  <2> QED
    BY <2>1 DEF FrameOK, CandidateStages, PromotedStages, FastStages, PublishedStages, TokenCleared
<1>3. CoreTypeOK'
  BY DEF reset, frames, CoreTypeOK, Deadline
<1> QED
  BY <1>1, <1>2, <1>3 DEF reset, CommittedInv, StartedHasDeadline, PromisedDeadlineKept

(* Every step of the event loop and of the signal handlers preserves the invariant. *)
LEMMA NextIInv == IInv /\ [Next]_vars => IInv'
<1> SUFFICES ASSUME IInv, [Next]_vars PROVE IInv'
  OBVIOUS
<1>0. now \in Nat /\ None \in Deadline
  BY DEF IInv, CoreTypeOK, Deadline
<1>1. CASE CommitStep
  BY <1>1, CommitStepIInv
<1>2. CASE BeginStep
  BY <1>2, BeginStepIInv
<1>3. CASE StopStep
  BY <1>3, StopStepIInv
<1>4. CASE \E r \in Requests : AdmitStep(r)
  BY <1>4, AdmitStepIInv
<1>5. CASE begin_drain
  BY <1>0, <1>5, PushStep DEF begin_drain, MainCall
<1>6. CASE stop_drain
  BY <1>0, <1>6, PushStep DEF stop_drain, MainCall
<1>7. CASE handle_exit
  BY <1>0, <1>7, PushStep DEF handle_exit
<1>8. CASE shutdown
  BY <1>0, <1>8, PushStep DEF shutdown, MainCall
<1>9. CASE \E d \in HeaderDeadlines : start_internal_drain(d)
  <2>1. PICK d \in HeaderDeadlines : start_internal_drain(d)
    BY <1>9
  <2>2. d \in Deadline
    BY ConstantsAssumption DEF Deadline
  <2> QED
    BY <2>1, <2>2, PushStep DEF start_internal_drain, MainCall
<1>10. CASE prepare_server_start
  BY <1>10, ResetIInv DEF prepare_server_start
<1>11. CASE prepare_lifespan_start
  BY <1>0, <1>11, ResetIInv, QuietStep DEF prepare_lifespan_start
<1>12. CASE mark_lifespan_completed
  BY <1>0, <1>12, QuietStep DEF mark_lifespan_completed
<1>13. CASE \E r \in Requests, kind \in Kinds : Arrive(r, kind)
  BY <1>0, <1>13, PushStep DEF Arrive
<1>14. CASE \E r \in Requests : Finish(r)
  BY <1>0, <1>14, QuietStep DEF Finish
<1>15. CASE WaitStart \/ WaitPoll
  BY <1>0, <1>15, QuietStep DEF WaitStart, WaitPoll
<1>16. CASE Tick
  BY <1>0, <1>16, QuietStep DEF Tick
<1>17. CASE UNCHANGED vars
  BY <1>0, <1>17, QuietStep DEF vars
<1> QED
  BY <1>1, <1>2, <1>3, <1>4, <1>5, <1>6, <1>7, <1>8, <1>9, <1>10, <1>11, <1>12, <1>13,
     <1>14, <1>15, <1>16, <1>17 DEF Next, FrameStep

(* The inductive invariant holds throughout every execution of the drain   *)
(* state machine.                                                          *)
LEMMA InvariantHolds == Spec => []IInv
BY InitIInv, NextIInv, PTL DEF Spec

-----------------------------------------------------------------------------
(* The rest of the type invariant, which needs the core's types only for   *)
(* the deadline a wait adopts.                                             *)
WorkTypeOK ==
    /\ in_flight \in Nat
    /\ rstate \in [Requests -> [at : Counted \cup {"new", "arriving", "rejected",
                                                   "untracked", "done"},
                                kind : Kinds]]

StartupTypeOK ==
    /\ server_start_pending \in BOOLEAN /\ lifespan_completed \in BOOLEAN
    /\ phase \in {"off", "prepared", "running", "closing"}
    /\ signals \in [on : BOOLEAN, count : Nat, lives : Nat]

WaitTypeOK ==
    /\ waiter \in {"none", "starting", "waiting", "drained", "timeout", "aborted"}
    /\ wait_deadline \in Deadline
    /\ waiter = "waiting" => wait_deadline \in Nat

EnvTypeOK == WorkTypeOK /\ StartupTypeOK /\ WaitTypeOK

(* A round of wait_for_in_flight_drain keeps a numeric deadline. *)
LEMMA WaitRoundType ==
    ASSUME IInv, EnvTypeOK, NEW d \in Nat, WaitRound(d)
    PROVE  WaitTypeOK'
<1>1. effective_drain_deadline \in Nat \cup {None}
  BY EffectiveIsLeast, ConstantsAssumption
     DEF IInv, CoreTypeOK, effective_drain_deadline, Published, Deadline
<1> QED
  BY <1>1 DEF WaitRound, EnvTypeOK, WaitTypeOK, Deadline

(* Arrivals, admissions, lifecycles and waits keep the other variables in  *)
(* their types.                                                            *)
LEMMA NextEnvType == IInv /\ EnvTypeOK /\ [Next]_vars => EnvTypeOK'
<1> SUFFICES ASSUME IInv, EnvTypeOK, [Next]_vars PROVE EnvTypeOK'
  OBVIOUS
<1> USE DEF EnvTypeOK
<1>1. CASE CommitStep \/ BeginStep \/ StopStep
  BY <1>1 DEF CommitStep, BeginStep, StopStep, Rest, startup, work, waiting,
              WorkTypeOK, StartupTypeOK, WaitTypeOK
<1>2. CASE \E r \in Requests : AdmitStep(r)
  <2>1. PICK r \in Requests : AdmitStep(r)
    BY <1>2
  <2>2. WorkTypeOK'
    BY <2>1 DEF AdmitStep, WorkTypeOK, decrement_in_flight, Counted
  <2> QED
    BY <2>1, <2>2 DEF AdmitStep, startup, waiting, StartupTypeOK, WaitTypeOK
<1>3. CASE begin_drain \/ stop_drain \/ Tick \/ \E d \in HeaderDeadlines : start_internal_drain(d)
  BY <1>3 DEF begin_drain, stop_drain, start_internal_drain, Tick, startup, work, waiting,
              WorkTypeOK, StartupTypeOK, WaitTypeOK
<1>4. CASE handle_exit
  BY <1>4 DEF handle_exit, work, waiting, WorkTypeOK, StartupTypeOK, WaitTypeOK
<1>5. CASE shutdown
  BY <1>5 DEF shutdown, work, WorkTypeOK, StartupTypeOK, WaitTypeOK
<1>6. CASE prepare_server_start \/ prepare_lifespan_start
  <2>1. WorkTypeOK'
    BY <1>6 DEF prepare_server_start, prepare_lifespan_start, reset, WorkTypeOK
  <2>2. WaitTypeOK'
    BY <1>6 DEF prepare_server_start, prepare_lifespan_start, waiting, WaitTypeOK
  <2>3. signals' \in [on : BOOLEAN, count : Nat, lives : Nat]
    <3>1. CASE prepare_server_start
      <4>1. signals.count \in Nat /\ signals.lives \in Nat
        BY DEF StartupTypeOK
      <4>2. signals' = [on |-> TRUE, count |-> signals.count, lives |-> signals.lives + 1]
        BY <3>1 DEF prepare_server_start, StartupTypeOK
      <4> QED
        BY <4>1, <4>2
    <3>2. CASE prepare_lifespan_start
      BY <3>2 DEF prepare_lifespan_start, StartupTypeOK
    <3> QED
      BY <1>6, <3>1, <3>2
  <2>4. lifespan_completed' \in BOOLEAN
    BY <1>6 DEF prepare_server_start, prepare_lifespan_start, reset, StartupTypeOK
  <2> QED
    BY <1>6, <2>1, <2>2, <2>3, <2>4
       DEF prepare_server_start, prepare_lifespan_start, StartupTypeOK
<1>7. CASE mark_lifespan_completed
  BY <1>7 DEF mark_lifespan_completed, WorkTypeOK, StartupTypeOK, WaitTypeOK, Deadline
<1>8. CASE \E r \in Requests, kind \in Kinds : Arrive(r, kind)
  BY <1>8 DEF Arrive, startup, waiting, WorkTypeOK, StartupTypeOK, WaitTypeOK
<1>9. CASE \E r \in Requests : Finish(r)
  BY <1>9 DEF Finish, decrement_in_flight, startup, waiting,
              WorkTypeOK, StartupTypeOK, WaitTypeOK
<1>10. CASE WaitStart \/ WaitPoll
  <2>1. now \in Nat /\ effective_drain_deadline \in Nat \cup {None}
    BY EffectiveIsLeast, ConstantsAssumption
       DEF IInv, CoreTypeOK, effective_drain_deadline, Published, Deadline
  <2>2. \E d \in Nat : WaitRound(d)
    BY <1>10, <2>1 DEF WaitStart, WaitPoll, WaitTypeOK
  <2>3. WaitTypeOK'
    BY <2>2, WaitRoundType
  <2> QED
    BY <1>10, <2>3 DEF WaitStart, WaitPoll, startup, work, WorkTypeOK, StartupTypeOK
<1>11. CASE UNCHANGED vars
  BY <1>11 DEF vars, startup, work, waiting, WorkTypeOK, StartupTypeOK, WaitTypeOK
<1> QED
  BY <1>1, <1>2, <1>3, <1>4, <1>5, <1>6, <1>7, <1>8, <1>9, <1>10, <1>11 DEF Next, FrameStep

(* The drain globals, the in-flight counter and the wait keep their types  *)
(* in every execution; the counter's decrements never take it below zero.  *)
THEOREM DrainTypeCorrect == Spec => []TypeOK
<1>1. Init => EnvTypeOK
  <2> SUFFICES ASSUME Init PROVE EnvTypeOK
    OBVIOUS
  <2>1. WorkTypeOK
    BY DEF Init, WorkTypeOK, Kinds, Counted
  <2>2. StartupTypeOK
    BY DEF Init, StartupTypeOK
  <2>3. WaitTypeOK
    BY DEF Init, WaitTypeOK, Deadline
  <2> QED
    BY <2>1, <2>2, <2>3 DEF EnvTypeOK
<1>2. IInv /\ EnvTypeOK => TypeOK
  BY DEF IInv, CoreTypeOK, EnvTypeOK, WorkTypeOK, StartupTypeOK, WaitTypeOK, TypeOK
<1> QED
  BY <1>1, <1>2, NextEnvType, InvariantHolds, PTL DEF Spec

(* Whatever bytecode of begin_drain, stop_drain or commit_shutdown a       *)
(* signal interrupts, and however deep signals nest, no assert fails.      *)
THEOREM AssertionsNeverFail == Spec => []NoAssertionFailure
<1>1. IInv => NoAssertionFailure
  BY ConstantsAssumption DEF IInv, FrameInv, FrameOK, CoreTypeOK, NoAssertionFailure
<1> QED
  BY <1>1, InvariantHolds, PTL

(* Between any two bytecodes, a process whose drain token is set has a     *)
(* drain deadline.                                                         *)
THEOREM StartedAlwaysHasDeadline == Spec => []StartedHasDeadline
<1>1. IInv => StartedHasDeadline
  BY DEF IInv
<1> QED
  BY <1>1, InvariantHolds, PTL

(* A deadline returned under a committed shutdown stays in force: nothing  *)
(* later extends or erases it.                                             *)
THEOREM PromisesAreKept == Spec => []PromisedDeadlineKept
<1>1. IInv => PromisedDeadlineKept
  BY DEF IInv
<1> QED
  BY <1>1, InvariantHolds, PTL

-----------------------------------------------------------------------------
(* Between the server's start and the lifespan's the pending mark is set,  *)
(* so that the lifespan does not wipe out a signal that came in between.   *)
PreparedPending == phase = "prepared" => server_start_pending

(* prepare_server_start sets the mark; only the lifespan clears it.        *)
LEMMA PreparedAlwaysPending == Spec => []PreparedPending
<1>1. Init => PreparedPending
  BY DEF Init, PreparedPending
<1>2. PreparedPending /\ [Next]_vars => PreparedPending'
  <2> SUFFICES ASSUME PreparedPending, [Next]_vars PROVE PreparedPending'
    OBVIOUS
  <2>1. CASE prepare_server_start \/ prepare_lifespan_start \/ mark_lifespan_completed \/ shutdown
    BY <2>1 DEF prepare_server_start, prepare_lifespan_start, mark_lifespan_completed,
                shutdown, PreparedPending
  <2>2. CASE \/ FrameStep \/ begin_drain \/ stop_drain \/ handle_exit
             \/ \E d \in HeaderDeadlines : start_internal_drain(d)
             \/ \E r \in Requests, kind \in Kinds : Arrive(r, kind)
             \/ \E r \in Requests : Finish(r)
             \/ WaitStart \/ WaitPoll \/ Tick \/ UNCHANGED vars
    <3>1. UNCHANGED <<phase, server_start_pending>>
      BY <2>2 DEF FrameStep, CommitStep, BeginStep, StopStep, AdmitStep, Rest, begin_drain,
                  stop_drain, handle_exit, start_internal_drain, Arrive, Finish, WaitStart,
                  WaitPoll, Tick, startup, vars
    <3> QED
      BY <3>1 DEF PreparedPending
  <2> QED
    BY <2>1, <2>2 DEF Next
<1> QED
  BY <1>1, <1>2, PTL DEF Spec

(* No published deadline gives way to a later one. *)
Kept == \A d \in Published : \E e \in Published' : e <= d

(* A step that only publishes deadlines keeps the earlier ones. *)
LEMMA KeptWhenGrown ==
    ASSUME IInv, Published \subseteq Published'
    PROVE  Kept
<1>1. Published \in SUBSET Nat
  BY DEF IInv, CoreTypeOK, Published, Deadline
<1> QED
  BY <1>1 DEF Kept

(* Under a committed shutdown no bytecode of begin_drain, stop_drain or    *)
(* commit_shutdown loses a deadline: when stop_drain erases the reversible *)
(* one, a committed candidate already covers it.                           *)
LEMMA FramesKeepDeadlines ==
    ASSUME IInv, shutdown_committed, FrameStep
    PROVE  shutdown_committed' /\ Kept
<1>1. CASE CommitStep
  <2>1. /\ shutdown_committed' /\ drain_deadline' = drain_deadline
        /\ shutdown_deadline_candidates \subseteq shutdown_deadline_candidates'
    BY <1>1 DEF CommitStep, flags, appended_candidates, promoted_candidates, Published
  <2> QED
    BY <2>1, KeptWhenGrown DEF Published
<1>2. CASE BeginStep
  <2>1. CASE Top = "b_publish"
    <3>1. depth \in 1..MaxDepth /\ loc[depth] \in Nat /\ drain_deadline \in Deadline
      BY <1>2, <2>1, ConstantsAssumption
         DEF BeginStep, Top, IInv, FrameInv, FrameOK, CoreTypeOK
    <3>2. /\ shutdown_committed'
          /\ shutdown_deadline_candidates' = shutdown_deadline_candidates
          /\ drain_deadline' = IF drain_deadline = None \/ loc[depth] < drain_deadline
                               THEN loc[depth] ELSE drain_deadline
      BY <1>2, <2>1 DEF BeginStep
    <3>3. shutdown_deadline_candidates \subseteq Nat
      BY DEF IInv, CoreTypeOK
    <3> QED
      BY <3>1, <3>2, <3>3, ConstantsAssumption DEF Kept, Published, Deadline
  <2>2. CASE Top # "b_publish"
    <3>1. /\ shutdown_committed' /\ drain_deadline' = drain_deadline
          /\ shutdown_deadline_candidates \subseteq shutdown_deadline_candidates'
      BY <1>2, <2>2 DEF BeginStep, flags
    <3> QED
      BY <3>1, KeptWhenGrown DEF Published
  <2> QED
    BY <2>1, <2>2
<1>3. CASE StopStep
  <2>1. CASE Top = "t_deadline"
    <3>1. depth \in 1..MaxDepth /\ pc[depth] = "t_deadline"
      BY <1>3, <2>1, ConstantsAssumption DEF StopStep, Top, IInv, CoreTypeOK
    <3>2. depth = 1
      BY <3>1, ConstantsAssumption DEF IInv, FrameInv, FrameOK, CommitPC
    <3>3. Covered
      BY DEF IInv, CommittedInv
    <3>4. drain_deadline # None => \E c \in shutdown_deadline_candidates : c <= drain_deadline
      BY <3>1, <3>2, <3>3 DEF Covered, PublishedStages
    <3>5. /\ shutdown_committed' /\ drain_deadline' = None
          /\ shutdown_deadline_candidates' = shutdown_deadline_candidates
      BY <1>3, <2>1 DEF StopStep
    <3>6. shutdown_deadline_candidates \subseteq Nat
      BY DEF IInv, CoreTypeOK
    <3> QED
      BY <3>4, <3>5, <3>6 DEF Kept, Published
  <2>2. CASE Top # "t_deadline"
    <3>1. /\ shutdown_committed' /\ drain_deadline' = drain_deadline
          /\ shutdown_deadline_candidates' = shutdown_deadline_candidates
      BY <1>3, <2>2 DEF StopStep, flags
    <3> QED
      BY <3>1, KeptWhenGrown DEF Published
  <2> QED
    BY <2>1, <2>2
<1>4. CASE \E r \in Requests : AdmitStep(r)
  <2>1. UNCHANGED flags
    BY <1>4 DEF AdmitStep
  <2> QED
    BY <2>1, KeptWhenGrown DEF flags, Published
<1> QED
  BY <1>1, <1>2, <1>3, <1>4 DEF FrameStep

(* Once shutdown is committed nothing short of a new lifecycle takes it    *)
(* back, and no call, signal or operator ever replaces a deadline in force *)
(* by a later one.                                                         *)
THEOREM CommitmentIsOneWay == Spec => CommittedNeverExtends
<1> DEFINE OneWay == shutdown_committed => (shutdown_committed' /\ Kept) \/ phase = "off"
<1>1. ASSUME IInv, PreparedPending, [Next]_vars
      PROVE  OneWay
  <2>1. CASE FrameStep
    BY <1>1, <2>1, FramesKeepDeadlines
  <2>2. CASE prepare_server_start
    BY <2>2 DEF prepare_server_start
  <2>3. CASE prepare_lifespan_start
    <3>1. CASE phase = "off"
      BY <3>1
    <3>2. CASE phase # "off"
      <4>1. ~lifespan_resets
        BY <1>1, <2>3, <3>2 DEF prepare_lifespan_start, PreparedPending, lifespan_resets
      <4>2. UNCHANGED flags
        BY <2>3, <4>1 DEF prepare_lifespan_start
      <4> QED
        BY <1>1, <4>2, KeptWhenGrown DEF flags, Published
    <3> QED
      BY <3>1, <3>2
  <2>4. CASE \/ begin_drain \/ stop_drain \/ handle_exit \/ shutdown \/ mark_lifespan_completed
             \/ \E d \in HeaderDeadlines : start_internal_drain(d)
             \/ \E r \in Requests, kind \in Kinds : Arrive(r, kind)
             \/ \E r \in Requests : Finish(r)
             \/ WaitStart \/ WaitPoll \/ Tick \/ UNCHANGED vars
    <3>1. UNCHANGED flags
      BY <2>4 DEF begin_drain, stop_drain, handle_exit, shutdown, mark_lifespan_completed,
                  start_internal_drain, Arrive, Finish, WaitStart, WaitPoll, Tick, vars
    <3> QED
      BY <1>1, <3>1, KeptWhenGrown DEF flags, Published
  <2> QED
    BY <1>1, <2>1, <2>2, <2>3, <2>4 DEF Next
<1>2. OneWay => (shutdown_committed =>
          \/ /\ shutdown_committed'
             /\ \A d \in Published : \E e \in Published' : e <= d
          \/ phase = "off")
  BY DEF Kept
<1> QED
  BY <1>1, <1>2, InvariantHolds, PreparedAlwaysPending, PTL DEF Spec, CommittedNeverExtends

-----------------------------------------------------------------------------
(* The answer of stop_drain.  A commit that interrupts it raises the       *)
(* barrier before any flag, and the token last, so at every bytecode       *)
(* either the flags cleared so far are still clear, or the barrier is up   *)
(* and the token is set, restored, or about to be set by a frame above.    *)

Committing == {"c_promote", "c_committed"}
Raising == {"c_draining", "c_bridge", "c_started"}

ClearedSoFar ==
    ~shutdown_committed =>
        /\ pc[1] \in {"t_draining", "t_deadline", "t_bridge", "t_recheck", "t_return"} => ~drain_started
        /\ pc[1] \in {"t_deadline", "t_bridge", "t_recheck", "t_return"} => ~draining
        /\ pc[1] \in {"t_bridge", "t_recheck", "t_return"} => drain_deadline = None
        /\ pc[1] \in {"t_recheck", "t_return"} => ~bridge_drain_active

(* A candidate without a commitment belongs to a commit under way. *)
CandidatesOwned ==
    ~shutdown_committed /\ shutdown_deadline_candidates # {} =>
        \E l \in 1..MaxDepth : pc[l] \in Committing

TokenComing ==
    shutdown_committed /\ pc[1] = "t_return" =>
        drain_started \/ \E l \in 1..MaxDepth : pc[l] \in Raising

BarrierFirst ==
    /\ \A l \in 1..MaxDepth : pc[l] \in Raising => shutdown_committed
    /\ pc[1] = "t_restore" => shutdown_committed

VInv == ClearedSoFar /\ CandidatesOwned /\ TokenComing /\ BarrierFirst

(* The next values make up the next invariant. *)
LEMMA AssembleVerdict == ClearedSoFar' /\ CandidatesOwned' /\ TokenComing' /\ BarrierFirst' => VInv'
BY DEF VInv

(* A step that leaves the flags alone and moves no frame of interest. *)
LEMMA VerdictKept ==
    ASSUME IInv, VInv, UNCHANGED flags,
           \A l \in 1..MaxDepth : pc[l] \in Committing \cup Raising => pc'[l] = pc[l],
           \A l \in 1..MaxDepth : pc'[l] \in Raising => pc[l] \in Raising,
           pc'[1] \in StopPC => pc'[1] = pc[1] \/ pc'[1] = "t_test"
    PROVE  VInv'
<1>0. 1 \in 1..MaxDepth
  BY ConstantsAssumption
<1>1. ClearedSoFar'
  BY DEF VInv, ClearedSoFar, flags, StopPC
<1>2. CandidatesOwned'
  BY DEF VInv, CandidatesOwned, flags, Committing
<1>3. TokenComing'
  BY DEF VInv, TokenComing, flags, Raising, StopPC
<1>4. BarrierFirst'
  BY DEF VInv, BarrierFirst, flags, StopPC
<1> QED
  BY <1>1, <1>2, <1>3, <1>4, AssembleVerdict

(* A new call. *)
LEMMA VerdictPush ==
    ASSUME IInv, VInv, NEW label \in {"a_register", "b_test", "t_test", "c_test"}, NEW d,
           Push(label, d), UNCHANGED flags
    PROVE  VInv'
<1>1. /\ depth + 1 \in 1..MaxDepth /\ pc'[depth + 1] = label
      /\ \A l \in 1..MaxDepth : l # depth + 1 => pc'[l] = pc[l]
  BY ConstantsAssumption DEF Push, IInv, CoreTypeOK
<1>2. pc[depth + 1] = "none"
  BY <1>1 DEF IInv, FrameInv, FrameOK, CoreTypeOK
<1>3. \A l \in 1..MaxDepth : pc[l] \in Committing \cup Raising => pc'[l] = pc[l]
  BY <1>1, <1>2 DEF Committing, Raising
<1>4. \A l \in 1..MaxDepth : pc'[l] \in Raising => pc[l] \in Raising
  BY <1>1 DEF Raising
<1>5. pc'[1] \in StopPC => pc'[1] = pc[1] \/ pc'[1] = "t_test"
  BY <1>1, ConstantsAssumption DEF StopPC
<1> QED
  BY <1>3, <1>4, <1>5, VerdictKept

(* A step of a commit, at whatever depth. *)
LEMMA VerdictCommit ==
    ASSUME IInv, VInv, CommitStep
    PROVE  VInv'
<1> DEFINE d == depth
<1>0. /\ d \in 1..MaxDepth /\ d > 0 /\ Top = pc[d] /\ CoreTypeOK /\ 1 \in 1..MaxDepth
      /\ pc[d] \in CommitPC
  BY ConstantsAssumption DEF CommitStep, IInv, CoreTypeOK, Top, CommitPC
<1>1. /\ \A l \in 1..MaxDepth : l # d => pc'[l] = pc[l]
      /\ pc'[d] \in CommitPC \cup {"none", "assertion_failed"}
      /\ Top = "c_test" => pc'[d] \in {"c_return", "c_compute"}
      /\ Top = "c_compute" => pc'[d] = "c_append"
      /\ Top = "c_append" => pc'[d] = "c_promote"
      /\ Top = "c_promote" => pc'[d] = "c_committed"
      /\ Top = "c_committed" => pc'[d] = "c_draining"
      /\ Top = "c_draining" => pc'[d] = "c_bridge"
      /\ Top = "c_bridge" => pc'[d] = "c_started"
      /\ Top = "c_started" => pc'[d] = "c_return"
      /\ Top = "c_return" => pc'[d] \in {"none", "assertion_failed"}
  BY <1>0 DEF CommitStep, Step, Goto, ReturnEffective, Pop, CoreTypeOK, CommitPC
<1>2. pc'[1] \notin CommitPC \cup {"none", "assertion_failed"} => pc'[1] = pc[1]
  BY <1>0, <1>1
<1>3. CASE Top \in {"c_test", "c_compute", "c_return"}
  <2>1. UNCHANGED flags
    BY <1>3 DEF CommitStep
  <2>2. \A l \in 1..MaxDepth : pc[l] \in Committing \cup Raising => pc'[l] = pc[l]
    BY <1>0, <1>1, <1>3 DEF Committing, Raising
  <2>3. \A l \in 1..MaxDepth : pc'[l] \in Raising => pc[l] \in Raising
    BY <1>0, <1>1, <1>3 DEF Raising
  <2>4. pc'[1] \in StopPC => pc'[1] = pc[1] \/ pc'[1] = "t_test"
    BY <1>2 DEF StopPC, CommitPC
  <2> QED
    BY <2>1, <2>2, <2>3, <2>4, VerdictKept
<1>4. CASE Top \in {"c_append", "c_promote"}
  <2>1. UNCHANGED <<draining, drain_deadline, drain_started, bridge_drain_active, shutdown_committed>>
    BY <1>4 DEF CommitStep
  <2>2. pc'[d] \in Committing
    BY <1>1, <1>4 DEF Committing
  <2>3. ClearedSoFar'
    BY <1>2, <2>1 DEF VInv, ClearedSoFar, CommitPC
  <2>4. CandidatesOwned'
    BY <1>0, <2>2 DEF CandidatesOwned
  <2>5. \A l \in 1..MaxDepth : pc'[l] \in Raising <=> pc[l] \in Raising
    BY <1>0, <1>1, <1>4 DEF Raising
  <2>6. TokenComing'
    BY <1>2, <2>1, <2>5 DEF VInv, TokenComing, CommitPC
  <2>7. BarrierFirst'
    BY <1>2, <2>1, <2>5 DEF VInv, BarrierFirst, CommitPC
  <2> QED
    BY <2>3, <2>4, <2>6, <2>7, AssembleVerdict
<1>5. CASE Top = "c_committed"
  <2>1. shutdown_committed' /\ pc'[d] \in Raising
    BY <1>1, <1>5 DEF CommitStep, Raising
  <2> QED
    BY <1>0, <2>1 DEF VInv, ClearedSoFar, CandidatesOwned, TokenComing, BarrierFirst
<1>6. CASE Top \in Raising
  <2>1. shutdown_committed /\ shutdown_committed'
    BY <1>0, <1>6 DEF VInv, BarrierFirst, CommitStep, Raising
  <2>2. CASE Top = "c_started"
    <3>1. drain_started'
      BY <2>2 DEF CommitStep
    <3> QED
      BY <2>1, <3>1 DEF VInv, ClearedSoFar, CandidatesOwned, TokenComing, BarrierFirst
  <2>3. CASE Top # "c_started"
    <3>1. pc'[d] \in Raising
      BY <1>1, <1>6, <2>3 DEF Raising
    <3> QED
      BY <1>0, <2>1, <3>1 DEF VInv, ClearedSoFar, CandidatesOwned, TokenComing, BarrierFirst
  <2> QED
    BY <2>2, <2>3
<1> QED
  BY <1>0, <1>3, <1>4, <1>5, <1>6 DEF CommitPC, Raising

(* While the bottom call runs, a candidate means a commitment. *)
LEMMA BottomUncommitted ==
    ASSUME IInv, VInv, depth \in 1..MaxDepth, pc[depth] \notin CommitPC, pc[depth] # "none"
    PROVE  /\ depth = 1 /\ 1 \in 1..MaxDepth
           /\ \A l \in 1..MaxDepth : l # 1 => pc[l] = "none"
           /\ ~shutdown_committed => shutdown_deadline_candidates = {}
<1>1. /\ depth = 1 /\ 1 \in 1..MaxDepth
      /\ \A l \in 1..MaxDepth : l # 1 => pc[l] = "none"
  BY BottomRely
<1>2. \A l \in 1..MaxDepth : pc[l] \notin Committing
  BY <1>1 DEF Committing, CommitPC
<1> QED
  BY <1>1, <1>2 DEF VInv, CandidatesOwned

(* A step of begin_drain. *)
LEMMA VerdictBegin ==
    ASSUME IInv, VInv, BeginStep
    PROVE  VInv'
<1>0. /\ depth \in 1..MaxDepth /\ depth > 0 /\ Top = pc[depth] /\ CoreTypeOK
      /\ pc[depth] \in BeginPC /\ pc[depth] \notin CommitPC /\ pc[depth] # "none"
  BY ConstantsAssumption DEF BeginStep, IInv, CoreTypeOK, Top, BeginPC, CommitPC
<1>1. /\ depth = 1 /\ 1 \in 1..MaxDepth
      /\ \A l \in 1..MaxDepth : l # 1 => pc[l] = "none"
      /\ ~shutdown_committed => shutdown_deadline_candidates = {}
  BY <1>0, BottomUncommitted
<1>2. /\ pc'[1] \in BeginPC \cup {"none", "assertion_failed"}
      /\ \A l \in 1..MaxDepth : l # 1 => pc'[l] = "none"
  BY <1>0, <1>1 DEF BeginStep, Step, Goto, ReturnEffective, Pop, CoreTypeOK, BeginPC
<1>3. /\ shutdown_committed' = shutdown_committed
      /\ ~shutdown_committed => shutdown_deadline_candidates' = shutdown_deadline_candidates
  BY <1>0 DEF BeginStep, flags
<1>4. \A l \in 1..MaxDepth : pc'[l] \notin Raising
  BY <1>2 DEF Raising, BeginPC
<1>5. ClearedSoFar' /\ TokenComing' /\ BarrierFirst'
  BY <1>2, <1>4 DEF ClearedSoFar, TokenComing, BarrierFirst, BeginPC
<1>6. CandidatesOwned'
  BY <1>1, <1>3 DEF CandidatesOwned
<1> QED
  BY <1>5, <1>6, AssembleVerdict

(* A step of stop_drain. *)
LEMMA VerdictStop ==
    ASSUME IInv, VInv, StopStep
    PROVE  VInv'
<1>0. /\ depth \in 1..MaxDepth /\ depth > 0 /\ Top = pc[depth] /\ CoreTypeOK
      /\ pc[depth] \in StopPC /\ pc[depth] \notin CommitPC /\ pc[depth] # "none"
  BY ConstantsAssumption DEF StopStep, IInv, CoreTypeOK, Top, StopPC, CommitPC
<1>1. /\ depth = 1 /\ 1 \in 1..MaxDepth
      /\ \A l \in 1..MaxDepth : l # 1 => pc[l] = "none"
      /\ ~shutdown_committed => shutdown_deadline_candidates = {}
  BY <1>0, BottomUncommitted
<1>2. /\ Top = "t_test" => pc'[1] \in {"none", "t_started"}
      /\ Top = "t_started" => pc'[1] = "t_draining" /\ drain_started' = FALSE
      /\ Top = "t_draining" => pc'[1] = "t_deadline" /\ draining' = FALSE /\ drain_started' = drain_started
      /\ Top = "t_deadline" => /\ pc'[1] = "t_bridge" /\ drain_deadline' = None
                               /\ UNCHANGED <<drain_started, draining>>
      /\ Top = "t_bridge" => /\ pc'[1] = "t_recheck" /\ bridge_drain_active' = FALSE
                             /\ UNCHANGED <<drain_started, draining, drain_deadline>>
      /\ Top = "t_recheck" => pc'[1] = stop_recheck /\ UNCHANGED flags
      /\ Top = "t_restore" => pc'[1] = "t_return" /\ drain_started' = TRUE
      /\ Top = "t_return" => pc'[1] = "none"
      /\ \A l \in 1..MaxDepth : l # 1 => pc'[l] = "none"
  BY <1>0, <1>1 DEF StopStep, Step, Goto, Pop, stop_order, CoreTypeOK
<1>3. UNCHANGED <<shutdown_committed, shutdown_deadline_candidates>>
  BY <1>0 DEF StopStep, flags
<1>4. /\ stop_recheck \in {"t_return", "t_restore", "assertion_failed"}
      /\ stop_recheck = "t_return" => ~shutdown_committed
      /\ stop_recheck = "t_restore" => shutdown_committed
  BY DEF stop_recheck
<1>5. CandidatesOwned'
  BY <1>1, <1>3 DEF CandidatesOwned
<1>6. ClearedSoFar' /\ TokenComing' /\ BarrierFirst'
  <2>1. CASE Top = "t_test"
    BY <1>2, <2>1 DEF ClearedSoFar, TokenComing, BarrierFirst, Raising
  <2>2. CASE Top = "t_started"
    BY <1>2, <2>2 DEF ClearedSoFar, TokenComing, BarrierFirst, Raising
  <2>3. CASE Top = "t_draining"
    BY <1>0, <1>1, <1>2, <1>3, <2>3 DEF VInv, ClearedSoFar, TokenComing, BarrierFirst, Raising
  <2>4. CASE Top = "t_deadline"
    BY <1>0, <1>1, <1>2, <1>3, <2>4 DEF VInv, ClearedSoFar, TokenComing, BarrierFirst, Raising
  <2>5. CASE Top = "t_bridge"
    BY <1>0, <1>1, <1>2, <1>3, <2>5 DEF VInv, ClearedSoFar, TokenComing, BarrierFirst, Raising
  <2>6. CASE Top = "t_recheck"
    BY <1>0, <1>1, <1>2, <1>3, <1>4, <2>6
       DEF VInv, ClearedSoFar, TokenComing, BarrierFirst, Raising, flags
  <2>7. CASE Top = "t_restore"
    BY <1>0, <1>1, <1>2, <1>3, <2>7 DEF VInv, ClearedSoFar, TokenComing, BarrierFirst, Raising
  <2>8. CASE Top = "t_return"
    BY <1>2, <2>8 DEF ClearedSoFar, TokenComing, BarrierFirst, Raising
  <2> QED
    BY <1>0, <2>1, <2>2, <2>3, <2>4, <2>5, <2>6, <2>7, <2>8 DEF StopPC
<1> QED
  BY <1>5, <1>6, AssembleVerdict

(* A step of the admission middleware. *)
LEMMA VerdictAdmit ==
    ASSUME IInv, VInv, NEW r \in Requests, AdmitStep(r)
    PROVE  VInv'
<1>0. /\ depth \in 1..MaxDepth /\ depth > 0 /\ Top = pc[depth] /\ CoreTypeOK /\ UNCHANGED flags
      /\ pc[depth] \in AdmitPC /\ pc[depth] \notin CommitPC /\ pc[depth] # "none"
  BY ConstantsAssumption DEF AdmitStep, IInv, CoreTypeOK, Top, AdmitPC, CommitPC
<1>1. /\ depth = 1 /\ 1 \in 1..MaxDepth
      /\ \A l \in 1..MaxDepth : l # 1 => pc[l] = "none"
  BY <1>0, BottomUncommitted
<1>2. pc'[1] \in {"a_check", "none"} /\ \A l \in 1..MaxDepth : l # 1 => pc'[l] = "none"
  BY <1>0, <1>1 DEF AdmitStep, Step, Goto, Pop, CoreTypeOK
<1>3. \A l \in 1..MaxDepth : pc[l] \notin Committing \cup Raising
  BY <1>0, <1>1 DEF AdmitPC, Committing, Raising
<1>4. \A l \in 1..MaxDepth : pc'[l] \notin Raising
  BY <1>2 DEF Raising
<1>5. pc'[1] \notin StopPC
  BY <1>2 DEF StopPC
<1> QED
  BY <1>0, <1>3, <1>4, <1>5, VerdictKept

(* Every step keeps the invariant. *)
LEMMA NextVerdict == IInv /\ VInv /\ [Next]_vars => VInv'
<1> SUFFICES ASSUME IInv, VInv, [Next]_vars PROVE VInv'
  OBVIOUS
<1>1. CASE FrameStep
  BY <1>1, VerdictCommit, VerdictBegin, VerdictStop, VerdictAdmit DEF FrameStep
<1>2. CASE begin_drain \/ stop_drain \/ handle_exit \/ shutdown
  BY <1>2, VerdictPush DEF begin_drain, stop_drain, handle_exit, shutdown, MainCall
<1>3. CASE \E d \in HeaderDeadlines : start_internal_drain(d)
  BY <1>3, VerdictPush DEF start_internal_drain, MainCall
<1>4. CASE \E r \in Requests, kind \in Kinds : Arrive(r, kind)
  BY <1>4, VerdictPush DEF Arrive
<1>5. CASE UNCHANGED <<flags, frames>>
  BY <1>5, VerdictKept DEF frames
<1>6. CASE reset /\ depth = 0 /\ UNCHANGED frames
  <2>1. \A l \in 1..MaxDepth : pc'[l] = "none"
    BY <1>6 DEF frames, IInv, FrameInv, FrameOK
  <2>2. 1 \in 1..MaxDepth
    BY ConstantsAssumption
  <2> QED
    BY <1>6, <2>1, <2>2 DEF reset, VInv, ClearedSoFar, CandidatesOwned, TokenComing, BarrierFirst, Raising
<1>7. CASE prepare_server_start \/ prepare_lifespan_start
  BY <1>5, <1>6, <1>7 DEF prepare_server_start, prepare_lifespan_start
<1>8. CASE \/ mark_lifespan_completed \/ WaitStart \/ WaitPoll \/ Tick \/ UNCHANGED vars
           \/ \E r \in Requests : Finish(r)
  BY <1>5, <1>8 DEF mark_lifespan_completed, WaitStart, WaitPoll, Tick, Finish, vars
<1> QED
  BY <1>1, <1>2, <1>3, <1>4, <1>7, <1>8 DEF Next

(* When stop_drain answers the operator, its answer is true: either        *)
(* nothing of the drain is left, or a shutdown was committed meanwhile and *)
(* the admission token is back, whatever bytecode the signals landed on.   *)
THEOREM StopAnswersTruthfully == Spec => []StopVerdictTruthful
<1>1. Init => VInv
  <2> SUFFICES ASSUME Init PROVE VInv
    OBVIOUS
  <2>1. 1 \in 1..MaxDepth /\ \A l \in 1..MaxDepth : pc[l] = "none"
    BY ConstantsAssumption DEF Init
  <2> QED
    BY <2>1 DEF Init, VInv, ClearedSoFar, CandidatesOwned, TokenComing, BarrierFirst, Raising
<1>2. IInv /\ VInv => StopVerdictTruthful
  <2> SUFFICES ASSUME IInv, VInv, depth > 0, Top = "t_return"
               PROVE  IF shutdown_committed
                      THEN drain_started /\ shutdown_deadline_candidates # {}
                      ELSE ~drain_started /\ ~draining /\ ~bridge_drain_active /\ Published = {}
    BY DEF StopVerdictTruthful
  <2>1. depth \in 1..MaxDepth /\ pc[depth] = "t_return"
    BY ConstantsAssumption DEF IInv, CoreTypeOK, Top
  <2>2. /\ pc[1] = "t_return" /\ \A l \in 1..MaxDepth : pc[l] \notin Raising
        /\ ~shutdown_committed => shutdown_deadline_candidates = {}
    BY <2>1, BottomUncommitted DEF CommitPC, Raising
  <2>3. CASE shutdown_committed
    BY <2>2, <2>3 DEF VInv, TokenComing, IInv, CommittedInv
  <2>4. CASE ~shutdown_committed
    BY <2>2, <2>4 DEF VInv, ClearedSoFar, Published
  <2> QED
    BY <2>3, <2>4
<1> QED
  BY <1>1, <1>2, NextVerdict, InvariantHolds, PTL DEF Spec

-----------------------------------------------------------------------------
(* What makes a wait that found the counter at zero conclusive.  The       *)
(* counter never falls below the number of requests the middleware counts, *)
(* also across lifecycles; and a wait has a commitment behind it, so what  *)
(* the middleware checks from then on it rejects.                          *)
InFlight == {r \in Requests : rstate[r].at \in Counted}

CountCovers == IsFiniteSet(InFlight) /\ Cardinality(InFlight) <= in_flight

OffQuiet ==
    phase \in {"off", "prepared"} => \A r \in Requests : rstate[r].at \in {"new", "done"}

BeforeCommit == {"c_test", "c_compute", "c_append", "c_promote", "c_committed"}

WaitCommitted ==
    waiter # "none" =>
        /\ phase = "closing"
        /\ shutdown_committed \/ (waiter = "starting" /\ pc[1] \in BeforeCommit)

QInv == CountCovers /\ OffQuiet /\ WaitCommitted /\ DrainedIsQuiet

(* The primed invariant from its primed parts. *)
LEMMA AssembleQuiet == CountCovers' /\ OffQuiet' /\ WaitCommitted' /\ DrainedIsQuiet' => QInv'
BY DEF QInv

(* The commitment, and the first frame on its way to it, outlast every     *)
(* step of a frame.                                                        *)
LEMMA FrameKeepsWait ==
    ASSUME IInv, WaitCommitted, FrameStep
    PROVE  WaitCommitted'
<1>0. 1 \in 1..MaxDepth /\ depth \in 0..MaxDepth /\ pc \in [1..MaxDepth -> PC]
  BY ConstantsAssumption DEF IInv, CoreTypeOK
<1>1. CASE CommitStep
  <2>1. /\ waiter' = waiter /\ phase' = phase
        /\ shutdown_committed => shutdown_committed'
    BY <1>1 DEF CommitStep, Rest, waiting, startup, flags
  <2>2. CASE depth # 1
    <3>1. pc'[1] = pc[1]
      BY <1>0, <1>1, <2>2 DEF CommitStep, Step, Goto, ReturnEffective, Pop
    <3> QED
      BY <2>1, <3>1 DEF WaitCommitted
  <2>3. CASE depth = 1
    <3>1. pc[1] \in BeforeCommit => shutdown_committed \/ shutdown_committed' \/ pc'[1] \in BeforeCommit
      BY <1>0, <1>1, <2>3 DEF CommitStep, Step, Goto, Top, BeforeCommit, flags
    <3> QED
      BY <2>1, <3>1 DEF WaitCommitted
  <2> QED
    BY <2>2, <2>3
<1>2. CASE BeginStep \/ StopStep \/ \E r \in Requests : AdmitStep(r)
  <2>1. /\ waiter' = waiter /\ phase' = phase /\ shutdown_committed' = shutdown_committed
    BY <1>2 DEF BeginStep, StopStep, AdmitStep, Rest, waiting, startup, flags
  <2>2. /\ depth \in 1..MaxDepth /\ pc[depth] \notin CommitPC /\ pc[depth] # "none"
    BY <1>0, <1>2 DEF BeginStep, StopStep, AdmitStep, Top, CommitPC
  <2>3. pc[1] \notin BeforeCommit
    BY <2>2, BottomRely DEF BeforeCommit, CommitPC
  <2> QED
    BY <2>1, <2>3 DEF WaitCommitted
<1> QED
  BY <1>1, <1>2 DEF FrameStep

(* One counted request leaves the middleware. *)
LEMMA CountShrinks ==
    ASSUME TypeOK, CountCovers, NEW r \in Requests, rstate[r].at \in Counted,
           rstate'[r].at \notin Counted, decrement_in_flight,
           \A q \in Requests : q # r => rstate'[q] = rstate[q]
    PROVE  CountCovers'
<1>1. r \in InFlight /\ InFlight' = InFlight \ {r}
  BY DEF InFlight
<1>2. /\ IsFiniteSet(InFlight \ {r})
      /\ Cardinality(InFlight \ {r}) = Cardinality(InFlight) - 1
  BY <1>1, FS_RemoveElement DEF CountCovers
<1>3. Cardinality(InFlight) \in Nat /\ in_flight \in Nat
  BY FS_CardinalityType DEF CountCovers, TypeOK
<1>4. Cardinality(InFlight) # 0
  BY <1>1, FS_EmptySet DEF CountCovers
<1>5. in_flight' = in_flight - 1
  BY <1>3, <1>4 DEF decrement_in_flight, CountCovers
<1> QED
  BY <1>1, <1>2, <1>3, <1>5 DEF CountCovers

(* A step that neither counts nor uncounts a request. *)
LEMMA CountStays ==
    ASSUME CountCovers, in_flight' = in_flight,
           \A q \in Requests : rstate'[q].at \in Counted <=> rstate[q].at \in Counted
    PROVE  CountCovers'
<1>1. InFlight' = InFlight
  BY DEF InFlight
<1> QED
  BY <1>1 DEF CountCovers

(* The admission of one request keeps the count, and once a drained wait   *)
(* stands behind a commitment it admits owner-forwarding only.             *)
LEMMA AdmitKeepsQuiet ==
    ASSUME IInv, TypeOK, QInv, NEW r \in Requests, AdmitStep(r)
    PROVE  CountCovers' /\ OffQuiet' /\ DrainedIsQuiet'
<1>0. /\ phase' = phase /\ waiter' = waiter /\ in_flight \in Nat
      /\ rstate[r].at \in Counted \cup {"new", "arriving", "rejected", "untracked", "done"}
      /\ rstate[r].kind \in Kinds
      /\ rstate \in [Requests -> [at : Counted \cup {"new", "arriving", "rejected",
                                                   "untracked", "done"},
                                  kind : Kinds]]
  BY DEF AdmitStep, startup, waiting, TypeOK
<1>1. CASE Top = "a_register" /\ rstate[r].at = "arriving"
  <2>1. /\ in_flight' = in_flight + 1
        /\ rstate' = [rstate EXCEPT ![r].at = "registered"]
    BY <1>1 DEF AdmitStep
  <2>2. rstate'[r].at = "registered" /\ \A q \in Requests : q # r => rstate'[q] = rstate[q]
    BY <1>0, <2>1
  <2>3. r \notin InFlight /\ InFlight' = InFlight \cup {r}
    BY <1>1, <2>2 DEF InFlight, Counted
  <2>4. /\ IsFiniteSet(InFlight \cup {r})
        /\ Cardinality(InFlight \cup {r}) = Cardinality(InFlight) + 1
    BY <2>3, FS_AddElement DEF QInv, CountCovers
  <2>5. Cardinality(InFlight) \in Nat
    BY FS_CardinalityType DEF QInv, CountCovers
  <2>6. CountCovers'
    BY <1>0, <2>1, <2>3, <2>4, <2>5 DEF QInv, CountCovers
  <2>7. OffQuiet'
    BY <1>0, <1>1 DEF QInv, OffQuiet
  <2>8. DrainedIsQuiet'
    BY <1>0, <2>2 DEF QInv, DrainedIsQuiet
  <2> QED
    BY <2>6, <2>7, <2>8
<1>2. CASE Top = "a_check" /\ rstate[r].at = "registered"
  <2> DEFINE rejected == is_draining /\ rstate[r].kind # "bridge"
             socket == rstate[r].kind \in {"socket", "other"}
             label == CASE rejected /\ socket -> "rejected"
                        [] rejected /\ ~socket -> "rejecting"
                        [] ~rejected /\ rstate[r].kind = "other" -> "untracked"
                        [] OTHER -> "admitted"
  <2>1. /\ rstate' = [rstate EXCEPT ![r].at = label]
        /\ IF uncounted_at_check(rstate[r].kind, rejected)
           THEN decrement_in_flight ELSE UNCHANGED in_flight
    BY <1>2 DEF AdmitStep
  <2>2. /\ rstate'[r].at = label /\ rstate'[r].kind = rstate[r].kind
        /\ \A q \in Requests : q # r => rstate'[q] = rstate[q]
    <3> HIDE DEF label
    <3> QED
      BY <1>0, <2>1
  <2>3. CountCovers'
    <3>1. CASE uncounted_at_check(rstate[r].kind, rejected)
      <4>1. label \in {"rejected", "untracked"}
        BY <1>0, <3>1 DEF uncounted_at_check, Kinds
      <4>2. rstate'[r].at \notin Counted /\ decrement_in_flight
        BY <2>1, <2>2, <3>1, <4>1 DEF Counted
      <4> QED
        BY <1>2, <2>2, <4>2, CountShrinks DEF QInv, Counted
    <3>2. CASE ~uncounted_at_check(rstate[r].kind, rejected)
      <4>1. label \in {"rejecting", "admitted"}
        BY <1>0, <3>2 DEF uncounted_at_check, Kinds
      <4>2. in_flight' = in_flight /\ rstate'[r].at \in Counted
        BY <2>1, <2>2, <3>2, <4>1 DEF Counted
      <4> QED
        BY <1>2, <2>2, <4>2, CountStays DEF QInv, Counted
    <3> QED
      BY <3>1, <3>2
  <2>4. OffQuiet'
    BY <1>0, <1>2 DEF QInv, OffQuiet
  <2>5. DrainedIsQuiet'
    <3> SUFFICES ASSUME waiter' = "drained", NEW q \in Requests, rstate'[q].at = "admitted"
                 PROVE  rstate'[q].kind = "bridge"
      BY DEF DrainedIsQuiet
    <3>1. CASE q # r
      BY <1>0, <2>2, <3>1 DEF QInv, DrainedIsQuiet
    <3>2. CASE q = r
      <4>1. is_draining
        BY <1>0 DEF QInv, WaitCommitted, is_draining
      <4>2. ~rejected
        BY <2>2, <3>2
      <4> QED
        BY <2>2, <3>2, <4>1, <4>2
    <3> QED
      BY <3>1, <3>2
  <2> QED
    BY <2>3, <2>4, <2>5
<1> QED
  BY <1>1, <1>2 DEF AdmitStep

(* A round of the wait: it answers "drained" on a count of zero only.      *)
LEMMA WaitKeepsQuiet ==
    ASSUME IInv, TypeOK, QInv, WaitStart \/ WaitPoll
    PROVE  QInv'
<1>0. /\ UNCHANGED <<flags, phase, in_flight, rstate, pc>> /\ depth = 0 /\ waiter \in {"starting", "waiting"}
      /\ waiter' \in {"drained", "aborted", "timeout", "waiting"}
      /\ waiter' = "drained" => in_flight = 0
  BY DEF WaitStart, WaitPoll, WaitRound, startup, work, frames
<1>1. pc[1] = "none"
  <2>1. 1 \in 1..MaxDepth
    BY ConstantsAssumption
  <2> QED
    BY <1>0, <2>1 DEF IInv, FrameInv, FrameOK
<1>2. CountCovers' /\ OffQuiet'
  BY <1>0 DEF QInv, CountCovers, InFlight, OffQuiet
<1>3. WaitCommitted'
  BY <1>0, <1>1 DEF QInv, WaitCommitted, BeforeCommit, flags
<1>4. DrainedIsQuiet'
  <2> SUFFICES ASSUME waiter' = "drained" PROVE \A r \in Requests : rstate[r].at # "admitted"
    BY <1>0 DEF DrainedIsQuiet
  <2>1. Cardinality(InFlight) \in Nat /\ Cardinality(InFlight) <= 0
    BY <1>0, FS_CardinalityType DEF QInv, CountCovers
  <2>2. InFlight = {}
    BY <2>1, FS_EmptySet DEF QInv, CountCovers
  <2> QED
    BY <2>2 DEF InFlight, Counted
<1> QED
  BY <1>2, <1>3, <1>4, AssembleQuiet

(* Every step keeps the invariant. *)
LEMMA NextQuiet == IInv /\ TypeOK /\ QInv /\ [Next]_vars => QInv'
<1> SUFFICES ASSUME IInv, TypeOK, QInv, [Next]_vars PROVE QInv'
  OBVIOUS
<1>0. 1 \in 1..MaxDepth /\ depth \in 0..MaxDepth /\ pc \in [1..MaxDepth -> PC]
  BY ConstantsAssumption DEF IInv, CoreTypeOK
<1>1. CASE FrameStep
  <2>1. WaitCommitted'
    BY <1>1, FrameKeepsWait DEF QInv
  <2>2. CASE CommitStep \/ BeginStep \/ StopStep
    <3>1. UNCHANGED <<in_flight, rstate, phase, waiter>>
      BY <2>2 DEF CommitStep, BeginStep, StopStep, Rest, startup, work, waiting
    <3>2. CountCovers' /\ OffQuiet' /\ DrainedIsQuiet'
      BY <3>1 DEF QInv, CountCovers, InFlight, OffQuiet, DrainedIsQuiet
    <3> QED
      BY <2>1, <3>2, AssembleQuiet
  <2>3. CASE \E r \in Requests : AdmitStep(r)
    BY <2>1, <2>3, AdmitKeepsQuiet, AssembleQuiet
  <2> QED
    BY <1>1, <2>2, <2>3 DEF FrameStep
<1>2. CASE begin_drain \/ stop_drain \/ handle_exit \/ \E d \in HeaderDeadlines : start_internal_drain(d)
  <2>1. UNCHANGED <<in_flight, rstate, phase, waiter, shutdown_committed>>
    BY <1>2 DEF begin_drain, stop_drain, handle_exit, start_internal_drain, startup, work, waiting, flags
  <2>2. waiter = "starting" /\ pc[1] \in BeforeCommit => pc'[1] = pc[1]
    <3>1. PICK label, d : Push(label, d)
      BY <1>2 DEF begin_drain, stop_drain, handle_exit, start_internal_drain, MainCall
    <3>2. CASE depth = 0
      <4>1. pc[1] = "none"
        BY <1>0, <3>2 DEF IInv, FrameInv, FrameOK
      <4> QED
        BY <4>1 DEF BeforeCommit
    <3>3. CASE depth # 0
      BY <1>0, <3>1, <3>3 DEF Push
    <3> QED
      BY <3>2, <3>3
  <2>3. CountCovers' /\ OffQuiet' /\ DrainedIsQuiet'
    BY <2>1 DEF QInv, CountCovers, InFlight, OffQuiet, DrainedIsQuiet
  <2>4. WaitCommitted'
    BY <2>1, <2>2 DEF QInv, WaitCommitted
  <2> QED
    BY <2>3, <2>4, AssembleQuiet
<1>3. CASE shutdown
  <2>1. /\ UNCHANGED <<in_flight, rstate>> /\ phase' = "closing" /\ waiter' = "starting"
        /\ pc'[1] = "c_test"
    BY <1>0, <1>3 DEF shutdown, MainCall, Push, work
  <2>2. CountCovers' /\ OffQuiet' /\ DrainedIsQuiet' /\ WaitCommitted'
    BY <2>1 DEF QInv, CountCovers, InFlight, OffQuiet, DrainedIsQuiet, WaitCommitted, BeforeCommit
  <2> QED
    BY <2>2, AssembleQuiet
<1>4. CASE prepare_server_start \/ prepare_lifespan_start
  <2>1. /\ phase \in {"off", "prepared"} /\ UNCHANGED <<rstate, waiter>> /\ in_flight' \in {in_flight, 0}
    BY <1>4 DEF prepare_server_start, prepare_lifespan_start, reset, waiting
  <2>2. InFlight = {} /\ InFlight' = {} /\ waiter = "none"
    BY <2>1 DEF QInv, OffQuiet, InFlight, Counted, WaitCommitted
  <2>3. IsFiniteSet({}) /\ Cardinality({}) = 0
    BY FS_EmptySet
  <2>4. CountCovers'
    BY <2>1, <2>2, <2>3 DEF CountCovers, TypeOK
  <2>5. OffQuiet' /\ DrainedIsQuiet' /\ WaitCommitted'
    BY <2>1, <2>2 DEF QInv, OffQuiet, DrainedIsQuiet, WaitCommitted
  <2> QED
    BY <2>4, <2>5, AssembleQuiet
<1>5. CASE mark_lifespan_completed
  <2>1. /\ in_flight' = in_flight /\ waiter' = "none"
        /\ rstate' = [r \in Requests |-> [rstate[r] EXCEPT !.at =
                        IF @ = "new" THEN "new" ELSE "done"]]
    BY <1>5 DEF mark_lifespan_completed
  <2>2. \A r \in Requests : rstate'[r].at \in {"new", "done"}
    BY <2>1 DEF TypeOK
  <2>3. InFlight' = {}
    BY <2>2 DEF InFlight, Counted
  <2>4. IsFiniteSet({}) /\ Cardinality({}) = 0
    BY FS_EmptySet
  <2>5. CountCovers'
    BY <2>1, <2>3, <2>4 DEF CountCovers, TypeOK
  <2>6. OffQuiet' /\ DrainedIsQuiet' /\ WaitCommitted'
    BY <2>1, <2>2 DEF OffQuiet, DrainedIsQuiet, WaitCommitted
  <2> QED
    BY <2>5, <2>6, AssembleQuiet
<1>6. CASE \E r \in Requests, kind \in Kinds : Arrive(r, kind)
  <2>1. PICK r \in Requests, kind \in Kinds : Arrive(r, kind)
    BY <1>6
  <2>2. /\ UNCHANGED <<in_flight, phase, waiter, shutdown_committed>> /\ depth = 0
        /\ phase \in {"running", "closing"} /\ waiter # "starting" /\ rstate[r].at = "new"
        /\ rstate' = [rstate EXCEPT ![r] = [at |-> "arriving", kind |-> kind]]
    BY <2>1 DEF Arrive, startup, waiting, flags
  <2>3. rstate'[r].at = "arriving" /\ \A q \in Requests : q # r => rstate'[q] = rstate[q]
    BY <2>2 DEF TypeOK
  <2>4. CountCovers'
    BY <2>2, <2>3, CountStays DEF QInv, Counted
  <2>5. OffQuiet' /\ DrainedIsQuiet' /\ WaitCommitted'
    BY <2>2, <2>3 DEF QInv, OffQuiet, DrainedIsQuiet, WaitCommitted
  <2> QED
    BY <2>4, <2>5, AssembleQuiet
<1>7. CASE \E r \in Requests : Finish(r)
  <2>1. PICK r \in Requests : Finish(r)
    BY <1>7
  <2>2. /\ UNCHANGED <<phase, waiter, shutdown_committed, pc>>
        /\ rstate' = [rstate EXCEPT ![r].at = "done"]
        /\ IF rstate[r].at \in Counted THEN decrement_in_flight ELSE UNCHANGED in_flight
    BY <2>1 DEF Finish, startup, waiting, flags, frames
  <2>3. rstate'[r].at = "done" /\ \A q \in Requests : q # r => rstate'[q] = rstate[q]
    BY <2>2 DEF TypeOK
  <2>4. CountCovers'
    <3>1. CASE rstate[r].at \in Counted
      BY <2>2, <2>3, <3>1, CountShrinks DEF QInv, Counted
    <3>2. CASE rstate[r].at \notin Counted
      BY <2>2, <2>3, <3>2, CountStays DEF QInv, Counted
    <3> QED
      BY <3>1, <3>2
  <2>5. OffQuiet' /\ DrainedIsQuiet' /\ WaitCommitted'
    BY <2>2, <2>3 DEF QInv, OffQuiet, DrainedIsQuiet, WaitCommitted
  <2> QED
    BY <2>4, <2>5, AssembleQuiet
<1>8. CASE WaitStart \/ WaitPoll
  BY <1>8, WaitKeepsQuiet
<1>9. CASE Tick \/ UNCHANGED vars
  <2>1. UNCHANGED <<in_flight, rstate, phase, waiter, shutdown_committed, pc>>
    BY <1>9 DEF Tick, vars, startup, work, waiting, flags, frames
  <2> QED
    BY <2>1, AssembleQuiet
       DEF QInv, CountCovers, InFlight, OffQuiet, DrainedIsQuiet, WaitCommitted
<1> QED
  BY <1>1, <1>2, <1>3, <1>4, <1>5, <1>6, <1>7, <1>8, <1>9 DEF Next

(* A wait_for_in_flight_drain that reported the work drained told the      *)
(* truth, and the middleware lets nothing but owner-forwarding in          *)
(* afterwards, whatever signals interrupted the admissions.                *)
THEOREM DrainedStaysQuiet == Spec => []DrainedIsQuiet
<1>1. Init => QInv
  <2> SUFFICES ASSUME Init PROVE QInv
    OBVIOUS
  <2>1. InFlight = {}
    BY DEF Init, InFlight, Counted
  <2>2. CountCovers
    BY <2>1, FS_EmptySet DEF Init, CountCovers
  <2> QED
    BY <2>2 DEF Init, QInv, OffQuiet, WaitCommitted, DrainedIsQuiet
<1>2. QInv => DrainedIsQuiet
  BY DEF QInv
<1> QED
  BY <1>1, <1>2, NextQuiet, InvariantHolds, DrainTypeCorrect, PTL DEF Spec

=============================================================================
