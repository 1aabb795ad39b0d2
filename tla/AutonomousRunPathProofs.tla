-------------------------- MODULE AutonomousRunPathProofs --------------------------
(***************************************************************************)
(* Theorems about the way AutonomousRun takes through the phases: which    *)
(* result leads where, what is verified when a run is released, which      *)
(* steps are done by then, and how many calls all of it takes.             *)
(*                                                                         *)
(* Each is about the whole sequence of results, so the invariant (Path)    *)
(* ties that sequence to the phase the run has come to: the last result    *)
(* leads there, and what the budget has left covers the calls still due.   *)
(* A run whose result is recorded and not yet looked at is in between      *)
(* (Recording).                                                            *)
(***************************************************************************)
EXTENDS AutonomousRunProofs, MCAutonomousRun, SequenceTheorems, FiniteSetTheorems

--------------------------------------------------------------------------------
(* The inductive invariant.                                                *)

\* The steps that are done, where planned, when a run has come to a phase.
Before(phase) ==
  CASE phase = "clarify"   -> {}
    [] phase = "design"    -> {"clarify"}
    [] phase = "implement" -> {"clarify", "design", "debug"}
    [] phase = "debug"     -> {"clarify", "design", "implement"}
    [] phase = "verify"    -> {"clarify", "design", "implement", "debug"}
    [] phase = "review"    -> {"clarify", "design", "implement", "debug", "verify"}
    [] phase = "finalize"  -> {"clarify", "design", "implement", "debug", "verify", "review"}
    [] phase = "completed" -> Phases \ {"completed"}

Walked(r) == \A p \in Before(r.current_phase) : PlanContains(r.flow, p) => r.steps[p] = "done"

\* Where a result leads in the loop, which has a failed verification that says nothing
\* of why go to the review: more than Rerouted asks for.
Leads(flow, result, next) ==
  CASE result.phase = "verify" -> next = IF Failing(result) THEN "debug" ELSE "review"
    [] result.phase = "review" -> result.verdict = "blocking" /\ next = "implement"
    [] result.phase \in {"implement", "debug"} ->
         ~Failing(result) /\ next = NextValidationPhase(flow)
    [] OTHER -> ~Failing(result) /\ next = "implement"

\* The first result is of the phase after CLARIFY, each other of the one its
\* predecessor leads to.
Routed(r) ==
  /\ r.phase_results # <<>> => r.phase_results[1].phase = FindNextPhase(r.flow, "clarify")
  /\ \A i \in 1..(Len(r.phase_results) - 1) :
       Leads(r.flow, r.phase_results[i], r.phase_results[i + 1].phase)

\* The phase a run is in is the one it has been led to.
Led(r) == IF r.phase_results = <<>> THEN r.current_phase = FindNextPhase(r.flow, "clarify")
                                    ELSE Leads(r.flow, LastResult(r), r.current_phase)

Arrived(r) ==
  r.status # "escalated" =>
    /\ r.current_phase = "clarify" => r.phase_results = <<>>
    /\ r.current_phase \in {"design", "implement", "debug", "verify", "review"} => Led(r)

\* The verification that counts, and nothing but reviews after it.
Verification(r, v) ==
  /\ r.phase_results[v].phase = "verify"
  /\ r.phase_results[v].verdict \notin {"blocking", "escalated"}
  /\ r.execute => r.phase_results[v].outcome = "done"
  /\ \A i \in (v + 1)..Len(r.phase_results) : r.phase_results[i].phase = "review"

Verified(r) ==
  /\ r.status # "escalated"
  /\ PlanContains(r.flow, "verify")
  /\ r.current_phase \in {"review", "finalize", "completed"}
  => \E v \in 1..Len(r.phase_results) : Verification(r, v)

Limit(m, role) == IF role \in DOMAIN m THEN m[role] ELSE 0

Validations(r) == CallsOf(r, "verify") + CallsOf(r, "review")

\* The calls made and d debugs, i implementations and v validations that are
\* due are covered by the plan and the retries counted so far.
Covered(r, m, d, i, v) ==
  /\ CallsOf(r, "debug") + d <= Planned(r.flow, "debug") + r.retry_counts["debugger"]
  /\ CallsOf(r, "implement") + i <= Planned(r.flow, "implement") + r.retry_counts["implementer"]
  /\ Validations(r) + v <= 2 * (1 + r.retry_counts["implementer"]) + r.retry_counts["debugger"]
  /\ r.retry_counts["debugger"] <= Limit(m, "debugger")
  /\ r.retry_counts["implementer"] <= Limit(m, "implementer")

InLimits(r, m) ==
  /\ CallsOf(r, "debug") <= Planned(r.flow, "debug") + Limit(m, "debugger")
  /\ CallsOf(r, "implement") <= Planned(r.flow, "implement") + Limit(m, "implementer")
  /\ Validations(r) <= 2 * (1 + Limit(m, "implementer")) + Limit(m, "debugger")

DueDebugs(phase) == IF phase = "debug" THEN 1 ELSE 0
DueImplements(phase) == IF phase \in {"design", "implement"} THEN 1 ELSE 0
DueValidations(phase) ==
  IF phase \in {"finalize", "completed"} THEN 0 ELSE IF phase = "review" THEN 1 ELSE 2

Budgeted(r, m) ==
  IF r.status = "escalated" THEN InLimits(r, m)
  ELSE Covered(r, m, DueDebugs(r.current_phase), DueImplements(r.current_phase),
               DueValidations(r.current_phase))

Path(r, m) == Walked(r) /\ Routed(r) /\ Arrived(r) /\ Verified(r) /\ Budgeted(r, m)

\* The same for a run that has recorded the result of its phase.
BudgetLeft(r, m) ==
  Covered(r, m, 0, IF r.current_phase = "design" THEN 1 ELSE 0,
          IF r.current_phase = "review" THEN 0 ELSE IF r.current_phase = "verify" THEN 1 ELSE 2)

Recording(r, m) == Walked(r) /\ Routed(r) /\ Verified(r) /\ BudgetLeft(r, m)

PInv ==
  /\ Path(store, role_map)
  /\ IF engine = "executor" THEN Recording(run, role_map) ELSE Path(run, role_map)

--------------------------------------------------------------------------------
(* The plan, and the sequence of results.                                  *)

\* The four plans, as far as the ways through them differ.
LEMMA PlannedPhases ==
  ASSUME NEW flow \in Flows
  PROVE  /\ PlanContains(flow, "design") <=> flow = "feature"
         /\ PlanContains(flow, "implement") <=> flow = "feature"
         /\ PlanContains(flow, "debug") <=> flow = "bugfix"
         /\ PlanContains(flow, "verify") <=> flow # "review-only"
         /\ ~PlanContains(flow, "completed")
         /\ FindNextPhase(flow, "clarify") =
              IF flow = "feature" THEN "design" ELSE IF flow = "bugfix" THEN "debug"
              ELSE IF flow = "review-only" THEN "review" ELSE "verify"
         /\ flow = "feature" => FindNextPhase(flow, "design") = "implement"
         /\ flow # "review-only" => FindNextPhase(flow, "verify") = "review"
         /\ NextValidationPhase(flow) = IF flow = "review-only" THEN "review" ELSE "verify"
<1>1. CASE flow = "feature"
  BY <1>1 DEF FindNextPhase, PlanContains, NextValidationPhase, PhaseSequence
<1>2. CASE flow = "bugfix"
  BY <1>2 DEF FindNextPhase, PlanContains, NextValidationPhase, PhaseSequence
<1>3. CASE flow = "review-only"
  BY <1>3 DEF FindNextPhase, PlanContains, NextValidationPhase, PhaseSequence
<1>4. CASE flow = "test-generation"
  BY <1>4 DEF FindNextPhase, PlanContains, NextValidationPhase, PhaseSequence
<1> QED BY <1>1, <1>2, <1>3, <1>4 DEF Flows

\* The number of calls of a phase is a number.
LEMMA CallsAreFinite ==
  ASSUME NEW r, r.phase_results \in Seq(PhaseResult), NEW phase
  PROVE  /\ IsFiniteSet({i \in 1..Len(r.phase_results) : r.phase_results[i].phase = phase})
         /\ CallsOf(r, phase) \in Nat
<1> DEFINE n == Len(r.phase_results)
           at == {i \in 1..n : r.phase_results[i].phase = phase}
<1>1. n \in Nat
  OBVIOUS
<1>2. IsFiniteSet(1..n) /\ at \subseteq 1..n
  BY <1>1, FS_Interval
<1>3. IsFiniteSet(at)
  BY <1>2, FS_Subset
<1> QED BY <1>3, FS_CardinalityType DEF CallsOf

\* One more result is one more call of its phase, and of no other.
LEMMA CallsAppend ==
  ASSUME NEW r, r.phase_results \in Seq(PhaseResult), NEW result \in PhaseResult,
         NEW s, s.phase_results = Append(r.phase_results, result), NEW phase
  PROVE  CallsOf(s, phase) = CallsOf(r, phase) + (IF result.phase = phase THEN 1 ELSE 0)
<1> DEFINE old == r.phase_results
           new == s.phase_results
           n == Len(old)
           was == {i \in 1..n : old[i].phase = phase}
           is == {i \in 1..Len(new) : new[i].phase = phase}
<1>1. /\ n \in Nat /\ Len(new) = n + 1 /\ new[n + 1] = result
      /\ \A i \in 1..n : new[i] = old[i]
  BY AppendProperties
<1>2. IsFiniteSet(was) /\ CallsOf(r, phase) = Cardinality(was) /\ CallsOf(s, phase) = Cardinality(is)
      /\ CallsOf(r, phase) \in Nat
  BY CallsAreFinite DEF CallsOf
<1> HIDE DEF old, new, n
<1>3. \A i : i \in 1..Len(new) <=> i \in 1..n \/ i = n + 1
  BY <1>1
<1>4. n + 1 \notin was
  BY <1>1
<1>5. CASE result.phase = phase
  <2>1. is = was \cup {n + 1}
    BY <1>1, <1>3, <1>5
  <2> QED BY <1>2, <1>4, <1>5, <2>1, FS_AddElement
<1>6. CASE result.phase # phase
  <2>1. is = was
    BY <1>1, <1>3, <1>6
  <2> HIDE DEF was, is
  <2> QED BY <1>2, <1>6, <2>1
<1> QED BY <1>5, <1>6

\* Noting an outcome on a result changes neither how many calls there are nor
\* which phases they are of.
LEMMA CallsSame ==
  ASSUME NEW r, NEW s, NEW phase, Len(s.phase_results) = Len(r.phase_results),
         \A i \in 1..Len(r.phase_results) : s.phase_results[i].phase = r.phase_results[i].phase
  PROVE  CallsOf(s, phase) = CallsOf(r, phase)
BY DEF CallsOf

\* No results, no calls.
LEMMA CallsNone ==
  ASSUME NEW r, r.phase_results = <<>>, NEW phase
  PROVE  CallsOf(r, phase) = 0
<1>1. {i \in 1..Len(r.phase_results) : r.phase_results[i].phase = phase} = {}
  OBVIOUS
<1> QED BY <1>1, FS_EmptySet DEF CallsOf

\* The limits are natural numbers.
LEMMA LimitsAreNat ==
  ASSUME NEW m \in RoleMaps, NEW role
  PROVE  Limit(m, role) \in Nat
BY RoleMapsAssumption DEF Limit

\* A budget covers what is no more, out of no less.
LEMMA CoveredLess ==
  ASSUME NEW r, NEW s, NEW m, NEW d \in Nat, NEW i \in Nat, NEW v \in Nat,
         NEW d2 \in Nat, NEW i2 \in Nat, NEW v2 \in Nat, d2 <= d, i2 <= i, v2 <= v,
         r.phase_results \in Seq(PhaseResult), r.retry_counts \in [RetryKeys -> Nat],
         s.phase_results = r.phase_results, s.retry_counts = r.retry_counts, s.flow = r.flow,
         Covered(r, m, d, i, v)
  PROVE  Covered(s, m, d2, i2, v2)
<1> DEFINE D == CallsOf(r, "debug")
           I == CallsOf(r, "implement")
           V == CallsOf(r, "verify")
           R == CallsOf(r, "review")
           PD == Planned(r.flow, "debug")
           PI == Planned(r.flow, "implement")
           a == r.retry_counts["debugger"]
           b == r.retry_counts["implementer"]
<1>1. /\ D \in Nat /\ I \in Nat /\ V \in Nat /\ R \in Nat
      /\ CallsOf(s, "debug") = D /\ CallsOf(s, "implement") = I
      /\ CallsOf(s, "verify") = V /\ CallsOf(s, "review") = R
  BY CallsAreFinite, CallsSame
<1>2. a \in Nat /\ b \in Nat
  BY DEF RetryKeys
<1>3. PD \in Nat /\ PI \in Nat
  BY DEF Planned
<1>4. /\ D + d <= PD + a /\ I + i <= PI + b
      /\ V + R + v <= 2 * (1 + b) + a
      /\ a <= Limit(m, "debugger") /\ b <= Limit(m, "implementer")
  BY DEF Covered, Validations
<1>5. s.retry_counts["debugger"] = a /\ s.retry_counts["implementer"] = b
      /\ Planned(s.flow, "debug") = PD /\ Planned(s.flow, "implement") = PI
  OBVIOUS
<1> HIDE DEF D, I, V, R, PD, PI, a, b
<1>6. /\ D + d2 <= PD + a /\ I + i2 <= PI + b
      /\ V + R + v2 <= 2 * (1 + b) + a
  <2>1. D + d2 <= PD + a
    BY <1>1, <1>2, <1>3, <1>4
  <2>2. I + i2 <= PI + b
    BY <1>1, <1>2, <1>3, <1>4
  <2>3. V + R + v2 <= V + R + v
    BY <1>1
  <2>4. 2 * (1 + b) + a \in Nat
    BY <1>2
  <2>5. V + R + v2 <= 2 * (1 + b) + a
    BY <1>1, <1>4, <2>3, <2>4
  <2> QED BY <2>1, <2>2, <2>5
<1> QED BY <1>1, <1>4, <1>5, <1>6 DEF Covered, Validations

\* Whatever is due, a budget that covers it is within the limits.
LEMMA CoveredInLimits ==
  ASSUME NEW r, NEW s, NEW m \in RoleMaps, NEW d \in Nat, NEW i \in Nat, NEW v \in Nat,
         r.phase_results \in Seq(PhaseResult), r.retry_counts \in [RetryKeys -> Nat],
         s.phase_results = r.phase_results, s.flow = r.flow,
         Covered(r, m, d, i, v)
  PROVE  InLimits(s, m)
<1> DEFINE D == CallsOf(r, "debug")
           I == CallsOf(r, "implement")
           V == CallsOf(r, "verify")
           R == CallsOf(r, "review")
           PD == Planned(r.flow, "debug")
           PI == Planned(r.flow, "implement")
           a == r.retry_counts["debugger"]
           b == r.retry_counts["implementer"]
<1>1. /\ D \in Nat /\ I \in Nat /\ V \in Nat /\ R \in Nat
      /\ CallsOf(s, "debug") = D /\ CallsOf(s, "implement") = I
      /\ CallsOf(s, "verify") = V /\ CallsOf(s, "review") = R
  BY CallsAreFinite, CallsSame
<1>2. a \in Nat /\ b \in Nat
  BY DEF RetryKeys
<1>3. PD \in Nat /\ PI \in Nat
  BY DEF Planned
<1>4. /\ D + d <= PD + a /\ I + i <= PI + b
      /\ V + R + v <= 2 * (1 + b) + a
      /\ a <= Limit(m, "debugger") /\ b <= Limit(m, "implementer")
  BY DEF Covered, Validations
<1>5. Planned(s.flow, "debug") = PD /\ Planned(s.flow, "implement") = PI
  OBVIOUS
<1>6. Limit(m, "debugger") \in Nat /\ Limit(m, "implementer") \in Nat
  BY LimitsAreNat
<1> HIDE DEF D, I, V, R, PD, PI, a, b
<1>7. /\ D <= PD + Limit(m, "debugger") /\ I <= PI + Limit(m, "implementer")
      /\ V + R <= 2 * (1 + Limit(m, "implementer")) + Limit(m, "debugger")
  BY <1>1, <1>2, <1>3, <1>4, <1>6
<1> QED BY <1>1, <1>5, <1>7 DEF InLimits, Validations

--------------------------------------------------------------------------------
(* Steps that stay in the phase.                                           *)

\* s is where r is, with its steps changed in this phase at most, and it may
\* have escalated.
SameWay(r, s) ==
  /\ s.flow = r.flow /\ s.execute = r.execute /\ s.current_phase = r.current_phase
  /\ s.phase_results = r.phase_results
  /\ \A p \in Phases : p # r.current_phase => s.steps[p] = r.steps[p]
  /\ s.status = "escalated" \/ (s.status # "escalated" /\ r.status # "escalated"
                                  /\ s.retry_counts = r.retry_counts)

\* Whoever is where he was has walked, and is routed and verified, as before.
LEMMA SameWayFacts ==
  ASSUME NEW r \in RunState, NEW s, SameWay(r, s)
  PROVE  /\ Walked(r) => Walked(s)
         /\ Routed(r) => Routed(s)
         /\ Verified(r) => Verified(s)
         /\ Arrived(r) => Arrived(s)
<1>1. \A p \in Before(r.current_phase) : p \in Phases /\ p # r.current_phase
  BY DEF Before, Phases, RunState
<1>2. Walked(r) => Walked(s)
  BY <1>1 DEF Walked, SameWay
<1>3. (Routed(r) => Routed(s)) /\ (Arrived(r) => Arrived(s))
  BY DEF Routed, Arrived, Led, LastResult, SameWay
<1>4. Verified(r) => Verified(s)
  BY DEF Verified, Verification, SameWay
<1> QED BY <1>2, <1>3, <1>4

DueFacts == \A phase :
  DueDebugs(phase) \in Nat /\ DueImplements(phase) \in Nat /\ DueValidations(phase) \in Nat

\* What is due after a phase is a number of calls.
LEMMA DuesAreNat == DueFacts
BY DEF DueFacts, DueDebugs, DueImplements, DueValidations

\* And is on the path, if he was.
LEMMA SameWayPath ==
  ASSUME NEW m \in RoleMaps, NEW r \in RunState, NEW s, SameWay(r, s), Path(r, m)
  PROVE  Path(s, m)
<1> DEFINE d == DueDebugs(r.current_phase)
           i == DueImplements(r.current_phase)
           v == DueValidations(r.current_phase)
<1>1. d \in Nat /\ i \in Nat /\ v \in Nat
  BY DuesAreNat DEF DueFacts
<1>2. r.phase_results \in Seq(PhaseResult) /\ r.retry_counts \in [RetryKeys -> Nat]
      /\ s.phase_results = r.phase_results /\ s.flow = r.flow /\ s.current_phase = r.current_phase
  BY DEF RunState, SameWay
<1>3. Budgeted(s, m)
  <2> HIDE DEF d, i, v
  <2>1. CASE r.status # "escalated" /\ s.status # "escalated"
    <3>1. Covered(r, m, d, i, v) /\ s.retry_counts = r.retry_counts
      BY <2>1 DEF Path, Budgeted, SameWay, d, i, v
    <3>2. Covered(s, m, d, i, v)
      BY <1>1, <1>2, <3>1, CoveredLess
    <3> QED BY <1>2, <2>1, <3>2 DEF Budgeted, d, i, v
  <2>2. CASE r.status # "escalated" /\ s.status = "escalated"
    <3>1. Covered(r, m, d, i, v)
      BY <2>2 DEF Path, Budgeted, d, i, v
    <3>2. InLimits(s, m)
      BY <1>1, <1>2, <3>1, CoveredInLimits
    <3> QED BY <2>2, <3>2 DEF Budgeted
  <2>3. CASE r.status = "escalated"
    <3>1. InLimits(r, m)
      BY <2>3 DEF Path, Budgeted
    <3>2. \A phase : CallsOf(s, phase) = CallsOf(r, phase)
      BY <1>2, CallsSame
    <3>3. InLimits(s, m)
      BY <1>2, <3>1, <3>2 DEF InLimits, Validations
    <3> QED BY <2>3, <3>3 DEF SameWay, Budgeted
  <2> QED BY <2>1, <2>2, <2>3
<1> QED BY <1>3, SameWayFacts DEF Path

\* Escalating a recorded run ends the path within the limits.
LEMMA StopPath ==
  ASSUME NEW m \in RoleMaps, NEW r \in RunState, NEW s, SameWay(r, s),
         s.status = "escalated", Recording(r, m)
  PROVE  Path(s, m)
<1> DEFINE i == IF r.current_phase = "design" THEN 1 ELSE 0
           v == IF r.current_phase = "review" THEN 0 ELSE IF r.current_phase = "verify" THEN 1 ELSE 2
<1>1. i \in Nat /\ v \in Nat /\ 0 \in Nat
  OBVIOUS
<1>2. Covered(r, m, 0, i, v)
  BY DEF Recording, BudgetLeft
<1> HIDE DEF i, v
<1>3. r.phase_results \in Seq(PhaseResult) /\ r.retry_counts \in [RetryKeys -> Nat]
      /\ s.phase_results = r.phase_results /\ s.flow = r.flow
  BY DEF RunState, SameWay
<1>4. InLimits(s, m)
  BY <1>1, <1>2, <1>3, CoveredInLimits
<1>5. Arrived(s) /\ Budgeted(s, m)
  BY <1>4 DEF Arrived, Budgeted
<1> QED BY <1>5, SameWayFacts DEF Path, Recording

--------------------------------------------------------------------------------
(* Steps that leave the phase.                                             *)

Successor(flow, phase) ==
  CASE phase = "design" -> FindNextPhase(flow, "design")
    [] phase = "review" -> "finalize"
    [] OTHER            -> NextPhaseAfterSuccess(flow, phase)

\* r has recorded the result of the phase it is in.
AtResult(r) ==
  /\ r \in RunState /\ r.status # "escalated"
  /\ r.current_phase \in {"design", "implement", "debug", "verify", "review"}
  /\ r.current_phase \in {"design", "verify"} => PlanContains(r.flow, r.current_phase)
  /\ r.phase_results # <<>> /\ LastResult(r).phase = r.current_phase

Elsewhere(r, s) ==
  /\ s.flow = r.flow /\ s.execute = r.execute /\ s.phase_results = r.phase_results
  /\ \A p \in Phases : p # r.current_phase => s.steps[p] = r.steps[p]

Passes(r, s) ==
  /\ Elsewhere(r, s)
  /\ s.status \in {"in_progress", "pending"} /\ s.current_phase = Successor(r.flow, r.current_phase)
  /\ s.retry_counts = r.retry_counts
  /\ PlanContains(r.flow, r.current_phase) => s.steps[r.current_phase] = "done"
  /\ ~Failing(LastResult(r))
  /\ r.execute /\ r.current_phase = "verify" => LastResult(r).outcome = "done"

GoesBack(r, s, m) ==
  /\ Elsewhere(r, s)
  /\ s.status = "in_progress" /\ Failing(LastResult(r))
  /\ \/ /\ r.current_phase = "verify" /\ s.current_phase = "debug"
        /\ s.retry_counts = [r.retry_counts EXCEPT !["debugger"] = @ + 1]
        /\ r.retry_counts["debugger"] + 1 <= Limit(m, "debugger")
     \/ /\ r.current_phase = "review" /\ s.current_phase = "implement"
        /\ LastResult(r).verdict = "blocking"
        /\ s.retry_counts = [r.retry_counts EXCEPT !["implementer"] = @ + 1]
        /\ r.retry_counts["implementer"] + 1 <= Limit(m, "implementer")

\* What has run well goes on, on the path.
LEMMA PassPath ==
  ASSUME NEW m \in RoleMaps, NEW r, AtResult(r), Recording(r, m), NEW s, Passes(r, s)
  PROVE  Path(s, m)
<1> DEFINE here == r.current_phase
           next == s.current_phase
<1>1. /\ r.flow \in Flows /\ r.phase_results \in Seq(PhaseResult)
      /\ r.retry_counts \in [RetryKeys -> Nat]
      /\ s.flow = r.flow /\ s.phase_results = r.phase_results /\ s.execute = r.execute
      /\ s.retry_counts = r.retry_counts /\ s.status # "escalated"
  BY DEF AtResult, RunState, Passes, Elsewhere
<1>2. /\ here = "design" => r.flow = "feature" /\ next = "implement"
      /\ here \in {"implement", "debug"} => next = IF r.flow = "review-only" THEN "review" ELSE "verify"
      /\ here = "verify" => r.flow # "review-only" /\ next = "review"
      /\ here = "review" => next = "finalize"
  BY <1>1, PlannedPhases DEF AtResult, Passes, Successor, NextPhaseAfterSuccess
<1>3. Walked(s)
  <2>1. SUFFICES ASSUME NEW p \in Before(next), PlanContains(r.flow, p)
                 PROVE  s.steps[p] = "done"
    BY <1>1 DEF Walked
  <2>2. p \in Phases /\ (p = here \/ p \in Before(here))
    BY <1>1, <1>2, <2>1, PlannedPhases DEF Before, AtResult, Phases
  <2>3. CASE p = here
    BY <2>1, <2>3 DEF Passes
  <2>4. CASE p # here
    BY <2>1, <2>2, <2>4 DEF Recording, Walked, Passes, Elsewhere
  <2> QED BY <2>3, <2>4
<1>4. Routed(s)
  BY <1>1 DEF Recording, Routed
<1>5. Arrived(s)
  <2>1. next # "clarify"
    BY <1>2 DEF AtResult
  <2>2. next # "finalize" => Leads(r.flow, LastResult(r), next)
    BY <1>1, <1>2, PlannedPhases DEF Leads, AtResult, Passes
  <2> QED BY <1>1, <2>1, <2>2 DEF Arrived, Led, LastResult, AtResult
<1>6. Verified(s)
  <2>1. CASE here = "verify"
    <3> DEFINE n == Len(r.phase_results)
    <3>1. n \in 1..Len(s.phase_results) /\ s.phase_results[n] = LastResult(r)
      BY <1>1 DEF AtResult, LastResult
    <3>2. Verification(s, n)
      BY <1>1, <2>1, <3>1 DEF Verification, AtResult, Passes, Failing
    <3> QED BY <3>1, <3>2 DEF Verified
  <2>2. CASE here = "review"
    BY <1>1, <2>2 DEF Verified, Verification, Recording, AtResult
  <2>3. CASE here \in {"design", "implement", "debug"}
    BY <1>1, <1>2, <2>3, PlannedPhases DEF Verified
  <2> QED BY <2>1, <2>2, <2>3 DEF AtResult
<1>7. Budgeted(s, m)
  <2> DEFINE i == IF here = "design" THEN 1 ELSE 0
             v == IF here = "review" THEN 0 ELSE IF here = "verify" THEN 1 ELSE 2
  <2>1. Covered(r, m, 0, i, v)
    BY DEF Recording, BudgetLeft
  <2>2. /\ i \in Nat /\ v \in Nat
        /\ DueDebugs(next) = 0 /\ DueImplements(next) = i /\ DueValidations(next) <= v
        /\ DueValidations(next) \in Nat
    BY <1>2 DEF DueDebugs, DueImplements, DueValidations, AtResult
  <2> HIDE DEF i, v
  <2>3. Covered(s, m, 0, i, DueValidations(next))
    BY <1>1, <2>1, <2>2, CoveredLess
  <2> QED BY <1>1, <2>2, <2>3 DEF Budgeted
<1> QED BY <1>3, <1>4, <1>5, <1>6, <1>7 DEF Path

\* What has failed goes back, on the path, at the cost of a retry.
LEMMA BackPath ==
  ASSUME NEW m \in RoleMaps, NEW r, AtResult(r), Recording(r, m), NEW s, GoesBack(r, s, m)
  PROVE  Path(s, m)
<1> DEFINE here == r.current_phase
           next == s.current_phase
<1>1. /\ r.flow \in Flows /\ r.phase_results \in Seq(PhaseResult)
      /\ r.retry_counts \in [RetryKeys -> Nat]
      /\ s.flow = r.flow /\ s.phase_results = r.phase_results /\ s.execute = r.execute
      /\ s.status = "in_progress"
      /\ (here = "verify" /\ next = "debug") \/ (here = "review" /\ next = "implement")
  BY DEF AtResult, RunState, GoesBack, Elsewhere
<1>2. Walked(s)
  <2>1. SUFFICES ASSUME NEW p \in Before(next), PlanContains(r.flow, p)
                 PROVE  s.steps[p] = "done"
    BY <1>1 DEF Walked
  <2>2. p \in Phases /\ p # here /\ p \in Before(here)
    BY <1>1, <2>1 DEF Before, Phases
  <2> QED BY <2>1, <2>2 DEF Recording, Walked, GoesBack, Elsewhere
<1>3. Routed(s)
  BY <1>1 DEF Recording, Routed
<1>4. Arrived(s)
  <2>1. Leads(r.flow, LastResult(r), next)
    BY <1>1 DEF Leads, AtResult, GoesBack
  <2> QED BY <1>1, <2>1 DEF Arrived, Led, LastResult, AtResult
<1>5. Verified(s)
  BY <1>1 DEF Verified
<1>6. Budgeted(s, m)
  <2> DEFINE D == CallsOf(r, "debug")
             I == CallsOf(r, "implement")
             W == Validations(r)
             PD == Planned(r.flow, "debug")
             PI == Planned(r.flow, "implement")
             a == r.retry_counts["debugger"]
             b == r.retry_counts["implementer"]
             LD == Limit(m, "debugger")
             LI == Limit(m, "implementer")
  <2>1. /\ D \in Nat /\ I \in Nat /\ W \in Nat
        /\ CallsOf(s, "debug") = D /\ CallsOf(s, "implement") = I /\ Validations(s) = W
    <3>1. /\ CallsOf(r, "verify") \in Nat /\ CallsOf(r, "review") \in Nat
          /\ CallsOf(s, "verify") = CallsOf(r, "verify") /\ CallsOf(s, "review") = CallsOf(r, "review")
      BY <1>1, CallsAreFinite, CallsSame
    <3>2. D \in Nat /\ I \in Nat /\ CallsOf(s, "debug") = D /\ CallsOf(s, "implement") = I
      BY <1>1, CallsAreFinite, CallsSame
    <3> QED BY <3>1, <3>2 DEF Validations
  <2>2. a \in Nat /\ b \in Nat /\ PD \in Nat /\ PI \in Nat /\ LD \in Nat /\ LI \in Nat
    BY <1>1, LimitsAreNat DEF RetryKeys, Planned
  <2>3. /\ D + 0 <= PD + a /\ I + 0 <= PI + b /\ a <= LD /\ b <= LI
        /\ W + (IF here = "review" THEN 0 ELSE 1) <= 2 * (1 + b) + a
    BY <1>1 DEF Recording, BudgetLeft, Covered
  <2>4. Planned(s.flow, "debug") = PD /\ Planned(s.flow, "implement") = PI
    BY <1>1
  <2>5. CASE here = "verify" /\ next = "debug"
    <3>1. s.retry_counts["debugger"] = a + 1 /\ s.retry_counts["implementer"] = b /\ a + 1 <= LD
      BY <1>1, <2>5 DEF GoesBack, RetryKeys
    <3> HIDE DEF D, I, W, PD, PI, a, b, LD, LI
    <3>2. D + 1 <= PD + (a + 1) /\ I + 0 <= PI + b
      BY <2>1, <2>2, <2>3
    <3>3. W + 2 <= 2 * (1 + b) + (a + 1)
      BY <2>1, <2>2, <2>3, <2>5
    <3>4. Covered(s, m, 1, 0, 2)
      BY <2>1, <2>3, <2>4, <3>1, <3>2, <3>3 DEF Covered, LD, LI
    <3> QED BY <1>1, <2>5, <3>4 DEF Budgeted, DueDebugs, DueImplements, DueValidations
  <2>6. CASE here = "review" /\ next = "implement"
    <3>1. s.retry_counts["debugger"] = a /\ s.retry_counts["implementer"] = b + 1 /\ b + 1 <= LI
      BY <1>1, <2>6 DEF GoesBack, RetryKeys
    <3> HIDE DEF D, I, W, PD, PI, a, b, LD, LI
    <3>2. D + 0 <= PD + a /\ I + 1 <= PI + (b + 1)
      BY <2>1, <2>2, <2>3
    <3>3. W + 2 <= 2 * (1 + (b + 1)) + a
      BY <2>1, <2>2, <2>3, <2>6
    <3>4. Covered(s, m, 0, 1, 2)
      BY <2>1, <2>3, <2>4, <3>1, <3>2, <3>3 DEF Covered, LD, LI
    <3> QED BY <1>1, <2>6, <3>4 DEF Budgeted, DueDebugs, DueImplements, DueValidations
  <2> QED BY <1>1, <2>5, <2>6
<1> QED BY <1>2, <1>3, <1>4, <1>5, <1>6 DEF Path

--------------------------------------------------------------------------------
(* What the loop does with a result.                                       *)

\* x is r with its phase marked in the steps, and whatever does not matter here.
Marks(r, x) ==
  /\ x \in RunState /\ Elsewhere(r, x)
  /\ x.current_phase = r.current_phase /\ x.status = r.status /\ x.retry_counts = r.retry_counts

\* Marking a step, with a reason or without.
LEMMA SetStepMarks ==
  ASSUME NEW r \in RunState, NEW status \in Statuses, NEW reason \in Reasons
  PROVE  LET x == SetStepStatus(r, r.current_phase, status)
         IN  /\ Marks(r, x)
             /\ PlanContains(r.flow, r.current_phase) => x.steps[r.current_phase] = status
             /\ Marks(r, [x EXCEPT !.escalation_reason = reason])
<1> DEFINE x == SetStepStatus(r, r.current_phase, status)
           y == [x EXCEPT !.escalation_reason = reason]
<1>1. /\ x \in RunState /\ x.flow = r.flow /\ x.execute = r.execute
      /\ x.phase_results = r.phase_results /\ x.current_phase = r.current_phase
      /\ x.status = r.status /\ x.retry_counts = r.retry_counts
      /\ \A p \in Phases : p # r.current_phase => x.steps[p] = r.steps[p]
      /\ PlanContains(r.flow, r.current_phase) => x.steps[r.current_phase] = status
  BY DEF SetStepStatus, RunState
<1> HIDE DEF x
<1>2. /\ y \in RunState /\ y.flow = x.flow /\ y.execute = x.execute
      /\ y.phase_results = x.phase_results /\ y.current_phase = x.current_phase
      /\ y.status = x.status /\ y.retry_counts = x.retry_counts /\ y.steps = x.steps
  BY <1>1 DEF RunState
<1> HIDE DEF y
<1>3. Marks(r, x)
  BY <1>1 DEF Marks, Elsewhere
<1>4. Marks(r, y)
  BY <1>1, <1>2 DEF Marks, Elsewhere
<1> QED BY <1>1, <1>3, <1>4 DEF x, y

\* A retry goes back, or ends the run, on the path.
LEMMA RetryPath ==
  ASSUME role_map \in RoleMaps, NEW r, AtResult(r), Recording(r, role_map), Failing(LastResult(r)),
         NEW x, Marks(r, x), NEW spent, Marks(r, spent), NEW role, NEW phase,
         \/ r.current_phase = "verify" /\ role = "debugger" /\ phase = "debug"
         \/ /\ r.current_phase = "review" /\ role = "implementer" /\ phase = "implement"
            /\ LastResult(r).verdict = "blocking"
  PROVE  Path(RetryOrEscalate(x, role, phase, spent), role_map)
<1> DEFINE s == RetryOrEscalate(x, role, phase, spent)
           retries == x.retry_counts[role] + 1
<1>1. role \in RetryKeys /\ r.retry_counts \in [RetryKeys -> Nat] /\ retries = r.retry_counts[role] + 1
  BY DEF RetryKeys, AtResult, RunState, Marks
<1>2. retries \in Nat /\ MaxRetries(role) = Limit(role_map, role)
  BY <1>1 DEF MaxRetries, Limit
<1>3. CASE retries <= MaxRetries(role)
  <2>1. s = [x EXCEPT !.retry_counts = [x.retry_counts EXCEPT ![role] = retries],
                      !.current_phase = phase, !.status = "in_progress"]
    BY <1>3 DEF RetryOrEscalate
  <2>2. /\ s.flow = x.flow /\ s.execute = x.execute /\ s.phase_results = x.phase_results
        /\ s.steps = x.steps /\ s.status = "in_progress" /\ s.current_phase = phase
        /\ s.retry_counts = [x.retry_counts EXCEPT ![role] = retries]
    BY <2>1 DEF Marks, RunState
  <2> HIDE DEF s
  <2>3. s.retry_counts = [r.retry_counts EXCEPT ![role] = @ + 1]
    BY <1>1, <2>2 DEF Marks
  <2>4. Elsewhere(r, s)
    BY <2>2 DEF Marks, Elsewhere
  <2>5. r.retry_counts[role] + 1 <= Limit(role_map, role)
    BY <1>1, <1>2, <1>3
  <2> HIDE DEF retries
  <2>6. GoesBack(r, s, role_map)
    BY <2>2, <2>3, <2>4, <2>5 DEF GoesBack
  <2> QED BY <2>6, BackPath DEF s
<1>4. CASE ~(retries <= MaxRetries(role))
  <2>1. s = [spent EXCEPT !.retry_counts = [spent.retry_counts EXCEPT ![role] = retries],
                          !.status = "escalated"]
    BY <1>4 DEF RetryOrEscalate
  <2>2. /\ s.flow = spent.flow /\ s.execute = spent.execute /\ s.phase_results = spent.phase_results
        /\ s.steps = spent.steps /\ s.status = "escalated" /\ s.current_phase = spent.current_phase
    BY <2>1 DEF Marks, RunState
  <2> HIDE DEF s, retries
  <2>3. SameWay(r, s)
    BY <2>2 DEF SameWay, Marks, Elsewhere
  <2> QED BY <2>2, <2>3, StopPath DEF AtResult, s
<1> QED BY <1>3, <1>4

\* So does an escalation of the phase.
LEMMA EscalatePath ==
  ASSUME role_map \in RoleMaps, NEW r, AtResult(r), Recording(r, role_map), Failing(LastResult(r)),
         NEW x, Marks(r, x)
  PROVE  Path(EscalatePhase(x, r.current_phase), role_map)
<1>1. CASE r.current_phase = "verify"
  BY <1>1, RetryPath DEF EscalatePhase
<1>2. CASE r.current_phase # "verify"
  <2> DEFINE s == [x EXCEPT !.status = "escalated"]
  <2>1. /\ s.flow = x.flow /\ s.execute = x.execute /\ s.phase_results = x.phase_results
        /\ s.steps = x.steps /\ s.status = "escalated" /\ s.current_phase = x.current_phase
    BY DEF Marks, RunState
  <2>2. EscalatePhase(x, r.current_phase) = s
    BY <1>2 DEF EscalatePhase
  <2> HIDE DEF s
  <2>3. SameWay(r, s)
    BY <2>1 DEF SameWay, Marks, Elsewhere
  <2> QED BY <2>1, <2>2, <2>3, StopPath DEF AtResult
<1> QED BY <1>1, <1>2

\* A run the loop has judged is at its result.
LEMMA JudgedAtResult == ASSUME NEW r, Judged(r) PROVE AtResult(r)
BY DEF Judged, AtResult, PhaseNeeds

\* Whatever the loop does with a result, the run stays on the path, and what is
\* saved, if anything is, is that run.
LEMMA EvaluatePath ==
  ASSUME role_map \in RoleMaps, NEW r, Judged(r), Recording(r, role_map), Evaluate(r),
         LastResult(r).outcome # "escalated",
         r.execute /\ r.current_phase = "verify" => LastResult(r).outcome = "done"
  PROVE  /\ Path(run', role_map) /\ store' \in {store, run'}
         /\ engine' # "executor" /\ role_map' = role_map
<1> DEFINE phase == r.current_phase
           passed == SetStepStatus(r, phase, "done")
<1>1. AtResult(r) /\ r \in RunState
  BY JudgedAtResult DEF Judged
<1>2. Marks(r, passed) /\ (PlanContains(r.flow, phase) => passed.steps[phase] = "done")
  BY <1>1, SetStepMarks DEF Statuses, Reasons
<1>3. CASE Escalated(r, phase)
  <2> DEFINE x == [SetStepStatus(r, phase, "escalated") EXCEPT !.escalation_reason = "agent"]
  <2>1. Marks(r, x)
    BY <1>1, SetStepMarks DEF Statuses, Reasons
  <2>2. /\ run' = EscalatePhase(x, phase) /\ engine' = "loop" /\ store' = store
        /\ role_map' = role_map /\ Failing(LastResult(r))
    BY <1>3 DEF Escalated, Continue, Failing
  <2> HIDE DEF x
  <2> QED BY <1>1, <2>1, <2>2, EscalatePath
<1>4. CASE Rework(r, phase)
  <2> DEFINE spent == Exhausted(r, phase)
  <2>1. Marks(r, spent)
    BY <1>1, SetStepMarks DEF Exhausted, Statuses, Reasons
  <2>2. engine' = "loop" /\ store' = store /\ role_map' = role_map /\ Failing(LastResult(r))
        /\ LastResult(r).verdict = "blocking"
    BY <1>4 DEF Rework, Continue, Failing
  <2>3. \/ phase = "verify" /\ run' = RetryOrEscalate(passed, "debugger", "debug", spent)
        \/ phase = "review" /\ run' = RetryOrEscalate(passed, "implementer", "implement", spent)
    BY <1>4 DEF Rework, Continue
  <2> HIDE DEF passed, spent
  <2> QED BY <1>1, <1>2, <2>1, <2>2, <2>3, RetryPath
<1>5. ASSUME Passes(r, run'), store' \in {store, run'}, engine' # "executor", role_map' = role_map
      PROVE  /\ Path(run', role_map) /\ store' \in {store, run'}
             /\ engine' # "executor" /\ role_map' = role_map
  BY <1>1, <1>5, PassPath
<1>6. Accepted(r) => ~Failing(LastResult(r))
  BY DEF Accepted, Failing
<1> HIDE DEF passed
<1>7. CASE AskGate(r, phase)
  <2> DEFINE s == Paused(passed, GateOf(phase), AfterGate(r, phase))
  <2>1. run' = s /\ store' = s /\ engine' = "idle" /\ role_map' = role_map
    BY <1>7 DEF AskGate, PauseForGate, passed
  <2>2. /\ s.flow = passed.flow /\ s.execute = passed.execute
        /\ s.phase_results = passed.phase_results /\ s.steps = passed.steps
        /\ s.retry_counts = passed.retry_counts /\ s.status = "pending"
        /\ s.current_phase = AfterGate(r, phase)
    BY <1>2 DEF Paused, Marks, RunState
  <2>3. AfterGate(r, phase) = Successor(r.flow, phase)
    BY <1>7 DEF AskGate, AfterGate, Successor
  <2> HIDE DEF s
  <2>4. Passes(r, s)
    BY <1>2, <1>6, <1>7, <2>2, <2>3 DEF AskGate, Passes, Marks, Elsewhere
  <2> QED BY <1>5, <2>1, <2>4
<1>8. CASE PassGate(r, phase)
  <2> DEFINE locked == AutoAcceptGate(passed, GateOf(phase))
  <2>1. /\ run' = [locked EXCEPT !.current_phase = AfterGate(r, phase)]
        /\ engine' = "loop" /\ store' = store /\ role_map' = role_map
    BY <1>8 DEF PassGate, Continue, passed
  <2>2. /\ locked \in RunState
        /\ locked = [passed EXCEPT !.gate_history = locked.gate_history]
    BY <1>2, AutoAcceptGateFacts DEF Marks, GateOf, GateTypes
  <2> HIDE DEF locked
  <2>3. /\ locked.flow = passed.flow /\ locked.execute = passed.execute
        /\ locked.phase_results = passed.phase_results /\ locked.steps = passed.steps
        /\ locked.retry_counts = passed.retry_counts /\ locked.status = passed.status
    BY <1>2, <2>2 DEF Marks, RunState
  <2>4. /\ run'.flow = locked.flow /\ run'.execute = locked.execute
        /\ run'.phase_results = locked.phase_results /\ run'.steps = locked.steps
        /\ run'.retry_counts = locked.retry_counts /\ run'.status = locked.status
        /\ run'.current_phase = AfterGate(r, phase)
    BY <2>1, <2>2 DEF RunState
  <2>5. AfterGate(r, phase) = Successor(r.flow, phase) /\ r.status = "in_progress"
    BY <1>8 DEF PassGate, AfterGate, Successor, Judged
  <2>6. Passes(r, run')
    BY <1>2, <1>6, <1>8, <2>3, <2>4, <2>5 DEF PassGate, Passes, Marks, Elsewhere
  <2> QED BY <1>5, <2>1, <2>6
<1>9. CASE Advance(r, phase)
  <2>1. /\ run' = [passed EXCEPT !.current_phase = NextPhaseAfterSuccess(r.flow, phase),
                                 !.status = "in_progress"]
        /\ engine' = "loop" /\ store' = store /\ role_map' = role_map
    BY <1>9 DEF Advance, Continue, passed
  <2>2. /\ run'.flow = passed.flow /\ run'.execute = passed.execute
        /\ run'.phase_results = passed.phase_results /\ run'.steps = passed.steps
        /\ run'.retry_counts = passed.retry_counts /\ run'.status = "in_progress"
        /\ run'.current_phase = NextPhaseAfterSuccess(r.flow, phase)
    BY <1>2, <2>1 DEF Marks, RunState
  <2>3. NextPhaseAfterSuccess(r.flow, phase) = Successor(r.flow, phase)
    BY <1>9 DEF Advance, Successor
  <2>4. Passes(r, run')
    BY <1>2, <1>6, <1>9, <2>2, <2>3 DEF Advance, Passes, Marks, Elsewhere
  <2> QED BY <1>5, <2>1, <2>4
<1> QED BY <1>3, <1>4, <1>7, <1>8, <1>9 DEF Evaluate

--------------------------------------------------------------------------------
(* The two awaits.                                                         *)

\* From a path, recording a result leads to Recording: it was due, and expected.
LEMMA RecordedPath ==
  ASSUME IInv, engine = "agent", Path(run, role_map), NEW verdict \in VerdictsOf(run.current_phase)
  PROVE  LET r == Recorded(verdict)
         IN  /\ Judged(r) /\ Recording(r, role_map)
             /\ LastResult(r).outcome = "none"
             /\ r.execute = run.execute /\ r.current_phase = run.current_phase
<1> DEFINE r == Recorded(verdict)
           result == [phase |-> run.current_phase, verdict |-> verdict, outcome |-> "none"]
           old == run.phase_results
           new == r.phase_results
           n == Len(old)
<1>1. /\ run \in RunState /\ run.status = "in_progress"
      /\ run.current_phase \in {"design", "implement", "debug", "verify", "review"}
      /\ role_map \in RoleMaps
  BY WorkFacts DEF IInv, TypeOK
<1>2. result \in PhaseResult /\ result.phase = run.current_phase /\ result.outcome = "none"
  BY <1>1 DEF PhaseResult, VerdictsOf, Verdicts, RunState
<1>3. Judged(r)
  BY RecordedFacts
<1>4. r = [run EXCEPT !.phase_results = Append(old, result)]
  BY DEF Recorded
<1> HIDE DEF result, r
<1>5. /\ r.flow = run.flow /\ r.execute = run.execute /\ r.steps = run.steps
      /\ r.current_phase = run.current_phase /\ r.status = run.status
      /\ r.retry_counts = run.retry_counts /\ new = Append(old, result)
  BY <1>1, <1>4 DEF RunState
<1>6. /\ old \in Seq(PhaseResult) /\ n \in Nat /\ Len(new) = n + 1 /\ new[n + 1] = result
      /\ \A i \in 1..n : new[i] = old[i]
  BY <1>1, <1>2, <1>5, AppendProperties DEF RunState
<1>7. Walked(r)
  BY <1>5 DEF Path, Walked
<1>8. Routed(r)
  <2>0. new[1].phase = FindNextPhase(run.flow, "clarify")
    <3>1. CASE old = <<>>
      BY <1>1, <1>2, <1>6, <3>1 DEF Path, Arrived, Led
    <3>2. CASE old # <<>>
      BY <1>6, <3>2 DEF Path, Routed
    <3> QED BY <3>1, <3>2
  <2>1. SUFFICES ASSUME NEW i \in 1..(Len(new) - 1)
                 PROVE  Leads(run.flow, new[i], new[i + 1].phase)
    BY <1>5, <2>0 DEF Routed
  <2>2. CASE i = n
    <3>1. n # 0 /\ old # <<>>
      BY <1>6, <2>1, <2>2
    <3>2. Leads(run.flow, old[n], run.current_phase)
      BY <1>1, <3>1 DEF Path, Arrived, Led, LastResult
    <3> QED BY <1>2, <1>6, <2>1, <2>2, <3>2
  <2>3. CASE i # n
    <3>1. i \in 1..(n - 1) /\ new[i] = old[i] /\ new[i + 1] = old[i + 1]
      BY <1>6, <2>1, <2>3
    <3> QED BY <3>1 DEF Path, Routed
  <2> QED BY <2>2, <2>3
<1>9. Verified(r)
  <2>1. SUFFICES ASSUME PlanContains(run.flow, "verify"), run.current_phase = "review"
                 PROVE  \E v \in 1..Len(new) : Verification(r, v)
    BY <1>1, <1>5 DEF Verified
  <2>2. PICK v \in 1..n : Verification(run, v)
    BY <1>1, <2>1 DEF Path, Verified
  <2>3. v \in 1..Len(new) /\ new[v] = old[v]
    BY <1>6, <2>2
  <2>4. ASSUME NEW i \in (v + 1)..Len(new) PROVE new[i].phase = "review"
    <3>1. i = n + 1 \/ (i \in (v + 1)..n /\ i \in 1..n)
      BY <1>6, <2>2, <2>4
    <3> QED BY <1>2, <1>6, <2>1, <2>2, <3>1 DEF Verification
  <2>5. Verification(r, v)
    BY <1>5, <2>2, <2>3, <2>4 DEF Verification
  <2> QED BY <2>3, <2>5
<1>10. BudgetLeft(r, role_map)
  <2> DEFINE D == CallsOf(run, "debug")
             I == CallsOf(run, "implement")
             V == CallsOf(run, "verify")
             R == CallsOf(run, "review")
             PD == Planned(run.flow, "debug")
             PI == Planned(run.flow, "implement")
             a == run.retry_counts["debugger"]
             b == run.retry_counts["implementer"]
             here == run.current_phase
  <2>1. /\ D \in Nat /\ I \in Nat /\ V \in Nat /\ R \in Nat
        /\ CallsOf(r, "debug") = D + (IF here = "debug" THEN 1 ELSE 0)
        /\ CallsOf(r, "implement") = I + (IF here = "implement" THEN 1 ELSE 0)
        /\ CallsOf(r, "verify") = V + (IF here = "verify" THEN 1 ELSE 0)
        /\ CallsOf(r, "review") = R + (IF here = "review" THEN 1 ELSE 0)
    <3> HIDE DEF old, new
    <3>1. run.phase_results \in Seq(PhaseResult) /\ r.phase_results = Append(run.phase_results, result)
      BY <1>5, <1>6 DEF old, new
    <3>2. D \in Nat /\ I \in Nat /\ V \in Nat /\ R \in Nat
      BY <3>1, CallsAreFinite
    <3>3. \A phase : CallsOf(r, phase) = CallsOf(run, phase) + (IF result.phase = phase THEN 1 ELSE 0)
      BY <1>2, <3>1, CallsAppend
    <3> QED BY <1>2, <3>2, <3>3
  <2>2. a \in Nat /\ b \in Nat /\ PD \in Nat /\ PI \in Nat
    BY <1>1 DEF RunState, RetryKeys, Planned
  <2>3. Covered(run, role_map, DueDebugs(here), DueImplements(here), DueValidations(here))
    BY <1>1 DEF Path, Budgeted
  <2>4. /\ D + DueDebugs(here) <= PD + a /\ I + DueImplements(here) <= PI + b
        /\ (V + R) + DueValidations(here) <= 2 * (1 + b) + a
        /\ a <= Limit(role_map, "debugger") /\ b <= Limit(role_map, "implementer")
    BY <2>3 DEF Covered, Validations
  <2>5. /\ r.retry_counts["debugger"] = a /\ r.retry_counts["implementer"] = b
        /\ Planned(r.flow, "debug") = PD /\ Planned(r.flow, "implement") = PI
        /\ r.current_phase = here
    BY <1>5
  <2> HIDE DEF D, I, V, R, PD, PI, a, b
  <2>6. CallsOf(r, "debug") + 0 <= PD + a
    BY <1>1, <2>1, <2>2, <2>4 DEF DueDebugs
  <2>7. CallsOf(r, "implement") + (IF here = "design" THEN 1 ELSE 0) <= PI + b
    BY <1>1, <2>1, <2>2, <2>4 DEF DueImplements
  <2>8. CallsOf(r, "verify") + CallsOf(r, "review")
          + (IF here = "review" THEN 0 ELSE IF here = "verify" THEN 1 ELSE 2) <= 2 * (1 + b) + a
    BY <1>1, <2>1, <2>2, <2>4 DEF DueValidations
  <2> QED BY <2>4, <2>5, <2>6, <2>7, <2>8 DEF BudgetLeft, Covered, Validations
<1>11. LastResult(r).outcome = "none"
  BY <1>2, <1>6 DEF LastResult
<1> QED BY <1>3, <1>5, <1>7, <1>8, <1>9, <1>10, <1>11 DEF Recording, r

\* Noting an outcome stays there.
LEMMA ExecutedPath ==
  ASSUME IInv, engine = "executor", Recording(run, role_map), NEW outcome \in {"done", "escalated"}
  PROVE  LET r == Executed(outcome)
         IN  /\ Judged(r) /\ Recording(r, role_map)
             /\ LastResult(r).outcome = outcome
             /\ r.execute = run.execute /\ r.current_phase = run.current_phase
<1> DEFINE r == Executed(outcome)
           old == run.phase_results
           new == r.phase_results
           n == Len(old)
           result == [old[n] EXCEPT !.outcome = outcome]
<1>1. /\ run \in RunState /\ run.status = "in_progress"
      /\ run.current_phase \in {"design", "implement", "debug", "verify", "review"}
      /\ old # <<>> /\ old[n].phase = run.current_phase
  BY WorkFacts DEF IInv, Ownership, LastResult
<1>2. old \in Seq(PhaseResult) /\ n \in Nat /\ n \in 1..Len(old)
  BY <1>1 DEF RunState
<1>3. /\ result \in PhaseResult /\ result.phase = run.current_phase /\ result.outcome = outcome
  <2>1. old[n] \in PhaseResult
    BY <1>2, ElementOfSeq
  <2> HIDE DEF old, n
  <2> QED BY <1>1, <2>1 DEF PhaseResult
<1>4. Judged(r)
  BY ExecutedFacts
<1>5. r = [run EXCEPT !.phase_results = [old EXCEPT ![n] = result]]
  BY DEF Executed
<1> HIDE DEF result, r
<1>6. /\ r.flow = run.flow /\ r.execute = run.execute /\ r.steps = run.steps
      /\ r.current_phase = run.current_phase /\ r.status = run.status
      /\ r.retry_counts = run.retry_counts /\ new = [old EXCEPT ![n] = result]
  BY <1>1, <1>5 DEF RunState
<1>7. /\ Len(new) = n /\ new[n] = result
      /\ \A i \in 1..n : i # n => new[i] = old[i]
  BY <1>2, <1>3, <1>6, ExceptSeq
<1>8. \A i \in 1..n : new[i].phase = old[i].phase
  BY <1>1, <1>3, <1>7
<1>9. Walked(r)
  BY <1>6 DEF Recording, Walked
<1>10. Routed(r)
  <2>0. new[1].phase = FindNextPhase(run.flow, "clarify")
    BY <1>1, <1>2, <1>8 DEF Recording, Routed
  <2>1. SUFFICES ASSUME NEW i \in 1..(n - 1) PROVE Leads(run.flow, new[i], new[i + 1].phase)
    BY <1>6, <1>7, <2>0 DEF Routed
  <2>2. i \in 1..n /\ i # n /\ i + 1 \in 1..n
    BY <1>2, <2>1
  <2>3. new[i] = old[i] /\ new[i + 1].phase = old[i + 1].phase
    BY <1>7, <1>8, <2>2
  <2> QED BY <2>1, <2>3 DEF Recording, Routed
<1>11. Verified(r)
  <2>1. SUFFICES ASSUME PlanContains(run.flow, "verify"), run.current_phase = "review"
                 PROVE  \E v \in 1..Len(new) : Verification(r, v)
    BY <1>1, <1>6 DEF Verified
  <2>2. PICK v \in 1..n : Verification(run, v)
    BY <1>1, <2>1 DEF Recording, Verified
  <2>3. v # n /\ new[v] = old[v]
    BY <1>1, <1>7, <2>1, <2>2 DEF Verification
  <2>4. ASSUME NEW i \in (v + 1)..n PROVE new[i].phase = "review"
    <3>1. i \in 1..n
      BY <1>2, <2>2, <2>4
    <3> QED BY <1>8, <2>2, <2>4, <3>1 DEF Verification
  <2>5. Verification(r, v)
    BY <1>6, <1>7, <2>2, <2>3, <2>4 DEF Verification
  <2> QED BY <1>7, <2>2, <2>5
<1>12. BudgetLeft(r, role_map)
  <2>1. /\ CallsOf(r, "debug") = CallsOf(run, "debug")
        /\ CallsOf(r, "implement") = CallsOf(run, "implement")
        /\ CallsOf(r, "verify") = CallsOf(run, "verify")
        /\ CallsOf(r, "review") = CallsOf(run, "review")
    BY <1>7, <1>8, CallsSame
  <2> QED BY <1>6, <2>1 DEF Recording, BudgetLeft, Covered, Validations
<1>13. LastResult(r).outcome = outcome
  BY <1>3, <1>7 DEF LastResult
<1> QED BY <1>4, <1>6, <1>9, <1>10, <1>11, <1>12, <1>13 DEF Recording, r

--------------------------------------------------------------------------------
(* The head of the loop, and the decisions.                                *)

\* Leaving CLARIFY: nothing has been called yet, and the whole plan is ahead.
LEMMA StartPath ==
  ASSUME NEW m \in RoleMaps, NEW r \in RunState, r.status # "escalated",
         r.current_phase = "clarify", Path(r, m),
         NEW s, Elsewhere(r, s), s.status # "escalated", s.retry_counts = r.retry_counts,
         s.current_phase = FindNextPhase(r.flow, "clarify"),
         PlanContains(r.flow, "clarify") => s.steps["clarify"] = "done"
  PROVE  Path(s, m)
<1> DEFINE next == s.current_phase
           a == r.retry_counts["debugger"]
           b == r.retry_counts["implementer"]
<1>1. /\ r.flow \in Flows /\ r.phase_results = <<>> /\ s.phase_results = <<>> /\ s.flow = r.flow
      /\ next = IF r.flow = "feature" THEN "design" ELSE IF r.flow = "bugfix" THEN "debug"
                ELSE IF r.flow = "review-only" THEN "review" ELSE "verify"
  BY PlannedPhases DEF RunState, Path, Arrived, Elsewhere
<1>2. Walked(s)
  <2>1. SUFFICES ASSUME NEW p \in Before(next), PlanContains(r.flow, p), p # "clarify" PROVE FALSE
    BY <1>1 DEF Walked
  <2> QED BY <1>1, <2>1, PlannedPhases DEF Before
<1>3. Routed(s) /\ Arrived(s) /\ Verified(s)
  BY <1>1, PlannedPhases DEF Routed, Arrived, Led, Verified
<1>4. /\ a \in Nat /\ b \in Nat /\ a <= Limit(m, "debugger") /\ b <= Limit(m, "implementer")
  BY <1>1 DEF RunState, RetryKeys, Path, Budgeted, Covered
<1>5. /\ CallsOf(s, "debug") = 0 /\ CallsOf(s, "implement") = 0 /\ Validations(s) = 0
  <2>1. \A phase : CallsOf(s, phase) = 0
    BY <1>1, CallsNone
  <2> QED BY <2>1 DEF Validations
<1>6. /\ next = "debug" => Planned(s.flow, "debug") = 1
      /\ next = "design" => Planned(s.flow, "implement") = 1
      /\ Planned(s.flow, "debug") \in Nat /\ Planned(s.flow, "implement") \in Nat
  BY <1>1, PlannedPhases DEF Planned
<1> HIDE DEF a, b
<1>7. /\ 0 + DueDebugs(next) <= Planned(s.flow, "debug") + a
      /\ 0 + DueImplements(next) <= Planned(s.flow, "implement") + b
      /\ 0 + DueValidations(next) <= 2 * (1 + b) + a
  BY <1>1, <1>4, <1>6 DEF DueDebugs, DueImplements, DueValidations
<1>8. Covered(s, m, DueDebugs(next), DueImplements(next), DueValidations(next))
  BY <1>4, <1>5, <1>7 DEF Covered, a, b
<1> QED BY <1>2, <1>3, <1>8 DEF Path, Budgeted

\* FINALIZE, when all that is left is to say so.
LEMMA FinishPath ==
  ASSUME NEW m \in RoleMaps, NEW r \in RunState, r.status # "escalated",
         r.current_phase = "finalize", Path(r, m),
         NEW s, Elsewhere(r, s), s.status # "escalated", s.retry_counts = r.retry_counts,
         s.current_phase = "completed",
         PlanContains(r.flow, "finalize") => s.steps["finalize"] = "done"
  PROVE  Path(s, m)
<1>1. s.flow = r.flow /\ s.execute = r.execute /\ s.phase_results = r.phase_results
      /\ r.phase_results \in Seq(PhaseResult)
  BY DEF Elsewhere, RunState
<1>2. Walked(s)
  <2>1. \A p \in Before("completed") : p = "finalize" \/ (p \in Before("finalize") /\ p # "finalize")
    BY DEF Before, Phases
  <2>2. \A p \in Before("completed") : p \in Phases
    BY DEF Before
  <2> QED BY <1>1, <2>1, <2>2 DEF Walked, Path, Elsewhere
<1>3. Routed(s) /\ Arrived(s) /\ Verified(s)
  BY <1>1 DEF Path, Routed, Arrived, Verified, Verification
<1>4. Covered(r, m, 0, 0, 0)
  BY DEF Path, Budgeted, DueDebugs, DueImplements, DueValidations
<1>5. /\ CallsOf(s, "debug") = CallsOf(r, "debug") /\ CallsOf(s, "implement") = CallsOf(r, "implement")
      /\ CallsOf(s, "verify") = CallsOf(r, "verify") /\ CallsOf(s, "review") = CallsOf(r, "review")
  BY <1>1, CallsSame
<1>6. Covered(s, m, 0, 0, 0)
  BY <1>1, <1>4, <1>5 DEF Covered, Validations
<1> QED BY <1>2, <1>3, <1>6 DEF Path, Budgeted, DueDebugs, DueImplements, DueValidations

\* What the steps at the head of the loop do to the path.
LEMMA HeadPath ==
  ASSUME IInv, PInv,
         AskClarification \/ AskRequirementsLock \/ LockRequirements \/ Finalize
           \/ MissingRole \/ InvokeAgent
  PROVE  /\ Path(run', role_map) /\ store' \in {run, run'}
         /\ engine' # "executor" /\ role_map' = role_map
<1>1. /\ run \in RunState /\ run.status = "in_progress" /\ Path(run, role_map)
      /\ role_map \in RoleMaps /\ run.flow \in Flows
  BY HeadFacts DEF PInv, IInv, TypeOK, RunState, AskClarification, AskRequirementsLock,
                   LockRequirements, Finalize, MissingRole, InvokeAgent, AtHead
<1>2. CASE AskClarification
  <2> DEFINE s == Paused(Clarifying, "clarification_required", "clarify")
  <2>1. Marks(run, Clarifying) /\ run.current_phase = "clarify"
    BY <1>1, <1>2, SetStepMarks DEF AskClarification, Clarifying, Statuses, Reasons
  <2>2. run' = s /\ store' = s /\ engine' = "idle" /\ role_map' = role_map
    BY <1>2 DEF AskClarification, PauseForGate
  <2>3. SameWay(run, s)
    BY <1>1, <2>1 DEF Paused, Marks, Elsewhere, SameWay, RunState
  <2> QED BY <1>1, <2>2, <2>3, SameWayPath
<1>3. CASE AskRequirementsLock
  <2> DEFINE next == FindNextPhase(run.flow, "clarify")
             s == Paused(Clarified, "requirements_locked", next)
  <2>1. /\ Marks(run, Clarified) /\ run.current_phase = "clarify"
        /\ PlanContains(run.flow, "clarify") => Clarified.steps["clarify"] = "done"
    BY <1>1, <1>3, SetStepMarks DEF AskRequirementsLock, Clarified, Statuses, Reasons
  <2>2. run' = s /\ store' = s /\ engine' = "idle" /\ role_map' = role_map
    BY <1>3 DEF AskRequirementsLock, PauseForGate
  <2> HIDE DEF next
  <2>3. /\ s.flow = Clarified.flow /\ s.execute = Clarified.execute
        /\ s.phase_results = Clarified.phase_results /\ s.steps = Clarified.steps
        /\ s.retry_counts = Clarified.retry_counts /\ s.status = "pending"
        /\ s.current_phase = next
    BY <2>1 DEF Paused, Marks, RunState
  <2> HIDE DEF s
  <2>4. Elsewhere(run, s)
    BY <2>1, <2>3 DEF Marks, Elsewhere
  <2>5. /\ s.status # "escalated" /\ s.retry_counts = run.retry_counts
        /\ s.current_phase = FindNextPhase(run.flow, "clarify")
        /\ PlanContains(run.flow, "clarify") => s.steps["clarify"] = "done"
    BY <2>1, <2>3 DEF Marks, next
  <2>6. Path(s, role_map)
    BY <1>1, <2>1, <2>4, <2>5, StartPath
  <2> QED BY <2>2, <2>6
<1>4. CASE LockRequirements
  <2> DEFINE next == FindNextPhase(run.flow, "clarify")
             locked == AutoAcceptGate(Clarified, "requirements_locked")
             s == [locked EXCEPT !.current_phase = next, !.status = "in_progress"]
  <2>1. /\ Marks(run, Clarified) /\ run.current_phase = "clarify"
        /\ PlanContains(run.flow, "clarify") => Clarified.steps["clarify"] = "done"
    BY <1>1, <1>4, SetStepMarks DEF LockRequirements, Clarified, Statuses, Reasons
  <2>2. run' = s /\ store' = run /\ engine' = "loop" /\ role_map' = role_map
    BY <1>4 DEF LockRequirements, AtHead, Continue
  <2>3. /\ locked \in RunState
        /\ locked = [Clarified EXCEPT !.gate_history = locked.gate_history]
    BY <2>1, AutoAcceptGateFacts DEF Marks, GateTypes
  <2> HIDE DEF next, locked
  <2>4. /\ locked.flow = Clarified.flow /\ locked.execute = Clarified.execute
        /\ locked.phase_results = Clarified.phase_results /\ locked.steps = Clarified.steps
        /\ locked.retry_counts = Clarified.retry_counts
    BY <2>1, <2>3 DEF Marks, RunState
  <2>5. /\ s.flow = locked.flow /\ s.execute = locked.execute
        /\ s.phase_results = locked.phase_results /\ s.steps = locked.steps
        /\ s.retry_counts = locked.retry_counts /\ s.status = "in_progress"
        /\ s.current_phase = next
    BY <2>3 DEF RunState
  <2> HIDE DEF s
  <2>6. Elsewhere(run, s)
    BY <2>1, <2>4, <2>5 DEF Marks, Elsewhere
  <2>7. /\ s.status # "escalated" /\ s.retry_counts = run.retry_counts
        /\ s.current_phase = FindNextPhase(run.flow, "clarify")
        /\ PlanContains(run.flow, "clarify") => s.steps["clarify"] = "done"
    BY <2>1, <2>4, <2>5 DEF Marks, next
  <2>8. Path(s, role_map)
    BY <1>1, <2>1, <2>6, <2>7, StartPath
  <2> QED BY <2>2, <2>8
<1>5. CASE Finalize
  <2> DEFINE marked == SetStepStatus(run, "finalize", "done")
             s == [marked EXCEPT !.current_phase = "completed", !.status = "done"]
  <2>1. /\ Marks(run, marked) /\ run.current_phase = "finalize"
        /\ PlanContains(run.flow, "finalize") => marked.steps["finalize"] = "done"
    BY <1>1, <1>5, SetStepMarks DEF Finalize, Statuses, Reasons
  <2>2. run' = s /\ store' = run /\ engine' = "loop" /\ role_map' = role_map
    BY <1>5 DEF Finalize, AtHead, Continue
  <2> HIDE DEF marked
  <2>3. /\ s.flow = marked.flow /\ s.execute = marked.execute
        /\ s.phase_results = marked.phase_results /\ s.steps = marked.steps
        /\ s.retry_counts = marked.retry_counts /\ s.status = "done"
        /\ s.current_phase = "completed"
    BY <2>1 DEF Marks, RunState
  <2> HIDE DEF s
  <2>4. Elsewhere(run, s)
    BY <2>1, <2>3 DEF Marks, Elsewhere
  <2>5. /\ s.status # "escalated" /\ s.retry_counts = run.retry_counts
        /\ PlanContains(run.flow, "finalize") => s.steps["finalize"] = "done"
    BY <2>1, <2>3 DEF Marks
  <2>6. Path(s, role_map)
    BY <1>1, <2>1, <2>3, <2>4, <2>5, FinishPath
  <2> QED BY <2>2, <2>6
<1>6. CASE MissingRole
  <2> DEFINE marked == SetStepStatus(run, run.current_phase, "escalated")
             s == [marked EXCEPT !.status = "escalated", !.escalation_reason = "role"]
  <2>1. Marks(run, marked)
    BY <1>1, SetStepMarks DEF Statuses, Reasons
  <2>2. run' = s /\ store' = run /\ engine' = "loop" /\ role_map' = role_map
    BY <1>6 DEF MissingRole, AtHead, Continue
  <2> HIDE DEF marked
  <2>3. SameWay(run, s)
    BY <2>1 DEF Marks, Elsewhere, SameWay, RunState
  <2> QED BY <1>1, <2>2, <2>3, SameWayPath
<1>7. CASE InvokeAgent
  <2>1. Marks(run, run')
    BY <1>1, <1>7, SetStepMarks DEF InvokeAgent, Statuses, Reasons
  <2>2. store' = run /\ engine' = "agent" /\ role_map' = role_map
    BY <1>7 DEF InvokeAgent, AtHead
  <2>3. SameWay(run, run')
    BY <1>1, <2>1 DEF Marks, Elsewhere, SameWay
  <2> QED BY <1>1, <2>2, <2>3, SameWayPath
<1> QED BY <1>2, <1>3, <1>4, <1>5, <1>6, <1>7

\* A decision leaves the run where it is.
LEMMA DecidePath ==
  ASSUME IInv, PInv, Decide
  PROVE  /\ Path(run', role_map) /\ store' = run'
         /\ engine' # "executor" /\ role_map' = role_map
<1>1. /\ store \in RunState /\ store.status = "pending" /\ OpenGate(store)
      /\ Path(store, role_map) /\ role_map \in RoleMaps
      /\ engine = "idle" /\ store.pending_gate # NoGate
  BY WaitingFacts DEF Decide, Approve, Reject, PInv, IInv, TypeOK
<1>2. ASSUME NEW status \in {"approved", "rejected"}
      PROVE  LET d == Decided(status)
             IN  /\ d \in RunState
                 /\ d.flow = store.flow /\ d.execute = store.execute
                 /\ d.current_phase = store.current_phase /\ d.phase_results = store.phase_results
                 /\ d.steps = store.steps /\ d.retry_counts = store.retry_counts
  <2> DEFINE d == Decided(status)
  <2>1. d \in RunState
    BY <1>1, DecidedFacts
  <2> QED BY <1>1, <2>1 DEF Decided, RunState
<1>3. CASE Approve
  <2> DEFINE d == Decided("approved")
             s == run'
  <2>1. store' = s /\ engine' = "loop" /\ role_map' = role_map
        /\ \/ /\ s = [d EXCEPT !.status = "in_progress", !.questions = FALSE,
                               !.current_phase = "clarify"]
              /\ store.pending_gate.type = "clarification_required"
           \/ s = [d EXCEPT !.status = "in_progress"]
    BY <1>3 DEF Approve
  <2>2. /\ d \in RunState
        /\ d.flow = store.flow /\ d.execute = store.execute
        /\ d.current_phase = store.current_phase /\ d.phase_results = store.phase_results
        /\ d.steps = store.steps /\ d.retry_counts = store.retry_counts
    BY <1>2
  <2> HIDE DEF d
  <2>3. /\ s.flow = d.flow /\ s.execute = d.execute /\ s.phase_results = d.phase_results
        /\ s.steps = d.steps /\ s.retry_counts = d.retry_counts /\ s.status = "in_progress"
        /\ s.current_phase = store.current_phase
    BY <1>1, <2>1, <2>2 DEF RunState, OpenGate
  <2>4. SameWay(store, s)
    BY <1>1, <2>2, <2>3 DEF SameWay
  <2> QED BY <1>1, <2>1, <2>4, SameWayPath
<1>4. CASE Reject
  <2> DEFINE d == Decided("rejected")
             s == run'
  <2>1. store' = s /\ engine' = "idle" /\ role_map' = role_map
        /\ s = [d EXCEPT !.status = "escalated", !.escalation_reason = "gate"]
    BY <1>1, <1>4 DEF Reject
  <2>2. /\ d \in RunState
        /\ d.flow = store.flow /\ d.execute = store.execute
        /\ d.current_phase = store.current_phase /\ d.phase_results = store.phase_results
        /\ d.steps = store.steps /\ d.retry_counts = store.retry_counts
    BY <1>2
  <2> HIDE DEF d
  <2>3. /\ s.flow = d.flow /\ s.execute = d.execute /\ s.phase_results = d.phase_results
        /\ s.steps = d.steps /\ s.status = "escalated"
        /\ s.current_phase = store.current_phase
    BY <2>1, <2>2 DEF RunState
  <2>4. SameWay(store, s)
    BY <2>2, <2>3 DEF SameWay
  <2> QED BY <1>1, <2>1, <2>4, SameWayPath
<1> QED BY <1>3, <1>4 DEF Decide

--------------------------------------------------------------------------------
(* The theorems.                                                           *)

\* From runs on their path to the invariant of the next state.
LEMMA PathMoves ==
  ASSUME NEW r, NEW t, run' = r, store' = t, role_map' = role_map, Path(t, role_map),
         IF engine' = "executor" THEN Recording(r, role_map) ELSE Path(r, role_map)
  PROVE  PInv'
BY DEF PInv, Path, Recording, Walked, Routed, Arrived, Led, Verified, Budgeted, BudgetLeft, InLimits,
       Covered, Validations, CallsOf, Verification, Leads, LastResult, Failing, Limit

\* A run starts on its path.
LEMMA InitPath == ASSUME Init PROVE PInv
<1>1. PICK flow \in Flows, mode \in ApprovalModes, execute, questions \in BOOLEAN :
        run = NewRun(flow, mode, execute, questions)
  BY DEF Init
<1>2. /\ run.status = "in_progress" /\ run.current_phase = "clarify" /\ run.phase_results = <<>>
      /\ run.retry_counts["debugger"] = 0 /\ run.retry_counts["implementer"] = 0
  BY <1>1 DEF NewRun, RetryKeys
<1>3. role_map \in RoleMaps /\ store = run /\ engine = "loop"
  BY DEF Init
<1>4. Walked(run) /\ Routed(run) /\ Arrived(run) /\ Verified(run)
  BY <1>2 DEF Walked, Before, Routed, Arrived, Verified
<1>5. /\ CallsOf(run, "debug") = 0 /\ CallsOf(run, "implement") = 0 /\ Validations(run) = 0
  <2>1. \A phase : CallsOf(run, phase) = 0
    BY <1>2, CallsNone
  <2> QED BY <2>1 DEF Validations
<1>6. /\ Planned(run.flow, "debug") \in Nat /\ Planned(run.flow, "implement") \in Nat
      /\ Limit(role_map, "debugger") \in Nat /\ Limit(role_map, "implementer") \in Nat
  BY <1>3, LimitsAreNat DEF Planned
<1>7. Budgeted(run, role_map)
  BY <1>2, <1>5, <1>6 DEF Budgeted, Covered, DueDebugs, DueImplements, DueValidations
<1> QED BY <1>3, <1>4, <1>7 DEF PInv, Path

\* Every step keeps the run and its save on the path.
LEMMA NextPath == ASSUME IInv, PInv, [Next]_vars PROVE PInv'
<1>1. role_map \in RoleMaps /\ Path(store, role_map)
  BY DEF IInv, TypeOK, PInv
<1>2. CASE UNCHANGED vars
  <2>1. run' = run /\ store' = store /\ engine' = engine /\ role_map' = role_map
    BY <1>2 DEF vars
  <2>2. IF engine' = "executor" THEN Recording(run, role_map) ELSE Path(run, role_map)
    BY <2>1 DEF PInv
  <2> QED BY <1>1, <2>1, <2>2, PathMoves
<1>3. CASE Return
  <2>1. run' = run /\ store' = run /\ engine' = "idle" /\ role_map' = role_map /\ Path(run, role_map)
    BY <1>3 DEF Return, AtHead, PInv
  <2> QED BY <2>1, PathMoves
<1>4. CASE AskClarification \/ AskRequirementsLock \/ LockRequirements \/ Finalize
             \/ MissingRole \/ InvokeAgent
  <2>1. /\ Path(run', role_map) /\ store' \in {run, run'}
        /\ engine' # "executor" /\ role_map' = role_map
    BY <1>4, HeadPath
  <2>2. Path(run, role_map)
    BY <1>4 DEF PInv, AskClarification, AskRequirementsLock, LockRequirements, Finalize,
                MissingRole, InvokeAgent, AtHead
  <2>3. Path(store', role_map)
    BY <2>1, <2>2
  <2> QED BY <2>1, <2>3, PathMoves
<1>5. ASSUME /\ Path(run', role_map) /\ store' \in {store, run'}
             /\ engine' # "executor" /\ role_map' = role_map
      PROVE  PInv'
  <2>1. Path(store', role_map)
    BY <1>1, <1>5
  <2> QED BY <1>5, <2>1, PathMoves
<1>6. CASE AgentReturns
  <2>1. engine = "agent" /\ ~ExecutorRuns(run) /\ Path(run, role_map)
    BY <1>6 DEF AgentReturns, PInv
  <2>2. PICK verdict \in VerdictsOf(run.current_phase) : Evaluate(Recorded(verdict))
    BY <1>6 DEF AgentReturns
  <2> DEFINE r == Recorded(verdict)
  <2>3. /\ Judged(r) /\ Recording(r, role_map) /\ LastResult(r).outcome = "none"
        /\ r.execute = run.execute /\ r.current_phase = run.current_phase
    BY <2>1, RecordedPath
  <2> HIDE DEF r
  <2>4. ~(r.execute /\ r.current_phase = "verify")
    BY <2>1, <2>3 DEF ExecutorRuns
  <2> QED BY <1>1, <1>5, <2>2, <2>3, <2>4, EvaluatePath DEF r
<1>7. CASE AgentReturnsToExecutor
  <2>1. engine = "agent" /\ engine' = "executor" /\ store' = store /\ role_map' = role_map
        /\ Path(run, role_map)
    BY <1>7 DEF AgentReturnsToExecutor, PInv
  <2>2. PICK verdict \in VerdictsOf(run.current_phase) : run' = Recorded(verdict)
    BY <1>7 DEF AgentReturnsToExecutor
  <2>3. Recording(Recorded(verdict), role_map)
    BY <2>1, RecordedPath
  <2> QED BY <1>1, <2>1, <2>2, <2>3, PathMoves
<1>8. CASE ExecutorSucceeds
  <2>1. engine = "executor" /\ Recording(run, role_map) /\ Evaluate(Executed("done"))
    BY <1>8 DEF ExecutorSucceeds, PInv
  <2>2. /\ Judged(Executed("done")) /\ Recording(Executed("done"), role_map)
        /\ LastResult(Executed("done")).outcome = "done"
    BY <2>1, ExecutedPath
  <2> QED BY <1>1, <1>5, <2>1, <2>2, EvaluatePath
<1>9. CASE ExecutorEscalates
  <2> DEFINE r == Executed("escalated")
             x == [SetStepStatus(r, run.current_phase, "failed") EXCEPT !.escalation_reason = "executor"]
  <2>1. engine = "executor" /\ Recording(run, role_map)
    BY <1>9 DEF ExecutorEscalates, PInv
  <2>2. /\ Judged(r) /\ Recording(r, role_map) /\ LastResult(r).outcome = "escalated"
        /\ r.current_phase = run.current_phase
    BY <2>1, ExecutedPath
  <2>3. /\ run' = EscalatePhase(x, run.current_phase)
        /\ engine' = "loop" /\ store' = store /\ role_map' = role_map
    BY <1>9 DEF ExecutorEscalates, Continue
  <2> HIDE DEF r
  <2>4. Marks(r, x)
    BY <2>2, SetStepMarks DEF Judged, Statuses, Reasons
  <2>5. AtResult(r) /\ Failing(LastResult(r))
    BY <2>2, JudgedAtResult DEF Failing
  <2> HIDE DEF x
  <2>6. Path(run', role_map)
    BY <1>1, <2>2, <2>3, <2>4, <2>5, EscalatePath
  <2> QED BY <1>5, <2>3, <2>6
<1>10. CASE LoseEngine
  <2>1. run' = store /\ store' = store /\ engine' = "idle" /\ role_map' = role_map
    BY <1>10 DEF LoseEngine
  <2> QED BY <1>1, <2>1, PathMoves
<1>11. CASE Decide
  BY <1>5, <1>11, DecidePath
<1> QED BY <1>2, <1>3, <1>4, <1>6, <1>7, <1>8, <1>9, <1>10, <1>11 DEF Next, EngineStep

\* Every reachable run is on its path, and so is what is saved of it.
THEOREM PathInvariance == Spec => []PInv
BY InitPath, NextPath, Invariance, PTL DEF Spec

\* Both phases of the invariant route alike.
LEMMA PathFacts ==
  ASSUME IInv, PInv
  PROVE  /\ Walked(run) /\ Routed(run) /\ Verified(run)
         /\ Path(run, role_map) \/ (BudgetLeft(run, role_map) /\ run.status # "escalated")
BY DEF PInv, Path, Recording, IInv, Ownership

\* A DONE run has passed every step of its plan, whatever detours it took.
THEOREM DoneIsComplete == Spec => []PlanCompleted
<1>1. ASSUME IInv, PInv PROVE PlanCompleted
  <2>1. SUFFICES ASSUME run.status = "done", NEW p \in Phases, PlanContains(run.flow, p)
                 PROVE  run.steps[p] = "done"
    BY DEF PlanCompleted
  <2>2. run.current_phase = "completed" /\ run.flow \in Flows
    BY <1>1, <2>1 DEF IInv, TypeOK, Sound, RunState
  <2>3. p \in Before("completed")
    BY <2>1, <2>2, PlannedPhases DEF Before
  <2> QED BY <1>1, <2>1, <2>2, <2>3, PathFacts DEF Walked
<1> QED BY <1>1, Invariance, PathInvariance, PTL

\* Results follow each other as the routing says: a verification that found blockers,
\* escalated or whose execution failed goes to the debugger, a done one to the review,
\* a review that found blockers to the implementer, and changes are validated.
THEOREM ResultsAreRouted == Spec => []Rerouted
<1>1. ASSUME IInv, PInv PROVE Rerouted
  BY <1>1, PathFacts DEF Routed, Leads, Rerouted
<1> QED BY <1>1, Invariance, PathInvariance, PTL

\* Nothing is released after a change that was not verified, where the plan verifies.
THEOREM ReleasesAreVerified == Spec => []VerifiedRelease
<1>1. ASSUME IInv, PInv PROVE VerifiedRelease
  <2>1. run.status = "done" => run.current_phase = "completed"
    BY <1>1 DEF IInv, Sound
  <2> QED BY <1>1, <2>1, PathFacts DEF Verified, Verification, VerifiedRelease
<1> QED BY <1>1, Invariance, PathInvariance, PTL

\* Debugger, implementer and validations are called within the plan and the retries
\* of their roles, however the two loops alternate.
THEOREM CallsAreBounded == Spec => []RetryBudget
<1>1. ASSUME IInv, PInv PROVE RetryBudget
  <2>1. /\ run.phase_results \in Seq(PhaseResult) /\ run.retry_counts \in [RetryKeys -> Nat]
        /\ role_map \in RoleMaps
    BY <1>1 DEF IInv, TypeOK, RunState
  <2>2. \A d, i, v \in Nat : Covered(run, role_map, d, i, v) => InLimits(run, role_map)
    BY <2>1, CoveredInLimits
  <2>3. InLimits(run, role_map)
    <3>1. CASE Path(run, role_map)
      <4>1. /\ DueDebugs(run.current_phase) \in Nat /\ DueImplements(run.current_phase) \in Nat
            /\ DueValidations(run.current_phase) \in Nat
        BY DuesAreNat DEF DueFacts
      <4> QED BY <2>2, <3>1, <4>1 DEF Path, Budgeted
    <3>2. CASE BudgetLeft(run, role_map)
      BY <2>2, <3>2 DEF BudgetLeft
    <3> QED BY <1>1, <3>1, <3>2, PathFacts
  <2>4. Limit(role_map, "debugger") = MaxRetries("debugger")
        /\ Limit(role_map, "implementer") = MaxRetries("implementer")
    BY DEF Limit, MaxRetries
  <2> QED BY <2>3, <2>4 DEF InLimits, Validations, RetryBudget
<1> QED BY <1>1, Invariance, PathInvariance, PTL

--------------------------------------------------------------------------------
(* Roles.  An invariant beside PInv: whoever has given a result, or is at  *)
(* work, is in the role map, and a run that stops for a missing role has   *)
(* stopped in the phase that asks for it.                                  *)

\* Whoever implements or debugs comes with those who verify and review it.
Covering(map) ==
  {"implementer", "debugger"} \cap DOMAIN map # {}
    => {"implementer", "debugger", "qa-engineer", "reviewer"} \subseteq DOMAIN map

\* Discovery finds them together, whatever it finds in a repository and whatever the
\* local agent files say, since a local file never takes a built-in agent away.
LEMMA DiscoveredTogether ==
  ASSUME NEW directories, NEW map \in MapsOf(Repositories, directories)
  PROVE  Covering(map)
<1>1. PICK repo \in Repositories, files \in directories :
        map = PhaseRoles(BuildRoleMap(<<>>, AgentSpecs(repo, files)))
  BY DEF MapsOf
<1>2. BuildRoleMap(<<>>, AgentSpecs(repo, files)) = AgentSpecs(repo, files)
  BY DEF BuildRoleMap
<1>3. Roles \subseteq DOMAIN Registry(files)
  BY DEF Registry, LoadFromDir, Builtin
<1>4. DOMAIN AgentSpecs(repo, files)
        = DOMAIN CustomSpecs(repo) \cup (Recommended(repo) \cap DOMAIN Registry(files))
  BY DEF AgentSpecs
<1>5. DOMAIN map = DOMAIN AgentSpecs(repo, files) \cap Roles
  BY <1>1, <1>2 DEF PhaseRoles
<1>6. DOMAIN CustomSpecs(repo) \cap Roles = {}
  BY DEF CustomSpecs, Roles
<1>7. DOMAIN map = Recommended(repo) \cap Roles
  BY <1>3, <1>4, <1>5, <1>6
<1>8. "implementer" \in Recommended(repo) \/ "debugger" \in Recommended(repo) => HasSource(repo)
  BY DEF Recommended
<1>9. HasSource(repo)
        => {"implementer", "debugger", "qa-engineer", "reviewer"} \subseteq Recommended(repo)
  BY DEF Recommended
<1> QED BY <1>7, <1>8, <1>9 DEF Roles, Covering

\* A run that stops for a missing role has been led to a phase that needs it.  As the
\* role has no retries, it can be asked to correct only where the plan asks it.
Unstaffed(r, m) ==
  /\ r.status = "escalated"
  /\ r.current_phase \in {"design", "implement", "debug", "verify", "review"}
  /\ RoleForPhase(r.current_phase) \notin DOMAIN m
  /\ Led(r)
  /\ r.current_phase \in {"implement", "debug"} => PlanContains(r.flow, r.current_phase)

Staffed(r, m) ==
  /\ \A i \in 1..Len(r.phase_results) : RoleForPhase(r.phase_results[i].phase) \in DOMAIN m
  /\ r.escalation_reason = "role" => Unstaffed(r, m)

RInv ==
  /\ Staffed(run, role_map) /\ Staffed(store, role_map)
  /\ engine \in {"agent", "executor"} => RoleForPhase(run.current_phase) \in DOMAIN role_map

\* The results are the same, and no role is missing.
Unblocked(r, x) == x.phase_results = r.phase_results /\ x.escalation_reason # "role"

\* A run without a missing role needs only its results staffed.
LEMMA UnblockedStaffed ==
  ASSUME NEW r, NEW x, NEW m, Staffed(r, m), Unblocked(r, x)
  PROVE  Staffed(x, m)
BY DEF Staffed, Unblocked

\* Marking a step touches neither results nor reason.
LEMMA SetStepUnblocked ==
  ASSUME NEW r \in RunState, NEW phase, NEW status, r.escalation_reason # "role"
  PROVE  LET x == SetStepStatus(r, phase, status)
         IN  /\ Unblocked(r, x)
             /\ x = [x EXCEPT !.steps = x.steps]
             /\ DOMAIN x = DOMAIN r
BY DEF SetStepStatus, Unblocked, RunState

\* What the loop does with a result leaves the results alone and misses no role.
LEMMA EvaluateUnblocked ==
  ASSUME NEW r, Judged(r), r.escalation_reason # "role", Evaluate(r)
  PROVE  /\ Unblocked(r, run') /\ store' \in {store, run'}
         /\ engine' \notin {"agent", "executor"} /\ role_map' = role_map
<1> DEFINE phase == r.current_phase
           passed == SetStepStatus(r, phase, "done")
<1>1. r \in RunState /\ phase \in Phases
  BY DEF Judged, Phases
<1>2. passed \in RunState /\ Unblocked(r, passed)
  BY <1>1, SetStepStatusFacts, SetStepUnblocked DEF Statuses
<1>3. ASSUME NEW x \in RunState, Unblocked(r, x), NEW role, NEW next, NEW spent \in RunState,
             Unblocked(r, spent)
      PROVE  Unblocked(r, RetryOrEscalate(x, role, next, spent))
  BY <1>3 DEF RetryOrEscalate, Unblocked, RunState
<1>4. ASSUME NEW status \in Statuses, NEW reason \in Reasons \ {"role"}
      PROVE  LET x == [SetStepStatus(r, phase, status) EXCEPT !.escalation_reason = reason]
             IN  x \in RunState /\ Unblocked(r, x)
  <2> DEFINE s == SetStepStatus(r, phase, status)
  <2>1. s \in RunState /\ Unblocked(r, s)
    BY <1>1, SetStepStatusFacts, SetStepUnblocked
  <2> HIDE DEF s
  <2>2. [s EXCEPT !.escalation_reason = reason] \in RunState
        /\ Unblocked(r, [s EXCEPT !.escalation_reason = reason])
    BY <2>1 DEF RunState, Unblocked
  <2> QED BY <2>2 DEF s
<1>5. CASE Escalated(r, phase)
  <2> DEFINE x == [SetStepStatus(r, phase, "escalated") EXCEPT !.escalation_reason = "agent"]
  <2>1. x \in RunState /\ Unblocked(r, x)
    BY <1>4 DEF Statuses, Reasons
  <2>2. run' = EscalatePhase(x, phase) /\ engine' = "loop" /\ store' = store /\ role_map' = role_map
    BY <1>5 DEF Escalated, Continue
  <2> HIDE DEF x
  <2>3. Unblocked(r, EscalatePhase(x, phase))
    <3>1. CASE phase = "verify"
      BY <1>3, <2>1, <3>1 DEF EscalatePhase
    <3>2. CASE phase # "verify"
      BY <2>1, <3>2 DEF EscalatePhase, RunState, Unblocked
    <3> QED BY <3>1, <3>2
  <2> QED BY <2>2, <2>3
<1>6. CASE Rework(r, phase)
  <2> DEFINE spent == Exhausted(r, phase)
  <2>1. spent \in RunState /\ Unblocked(r, spent)
    BY <1>4 DEF Exhausted, Statuses, Reasons
  <2>2. engine' = "loop" /\ store' = store /\ role_map' = role_map
        /\ \/ run' = RetryOrEscalate(passed, "debugger", "debug", spent)
           \/ run' = RetryOrEscalate(passed, "implementer", "implement", spent)
    BY <1>6 DEF Rework, Continue
  <2> HIDE DEF passed, spent
  <2> QED BY <1>2, <1>3, <2>1, <2>2
<1>7. CASE AskGate(r, phase)
  <2>1. /\ run' = Paused(passed, GateOf(phase), AfterGate(r, phase)) /\ store' = run'
        /\ engine' = "idle" /\ role_map' = role_map
    BY <1>7 DEF AskGate, PauseForGate
  <2> HIDE DEF passed
  <2> QED BY <1>2, <2>1 DEF Paused, RunState, Unblocked
<1>8. CASE PassGate(r, phase)
  <2>1. /\ run' = [AutoAcceptGate(passed, GateOf(phase)) EXCEPT !.current_phase = AfterGate(r, phase)]
        /\ engine' = "loop" /\ store' = store /\ role_map' = role_map
    BY <1>8 DEF PassGate, Continue
  <2> HIDE DEF passed
  <2> QED BY <1>2, <2>1 DEF AutoAcceptGate, RunState, Unblocked
<1>9. CASE Advance(r, phase)
  <2>1. /\ run' = [passed EXCEPT !.current_phase = NextPhaseAfterSuccess(r.flow, phase),
                                 !.status = "in_progress"]
        /\ engine' = "loop" /\ store' = store /\ role_map' = role_map
    BY <1>9 DEF Advance, Continue
  <2> HIDE DEF passed
  <2> QED BY <1>2, <2>1 DEF RunState, Unblocked
<1> QED BY <1>5, <1>6, <1>7, <1>8, <1>9 DEF Evaluate

\* A run on its path, in a phase whose role is missing.
LEMMA UnstaffedIsLed ==
  ASSUME IInv, PInv, engine = "loop", run.status \notin Terminal,
         run.current_phase \in {"design", "implement", "debug", "verify", "review"},
         RoleForPhase(run.current_phase) \notin DOMAIN role_map
  PROVE  /\ Led(run)
         /\ run.current_phase \in {"implement", "debug"} => PlanContains(run.flow, run.current_phase)
<1>1. /\ Arrived(run) /\ Budgeted(run, role_map) /\ run.status # "escalated"
      /\ run.phase_results \in Seq(PhaseResult) /\ run.retry_counts \in [RetryKeys -> Nat]
  BY DEF PInv, Path, Terminal, IInv, TypeOK, RunState
<1>2. CallsOf(run, "debug") \in Nat /\ CallsOf(run, "implement") \in Nat
  BY <1>1, CallsAreFinite
<1>3. run.retry_counts["debugger"] \in Nat /\ run.retry_counts["implementer"] \in Nat
  BY <1>1 DEF RetryKeys
<1>4. Covered(run, role_map, DueDebugs(run.current_phase), DueImplements(run.current_phase),
              DueValidations(run.current_phase))
  BY <1>1 DEF Budgeted
<1>5. CASE run.current_phase = "debug"
  <2>1. Limit(role_map, "debugger") = 0
    BY <1>5 DEF Limit, RoleForPhase
  <2>2. CallsOf(run, "debug") + 1 <= Planned(run.flow, "debug") + run.retry_counts["debugger"]
        /\ run.retry_counts["debugger"] <= 0
    BY <1>4, <1>5, <2>1 DEF Covered, DueDebugs
  <2>3. Planned(run.flow, "debug") # 0
    BY <1>2, <1>3, <2>2
  <2> QED BY <1>1, <1>5, <2>3 DEF Planned, Arrived
<1>6. CASE run.current_phase = "implement"
  <2>1. Limit(role_map, "implementer") = 0
    BY <1>6 DEF Limit, RoleForPhase
  <2>2. CallsOf(run, "implement") + 1 <= Planned(run.flow, "implement") + run.retry_counts["implementer"]
        /\ run.retry_counts["implementer"] <= 0
    BY <1>4, <1>6, <2>1 DEF Covered, DueImplements
  <2>3. Planned(run.flow, "implement") # 0
    BY <1>2, <1>3, <2>2
  <2> QED BY <1>1, <1>6, <2>3 DEF Planned, Arrived
<1>7. CASE run.current_phase \notin {"debug", "implement"}
  BY <1>1, <1>7 DEF Arrived
<1> QED BY <1>5, <1>6, <1>7

\* The head of the loop misses a role only in MissingRole, and calls an agent only
\* whose role is there.
LEMMA HeadStaffed ==
  ASSUME IInv, PInv, RInv,
         AskClarification \/ AskRequirementsLock \/ LockRequirements \/ Finalize
           \/ MissingRole \/ InvokeAgent
  PROVE  RInv'
<1>1. /\ run \in RunState /\ run.status \notin Terminal /\ store' \in {run, run'}
      /\ role_map' = role_map /\ run.escalation_reason # "role" /\ engine = "loop"
  <2>1. run \in RunState /\ engine = "loop" /\ run.status \notin Terminal
        /\ store' \in {run, run'} /\ role_map' = role_map
    BY DEF IInv, TypeOK, AskClarification, AskRequirementsLock, LockRequirements, Finalize,
           MissingRole, InvokeAgent, AtHead, Continue, PauseForGate
  <2> QED BY <2>1 DEF RInv, Staffed, Unstaffed, Terminal
<1>2. ASSUME Unblocked(run, run'),
             engine' \in {"agent", "executor"} => RoleForPhase(run'.current_phase) \in DOMAIN role_map
      PROVE  RInv'
  <2>1. Staffed(run', role_map)
    BY <1>2, UnblockedStaffed DEF RInv
  <2>2. Staffed(run, role_map)
    BY DEF RInv
  <2>3. Staffed(store', role_map)
    BY <1>1, <2>1, <2>2
  <2> QED BY <1>1, <1>2, <2>1, <2>3 DEF RInv
<1>3. ASSUME NEW phase \in Phases, NEW status \in Statuses
      PROVE  SetStepStatus(run, phase, status) \in RunState
             /\ Unblocked(run, SetStepStatus(run, phase, status))
             /\ SetStepStatus(run, phase, status).current_phase = run.current_phase
             /\ SetStepStatus(run, phase, status).flow = run.flow
  BY <1>1, SetStepStatusFacts, SetStepUnblocked DEF SameControl
<1> DEFINE asking == SetStepStatus(run, "clarify", "in_progress")
           clarified == SetStepStatus(run, "clarify", "done")
<1>4. asking \in RunState /\ Unblocked(run, asking)
      /\ clarified \in RunState /\ Unblocked(run, clarified)
  BY <1>3 DEF Phases, Statuses
<1>5. CASE AskClarification
  <2>1. run' = Paused(asking, "clarification_required", "clarify") /\ engine' = "idle"
    BY <1>5 DEF AskClarification, Clarifying, PauseForGate
  <2> HIDE DEF asking, clarified
  <2>2. Unblocked(run, run')
    BY <1>4, <2>1 DEF Paused, RunState, Unblocked
  <2> QED BY <1>2, <2>1, <2>2
<1>6. CASE AskRequirementsLock
  <2>1. run' = Paused(clarified, "requirements_locked", FindNextPhase(run.flow, "clarify"))
        /\ engine' = "idle"
    BY <1>6 DEF AskRequirementsLock, Clarified, PauseForGate
  <2> HIDE DEF asking, clarified
  <2>2. Unblocked(run, run')
    BY <1>4, <2>1 DEF Paused, RunState, Unblocked
  <2> QED BY <1>2, <2>1, <2>2
<1>7. CASE LockRequirements
  <2>1. run' = [AutoAcceptGate(clarified, "requirements_locked") EXCEPT
                  !.current_phase = FindNextPhase(run.flow, "clarify"), !.status = "in_progress"]
        /\ engine' = "loop"
    BY <1>7 DEF LockRequirements, Clarified, Continue
  <2> HIDE DEF asking, clarified
  <2>2. Unblocked(run, run')
    BY <1>4, <2>1 DEF AutoAcceptGate, RunState, Unblocked
  <2> QED BY <1>2, <2>1, <2>2
<1>8. CASE Finalize
  <2> DEFINE x == SetStepStatus(run, "finalize", "done")
  <2>1. x \in RunState /\ Unblocked(run, x)
    BY <1>3 DEF Phases, Statuses
  <2>2. run' = [x EXCEPT !.current_phase = "completed", !.status = "done"] /\ engine' = "loop"
    BY <1>8 DEF Finalize, Continue
  <2> HIDE DEF x
  <2>3. Unblocked(run, run')
    BY <2>1, <2>2 DEF RunState, Unblocked
  <2> QED BY <1>2, <2>2, <2>3
<1>9. CASE MissingRole
  <2> DEFINE x == SetStepStatus(run, run.current_phase, "escalated")
  <2>1. x \in RunState /\ Unblocked(run, x) /\ x.current_phase = run.current_phase
        /\ x.flow = run.flow
    BY <1>1, <1>3 DEF RunState, Statuses
  <2>2. run' = [x EXCEPT !.status = "escalated", !.escalation_reason = "role"] /\ engine' = "loop"
        /\ RoleForPhase(run.current_phase) \notin DOMAIN role_map /\ store' = run
        /\ run.current_phase \in {"design", "implement", "debug", "verify", "review"}
    BY <1>9 DEF MissingRole, Continue, AtHead, AgentPhase
  <2> HIDE DEF x
  <2>3. run'.phase_results = run.phase_results /\ run'.current_phase = run.current_phase
        /\ run'.flow = run.flow /\ run'.status = "escalated"
    BY <2>1, <2>2 DEF RunState, Unblocked
  <2>4. Led(run) /\ (run.current_phase \in {"implement", "debug"}
                        => PlanContains(run.flow, run.current_phase))
    BY <1>1, <2>2, UnstaffedIsLed
  <2>5. Staffed(run, role_map)
    BY DEF RInv
  <2>6. Staffed(run', role_map)
    BY <2>2, <2>3, <2>4, <2>5 DEF Staffed, Unstaffed, Led, LastResult
  <2> QED BY <1>1, <2>2, <2>5, <2>6 DEF RInv
<1>10. CASE InvokeAgent
  <2>1. run' = SetStepStatus(run, run.current_phase, "in_progress")
        /\ RoleForPhase(run.current_phase) \in DOMAIN role_map
    BY <1>10 DEF InvokeAgent
  <2>2. Unblocked(run, run') /\ run'.current_phase = run.current_phase
    BY <1>1, <1>3, <2>1 DEF RunState, Statuses
  <2> QED BY <1>2, <2>1, <2>2
<1> QED BY <1>5, <1>6, <1>7, <1>8, <1>9, <1>10

\* Recording a result, and what the executor made of it, adds nobody who is not there.
LEMMA RecordedStaffed ==
  ASSUME IInv, RInv
  PROVE  /\ \A verdict : engine = "agent" =>
              Staffed(Recorded(verdict), role_map) /\ Recorded(verdict).escalation_reason # "role"
         /\ \A outcome : engine = "executor" =>
              Staffed(Executed(outcome), role_map) /\ Executed(outcome).escalation_reason # "role"
<1>1. run \in RunState /\ Staffed(run, role_map)
  BY DEF IInv, TypeOK, RInv
<1>2. engine \in {"agent", "executor"} =>
        RoleForPhase(run.current_phase) \in DOMAIN role_map /\ run.escalation_reason # "role"
  BY WorkFacts DEF RInv, Staffed, Unstaffed
<1> DEFINE old == run.phase_results
           n == Len(old)
<1>3. old \in Seq(PhaseResult) /\ n \in Nat
  BY <1>1 DEF RunState
<1>4. ASSUME NEW verdict, engine = "agent"
      PROVE  Staffed(Recorded(verdict), role_map) /\ Recorded(verdict).escalation_reason # "role"
  <2> DEFINE result == [phase |-> run.current_phase, verdict |-> verdict, outcome |-> "none"]
             r == Recorded(verdict)
  <2>1. r.phase_results = Append(old, result) /\ r.escalation_reason # "role"
    BY <1>1, <1>2, <1>4 DEF Recorded, RunState
  <2>2. result.phase = run.current_phase
    OBVIOUS
  <2> HIDE DEF result, r
  <2>3. /\ Len(Append(old, result)) = n + 1 /\ Append(old, result)[n + 1] = result
        /\ \A i \in 1..n : Append(old, result)[i] = old[i]
    BY <1>3
  <2>4. \A i \in 1..(n + 1) : i \in 1..n \/ i = n + 1
    BY <1>3
  <2>5. Staffed(r, role_map)
    BY <1>1, <1>2, <1>4, <2>1, <2>2, <2>3, <2>4 DEF Staffed
  <2> QED BY <2>1, <2>5 DEF r
<1>5. ASSUME NEW outcome, engine = "executor"
      PROVE  Staffed(Executed(outcome), role_map) /\ Executed(outcome).escalation_reason # "role"
  <2> DEFINE r == Executed(outcome)
  <2>1. r.phase_results = [old EXCEPT ![n].outcome = outcome] /\ r.escalation_reason # "role"
    BY <1>1, <1>2, <1>5 DEF Executed, RunState
  <2> HIDE DEF r
  <2>2. \A i \in 1..n : old[i] \in PhaseResult
    BY <1>3
  <2>3. Len(r.phase_results) = n
    BY <1>3, <2>1
  <2>4. \A i \in 1..n : r.phase_results[i].phase = old[i].phase
    BY <1>3, <2>1, <2>2 DEF PhaseResult
  <2>5. Staffed(r, role_map)
    BY <1>1, <2>1, <2>3, <2>4 DEF Staffed
  <2> QED BY <2>1, <2>5 DEF r
<1> QED BY <1>4, <1>5

\* Every step keeps the invariant.
LEMMA NextStaffed == ASSUME IInv, PInv, RInv, [Next]_vars PROVE RInv'
<1>1. Staffed(run, role_map) /\ Staffed(store, role_map) /\ run \in RunState /\ store \in RunState
  BY DEF RInv, IInv, TypeOK
<1>2. ASSUME Staffed(run', role_map), store' \in {store, run, run'}, role_map' = role_map,
             engine' \notin {"agent", "executor"}
      PROVE  RInv'
  <2>1. Staffed(store', role_map)
    BY <1>1, <1>2
  <2> QED BY <1>2, <2>1 DEF RInv
<1>3. CASE UNCHANGED vars
  BY <1>3 DEF vars, RInv, Staffed, Unstaffed
<1>4. CASE Return
  BY <1>1, <1>2, <1>4 DEF Return, AtHead
<1>5. CASE AskClarification \/ AskRequirementsLock \/ LockRequirements \/ Finalize
             \/ MissingRole \/ InvokeAgent
  BY <1>5, HeadStaffed
<1>6. CASE AgentReturns
  <2>1. PICK verdict \in VerdictsOf(run.current_phase) : Evaluate(Recorded(verdict))
    BY <1>6 DEF AgentReturns
  <2>2. engine = "agent"
    BY <1>6 DEF AgentReturns
  <2>3. Judged(Recorded(verdict)) /\ Staffed(Recorded(verdict), role_map)
        /\ Recorded(verdict).escalation_reason # "role"
    BY <2>2, RecordedFacts, RecordedStaffed
  <2>4. /\ Unblocked(Recorded(verdict), run') /\ store' \in {store, run'}
        /\ engine' \notin {"agent", "executor"} /\ role_map' = role_map
    BY <2>1, <2>3, EvaluateUnblocked
  <2>5. Staffed(run', role_map)
    BY <2>3, <2>4, UnblockedStaffed
  <2> QED BY <1>2, <2>4, <2>5
<1>7. CASE AgentReturnsToExecutor
  <2>1. PICK verdict \in VerdictsOf(run.current_phase) : run' = Recorded(verdict)
    BY <1>7 DEF AgentReturnsToExecutor
  <2>2. engine = "agent" /\ engine' = "executor" /\ store' = store /\ role_map' = role_map
    BY <1>7 DEF AgentReturnsToExecutor
  <2>3. Staffed(run', role_map) /\ run'.current_phase = run.current_phase
    BY <2>1, <2>2, RecordedFacts, RecordedStaffed
  <2> QED BY <1>1, <2>2, <2>3 DEF RInv
<1>8. CASE ExecutorSucceeds
  <2>1. engine = "executor" /\ Evaluate(Executed("done"))
    BY <1>8 DEF ExecutorSucceeds
  <2>2. Judged(Executed("done")) /\ Staffed(Executed("done"), role_map)
        /\ Executed("done").escalation_reason # "role"
    BY <2>1, ExecutedFacts, RecordedStaffed
  <2>3. /\ Unblocked(Executed("done"), run') /\ store' \in {store, run'}
        /\ engine' \notin {"agent", "executor"} /\ role_map' = role_map
    BY <2>1, <2>2, EvaluateUnblocked
  <2>4. Staffed(run', role_map)
    BY <2>2, <2>3, UnblockedStaffed
  <2> QED BY <1>2, <2>3, <2>4
<1>9. CASE ExecutorEscalates
  <2> DEFINE r == Executed("escalated")
             s == SetStepStatus(r, run.current_phase, "failed")
             x == [s EXCEPT !.escalation_reason = "executor"]
  <2>1. engine = "executor" /\ run' = EscalatePhase(x, run.current_phase)
        /\ engine' = "loop" /\ store' = store /\ role_map' = role_map
    BY <1>9 DEF ExecutorEscalates, Continue
  <2>2. r \in RunState /\ Staffed(r, role_map) /\ r.escalation_reason # "role"
    BY <2>1, ExecutedFacts, RecordedStaffed DEF Judged
  <2> HIDE DEF r
  <2>3. s \in RunState /\ Unblocked(r, s)
    BY <1>1, <2>2, SetStepStatusFacts, SetStepUnblocked DEF RunState, Statuses
  <2> HIDE DEF s
  <2>4. x \in RunState /\ Unblocked(r, x)
    BY <2>3 DEF RunState, Unblocked, Reasons
  <2> HIDE DEF x
  <2>5. Unblocked(r, EscalatePhase(x, run.current_phase))
    BY <2>4 DEF EscalatePhase, RetryOrEscalate, RunState, Unblocked
  <2>6. Staffed(run', role_map)
    BY <2>1, <2>2, <2>5, UnblockedStaffed
  <2> QED BY <1>2, <2>1, <2>6
<1>10. CASE LoseEngine
  BY <1>1, <1>2, <1>10 DEF LoseEngine
<1>11. CASE Decide
  <2>1. store.escalation_reason # "role"
    BY <1>1, <1>11 DEF Decide, Approve, Reject, IInv, Sound, Staffed, Unstaffed
  <2>2. Unblocked(store, run') /\ store' = run' /\ role_map' = role_map
        /\ engine' \notin {"agent", "executor"}
    <3>1. ASSUME NEW status
          PROVE  /\ Decided(status).phase_results = store.phase_results
                 /\ Decided(status).escalation_reason = store.escalation_reason
                 /\ DOMAIN Decided(status) = DOMAIN store
      BY <1>1 DEF Decided, RunState
    <3>2. CASE Approve
      <4> DEFINE d == Decided("approved")
      <4>1. run' = [d EXCEPT !.status = "in_progress", !.questions = FALSE, !.current_phase = "clarify"]
            \/ run' = [d EXCEPT !.status = "in_progress"]
        BY <3>2 DEF Approve
      <4>2. store' = run' /\ role_map' = role_map /\ engine' = "loop"
        BY <3>2 DEF Approve
      <4>3. /\ DOMAIN d = DOMAIN store /\ d.phase_results = store.phase_results
            /\ d.escalation_reason = store.escalation_reason
        BY <3>1
      <4> HIDE DEF d
      <4>4. run'.phase_results = store.phase_results
            /\ run'.escalation_reason = store.escalation_reason
        BY <1>1, <4>1, <4>3 DEF RunState
      <4> QED BY <2>1, <4>2, <4>4 DEF Unblocked
    <3>3. CASE Reject
      <4> DEFINE d == Decided("rejected")
      <4>1. run' = [d EXCEPT !.status = "escalated", !.escalation_reason = "gate"]
            /\ store' = run' /\ role_map' = role_map /\ engine' = "idle"
        BY <3>3 DEF Reject
      <4>2. DOMAIN d = DOMAIN store /\ d.phase_results = store.phase_results
        BY <3>1
      <4> HIDE DEF d
      <4>3. run'.phase_results = store.phase_results /\ run'.escalation_reason = "gate"
        BY <1>1, <4>1, <4>2 DEF RunState
      <4> QED BY <4>1, <4>3 DEF Unblocked
    <3> QED BY <1>11, <3>2, <3>3 DEF Decide
  <2>3. Staffed(run', role_map)
    BY <1>1, <2>2, UnblockedStaffed
  <2> QED BY <1>2, <2>2, <2>3
<1> QED BY <1>3, <1>4, <1>5, <1>6, <1>7, <1>8, <1>9, <1>10, <1>11 DEF Next, EngineStep

\* It holds of every reachable state.
LEMMA StaffedInvariance == Spec => []RInv
<1>1. Init => RInv
  BY DEF Init, NewRun, RInv, Staffed
<1> QED BY <1>1, NextStaffed, Invariance, PathInvariance, PTL DEF Spec

\* Over the role maps that repo_analyzer discovers, in any repository and with any
\* local agent files, a run that stops for a missing role has called at most one agent,
\* an architect or, to generate tests, the QA engineer, and it did not fail.
THEOREM MissingRoleStopsEarly ==
  ASSUME NEW directories, RoleMaps \subseteq MapsOf(Repositories, directories)
  PROVE  Spec => []StopsBeforeImplementing
<1>1. ASSUME IInv, PInv, RInv PROVE StopsBeforeImplementing
  <2> DEFINE results == run.phase_results
             n == Len(results)
  <2>1. SUFFICES ASSUME run.escalation_reason = "role", results # <<>>
                 PROVE  /\ n = 1 /\ ~Failing(results[1])
                        /\ \/ results[1].phase = "design"
                           \/ results[1].phase = "verify" /\ run.flow = "test-generation"
    BY DEF StopsBeforeImplementing
  <2>2. Covering(role_map) /\ run.flow \in Flows /\ n \in Nat /\ n # 0
    BY <1>1, <2>1, DiscoveredTogether DEF IInv, TypeOK, RunState
  <2>3. /\ \A i \in 1..n : RoleForPhase(results[i].phase) \in DOMAIN role_map
        /\ Unstaffed(run, role_map)
    BY <1>1, <2>1 DEF RInv, Staffed
  <2>4. Leads(run.flow, results[n], run.current_phase)
    BY <2>1, <2>3 DEF Unstaffed, Led, LastResult
  <2>5. run.current_phase # "design"
    BY <2>2, <2>4, PlannedPhases DEF Leads
  <2>6. \A i \in 1..n : results[i].phase \notin {"implement", "debug"}
    <3>1. SUFFICES ASSUME NEW i \in 1..n, results[i].phase \in {"implement", "debug"} PROVE FALSE
      OBVIOUS
    <3>2. {"implementer", "debugger", "qa-engineer", "reviewer"} \subseteq DOMAIN role_map
      BY <2>2, <2>3, <3>1 DEF Covering, RoleForPhase
    <3> QED BY <2>3, <2>5, <3>2 DEF Unstaffed, RoleForPhase
  <2>7. /\ run.current_phase = "implement" => run.flow = "feature"
        /\ run.current_phase = "debug" => run.flow = "bugfix"
    BY <2>2, <2>3, PlannedPhases DEF Unstaffed
  <2>8. /\ results[1].phase = FindNextPhase(run.flow, "clarify")
        /\ \A i \in 1..(n - 1) : Leads(run.flow, results[i], results[i + 1].phase)
    BY <1>1, <2>1, PathFacts DEF Routed
  <2>9. n # 1 => 1 \in 1..(n - 1) /\ 1 + 1 = 2 /\ 2 \in 1..n
    <3>1. n \in Nat /\ n # 0
      BY <2>2
    <3> HIDE DEF n
    <3> QED BY <3>1
  <2>10. CASE run.flow = "feature"
    <3>1. results[1].phase = "design"
      BY <2>2, <2>8, <2>10, PlannedPhases
    <3>2. n = 1
      <4>1. SUFFICES ASSUME n # 1 PROVE FALSE
        OBVIOUS
      <4>2. Leads(run.flow, results[1], results[2].phase) /\ 2 \in 1..n
        <5>1. 1 \in 1..(n - 1) /\ 1 + 1 = 2 /\ 2 \in 1..n
          BY <2>9, <4>1
        <5> HIDE DEF n, results
        <5> QED BY <2>8, <5>1
      <4> QED BY <2>6, <3>1, <4>2 DEF Leads
    <3> QED BY <2>4, <3>1, <3>2 DEF Leads
  <2>11. CASE run.flow = "bugfix"
    <3>1. results[1].phase = "debug" /\ 1 \in 1..n
      BY <2>2, <2>8, <2>11, PlannedPhases
    <3> QED BY <2>6, <3>1
  <2>12. ASSUME NEW i \in 1..n, results[i].phase = "review", run.flow # "feature" PROVE FALSE
    <3>1. CASE i = n
      BY <2>4, <2>7, <2>12, <3>1 DEF Leads
    <3>2. CASE i # n
      <4>1. Leads(run.flow, results[i], results[i + 1].phase) /\ i + 1 \in 1..n
        BY <2>2, <2>8, <3>2
      <4> QED BY <2>6, <2>12, <4>1 DEF Leads
    <3> QED BY <3>1, <3>2
  <2>13. CASE run.flow = "review-only"
    <3>1. results[1].phase = "review" /\ 1 \in 1..n
      BY <2>2, <2>8, <2>13, PlannedPhases
    <3> QED BY <2>12, <2>13, <3>1
  <2>14. CASE run.flow = "test-generation"
    <3>1. results[1].phase = "verify"
      BY <2>2, <2>8, <2>14, PlannedPhases
    <3>2. n = 1
      <4>1. SUFFICES ASSUME n # 1 PROVE FALSE
        OBVIOUS
      <4>2. Leads(run.flow, results[1], results[2].phase) /\ 2 \in 1..n
        <5>1. 1 \in 1..(n - 1) /\ 1 + 1 = 2 /\ 2 \in 1..n
          BY <2>9, <4>1
        <5> HIDE DEF n, results
        <5> QED BY <2>8, <5>1
      <4>3. results[2].phase = "review"
        BY <2>6, <3>1, <4>2 DEF Leads
      <4> QED BY <2>12, <2>14, <4>2, <4>3
    <3>3. ~Failing(results[1])
      BY <2>4, <2>7, <2>14, <3>1, <3>2 DEF Leads
    <3> QED BY <2>14, <3>1, <3>2, <3>3
  <2> QED BY <2>2, <2>10, <2>11, <2>13, <2>14 DEF Flows
<1> QED BY <1>1, Invariance, PathInvariance, StaffedInvariance, PTL

--------------------------------------------------------------------------------
(* Why a run ends: what can still happen becomes less with every step, of  *)
(* the engine, its loss and the user's decisions.  That steps are taken is *)
(* fairness, and checked as Concludes.                                     *)

\* How far a phase is from the end, if all goes well.
Height(phase) ==
  CASE phase = "clarify"                -> 6
    [] phase = "design"                 -> 5
    [] phase \in {"implement", "debug"} -> 4
    [] phase = "verify"                 -> 3
    [] phase = "review"                 -> 2
    [] phase = "finalize"               -> 1
    [] OTHER                            -> 0

\* The retries a run has left: each costs two phases, at most.
Spare(r, m) ==
  (Limit(m, "debugger") - r.retry_counts["debugger"])
    + (Limit(m, "implementer") - r.retry_counts["implementer"])

Unasked(r) == r.questions /\ ~SeenOrOpen(r, "clarification_required")

\* A phase is entered at the head of the loop or with a gate open, then worked at.
Place(e) == CASE e = "idle" -> 4 [] e = "loop" -> 3 [] e = "agent" -> 2 [] OTHER -> 1

Within(r, e) == Place(e) + (IF Unasked(r) THEN 4 ELSE 0)

\* The steps that a run has left at most.
LeftOf(r, e, m) ==
  IF e = "idle" /\ r.pending_gate = NoGate THEN 0
  ELSE IF r.status \in Terminal THEN 1
  ELSE 1 + 24 * Spare(r, m) + 8 * Height(r.current_phase) + Within(r, e)

Left == LeftOf(run, engine, role_map)

Limits(m) == Limit(m, "debugger") + Limit(m, "implementer")

\* The ranges of the parts.
LEMMA PartsOfLeft ==
  ASSUME NEW r \in RunState, NEW m \in RoleMaps, NEW e
  PROVE  /\ Height(r.current_phase) \in 0..6 /\ Within(r, e) \in 1..8
         /\ Spare(r, m) \in Int /\ Limits(m) \in Nat /\ Spare(r, m) <= Limits(m)
         /\ r.retry_counts["debugger"] \in Nat /\ r.retry_counts["implementer"] \in Nat
<1>1. Height(r.current_phase) \in 0..6 /\ Within(r, e) \in 1..8
  BY DEF Height, Within, Place
<1>2. /\ Limit(m, "debugger") \in Nat /\ Limit(m, "implementer") \in Nat
      /\ r.retry_counts["debugger"] \in Nat /\ r.retry_counts["implementer"] \in Nat
  BY LimitsAreNat DEF RunState, RetryKeys
<1> QED BY <1>1, <1>2 DEF Spare, Limits

\* A run that is not over has counted no retry beyond the limits.
LEMMA SpareIsLeft ==
  ASSUME NEW m \in RoleMaps, NEW r \in RunState, r.status # "escalated", Path(r, m) \/ Recording(r, m)
  PROVE  Spare(r, m) \in Nat
<1>1. /\ Limit(m, "debugger") \in Nat /\ Limit(m, "implementer") \in Nat
      /\ r.retry_counts["debugger"] \in Nat /\ r.retry_counts["implementer"] \in Nat
  BY LimitsAreNat DEF RunState, RetryKeys
<1>2. /\ r.retry_counts["debugger"] <= Limit(m, "debugger")
      /\ r.retry_counts["implementer"] <= Limit(m, "implementer")
  BY DEF Path, Budgeted, Recording, BudgetLeft, Covered
<1> QED BY <1>1, <1>2 DEF Spare

\* The ways in which a stretch of the loop leaves the phase: the run is over, it goes
\* on to a lower phase, or it goes back for a retry.
Descends(r, s) ==
  /\ s.retry_counts = r.retry_counts
  /\ Height(s.current_phase) < Height(r.current_phase)

Retries(r, s) ==
  /\ \E role \in RetryKeys : s.retry_counts = [r.retry_counts EXCEPT ![role] = @ + 1]
  /\ Height(s.current_phase) <= Height(r.current_phase) + 2

Leaves(r, s) == s.status \in Terminal \/ Descends(r, s) \/ Retries(r, s)

\* Leaving the phase lowers the rank, wherever the engine is then.
LEMMA LeavingSinks ==
  ASSUME NEW m \in RoleMaps, NEW r \in RunState, NEW s \in RunState, NEW e, NEW f,
         r.status \notin Terminal, e # "idle" \/ r.pending_gate # NoGate, Spare(r, m) \in Nat,
         Leaves(r, s)
  PROVE  LeftOf(s, f, m) < LeftOf(r, e, m)
<1> DEFINE left == 1 + 24 * Spare(r, m) + 8 * Height(r.current_phase) + Within(r, e)
           next == 1 + 24 * Spare(s, m) + 8 * Height(s.current_phase) + Within(s, f)
<1>1. /\ Height(r.current_phase) \in 0..6 /\ Within(r, e) \in 1..8
      /\ Height(s.current_phase) \in 0..6 /\ Within(s, f) \in 1..8
      /\ Spare(r, m) \in Nat /\ Spare(s, m) \in Int
  BY PartsOfLeft
<1>2. LeftOf(r, e, m) = left /\ left > 1
  BY <1>1 DEF LeftOf
<1>3. LeftOf(s, f, m) \in {0, 1} \/ (LeftOf(s, f, m) = next /\ s.status \notin Terminal)
  BY DEF LeftOf
<1>4. CASE Descends(r, s)
  <2>1. Spare(s, m) = Spare(r, m) /\ Height(s.current_phase) < Height(r.current_phase)
    BY <1>4 DEF Descends, Spare
  <2> QED BY <1>1, <1>2, <1>3, <2>1
<1>5. CASE Retries(r, s)
  <2>1. PICK role \in RetryKeys : s.retry_counts = [r.retry_counts EXCEPT ![role] = @ + 1]
    BY <1>5 DEF Retries
  <2>2. /\ r.retry_counts \in [RetryKeys -> Nat]
        /\ Limit(m, "debugger") \in Nat /\ Limit(m, "implementer") \in Nat
    BY LimitsAreNat DEF RunState
  <2>3. Spare(s, m) = Spare(r, m) - 1
    BY <2>1, <2>2 DEF Spare, RetryKeys
  <2>4. Height(s.current_phase) <= Height(r.current_phase) + 2
    BY <1>5 DEF Retries
  <2> QED BY <1>1, <1>2, <1>3, <2>3, <2>4
<1>6. CASE s.status \in Terminal
  <2>1. LeftOf(s, f, m) \in {0, 1}
    BY <1>3, <1>6
  <2> QED BY <1>1, <1>2, <2>1
<1> QED BY <1>4, <1>5, <1>6 DEF Leaves

\* Staying in the phase lowers it if the engine comes nearer to the phase's end.
LEMMA StayingSinks ==
  ASSUME NEW m \in RoleMaps, NEW r \in RunState, NEW s \in RunState, NEW e, NEW f,
         r.status \notin Terminal, e # "idle" \/ r.pending_gate # NoGate, Spare(r, m) \in Nat,
         s.retry_counts = r.retry_counts, s.current_phase = r.current_phase,
         Within(s, f) < Within(r, e)
  PROVE  LeftOf(s, f, m) < LeftOf(r, e, m)
<1> DEFINE left == 1 + 24 * Spare(r, m) + 8 * Height(r.current_phase) + Within(r, e)
           next == 1 + 24 * Spare(s, m) + 8 * Height(s.current_phase) + Within(s, f)
<1>1. /\ Height(r.current_phase) \in 0..6 /\ Within(r, e) \in 1..8 /\ Within(s, f) \in 1..8
      /\ Spare(r, m) \in Nat /\ Spare(s, m) = Spare(r, m)
      /\ Height(s.current_phase) = Height(r.current_phase)
  BY PartsOfLeft DEF Spare
<1>2. LeftOf(r, e, m) = left /\ left > 1
  BY <1>1 DEF LeftOf
<1>3. LeftOf(s, f, m) \in {0, 1, next}
  BY DEF LeftOf
<1> QED BY <1>1, <1>2, <1>3
\* Where the phases lead, downhill.
LEMMA SuccessorsDescend ==
  ASSUME NEW flow \in Flows
  PROVE  /\ Height(FindNextPhase(flow, "clarify")) < Height("clarify")
         /\ PlanContains(flow, "design") => Height(FindNextPhase(flow, "design")) < Height("design")
         /\ PlanContains(flow, "verify") => Height(NextPhaseAfterSuccess(flow, "verify")) < Height("verify")
         /\ \A phase \in {"implement", "debug"} :
              Height(NextPhaseAfterSuccess(flow, phase)) < Height(phase)
<1>1. /\ FindNextPhase(flow, "clarify") \in {"design", "debug", "verify", "review"}
      /\ PlanContains(flow, "design") => FindNextPhase(flow, "design") = "implement"
      /\ PlanContains(flow, "verify") => FindNextPhase(flow, "verify") = "review"
      /\ NextValidationPhase(flow) \in {"verify", "review"}
  BY PlanFacts
<1> QED BY <1>1 DEF Height, NextPhaseAfterSuccess

\* A retry is one retry less, or the end.
LEMMA RetryLeaves ==
  ASSUME NEW r \in RunState, NEW x, Marks(r, x), NEW spent, Marks(r, spent), NEW role, NEW phase,
         \/ r.current_phase = "verify" /\ role = "debugger" /\ phase = "debug"
         \/ r.current_phase = "review" /\ role = "implementer" /\ phase = "implement"
  PROVE  Leaves(r, RetryOrEscalate(x, role, phase, spent))
<1> DEFINE s == RetryOrEscalate(x, role, phase, spent)
           retries == x.retry_counts[role] + 1
<1>1. x \in RunState /\ spent \in RunState /\ x.retry_counts = r.retry_counts
  BY DEF Marks
<1>2. CASE retries <= MaxRetries(role)
  <2>1. s = [x EXCEPT !.retry_counts = [x.retry_counts EXCEPT ![role] = retries],
                      !.current_phase = phase, !.status = "in_progress"]
    BY <1>2 DEF RetryOrEscalate
  <2>2. s.retry_counts = [r.retry_counts EXCEPT ![role] = @ + 1] /\ s.current_phase = phase
    BY <1>1, <2>1 DEF RunState
  <2> HIDE DEF s
  <2>3. Height(phase) <= Height(r.current_phase) + 2
    BY DEF Height
  <2> QED BY <2>2, <2>3 DEF Leaves, Retries, RetryKeys, s
<1>3. CASE ~(retries <= MaxRetries(role))
  <2>1. s = [spent EXCEPT !.retry_counts = [spent.retry_counts EXCEPT ![role] = retries],
                          !.status = "escalated"]
    BY <1>3 DEF RetryOrEscalate
  <2>2. s.status = "escalated"
    BY <1>1, <2>1 DEF RunState
  <2> QED BY <2>2 DEF Leaves, Terminal
<1> QED BY <1>2, <1>3

\* An escalation is one retry of the debugger less, or the end.
LEMMA EscalationLeaves ==
  ASSUME NEW r \in RunState, NEW x, Marks(r, x)
  PROVE  Leaves(r, EscalatePhase(x, r.current_phase))
<1>1. CASE r.current_phase = "verify"
  BY <1>1, RetryLeaves DEF EscalatePhase
<1>2. CASE r.current_phase # "verify"
  <2>1. EscalatePhase(x, r.current_phase) = [x EXCEPT !.status = "escalated"]
    BY <1>2 DEF EscalatePhase
  <2>2. EscalatePhase(x, r.current_phase).status = "escalated"
    BY <2>1 DEF Marks, RunState
  <2> QED BY <2>2 DEF Leaves, Terminal
<1> QED BY <1>1, <1>2

\* Whatever the loop does with a result, it leaves the phase.
LEMMA EvaluateLeaves ==
  ASSUME NEW r, Judged(r), Evaluate(r)
  PROVE  Leaves(r, run') /\ role_map' = role_map
<1> DEFINE phase == r.current_phase
           passed == SetStepStatus(r, phase, "done")
<1>1. AtResult(r) /\ r \in RunState /\ r.flow \in Flows
  BY JudgedAtResult DEF Judged, RunState
<1>2. Marks(r, passed)
  BY <1>1, SetStepMarks DEF Statuses, Reasons
<1>3. CASE Escalated(r, phase)
  <2> DEFINE x == [SetStepStatus(r, phase, "escalated") EXCEPT !.escalation_reason = "agent"]
  <2>1. Marks(r, x)
    BY <1>1, SetStepMarks DEF Statuses, Reasons
  <2>2. run' = EscalatePhase(x, phase) /\ role_map' = role_map
    BY <1>3 DEF Escalated, Continue
  <2> HIDE DEF x
  <2> QED BY <1>1, <2>1, <2>2, EscalationLeaves
<1>4. CASE Rework(r, phase)
  <2> DEFINE spent == Exhausted(r, phase)
  <2>1. Marks(r, spent)
    BY <1>1, SetStepMarks DEF Exhausted, Statuses, Reasons
  <2>2. /\ role_map' = role_map
        /\ \/ phase = "verify" /\ run' = RetryOrEscalate(passed, "debugger", "debug", spent)
           \/ phase = "review" /\ run' = RetryOrEscalate(passed, "implementer", "implement", spent)
    BY <1>4 DEF Rework, Continue
  <2> HIDE DEF passed, spent
  <2> QED BY <1>1, <1>2, <2>1, <2>2, RetryLeaves
<1> HIDE DEF passed
<1>5. phase \in {"design", "review"} => Height(AfterGate(r, phase)) < Height(phase)
  BY <1>1, SuccessorsDescend DEF AtResult, AfterGate, Height
<1>6. phase \in {"implement", "debug", "verify"} => Height(NextPhaseAfterSuccess(r.flow, phase)) < Height(phase)
  BY <1>1, SuccessorsDescend DEF AtResult
<1>7. CASE AskGate(r, phase)
  <2>1. run' = Paused(passed, GateOf(phase), AfterGate(r, phase)) /\ role_map' = role_map
    BY <1>7 DEF AskGate, PauseForGate, passed
  <2>2. run'.retry_counts = r.retry_counts /\ run'.current_phase = AfterGate(r, phase)
    BY <1>2, <2>1 DEF Paused, Marks, RunState
  <2>3. phase \in {"design", "review"}
    BY <1>7 DEF AskGate
  <2> QED BY <1>5, <2>1, <2>2, <2>3 DEF Leaves, Descends
<1>8. CASE PassGate(r, phase)
  <2> DEFINE locked == AutoAcceptGate(passed, GateOf(phase))
  <2>1. run' = [locked EXCEPT !.current_phase = AfterGate(r, phase)] /\ role_map' = role_map
    BY <1>8 DEF PassGate, Continue, passed
  <2>2. locked \in RunState /\ locked = [passed EXCEPT !.gate_history = locked.gate_history]
    BY <1>2, AutoAcceptGateFacts DEF Marks, GateOf, GateTypes
  <2> HIDE DEF locked
  <2>3. locked.retry_counts = r.retry_counts
    BY <1>2, <2>2 DEF Marks, RunState
  <2>4. run'.retry_counts = r.retry_counts /\ run'.current_phase = AfterGate(r, phase)
    BY <2>1, <2>2, <2>3 DEF RunState
  <2>5. phase \in {"design", "review"}
    BY <1>8 DEF PassGate
  <2> QED BY <1>5, <2>1, <2>4, <2>5 DEF Leaves, Descends
<1>9. CASE Advance(r, phase)
  <2>1. /\ run' = [passed EXCEPT !.current_phase = NextPhaseAfterSuccess(r.flow, phase),
                                 !.status = "in_progress"]
        /\ role_map' = role_map
    BY <1>9 DEF Advance, Continue, passed
  <2>2. /\ run'.retry_counts = r.retry_counts
        /\ run'.current_phase = NextPhaseAfterSuccess(r.flow, phase)
    BY <1>2, <2>1 DEF Marks, RunState
  <2>3. phase \in {"implement", "debug", "verify"}
    BY <1>1, <1>9 DEF Advance, AtResult
  <2> QED BY <1>6, <2>1, <2>2, <2>3 DEF Leaves, Descends
<1> QED BY <1>3, <1>4, <1>7, <1>8, <1>9 DEF Evaluate

\* A run that is not over has its retries within the limits, and steps left if it has
\* an engine or a gate open.
LEMMA RunningHasLeft ==
  ASSUME IInv, PInv
  PROVE  /\ run \in RunState /\ store \in RunState /\ role_map \in RoleMaps
         /\ run.status # "escalated" => Spare(run, role_map) \in Nat
         /\ engine # "idle" \/ run.pending_gate # NoGate => 0 < Left
<1>1. run \in RunState /\ store \in RunState /\ role_map \in RoleMaps
  BY DEF IInv, TypeOK
<1>2. run.status # "escalated" => Spare(run, role_map) \in Nat
  BY <1>1, SpareIsLeft DEF PInv
<1>3. ASSUME engine # "idle" \/ run.pending_gate # NoGate PROVE 0 < Left
  <2>1. /\ Height(run.current_phase) \in 0..6 /\ Within(run, engine) \in 1..8
    BY <1>1, PartsOfLeft
  <2>2. CASE run.status \in Terminal
    BY <1>3, <2>2 DEF Left, LeftOf
  <2>3. CASE run.status \notin Terminal
    <3>1. Spare(run, role_map) \in Nat
      BY <1>2, <2>3 DEF Terminal
    <3>2. Left = 1 + 24 * Spare(run, role_map) + 8 * Height(run.current_phase) + Within(run, engine)
      BY <1>3, <2>3 DEF Left, LeftOf
    <3> QED BY <2>1, <3>1, <3>2
  <2> QED BY <2>2, <2>3
<1> QED BY <1>1, <1>2, <1>3

\* The next state's rank, written with the next state's parts.
LEMMA NextLeft ==
  ASSUME NEW s, NEW e, run' = s, engine' = e, role_map' = role_map
  PROVE  Left' = LeftOf(s, e, role_map)
BY DEF Left, LeftOf, Spare, Limit, Height, Within, Place, Unasked, SeenOrOpen, GateSeen

\* At the head of the loop.
LEMMA HeadSinks ==
  ASSUME IInv, IInv', PInv,
         AskClarification \/ AskRequirementsLock \/ LockRequirements \/ Finalize
           \/ MissingRole \/ InvokeAgent
  PROVE  Left' < Left
<1>1. /\ run \in RunState /\ run' \in RunState /\ role_map \in RoleMaps
      /\ run.status \notin Terminal /\ Spare(run, role_map) \in Nat
      /\ run.pending_gate = NoGate /\ run.flow \in Flows /\ engine = "loop"
      /\ run.status = "in_progress"
  <2>1. engine = "loop" /\ run.status \notin Terminal
    BY DEF AskClarification, AskRequirementsLock, LockRequirements, Finalize, MissingRole,
           InvokeAgent, AtHead
  <2> QED BY <2>1, HeadFacts, RunningHasLeft DEF IInv, TypeOK, RunState, Terminal
<1>2. ASSUME Leaves(run, run'), role_map' = role_map PROVE Left' < Left
  <2>1. LeftOf(run', engine', role_map) < LeftOf(run, engine, role_map)
    BY <1>1, <1>2, LeavingSinks
  <2> QED BY <1>2, <2>1, NextLeft DEF Left
<1>3. ASSUME run'.retry_counts = run.retry_counts, run'.current_phase = run.current_phase,
             Within(run', engine') < Within(run, engine), role_map' = role_map
      PROVE  Left' < Left
  <2>1. LeftOf(run', engine', role_map) < LeftOf(run, engine, role_map)
    BY <1>1, <1>3, StayingSinks
  <2> QED BY <1>3, <2>1, NextLeft DEF Left
<1>4. CASE AskClarification
  <2>1. Marks(run, Clarifying) /\ run.current_phase = "clarify"
    BY <1>1, <1>4, SetStepMarks DEF AskClarification, Clarifying, Statuses, Reasons
  <2>2. /\ run' = Paused(Clarifying, "clarification_required", "clarify")
        /\ engine' = "idle" /\ role_map' = role_map
    BY <1>4 DEF AskClarification, PauseForGate
  <2>3. /\ run'.retry_counts = run.retry_counts /\ run'.current_phase = run.current_phase
        /\ run'.pending_gate.type = "clarification_required"
    BY <2>1, <2>2 DEF Paused, MakeGate, Marks, RunState
  <2>4. Unasked(run)
    BY <1>1, <1>4 DEF AskClarification, NeedsAnswers, Unasked, SeenOrOpen, NoGate
  <2>5. ~Unasked(run')
    BY <2>3 DEF Unasked, SeenOrOpen
  <2>6. Within(run', engine') < Within(run, engine)
    BY <1>1, <2>2, <2>4, <2>5 DEF Within, Place
  <2> QED BY <1>3, <2>2, <2>3, <2>6
<1>5. CASE AskRequirementsLock
  <2>1. Marks(run, Clarified) /\ run.current_phase = "clarify"
    BY <1>1, <1>5, SetStepMarks DEF AskRequirementsLock, Clarified, Statuses, Reasons
  <2>2. /\ run' = Paused(Clarified, "requirements_locked", FindNextPhase(run.flow, "clarify"))
        /\ role_map' = role_map
    BY <1>5 DEF AskRequirementsLock, PauseForGate
  <2>3. /\ run'.retry_counts = run.retry_counts
        /\ run'.current_phase = FindNextPhase(run.flow, "clarify")
    BY <2>1, <2>2 DEF Paused, Marks, RunState
  <2>4. Descends(run, run')
    BY <1>1, <2>1, <2>3, SuccessorsDescend DEF Descends
  <2> QED BY <1>2, <2>2, <2>4 DEF Leaves
<1>6. CASE LockRequirements
  <2> DEFINE locked == AutoAcceptGate(Clarified, "requirements_locked")
  <2>1. Marks(run, Clarified) /\ run.current_phase = "clarify"
    BY <1>1, <1>6, SetStepMarks DEF LockRequirements, Clarified, Statuses, Reasons
  <2>2. /\ run' = [locked EXCEPT !.current_phase = FindNextPhase(run.flow, "clarify"),
                                 !.status = "in_progress"]
        /\ role_map' = role_map
    BY <1>6 DEF LockRequirements, Continue
  <2>3. locked \in RunState /\ locked = [Clarified EXCEPT !.gate_history = locked.gate_history]
    BY <2>1, AutoAcceptGateFacts DEF Marks, GateTypes
  <2> HIDE DEF locked
  <2>4. locked.retry_counts = run.retry_counts
    BY <2>1, <2>3 DEF Marks, RunState
  <2>5. /\ run'.retry_counts = run.retry_counts
        /\ run'.current_phase = FindNextPhase(run.flow, "clarify")
    BY <2>2, <2>3, <2>4 DEF RunState
  <2>6. Descends(run, run')
    BY <1>1, <2>1, <2>5, SuccessorsDescend DEF Descends
  <2> QED BY <1>2, <2>2, <2>6 DEF Leaves
<1>7. CASE Finalize
  <2> DEFINE marked == SetStepStatus(run, "finalize", "done")
  <2>1. Marks(run, marked)
    BY <1>1, <1>7, SetStepMarks DEF Finalize, Statuses, Reasons
  <2>2. /\ run' = [marked EXCEPT !.current_phase = "completed", !.status = "done"]
        /\ role_map' = role_map
    BY <1>7 DEF Finalize, Continue
  <2> HIDE DEF marked
  <2>3. run'.status = "done"
    BY <2>1, <2>2 DEF Marks, RunState
  <2> QED BY <1>2, <2>2, <2>3 DEF Leaves, Terminal
<1>8. CASE MissingRole
  <2> DEFINE marked == SetStepStatus(run, run.current_phase, "escalated")
  <2>1. Marks(run, marked)
    BY <1>1, SetStepMarks DEF Statuses, Reasons
  <2>2. /\ run' = [marked EXCEPT !.status = "escalated", !.escalation_reason = "role"]
        /\ role_map' = role_map
    BY <1>8 DEF MissingRole, Continue
  <2> HIDE DEF marked
  <2>3. run'.status = "escalated"
    BY <2>1, <2>2 DEF Marks, RunState
  <2> QED BY <1>2, <2>2, <2>3 DEF Leaves, Terminal
<1>9. CASE InvokeAgent
  <2>1. run' = SetStepStatus(run, run.current_phase, "in_progress") /\ engine' = "agent" /\ role_map' = role_map
    BY <1>9 DEF InvokeAgent
  <2>2. SameControl(run, run') /\ run'.retry_counts = run.retry_counts
    <3>1. SameControl(run, run')
      BY <1>1, <2>1, SetStepStatusFacts DEF RunState, Statuses
    <3>2. Marks(run, run')
      BY <1>1, <2>1, SetStepMarks DEF Statuses, Reasons
    <3> QED BY <3>1, <3>2 DEF Marks
  <2>3. Unasked(run') <=> Unasked(run)
    BY <2>2 DEF SameControl, Unasked, SeenOrOpen, GateSeen
  <2>4. Within(run', engine') < Within(run, engine)
    BY <1>1, <2>1, <2>3 DEF Within, Place
  <2> QED BY <1>3, <2>1, <2>2, <2>4 DEF SameControl
<1> QED BY <1>4, <1>5, <1>6, <1>7, <1>8, <1>9

\* At the two awaits.
LEMMA WorkSinks ==
  ASSUME IInv, IInv', PInv,
         AgentReturns \/ AgentReturnsToExecutor \/ ExecutorSucceeds \/ ExecutorEscalates
  PROVE  Left' < Left
<1>1. /\ run \in RunState /\ run' \in RunState /\ role_map \in RoleMaps
      /\ run.status \notin Terminal /\ Spare(run, role_map) \in Nat
      /\ engine \in {"agent", "executor"}
  <2>1. engine \in {"agent", "executor"}
    BY DEF AgentReturns, AgentReturnsToExecutor, ExecutorSucceeds, ExecutorEscalates
  <2> QED BY <2>1, WorkFacts, RunningHasLeft DEF IInv, TypeOK, Terminal
<1>2. ASSUME NEW r, r.retry_counts = run.retry_counts, r.current_phase = run.current_phase,
             Leaves(r, run'), role_map' = role_map
      PROVE  Left' < Left
  <2>1. Leaves(run, run')
    BY <1>2 DEF Leaves, Descends, Retries
  <2>2. LeftOf(run', engine', role_map) < LeftOf(run, engine, role_map)
    BY <1>1, <2>1, LeavingSinks
  <2> QED BY <1>2, <2>2, NextLeft DEF Left
<1>3. ASSUME NEW verdict, engine = "agent", verdict \in VerdictsOf(run.current_phase)
      PROVE  LET r == Recorded(verdict)
             IN  /\ Judged(r) /\ r.current_phase = run.current_phase
                 /\ r.retry_counts = run.retry_counts
                 /\ Unasked(r) <=> Unasked(run)
  <2>1. Judged(Recorded(verdict)) /\ Recorded(verdict).current_phase = run.current_phase
    BY <1>3, RecordedFacts
  <2>2. /\ Recorded(verdict).retry_counts = run.retry_counts
        /\ Recorded(verdict).questions = run.questions
        /\ Recorded(verdict).gate_history = run.gate_history
        /\ Recorded(verdict).pending_gate = run.pending_gate
    BY <1>1 DEF Recorded, RunState
  <2> QED BY <2>1, <2>2 DEF Unasked, SeenOrOpen, GateSeen
<1>4. ASSUME NEW outcome \in {"done", "escalated"}, engine = "executor"
      PROVE  LET r == Executed(outcome)
             IN  /\ Judged(r) /\ r.current_phase = run.current_phase
                 /\ r.retry_counts = run.retry_counts
  <2>1. Executed(outcome).retry_counts = run.retry_counts
    BY <1>1 DEF Executed, RunState
  <2> QED BY <1>4, <2>1, ExecutedFacts
<1>5. CASE AgentReturns
  <2>1. engine = "agent"
    BY <1>5 DEF AgentReturns
  <2>2. PICK verdict \in VerdictsOf(run.current_phase) : Evaluate(Recorded(verdict))
    BY <1>5 DEF AgentReturns
  <2> QED BY <1>2, <1>3, <2>1, <2>2, EvaluateLeaves
<1>6. CASE AgentReturnsToExecutor
  <2>1. engine = "agent" /\ engine' = "executor" /\ role_map' = role_map
    BY <1>6 DEF AgentReturnsToExecutor
  <2>2. PICK verdict \in VerdictsOf(run.current_phase) : run' = Recorded(verdict)
    BY <1>6 DEF AgentReturnsToExecutor
  <2>3. /\ run'.current_phase = run.current_phase /\ run'.retry_counts = run.retry_counts
        /\ Unasked(run') <=> Unasked(run)
    BY <1>3, <2>1, <2>2
  <2>4. Within(run', engine') < Within(run, engine)
    BY <2>1, <2>3 DEF Within, Place
  <2>5. LeftOf(run', engine', role_map) < LeftOf(run, engine, role_map)
    BY <1>1, <2>1, <2>3, <2>4, StayingSinks
  <2> QED BY <2>1, <2>5, NextLeft DEF Left
<1>7. CASE ExecutorSucceeds
  <2>1. engine = "executor" /\ Evaluate(Executed("done"))
    BY <1>7 DEF ExecutorSucceeds
  <2> QED BY <1>2, <1>4, <2>1, EvaluateLeaves
<1>8. CASE ExecutorEscalates
  <2> DEFINE r == Executed("escalated")
             x == [SetStepStatus(r, run.current_phase, "failed") EXCEPT !.escalation_reason = "executor"]
  <2>1. engine = "executor" /\ run' = EscalatePhase(x, run.current_phase) /\ role_map' = role_map
    BY <1>8 DEF ExecutorEscalates, Continue
  <2>2. Judged(r) /\ r.current_phase = run.current_phase /\ r.retry_counts = run.retry_counts
    BY <1>4, <2>1
  <2> HIDE DEF r
  <2>3. Marks(r, x) /\ r \in RunState
    BY <2>2, SetStepMarks DEF Judged, Statuses, Reasons
  <2> HIDE DEF x
  <2>4. Leaves(r, run')
    BY <2>1, <2>2, <2>3, EscalationLeaves
  <2> QED BY <1>2, <2>1, <2>2, <2>4
<1> QED BY <1>5, <1>6, <1>7, <1>8

\* Where the engine rests, and after a decision.
LEMMA RestSinks ==
  ASSUME IInv, IInv', PInv, Return \/ LoseEngine \/ Decide
  PROVE  Left' < Left
<1>1. CASE Return \/ LoseEngine \/ Reject
  <2>1. engine' = "idle" /\ (engine # "idle" \/ run.pending_gate # NoGate)
    BY <1>1 DEF Return, AtHead, LoseEngine, Reject, IInv, Ownership
  <2>2. run'.pending_gate = NoGate
    <3>1. CASE Return
      BY <3>1 DEF Return, AtHead, IInv, Sound, Terminal
    <3>2. CASE LoseEngine
      BY <3>2 DEF LoseEngine, IInv, Sound, Ownership
    <3>3. CASE Reject
      <4>1. Decided("rejected") \in RunState
            /\ Decided("rejected").pending_gate = NoGate
        BY <3>3, DecidedFacts, WaitingFacts DEF Reject, RunState
      <4>2. run' = [Decided("rejected") EXCEPT !.status = "escalated", !.escalation_reason = "gate"]
        BY <3>3 DEF Reject
      <4> QED BY <4>1, <4>2 DEF RunState
    <3> QED BY <1>1, <3>1, <3>2, <3>3
  <2>3. Left' = 0
    BY <2>1, <2>2 DEF Left, LeftOf
  <2>4. 0 < Left
    BY <2>1, RunningHasLeft
  <2> QED BY <2>3, <2>4
<1>2. CASE Approve
  <2> DEFINE gate == [store.pending_gate EXCEPT !.status = "approved"]
             d == Decided("approved")
  <2>1. /\ run = store /\ engine = "idle" /\ engine' = "loop" /\ role_map' = role_map
        /\ run \in RunState /\ run' \in RunState /\ role_map \in RoleMaps
        /\ run.pending_gate # NoGate /\ run.status = "pending" /\ Spare(run, role_map) \in Nat
    BY <1>2, WaitingFacts, RunningHasLeft DEF Approve, IInv, TypeOK, Ownership
  <2>2. /\ gate \in GateRecord /\ gate.type = store.pending_gate.type /\ d \in RunState
        /\ d = [store EXCEPT !.gate_history = Append(store.gate_history, gate), !.pending_gate = NoGate]
    BY <1>2, DecidedFacts DEF Approve
  <2> HIDE DEF gate
  <2>3. /\ d.gate_history = Append(store.gate_history, gate) /\ d.questions = store.questions
        /\ d.approval_mode = store.approval_mode
        /\ d.current_phase = store.current_phase /\ d.retry_counts = store.retry_counts
    BY <2>1, <2>2 DEF RunState
  <2>4. run' = IF store.pending_gate.type = "clarification_required"
               THEN [d EXCEPT !.status = "in_progress", !.questions = FALSE,
                              !.current_phase = "clarify"]
               ELSE [d EXCEPT !.status = "in_progress"]
    BY <1>2 DEF Approve
  <2> HIDE DEF d
  <2>5. /\ run'.gate_history = Append(store.gate_history, gate)
        /\ run'.approval_mode = store.approval_mode /\ run'.retry_counts = store.retry_counts
        /\ IF store.pending_gate.type = "clarification_required"
           THEN run'.current_phase = "clarify" /\ run'.questions = FALSE
           ELSE run'.current_phase = store.current_phase /\ run'.questions = store.questions
    BY <2>2, <2>3, <2>4 DEF RunState
  <2>6. run'.current_phase = run.current_phase
    BY <1>2, <2>1, <2>5, WaitingFacts DEF OpenGate, Approve
  <2>7. \A t : GateSeen(store, t) => GateSeen(run', t)
    BY <2>1, <2>2, <2>5, AppendGate
  <2>8. Unasked(run') => Unasked(run)
    BY <2>1, <2>5, <2>7 DEF Unasked, SeenOrOpen
  <2>9. Within(run', engine') < Within(run, engine)
    BY <2>1, <2>8 DEF Within, Place
  <2>10. LeftOf(run', engine', role_map) < LeftOf(run, engine, role_map)
    BY <2>1, <2>5, <2>6, <2>9, StayingSinks DEF Terminal
  <2> QED BY <2>1, <2>10, NextLeft DEF Left
<1> QED BY <1>1, <1>2 DEF Decide

\* The steps left are a number that the retries bound.
LEMMA LeftIsBounded == ASSUME IInv, PInv PROVE Left \in 0..(57 + 24 * Limits(role_map))
<1>1. /\ Height(run.current_phase) \in 0..6 /\ Within(run, engine) \in 1..8
      /\ Limits(role_map) \in Nat /\ Spare(run, role_map) <= Limits(role_map)
  BY RunningHasLeft, PartsOfLeft
<1>2. CASE Left \in {0, 1}
  BY <1>1, <1>2
<1>3. CASE /\ run.status \notin Terminal
           /\ Left = 1 + 24 * Spare(run, role_map) + 8 * Height(run.current_phase) + Within(run, engine)
  <2>1. Spare(run, role_map) \in Nat
    BY <1>3, RunningHasLeft DEF Terminal
  <2> QED BY <1>1, <1>3, <2>1
<1> QED BY <1>2, <1>3 DEF Left, LeftOf

\* However agents, executor, user and failures of the process alternate, a run takes
\* at most 57 steps and 24 for each retry that its roles allow: there is a bound on
\* the steps left, and every step lowers it.  So no run goes round for ever.
THEOREM RunsAreFinite ==
  Spec => [](Left \in 0..(57 + 24 * Limits(role_map))) /\ [][Left' < Left]_vars
<1>1. IInv /\ PInv => Left \in 0..(57 + 24 * Limits(role_map))
  BY LeftIsBounded
<1>2. IInv /\ IInv' /\ PInv /\ [Next]_vars => [Left' < Left]_vars
  BY HeadSinks, WorkSinks, RestSinks DEF Next, EngineStep
<1> QED BY <1>1, <1>2, Invariance, PathInvariance, PTL DEF Spec
================================================================================
