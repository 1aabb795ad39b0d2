----------------------------- MODULE ExecutionPlan -----------------------------
(***************************************************************************)
(* The plan an autonomous run follows: one sequence of phases per flow, a  *)
(* role per phase, and the functions the engine uses to move between       *)
(* phases (agent_core/orchestrator.py, _phase_sequence to                  *)
(* _next_phase_after_success; the enumerations are those of schemas.py).   *)
(* Everything here is constant level.                                      *)
(***************************************************************************)
EXTENDS Naturals, Sequences

Flows == {"feature", "bugfix", "review-only", "test-generation"}

Phases == {"clarify", "design", "implement", "debug", "verify", "review",
           "finalize", "completed"}

Roles == {"orchestrator", "architect", "implementer", "qa-engineer",
          "debugger", "reviewer"}

PhaseSequence(flow) ==
  CASE flow = "feature" -> <<"clarify", "design", "implement", "verify", "review", "finalize">>
    [] flow = "bugfix"  -> <<"clarify", "debug", "verify", "review", "finalize">>
    [] flow = "review-only"     -> <<"clarify", "review", "finalize">>
    [] flow = "test-generation" -> <<"clarify", "verify", "review", "finalize">>

RoleForPhase(phase) ==
  CASE phase \in {"clarify", "finalize"} -> "orchestrator"
    [] phase = "design"    -> "architect"
    [] phase = "implement" -> "implementer"
    [] phase = "verify"    -> "qa-engineer"
    [] phase = "debug"     -> "debugger"
    [] phase = "review"    -> "reviewer"

PlanContains(flow, phase) ==
  \E i \in 1..Len(PhaseSequence(flow)) : PhaseSequence(flow)[i] = phase

\* Mutation: one phase too far.
FindNextPhaseSkips(flow, phase) ==
  LET phases == PhaseSequence(flow)
      at     == {i \in 1..(Len(phases) - 2) : phases[i] = phase}
  IN  IF at = {} THEN "finalize" ELSE phases[(CHOOSE i \in at : TRUE) + 2]

\* A phase outside the plan, and the last one, are followed by FINALIZE.
FindNextPhase(flow, phase) ==
  LET phases == PhaseSequence(flow)
      at     == {i \in 1..(Len(phases) - 1) : phases[i] = phase}
  IN  IF at = {} THEN "finalize" ELSE phases[(CHOOSE i \in at : TRUE) + 1]

NextValidationPhase(flow) ==
  CASE PlanContains(flow, "verify") -> "verify"
    [] ~PlanContains(flow, "verify") /\ PlanContains(flow, "review") -> "review"
    [] OTHER -> "finalize"

NextPhaseAfterSuccess(flow, phase) ==
  IF phase \in {"debug", "implement"} THEN NextValidationPhase(flow)
                                      ELSE FindNextPhase(flow, phase)
================================================================================
