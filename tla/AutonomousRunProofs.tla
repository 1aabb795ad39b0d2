--------------------------- MODULE AutonomousRunProofs ---------------------------
(***************************************************************************)
(* Theorems about AutonomousRun, for every set of role maps and so for any *)
(* retry limits.  The inductive invariant IInv says of the run in memory   *)
(* and of the saved one alike which gates the phase it is in presupposes   *)
(* (Sound), and of the engine what it may be doing to which (Ownership).   *)
(***************************************************************************)
EXTENDS AutonomousRun, TLAPS

--------------------------------------------------------------------------------
(* The inductive invariant.                                                *)

Decision(mode) == IF mode = "major_gates" THEN "approved" ELSE "auto_approved"

\* Every gate but a clarification was decided the way the approval mode says.
Decisions(r) ==
  \A i \in 1..Len(r.gate_history) :
    r.gate_history[i].type # "clarification_required"
      => r.gate_history[i].status = Decision(r.approval_mode)

OpenGate(r) ==
  /\ r.status = "pending" <=> r.pending_gate # NoGate
  /\ r.pending_gate # NoGate /\ r.pending_gate.type # "clarification_required"
       => r.approval_mode = "major_gates"
  /\ r.pending_gate.type = "clarification_required" => r.current_phase = "clarify"

\* A phase that needs a gate is entered with the gate seen or open.
SeenOrOpen(r, type) == GateSeen(r, type) \/ r.pending_gate.type = type

CleanReview(r) ==
  /\ r.phase_results # <<>>
  /\ LastResult(r).phase = "review"
  /\ LastResult(r).verdict \in {"done", "failed"}

PhaseNeeds(r) ==
  /\ r.current_phase # "clarify" =>
       /\ ~r.questions \/ GateSeen(r, "clarification_required")
       /\ SeenOrOpen(r, "requirements_locked")
  /\ r.current_phase \notin {"clarify", "design"} /\ PlanContains(r.flow, "design")
       => SeenOrOpen(r, "design_locked")
  /\ r.current_phase \in {"finalize", "completed"} => SeenOrOpen(r, "release_ready") /\ CleanReview(r)
  /\ r.current_phase \in {"design", "verify"} => PlanContains(r.flow, r.current_phase)

Sound(r) ==
  /\ r.status \in {"pending", "in_progress", "done", "escalated"}
  /\ r.pending_gate # NoGate => r.status = "pending"
  /\ r.status # "escalated" =>
       /\ Decisions(r)
       /\ OpenGate(r)
       /\ PhaseNeeds(r)
       /\ r.status = "done" <=> r.current_phase = "completed"

\* Only a run without an engine waits, and what it waits with is saved.
Ownership ==
  /\ engine = "idle" => run = store
  /\ engine # "idle" => run.status # "pending" /\ store.status # "pending"
  /\ engine \in {"agent", "executor"} => run.status = "in_progress" /\ AgentPhase
  /\ engine = "executor" =>
       run.phase_results # <<>> /\ LastResult(run).phase = run.current_phase

IInv == TypeOK /\ Sound(run) /\ Sound(store) /\ Ownership

--------------------------------------------------------------------------------
(* The plan.                                                               *)

\* What the flows have in common: where CLARIFY, DESIGN and VERIFY lead, and
\* that a change is validated by VERIFY where the plan has it, else by REVIEW.
LEMMA PlanFacts ==
  ASSUME NEW flow \in Flows
  PROVE  /\ FindNextPhase(flow, "clarify") \in {"design", "debug", "verify", "review"}
         /\ FindNextPhase(flow, "clarify") = "design" <=> PlanContains(flow, "design")
         /\ FindNextPhase(flow, "clarify") = "verify" => PlanContains(flow, "verify")
         /\ PlanContains(flow, "design") => FindNextPhase(flow, "design") = "implement"
         /\ PlanContains(flow, "verify") => FindNextPhase(flow, "verify") = "review"
         /\ NextValidationPhase(flow) \in {"verify", "review"}
         /\ NextValidationPhase(flow) = "verify" => PlanContains(flow, "verify")
<1>1. CASE flow = "feature"
  BY <1>1 DEF FindNextPhase, PlanContains, NextValidationPhase, PhaseSequence
<1>2. CASE flow = "bugfix"
  BY <1>2 DEF FindNextPhase, PlanContains, NextValidationPhase, PhaseSequence
<1>3. CASE flow = "review-only"
  BY <1>3 DEF FindNextPhase, PlanContains, NextValidationPhase, PhaseSequence
<1>4. CASE flow = "test-generation"
  BY <1>4 DEF FindNextPhase, PlanContains, NextValidationPhase, PhaseSequence
<1> QED BY <1>1, <1>2, <1>3, <1>4 DEF Flows

--------------------------------------------------------------------------------
(* The operators on run states.                                            *)

\* r and s differ in their steps, retry counts and escalation reason at most,
\* none of which Sound looks at.
SameControl(r, s) ==
  /\ s.flow = r.flow /\ s.approval_mode = r.approval_mode /\ s.execute = r.execute
  /\ s.questions = r.questions /\ s.status = r.status
  /\ s.current_phase = r.current_phase
  /\ s.pending_gate = r.pending_gate /\ s.gate_history = r.gate_history
  /\ s.phase_results = r.phase_results

\* Marking a step changes nothing that Sound looks at.
LEMMA SetStepStatusFacts ==
  ASSUME NEW r \in RunState, NEW phase \in Phases, NEW status \in Statuses
  PROVE  /\ SetStepStatus(r, phase, status) \in RunState
         /\ SameControl(r, SetStepStatus(r, phase, status))
BY DEF SetStepStatus, RunState, SameControl

\* Sound depends on nothing but what SameControl compares.
LEMMA SoundFrame ==
  ASSUME NEW r, NEW s, SameControl(r, s), Sound(r)
  PROVE  Sound(s)
BY DEF SameControl, Sound, Decisions, OpenGate, PhaseNeeds, SeenOrOpen, GateSeen,
       CleanReview, LastResult

\* Recording a gate adds one record of its type and keeps the others.
LEMMA AppendGate ==
  ASSUME NEW r \in RunState, NEW gate \in GateRecord,
         NEW s \in RunState, s.gate_history = Append(r.gate_history, gate),
         s.approval_mode = r.approval_mode
  PROVE  /\ GateSeen(s, gate.type)
         /\ \A type : GateSeen(r, type) => GateSeen(s, type)
         /\ Decisions(r) /\ (gate.type # "clarification_required"
                               => gate.status = Decision(r.approval_mode))
              => Decisions(s)
<1> DEFINE old == r.gate_history
           new == s.gate_history
<1>1. old \in Seq(GateRecord) /\ new = Append(old, gate)
  BY DEF RunState
<1>2. /\ Len(old) \in Nat /\ Len(new) = Len(old) + 1
      /\ new[Len(new)] = gate
      /\ \A i \in 1..Len(old) : new[i] = old[i]
  BY <1>1
<1> HIDE DEF old, new
<1>3. \E i \in 1..Len(new) : new[i].type = gate.type
  BY <1>2
<1>4. ASSUME NEW t, \E i \in 1..Len(old) : old[i].type = t
      PROVE  \E i \in 1..Len(new) : new[i].type = t
  BY <1>2, <1>4
<1>5. \A i \in 1..Len(new) : new[i] = gate \/ (i \in 1..Len(old) /\ new[i] = old[i])
  BY <1>2
<1> QED BY <1>3, <1>4, <1>5 DEF GateSeen, Decisions, old, new

\* An automatic acceptance leaves the gate seen, once, and decides it the way
\* approval_mode none does.
LEMMA AutoAcceptGateFacts ==
  ASSUME NEW r \in RunState, NEW type \in GateTypes
  PROVE  /\ AutoAcceptGate(r, type) \in RunState
         /\ AutoAcceptGate(r, type) =
              [r EXCEPT !.gate_history = AutoAcceptGate(r, type).gate_history]
         /\ GateSeen(AutoAcceptGate(r, type), type)
         /\ \A t : GateSeen(r, t) => GateSeen(AutoAcceptGate(r, type), t)
         /\ Decisions(r) /\ (r.approval_mode = "none" \/ GateSeen(r, type))
              => Decisions(AutoAcceptGate(r, type))
<1>1. CASE GateSeen(r, type)
  BY <1>1 DEF AutoAcceptGate, RunState
<1>2. CASE ~GateSeen(r, type)
  <2> DEFINE gate == [MakeGate(r, type) EXCEPT !.status = "auto_approved"]
             s == AutoAcceptGate(r, type)
  <2>1. gate \in GateRecord /\ gate.type = type /\ gate.status = "auto_approved"
    BY DEF MakeGate, GateRecord, RunState
  <2>2. s = [r EXCEPT !.gate_history = Append(r.gate_history, gate)]
    BY <1>2 DEF AutoAcceptGate
  <2>3. s \in RunState
    <3> HIDE DEF gate
    <3>1. Append(r.gate_history, gate) \in Seq(GateRecord)
      BY <2>1 DEF RunState
    <3>2. \A h \in Seq(GateRecord) : [r EXCEPT !.gate_history = h] \in RunState
      BY DEF RunState
    <3> QED BY <2>2, <3>1, <3>2
  <2>4. s.gate_history = Append(r.gate_history, gate) /\ s.approval_mode = r.approval_mode
    <3> HIDE DEF gate
    <3> QED BY <2>2 DEF RunState
  <2> HIDE DEF gate, s
  <2>5. /\ GateSeen(s, type) /\ \A t : GateSeen(r, t) => GateSeen(s, t)
        /\ Decisions(r) /\ (type # "clarification_required"
                              => gate.status = Decision(r.approval_mode)) => Decisions(s)
    BY <2>1, <2>3, <2>4, AppendGate
  <2>6. r.approval_mode = "none" => gate.status = Decision(r.approval_mode)
    BY <2>1 DEF Decision
  <2>7. s = [r EXCEPT !.gate_history = s.gate_history]
    BY <2>2, <2>4
  <2> QED BY <1>2, <2>3, <2>5, <2>6, <2>7 DEF s
<1> QED BY <1>1, <1>2

\* A pause leaves a sound run, if the phase it goes to has what it needs.
LEMMA PausedFacts ==
  ASSUME NEW r \in RunState, NEW type \in GateTypes, NEW next \in Phases \ {"completed"},
         Decisions(r), PhaseNeeds(Paused(r, type, next)),
         type = "clarification_required" => next = "clarify",
         type # "clarification_required" => r.approval_mode = "major_gates"
  PROVE  /\ Paused(r, type, next) \in RunState
         /\ Sound(Paused(r, type, next))
         /\ Paused(r, type, next).status = "pending"
<1> DEFINE gate == MakeGate(r, type)
           s == Paused(r, type, next)
<1>1. gate \in GateRecord /\ gate.type = type /\ gate # NoGate
  BY DEF MakeGate, GateRecord, RunState, NoGate, GateTypes
<1>2. s = [r EXCEPT !.pending_gate = gate, !.current_phase = next, !.status = "pending"]
  BY DEF Paused
<1> HIDE DEF gate
<1>3. s \in RunState
  BY <1>1, <1>2 DEF RunState, Statuses
<1>4. /\ s.status = "pending" /\ s.pending_gate = gate /\ s.current_phase = next
      /\ s.approval_mode = r.approval_mode /\ s.gate_history = r.gate_history
  BY <1>2 DEF RunState
<1> HIDE DEF s
<1>5. Decisions(s)
  BY <1>4 DEF Decisions
<1>6. PhaseNeeds(s)
  BY DEF s
<1> QED BY <1>1, <1>3, <1>4, <1>5, <1>6 DEF Sound, OpenGate, s

--------------------------------------------------------------------------------
(* How a stretch of the loop ends.                                         *)

\* Going back to the head of the loop with a sound run, saved or not.
LEMMA ContinueKeeps ==
  ASSUME IInv, engine # "idle", NEW r \in RunState, Sound(r), r.status # "pending",
         Continue(r), store' \in {run, store}
  PROVE  IInv'
<1>1. run' = r /\ engine' = "loop" /\ role_map' = role_map
  BY DEF Continue
<1>2. TypeOK'
  BY <1>1 DEF IInv, TypeOK
<1>3. Sound(run)' /\ Sound(store)'
  BY <1>1 DEF IInv, Sound, Decisions, OpenGate, PhaseNeeds, SeenOrOpen, GateSeen,
              CleanReview, LastResult
<1>4. Ownership'
  BY <1>1 DEF IInv, Ownership
<1> QED BY <1>2, <1>3, <1>4 DEF IInv

\* Going to sleep with a sound run, saved.
LEMMA RestKeeps ==
  ASSUME IInv, NEW r \in RunState, Sound(r), run' = r, store' = r, engine' = "idle",
         role_map' = role_map
  PROVE  IInv'
<1>1. TypeOK'
  BY DEF IInv, TypeOK
<1>2. Sound(run)' /\ Sound(store)'
  BY DEF Sound, Decisions, OpenGate, PhaseNeeds, SeenOrOpen, GateSeen,
         CleanReview, LastResult
<1>3. Ownership'
  BY DEF Ownership
<1> QED BY <1>1, <1>2, <1>3 DEF IInv

--------------------------------------------------------------------------------
(* One lemma per action.                                                   *)

\* What the head of the loop may rely on when the run is not over.
LEMMA HeadFacts ==
  ASSUME IInv, engine = "loop", run.status \notin Terminal
  PROVE  /\ run \in RunState /\ Sound(run)
         /\ run.status = "in_progress" /\ run.pending_gate = NoGate
         /\ run.current_phase # "completed"
         /\ Decisions(run) /\ PhaseNeeds(run)
BY DEF IInv, TypeOK, Sound, OpenGate, Ownership, Terminal

\* The engine returns from a run that is over: nothing but engine changes.
LEMMA ReturnKeeps == ASSUME IInv, Return PROVE IInv'
BY RestKeeps DEF Return, AtHead, IInv, TypeOK

\* Pausing for open questions keeps the invariant: CLARIFY needs no gate.
LEMMA AskClarificationKeeps == ASSUME IInv, AskClarification PROVE IInv'
<1> DEFINE s == Paused(Clarifying, "clarification_required", "clarify")
<1>1. Clarifying \in RunState /\ SameControl(run, Clarifying)
  BY HeadFacts, SetStepStatusFacts DEF AskClarification, Clarifying, Phases, Statuses
<1>2. Decisions(Clarifying)
  BY <1>1, HeadFacts DEF AskClarification, SameControl, Decisions
<1>3. s.current_phase = "clarify"
  BY <1>1 DEF Paused, RunState
<1>4. PhaseNeeds(s)
  BY <1>3 DEF PhaseNeeds
<1>5. s \in RunState /\ Sound(s)
  BY <1>1, <1>2, <1>4, PausedFacts DEF GateTypes, Phases
<1> QED BY <1>5, RestKeeps DEF AskClarification, PauseForGate

\* Pausing after CLARIFY keeps the invariant: the phase it goes to needs the
\* requirements locked, and that is the gate it opens.
LEMMA AskRequirementsLockKeeps == ASSUME IInv, AskRequirementsLock PROVE IInv'
<1> DEFINE next == FindNextPhase(run.flow, "clarify")
           s == Paused(Clarified, "requirements_locked", next)
<1>1. Clarified \in RunState /\ SameControl(run, Clarified)
  BY HeadFacts, SetStepStatusFacts DEF AskRequirementsLock, Clarified, Phases, Statuses
<1>2. Decisions(Clarified) /\ Clarified.approval_mode = "major_gates"
  BY <1>1, HeadFacts DEF AskRequirementsLock, SameControl, Decisions
<1>3. run.flow \in Flows
  BY HeadFacts DEF AskRequirementsLock, RunState
<1>4. /\ next \in {"design", "debug", "verify", "review"}
      /\ next = "design" <=> PlanContains(run.flow, "design")
      /\ next = "verify" => PlanContains(run.flow, "verify")
  BY <1>3, PlanFacts
<1>5. /\ s.current_phase = next /\ s.flow = run.flow /\ s.questions = run.questions
      /\ s.gate_history = run.gate_history
      /\ s.pending_gate.type = "requirements_locked"
  BY <1>1 DEF Paused, RunState, SameControl, MakeGate
<1> HIDE DEF s, next
<1>6. PhaseNeeds(s)
  BY <1>4, <1>5 DEF PhaseNeeds, SeenOrOpen, GateSeen, AskRequirementsLock, NeedsAnswers
<1>7. s \in RunState /\ Sound(s)
  BY <1>1, <1>2, <1>4, <1>6, PausedFacts DEF GateTypes, Phases, s
<1> QED BY <1>7, RestKeeps DEF AskRequirementsLock, PauseForGate, s, next

\* Leaving CLARIFY keeps the invariant: the requirements are locked by then.
LEMMA LockRequirementsKeeps == ASSUME IInv, LockRequirements PROVE IInv'
<1> DEFINE next == FindNextPhase(run.flow, "clarify")
           locked == AutoAcceptGate(Clarified, "requirements_locked")
           s == [locked EXCEPT !.current_phase = next, !.status = "in_progress"]
<1>1. Clarified \in RunState /\ SameControl(run, Clarified)
  BY HeadFacts, SetStepStatusFacts DEF LockRequirements, AtHead, Clarified, Phases, Statuses
<1>2. /\ Decisions(Clarified)
      /\ \A t : GateSeen(Clarified, t) <=> GateSeen(run, t)
      /\ run.pending_gate = NoGate /\ run.flow \in Flows
  BY <1>1, HeadFacts DEF LockRequirements, AtHead, SameControl, Decisions, GateSeen, RunState
<1>3. Clarified.approval_mode = "none" \/ GateSeen(Clarified, "requirements_locked")
  BY <1>1, <1>2 DEF LockRequirements, SameControl
<1>4. /\ locked \in RunState
      /\ locked = [Clarified EXCEPT !.gate_history = locked.gate_history]
      /\ GateSeen(locked, "requirements_locked")
      /\ \A t : GateSeen(Clarified, t) => GateSeen(locked, t)
      /\ Decisions(locked)
  BY <1>1, <1>2, <1>3, AutoAcceptGateFacts DEF GateTypes
<1>5. /\ next \in {"design", "debug", "verify", "review"}
      /\ next = "design" <=> PlanContains(run.flow, "design")
      /\ next = "verify" => PlanContains(run.flow, "verify")
  BY <1>2, PlanFacts
<1>6. /\ locked.flow = run.flow /\ locked.questions = run.questions
      /\ locked.pending_gate = NoGate
  BY <1>1, <1>2, <1>4 DEF SameControl, RunState
<1> HIDE DEF locked, next
<1>7. /\ s \in RunState /\ s.status = "in_progress" /\ s.current_phase = next
      /\ s.flow = locked.flow /\ s.questions = locked.questions
      /\ s.approval_mode = locked.approval_mode
      /\ s.pending_gate = NoGate /\ s.gate_history = locked.gate_history
  BY <1>4, <1>5, <1>6 DEF RunState, Phases, Statuses
<1> HIDE DEF s
<1>8. Decisions(s) /\ \A t : GateSeen(locked, t) => GateSeen(s, t)
  BY <1>4, <1>7 DEF Decisions, GateSeen
<1>9. PhaseNeeds(s)
  <2>1. ~s.questions \/ GateSeen(s, "clarification_required")
    BY <1>2, <1>4, <1>6, <1>7, <1>8 DEF LockRequirements, NeedsAnswers
  <2> QED BY <1>4, <1>5, <1>6, <1>7, <1>8, <2>1 DEF PhaseNeeds, SeenOrOpen
<1>10. Sound(s)
  BY <1>5, <1>7, <1>8, <1>9 DEF Sound, OpenGate, NoGate
<1> QED BY <1>7, <1>10, ContinueKeeps DEF LockRequirements, AtHead, s, locked, next

\* FINALIZE keeps the invariant: it needs what a DONE run needs.
LEMMA FinalizeKeeps == ASSUME IInv, Finalize PROVE IInv'
<1> DEFINE marked == SetStepStatus(run, "finalize", "done")
           s == [marked EXCEPT !.current_phase = "completed", !.status = "done"]
<1>1. marked \in RunState /\ SameControl(run, marked)
  BY HeadFacts, SetStepStatusFacts DEF Finalize, AtHead, Phases, Statuses
<1> HIDE DEF marked
<1>2. /\ s \in RunState /\ s.status = "done" /\ s.current_phase = "completed"
      /\ s.flow = run.flow /\ s.questions = run.questions
      /\ s.approval_mode = run.approval_mode
      /\ s.pending_gate = NoGate /\ s.gate_history = run.gate_history
      /\ s.phase_results = run.phase_results
  BY <1>1, HeadFacts DEF Finalize, AtHead, RunState, Phases, Statuses, SameControl
<1> HIDE DEF s
<1>3. PhaseNeeds(run) /\ Decisions(run) /\ run.current_phase = "finalize"
      /\ run.pending_gate = NoGate
  BY HeadFacts DEF Finalize, AtHead
<1>4. PhaseNeeds(s) /\ Decisions(s)
  BY <1>2, <1>3 DEF PhaseNeeds, SeenOrOpen, GateSeen, CleanReview, LastResult, Decisions
<1>5. Sound(s)
  BY <1>2, <1>4 DEF Sound, OpenGate, NoGate
<1> QED BY <1>2, <1>5, ContinueKeeps DEF Finalize, AtHead, s, marked

\* An escalated run owes nothing but not to wait.
LEMMA EscalatedIsSound ==
  ASSUME NEW r, r.status = "escalated", r.pending_gate = NoGate
  PROVE  Sound(r)
BY DEF Sound

\* A missing role escalates the run, and an escalated run owes no gate.
LEMMA MissingRoleKeeps == ASSUME IInv, MissingRole PROVE IInv'
<1> DEFINE marked == SetStepStatus(run, run.current_phase, "escalated")
           s == [marked EXCEPT !.status = "escalated", !.escalation_reason = "role"]
<1>1. marked \in RunState /\ SameControl(run, marked)
  BY HeadFacts, SetStepStatusFacts DEF MissingRole, AtHead, RunState, Statuses
<1> HIDE DEF marked
<1>2. s \in RunState /\ s.status = "escalated" /\ s.pending_gate = NoGate
  BY <1>1, HeadFacts DEF MissingRole, AtHead, RunState, Statuses, Reasons, SameControl
<1> QED BY <1>2, EscalatedIsSound, ContinueKeeps DEF MissingRole, AtHead, marked

\* An agent is called only in a phase whose gates are settled.
LEMMA InvokeAgentKeeps == ASSUME IInv, InvokeAgent PROVE IInv'
<1> DEFINE s == SetStepStatus(run, run.current_phase, "in_progress")
<1>1. s \in RunState /\ SameControl(run, s)
  BY HeadFacts, SetStepStatusFacts DEF InvokeAgent, AtHead, RunState, Statuses
<1>2. run' = s /\ store' = run /\ engine' = "agent" /\ role_map' = role_map
  BY DEF InvokeAgent, AtHead
<1>3. Sound(s) /\ Sound(run) /\ run \in RunState /\ run.status = "in_progress"
  BY <1>1, HeadFacts, SoundFrame DEF InvokeAgent, AtHead
<1>4. s.status = "in_progress" /\ s.current_phase = run.current_phase
  BY <1>1, <1>3 DEF SameControl
<1> HIDE DEF s
<1>5. TypeOK'
  BY <1>1, <1>2, <1>3 DEF TypeOK, IInv
<1>6. Sound(run)' /\ Sound(store)'
  BY <1>2, <1>3 DEF Sound, Decisions, OpenGate, PhaseNeeds, SeenOrOpen, GateSeen,
                    CleanReview, LastResult
<1>7. Ownership'
  BY <1>2, <1>3, <1>4 DEF Ownership, AgentPhase, InvokeAgent
<1> QED BY <1>5, <1>6, <1>7 DEF IInv

--------------------------------------------------------------------------------
(* What the loop does with a result.                                       *)

\* A run that has just recorded the result of its phase.
Judged(r) ==
  /\ r \in RunState /\ r.status = "in_progress" /\ r.pending_gate = NoGate
  /\ r.current_phase \in {"design", "implement", "debug", "verify", "review"}
  /\ Decisions(r) /\ PhaseNeeds(r)
  /\ r.phase_results # <<>> /\ LastResult(r).phase = r.current_phase

\* Rework never leads where a gate is missing: the phases it goes back to need
\* the requirements and the design, which the phases it comes from needed too.
LEMMA RetryFacts ==
  ASSUME NEW r \in RunState, NEW role \in RetryKeys, NEW phase \in {"debug", "implement"},
         NEW exhausted \in RunState,
         r.current_phase \in {"verify", "review"}, r.pending_gate = NoGate,
         exhausted.pending_gate = NoGate,
         Decisions(r), PhaseNeeds(r)
  PROVE  LET s == RetryOrEscalate(r, role, phase, exhausted)
         IN  s \in RunState /\ Sound(s) /\ s.status # "pending"
<1> DEFINE retries == r.retry_counts[role] + 1
           s == RetryOrEscalate(r, role, phase, exhausted)
<1>1. retries \in Nat
  BY DEF RunState
<1> HIDE DEF retries
<1>2. CASE retries <= MaxRetries(role)
  <2>1. s = [r EXCEPT !.retry_counts = [r.retry_counts EXCEPT ![role] = retries],
                      !.current_phase = phase, !.status = "in_progress"]
    BY <1>2 DEF RetryOrEscalate, retries
  <2>2. [r.retry_counts EXCEPT ![role] = retries] \in [RetryKeys -> Nat]
    BY <1>1 DEF RunState
  <2>3. /\ s \in RunState /\ s.status = "in_progress" /\ s.current_phase = phase
        /\ s.flow = r.flow /\ s.questions = r.questions
        /\ s.approval_mode = r.approval_mode
        /\ s.pending_gate = NoGate /\ s.gate_history = r.gate_history
    BY <2>1, <2>2 DEF RunState, Phases, Statuses
  <2> HIDE DEF s
  <2>4. PhaseNeeds(s) /\ Decisions(s)
    BY <2>3 DEF PhaseNeeds, SeenOrOpen, GateSeen, Decisions
  <2> QED BY <2>3, <2>4 DEF Sound, OpenGate, NoGate, s
<1>3. CASE ~(retries <= MaxRetries(role))
  <2>1. s = [exhausted EXCEPT !.retry_counts = [exhausted.retry_counts EXCEPT ![role] = retries],
                              !.status = "escalated"]
    BY <1>3 DEF RetryOrEscalate, retries
  <2>2. [exhausted.retry_counts EXCEPT ![role] = retries] \in [RetryKeys -> Nat]
    BY <1>1 DEF RunState
  <2>3. s \in RunState /\ s.status = "escalated" /\ s.pending_gate = NoGate
    BY <2>1, <2>2 DEF RunState, Statuses
  <2> QED BY <2>3, EscalatedIsSound
<1> QED BY <1>2, <1>3

\* Judged survives what marks a step and gives a reason.
LEMMA MarkedFacts ==
  ASSUME NEW r, Judged(r), NEW status \in Statuses, NEW reason \in Reasons
  PROVE  LET s == [SetStepStatus(r, r.current_phase, status) EXCEPT !.escalation_reason = reason]
         IN  Judged(s) /\ s.current_phase = r.current_phase
<1> DEFINE marked == SetStepStatus(r, r.current_phase, status)
           s == [marked EXCEPT !.escalation_reason = reason]
<1>1. marked \in RunState /\ SameControl(r, marked)
  BY SetStepStatusFacts DEF Judged, RunState
<1> HIDE DEF marked
<1>2. s \in RunState /\ SameControl(r, s)
  BY <1>1 DEF RunState, SameControl
<1> HIDE DEF s
<1> QED
  BY <1>2 DEF Judged, SameControl, Decisions, PhaseNeeds, SeenOrOpen, GateSeen,
              CleanReview, LastResult, s, marked

\* Marking a step does not change what the last result says.
LEMMA SetStepJudged ==
  ASSUME NEW r, Judged(r), NEW status \in Statuses
  PROVE  LET s == SetStepStatus(r, r.current_phase, status)
         IN  Judged(s) /\ SameControl(r, s)
<1> DEFINE s == SetStepStatus(r, r.current_phase, status)
<1>1. s \in RunState /\ SameControl(r, s)
  BY SetStepStatusFacts DEF Judged, RunState
<1> HIDE DEF s
<1> QED
  BY <1>1 DEF Judged, SameControl, Decisions, PhaseNeeds, SeenOrOpen, GateSeen,
              CleanReview, LastResult, s

\* An escalation leaves a sound run: escalated, or at DEBUG, which needs no more
\* than VERIFY did.
LEMMA EscalatePhaseFacts ==
  ASSUME NEW r, Judged(r)
  PROVE  LET s == EscalatePhase(r, r.current_phase)
         IN  s \in RunState /\ Sound(s) /\ s.status # "pending"
<1>1. CASE r.current_phase = "verify"
  <2>1. EscalatePhase(r, r.current_phase) = RetryOrEscalate(r, "debugger", "debug", r)
    BY <1>1 DEF EscalatePhase
  <2> QED BY <1>1, <2>1, RetryFacts DEF Judged, RetryKeys
<1>2. CASE r.current_phase # "verify"
  <2> DEFINE s == EscalatePhase(r, r.current_phase)
  <2>1. s = [r EXCEPT !.status = "escalated"]
    BY <1>2 DEF EscalatePhase
  <2>2. s \in RunState /\ s.status = "escalated" /\ s.pending_gate = NoGate
    BY <2>1 DEF Judged, RunState, Statuses
  <2> QED BY <2>2, EscalatedIsSound
<1> QED BY <1>1, <1>2

\* Handling an escalated result keeps the invariant.
LEMMA EscalatedKeeps ==
  ASSUME IInv, engine # "idle", NEW r, Judged(r), Escalated(r, r.current_phase)
  PROVE  IInv'
<1> DEFINE marked == [SetStepStatus(r, r.current_phase, "escalated") EXCEPT
                        !.escalation_reason = "agent"]
           s == EscalatePhase(marked, r.current_phase)
<1>1. Judged(marked) /\ marked.current_phase = r.current_phase
  BY MarkedFacts DEF Statuses, Reasons
<1> HIDE DEF marked
<1>2. s \in RunState /\ Sound(s) /\ s.status # "pending"
  BY <1>1, EscalatePhaseFacts
<1> QED BY <1>2, ContinueKeeps DEF Escalated, marked

\* Sending a blocked verification or review back keeps the invariant.
LEMMA ReworkKeeps ==
  ASSUME IInv, engine # "idle", NEW r, Judged(r), Rework(r, r.current_phase)
  PROVE  IInv'
<1> DEFINE passed == SetStepStatus(r, r.current_phase, "done")
           spent == Exhausted(r, r.current_phase)
<1>1. Judged(passed) /\ passed.current_phase = r.current_phase
  BY SetStepJudged DEF Statuses, SameControl
<1>2. Judged(spent)
  BY MarkedFacts DEF Exhausted, Statuses, Reasons
<1> HIDE DEF passed, spent
<1>3. CASE r.current_phase = "verify"
             /\ Continue(RetryOrEscalate(passed, "debugger", "debug", spent))
  <2> DEFINE s == RetryOrEscalate(passed, "debugger", "debug", spent)
  <2>1. s \in RunState /\ Sound(s) /\ s.status # "pending"
    BY <1>1, <1>2, <1>3, RetryFacts DEF Judged, RetryKeys
  <2> QED BY <1>3, <2>1, ContinueKeeps DEF Rework
<1>4. CASE r.current_phase = "review"
             /\ Continue(RetryOrEscalate(passed, "implementer", "implement", spent))
  <2> DEFINE s == RetryOrEscalate(passed, "implementer", "implement", spent)
  <2>1. s \in RunState /\ Sound(s) /\ s.status # "pending"
    BY <1>1, <1>2, <1>4, RetryFacts DEF Judged, RetryKeys
  <2> QED BY <1>4, <2>1, ContinueKeeps DEF Rework
<1> QED BY <1>3, <1>4 DEF Rework, passed, spent

\* The gates of DESIGN and REVIEW, and where they lead.
LEMMA GatePhaseFacts ==
  ASSUME NEW r, Judged(r), r.current_phase \in {"design", "review"}
  PROVE  /\ GateOf(r.current_phase) \in {"design_locked", "release_ready"}
         /\ AfterGate(r, r.current_phase) \in {"implement", "finalize"}
         /\ AfterGate(r, r.current_phase) = "implement" => GateOf(r.current_phase) = "design_locked"
         /\ AfterGate(r, r.current_phase) = "finalize" =>
              /\ GateOf(r.current_phase) = "release_ready" /\ LastResult(r).phase = "review"
              /\ PlanContains(r.flow, "design") => GateSeen(r, "design_locked")
         /\ GateSeen(r, "requirements_locked")
         /\ ~r.questions \/ GateSeen(r, "clarification_required")
<1>1. r.flow \in Flows /\ r.pending_gate.type = "none"
  BY DEF Judged, RunState, NoGate
<1>2. r.current_phase = "design" => PlanContains(r.flow, "design")
  BY DEF Judged, PhaseNeeds
<1>3. r.current_phase = "design" => FindNextPhase(r.flow, "design") = "implement"
  BY <1>1, <1>2, PlanFacts
<1> QED BY <1>1, <1>3 DEF GateOf, AfterGate, Judged, PhaseNeeds, SeenOrOpen

\* Pausing after a design or a review keeps the invariant: the phase it goes to
\* needs the gate it opens.
LEMMA AskGateKeeps ==
  ASSUME IInv, NEW r, Judged(r), AskGate(r, r.current_phase)
  PROVE  IInv'
<1> DEFINE passed == SetStepStatus(r, r.current_phase, "done")
           type == GateOf(r.current_phase)
           next == AfterGate(r, r.current_phase)
           s == Paused(passed, type, next)
<1>1. passed \in RunState /\ SameControl(r, passed) /\ Judged(passed)
  BY SetStepJudged DEF Statuses, Judged
<1>2. /\ type \in {"design_locked", "release_ready"} /\ next \in {"implement", "finalize"}
      /\ next = "implement" => type = "design_locked"
      /\ next = "finalize" =>
           /\ type = "release_ready" /\ LastResult(r).phase = "review"
           /\ PlanContains(r.flow, "design") => GateSeen(r, "design_locked")
      /\ GateSeen(r, "requirements_locked")
      /\ ~r.questions \/ GateSeen(r, "clarification_required")
  BY GatePhaseFacts DEF AskGate
<1>3. LastResult(r).verdict \in {"done", "failed"} /\ r.approval_mode = "major_gates"
      /\ r.phase_results # <<>>
  BY DEF AskGate, Accepted, Judged
<1> HIDE DEF passed, type, next
<1>4. /\ s.current_phase = next /\ s.flow = r.flow /\ s.questions = r.questions
      /\ s.gate_history = r.gate_history /\ s.phase_results = r.phase_results
      /\ s.pending_gate.type = type
  BY <1>1 DEF Paused, RunState, SameControl, MakeGate
<1> HIDE DEF s
<1>5. PhaseNeeds(s)
  BY <1>2, <1>3, <1>4 DEF PhaseNeeds, SeenOrOpen, GateSeen, CleanReview, LastResult
<1>6. Decisions(passed) /\ passed.approval_mode = "major_gates"
  BY <1>1, <1>3 DEF Judged, SameControl
<1>7. s \in RunState /\ Sound(s)
  BY <1>1, <1>2, <1>5, <1>6, PausedFacts DEF GateTypes, Phases, s
<1> QED BY <1>7, RestKeeps DEF AskGate, PauseForGate, s, passed, type, next

\* Going on after a design or a review keeps the invariant: its gate is settled.
LEMMA PassGateKeeps ==
  ASSUME IInv, engine # "idle", NEW r, Judged(r), PassGate(r, r.current_phase)
  PROVE  IInv'
<1> DEFINE passed == SetStepStatus(r, r.current_phase, "done")
           type == GateOf(r.current_phase)
           next == AfterGate(r, r.current_phase)
           locked == AutoAcceptGate(passed, type)
           s == [locked EXCEPT !.current_phase = next]
<1>1. passed \in RunState /\ SameControl(r, passed) /\ Judged(passed)
  BY SetStepJudged DEF Statuses, Judged
<1>2. /\ type \in {"design_locked", "release_ready"} /\ next \in {"implement", "finalize"}
      /\ next = "implement" => type = "design_locked"
      /\ next = "finalize" =>
           /\ type = "release_ready" /\ LastResult(r).phase = "review"
           /\ PlanContains(r.flow, "design") => GateSeen(r, "design_locked")
      /\ GateSeen(r, "requirements_locked")
      /\ ~r.questions \/ GateSeen(r, "clarification_required")
  BY GatePhaseFacts DEF PassGate
<1>3. LastResult(r).verdict \in {"done", "failed"} /\ r.phase_results # <<>>
      /\ r.status = "in_progress" /\ r.pending_gate = NoGate
  BY DEF PassGate, Accepted, Judged
<1>4. \A t : GateSeen(passed, t) <=> GateSeen(r, t)
  BY <1>1 DEF SameControl, GateSeen
<1>5. passed.approval_mode = "none" \/ GateSeen(passed, type)
  BY <1>1, <1>4 DEF PassGate, SameControl
<1> HIDE DEF passed, type, next
<1>6. /\ locked \in RunState
      /\ locked = [passed EXCEPT !.gate_history = locked.gate_history]
      /\ GateSeen(locked, type)
      /\ \A t : GateSeen(passed, t) => GateSeen(locked, t)
      /\ Decisions(locked)
  BY <1>1, <1>2, <1>5, AutoAcceptGateFacts DEF GateTypes, Judged
<1> HIDE DEF locked
<1>7. /\ s \in RunState /\ s.status = "in_progress" /\ s.current_phase = next
      /\ s.flow = r.flow /\ s.questions = r.questions
      /\ s.approval_mode = locked.approval_mode
      /\ s.pending_gate = NoGate /\ s.gate_history = locked.gate_history
      /\ s.phase_results = r.phase_results
  BY <1>1, <1>2, <1>3, <1>6 DEF RunState, Phases, Statuses, SameControl
<1> HIDE DEF s
<1>8. Decisions(s) /\ \A t : GateSeen(locked, t) => GateSeen(s, t)
  BY <1>6, <1>7 DEF Decisions, GateSeen
<1>9. PhaseNeeds(s)
  <2>1. \A t : GateSeen(r, t) => GateSeen(s, t)
    BY <1>4, <1>6, <1>8
  <2>2. GateSeen(s, type)
    BY <1>6, <1>8
  <2> QED BY <1>2, <1>3, <1>7, <2>1, <2>2 DEF PhaseNeeds, SeenOrOpen, CleanReview, LastResult
<1>10. Sound(s)
  BY <1>2, <1>7, <1>8, <1>9 DEF Sound, OpenGate, NoGate
<1> QED BY <1>7, <1>10, ContinueKeeps DEF PassGate, s, locked, passed, type, next

\* Going on after an implementation, a correction or a verification keeps the
\* invariant: what follows needs no gate more.
LEMMA AdvanceKeeps ==
  ASSUME IInv, engine # "idle", NEW r, Judged(r), Advance(r, r.current_phase)
  PROVE  IInv'
<1> DEFINE passed == SetStepStatus(r, r.current_phase, "done")
           next == NextPhaseAfterSuccess(r.flow, r.current_phase)
           s == [passed EXCEPT !.current_phase = next, !.status = "in_progress"]
<1>1. passed \in RunState /\ SameControl(r, passed)
  BY SetStepJudged DEF Statuses, Judged
<1>2. next \in {"verify", "review"} /\ (next = "verify" => PlanContains(r.flow, "verify"))
  <2>1. r.flow \in Flows /\ r.current_phase \in {"implement", "debug", "verify"}
    BY DEF Judged, RunState, Advance
  <2>2. r.current_phase = "verify" => PlanContains(r.flow, "verify")
    BY DEF Judged, PhaseNeeds
  <2> QED BY <2>1, <2>2, PlanFacts DEF NextPhaseAfterSuccess
<1> HIDE DEF passed, next
<1>3. /\ s \in RunState /\ s.status = "in_progress" /\ s.current_phase = next
      /\ s.flow = r.flow /\ s.questions = r.questions
      /\ s.approval_mode = r.approval_mode
      /\ s.pending_gate = NoGate /\ s.gate_history = r.gate_history
  BY <1>1, <1>2 DEF RunState, Phases, Statuses, SameControl, Judged
<1> HIDE DEF s
<1>4. r.current_phase \in {"implement", "debug", "verify"} /\ r.pending_gate = NoGate
      /\ Decisions(r) /\ PhaseNeeds(r)
  BY DEF Judged, Advance
<1>5. PhaseNeeds(s) /\ Decisions(s)
  BY <1>2, <1>3, <1>4 DEF PhaseNeeds, SeenOrOpen, GateSeen, Decisions
<1>6. Sound(s)
  BY <1>2, <1>3, <1>5 DEF Sound, OpenGate, NoGate
<1> QED BY <1>3, <1>6, ContinueKeeps DEF Advance, s, passed, next

\* Whatever the loop does with a recorded result keeps the invariant.
LEMMA EvaluateKeeps ==
  ASSUME IInv, engine # "idle", NEW r, Judged(r), Evaluate(r)
  PROVE  IInv'
BY EscalatedKeeps, ReworkKeeps, AskGateKeeps, PassGateKeeps, AdvanceKeeps DEF Evaluate

--------------------------------------------------------------------------------
(* The two awaits, the loss of an engine, and the decisions.               *)

\* What the engine may rely on when an agent or the executor answers.
LEMMA WorkFacts ==
  ASSUME IInv, engine \in {"agent", "executor"}
  PROVE  /\ run \in RunState /\ run.status = "in_progress" /\ run.pending_gate = NoGate
         /\ run.current_phase \in {"design", "implement", "debug", "verify", "review"}
         /\ Decisions(run) /\ PhaseNeeds(run)
BY DEF IInv, TypeOK, Sound, OpenGate, Ownership, AgentPhase

\* Recording a result leaves a sound run that carries the verdict.
LEMMA RecordedFacts ==
  ASSUME IInv, engine = "agent", NEW verdict \in VerdictsOf(run.current_phase)
  PROVE  Judged(Recorded(verdict)) /\ Recorded(verdict).current_phase = run.current_phase
<1> DEFINE result == [phase |-> run.current_phase, verdict |-> verdict, outcome |-> "none"]
           s == Recorded(verdict)
<1>1. result \in PhaseResult /\ result.phase = run.current_phase
  BY WorkFacts DEF VerdictsOf, Verdicts, PhaseResult, RunState
<1>2. s = [run EXCEPT !.phase_results = Append(run.phase_results, result)]
  BY DEF Recorded
<1> HIDE DEF result
<1>3. /\ Append(run.phase_results, result) \in Seq(PhaseResult)
      /\ Append(run.phase_results, result) # <<>>
      /\ Append(run.phase_results, result)[Len(Append(run.phase_results, result))] = result
  BY <1>1, WorkFacts DEF RunState
<1>4. /\ s \in RunState /\ s.status = "in_progress" /\ s.pending_gate = NoGate
      /\ s.current_phase = run.current_phase /\ s.flow = run.flow
      /\ s.questions = run.questions /\ s.approval_mode = run.approval_mode
      /\ s.gate_history = run.gate_history
      /\ s.phase_results # <<>> /\ LastResult(s) = result
  BY <1>2, <1>3, WorkFacts DEF RunState, LastResult
<1> HIDE DEF s
<1>5. Decisions(s) /\ PhaseNeeds(s)
  BY <1>4, WorkFacts DEF Decisions, PhaseNeeds, SeenOrOpen, GateSeen
<1> QED BY <1>1, <1>4, <1>5, WorkFacts DEF Judged, s

\* An agent's answer keeps the invariant, when no executor is to run ...
LEMMA AgentReturnsKeeps == ASSUME IInv, AgentReturns PROVE IInv'
<1>1. PICK verdict \in VerdictsOf(run.current_phase) : Evaluate(Recorded(verdict))
  BY DEF AgentReturns
<1>2. Judged(Recorded(verdict))
  BY RecordedFacts DEF AgentReturns
<1> QED BY <1>1, <1>2, EvaluateKeeps DEF AgentReturns

\* ... and when one is.
LEMMA AgentReturnsToExecutorKeeps == ASSUME IInv, AgentReturnsToExecutor PROVE IInv'
<1>1. PICK verdict \in VerdictsOf(run.current_phase) : run' = Recorded(verdict)
  BY DEF AgentReturnsToExecutor
<1>2. Judged(run') /\ run'.current_phase = run.current_phase
  BY <1>1, RecordedFacts DEF AgentReturnsToExecutor
<1>3. engine' = "executor" /\ store' = store /\ role_map' = role_map
  BY DEF AgentReturnsToExecutor
<1>4. TypeOK'
  BY <1>2, <1>3 DEF IInv, TypeOK, Judged
<1>5. Sound(run)'
  BY <1>2 DEF Judged, Sound, Decisions, OpenGate, PhaseNeeds, SeenOrOpen, GateSeen,
              CleanReview, LastResult, NoGate
<1>6. Sound(store)'
  BY <1>3 DEF IInv, Sound, Decisions, OpenGate, PhaseNeeds, SeenOrOpen, GateSeen,
              CleanReview, LastResult
<1>7. Ownership'
  BY <1>2, <1>3 DEF IInv, Ownership, Judged, AgentPhase, LastResult, AgentReturnsToExecutor
<1> QED BY <1>4, <1>5, <1>6, <1>7 DEF IInv

\* Recording an executor outcome leaves a sound run with the same verdict.
LEMMA ExecutedFacts ==
  ASSUME IInv, engine = "executor", NEW outcome \in {"done", "escalated"}
  PROVE  Judged(Executed(outcome)) /\ Executed(outcome).current_phase = run.current_phase
<1> DEFINE n == Len(run.phase_results)
           old == run.phase_results
           result == [old[n] EXCEPT !.outcome = outcome]
           new == [old EXCEPT ![n] = result]
           s == Executed(outcome)
<1>1. old \in Seq(PhaseResult) /\ n \in 1..Len(old) /\ old[n].phase = run.current_phase
  BY WorkFacts DEF IInv, Ownership, LastResult, RunState
<1>2. result \in PhaseResult /\ result.phase = run.current_phase
  <2>1. old[n] \in PhaseResult
    BY <1>1
  <2> HIDE DEF old, n
  <2> QED BY <1>1, <2>1 DEF PhaseResult
<1>3. s = [run EXCEPT !.phase_results = new]
  BY DEF Executed
<1> HIDE DEF result
<1>4. new \in Seq(PhaseResult) /\ Len(new) = n /\ new # <<>> /\ new[n] = result
  BY <1>1, <1>2
<1> HIDE DEF new, n
<1>5. /\ s \in RunState /\ s.status = "in_progress" /\ s.pending_gate = NoGate
      /\ s.current_phase = run.current_phase /\ s.flow = run.flow
      /\ s.questions = run.questions /\ s.approval_mode = run.approval_mode
      /\ s.gate_history = run.gate_history
      /\ s.phase_results # <<>> /\ LastResult(s) = result
  BY <1>3, <1>4, WorkFacts DEF RunState, LastResult
<1> HIDE DEF s
<1>6. Decisions(s) /\ PhaseNeeds(s)
  BY <1>5, WorkFacts DEF Decisions, PhaseNeeds, SeenOrOpen, GateSeen
<1> QED BY <1>2, <1>5, <1>6, WorkFacts DEF Judged, s

\* A green executor keeps the invariant.
LEMMA ExecutorSucceedsKeeps == ASSUME IInv, ExecutorSucceeds PROVE IInv'
<1>1. Judged(Executed("done"))
  BY ExecutedFacts DEF ExecutorSucceeds
<1> QED BY <1>1, EvaluateKeeps DEF ExecutorSucceeds

\* A failed executor keeps the invariant.
LEMMA ExecutorEscalatesKeeps == ASSUME IInv, ExecutorEscalates PROVE IInv'
<1> DEFINE executed == Executed("escalated")
           failed == [SetStepStatus(executed, run.current_phase, "failed") EXCEPT
                        !.escalation_reason = "executor"]
           s == EscalatePhase(failed, run.current_phase)
<1>1. Judged(executed) /\ executed.current_phase = run.current_phase
  BY ExecutedFacts DEF ExecutorEscalates
<1> HIDE DEF executed
<1>2. Judged(failed) /\ failed.current_phase = run.current_phase
  <2>1. failed = [SetStepStatus(executed, executed.current_phase, "failed") EXCEPT
                    !.escalation_reason = "executor"]
    BY <1>1
  <2> HIDE DEF failed
  <2> QED BY <1>1, <2>1, MarkedFacts DEF Statuses, Reasons
<1> HIDE DEF failed
<1>3. s \in RunState /\ Sound(s) /\ s.status # "pending"
  BY <1>2, EscalatePhaseFacts
<1> QED BY <1>3, ContinueKeeps DEF ExecutorEscalates, failed, executed

\* Losing the engine keeps the invariant: what was saved is sound.
LEMMA LoseEngineKeeps == ASSUME IInv, LoseEngine PROVE IInv'
BY RestKeeps DEF LoseEngine, IInv, TypeOK

\* What a decision may rely on.
LEMMA WaitingFacts ==
  ASSUME IInv, engine = "idle", store.pending_gate # NoGate
  PROVE  /\ store \in RunState /\ store.pending_gate \in GateRecord
         /\ store.status = "pending" /\ store.current_phase # "completed"
         /\ Decisions(store) /\ OpenGate(store) /\ PhaseNeeds(store)
BY DEF IInv, TypeOK, Sound, RunState

\* A decision moves the pending gate to the history.
LEMMA DecidedFacts ==
  ASSUME IInv, engine = "idle", store.pending_gate # NoGate,
         NEW status \in {"approved", "rejected"}
  PROVE  LET gate == [store.pending_gate EXCEPT !.status = status]
             s == Decided(status)
         IN  /\ gate \in GateRecord /\ gate.type = store.pending_gate.type
             /\ gate.status = status
             /\ s \in RunState
             /\ s = [store EXCEPT !.gate_history = Append(store.gate_history, gate),
                                  !.pending_gate = NoGate]
<1> DEFINE gate == [store.pending_gate EXCEPT !.status = status]
           s == Decided(status)
<1>1. gate \in GateRecord /\ gate.type = store.pending_gate.type /\ gate.status = status
  BY WaitingFacts DEF GateRecord
<1>2. s = [store EXCEPT !.gate_history = Append(store.gate_history, gate),
                        !.pending_gate = NoGate]
  BY DEF Decided
<1> HIDE DEF gate
<1>3. Append(store.gate_history, gate) \in Seq(GateRecord)
  BY <1>1, WaitingFacts DEF RunState
<1>4. \A h \in Seq(GateRecord) :
        [store EXCEPT !.gate_history = h, !.pending_gate = NoGate] \in RunState
  BY WaitingFacts DEF RunState
<1>5. s \in RunState
  BY <1>2, <1>3, <1>4
<1> QED BY <1>1, <1>2, <1>5 DEF gate

\* A rejection keeps the invariant: it escalates the run.
LEMMA RejectKeeps == ASSUME IInv, Reject PROVE IInv'
<1> DEFINE s == [Decided("rejected") EXCEPT !.status = "escalated", !.escalation_reason = "gate"]
<1>1. Decided("rejected") \in RunState /\ Decided("rejected").pending_gate = NoGate
  BY DecidedFacts, WaitingFacts DEF Reject, RunState
<1>2. s \in RunState /\ s.status = "escalated" /\ s.pending_gate = NoGate
  BY <1>1 DEF RunState, Statuses, Reasons
<1> QED BY <1>2, EscalatedIsSound, RestKeeps DEF Reject

\* An approval keeps the invariant: the gate it settles is the one the phase
\* ahead needs.
LEMMA ApproveKeeps == ASSUME IInv, Approve PROVE IInv'
<1> DEFINE gate == [store.pending_gate EXCEPT !.status = "approved"]
           h == Append(store.gate_history, gate)
           d == Decided("approved")
           s == run'
<1>1. /\ gate \in GateRecord /\ gate.type = store.pending_gate.type
      /\ gate.status = "approved" /\ d \in RunState
      /\ d = [store EXCEPT !.gate_history = h, !.pending_gate = NoGate]
  BY DecidedFacts DEF Approve
<1> HIDE DEF gate
<1>2. /\ d.flow = store.flow /\ d.approval_mode = store.approval_mode
      /\ d.questions = store.questions /\ d.current_phase = store.current_phase
      /\ d.phase_results = store.phase_results
      /\ d.pending_gate = NoGate /\ d.gate_history = h
  BY <1>1, WaitingFacts DEF Approve, RunState
<1>3. s = IF store.pending_gate.type = "clarification_required"
          THEN [d EXCEPT !.status = "in_progress", !.questions = FALSE,
                         !.current_phase = "clarify"]
          ELSE [d EXCEPT !.status = "in_progress"]
  BY DEF Approve
<1> HIDE DEF d, h
<1>4. /\ s \in RunState /\ s.status = "in_progress" /\ s.pending_gate = NoGate
      /\ s.gate_history = h /\ s.flow = store.flow
      /\ s.approval_mode = store.approval_mode
      /\ s.phase_results = store.phase_results
      /\ IF store.pending_gate.type = "clarification_required"
         THEN s.current_phase = "clarify"
         ELSE s.current_phase = store.current_phase /\ s.questions = store.questions
  BY <1>1, <1>2, <1>3 DEF RunState, Statuses, Phases
<1> HIDE DEF s
<1>5. /\ store \in RunState /\ Decisions(store) /\ OpenGate(store) /\ PhaseNeeds(store)
      /\ store.current_phase # "completed"
  BY WaitingFacts DEF Approve
<1>6. gate.type # "clarification_required" => gate.status = Decision(store.approval_mode)
  BY <1>1, <1>5 DEF OpenGate, Decision, Approve
<1>7. /\ GateSeen(s, gate.type) /\ \A t : GateSeen(store, t) => GateSeen(s, t)
      /\ Decisions(s)
  BY <1>1, <1>4, <1>5, <1>6, AppendGate DEF h
<1>8. PhaseNeeds(s)
  <2>1. \A t : SeenOrOpen(store, t) => GateSeen(s, t)
    BY <1>1, <1>7 DEF SeenOrOpen
  <2>2. CASE store.pending_gate.type = "clarification_required"
    BY <2>2, <1>4 DEF PhaseNeeds
  <2>3. CASE store.pending_gate.type # "clarification_required"
    <3>1. s.current_phase = store.current_phase /\ s.questions = store.questions
      BY <2>3, <1>4
    <3>2. CleanReview(store) => CleanReview(s)
      BY <1>4 DEF CleanReview, LastResult
    <3>3. \A t : SeenOrOpen(store, t) => SeenOrOpen(s, t)
      BY <2>1 DEF SeenOrOpen
    <3> QED BY <3>1, <3>2, <3>3, <1>4, <1>5, <1>7 DEF PhaseNeeds
  <2> QED BY <2>2, <2>3
<1>9. Sound(s)
  BY <1>4, <1>5, <1>7, <1>8 DEF Sound, OpenGate, NoGate
<1>10. run' = s /\ store' = s /\ engine' = "loop" /\ role_map' = role_map
  BY DEF Approve, s
<1>11. TypeOK'
  BY <1>4, <1>10 DEF IInv, TypeOK
<1>12. Sound(run)' /\ Sound(store)'
  BY <1>9, <1>10 DEF Sound, Decisions, OpenGate, PhaseNeeds, SeenOrOpen, GateSeen,
                     CleanReview, LastResult
<1>13. Ownership'
  BY <1>4, <1>10 DEF Ownership
<1> QED BY <1>11, <1>12, <1>13 DEF IInv

--------------------------------------------------------------------------------
(* The theorems.                                                           *)

\* A run starts with the invariant: nothing has happened.
LEMMA InitIInv == ASSUME Init PROVE IInv
<1>1. PICK flow \in Flows, mode \in ApprovalModes, execute, questions \in BOOLEAN :
        run = NewRun(flow, mode, execute, questions)
  BY DEF Init
<1>2. store = run /\ engine = "loop" /\ role_map \in RoleMaps
  BY DEF Init
<1>3. /\ run.status = "in_progress" /\ run.current_phase = "clarify"
      /\ run.pending_gate = NoGate /\ run.gate_history = <<>>
  BY <1>1 DEF NewRun
<1>4. run \in RunState
  BY <1>1 DEF NewRun, RunState, Statuses, Phases, Reasons, NoGate
<1>5. Sound(run)
  BY <1>3 DEF Sound, Decisions, OpenGate, PhaseNeeds, NoGate
<1> QED BY <1>2, <1>3, <1>4, <1>5 DEF IInv, TypeOK, Ownership

\* Every step keeps the invariant, one lemma per action.
LEMMA NextIInv == ASSUME IInv, [Next]_vars PROVE IInv'
<1>1. ASSUME UNCHANGED vars PROVE IInv'
  BY <1>1 DEF vars, IInv, TypeOK, Ownership, AgentPhase, Sound, Decisions, OpenGate,
              PhaseNeeds, SeenOrOpen, GateSeen, CleanReview, LastResult
<1>2. ASSUME EngineStep PROVE IInv'
  BY <1>2, ReturnKeeps, AskClarificationKeeps, AskRequirementsLockKeeps,
     LockRequirementsKeeps, FinalizeKeeps, MissingRoleKeeps, InvokeAgentKeeps,
     AgentReturnsKeeps, AgentReturnsToExecutorKeeps, ExecutorSucceedsKeeps,
     ExecutorEscalatesKeeps
     DEF EngineStep
<1>3. ASSUME LoseEngine PROVE IInv'
  BY <1>3, LoseEngineKeeps
<1>4. ASSUME Decide PROVE IInv'
  BY <1>4, ApproveKeeps, RejectKeeps DEF Decide
<1> QED BY <1>1, <1>2, <1>3, <1>4 DEF Next

\* The inductive invariant IInv holds of every reachable state, for all role maps.
THEOREM Invariance == Spec => []IInv
BY InitIInv, NextIInv, PTL DEF Spec

\* Every variable keeps its type, for all role maps.
THEOREM TypeCorrect == Spec => []TypeOK
<1>1. IInv => TypeOK
  BY DEF IInv
<1> QED BY <1>1, Invariance, PTL

\* A DONE run has every gate its flow requires settled the way its approval
\* mode demands, whatever the roles, their retries and the losses of engines.
THEOREM ReleasesAreSigned == Spec => []SignedOff
<1>1. ASSUME IInv PROVE SignedOff
  <2>1. SUFFICES ASSUME run.status = "done", NEW type \in RequiredGates(run.flow)
                 PROVE  Settled(run, type)
    BY DEF SignedOff
  <2>2. /\ run.current_phase = "completed" /\ run.pending_gate.type = "none"
        /\ Decisions(run) /\ PhaseNeeds(run)
    BY <1>1, <2>1 DEF IInv, Sound, OpenGate, NoGate
  <2>3. GateSeen(run, type) /\ type # "clarification_required"
    BY <2>1, <2>2 DEF RequiredGates, PhaseNeeds, SeenOrOpen
  <2> QED BY <2>2, <2>3 DEF Settled, GateSeen, Decisions, Decision
<1> QED BY <1>1, Invariance, PTL

\* No agent and no executor works on a run with an open question or gate, or
\* before the gates its phase presupposes are settled.
THEOREM WorkNeedsAuthority == Spec => []WorkIsAuthorised
<1>1. ASSUME IInv PROVE WorkIsAuthorised
  <2>1. SUFFICES ASSUME engine \in {"agent", "executor"}
                 PROVE  WorkIsAuthorised
    BY DEF WorkIsAuthorised
  <2>2. /\ run.pending_gate = NoGate /\ Decisions(run) /\ PhaseNeeds(run)
        /\ run.current_phase \in {"design", "implement", "debug", "verify", "review"}
    BY <1>1, <2>1, WorkFacts
  <2>3. store.pending_gate = NoGate
    BY <1>1, <2>1 DEF IInv, Ownership, Sound
  <2>4. \A type \in {"requirements_locked", "design_locked"} :
          GateSeen(run, type) => Settled(run, type)
    BY <2>2 DEF GateSeen, Settled, Decisions, Decision
  <2> QED BY <2>2, <2>3, <2>4 DEF WorkIsAuthorised, PhaseNeeds, SeenOrOpen, NoGate
<1> QED BY <1>1, Invariance, PTL

\* A DONE run ends on a review without escalation, blocker or major finding.
THEOREM ReleasesAreReviewed == Spec => []ReviewedLast
<1>1. ASSUME IInv PROVE ReviewedLast
  BY <1>1 DEF IInv, Sound, PhaseNeeds, CleanReview, LastResult, ReviewedLast, Last
<1> QED BY <1>1, Invariance, PTL

\* A run that waits is saved as waiting and has no engine; without an engine
\* nothing is known of a run but what is saved.
THEOREM PausesAreSaved == Spec => []PausedIsSaved
<1>1. ASSUME IInv PROVE PausedIsSaved
  BY <1>1 DEF IInv, Sound, OpenGate, Ownership, PausedIsSaved
<1> QED BY <1>1, Invariance, PTL
================================================================================
