------------------------ MODULE AutonomousRunHistoryProofs ------------------------
(***************************************************************************)
(* Theorems about what AutonomousRun saves: gates keep their numbers,      *)
(* nothing saved is taken back, and the saved run implements GatedRun.     *)
(* Beside IInv they need to know how far the run in memory is ahead of the *)
(* saved one (Ahead): by one gate the engine settled itself, and by one    *)
(* result, at most.                                                        *)
(***************************************************************************)
EXTENDS AutonomousRunProofs, SequenceTheorems

--------------------------------------------------------------------------------
(* The inductive invariant.                                                *)

\* The id of a gate is its place in the history, and a pending gate's the next.
Numbered(r) ==
  /\ \A i \in 1..Len(r.gate_history) : r.gate_history[i].gate_id = i
  /\ r.pending_gate # NoGate => r.pending_gate.gate_id = Len(r.gate_history) + 1

AutoAccepted(r, type) == [MakeGate(r, type) EXCEPT !.status = "auto_approved"]

\* From r to s the engine has settled one gate itself, on its way past CLARIFY.
SelfSettled(r, s) ==
  /\ s.status = "in_progress" /\ s.current_phase # "clarify"
  /\ \E type \in GateTypes :
       /\ ~GateSeen(r, type)
       /\ s.gate_history = Append(r.gate_history, AutoAccepted(r, type))

GatesFollow(r, s) == s.gate_history = r.gate_history \/ SelfSettled(r, s)

OneMore(s, t) == \E result \in PhaseResult : t = Append(s, result)

Ahead ==
  /\ run.flow = store.flow
  /\ engine # "idle" => store.status = "in_progress"
  /\ engine = "loop" =>
       /\ GatesFollow(store, run)
       /\ run.phase_results = store.phase_results \/ OneMore(store.phase_results, run.phase_results)
  /\ engine \in {"agent", "executor"} => run.gate_history = store.gate_history
  /\ engine = "agent" => run.phase_results = store.phase_results
  /\ engine = "executor" => OneMore(store.phase_results, run.phase_results)

HInv == Numbered(run) /\ Numbered(store) /\ Ahead

--------------------------------------------------------------------------------
(* The operators on run states.                                            *)

SameHistory(r, s) ==
  s.flow = r.flow /\ s.gate_history = r.gate_history /\ s.phase_results = r.phase_results

\* Whether a gate is seen, and what the next one is, depends on the history.
LEMMA HistoryDecides ==
  ASSUME NEW r, NEW s, SameHistory(r, s), NEW type
  PROVE  /\ GateSeen(r, type) <=> GateSeen(s, type)
         /\ MakeGate(r, type) = MakeGate(s, type)
BY DEF SameHistory, GateSeen, MakeGate

\* Marking a step leaves the history alone.
LEMMA SetStepHistory ==
  ASSUME NEW r \in RunState, NEW phase \in Phases, NEW status \in Statuses
  PROVE  SetStepStatus(r, phase, status) \in RunState
         /\ SameHistory(r, SetStepStatus(r, phase, status))
BY SetStepStatusFacts DEF SameControl, SameHistory

\* So does a retry, whether there is one left or not.
LEMMA RetryHistory ==
  ASSUME NEW r \in RunState, NEW role \in RetryKeys, NEW phase \in Phases,
         NEW exhausted \in RunState, SameHistory(r, exhausted)
  PROVE  SameHistory(r, RetryOrEscalate(r, role, phase, exhausted))
BY DEF RetryOrEscalate, SameHistory, RunState

\* So does an escalation.
LEMMA EscalateHistory ==
  ASSUME NEW r \in RunState, NEW phase \in Phases
  PROVE  SameHistory(r, EscalatePhase(r, phase))
BY RetryHistory DEF EscalatePhase, RetryKeys, Phases, SameHistory, RunState

\* A gate the engine accepts itself is seen already, or is one more.
LEMMA AutoAcceptHistory ==
  ASSUME NEW r \in RunState, NEW type \in GateTypes
  PROVE  LET s == AutoAcceptGate(r, type)
         IN  /\ s.flow = r.flow /\ s.phase_results = r.phase_results
             /\ \/ s.gate_history = r.gate_history
                \/ /\ ~GateSeen(r, type)
                   /\ s.gate_history = Append(r.gate_history, AutoAccepted(r, type))
BY DEF AutoAcceptGate, AutoAccepted, RunState

--------------------------------------------------------------------------------
(* What the loop does with a result.                                       *)

\* The engine pauses for a gate not seen in r, and saves that.
PausesWith(r) ==
  /\ engine' = "idle" /\ run' = store'
  /\ store'.status = "pending" /\ SameHistory(r, store')
  /\ \E type \in GateTypes : ~GateSeen(r, type) /\ store'.pending_gate = MakeGate(r, type)

GoesOnWith(r) ==
  /\ engine' = "loop" /\ store' = store
  /\ run'.flow = r.flow /\ run'.phase_results = r.phase_results
  /\ GatesFollow(r, run')

\* A pause writes nothing but the gate, the phase and the status.
LEMMA PauseHistory ==
  ASSUME NEW r \in RunState, NEW s \in RunState, SameHistory(r, s),
         NEW type \in GateTypes, ~GateSeen(r, type), NEW next,
         PauseForGate(s, type, next)
  PROVE  PausesWith(r)
<1>1. run' = Paused(s, type, next) /\ store' = Paused(s, type, next) /\ engine' = "idle"
  BY DEF PauseForGate
<1>2. /\ SameHistory(s, Paused(s, type, next)) /\ Paused(s, type, next).status = "pending"
      /\ Paused(s, type, next).pending_gate = MakeGate(s, type)
  BY DEF Paused, SameHistory, RunState
<1>3. MakeGate(r, type) = MakeGate(s, type)
  BY HistoryDecides
<1> QED BY <1>1, <1>2, <1>3 DEF PausesWith, SameHistory

\* Whatever the loop does with a result, it pauses with its history, or goes on
\* with it and one gate more at most.
LEMMA EvaluateHistory ==
  ASSUME NEW r, Judged(r), Evaluate(r)
  PROVE  PausesWith(r) \/ GoesOnWith(r)
<1> DEFINE phase == r.current_phase
           passed == SetStepStatus(r, phase, "done")
<1>1. r \in RunState /\ phase \in Phases \ {"clarify"}
  BY DEF Judged, RunState
<1>2. passed \in RunState /\ SameHistory(r, passed)
  BY <1>1, SetStepHistory DEF Statuses
<1>3. ASSUME Escalated(r, phase) PROVE GoesOnWith(r)
  <2> DEFINE marked == [SetStepStatus(r, phase, "escalated") EXCEPT !.escalation_reason = "agent"]
  <2>1. marked \in RunState /\ SameHistory(r, marked)
    <3>1. SetStepStatus(r, phase, "escalated") \in RunState
          /\ SameHistory(r, SetStepStatus(r, phase, "escalated"))
      BY <1>1, SetStepHistory DEF Statuses
    <3> QED BY <3>1 DEF RunState, Reasons, SameHistory
  <2> HIDE DEF marked
  <2>2. SameHistory(marked, EscalatePhase(marked, phase))
    BY <1>1, <2>1, EscalateHistory
  <2>3. run' = EscalatePhase(marked, phase) /\ engine' = "loop" /\ store' = store
    BY <1>3 DEF Escalated, Continue, marked
  <2> QED BY <2>1, <2>2, <2>3 DEF GoesOnWith, GatesFollow, SameHistory
<1>4. ASSUME Rework(r, phase) PROVE GoesOnWith(r)
  <2> DEFINE spent == Exhausted(r, phase)
  <2>1. spent \in RunState /\ SameHistory(r, spent)
    <3>1. SetStepStatus(r, phase, "escalated") \in RunState
          /\ SameHistory(r, SetStepStatus(r, phase, "escalated"))
      BY <1>1, SetStepHistory DEF Statuses
    <3> QED BY <3>1 DEF Exhausted, RunState, Reasons, SameHistory
  <2> HIDE DEF passed, spent
  <2>2. SameHistory(passed, spent)
    BY <1>2, <2>1 DEF SameHistory
  <2>3. \A role \in RetryKeys, to \in {"debug", "implement"} :
          SameHistory(passed, RetryOrEscalate(passed, role, to, spent))
    BY <1>2, <2>1, <2>2, RetryHistory DEF Phases
  <2>4. engine' = "loop" /\ store' = store /\ SameHistory(passed, run')
    BY <1>4, <2>3 DEF Rework, Continue, RetryKeys, passed, spent
  <2> QED BY <1>2, <2>4 DEF GoesOnWith, GatesFollow, SameHistory
<1>5. ASSUME AskGate(r, phase) PROVE PausesWith(r)
  BY <1>1, <1>2, <1>5, PauseHistory DEF AskGate, GateOf, GateTypes
<1>6. ASSUME PassGate(r, phase) PROVE GoesOnWith(r)
  <2> DEFINE type == GateOf(phase)
             locked == AutoAcceptGate(passed, type)
  <2>1. type \in GateTypes
    BY DEF GateOf, GateTypes
  <2>2. r.status = "in_progress" /\ AfterGate(r, phase) # "clarify"
    BY <1>6, GatePhaseFacts DEF Judged, PassGate
  <2>3. locked \in RunState /\ locked.status = "in_progress"
    <3>1. locked \in RunState /\ locked = [passed EXCEPT !.gate_history = locked.gate_history]
      BY <1>2, <2>1, AutoAcceptGateFacts
    <3>2. passed.status = "in_progress"
      BY <1>1, <2>2, SetStepStatusFacts DEF Statuses, SameControl
    <3> HIDE DEF locked, passed
    <3> QED BY <1>2, <3>1, <3>2 DEF RunState
  <2>4. /\ locked.flow = passed.flow /\ locked.phase_results = passed.phase_results
        /\ \/ locked.gate_history = passed.gate_history
           \/ /\ ~GateSeen(passed, type)
              /\ locked.gate_history = Append(passed.gate_history, AutoAccepted(passed, type))
    BY <1>2, <2>1, AutoAcceptHistory
  <2>5. /\ GateSeen(passed, type) <=> GateSeen(r, type)
        /\ AutoAccepted(passed, type) = AutoAccepted(r, type)
    BY <1>2, HistoryDecides DEF AutoAccepted
  <2> HIDE DEF locked
  <2>6. /\ engine' = "loop" /\ store' = store
        /\ run' = [locked EXCEPT !.current_phase = AfterGate(r, phase)]
    BY <1>6 DEF PassGate, Continue, locked
  <2>7. /\ run'.flow = locked.flow /\ run'.phase_results = locked.phase_results
        /\ run'.gate_history = locked.gate_history /\ run'.status = "in_progress"
        /\ run'.current_phase # "clarify"
    BY <2>2, <2>3, <2>6 DEF RunState
  <2> QED
    BY <1>2, <2>1, <2>4, <2>5, <2>6, <2>7 DEF GoesOnWith, GatesFollow, SelfSettled, SameHistory
<1>7. ASSUME Advance(r, phase) PROVE GoesOnWith(r)
  <2> HIDE DEF passed
  <2>1. /\ engine' = "loop" /\ store' = store
        /\ run' = [passed EXCEPT !.current_phase = NextPhaseAfterSuccess(r.flow, phase),
                                 !.status = "in_progress"]
    BY <1>7 DEF Advance, Continue, passed
  <2> QED BY <1>2, <2>1 DEF GoesOnWith, GatesFollow, SameHistory, RunState
<1> QED BY <1>3, <1>4, <1>5, <1>6, <1>7 DEF Evaluate

--------------------------------------------------------------------------------
(* One lemma per kind of step: how the store moves, and that HInv stays.   *)

Quiet == store' = store

Saves == engine = "loop" /\ store' = run

Results(r) ==
  r.phase_results = store.phase_results \/ OneMore(store.phase_results, r.phase_results)

\* The engine pauses for a gate that the saved run has not seen.
Asks ==
  /\ engine # "idle" /\ engine' = "idle" /\ run' = store'
  /\ store'.status = "pending" /\ store'.flow = store.flow
  /\ store'.gate_history = store.gate_history
  /\ Results(store')
  /\ \E type \in GateTypes :
       ~GateSeen(store, type) /\ store'.pending_gate = MakeGate(store, type)

\* A numbered history stays so when its next gate is added.
LEMMA NumberedAppend ==
  ASSUME NEW r \in RunState, NEW s, NEW gate, Numbered(r),
         s.gate_history = Append(r.gate_history, gate),
         gate.gate_id = Len(r.gate_history) + 1, s.pending_gate = NoGate
  PROVE  Numbered(s)
BY DEF Numbered, RunState

\* It stays so whatever else changes, and with the next gate pending.
LEMMA NumberedSame ==
  ASSUME NEW r, NEW s, Numbered(r), s.gate_history = r.gate_history,
         \/ s.pending_gate = NoGate
         \/ \E type : s.pending_gate = MakeGate(r, type)
  PROVE  Numbered(s)
<1>1. \A type : MakeGate(r, type).gate_id = Len(s.gate_history) + 1
  BY DEF MakeGate
<1>2. s.pending_gate # NoGate => s.pending_gate.gate_id = Len(s.gate_history) + 1
  BY <1>1
<1> QED BY <1>2 DEF Numbered

\* And with what the engine settled itself.
LEMMA NumberedFollow ==
  ASSUME NEW r \in RunState, NEW s, Numbered(r), GatesFollow(r, s), s.pending_gate = NoGate
  PROVE  Numbered(s)
<1>1. CASE s.gate_history = r.gate_history
  BY <1>1, NumberedSame
<1>2. CASE SelfSettled(r, s)
  <2>1. PICK type \in GateTypes : s.gate_history = Append(r.gate_history, AutoAccepted(r, type))
    BY <1>2 DEF SelfSettled
  <2>2. AutoAccepted(r, type).gate_id = Len(r.gate_history) + 1
    BY DEF AutoAccepted, MakeGate
  <2> QED BY <2>1, <2>2, NumberedAppend
<1> QED BY <1>1, <1>2 DEF GatesFollow

\* A run that an engine works on has no pending gate.
LEMMA Working ==
  ASSUME IInv, engine # "idle"
  PROVE  run.pending_gate = NoGate /\ store.pending_gate = NoGate
BY DEF IInv, Ownership, Sound

\* Saving at the head of the loop, and going on with the run that was saved.
LEMMA SavesKeep ==
  ASSUME IInv, IInv', HInv, Saves, engine' \in {"loop", "agent"},
         run.status = "in_progress", run'.flow = run.flow,
         run'.phase_results = run.phase_results,
         IF engine' = "loop" THEN GatesFollow(run, run') ELSE run'.gate_history = run.gate_history
  PROVE  HInv'
<1>1. run'.pending_gate = NoGate
  <2>1. engine' # "idle"
    OBVIOUS
  <2> QED BY <2>1 DEF IInv, Ownership, Sound
<1>2. Numbered(run)'
  <2>1. run \in RunState /\ GatesFollow(run, run')
    BY DEF IInv, TypeOK, GatesFollow
  <2>2. Numbered(run')
    BY <1>1, <2>1, NumberedFollow DEF HInv
  <2> QED BY <2>2 DEF Numbered
<1>3. Numbered(store)'
  BY DEF HInv, Saves, Numbered
<1>4. Ahead'
  BY DEF Saves, Ahead, GatesFollow, SelfSettled, GateSeen, AutoAccepted, MakeGate, OneMore
<1> QED BY <1>2, <1>3, <1>4 DEF HInv

\* Going on with a result.
LEMMA GoesOnKeeps ==
  ASSUME IInv, IInv', HInv, engine # "idle", NEW r, GoesOnWith(r),
         r.flow = run.flow, r.gate_history = store.gate_history, Results(r)
  PROVE  HInv' /\ Quiet
<1>1. engine' = "loop" /\ store' = store /\ run'.flow = store.flow
      /\ run'.phase_results = r.phase_results /\ GatesFollow(r, run')
  BY DEF GoesOnWith, HInv, Ahead
<1>2. GatesFollow(store, run')
  BY <1>1 DEF GatesFollow, SelfSettled, GateSeen, AutoAccepted, MakeGate
<1>3. run'.pending_gate = NoGate
  BY <1>1 DEF IInv, Ownership, Sound
<1>4. Numbered(run') /\ store \in RunState
  BY <1>2, <1>3, NumberedFollow DEF HInv, IInv, TypeOK
<1>5. Numbered(run)' /\ Numbered(store)'
  BY <1>1, <1>4 DEF HInv, Numbered
<1>6. store.status = "in_progress"
  BY DEF HInv, Ahead
<1>7. Ahead'
  BY <1>1, <1>2, <1>6 DEF Ahead, GatesFollow, SelfSettled, GateSeen, AutoAccepted, MakeGate,
                          Results, OneMore
<1> QED BY <1>1, <1>5, <1>7 DEF HInv, Quiet

\* Pausing.
LEMMA PausesKeep ==
  ASSUME IInv, HInv, engine # "idle", NEW r, PausesWith(r),
         r.flow = run.flow, r.gate_history = store.gate_history, Results(r)
  PROVE  HInv' /\ Asks
<1>1. /\ engine' = "idle" /\ run' = store' /\ store'.status = "pending"
      /\ store'.flow = store.flow /\ store'.gate_history = store.gate_history
      /\ store'.phase_results = r.phase_results
  BY DEF PausesWith, SameHistory, HInv, Ahead
<1>2. PICK type \in GateTypes : ~GateSeen(r, type) /\ store'.pending_gate = MakeGate(r, type)
  BY DEF PausesWith
<1>3. ~GateSeen(store, type) /\ store'.pending_gate = MakeGate(store, type)
  BY <1>2 DEF GateSeen, MakeGate
<1>4. Numbered(store')
  BY <1>1, <1>3, NumberedSame DEF HInv
<1>5. Numbered(run)' /\ Numbered(store)'
  BY <1>1, <1>4 DEF Numbered
<1>6. Ahead'
  BY <1>1 DEF Ahead
<1> QED BY <1>1, <1>3, <1>5, <1>6 DEF HInv, Asks, Results, OneMore

--------------------------------------------------------------------------------
(* One lemma per action.                                                   *)

\* At the head of the loop no result is missing, and the run is under way.
LEMMA AskAtHead ==
  ASSUME IInv, HInv, engine = "loop", run.status \notin Terminal,
         run.current_phase = "clarify", NEW s \in RunState, SameHistory(run, s),
         NEW type \in GateTypes, ~GateSeen(run, type), NEW next, PauseForGate(s, type, next)
  PROVE  HInv' /\ Asks
<1>1. run \in RunState
  BY HeadFacts
<1>2. PausesWith(run)
  BY <1>1, PauseHistory
<1>3. run.gate_history = store.gate_history /\ Results(run)
  BY DEF HInv, Ahead, GatesFollow, SelfSettled, Results
<1> QED BY <1>2, <1>3, PausesKeep

\* Asking for answers.
LEMMA AskClarificationHistory == ASSUME IInv, HInv, AskClarification PROVE HInv' /\ Asks
<1>1. Clarifying \in RunState /\ SameHistory(run, Clarifying)
  BY HeadFacts, SetStepHistory DEF AskClarification, Clarifying, Phases, Statuses
<1> QED BY <1>1, AskAtHead DEF AskClarification, NeedsAnswers, GateTypes

\* Asking for the requirements.
LEMMA AskRequirementsHistory == ASSUME IInv, HInv, AskRequirementsLock PROVE HInv' /\ Asks
<1>1. Clarified \in RunState /\ SameHistory(run, Clarified)
  BY HeadFacts, SetStepHistory DEF AskRequirementsLock, Clarified, Phases, Statuses
<1> QED BY <1>1, AskAtHead DEF AskRequirementsLock, GateTypes

\* Leaving CLARIFY.
LEMMA LockRequirementsHistory ==
  ASSUME IInv, IInv', HInv, LockRequirements
  PROVE  HInv' /\ Saves
<1> DEFINE type == "requirements_locked"
           locked == AutoAcceptGate(Clarified, type)
           next == FindNextPhase(run.flow, "clarify")
<1>1. Clarified \in RunState /\ SameHistory(run, Clarified) /\ run.status = "in_progress"
  BY HeadFacts, SetStepHistory DEF LockRequirements, AtHead, Clarified, Phases, Statuses
<1>2. locked \in RunState
  BY <1>1, AutoAcceptGateFacts DEF GateTypes
<1>3. /\ locked.flow = run.flow /\ locked.phase_results = run.phase_results
      /\ \/ locked.gate_history = run.gate_history
         \/ /\ ~GateSeen(run, type)
            /\ locked.gate_history = Append(run.gate_history, AutoAccepted(run, type))
  <2>1. /\ locked.flow = Clarified.flow /\ locked.phase_results = Clarified.phase_results
        /\ \/ locked.gate_history = Clarified.gate_history
           \/ /\ ~GateSeen(Clarified, type)
              /\ locked.gate_history = Append(Clarified.gate_history, AutoAccepted(Clarified, type))
    BY <1>1, AutoAcceptHistory DEF GateTypes
  <2>2. /\ GateSeen(run, type) <=> GateSeen(Clarified, type)
        /\ AutoAccepted(run, type) = AutoAccepted(Clarified, type)
    BY <1>1, HistoryDecides DEF AutoAccepted
  <2> HIDE DEF locked
  <2> QED BY <1>1, <2>1, <2>2 DEF SameHistory
<1>4. next # "clarify"
  <2>1. run.flow \in Flows
    BY HeadFacts DEF LockRequirements, AtHead, RunState
  <2> QED BY <2>1, PlanFacts
<1>5. /\ run' = [locked EXCEPT !.current_phase = next, !.status = "in_progress"]
      /\ engine' = "loop" /\ Saves
  BY DEF LockRequirements, AtHead, Continue, Saves
<1> HIDE DEF locked, next
<1>6. /\ run'.flow = locked.flow /\ run'.phase_results = locked.phase_results
      /\ run'.gate_history = locked.gate_history
      /\ run'.status = "in_progress" /\ run'.current_phase = next
  BY <1>2, <1>5 DEF RunState
<1>7. GatesFollow(run, run')
  BY <1>3, <1>4, <1>6 DEF GatesFollow, SelfSettled, GateTypes
<1> QED BY <1>1, <1>3, <1>5, <1>6, <1>7, SavesKeep

\* Ending the run, and missing a role for it.
LEMMA LeavingHistory ==
  ASSUME IInv, IInv', HInv, Finalize \/ MissingRole
  PROVE  HInv' /\ Saves
<1>1. /\ run \in RunState /\ run.status = "in_progress" /\ run.current_phase \in Phases
      /\ Saves /\ engine' = "loop"
  BY HeadFacts DEF Finalize, MissingRole, AtHead, Saves, Continue, RunState
<1>2. SameHistory(run, run')
  <2>1. CASE Finalize
    <3> DEFINE marked == SetStepStatus(run, "finalize", "done")
    <3>1. marked \in RunState /\ SameHistory(run, marked)
      BY <1>1, SetStepHistory DEF Phases, Statuses
    <3>2. run' = [marked EXCEPT !.current_phase = "completed", !.status = "done"]
      BY <2>1 DEF Finalize, Continue
    <3> HIDE DEF marked
    <3> QED BY <3>1, <3>2 DEF SameHistory, RunState
  <2>2. CASE MissingRole
    <3> DEFINE marked == SetStepStatus(run, run.current_phase, "escalated")
    <3>1. marked \in RunState /\ SameHistory(run, marked)
      BY <1>1, SetStepHistory DEF Statuses
    <3>2. run' = [marked EXCEPT !.status = "escalated", !.escalation_reason = "role"]
      BY <2>2 DEF MissingRole, Continue
    <3> HIDE DEF marked
    <3> QED BY <3>1, <3>2 DEF SameHistory, RunState
  <2> QED BY <2>1, <2>2
<1> QED BY <1>1, <1>2, SavesKeep DEF SameHistory, GatesFollow

\* Calling an agent.
LEMMA InvokeAgentHistory ==
  ASSUME IInv, IInv', HInv, InvokeAgent
  PROVE  HInv' /\ Saves
<1>1. /\ run \in RunState /\ run.status = "in_progress" /\ run.current_phase \in Phases
      /\ Saves /\ engine' = "agent"
  BY HeadFacts DEF InvokeAgent, AtHead, Saves, RunState
<1>2. SameHistory(run, run')
  BY <1>1, SetStepHistory DEF InvokeAgent, Statuses
<1> QED BY <1>1, <1>2, SavesKeep DEF SameHistory

\* Returning from a run that is over.
LEMMA ReturnHistory == ASSUME IInv, HInv, Return PROVE HInv' /\ Saves
BY DEF Return, AtHead, HInv, Numbered, Ahead, Saves

\* A recorded result is one more, and all that is new.
LEMMA RecordedHistory ==
  ASSUME IInv, engine = "agent", NEW verdict \in VerdictsOf(run.current_phase)
  PROVE  LET r == Recorded(verdict)
         IN  /\ Judged(r) /\ r.flow = run.flow /\ r.gate_history = run.gate_history
             /\ OneMore(run.phase_results, r.phase_results)
<1>1. run \in RunState
  BY WorkFacts
<1>2. [phase |-> run.current_phase, verdict |-> verdict, outcome |-> "none"] \in PhaseResult
  BY <1>1 DEF PhaseResult, VerdictsOf, Verdicts, RunState
<1> QED BY <1>1, <1>2, RecordedFacts DEF Recorded, OneMore, RunState

\* An outcome is noted on the result that is new.
LEMMA ExecutedHistory ==
  ASSUME IInv, HInv, engine = "executor", NEW outcome \in {"done", "escalated"}
  PROVE  LET r == Executed(outcome)
         IN  /\ Judged(r) /\ r.flow = run.flow /\ r.gate_history = run.gate_history
             /\ OneMore(store.phase_results, r.phase_results)
<1> DEFINE old == store.phase_results
           n == Len(run.phase_results)
<1>1. run \in RunState /\ store \in RunState
  BY WorkFacts DEF IInv, TypeOK
<1>2. PICK result \in PhaseResult : run.phase_results = Append(old, result)
  BY DEF HInv, Ahead, OneMore
<1>3. [result EXCEPT !.outcome = outcome] \in PhaseResult
  BY DEF PhaseResult
<1>4. old \in Seq(PhaseResult)
  BY <1>1 DEF RunState
<1>5. /\ n = Len(old) + 1 /\ run.phase_results[n] = result
      /\ [run.phase_results EXCEPT ![n] = [result EXCEPT !.outcome = outcome]]
           = Append(old, [result EXCEPT !.outcome = outcome])
  <2> HIDE DEF old
  <2> DEFINE noted == [result EXCEPT !.outcome = outcome]
  <2>1. noted \in PhaseResult
    BY <1>3
  <2> HIDE DEF noted
  <2>2. n = Len(old) + 1 /\ run.phase_results[n] = result
    BY <1>2, <1>4
  <2>3. [run.phase_results EXCEPT ![n] = noted] = Append(old, noted)
    <3> DEFINE new == Append(old, result)
               more == Append(old, noted)
    <3>1. /\ new \in Seq(PhaseResult) /\ Len(new) = n
          /\ \A i \in 1..Len(old) : new[i] = old[i]
          /\ more \in Seq(PhaseResult) /\ Len(more) = n /\ more[n] = noted
          /\ \A i \in 1..Len(old) : more[i] = old[i]
      BY <1>4, <2>1, <2>2, AppendProperties
    <3>2. n \in 1..Len(new) /\ \A i \in 1..n : i = n \/ i \in 1..Len(old)
      BY <1>4, <2>2, <3>1
    <3> HIDE DEF new, more
    <3>3. /\ [new EXCEPT ![n] = noted] \in Seq(PhaseResult)
          /\ Len([new EXCEPT ![n] = noted]) = n
          /\ \A i \in 1..n : [new EXCEPT ![n] = noted][i] = IF i = n THEN noted ELSE new[i]
      BY <2>1, <3>1, <3>2, ExceptSeq
    <3>4. \A i \in 1..n : [new EXCEPT ![n] = noted][i] = more[i]
      BY <3>1, <3>2, <3>3
    <3>5. [new EXCEPT ![n] = noted] = more
      BY <3>1, <3>3, <3>4, SeqEqual
    <3> QED BY <1>2, <3>5 DEF new, more
  <2> QED BY <2>2, <2>3 DEF noted
<1>6. Executed(outcome) = [run EXCEPT !.phase_results = Append(old, [result EXCEPT !.outcome = outcome])]
  BY <1>5 DEF Executed
<1> QED BY <1>1, <1>3, <1>6, ExecutedFacts DEF OneMore, RunState

\* What follows a result.
LEMMA EvaluatedHistory ==
  ASSUME IInv, IInv', HInv, engine \in {"agent", "executor"}, NEW r, Judged(r), Evaluate(r),
         r.flow = run.flow, r.gate_history = run.gate_history,
         OneMore(store.phase_results, r.phase_results)
  PROVE  HInv' /\ (Quiet \/ Asks)
<1>1. r.gate_history = store.gate_history /\ Results(r)
  BY DEF HInv, Ahead, Results
<1> QED BY <1>1, EvaluateHistory, GoesOnKeeps, PausesKeep

\* The agent returns, and nothing is executed.
LEMMA AgentReturnsHistory == ASSUME IInv, IInv', HInv, AgentReturns PROVE HInv' /\ (Quiet \/ Asks)
<1>1. PICK verdict \in VerdictsOf(run.current_phase) : Evaluate(Recorded(verdict))
  BY DEF AgentReturns
<1>2. run.phase_results = store.phase_results /\ engine = "agent"
  BY DEF AgentReturns, HInv, Ahead
<1> QED BY <1>1, <1>2, RecordedHistory, EvaluatedHistory

\* The agent returns a result that is to be executed: it is one more, not yet saved.
LEMMA AgentReturnsToExecutorHistory ==
  ASSUME IInv, IInv', HInv, AgentReturnsToExecutor
  PROVE  HInv' /\ Quiet
<1>1. PICK verdict \in VerdictsOf(run.current_phase) : run' = Recorded(verdict)
  BY DEF AgentReturnsToExecutor
<1>2. engine = "agent" /\ engine' = "executor" /\ store' = store
  BY DEF AgentReturnsToExecutor
<1>3. /\ run'.flow = run.flow /\ run'.gate_history = run.gate_history
      /\ OneMore(run.phase_results, run'.phase_results) /\ run'.pending_gate = NoGate
  BY <1>1, <1>2, RecordedHistory DEF Judged
<1>4. Numbered(run') /\ Numbered(store)
  BY <1>3, NumberedSame DEF HInv
<1>5. Numbered(run)' /\ Numbered(store)'
  BY <1>2, <1>4 DEF Numbered
<1>6. Ahead'
  BY <1>2, <1>3 DEF HInv, Ahead, OneMore
<1> QED BY <1>2, <1>5, <1>6 DEF HInv, Quiet

\* The executor succeeds.
LEMMA ExecutorSucceedsHistory ==
  ASSUME IInv, IInv', HInv, ExecutorSucceeds
  PROVE  HInv' /\ (Quiet \/ Asks)
BY ExecutedHistory, EvaluatedHistory DEF ExecutorSucceeds

\* The executor escalates: the run goes on with the result noted, gates untouched.
LEMMA ExecutorEscalatesHistory ==
  ASSUME IInv, IInv', HInv, ExecutorEscalates
  PROVE  HInv' /\ Quiet
<1> DEFINE executed == Executed("escalated")
           marked == SetStepStatus(executed, run.current_phase, "failed")
           failed == [marked EXCEPT !.escalation_reason = "executor"]
<1>1. /\ executed \in RunState /\ executed.flow = run.flow
      /\ executed.gate_history = run.gate_history
      /\ OneMore(store.phase_results, executed.phase_results)
  BY ExecutedHistory DEF ExecutorEscalates, Judged
<1>2. run.current_phase \in Phases
  BY WorkFacts DEF ExecutorEscalates, Phases
<1> HIDE DEF executed
<1>3. marked \in RunState /\ SameHistory(executed, marked)
  BY <1>1, <1>2, SetStepHistory DEF Statuses
<1> HIDE DEF marked
<1>4. failed \in RunState /\ SameHistory(marked, failed)
  BY <1>3 DEF RunState, SameHistory, Reasons
<1> HIDE DEF failed
<1>5. SameHistory(failed, EscalatePhase(failed, run.current_phase))
  BY <1>2, <1>4, EscalateHistory
<1>6. run' = EscalatePhase(failed, run.current_phase) /\ engine' = "loop" /\ store' = store
  BY DEF ExecutorEscalates, Continue, failed, marked, executed
<1>7. GoesOnWith(executed)
  BY <1>3, <1>4, <1>5, <1>6 DEF GoesOnWith, GatesFollow, SameHistory
<1>8. executed.gate_history = store.gate_history /\ Results(executed) /\ engine # "idle"
  BY <1>1 DEF ExecutorEscalates, HInv, Ahead, Results
<1> QED BY <1>1, <1>7, <1>8, GoesOnKeeps

\* Losing the engine throws away what memory was ahead by.
LEMMA LoseEngineHistory == ASSUME HInv, LoseEngine PROVE HInv' /\ Quiet
BY DEF LoseEngine, HInv, Numbered, Ahead, Quiet

\* What a decision writes: the pending gate, decided, at the end of the history.
Answers(status) ==
  /\ engine = "idle" /\ store.pending_gate \in GateRecord /\ store.status = "pending"
  /\ run' = store' /\ store'.flow = store.flow /\ store'.pending_gate = NoGate
  /\ store'.phase_results = store.phase_results
  /\ store'.gate_history =
       Append(store.gate_history, [store.pending_gate EXCEPT !.status = status])
  /\ IF status = "approved" THEN engine' = "loop" /\ store'.status = "in_progress"
                            ELSE engine' = "idle" /\ store'.status = "escalated"

\* A decision appends the pending gate to the saved history and changes nothing else
\* in it; only a rejection leaves no engine.
LEMMA DecideAnswers ==
  ASSUME IInv, Decide
  PROVE  Answers("approved") \/ Answers("rejected")
<1>1. /\ engine = "idle" /\ store.pending_gate \in GateRecord /\ store.status = "pending"
      /\ store \in RunState
  BY WaitingFacts DEF Decide, Approve, Reject
<1>2. CASE Approve
  <2> DEFINE d == Decided("approved")
  <2>1. /\ d \in RunState
        /\ d.flow = store.flow /\ d.pending_gate = NoGate /\ d.phase_results = store.phase_results
        /\ d.gate_history =
             Append(store.gate_history, [store.pending_gate EXCEPT !.status = "approved"])
    <3>1. d \in RunState
      BY <1>2, DecidedFacts DEF Approve
    <3> QED BY <1>1, <3>1 DEF Decided, RunState
  <2> HIDE DEF d
  <2>2. run' = store' /\ engine' = "loop"
        /\ \/ run' = [d EXCEPT !.status = "in_progress", !.questions = FALSE,
                               !.current_phase = "clarify"]
           \/ run' = [d EXCEPT !.status = "in_progress"]
    BY <1>2 DEF Approve, d
  <2>3. /\ run'.flow = d.flow /\ run'.pending_gate = d.pending_gate
        /\ run'.phase_results = d.phase_results /\ run'.gate_history = d.gate_history
        /\ run'.status = "in_progress"
    BY <2>1, <2>2 DEF RunState
  <2> QED BY <1>1, <2>1, <2>2, <2>3 DEF Answers
<1>3. CASE Reject
  <2> DEFINE d == Decided("rejected")
  <2>1. /\ d \in RunState
        /\ d.flow = store.flow /\ d.pending_gate = NoGate /\ d.phase_results = store.phase_results
        /\ d.gate_history =
             Append(store.gate_history, [store.pending_gate EXCEPT !.status = "rejected"])
    <3>1. d \in RunState
      BY <1>3, DecidedFacts DEF Reject
    <3> QED BY <1>1, <3>1 DEF Decided, RunState
  <2> HIDE DEF d
  <2>2. run' = store' /\ engine' = "idle"
        /\ run' = [d EXCEPT !.status = "escalated", !.escalation_reason = "gate"]
    BY <1>1, <1>3 DEF Reject, d
  <2>3. /\ run'.flow = d.flow /\ run'.pending_gate = d.pending_gate
        /\ run'.phase_results = d.phase_results /\ run'.gate_history = d.gate_history
        /\ run'.status = "escalated"
    BY <2>1, <2>2 DEF RunState
  <2> QED BY <1>1, <2>1, <2>2, <2>3 DEF Answers
<1> QED BY <1>2, <1>3 DEF Decide

\* What a decision appends carries the next number.
LEMMA AnswersKeep ==
  ASSUME IInv, HInv, NEW status \in {"approved", "rejected"}, Answers(status)
  PROVE  HInv'
<1> DEFINE gate == [store.pending_gate EXCEPT !.status = status]
<1>1. gate.gate_id = store.pending_gate.gate_id
  BY DEF Answers, GateRecord
<1>2. store.pending_gate # NoGate
  BY DEF Answers, GateRecord, NoGate, GateTypes
<1>3. gate.gate_id = Len(store.gate_history) + 1 /\ store \in RunState
  BY <1>1, <1>2 DEF HInv, Numbered, IInv, TypeOK
<1>4. store'.gate_history = Append(store.gate_history, gate) /\ store'.pending_gate = NoGate
  BY DEF Answers
<1> HIDE DEF gate
<1>5. Numbered(store')
  BY <1>3, <1>4, NumberedAppend DEF HInv
<1>6. run' = store' /\ engine' \in {"idle", "loop"}
      /\ (engine' = "loop" => store'.status = "in_progress")
  BY DEF Answers
<1>7. Numbered(run)' /\ Numbered(store)'
  BY <1>5, <1>6 DEF Numbered
<1>8. Ahead'
  BY <1>6 DEF Ahead, GatesFollow
<1> QED BY <1>7, <1>8 DEF HInv

--------------------------------------------------------------------------------
(* The invariant, and how the store moves.                                 *)

Steps == Quiet \/ Saves \/ Asks \/ Answers("approved") \/ Answers("rejected")

\* Every step keeps the invariant, and is a step of one of the kinds.
LEMMA NextHistory == ASSUME IInv, IInv', HInv, Next PROVE HInv' /\ Steps
<1>1. CASE EngineStep
  BY <1>1, ReturnHistory, AskClarificationHistory, AskRequirementsHistory,
     LockRequirementsHistory, LeavingHistory, InvokeAgentHistory, AgentReturnsHistory,
     AgentReturnsToExecutorHistory, ExecutorSucceedsHistory, ExecutorEscalatesHistory
     DEF EngineStep, Steps
<1>2. CASE LoseEngine
  BY <1>2, LoseEngineHistory DEF Steps
<1>3. CASE Decide
  BY <1>3, DecideAnswers, AnswersKeep DEF Steps
<1> QED BY <1>1, <1>2, <1>3 DEF Next

\* A new run has no history.
LEMMA InitHistory == ASSUME Init PROVE HInv
BY DEF Init, NewRun, HInv, Numbered, Ahead, GatesFollow, NoGate

\* A step that changes nothing keeps the invariant.
LEMMA StutterHistory == ASSUME HInv, UNCHANGED vars PROVE HInv'
BY DEF vars, HInv, Numbered, Ahead, GatesFollow, SelfSettled, GateSeen, AutoAccepted,
       MakeGate, OneMore

\* The numbers of the gates, and how far memory is ahead of the store, in every
\* reachable state.
THEOREM HistoryInvariance == Spec => []HInv
<1>1. ASSUME IInv, IInv', HInv, [Next]_vars PROVE HInv'
  BY <1>1, NextHistory, StutterHistory
<1> QED BY <1>1, InitHistory, Invariance, PTL DEF Spec

\* No two gates of a run have the same id, whoever settled them and however many
\* engines were lost in between.
THEOREM GatesAreNumbered == Spec => []GateIdsUnique
<1>1. ASSUME IInv, HInv PROVE GateIdsUnique
  <2> DEFINE gates == GatesOf(run)
  <2>1. run.gate_history \in Seq(GateRecord) /\ Numbered(run)
    BY <1>1 DEF IInv, TypeOK, RunState, HInv
  <2>2. \A i \in 1..Len(gates) : gates[i].gate_id = i
    <3>1. CASE run.pending_gate = NoGate
      BY <2>1, <3>1 DEF GatesOf, Numbered
    <3>2. CASE run.pending_gate # NoGate
      BY <2>1, <3>2 DEF GatesOf, Numbered
    <3> QED BY <3>1, <3>2
  <2> QED BY <2>2 DEF GateIdsUnique
<1> QED BY <1>1, Invariance, HistoryInvariance, PTL

\* A sequence is a prefix of what is appended to it.
LEMMA AppendedPrefix ==
  ASSUME NEW S, NEW s \in Seq(S), NEW t, t = s \/ \E x \in S : t = Append(s, x)
  PROVE  IsPrefix(s, t)
<1>1. CASE t = s
  BY <1>1 DEF IsPrefix
<1>2. CASE \E x \in S : t = Append(s, x)
  <2>1. PICK x \in S : t = Append(s, x)
    BY <1>2
  <2>2. /\ t \in Seq(S) /\ Len(t) = Len(s) + 1 /\ Len(s) \in Nat
        /\ \A i \in 1..Len(s) : t[i] = s[i]
    BY <2>1, AppendProperties
  <2>3. /\ SubSeq(s, 1, Len(s)) \in Seq(S) /\ Len(SubSeq(s, 1, Len(s))) = Len(s)
        /\ \A i \in 1..Len(s) : SubSeq(s, 1, Len(s))[i] = s[i]
        /\ SubSeq(t, 1, Len(s)) \in Seq(S) /\ Len(SubSeq(t, 1, Len(s))) = Len(s)
        /\ \A i \in 1..Len(s) : SubSeq(t, 1, Len(s))[i] = t[i]
    BY <2>2
  <2>4. SubSeq(s, 1, Len(s)) = SubSeq(t, 1, Len(s))
    BY <2>2, <2>3, SeqEqual
  <2> QED BY <2>2, <2>4 DEF IsPrefix
<1> QED BY <1>1, <1>2

\* What a gate the engine settles itself is.
LEMMA AutoAcceptedFacts ==
  ASSUME NEW r \in RunState, NEW type \in GateTypes
  PROVE  /\ AutoAccepted(r, type) \in GateRecord /\ AutoAccepted(r, type).type = type
         /\ AutoAccepted(r, type).status = "auto_approved"
BY DEF AutoAccepted, MakeGate, GateRecord, RunState

\* Saving never takes a decided gate or a result back, and never follows an end.
THEOREM SavesAreKept == Spec => SavedIsKept
<1>1. ASSUME IInv, HInv, Steps, store' # store
      PROVE  /\ store.status \notin Terminal
             /\ IsPrefix(store.gate_history, store'.gate_history)
             /\ IsPrefix(store.phase_results, store'.phase_results)
             /\ store'.flow = store.flow
  <2>1. store \in RunState
    BY <1>1 DEF IInv, TypeOK
  <2>2. store.gate_history \in Seq(GateRecord) /\ store.phase_results \in Seq(PhaseResult)
    BY <2>1 DEF RunState
  <2>3. CASE Saves
    <3>1. GatesFollow(store, run) /\ Results(run) /\ run.flow = store.flow
          /\ store.status = "in_progress"
      BY <1>1, <2>3 DEF Saves, HInv, Ahead, Results
    <3>2. run.gate_history = store.gate_history
          \/ \E gate \in GateRecord : run.gate_history = Append(store.gate_history, gate)
      BY <2>1, <3>1, AutoAcceptedFacts DEF GatesFollow, SelfSettled
    <3>3. run.phase_results = store.phase_results
          \/ \E result \in PhaseResult : run.phase_results = Append(store.phase_results, result)
      BY <3>1 DEF Results, OneMore
    <3>4. IsPrefix(store.gate_history, run.gate_history)
      BY <2>2, <3>2, AppendedPrefix
    <3>5. IsPrefix(store.phase_results, run.phase_results)
      BY <2>2, <3>3, AppendedPrefix
    <3> QED BY <2>3, <3>1, <3>4, <3>5 DEF Saves, Terminal
  <2>4. CASE Asks
    <3>1. /\ store.status = "in_progress" /\ store'.flow = store.flow
          /\ store'.gate_history = store.gate_history
          /\ \/ store'.phase_results = store.phase_results
             \/ \E result \in PhaseResult : store'.phase_results = Append(store.phase_results, result)
      BY <1>1, <2>4 DEF Asks, HInv, Ahead, Results, OneMore
    <3>2. IsPrefix(store.gate_history, store'.gate_history)
      BY <2>2, <3>1, AppendedPrefix
    <3>3. IsPrefix(store.phase_results, store'.phase_results)
      BY <2>2, <3>1, AppendedPrefix
    <3> QED BY <3>1, <3>2, <3>3 DEF Terminal
  <2>5. ASSUME NEW status \in {"approved", "rejected"}, Answers(status)
        PROVE  /\ store.status \notin Terminal
               /\ IsPrefix(store.gate_history, store'.gate_history)
               /\ IsPrefix(store.phase_results, store'.phase_results)
               /\ store'.flow = store.flow
    <3>1. [store.pending_gate EXCEPT !.status = status] \in GateRecord
      BY <2>5 DEF Answers, GateRecord
    <3>2. /\ store.status = "pending" /\ store'.flow = store.flow
          /\ store'.phase_results = store.phase_results
          /\ \E gate \in GateRecord : store'.gate_history = Append(store.gate_history, gate)
      BY <2>5, <3>1 DEF Answers
    <3>3. IsPrefix(store.gate_history, store'.gate_history)
      BY <2>2, <3>2, AppendedPrefix
    <3>4. IsPrefix(store.phase_results, store'.phase_results)
      BY <2>2, <3>2, AppendedPrefix
    <3> QED BY <3>2, <3>3, <3>4 DEF Terminal
  <2> QED BY <1>1, <2>3, <2>4, <2>5 DEF Steps, Quiet
<1>2. ASSUME IInv, IInv', HInv, [Next]_vars, store' # store PROVE Steps
  BY <1>2, NextHistory DEF vars
<1>3. ASSUME IInv, IInv', HInv, [Next]_vars
      PROVE  [/\ store.status \notin Terminal
              /\ IsPrefix(store.gate_history, store'.gate_history)
              /\ IsPrefix(store.phase_results, store'.phase_results)
              /\ store'.flow = store.flow]_store
  BY <1>1, <1>2, <1>3
<1> QED BY <1>3, Invariance, HistoryInvariance, PTL DEF Spec, SavedIsKept

--------------------------------------------------------------------------------
(* The refinement.                                                         *)

\* Adding a gate settles it, if it was approved, and settles nothing else.
LEMMA SettledAppend ==
  ASSUME NEW r \in RunState, NEW s, NEW gate \in GateRecord,
         s.gate_history = Append(r.gate_history, gate)
  PROVE  SettledGates(s) = SettledGates(r) \cup
           (IF gate.status \in {"approved", "auto_approved"} THEN {gate.type} ELSE {})
<1> DEFINE old == r.gate_history
           new == s.gate_history
           In(h, t) == \E i \in 1..Len(h) :
                         h[i].type = t /\ h[i].status \in {"approved", "auto_approved"}
<1>1. old \in Seq(GateRecord) /\ gate.type \in GateTypes
  BY DEF RunState, GateRecord
<1>2. /\ Len(old) \in Nat /\ Len(new) = Len(old) + 1 /\ new[Len(old) + 1] = gate
      /\ \A i \in 1..Len(old) : new[i] = old[i]
  BY <1>1, AppendProperties
<1> HIDE DEF old, new
<1>3. \A i \in 1..Len(new) : i \in 1..Len(old) \/ i = Len(old) + 1
  BY <1>2
<1>4. \A i \in 1..Len(old) : i \in 1..Len(new)
  BY <1>2
<1>5. Len(old) + 1 \in 1..Len(new)
  BY <1>2
<1>6. \A t : In(new, t) <=>
        In(old, t) \/ (gate.type = t /\ gate.status \in {"approved", "auto_approved"})
  BY <1>2, <1>3, <1>4, <1>5
<1> QED BY <1>1, <1>6 DEF SettledGates, old, new

\* A gate that was settled was seen.
LEMMA SettledSeen ==
  ASSUME NEW r, NEW type \in SettledGates(r)
  PROVE  GateSeen(r, type)
BY DEF SettledGates, GateSeen

\* The steps of GatedRun, from what is saved now to what is saved next.
Moves(r, s) ==
  /\ s.flow = r.flow
  /\ \/ /\ Condition(r) = "working" /\ Condition(s) = "waiting"
        /\ s.pending_gate.type \in GateTypes \ SettledGates(r)
        /\ SettledGates(s) = SettledGates(r)
     \/ /\ Condition(r) = "working" /\ Condition(s) = "working"
        /\ s.pending_gate.type = r.pending_gate.type
        /\ SettledGates(s) = SettledGates(r)
             \/ \E type \in GateTypes \ SettledGates(r) : SettledGates(s) = SettledGates(r) \cup {type}
     \/ /\ Condition(r) = "waiting" /\ Condition(s) = "working"
        /\ SettledGates(s) = SettledGates(r) \cup {r.pending_gate.type}
        /\ s.pending_gate.type = "none"
     \/ /\ Condition(r) = "waiting" /\ Condition(s) = "stopped"
        /\ SettledGates(s) = SettledGates(r)
        /\ s.pending_gate.type = "none"
     \/ /\ Condition(r) = "working"
        /\ \/ Condition(s) = "released" /\ RequiredGates(r.flow) \subseteq SettledGates(r)
           \/ Condition(s) = "stopped"
        /\ s.pending_gate.type = r.pending_gate.type
        /\ SettledGates(s) = SettledGates(r)

\* Runs with the same gates have seen, and have settled, the same.
LEMMA SameGatesSettled ==
  ASSUME NEW r, NEW s, s.gate_history = r.gate_history
  PROVE  SettledGates(s) = SettledGates(r)
BY DEF SettledGates

\* A run that is DONE has settled what its flow requires.
LEMMA DoneIsSettled ==
  ASSUME NEW r \in RunState, Sound(r), r.status = "done"
  PROVE  RequiredGates(r.flow) \subseteq SettledGates(r)
<1>1. SUFFICES ASSUME NEW type \in RequiredGates(r.flow) PROVE type \in SettledGates(r)
  OBVIOUS
<1>2. /\ r.current_phase = "completed" /\ r.pending_gate.type = "none"
      /\ Decisions(r) /\ PhaseNeeds(r)
  BY DEF Sound, OpenGate, NoGate
<1>3. GateSeen(r, type) /\ type # "clarification_required" /\ type \in GateTypes
  BY <1>2 DEF RequiredGates, PhaseNeeds, SeenOrOpen, GateTypes
<1> QED BY <1>2, <1>3 DEF SettledGates, GateSeen, Decisions, Decision

\* Every change of the saved run is a step of GatedRun.
LEMMA StoreMoves ==
  ASSUME IInv, HInv, Steps, store' # store
  PROVE  Moves(store, store')
<1>1. store \in RunState /\ run \in RunState /\ Sound(store) /\ Sound(run)
  BY DEF IInv, TypeOK
<1>2. CASE Saves
  <2>1. /\ engine = "loop" /\ store' = run /\ store.status = "in_progress"
        /\ run.flow = store.flow /\ GatesFollow(store, run)
        /\ run.pending_gate.type = store.pending_gate.type /\ run.status # "pending"
    BY <1>2, Working DEF Saves, HInv, Ahead, IInv, Ownership
  <2>2. CASE run.gate_history = store.gate_history
    <3>1. SettledGates(run) = SettledGates(store)
      BY <2>2, SameGatesSettled
    <3>2. run.status = "done" => RequiredGates(store.flow) \subseteq SettledGates(store)
      BY <1>1, <2>1, <3>1, DoneIsSettled
    <3>3. run.status \in {"in_progress", "done", "escalated"}
      BY <1>1, <2>1 DEF Sound
    <3> QED BY <2>1, <3>1, <3>2, <3>3 DEF Moves, Condition
  <2>3. CASE SelfSettled(store, run)
    <3>1. PICK type \in GateTypes :
            ~GateSeen(store, type)
            /\ run.gate_history = Append(store.gate_history, AutoAccepted(store, type))
      BY <2>3 DEF SelfSettled
    <3>2. SettledGates(run) = SettledGates(store) \cup {type}
      BY <1>1, <3>1, AutoAcceptedFacts, SettledAppend
    <3>3. type \in GateTypes \ SettledGates(store)
      BY <3>1, SettledSeen
    <3>4. run.status = "in_progress"
      BY <2>3 DEF SelfSettled
    <3> QED BY <2>1, <3>2, <3>3, <3>4 DEF Moves, Condition
  <2> QED BY <2>1, <2>2, <2>3 DEF GatesFollow
<1>3. CASE Asks
  <2>1. store.status = "in_progress" /\ store'.status = "pending" /\ store'.flow = store.flow
        /\ SettledGates(store') = SettledGates(store)
    BY <1>3, SameGatesSettled DEF Asks, HInv, Ahead
  <2>2. PICK type \in GateTypes : ~GateSeen(store, type) /\ store'.pending_gate = MakeGate(store, type)
    BY <1>3 DEF Asks
  <2>3. store'.pending_gate.type = type /\ type \notin SettledGates(store)
    BY <2>2, SettledSeen DEF MakeGate
  <2> QED BY <2>1, <2>3 DEF Moves, Condition
<1>4. ASSUME NEW status \in {"approved", "rejected"}, Answers(status)
      PROVE  Moves(store, store')
  <2> DEFINE gate == [store.pending_gate EXCEPT !.status = status]
  <2>1. gate \in GateRecord /\ gate.type = store.pending_gate.type /\ gate.status = status
    BY <1>4 DEF Answers, GateRecord
  <2>2. /\ store.status = "pending" /\ store'.flow = store.flow
        /\ store'.gate_history = Append(store.gate_history, gate)
        /\ store'.pending_gate.type = "none"
        /\ store'.status = IF status = "approved" THEN "in_progress" ELSE "escalated"
    BY <1>4 DEF Answers, NoGate
  <2> HIDE DEF gate
  <2>3. SettledGates(store') = SettledGates(store) \cup
          (IF status = "approved" THEN {store.pending_gate.type} ELSE {})
    BY <1>1, <2>1, <2>2, SettledAppend
  <2> QED BY <2>2, <2>3 DEF Moves, Condition
<1> QED BY <1>2, <1>3, <1>4 DEF Steps, Quiet

\* The engine, with all its phases, retries, awaits and losses, implements GatedRun:
\* the saved run moves as GatedRun allows, or not at all.
THEOREM EngineImplementsGatedRun == Spec => ImplementsGatedRun
<1>1. ASSUME Init PROVE Saved!Init
  <2>1. store.gate_history = <<>> /\ store.status = "in_progress" /\ store.pending_gate = NoGate
    BY <1>1 DEF Init, NewRun
  <2>2. SettledGates(store) = {}
    BY <2>1 DEF SettledGates
  <2> QED BY <2>1, <2>2 DEF Saved!Init, Condition, NoGate, RequiredGates, GateTypes
<1>2. ASSUME IInv, IInv', HInv, [Next]_vars PROVE [Saved!Next]_(Saved!runVars)
  <2>1. CASE store' = store
    BY <2>1 DEF Saved!runVars, Condition, SettledGates
  <2>2. CASE store' # store
    <3>1. Moves(store, store')
      BY <1>2, <2>2, NextHistory, StoreMoves DEF vars
    <3>2. /\ RequiredGates(store.flow)' = RequiredGates(store.flow)
          /\ SettledGates(store)' = SettledGates(store')
          /\ Condition(store)' = Condition(store')
      BY <3>1 DEF Moves, RequiredGates, SettledGates, Condition
    <3> QED
      BY <3>1, <3>2 DEF Moves, Saved!Next, Saved!Ask, Saved!SettleItself, Saved!Approved,
                        Saved!Rejected, Saved!Release, Saved!Stop, Saved!runVars
  <2> QED BY <2>1, <2>2
<1> QED BY Invariance, HistoryInvariance, <1>1, <1>2, PTL DEF Spec, ImplementsGatedRun, Saved!Spec
================================================================================
