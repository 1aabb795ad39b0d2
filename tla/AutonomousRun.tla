----------------------------- MODULE AutonomousRun -----------------------------
(***************************************************************************)
(* One autonomous run of agent_core/orchestrator.py: run_autonomous, the   *)
(* loop of _continue_autonomous, and resume_autonomous.                    *)
(*                                                                         *)
(* The engine works on a SwarmRunState in memory (run) and writes it to    *)
(* the state store at the head of every turn of its loop, when it pauses   *)
(* for a gate and when it resumes (store).  It gives up control in two     *)
(* places only, the call of an agent and the call of the executor; between *)
(* them it runs to the next save, so one action is one such stretch.       *)
(*                                                                         *)
(* A paused or finished run has no engine: everything the next resume      *)
(* knows is what was saved.  An engine can also be lost (the process dies, *)
(* or an exception leaves the loop), and then the memory is gone.          *)
(***************************************************************************)
EXTENDS ExecutionPlan, FiniteSets, SequencesExt

CONSTANT RoleMaps   \* role maps a run may be started with: available role -> max_retries

ASSUME RoleMapsAssumption ==
  \A m \in RoleMaps : DOMAIN m \subseteq Roles /\ \A role \in DOMAIN m : m[role] \in Nat

VARIABLES
  run,       \* SwarmRunState in the memory of the engine
  store,     \* SwarmRunState in the state store
  engine,    \* where the engine is: no engine, loop head, or one of its two awaits
  role_map   \* role -> max_retries of the agent specs the run may call

vars == <<run, store, engine, role_map>>

--------------------------------------------------------------------------------
(* The run state.                                                          *)

Statuses      == {"pending", "in_progress", "done", "failed", "escalated"}
Terminal      == {"done", "escalated"}
ApprovalModes == {"major_gates", "none"}
GateTypes     == {"clarification_required", "requirements_locked", "design_locked",
                  "release_ready"}
RetryKeys     == {"debugger", "implementer"}
NoGate        == [gate_id |-> 0, type |-> "none", status |-> "none"]
GateRecord    == [gate_id : Nat \ {0}, type : GateTypes,
                  status : {"pending", "approved", "rejected", "auto_approved"}]

\* What the loop distinguishes in a StructuredResult: an escalated result; one
\* with a blocker or major finding; one whose status is failed and which has no
\* such finding; any other.
Verdicts == {"escalated", "blocking", "failed", "done"}

\* The agents whose findings and failures the loop looks at; a result of the
\* others is escalated or is not.
VerdictsOf(phase) == IF phase \in {"verify", "review"} THEN Verdicts
                                                       ELSE {"escalated", "done"}

\* phase_results, each with the ExecutorOutcome that followed it, if any.
PhaseResult == [phase : Phases, verdict : Verdicts,
                outcome : {"none", "done", "escalated"}]

\* What escalation_reason says: nothing, a missing role, the executor's or the
\* agent's own reason, exhausted retries, a rejected gate.
Reasons == {"none", "role", "executor", "agent", "retries", "gate"}

RunState ==
  [flow : Flows, approval_mode : ApprovalModes, execute : BOOLEAN,
   questions : BOOLEAN,                    \* plan.clarification_questions is not empty
   status : Statuses, current_phase : Phases,
   steps : [Phases -> Statuses],           \* plan.steps; pending outside the plan
   pending_gate : GateRecord \cup {NoGate}, gate_history : Seq(GateRecord),
   phase_results : Seq(PhaseResult),
   retry_counts : [RetryKeys -> Nat], escalation_reason : Reasons]

NewRun(flow, mode, execute, questions) ==
  [flow |-> flow, approval_mode |-> mode, execute |-> execute, questions |-> questions,
   status |-> "in_progress", current_phase |-> "clarify",
   steps |-> [p \in Phases |-> "pending"],
   pending_gate |-> NoGate, gate_history |-> <<>>, phase_results |-> <<>>,
   retry_counts |-> [k \in RetryKeys |-> 0], escalation_reason |-> "none"]

SetStepStatus(r, phase, status) ==
  IF PlanContains(r.flow, phase) THEN [r EXCEPT !.steps[phase] = status] ELSE r

\* Mutation: any gate counts for every gate.
GateSeenAny(r, type) == r.gate_history # <<>> /\ type \in GateTypes

GateSeen(r, type) == \E i \in 1..Len(r.gate_history) : r.gate_history[i].type = type

\* Mutation: ids are not counted up from the history.
MakeGateSameId(r, type) ==
  [gate_id |-> IF r.gate_history = <<>> THEN 1 ELSE 2, type |-> type, status |-> "pending"]

\* Mutation: ids start at zero.
MakeGateFromZero(r, type) ==
  [gate_id |-> Len(r.gate_history), type |-> type, status |-> "pending"]

MakeGate(r, type) ==
  [gate_id |-> Len(r.gate_history) + 1, type |-> type, status |-> "pending"]

AutoAcceptGate(r, type) ==
  IF GateSeen(r, type) THEN r
  ELSE [r EXCEPT !.gate_history =
          Append(@, [MakeGate(r, type) EXCEPT !.status = "auto_approved"])]

MaxRetries(role) == IF role \in DOMAIN role_map THEN role_map[role] ELSE 0

LastResult(r) == r.phase_results[Len(r.phase_results)]

--------------------------------------------------------------------------------
(* How a stretch of the loop ends.                                         *)

\* `continue`: back to the head of the loop, which will save r.
Continue(r) == /\ run' = r
               /\ engine' = "loop"
               /\ UNCHANGED role_map

Paused(r, type, next_phase) ==
  [r EXCEPT !.pending_gate = MakeGate(r, type), !.current_phase = next_phase,
            !.status = "pending"]

\* Mutation: paused in memory only.
PauseForGateUnsaved(r, type, next_phase) ==
  /\ run' = Paused(r, type, next_phase)
  /\ engine' = "idle"
  /\ UNCHANGED <<store, role_map>>

\* _pause_for_gate: saved and returned.
PauseForGate(r, type, next_phase) ==
  /\ run' = Paused(r, type, next_phase)
  /\ store' = Paused(r, type, next_phase)
  /\ engine' = "idle"
  /\ UNCHANGED role_map

\* Mutation: one retry too many.
RetryOrEscalateOffByOne(r, role, phase, exhausted) ==
  LET retries == r.retry_counts[role] + 1
  IN  IF retries <= MaxRetries(role) + 1
      THEN [r EXCEPT !.retry_counts[role] = retries,
                     !.current_phase = phase, !.status = "in_progress"]
      ELSE [exhausted EXCEPT !.retry_counts[role] = retries, !.status = "escalated"]

\* Count a retry of role; go back to phase if the role has retries left, else
\* escalate the run as exhausted has it.
RetryOrEscalate(r, role, phase, exhausted) ==
  LET retries == r.retry_counts[role] + 1
  IN  IF retries <= MaxRetries(role)
      THEN [r EXCEPT !.retry_counts[role] = retries,
                     !.current_phase = phase, !.status = "in_progress"]
      ELSE [exhausted EXCEPT !.retry_counts[role] = retries, !.status = "escalated"]

\* Mutation: a failed verification is handed to the implementer.
EscalatePhaseToImplementer(r, phase) ==
  IF phase = "verify" THEN RetryOrEscalate(r, "debugger", "implement", r)
                      ELSE [r EXCEPT !.status = "escalated"]

\* What an escalation of phase does, whoever escalated: a verification is
\* handed to the debugger, any other phase ends the run.
EscalatePhase(r, phase) ==
  IF phase = "verify" THEN RetryOrEscalate(r, "debugger", "debug", r)
                      ELSE [r EXCEPT !.status = "escalated"]

Exhausted(r, phase) ==
  [SetStepStatus(r, phase, "escalated") EXCEPT !.escalation_reason = "retries"]

--------------------------------------------------------------------------------
(* The head of the loop, which saves and then looks at status and phase.   *)

AtHead == engine = "loop" /\ store' = run

\* Mutation: a finished run is saved again and again.
ReturnNever ==
  /\ AtHead
  /\ run.status \in Terminal
  /\ UNCHANGED <<run, engine, role_map>>

\* The status is terminal: the engine returns.
Return ==
  /\ AtHead
  /\ run.status \in Terminal
  /\ engine' = "idle"
  /\ UNCHANGED <<run, role_map>>

Clarifying == SetStepStatus(run, "clarify", "in_progress")

\* Mutation: open questions stop the run only where major gates do.
NeedsAnswersWithGates ==
  run.questions /\ run.approval_mode = "major_gates" /\ ~GateSeen(run, "clarification_required")

NeedsAnswers == run.questions /\ ~GateSeen(run, "clarification_required")

\* Open questions stop the run in every approval mode.
AskClarification ==
  /\ engine = "loop"
  /\ run.status \notin Terminal
  /\ run.current_phase = "clarify"
  /\ NeedsAnswers
  /\ PauseForGate(Clarifying, "clarification_required", "clarify")

Clarified == SetStepStatus(run, "clarify", "done")

AskRequirementsLock ==
  /\ engine = "loop"
  /\ run.status \notin Terminal
  /\ run.current_phase = "clarify"
  /\ ~NeedsAnswers
  /\ run.approval_mode = "major_gates"
  /\ ~GateSeen(run, "requirements_locked")
  /\ PauseForGate(Clarified, "requirements_locked", FindNextPhase(run.flow, "clarify"))

LockRequirements ==
  /\ AtHead
  /\ run.status \notin Terminal
  /\ run.current_phase = "clarify"
  /\ ~NeedsAnswers
  /\ run.approval_mode = "none" \/ GateSeen(run, "requirements_locked")
  /\ Continue([AutoAcceptGate(Clarified, "requirements_locked") EXCEPT
                 !.current_phase = FindNextPhase(run.flow, "clarify"),
                 !.status = "in_progress"])

\* FINALIZE sets the run COMPLETED and DONE in one stretch; the next turn of
\* the loop saves it and returns, so the loop's own COMPLETED branch never runs.
Finalize ==
  /\ AtHead
  /\ run.status \notin Terminal
  /\ run.current_phase = "finalize"
  /\ Continue([SetStepStatus(run, "finalize", "done") EXCEPT
                 !.current_phase = "completed", !.status = "done"])

AgentPhase == run.current_phase \in {"design", "implement", "debug", "verify", "review"}

MissingRole ==
  /\ AtHead
  /\ run.status \notin Terminal
  /\ AgentPhase
  /\ RoleForPhase(run.current_phase) \notin DOMAIN role_map
  /\ Continue([SetStepStatus(run, run.current_phase, "escalated") EXCEPT
                 !.status = "escalated", !.escalation_reason = "role"])

InvokeAgent ==
  /\ AtHead
  /\ run.status \notin Terminal
  /\ AgentPhase
  /\ RoleForPhase(run.current_phase) \in DOMAIN role_map
  /\ run' = SetStepStatus(run, run.current_phase, "in_progress")
  /\ engine' = "agent"
  /\ UNCHANGED role_map

--------------------------------------------------------------------------------
(* What the loop does with a result r already records as its last one.     *)

Escalated(r, phase) ==
  /\ LastResult(r).verdict = "escalated"
  /\ UNCHANGED store
  /\ Continue(EscalatePhase([SetStepStatus(r, phase, "escalated") EXCEPT
                               !.escalation_reason = "agent"], phase))

Rework(r, phase) ==
  /\ LastResult(r).verdict = "blocking"
  /\ UNCHANGED store
  /\ LET passed == SetStepStatus(r, phase, "done")
     IN  \/ /\ phase = "verify"
            /\ Continue(RetryOrEscalate(passed, "debugger", "debug", Exhausted(r, phase)))
         \/ /\ phase = "review"
            /\ Continue(RetryOrEscalate(passed, "implementer", "implement",
                                        Exhausted(r, phase)))

\* Mutation: every result that did not escalate is success.
AcceptedUnlessEscalated(r) == LastResult(r).verdict # "escalated"

\* Any other status is success: a failed verification without blocking findings
\* goes the way of a passed one.
Accepted(r) == LastResult(r).verdict \in {"done", "failed"}

GateOf(phase)  == IF phase = "design" THEN "design_locked" ELSE "release_ready"
AfterGate(r, phase) == IF phase = "design" THEN FindNextPhase(r.flow, phase) ELSE "finalize"

\* After a design or a clean review, with approval_mode major_gates: pause.
AskGate(r, phase) ==
  /\ Accepted(r)
  /\ phase \in {"design", "review"}
  /\ r.approval_mode = "major_gates"
  /\ ~GateSeen(r, GateOf(phase))
  /\ PauseForGate(SetStepStatus(r, phase, "done"), GateOf(phase), AfterGate(r, phase))

PassGate(r, phase) ==
  /\ Accepted(r)
  /\ phase \in {"design", "review"}
  /\ r.approval_mode = "none" \/ GateSeen(r, GateOf(phase))
  /\ UNCHANGED store
  /\ Continue([AutoAcceptGate(SetStepStatus(r, phase, "done"), GateOf(phase)) EXCEPT
                 !.current_phase = AfterGate(r, phase)])

Advance(r, phase) ==
  /\ Accepted(r)
  /\ phase \notin {"design", "review"}
  /\ UNCHANGED store
  /\ Continue([SetStepStatus(r, phase, "done") EXCEPT
                 !.current_phase = NextPhaseAfterSuccess(r.flow, phase),
                 !.status = "in_progress"])

Evaluate(r) ==
  LET phase == r.current_phase
  IN  Escalated(r, phase) \/ Rework(r, phase) \/ AskGate(r, phase)
        \/ PassGate(r, phase) \/ Advance(r, phase)

--------------------------------------------------------------------------------
(* The two awaits.                                                         *)

ExecutorRuns(r) == r.execute /\ r.current_phase \in {"implement", "debug", "verify"}

Recorded(verdict) ==
  [run EXCEPT !.phase_results =
     Append(@, [phase |-> run.current_phase, verdict |-> verdict, outcome |-> "none"])]

AgentReturns ==
  /\ engine = "agent"
  /\ ~ExecutorRuns(run)
  /\ \E verdict \in VerdictsOf(run.current_phase) : Evaluate(Recorded(verdict))

\* The executor gets the result before the loop looks at its status.
AgentReturnsToExecutor ==
  /\ engine = "agent"
  /\ ExecutorRuns(run)
  /\ \E verdict \in VerdictsOf(run.current_phase) : run' = Recorded(verdict)
  /\ engine' = "executor"
  /\ UNCHANGED <<store, role_map>>

Executed(outcome) == [run EXCEPT !.phase_results[Len(run.phase_results)].outcome = outcome]

\* Mutation: an executor failure is recorded and passed over.
ExecutorEscalatesIgnored ==
  /\ engine = "executor"
  /\ Evaluate(Executed("escalated"))

ExecutorSucceeds == engine = "executor" /\ Evaluate(Executed("done"))

ExecutorEscalates ==
  /\ engine = "executor"
  /\ UNCHANGED store
  /\ Continue(EscalatePhase(
       [SetStepStatus(Executed("escalated"), run.current_phase, "failed") EXCEPT
          !.escalation_reason = "executor"], run.current_phase))

\* The process dies, or an exception of an agent call, of the executor or of
\* the store leaves _continue_autonomous: nothing since the last save remains.
LoseEngine ==
  /\ engine # "idle"
  /\ engine' = "idle"
  /\ run' = store
  /\ UNCHANGED <<store, role_map>>

--------------------------------------------------------------------------------
(* resume_autonomous, on what the store holds.  A blank answer to a        *)
(* clarification, and a resume without a pending gate, raise an error      *)
(* before anything changes.                                                *)

\* Mutation: a decision replaces the ones before it.
DecidedForgetsHistory(status) ==
  [store EXCEPT !.gate_history = <<[store.pending_gate EXCEPT !.status = status]>>,
                !.pending_gate = NoGate]

\* Mutation: a decision is not recorded.
DecidedUnrecorded(status) ==
  IF status = "approved" THEN [store EXCEPT !.pending_gate = NoGate]
  ELSE [store EXCEPT !.gate_history = Append(@, [store.pending_gate EXCEPT !.status = status]),
                     !.pending_gate = NoGate]

Decided(status) ==
  [store EXCEPT !.gate_history = Append(@, [store.pending_gate EXCEPT !.status = status]),
                !.pending_gate = NoGate]

Reject ==
  /\ engine = "idle"
  /\ store.pending_gate # NoGate
  /\ run' = [Decided("rejected") EXCEPT !.status = "escalated", !.escalation_reason = "gate"]
  /\ store' = run'
  /\ UNCHANGED <<engine, role_map>>

Approve ==
  /\ engine = "idle"
  /\ store.pending_gate # NoGate
  /\ run' = IF store.pending_gate.type = "clarification_required"
            THEN [Decided("approved") EXCEPT !.status = "in_progress",
                                             !.questions = FALSE,
                                             !.current_phase = "clarify"]
            ELSE [Decided("approved") EXCEPT !.status = "in_progress"]
  /\ store' = run'
  /\ engine' = "loop"
  /\ UNCHANGED role_map

--------------------------------------------------------------------------------
Init ==
  /\ \E flow \in Flows, mode \in ApprovalModes, execute, questions \in BOOLEAN :
       run = NewRun(flow, mode, execute, questions)
  /\ store = run
  /\ engine = "loop"
  /\ role_map \in RoleMaps

EngineStep ==
  \/ Return \/ AskClarification \/ AskRequirementsLock \/ LockRequirements
  \/ Finalize \/ MissingRole \/ InvokeAgent
  \/ AgentReturns \/ AgentReturnsToExecutor \/ ExecutorSucceeds \/ ExecutorEscalates

Decide == Approve \/ Reject

Next == EngineStep \/ LoseEngine \/ Decide

Spec == Init /\ [][Next]_vars

(* An agent call ends: the driver bounds its attempts and the HTTP client  *)
(* has a timeout.  The executor waits for a command to end, and so do we.  *)
(* Nothing makes a user decide, and nothing owes the loss of an engine.    *)
FairSpec == Spec /\ WF_vars(EngineStep)

--------------------------------------------------------------------------------
(* What the run promises.                                                  *)

\* Every variable has the type the code's models declare; NewRun to Continue.
TypeOK ==
  /\ run \in RunState
  /\ store \in RunState
  /\ engine \in {"idle", "loop", "agent", "executor"}
  /\ role_map \in RoleMaps

Settled(r, type) ==
  \E i \in 1..Len(r.gate_history) :
    /\ r.gate_history[i].type = type
    /\ r.gate_history[i].status = IF r.approval_mode = "major_gates" THEN "approved"
                                                                     ELSE "auto_approved"

RequiredGates(flow) ==
  {"requirements_locked", "release_ready"}
    \cup (IF PlanContains(flow, "design") THEN {"design_locked"} ELSE {})

\* A run ends DONE only with every major gate of its flow settled: each by a
\* user's approval with approval_mode major_gates, each by the engine without.
SignedOff ==
  run.status = "done" => \A type \in RequiredGates(run.flow) : Settled(run, type)

\* An agent or the executor is at work only while no question and no gate is
\* open, the requirements are locked, and, past the design, the design is.
WorkIsAuthorised ==
  engine \in {"agent", "executor"} =>
    /\ ~run.questions \/ GateSeen(run, "clarification_required")
    /\ run.pending_gate = NoGate /\ store.pending_gate = NoGate
    /\ Settled(run, "requirements_locked")
    /\ PlanContains(run.flow, "design") /\ run.current_phase # "design"
         => Settled(run, "design_locked")

\* A run ends DONE only on a review that escalated nothing and found neither a
\* blocker nor a major issue.
ReviewedLast ==
  run.status = "done" =>
    /\ run.phase_results # <<>>
    /\ Last(run.phase_results).phase = "review"
    /\ Last(run.phase_results).verdict \notin {"blocking", "escalated"}

\* Where the plan verifies, no implementation, correction or rework is released
\* unverified: after the last verification only reviews follow, it was neither
\* escalated nor blocking, and the executor, if there is one, ran it green.
VerifiedRelease ==
  run.status = "done" /\ PlanContains(run.flow, "verify") =>
    \E v \in 1..Len(run.phase_results) :
      /\ run.phase_results[v].phase = "verify"
      /\ run.phase_results[v].verdict \notin {"blocking", "escalated"}
      /\ run.execute => run.phase_results[v].outcome = "done"
      /\ \A i \in (v + 1)..Len(run.phase_results) : run.phase_results[i].phase = "review"

Failing(result) == result.verdict \in {"blocking", "escalated"} \/ result.outcome = "escalated"

\* The results follow each other as the loop routes them: a verification with blocking
\* findings, an escalation or an executor failure goes to the debugger and one that is
\* done to the review, a review with blocking findings to the implementer, and what
\* either changed is verified again, or reviewed if the plan has no verification.
\* (Where a result goes that has failed without saying why is left open: for
\* verifications see VerificationFailuresRerouted.)
Rerouted ==
  \A i \in 1..(Len(run.phase_results) - 1) :
    LET this == run.phase_results[i]
        next == run.phase_results[i + 1].phase
    IN  CASE this.phase = "verify" ->
               /\ next \in {"debug", "review"}
               /\ Failing(this) => next = "debug"
               /\ this.verdict = "done" /\ ~Failing(this) => next = "review"
          [] this.phase = "review" -> this.verdict # "done" /\ next = "implement"
          [] this.phase \in {"implement", "debug"} ->
               ~Failing(this) /\ next = NextValidationPhase(run.flow)
          [] OTHER -> ~Failing(this) /\ next = "implement"

Planned(flow, phase) == IF PlanContains(flow, phase) THEN 1 ELSE 0

CallsOf(r, phase) == Cardinality({i \in 1..Len(r.phase_results) : r.phase_results[i].phase = phase})

\* However verification and review alternate, the debugger and the implementer
\* are called no more often than the plan and their max_retries allow, and the
\* validations they lead to are bounded with them.
RetryBudget ==
  LET debugs     == Planned(run.flow, "debug") + MaxRetries("debugger")
      implements == Planned(run.flow, "implement") + MaxRetries("implementer")
  IN  /\ CallsOf(run, "debug") <= debugs
      /\ CallsOf(run, "implement") <= implements
      /\ CallsOf(run, "verify") + CallsOf(run, "review")
           <= 2 * (1 + MaxRetries("implementer")) + MaxRetries("debugger")

\* A run that ends DONE passed every step of its plan, whatever detours it took,
\* so its completion summary names them all.
PlanCompleted ==
  run.status = "done" =>
    \A phase \in Phases : PlanContains(run.flow, phase) => run.steps[phase] = "done"

\* A gate is open in the store exactly while the saved status is pending, and
\* then no engine works on the run; a run without an engine is what was saved.
PausedIsSaved ==
  /\ store.pending_gate # NoGate <=> store.status = "pending"
  /\ store.pending_gate # NoGate => engine = "idle"
  /\ engine = "idle" => run = store

GatesOf(r) == IF r.pending_gate = NoGate THEN r.gate_history
                                         ELSE Append(r.gate_history, r.pending_gate)

\* A client that decides on a gate names one gate: no id is given twice in a run.
GateIdsUnique ==
  \A i, j \in 1..Len(GatesOf(run)) :
    GatesOf(run)[i].gate_id = GatesOf(run)[j].gate_id => i = j

\* Saving never takes back: decided gates and results stay, and a saved terminal
\* state is the last.
SavedIsKept ==
  [][ /\ store.status \notin Terminal
      /\ IsPrefix(store.gate_history, store'.gate_history)
      /\ IsPrefix(store.phase_results, store'.phase_results)
      /\ store'.flow = store.flow ]_store

\* An engine always comes to rest, and if the user decides whenever asked, the run
\* ends: DONE, ESCALATED, or without an engine.
Concludes == WF_vars(Decide) => <>[](engine = "idle" /\ store.status # "pending")

\* AUTONOMOUS.md, "Reroutes verification failures to the debugger", for every
\* failed verification: the one whose status is failed included.
VerificationFailuresRerouted ==
  \A i \in 1..(Len(run.phase_results) - 1) :
    run.phase_results[i].phase = "verify" /\ run.phase_results[i].verdict = "failed"
      => run.phase_results[i + 1].phase = "debug"

--------------------------------------------------------------------------------
(* The saved state implements GatedRun.                                    *)

Condition(r) == CASE r.status = "in_progress" -> "working"
                  [] r.status = "pending"     -> "waiting"
                  [] r.status = "done"        -> "released"
                  [] OTHER                    -> "stopped"

SettledGates(r) == {type \in GateTypes :
  \E i \in 1..Len(r.gate_history) :
    r.gate_history[i].type = type /\ r.gate_history[i].status \in {"approved", "auto_approved"}}

Saved == INSTANCE GatedRun WITH
  Gates     <- GateTypes,
  NoOpen    <- "none",
  required  <- RequiredGates(store.flow),
  condition <- Condition(store),
  open      <- store.pending_gate.type,
  settled   <- SettledGates(store)

\* Every change of the saved state is a step of GatedRun, or none at all.
ImplementsGatedRun == Saved!Spec
================================================================================
