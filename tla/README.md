# A verification project for agent-core

agent-core (`src/src/agent_core`, with the API server `src/apps/api/main.py`) drives
language-model agents over a repository. A run is a state machine that calls agents,
pauses for decisions of a user, saves itself, and is resumed by another process or another
request. This directory models that machine and what surrounds it in TLA+, checks the models
with TLC on small instances, and proves the properties that matter most with TLAPS for every
value of the constants.

`PROJECT.json` lists components, runs, mutants, hazards, findings and theorems, and maps every
definition that models code to its lines.

    tlc -workers 2 -config ApprovalApi.cfg ApprovalApi      # a run
    tlapm AutonomousRunProofs.tla                           # the proofs of a module

## The system

| part | state it keeps | operations |
|---|---|---|
| autonomous engine (`orchestrator.py`, `schemas.py`) | `SwarmRunState`: status, phase, step statuses, pending gate, gate history, phase results, retry counts | `run_autonomous`, `_continue_autonomous`, `resume_autonomous` |
| execution plan (`orchestrator.py`) | none: functions of the flow | `_phase_sequence`, `_find_next_phase`, `_next_validation_phase`, ... |
| API server (`apps/api/main.py`) | `event_queues`, `task_api_keys`, background tasks, one timer per task | `/swarm/run`, `/swarm/auto`, `/swarm/approval`, `/swarm/events`, `/swarm/status` |
| agent turn (`drivers/base.py`, `orchestrator.py`) | the `StructuredResult` on its way | `_get_driver`, `invoke` with retries and gates, `_apply_security_filter` |
| gate expressions (`drivers/base.py`) | none: an interpreter | `_safe_eval_gate`, the `visit_*` methods |
| platform drivers (`drivers/claude.py`, `codex.py`, `gemini.py`) | none that outlives a call | construction, `_call_platform` |
| executor (`executor.py`) | the working tree | `execute`: apply diffs, run commands |
| sequential runs (`orchestrator.py`) | results, context checkpoint, output files | `run_sequential`, `resume_swarm` |
| parallel runs (`orchestrator.py`) | semaphore, tasks, output files | `run_parallel`, `_detect_conflicts` |
| context optimizer (`context_optimizer.py`) | budget and charge | `pass_1_metadata_score`, `pass_2_content_refinement`, `slice_to_budget` |
| state stores (`persistence.py`, `drivers/redis_store.py`) | the last context and the last run state per task | save, load, delete, choice of the store |
| repository analyzer, registry (`repo_analyzer.py`, `registry.py`) | none that outlives a call | `analyze`, `_determine_roles`, `_load_from_dir`, `_build_role_map` |
| command line, prompt guard, dashboard | none that outlives a call | |

How they meet: a request of the API, or the command line, analyzes the repository, makes a role
map of what it finds, and starts an engine. The engine calls an agent's driver, waits, perhaps
calls the executor, waits, and saves its state at the head of every turn of its loop. A pause ends
the engine; all that the next one knows is what was saved. Whoever decides reads the saved state
and names a gate. Events go through a queue per task to whoever reads the stream. Everything runs
in one event loop, so interleavings happen at awaits that really suspend: platform calls,
subprocesses, semaphores, queues and Redis, but neither the file store nor an `await` of a
coroutine that never suspends.

What is hard here: gates asked, decided and passed in an order spread over processes; three
copies of the code that reroutes failures; two retry loops that feed each other; a gate checked
in one request and decided in a later task; a shared queue and key table that several tasks and
readers give up; a server that dies in the middle of a save, and a save that lapses; results and
patches that get out in part; results changed after they were validated; an interpreter that must agree with
Python; roles recommended by one component and asked for by another; failures between a save and
the write of a file.

## The modules

| module | models | abstracts |
|---|---|---|
| `ExecutionPlan` | phases of a flow and the functions that choose the next one | the wording of the plan |
| `RoleDiscovery` | which agents a run has: analyzer, registry, role map | an agent is its `max_retries`; a repository is what the detectors report |
| `StateStore` | which store a caller gets, what suspends, what a crash or an expiry leaves | an entry is the last value saved |
| `GatedRun` | what a saved run promises its reader (abstract specification) | everything but condition, open gate and settled gates |
| `AutonomousRun` | the engine, its saves, its loss, decisions | a result is a verdict, an executor outcome a status |
| `MCAutonomousRun` | the role maps that are discovered, for TLC | |
| `ApprovalApi` | one task in the API server: requests, background tasks, queue, streams, key, timer, store, restarts | the work between two gates is one step |
| `PlatformDrivers` | when a driver can be built, and what it makes of every shape of reply | a body and a text are one of a few shapes |
| `GateExpression` | the whitelist and the interpreter of gate expressions, and their meaning in Python | a gate is the sequence of the nodes of its syntax tree |
| `AgentTurn` | one call of an agent, filter and executor included | a command is a model value; whether it matches a blocked pattern is a set |
| `MCAgentTurn` | the lists of gates, for TLC | |
| `SequentialRun` | chains of agents, checkpoints, files, failures, resumptions | an output is a role, a status and a call |
| `ParallelRun` | tasks under a semaphore, gathering, conflicts, files | an invocation returns some findings or raises |
| `ContextSlice` | selection within the token budget | a file is a score and its token counts |
| `AutonomousRunProofs`, `AutonomousRunHistoryProofs`, `AutonomousRunPathProofs`, `ApprovalApiProofs`, `AgentTurnProofs`, `SequentialRunProofs`, `ParallelRunProofs`, `ContextSliceProofs` | theorems | |

How they compose: `AutonomousRun` EXTENDS `ExecutionPlan`, and `MCAutonomousRun` gives it the role
maps of `RoleDiscovery`. `ApprovalApi` and `SequentialRun` EXTEND `StateStore`. `AutonomousRun` and
`ApprovalApi` are both shown to implement `GatedRun`: the engine in detail, the server with several
requests and tasks around one. `AgentTurn` EXTENDS `PlatformDrivers`; whether a gate passes is a
parameter of it, for which `MCAgentTurn` takes the interpreter of `GateExpression`. `AgentTurn` is
the inside of two actions of `AutonomousRun`: its result is the verdict of `AgentReturns`, its
outcome is `ExecutorSucceeds` or `ExecutorEscalates`, and a turn that raises is `LoseEngine`.
`SequentialRun` and `ParallelRun` see only that a turn returns or raises.

### AutonomousRun and the code

`run` is the `SwarmRunState` in memory, `store` the saved one, `engine` where the engine is: no
engine, at the head of the `while` loop (line 829), or in one of its two awaits that suspend,
`_invoke_agent` (908) and `executor.execute` (944). One action is the code from one of these
places to the next; `Continue` is the loop's `continue`, followed by the save at its head.
Memory and store therefore differ exactly while an engine is past a change and before a save, and
`LoseEngine`, the end of the process or an exception that leaves the loop, throws that away.

| action | code |
|---|---|
| `Return` | the loop's exit, 832 |
| `AskClarification`, `AskRequirementsLock`, `LockRequirements` | CLARIFY, 845-874 |
| `Finalize` | FINALIZE, 876-882 |
| `MissingRole`, `InvokeAgent` | 884-922 |
| `AgentReturns`, `AgentReturnsToExecutor` | 924-943 |
| `ExecutorSucceeds`, `ExecutorEscalates` | 944-955 |
| `Evaluate` (`Escalated`, `Rework`, `AskGate`, `PassGate`, `Advance`), a part of the four above | 957-1027 |
| `Approve`, `Reject` | `resume_autonomous` |

Which flow a description selects, whether it raises questions, the approval mode and whether the
run executes are free choices of `Init`; which roles exist, and their `max_retries`, is the
constant `RoleMaps`. Answers to a clarification are assumed not blank (a refusal changes nothing;
`ApprovalApi` has it).

### RoleDiscovery and the code

`Repositories` is everything the detectors may report, as far as `_determine_roles` and the
specifications of custom roles look at it. `LoadFromDir` reads agent files in order, skips those
the schema refuses and lets the last one of a role win; the registry is the built-in files with the
local ones over them. `AgentSpecs` hydrates the recommended roles, and `BuildRoleMap` prefers the
agents of the configuration. The custom roles are recommended, but no phase asks for them:
`PhaseRoles` is what is left for the engine.

### ApprovalApi and the code

`backend` is the store the server is configured with. With the file store
`execute_autonomous_resume_inner` and `resume_autonomous` do not suspend before the decision is
saved, and `Resume` is one action. With Redis they do: the task finds the run (`Find`), loads it again (`Load`, or
`LoadFails` when it has lapsed between the two) and saves the decision (`ResumeLoaded`). A run that
cannot be found ends the task with a word to the readers (`Vanished`). Between two gates the
engine is one action (`Pause`, `End` or `Raise`). With Redis the other saves suspend too; the
model keeps each of them together with the events that follow it, and a request together with its
reply. A rejection ends its task with two events, `phase_failed` and `swarm_complete`, as a
refusal does. `/swarm/run` starts a chain without run state or gates (`TriggerChain`,
`ChainEnds`). `registered` is the entry in `event_queues`, `events` the queue: a reader or a task
that has it keeps it when the entry is gone.

`Restart` is the death of the server and its next start: queues, keys, timers, tasks and streams
are gone, and of the saved run there is what `StateStore!AfterCrash` leaves: with the file store
either the last save or, if some task may have been saving, a torn file that loads as nothing.
`Lapse` is the expiry of the key in Redis.

### AgentTurn, PlatformDrivers, GateExpression and the code

`Call` gets one of the `Replies` of the platform (a code, a shape of the body, a shape of the text), and
`PlatformDrivers` says whether the driver raises a rate limit, an expected or an unexpected
error, or hands over a result; `_parse_json_result` is `Parse`. `RateLimited` counts as
`stop_after_attempt(max_retries + 1)` does; every other error is final. `CallFailsSilently` is an
error whose text is empty. A status of an answer other than `done` and `escalated` is `failed`.
`NoDriver` is `_get_driver` without a key or with an unregistered platform, which raises past every
handler. Gates are evaluated against the result as it stands (`GatesPass`), the first that fails
escalates. `PatchFails` leaves the tree in part patched, as `git apply --reject` does, or
untouched.

`GateExpression` has a gate as the sequence of the nodes of its syntax tree, children before
their parents and the root last; a node has the fields of the `ast` module and names its children
by their distance. The interpreter is then a function on positions, with no recursive operator,
and can be proved about. `SafeEvalGate` is the code: the whitelist first, then what the `visit_` methods make
of one node and the outcomes of its children (`Visit`), with a raised exception as a value,
since the driver counts it as a gate that failed. `Meanings` is what Python makes of the same nodes. They
differ in two places the property allows for: what is not whitelisted fails, and a `BoolOp` is a
bool.

### SequentialRun, ParallelRun, ContextSlice

`SequentialRun`: `checkpoint` is `previous_outputs` of the context saved last, `published` the
files of the output directory, which outlive a call. `Fail`, an exception, may happen between any
two steps or in the middle of one, and so may `Die`, the end of the process. Either may leave the file
of the store (`CutOff`) or the result file (`LeftOnDisk`) torn, since `write_text` truncates before it
writes. `kind` is the store. What is in a memory store is gone with the process (`AfterCrash`), and a
resumption makes a store of its own and finds nothing anyway (`FoundAnew`); a checkpoint in Redis may
lapse at any moment, the result files stay (`Lapse`).

`ParallelRun`: a task that runs when another raises goes on behind the caller's back, since
`gather` cancels nothing (`Raise`). When all have returned (`Gather`), `Write` is one turn of the loop
over the results, 431; `WriteRaises` is a write that fails and `Die` the end of the process, and either
leaves the results written so far, the one being written perhaps torn (`CutOff`). `Conclude`
compares, with everything on disk. `written` has of each role whose result is in its file.

`ContextSlice`: one step per file, best score first; the token count is an estimate until
the text is counted.

## The runs

Passing runs (the autonomous run takes about 80 s, the agent turn 30 s, the others up to 20 s):

| run | instance | states | shows |
|---|---|---|---|
| `autonomous_run` | 4 flows, 2 modes, execution or not, questions or not, every role map that is discovered | 1,060,768 | what a run has done when it works, pauses and ends; that it ends; that a missing role stops it before anybody implements or debugs; that it implements `GatedRun` |
| `approval_api` | 2 approvals, 2 readers, 2 gates, 1 restart, both stores | 238,552 | one engine, one decision per gate, and a gate that waits is kept (file store); no key of an ended run is left behind; streams end, unless their run was lost or could not be started, or their queue was given up |
| `agent_turn` | 4 commands (allowed or not, blocked or not), answers of up to 3, 12 lists of gates, every reply, 2 retries | 969,672 | what is run, on which tree, what a green or escalated result means, that gates mean what they mean in Python and a strict turn escalates for them |
| `parallel_run` | up to 4 tasks, 2 roles, 2 permits, 1 file, 2 severities | 288,252 | the limit; what is published, and in which order, wherever the call is cut off; conflicts |
| `sequential_run` | 2 roles, chains of up to 3, one resumption, 3 stores | 163,656 | order, halting, files against a checkpoint that is found |
| `context_slice` | 5 files, budgets 0..12, reserve 3, counts 0..6 | 58,424 | the budget and what is left out |

Why these bounds are enough for what they look at:

- *autonomous_run.* The counters are bounded by the code: a run has at most `max_retries`
  corrections and reworks. The role maps are those that `RoleDiscovery` makes of every
  repository, with the built-in retries (2) and with local files that lower them to 1 and to 0. Two
  retries on one role and one on the other let both loops be entered again after each other; zero
  makes the first failure the last. Where there is no architect, or nobody who implements, one
  setting of the retries is taken. Nothing else is bounded.
- *approval_api.* Two requests are the least with which an accepted decision can be late; a
  duplicate and a late one need two, two gates let the late one meet another gate. Two
  readers share one queue. A second restart finds nothing that the first one did not.
- *agent_turn.* Three commands put a safe one before, between and behind blocked ones; the four
  model values are the four combinations of blocked and allowlisted. The twelve lists of gates have
  each construct of the whitelist, chained comparisons, short cuts around something that raises,
  an unknown attribute, and three refused constructs. What the two drivers not run here
  make of a reply is compared with this one's in an assumption (`DriversAgree`).
- *parallel_run.* Four tasks under two permits leave two waiting while two call. Two roles for four
  tasks let results share a file, and results before, between and behind the one that is cut off.
- *sequential_run.* A chain of three has a first, an inner and a last agent; a role may occur
  twice. A resumption goes over checkpoint and files of the call before; a second one finds
  nothing a first one does not.
- *context_slice.* Budgets below, at and above the reserve; files that fit by estimate and not by
  count, and the reverse; five files let several follow a truncated one. The constants of
  the code (4000, 300) are scaled down.

Every property of a passing run has a mutant, a definition of the model changed as a bug would
change the code (`\* Mutation:` beside the definition), under which TLC finds it violated.

Runs that end in a violation, each a disagreement between the code and what the repository says:

| run | what happens |
|---|---|
| `failed_verification` | a verification with status `failed` and no findings is taken for a success; AUTONOMOUS.md says that failures go to the debugger |
| `stale_decision` | of two accepted approvals of gate 1 the second is applied to gate 2: `gate_id` is compared in the request and not passed on |
| `early_complete` | a refused decision, a clarification without comments or a duplicate approval, is answered with `swarm_complete` while the run waits or is at work |
| `two_engines` | with Redis, two tasks load the same pending gate, both pass the check, and two engines work on one run |
| `lenient_gates` | a gate that fails escalates the answer in a lenient swarm, too; the description of `quality_gate_strict` says that "findings are logged but execution continues" |
| `invoke_raises` | an error without a text makes `invoke` raise instead of returning an escalation |

### Fairness

`Concludes`, `TurnEnds`, `AllEnd` and `StreamsEnd` assume weak fairness of the steps
the event loop takes by itself: an engine that can move, a background task, a generator whose
queue has an event. A platform call ends because the HTTP clients have a timeout and retries are
bounded. The executor has no timeout, so that a command ends is an assumption. Nobody has to
decide, submit, connect or lose anything: `Concludes` says what follows *if* the user decides
whenever asked (`WF_vars(Decide)` is its premise, not part of the specification), and
`StreamsEnd` exempts a run that waits, one whose analysis raised, one that was lost, and a stream whose
queue another reader or the timer has given up.
`SequentialRun` and `ContextSlice` have no fairness and no liveness property.

`CHECK_DEADLOCK FALSE` is in every configuration because every one of these systems may stop: a
run ends, a call returns, a server has nothing to do.

## The proofs

All of them are machine-checked, for every value of the constants that the named assumptions admit
(sizes and bounds are naturals, `MaxParallel` is positive, role maps map roles to
naturals). Each follows one line: a strengthening `IInv` holds initially, each action
keeps it (one lemma per action), and it implies the property; PTL combines the three.

**AutonomousRunProofs** (`TypeCorrect`, `ReleasesAreSigned`, `WorkNeedsAuthority`,
`ReleasesAreReviewed`, `PausesAreSaved`). None of the properties is inductive, because they are
about the end of a run or its moments of work, while gates are settled long before. `IInv`
therefore says of a state in *any* phase what that phase needs (`Sound`): past CLARIFY the requirements
are locked or being locked, past DESIGN the design is, in FINALIZE the release is and the last
result is a clean review; a pending gate is the one the next phase needs; a seen gate was
decided as the approval mode asks. It says so of memory and store alike, since a lost engine
goes back to the store, and `Ownership` ties the two: without an engine they agree, and only then
is a gate open. The lemmas about `Continue` and pauses reduce every action to one question: is the state it
goes on with sound? The only recurring subtlety is rework: the phases that `Rework` and
`EscalatePhase` go back to need no gate that the phases they come from did not.

**AutonomousRunHistoryProofs** (`GatesAreNumbered`, `SavesAreKept`, `EngineImplementsGatedRun`).
`HInv` adds to `IInv` that gates are numbered in memory and store, and how far memory is ahead of
the store: by one result and one gate the engine has settled itself at most. Every action is then
one of four kinds, seen from the store: it leaves it alone (`Quiet`), it saves what memory was
ahead by (`Saves`), it saves that and asks (`Asks`), or it decides (`Answers`). The three theorems
are about these kinds and not about actions any more; the refinement maps each kind to a step of
`GatedRun` or to a stutter, and takes from `Sound` that a saved DONE has settled its gates.

**AutonomousRunPathProofs** (`DoneIsComplete`, `ResultsAreRouted`, `ReleasesAreVerified`,
`CallsAreBounded`, `MissingRoleStopsEarly`, `RunsAreFinite`). The first four are about the way
through the phases, detours included. `PInv` says of memory and store that the steps before the
present phase are done (`Walked`), that results follow one another as routed, from the first phase of the
plan on (`Routed`), and the next call is the one the last result routes to (`Arrived`), that past
VERIFY the last verification was green and only reviews followed (`Verified`), and that the calls made, with those still due on
the straight way from here, are covered by the plan and the retries counted so far, which are
within their limits (`Budgeted`). The last one is what makes the bound inductive: a step on pays a
call that was due, and a step back counts a retry for all the calls it makes due again. While the
executor works the newest result is not yet judged (`Recording`). Actions are again of a few
kinds: the same place, a step on, a step back, the start and the end of the plan.

`ResultsAreRouted` leaves open where a verification goes whose status is `failed`: AUTONOMOUS.md says
one thing and the code does another (`failed_verification`).

`MissingRoleStopsEarly` needs what the others do not, which role maps there are. `RInv` adds that
whoever gave a result or is at work is in the role map, and that a run that stopped for a role was led by its
last result to a phase that asks for it (`Led`, `Unstaffed`). The lemmas about `RoleDiscovery` show
that in every map that is discovered, whatever the detectors report and the agent files say,
implementer and debugger come only together with QA engineer and reviewer (`Covering`), and a role that is
missing has no retries, so that nobody is sent back to it. Whoever called the implementer or the debugger
therefore misses nobody afterwards but an architect, whom a run asks before there is any result.
What is left are the first steps of each plan: a result of the architect, or in
test generation one of the QA engineer, and then the end. That one result may have changed the
repository: the executor applies the QA engineer's diffs before the reviewer is missed.

**ApprovalApiProofs** (`TypeCorrect`, `OneEngineAtATime`, `GatesDecidedOnce`, `NoKeyLeftBehind`,
`GatesWait`, `ServerImplementsGatedRun`, `StoresAgree`, `StreamsAreAwaited`). `Sound` says of the saved run and of the copy in each task
that its decisions are of gates 1, 2, ... in order, a rejection only last, and its status fits; with the
file store a running task's copy *is* the saved run, which is in progress, so that there cannot be
two (`FileStore`); before the start there is nothing (`NotStarted`), and a task that has not been
queued, or is finished, holds nothing (`TaskStates`). With Redis copies may be stale, two
tasks may decide one gate and a rejection may be overwritten (`two_engines`); `OneEngine`,
`DecidedOnce`, `WaitingGateKept` and the refinement are therefore stated for the file store only.
`GatesDecidedOnce` is about saves, not about the history that is left in the end: each one
keeps the decisions that are there, and adds one only to the gate that the saved run waits at.

**AgentTurnProofs** (`TypeCorrect`, `ReasonsAreGiven`, `RunsAreVetted`, `GreenIsEarned`,
`EvaluatorIsPython`, `GatesAreMeant`, `TurnsAreShort`). The invariant follows a turn from place to
place: what an answer looks like (`Shape`), what is known of result and commands at each place
(`Place`), and what has been run so far of which list (`Executing`).

`EvaluatorIsPython` is about one expression, of any size. Its nodes are taken in order: at each the
code's outcome is good for Python's (equal, or for a `BoolOp` equally true) if those of its
children are. The loop of `visit_BoolOp`, which stops at the operand that decides, and Python's choice of
an operand are related by the first operand that settles either. That functions defined by
recursion have the values they should is shown by induction over a set of naturals, since the
library's induction theorem takes an operator. `GatesAreMeant` carries this to the turn: an answer
is escalated for its gates (`Judged`) when some outcome is not true: whenever the turn is strict, and
never if Python calls them all true. (In a lenient turn the code escalates as well, which is against its
documents: `lenient_gates`.) It has two hypotheses: `Passes`
is `SafeEvalGate`, and the gates are expressions whose and/or are used for their truth only
(a gate that compares the value of an `or` is where the code differs, see the observations). TLC
checks that the gates of the run are such expressions.

**SequentialRunProofs** (`TypeCorrect`, `ChainsAreWhole`, `CheckpointsLead`). The checkpoint is
of an earlier call, or torn, or lost, or equals the results, or is one answer ahead (`Checkpoint`), and
the files of this call are its results and perhaps a torn one of the answer (`Files`). After a failure
nobody knows which of these it is, so the invariant keeps the disjunction until the next call settles it.
`CheckpointsLead` speaks of a checkpoint that a resumption would find (`Found`): the end of the
process, a torn file or the expiry in Redis takes the checkpoint as a whole while the files stay, and
then nothing can be resumed; what cannot happen is a checkpoint that is found and knows less than the files.

**ParallelRunProofs** (`TypeCorrect`, `CallsAreThrottled`, `ResultsComeInOrder`,
`ContradictionsEscalate`, `CallsAreShort`). The permits at the semaphore and the tasks at the platform add up to
`max_parallel_agents`, raised tasks included. Files appear only once all have returned, and `WrittenInOrder`
ties each to the number of results written: the file of a role is the latest of that role so far, and
a torn one is that of the next result, on which the call ended.

**ContextSliceProofs** (`TypeCorrect`, `BudgetKept`, `TruncatedOnce`, `SelectionIsMaximal`,
`GoodFilesTaken`). A truncated file takes all that remains, so `used` equals what is available ever
after and can only be left so by files that cost nothing; what did not fit never fits again, since
`used` only grows.

**Why things end.** Liveness under fairness is out of the prover's reach; what can be proved of it
is that nothing goes round for ever. `RunsAreFinite`, `TurnsAreShort` and `CallsAreShort` each give
a number, bound it by the constants (57 and 24 for each retry of a run; `MaxRetries + MaxSuggested + 5`
for a turn; `3 * MaxTasks + 2` for a parallel call), and show that every step lowers it: a step
of the engine, the loss of it, a decision of the user, whatever agents and commands do. The
retries of the engine are where this could fail, since debugger and implementer send a run back into each other's
loop; each return costs two phases at most and uses up a retry, which is worth three.
The server may be asked for ever; there `StreamsAreAwaited` says that no queue is left with nobody to end
it: `swarm_complete` is in it, or a task is under way that says more, or the run waits for its user, has
lapsed or could not be started. What remains for TLC is that the steps are taken.

Only model-checked, therefore: the four properties under fairness, `Concludes`, `StreamsEnd`,
`TurnEnds` and `AllEnd`. Every safety property and every action property that a passing run checks is
the subject of a theorem.

## Not modelled

- Text: prompts, summaries, regular expressions, scoring signals, message formats of the platforms.
  Which command is blocked, which description selects which flow and how a file scores are free
  choices.
- The detectors of the repository analyzer: each looks for markers in a file tree. What they may
  report is modelled, all of it.
- In gate expressions: the parser, the order of strings, the search of a part in a string, methods
  of values.
- `/swarm/status` and `/health`, which only read; the delete operations of the stores, which nothing
  but their tests calls; the command line but for its decision loop, which parses, prints and
  writes files; the prompt guard, a pattern match over one text; the dashboard, which `ApprovalApi`'s
  clients stand for.

## Observations

Met while modelling, and modelled as the code does it. No violation run is about them: the
repository is silent on most, and for the others a single line of the code shows what a run would.

The engine and its agents:

- The executor applies the diffs and runs the commands of a result before the loop looks at its
  status (`orchestrator.py:940-955`): an escalated one, too. In strict mode a blocked first
  command leaves an empty list, and the phase's default commands run in its place. A comment
  calls `suggested_commands` "never auto-executed" (`schemas.py:280`).
- In a gate `a or b` is a bool, in Python the operand: `(result.escalation_reason or '') == ''` never
  holds. Negative literals are refused, as the whitelist has no `USub`.
- When git or the program of a command is missing, the executor raises and the engine is lost with
  the run `in_progress`, which no resume accepts (`orchestrator.py:1099`); AUTONOMOUS.md says of
  the executor that it can "feed execution failures back into the autonomous loop".
- The feature flow asks for an architect, whom `_determine_roles` recommends only to repositories
  with an API, migrations or several languages (`repo_analyzer.py:205`), as its docstring says. For the others
  a feature run escalates in its design phase, after the requirements were locked, with the reason "Required role
  'architect' is not available in config." (`orchestrator.py:889`). A test-generation run of a repository
  with test frameworks only stops so for its reviewer, when the executor may have applied the
  QA engineer's diffs. Custom roles are recommended, and no phase asks for them; their
  specifications are not looked up, so that a local file does not override them.

Chains:

- `resume_swarm` takes of the saved context the description and the metadata: the first resumed
  agent is handed no output of those before it, and its checkpoint overwrites the saved ones (369).
- `_write_result` names a file after its role: of two results of one role the later one is kept.
- A parallel call whose write fails, or whose process ends, leaves the results of its first tasks, the last
  file perhaps torn, and nothing that says so; a strict conflict raises with all the results on disk.
- A checkpoint in Redis lapses a day after its last save (`redis_store.py:73`), one in memory is gone with the
  process; the result files of its chain stay.
- `_detect_conflicts` reports one agent that gives one file two severities as a conflict (440-453).
- Without named roles `execute_swarm_inner` runs the discovered ones in their order, in which the
  implementer comes before the architect. `cmd_run` prints "Stopping" at the first escalation also
  of a lenient chain, which has gone on.

Stores and server:

- With the memory store every call gets a new store (`persistence.py:145`): no run can be resumed, and
  `cmd_auto` cannot pass a gate.
- A run that has vanished, or lapsed, leaves the key of the approval that asked for it; after a
  restart a key has no timer. `analyze` runs outside the `try` of the background task
  (`main.py:283`): when it raises, nobody is told.
- Any reader who leaves removes the queue of all (`main.py:366`).
- A docstring gives `.agent-swarm/state` as the default directory, the code `.swarm/state`.
- A previewed file longer than 8192 bytes is handed over cut to its preview and charged by its
  size (`context_optimizer.py:182-189`).

Analyzer: CODEOWNERS is announced and never read; the debugger is recommended with source code,
not with "existing tests"; REST frameworks are detected by paths at the root.

## Plan

Done: all that was planned. What could still be added, in this order:

1. `ApprovalApi` with every save to Redis as a suspension of its own.
2. The scoring of files: the two passes as operators over the signals, in front of `ContextSlice`.
3. The detectors of the analyzer over abstract file trees.
4. A fault model for the executor: a limit in time, which the code does not have yet, and a resume of
   a run that was lost at work, which `docs/future-scope-agentic-flow.md` plans.
