------------------------------- MODULE AgentTurn -------------------------------
(***************************************************************************)
(* One turn of an agent, as _invoke_agent and the autonomous loop take it: *)
(* BaseAgentDriver.invoke calls the platform, with retries, and applies    *)
(* the quality gates; _apply_security_filter strips the commands of the    *)
(* answer; AutonomousExecutor.execute, when the run executes, applies the  *)
(* diffs and runs the commands.  AutonomousRun sees of all this a verdict  *)
(* and an executor outcome; here is what they stand for.                   *)
(***************************************************************************)
EXTENDS Naturals, FiniteSets, SequencesExt, PlatformDrivers

CONSTANTS
  MaxRetries,     \* spec.escalation.max_retries
  Commands,       \* commands an agent may suggest, or a phase run by default
  Blocked,        \* those that match a pattern of BLOCKLISTED_COMMANDS
  Allowlisted,    \* those that start with a prefix of _ALLOWED_COMMAND_PREFIXES
  MaxSuggested,   \* bound on the number of commands an agent suggests
  Platform,       \* config.platform
  UseVertex,      \* the driver option use_vertex
  Gates,          \* the lists of gate expressions that an agent may have
  Passes(_, _)    \* does an expression pass on an answer?

ASSUME TurnAssumption ==
  /\ MaxRetries \in Nat /\ MaxSuggested \in Nat
  /\ Blocked \subseteq Commands /\ Allowlisted \subseteq Commands
  /\ Platform \in Platforms /\ UseVertex \in BOOLEAN
  /\ DOMAIN Gates \subseteq Nat

VARIABLES
  at,         \* where the turn is
  mode,       \* the agent's gates, quality_gate_strict, execute, the phase's default
              \* commands, and whether there is an API key
  attempts,   \* calls made to the platform
  answer,     \* what the agent answered
  result,     \* the StructuredResult as the turn has it now
  tree,       \* the working tree of the repository
  ran,        \* command_results: commands the executor ran, with what came of them
  outcome     \* status of the ExecutorOutcome

vars == <<at, mode, attempts, answer, result, tree, ran, outcome>>

Modes == [strict : BOOLEAN, execute : BOOLEAN, key : BOOLEAN, gates : DOMAIN Gates,
          defaults : {<<>>} \cup {<<c>> : c \in Allowlisted \ Blocked}]

\* diffs: none, only diffs with a blank text, or a patch to apply.
Answers == [status   : {"done", "failed", "escalated"},
            diffs    : {"none", "blank", "patch"},
            commands : BoundedSeq(Commands, MaxSuggested)]

\* Why a result is escalated: it is not, the agent says so, a gate failed, a
\* command is blocked, or the driver gave up on the platform.
Reasons == {"none", "agent", "gate", "security", "rate_limit", "error"}

Results == [status : {"done", "failed", "escalated"}, diffs : {"none", "blank", "patch"},
            commands : BoundedSeq(Commands, MaxSuggested), reason : Reasons]

NoAnswer == [status |-> "done", diffs |-> "none", commands |-> <<>>]

Init ==
  /\ at = "calling"
  /\ mode \in Modes
  /\ attempts = 0
  /\ answer = NoAnswer
  /\ result = [status |-> "done", diffs |-> "none", commands |-> <<>>, reason |-> "none"]
  /\ tree = "untouched"
  /\ ran = <<>>
  /\ outcome = "none"

--------------------------------------------------------------------------------
(* invoke                                                                  *)

HasDriver == DriverBuilds(Platform, mode.key, UseVertex)

\* The driver cannot be built: the exception leaves the caller's loop.
NoDriver ==
  /\ at = "calling"
  /\ ~HasDriver
  /\ at' = "driver_raised"
  /\ UNCHANGED <<mode, attempts, answer, result, tree, ran, outcome>>

Replied(reply, outcomes) == Outcome(Platform, reply) \in outcomes

\* One more call of the platform.
Call ==
  /\ at = "calling"
  /\ HasDriver
  /\ attempts' = attempts + 1

\* The result invoke builds when it gives up.
GiveUp(reason) ==
  /\ result' = [status |-> "escalated", diffs |-> "none", commands |-> <<>>, reason |-> reason]
  /\ at' = "answered"

RetriesLeft == attempts < MaxRetries

\* A rate limit is retried while max_retries allows.
RateLimited ==
  /\ Call
  /\ \E reply \in Replies : Replied(reply, {"rate_limit"})
  /\ \/ RetriesLeft /\ UNCHANGED <<at, result>>
     \/ ~RetriesLeft /\ GiveUp("rate_limit")
  /\ UNCHANGED <<mode, answer, tree, ran, outcome>>

\* Any other failure is final: an error of the platform, or a reply that holds no
\* StructuredResult.
CallFails ==
  /\ Call
  /\ \E reply \in Replies : Replied(reply, {"driver_error", "malformed", "unexpected"})
  /\ GiveUp("error")
  /\ UNCHANGED <<mode, answer, tree, ran, outcome>>

\* A call without a reply fails as well; a failure without a text (a timeout of the
\* HTTP client may have none) leaves escalation_reason empty, and StructuredResult
\* refuses to be escalated so.
CallFailsSilently ==
  /\ Call
  /\ at' = "invoke_raised"
  /\ UNCHANGED <<mode, answer, result, tree, ran, outcome>>

\* The first gate that fails settles it, none comes after it.
GatesPass(a) == \A i \in DOMAIN Gates[mode.gates] : Passes(Gates[mode.gates][i], a)

\* Mutation: a gate that fails is logged only.
GatedLenient(a) ==
  [status |-> IF GatesPass(a) THEN a.status ELSE "escalated", diffs |-> a.diffs,
   commands |-> a.commands, reason |-> IF a.status = "escalated" THEN "agent" ELSE "none"]

\* _enforce_quality_gates: a gate that fails, strict or not, escalates.
Gated(a) ==
  [status   |-> IF GatesPass(a) THEN a.status ELSE "escalated",
   diffs    |-> a.diffs,
   commands |-> a.commands,
   reason   |-> CASE ~GatesPass(a) -> "gate"
                  [] GatesPass(a) /\ a.status = "escalated" -> "agent"
                  [] OTHER -> "none"]

CallAnswers ==
  /\ Call
  /\ \E reply \in Replies : Replied(reply, {"result"})
  /\ answer' \in Answers
  /\ result' = Gated(answer')
  /\ at' = "answered"
  /\ UNCHANGED <<mode, tree, ran, outcome>>

--------------------------------------------------------------------------------
(* _apply_security_filter                                                  *)

IsSafe(command) == command \notin Blocked

\* Where the blocked commands are.
BlockedAt(commands) == {k \in 1..Len(commands) : ~IsSafe(commands[k])}

\* What the loop has kept of the first k commands.
KeptOf(commands) ==
  LET kept[k \in 0..Len(commands)] ==
        IF k = 0 THEN <<>>
        ELSE IF IsSafe(commands[k]) THEN Append(kept[k - 1], commands[k])
        ELSE kept[k - 1]
  IN  kept

SafeOf(commands) == KeptOf(commands)[Len(commands)]

\* Mutation: the loop goes on behind the blocked command.
FilteredThroughout(r) ==
  IF mode.strict /\ BlockedAt(r.commands) # {}
  THEN [r EXCEPT !.status = "escalated", !.reason = "security",
                 !.commands = SafeOf(@)]
  ELSE [r EXCEPT !.commands = SafeOf(@)]

\* A blocked command is dropped; in strict mode it also escalates the result
\* and hides the commands behind it.
Filtered(r) ==
  IF mode.strict /\ BlockedAt(r.commands) # {}
  THEN [r EXCEPT !.status = "escalated", !.reason = "security",
                 !.commands = SubSeq(@, 1, Min(BlockedAt(r.commands)) - 1)]
  ELSE [r EXCEPT !.commands = SafeOf(@)]

\* What comes next is up to the loop: the executor, or nothing.
SecurityFilter ==
  /\ at = "answered"
  /\ result' = Filtered(result)
  /\ at' = IF mode.execute THEN "applying" ELSE "over"
  /\ UNCHANGED <<mode, attempts, answer, tree, ran, outcome>>

--------------------------------------------------------------------------------
(* execute: _apply_diffs, then the commands one by one.                    *)

NothingToApply ==
  /\ at = "applying"
  /\ result.diffs \in {"none", "blank"}
  /\ at' = "running"
  /\ UNCHANGED <<mode, attempts, answer, result, tree, ran, outcome>>

PatchApplies ==
  /\ at = "applying"
  /\ result.diffs = "patch"
  /\ tree' = "patched"
  /\ at' = "running"
  /\ UNCHANGED <<mode, attempts, answer, result, ran, outcome>>

\* Mutation: a status the loop does not look for.
PatchFailsAsFailed ==
  /\ at = "applying"
  /\ result.diffs = "patch"
  /\ tree' \in {"untouched", "partial"}
  /\ outcome' = "failed"
  /\ at' = "over"
  /\ UNCHANGED <<mode, attempts, answer, result, ran>>

\* git apply --reject fails, and keeps the hunks that fit.
PatchFails ==
  /\ at = "applying"
  /\ result.diffs = "patch"
  /\ tree' \in {"untouched", "partial"}
  /\ outcome' = "escalated"
  /\ at' = "over"
  /\ UNCHANGED <<mode, attempts, answer, result, ran>>

\* The suggested commands, or the phase's own if the filter left none.
ToRun == IF result.commands # <<>> THEN result.commands ELSE mode.defaults

Current == ToRun[Len(ran) + 1]

AtCommand == at = "running" /\ Len(ran) < Len(ToRun)

Runnable(command) == command \notin Blocked /\ command \in Allowlisted

\* Mutation: the loop stays at the refused command.
CommandRefusedStays ==
  /\ AtCommand
  /\ ~Runnable(Current)
  /\ outcome' = "escalated"
  /\ UNCHANGED <<at, mode, attempts, answer, result, tree, ran>>

CommandRefused ==
  /\ AtCommand
  /\ ~Runnable(Current)
  /\ outcome' = "escalated"
  /\ at' = "over"
  /\ UNCHANGED <<mode, attempts, answer, result, tree, ran>>

CommandSucceeds ==
  /\ AtCommand
  /\ Runnable(Current)
  /\ ran' = Append(ran, [command |-> Current, passed |-> TRUE])
  /\ UNCHANGED <<at, mode, attempts, answer, result, tree, outcome>>

\* Mutation: the next command is run all the same.
CommandFailsUnnoticed ==
  /\ AtCommand
  /\ Runnable(Current)
  /\ ran' = Append(ran, [command |-> Current, passed |-> FALSE])
  /\ UNCHANGED <<at, mode, attempts, answer, result, tree, outcome>>

CommandFails ==
  /\ AtCommand
  /\ Runnable(Current)
  /\ ran' = Append(ran, [command |-> Current, passed |-> FALSE])
  /\ outcome' = "escalated"
  /\ at' = "over"
  /\ UNCHANGED <<mode, attempts, answer, result, tree>>

\* git, or the program of a command, cannot be started.
ExecutorRaises ==
  /\ \/ at = "applying" /\ result.diffs = "patch"
     \/ AtCommand /\ Runnable(Current)
  /\ at' = "executor_raised"
  /\ UNCHANGED <<mode, attempts, answer, result, tree, ran, outcome>>

ExecutorDone ==
  /\ at = "running"
  /\ Len(ran) = Len(ToRun)
  /\ outcome' = "done"
  /\ at' = "over"
  /\ UNCHANGED <<mode, attempts, answer, result, tree, ran>>

--------------------------------------------------------------------------------
Next ==
  \/ NoDriver \/ RateLimited \/ CallFails \/ CallFailsSilently \/ CallAnswers
  \/ SecurityFilter
  \/ NothingToApply \/ PatchApplies \/ PatchFails
  \/ CommandRefused \/ CommandSucceeds \/ CommandFails \/ ExecutorRaises \/ ExecutorDone

Spec == Init /\ [][Next]_vars

(* The event loop runs the turn on; a call of the platform ends, because   *)
(* the HTTP client has a timeout; a command is assumed to end.             *)
FairSpec == Spec /\ WF_vars(Next)

--------------------------------------------------------------------------------
(* What a turn promises.                                                   *)

\* Every variable keeps its type: attempts stay in bounds, no list of commands grows.
TypeOK ==
  /\ at \in {"calling", "answered", "applying", "running", "over",
             "driver_raised", "invoke_raised", "executor_raised"}
  /\ mode \in Modes
  /\ attempts \in 0..(MaxRetries + 1)
  /\ answer \in Answers
  /\ result \in Results
  /\ tree \in {"untouched", "patched", "partial"}
  /\ ran \in Seq([command : Commands, passed : BOOLEAN])
  /\ outcome \in {"none", "done", "escalated"}

\* Whoever escalates, the agent, a gate or the filter, leaves a reason, though
\* the validator of StructuredResult, which asks for one, does not see what gates
\* and filter assign; and a strict turn with a blocked command ends escalated for
\* it, whatever the agent and the gates said before.  A turn that blames the rate
\* limit has called the platform max_retries + 1 times.
EscalationsExplained ==
  at \in {"applying", "running", "over"} =>
    /\ result.status = "escalated" => result.reason # "none"
    /\ mode.strict /\ ToSet(answer.commands) \cap Blocked # {}
         => result.status = "escalated" /\ result.reason = "security"
    /\ result.reason = "rate_limit" => attempts = MaxRetries + 1

Suggested(k) == {answer.commands[i] : i \in 1..k}

\* Whatever the executor runs is allowlisted and not blocked, and was suggested or is
\* a default of the phase; in strict mode it comes from the part of the answer before
\* the first blocked command, or is a default of the phase.
OnlyVettedRuns ==
  \A i \in 1..Len(ran) :
    /\ ran[i].command \in Allowlisted \ Blocked
    /\ ran[i].command \in Suggested(Len(answer.commands)) \cup ToSet(mode.defaults)
    /\ mode.strict =>
         \A k \in 1..Len(answer.commands) :
           answer.commands[k] \in Blocked =>
             ran[i].command \in Suggested(k - 1) \cup ToSet(mode.defaults)

\* No command verifies a tree that the patch reached only in part, or not at all; a
\* green outcome means that the patch is in, and that every command there was to run
\* ran and passed; nothing runs after a command that failed.
GreenIsGreen ==
  /\ ran # <<>> => tree = IF result.diffs = "patch" THEN "patched" ELSE "untouched"
  /\ outcome = "done" =>
       /\ result.diffs = "patch" => tree = "patched"
       /\ Len(ran) = Len(ToRun)
       /\ \A i \in 1..Len(ran) : ran[i].passed
  /\ \A i \in 1..Len(ran) : ~ran[i].passed => i = Len(ran) /\ outcome = "escalated"

\* Every turn comes to an end, whatever platform, git and commands do.
TurnEnds == <>(at \in {"over", "driver_raised", "invoke_raised", "executor_raised"})

\* BaseAgentDriver.invoke: "Returns a validated StructuredResult", and after a
\* failure "return an escalation result".
InvokeReturns == at # "invoke_raised"
================================================================================
