----------------------------- MODULE SequentialRun -----------------------------
(***************************************************************************)
(* run_sequential and resume_swarm: a chain of agents under one task id,   *)
(* one after the other, each handed the outputs of those before it.        *)
(*                                                                         *)
(* What a call leaves behind it leaves in two places, in separate steps:   *)
(* the checkpoint, which is the context of the agent invoked last, saved   *)
(* before its invocation and again with its output, and one file per role  *)
(* in the output directory.  A call can fail between any two of them, or   *)
(* in the middle of one, and the next one, under the same task id, goes    *)
(* over both.  Whether it finds a checkpoint depends on the store: one in  *)
(* memory is gone with its call, one in Redis lapses.                      *)
(***************************************************************************)
EXTENDS Naturals, SequencesExt, StateStore

CONSTANTS
  Roles,      \* roles of the agents
  MaxChain,   \* bound on the length of a chain
  MaxCalls    \* bound on the number of calls, the first and its resumptions

ASSUME ChainAssumption == MaxChain \in Nat /\ MaxCalls \in Nat \ {0}

VARIABLES
  kind,        \* the state store of the configuration
  at,          \* "idle" between calls, else where the call is
  call,        \* number of the call
  strict,      \* quality_gate_strict of the call
  chain,       \* roles of the agents of the call
  results,     \* its results so far, as returned and as handed on
  answer,      \* the result the agent at work has returned
  checkpoint,  \* previous_outputs of the saved context, NoContext or TornContext
  published,   \* role -> result in <role>.json, a TornResult or NoResult
  ended        \* how the last call ended

vars == <<kind, at, call, strict, chain, results, answer, checkpoint, published, ended>>

Statuses  == {"done", "failed", "escalated"}
Results   == [role : Roles, status : Statuses, call : 1..MaxCalls]
NoResult  == [role |-> "none", status |-> "none", call |-> 0]
NoContext == <<NoResult>>

\* The file of the answer was being written when the call failed.
TornResults == [role : Roles, status : {"torn"}, call : 1..MaxCalls]

\* The checkpoint was being saved when the call failed.
TornContext == <<[NoResult EXCEPT !.status = "torn"]>>

Init ==
  /\ kind \in Kinds
  /\ at = "idle"
  /\ call = 0
  /\ strict \in BOOLEAN
  /\ chain = <<>>
  /\ results = <<>>
  /\ answer = NoResult
  /\ checkpoint = NoContext
  /\ published = [r \in Roles |-> NoResult]
  /\ ended = "none"

--------------------------------------------------------------------------------
(* The calls.                                                              *)

Begin ==
  /\ at = "idle"
  /\ call < MaxCalls
  /\ call' = call + 1
  /\ chain' \in BoundedSeq(Roles, MaxChain)
  /\ at' = "working"
  /\ ended' = "none"
  /\ UNCHANGED <<kind, answer, checkpoint, published>>

RunSequential ==
  /\ call = 0
  /\ Begin
  /\ results' = <<>>
  /\ UNCHANGED strict

\* resume_swarm makes a store of its own and loads the context from it.
Found == FoundAnew(kind, checkpoint, NoContext) \notin {NoContext, TornContext}

\* Mutation: the chain goes on behind the results of the call before.
ResumeSwarmBehind ==
  /\ Found
  /\ Begin
  /\ chain' # <<>>
  /\ strict' \in BOOLEAN
  /\ UNCHANGED results

\* A saved context and a chain are asked for.  Of the context the call takes the
\* description and the metadata, not the outputs.
ResumeSwarm ==
  /\ Found
  /\ Begin
  /\ chain' # <<>>
  /\ strict' \in BOOLEAN
  /\ results' = <<>>

--------------------------------------------------------------------------------
(* An agent's turn.                                                        *)

\* _invoke_agent, up to the call of the driver: the context is saved.
Invoke ==
  /\ at = "working"
  /\ Len(results) < Len(chain)
  /\ checkpoint' = results
  /\ at' = "invoked"
  /\ UNCHANGED <<kind, call, strict, chain, results, answer, published, ended>>

AnswerOf(status) == [role |-> chain[Len(results) + 1], status |-> status, call |-> call]

\* Mutation: the context is not saved again.
AnswersUnsaved ==
  /\ at = "invoked"
  /\ \E status \in Statuses : answer' = AnswerOf(status)
  /\ at' = "answered"
  /\ UNCHANGED <<kind, call, strict, chain, results, checkpoint, published, ended>>

\* The driver returns: the context is saved again, with the output.
Answers ==
  /\ at = "invoked"
  /\ \E status \in Statuses : answer' = AnswerOf(status)
  /\ checkpoint' = Append(results, answer')
  /\ at' = "answered"
  /\ UNCHANGED <<kind, call, strict, chain, results, published, ended>>

\* Mutation: a failed agent stops the chain instead of an escalated one.
HaltsOnFailure == answer.status = "failed" /\ strict

Halts == answer.status = "escalated" /\ strict

\* The result is kept, written and handed on; a strict chain halts.
Record ==
  /\ at = "answered"
  /\ results' = Append(results, answer)
  /\ published' = [published EXCEPT ![answer.role] = answer]
  /\ \/ Halts /\ at' = "idle" /\ ended' = "returned"
     \/ ~Halts /\ at' = "working" /\ UNCHANGED ended
  /\ UNCHANGED <<kind, call, strict, chain, answer, checkpoint>>

\* The chain is done.
Return ==
  /\ at = "working"
  /\ Len(results) = Len(chain)
  /\ at' = "idle"
  /\ ended' = "returned"
  /\ UNCHANGED <<kind, call, strict, chain, results, answer, checkpoint, published>>

Saving == at = "invoked" \/ (at = "working" /\ Len(results) < Len(chain))

TornAnswer == [answer EXCEPT !.status = "torn"]

\* What there is in the output directory when the call is cut off: _write_result
\* truncates as well.
LeftOnDisk ==
  {published} \cup
    (IF at = "answered" THEN {[published EXCEPT ![answer.role] = TornAnswer]} ELSE {})

\* An exception of a save, a driver or a write.
Fail ==
  /\ at # "idle"
  /\ at' = "idle"
  /\ ended' = "failed"
  /\ checkpoint' \in CutOff(kind, checkpoint, Saving, TornContext)
  /\ published' \in LeftOnDisk
  /\ UNCHANGED <<kind, call, strict, chain, results, answer>>

\* The end of the process.
Die ==
  /\ at # "idle"
  /\ at' = "idle"
  /\ ended' = "failed"
  /\ checkpoint' \in AfterCrash(kind, checkpoint, Saving, TornContext, NoContext)
  /\ published' \in LeftOnDisk
  /\ UNCHANGED <<kind, call, strict, chain, results, answer>>

\* A checkpoint in Redis lapses, the files stay.
Lapse ==
  /\ MayLapse(kind)
  /\ checkpoint # NoContext
  /\ checkpoint' = NoContext
  /\ UNCHANGED <<kind, at, call, strict, chain, results, answer, published, ended>>

--------------------------------------------------------------------------------
Next ==
  \/ RunSequential \/ ResumeSwarm
  \/ Invoke \/ Answers \/ Record \/ Return
  \/ Fail \/ Die \/ Lapse

Spec == Init /\ [][Next]_vars

--------------------------------------------------------------------------------
(* What a chain promises.                                                  *)

\* Every variable keeps its type: no call has more results than agents.
TypeOK ==
  /\ kind \in Kinds
  /\ at \in {"idle", "working", "invoked", "answered"}
  /\ call \in 0..MaxCalls
  /\ strict \in BOOLEAN
  /\ chain \in Seq(Roles)
  /\ results \in Seq(Results) /\ Len(results) <= Len(chain)
  /\ answer \in Results \cup {NoResult}
  /\ checkpoint \in Seq(Results) \cup {NoContext, TornContext}
  /\ published \in [Roles -> Results \cup TornResults \cup {NoResult}]
  /\ ended \in {"none", "returned", "failed"}

\* A call returns the results of its whole chain, in order, or, if it is strict,
\* of the part of it that ends with the first escalation: nobody works on what an
\* agent escalated.
WholeOrHalted ==
  /\ \A i \in 1..Len(results) : results[i].role = chain[i] /\ results[i].call = call
  /\ strict => \A i \in 1..Len(results) : results[i].status = "escalated" => i = Len(results)
  /\ ended = "returned" =>
       \/ Len(results) = Len(chain)
       \/ strict /\ results # <<>> /\ Last(results).status = "escalated"

\* Wherever a call fails or dies: a context that a resumption finds in the store knows
\* all the files that the call has written.  Each is an output of the context, except
\* that the file of the last output may have been cut off, and no output but the last is
\* without its file.  What may be lost is the context as a whole: in memory with its
\* call, in a file when its save is cut off, in Redis when it lapses.
CheckpointAhead ==
  Found /\ call > 0 =>
    \A r \in Roles :
      /\ published[r].call = call =>
           IF published[r].status = "torn"
           THEN checkpoint # <<>> /\ Last(checkpoint).role = r
           ELSE \E i \in 1..Len(checkpoint) : checkpoint[i] = published[r]
      /\ \A i \in 1..(Len(checkpoint) - 1) :
           checkpoint[i].role = r /\ checkpoint[i].call = call => published[r].call = call
================================================================================
