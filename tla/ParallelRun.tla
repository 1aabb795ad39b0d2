------------------------------ MODULE ParallelRun ------------------------------
(***************************************************************************)
(* run_parallel: one invocation per agent task, gathered, with at most     *)
(* max_parallel_agents of them at the platform at a time; then the results *)
(* are written, one file after the other, and compared.                    *)
(*                                                                         *)
(* The first invocation that raises makes the gathering raise at once; the *)
(* others are not cancelled and go on behind the caller's back.  A write   *)
(* may raise as well, and the process may end at any point.                *)
(***************************************************************************)
EXTENDS Naturals, FiniteSets, SequencesExt

CONSTANTS
  MaxTasks,      \* agent tasks are 1..n for some n up to MaxTasks
  MaxParallel,   \* max_parallel_agents
  Roles,         \* roles the tasks' agents have
  Files,         \* files findings are about
  Severities     \* severities of findings

ASSUME ParallelAssumption ==
  MaxTasks \in Nat /\ MaxParallel \in Nat \ {0} /\ IsFiniteSet(Severities)

VARIABLES
  at,        \* where run_parallel is
  role,      \* the role of each task's agent, a sequence
  strict,    \* quality_gate_strict
  task,      \* the state of each task
  permits,   \* value of the semaphore
  findings,  \* the findings of the results so far: task -> set of <<file, severity>>
  count,     \* number of results written
  written    \* the output directory: role -> the task whose result is in <role>.json,
             \* and whether all of it is

vars == <<at, role, strict, task, permits, findings, count, written>>

Tasks == 1..Len(role)

File(t)     == [task |-> t, whole |-> TRUE]
TornFile(t) == [task |-> t, whole |-> FALSE]
NoFile      == [task |-> 0, whole |-> FALSE]

Init ==
  /\ at = "gathering"
  /\ role \in {r \in BoundedSeq(Roles, MaxTasks) : r # <<>>}
  /\ strict \in BOOLEAN
  /\ task = [t \in Tasks |-> "waiting"]
  /\ permits = MaxParallel
  /\ findings = [t \in Tasks |-> {}]
  /\ count = 0
  /\ written = [r \in Roles |-> NoFile]

--------------------------------------------------------------------------------
(* _invoke_one, for each task.                                             *)

\* The semaphore serves its waiters in the order in which gather started them.
Start(t) ==
  /\ task[t] = "waiting"
  /\ \A earlier \in 1..(t - 1) : task[earlier] # "waiting"
  /\ permits > 0
  /\ permits' = permits - 1
  /\ task' = [task EXCEPT ![t] = "calling"]
  /\ UNCHANGED <<at, role, strict, findings, count, written>>

Return(t) ==
  /\ task[t] = "calling"
  /\ \E found \in SUBSET (Files \X Severities) : findings' = [findings EXCEPT ![t] = found]
  /\ task' = [task EXCEPT ![t] = "returned"]
  /\ permits' = permits + 1
  /\ UNCHANGED <<at, role, strict, count, written>>

\* Mutation: an exception keeps the permit.
RaiseKeepingPermit(t) ==
  /\ task[t] = "calling"
  /\ task' = [task EXCEPT ![t] = "raised"]
  /\ at' = IF at = "gathering" THEN "raised" ELSE at
  /\ UNCHANGED <<role, strict, permits, findings, count, written>>

\* Mutation: a permit too many is given back.
RaiseTwoPermits(t) ==
  /\ task[t] = "calling"
  /\ task' = [task EXCEPT ![t] = "raised"]
  /\ permits' = permits + 2
  /\ at' = IF at = "gathering" THEN "raised" ELSE at
  /\ UNCHANGED <<role, strict, findings, count, written>>

\* The invocation raises: the driver, the context builder or the state store.
Raise(t) ==
  /\ task[t] = "calling"
  /\ task' = [task EXCEPT ![t] = "raised"]
  /\ permits' = permits + 1
  /\ at' = IF at = "gathering" THEN "raised" ELSE at
  /\ UNCHANGED <<role, strict, findings, count, written>>

--------------------------------------------------------------------------------
(* The results.                                                            *)

\* _detect_conflicts: files assessed with more than one severity.
SeveritiesOf(file) == {s \in Severities : \E t \in Tasks : <<file, s>> \in findings[t]}

\* Mutation: only the first two results are compared.
ConflictsOfTwo ==
  {file \in Files :
     Cardinality({s \in Severities :
       \E t \in Tasks : t <= 2 /\ <<file, s>> \in findings[t]}) > 1}

Conflicts == {file \in Files : Cardinality(SeveritiesOf(file)) > 1}

\* Mutation: the gathering ends when one has returned, whatever else is missing.
GatheredSome == \E t \in Tasks : task[t] = "returned"

Gathered == \A t \in Tasks : task[t] = "returned"

Gather ==
  /\ at = "gathering"
  /\ Gathered
  /\ at' = "writing"
  /\ UNCHANGED <<role, strict, task, permits, findings, count, written>>

ToWrite == at = "writing" /\ count < Len(role)

\* _write_result, for the next result: of two with one role the later file stays.
Write ==
  /\ ToWrite
  /\ count' = count + 1
  /\ written' = [written EXCEPT ![role[count + 1]] = File(count + 1)]
  /\ UNCHANGED <<at, role, strict, task, permits, findings>>

\* What is there when a write is cut off: write_text truncates a file first.
CutOff ==
  {written} \cup (IF ToWrite THEN {[written EXCEPT ![role[count + 1]] = TornFile(count + 1)]}
                  ELSE {})

\* The directory cannot be made, or the file not be written: the call raises.
WriteRaises ==
  /\ ToWrite
  /\ at' = "write_raised"
  /\ written' \in CutOff
  /\ UNCHANGED <<role, strict, task, permits, findings, count>>

\* Written first, compared then: a strict conflict raises with the results on disk.
Conclude ==
  /\ at = "writing"
  /\ count = Len(role)
  /\ at' = IF strict /\ Conflicts # {} THEN "conflict" ELSE "returned"
  /\ UNCHANGED <<role, strict, task, permits, findings, count, written>>

--------------------------------------------------------------------------------
(* The end of the process, with the call or a task it left behind at work. *)

Unended == {t \in Tasks : task[t] \in {"waiting", "calling"}}

Die ==
  /\ at \in {"gathering", "writing"} \/ Unended # {}
  /\ at' = "died"
  /\ task' = [t \in Tasks |-> IF t \in Unended THEN "lost" ELSE task[t]]
  /\ written' \in CutOff
  /\ UNCHANGED <<role, strict, permits, findings, count>>

--------------------------------------------------------------------------------
Work == Gather \/ Write \/ Conclude \/ \E t \in Tasks : Start(t) \/ Return(t) \/ Raise(t)

Next == Work \/ WriteRaises \/ Die

Spec == Init /\ [][Next]_vars

(* The event loop runs every task that can move, and an invocation ends    *)
(* (see AgentTurn).  Nothing has to fail.                                  *)
FairSpec == Spec /\ WF_vars(Work)

--------------------------------------------------------------------------------
(* What run_parallel promises.                                             *)

\* Every variable keeps its type; no task gets a permit more than there are.
TypeOK ==
  /\ at \in {"gathering", "raised", "writing", "write_raised", "returned", "conflict", "died"}
  /\ role \in Seq(Roles) /\ Len(role) <= MaxTasks
  /\ strict \in BOOLEAN
  /\ task \in [Tasks -> {"waiting", "calling", "returned", "raised", "lost"}]
  /\ permits \in 0..MaxParallel
  /\ findings \in [Tasks -> SUBSET (Files \X Severities)]
  /\ count \in 0..Len(role)
  /\ written \in [Roles -> [task : 0..Len(role), whole : BOOLEAN]]

Calling == {t \in Tasks : task[t] = "calling"}

\* No more than max_parallel_agents are at the platform, the tasks a raised call
\* left behind included.
Throttled == Cardinality(Calling) <= MaxParallel

\* The result of the task, or of a later one of its role, has got to its file.
Published(t) == written[role[t]].task >= t

\* Results are published in the order of their tasks, once every task has returned
\* one.  A call that is cut off in between leaves the results of its first tasks: of
\* its files only the latest may be incomplete, and none is of a task behind one that
\* is missing.  When the call returns, or raises a conflict, all are there and whole.
PublishedInOrder ==
  /\ \A r \in Roles : written[r] # NoFile =>
       role[written[r].task] = r /\ \A t \in Tasks : task[t] = "returned"
  /\ \A u \in Tasks : Published(u) => \A t \in 1..(u - 1) : Published(t)
  /\ \A r, q \in Roles : written[r].whole \/ written[r] = NoFile
                          \/ written[q].task <= written[r].task
  /\ at \in {"returned", "conflict"} =>
       \A t \in Tasks : Published(t) /\ written[role[t]].whole

Contradict(t, u) ==
  \E file \in Files, a, b \in Severities :
    a # b /\ <<file, a>> \in findings[t] /\ <<file, b>> \in findings[u]

\* A strict call never returns results of which two agents' contradict each other.
ContradictionsStop ==
  at = "returned" /\ strict => \A t, u \in Tasks : t # u => ~Contradict(t, u)

\* Every task comes to its end, and the call to its own, also when some raise, or a
\* write does; tasks are lost only with the process.
AllEnd ==
  <>(/\ at \notin {"gathering", "writing"}
     /\ \A t \in Tasks : task[t] \in {"returned", "raised"} \/ at = "died")
================================================================================
