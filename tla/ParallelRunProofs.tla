---------------------------- MODULE ParallelRunProofs ----------------------------
(***************************************************************************)
(* Theorems about ParallelRun, for every number of tasks, width of the     *)
(* semaphore, and set of roles, files and severities.                      *)
(***************************************************************************)
EXTENDS ParallelRun, FiniteSetTheorems, TLAPS

\* As long as the process lives, a permit is with the semaphore or with a task that is
\* calling; no task outlives the process.
Permits ==
  IF at = "died" THEN Unended = {} ELSE permits + Cardinality(Calling) = MaxParallel

\* The call gathers until every task has returned or one has raised; results are
\* written only after the former, and compared when they have been.
Progress ==
  /\ at = "gathering" => \A t \in Tasks : task[t] # "raised"
  /\ at \in {"gathering", "raised"} => count = 0 /\ \A r \in Roles : written[r] = NoFile
  /\ at \in {"writing", "write_raised", "returned", "conflict"} =>
       \A t \in Tasks : task[t] = "returned"
  /\ at \in {"returned", "conflict"} => count = Len(role)
  /\ at = "returned" /\ strict => Conflicts = {}

\* The files are those of the first results, and perhaps part of the next, whose
\* write was cut off; once there is one, every task has returned.
WrittenInOrder ==
  /\ \A t \in Tasks : t <= count => Published(t)
  /\ \A r \in Roles : written[r] # NoFile =>
       /\ \A t \in Tasks : task[t] = "returned"
       /\ written[r].task \in Tasks /\ role[written[r].task] = r
       /\ \/ written[r].whole /\ written[r].task <= count
          \/ ~written[r].whole /\ written[r].task = count + 1 /\ at \in {"write_raised", "died"}

IInv == TypeOK /\ Permits /\ Progress /\ WrittenInOrder

\* The tasks are finitely many, and so are those at the platform.
LEMMA CallingIsFinite ==
  ASSUME TypeOK
  PROVE  /\ Len(role) \in Nat /\ IsFiniteSet(Tasks)
         /\ IsFiniteSet(Calling) /\ Cardinality(Calling) \in Nat
<1>1. Len(role) \in Nat
  BY DEF TypeOK
<1>2. IsFiniteSet(Tasks)
  BY <1>1, FS_Interval DEF Tasks
<1>3. Calling \in SUBSET Tasks
  BY DEF Calling
<1>4. IsFiniteSet(Calling)
  BY <1>2, <1>3, FS_Subset
<1> QED BY <1>1, <1>2, <1>4, FS_CardinalityType

\* A run starts with all its permits.
LEMMA InitIInv == ASSUME Init PROVE IInv
<1>1. role \in Seq(Roles) /\ Len(role) <= MaxTasks
  BY ParallelAssumption DEF Init, BoundedSeq, SeqOf
<1>2. TypeOK
  BY <1>1, ParallelAssumption DEF Init, TypeOK, NoFile
<1>3. Calling = {}
  BY DEF Init, Calling
<1>4. Permits
  BY <1>3, FS_EmptySet, ParallelAssumption DEF Init, Permits
<1>5. Progress
  BY DEF Init, Progress
<1>6. WrittenInOrder
  BY DEF Init, WrittenInOrder, Tasks
<1> QED BY <1>2, <1>4, <1>5, <1>6 DEF IInv

\* What is on disk stays in order when nothing is written and no task that has
\* returned changes.
LEMMA WrittenStays ==
  ASSUME IInv, UNCHANGED <<role, count, written>>,
         at \in {"write_raised", "died"} => at' \in {"write_raised", "died"},
         \A t \in Tasks : task[t] = "returned" => task'[t] = "returned"
  PROVE  WrittenInOrder'
<1>1. Tasks' = Tasks /\ \A t \in Tasks : Published(t)' = Published(t)
  BY DEF Tasks, Published
<1> QED BY <1>1 DEF IInv, WrittenInOrder

\* A task that starts takes a permit along.
LEMMA StartKeeps == ASSUME IInv, NEW t \in Tasks, Start(t) PROVE IInv'
<1>1. Tasks' = Tasks /\ at # "died"
  BY DEF IInv, Permits, Unended, Start, Tasks
<1>2. permits \in Nat /\ permits' = permits - 1 /\ permits' \in 0..MaxParallel
  BY ParallelAssumption DEF IInv, TypeOK, Start
<1>3. TypeOK'
  BY <1>1, <1>2 DEF IInv, TypeOK, Start
<1>4. Calling' = Calling \cup {t} /\ t \notin Calling
  BY <1>1 DEF IInv, TypeOK, Start, Calling
<1>5. Cardinality(Calling') = Cardinality(Calling) + 1
  BY <1>4, CallingIsFinite, FS_AddElement DEF IInv
<1>6. Permits'
  BY <1>1, <1>2, <1>5, CallingIsFinite, ParallelAssumption DEF IInv, Permits, Start
<1>7. Progress'
  BY <1>1 DEF IInv, TypeOK, Progress, Start, Conflicts, SeveritiesOf
<1>8. WrittenInOrder'
  <2>1. \A u \in Tasks : task[u] = "returned" => task'[u] = "returned"
    BY DEF IInv, TypeOK, Start
  <2>2. at \in {"write_raised", "died"} => at' \in {"write_raised", "died"}
    BY DEF Start
  <2> QED BY <2>1, <2>2, WrittenStays DEF Start
<1> QED BY <1>3, <1>6, <1>7, <1>8 DEF IInv

\* A task that ends, either way, gives its permit back.
LEMMA EndKeepsPermits ==
  ASSUME IInv, NEW t \in Tasks, NEW end \in {"returned", "raised"}, task[t] = "calling",
         task' = [task EXCEPT ![t] = end], permits' = permits + 1, role' = role,
         at' # "died"
  PROVE  Permits' /\ permits' \in 0..MaxParallel
<1>1. Tasks' = Tasks /\ at # "died"
  BY DEF IInv, Permits, Unended, Tasks
<1>2. Calling' = Calling \ {t} /\ t \in Calling
  BY <1>1 DEF IInv, TypeOK, Calling
<1>3. Cardinality(Calling') = Cardinality(Calling) - 1 /\ Cardinality(Calling') \in Nat
  BY <1>2, CallingIsFinite, FS_RemoveElement, FS_CardinalityType DEF IInv
<1>4. permits \in Nat /\ Cardinality(Calling) \in Nat
  BY CallingIsFinite, ParallelAssumption DEF IInv, TypeOK
<1> QED BY <1>1, <1>3, <1>4, ParallelAssumption DEF IInv, Permits

\* A result comes only while the call gathers, or after it has raised.
LEMMA ReturnKeeps == ASSUME IInv, NEW t \in Tasks, Return(t) PROVE IInv'
<1>1. Tasks' = Tasks
  BY DEF Return, Tasks
<1>2. at \in {"gathering", "raised"} /\ at' = at
  BY DEF IInv, TypeOK, Permits, Progress, Unended, Return
<1>3. Permits' /\ permits' \in 0..MaxParallel
  BY <1>2, EndKeepsPermits DEF Return
<1>4. TypeOK'
  BY <1>1, <1>3 DEF IInv, TypeOK, Return
<1>5. Progress'
  BY <1>1, <1>2 DEF IInv, TypeOK, Progress, Return
<1>6. WrittenInOrder'
  <2>1. \A u \in Tasks : task[u] = "returned" => task'[u] = "returned"
    BY DEF IInv, TypeOK, Return
  <2> QED BY <1>2, <2>1, WrittenStays DEF Return
<1> QED BY <1>3, <1>4, <1>5, <1>6 DEF IInv

\* The first exception ends the gathering with nothing written.
LEMMA RaiseKeeps == ASSUME IInv, NEW t \in Tasks, Raise(t) PROVE IInv'
<1>1. Tasks' = Tasks
  BY DEF Raise, Tasks
<1>2. at \in {"gathering", "raised"} /\ at' = "raised" /\ written' = written
  BY DEF IInv, TypeOK, Permits, Progress, Unended, Raise
<1>3. Permits' /\ permits' \in 0..MaxParallel
  BY <1>2, EndKeepsPermits DEF Raise
<1>4. TypeOK'
  BY <1>1, <1>3 DEF IInv, TypeOK, Raise
<1>5. Progress'
  BY <1>1, <1>2 DEF IInv, Progress, Raise
<1>6. WrittenInOrder'
  <2>1. \A u \in Tasks : task[u] = "returned" => task'[u] = "returned"
    BY DEF IInv, TypeOK, Raise
  <2> QED BY <1>2, <2>1, WrittenStays DEF Raise
<1> QED BY <1>3, <1>4, <1>5, <1>6 DEF IInv

\* The results are written when they are all there.
LEMMA GatherKeeps == ASSUME IInv, Gather PROVE IInv'
<1>1. Tasks' = Tasks /\ Calling' = Calling
  BY DEF Gather, Tasks, Calling
<1>2. TypeOK'
  BY <1>1 DEF IInv, TypeOK, Gather
<1>3. Permits' /\ Progress'
  BY <1>1 DEF IInv, Permits, Progress, Gather, Gathered
<1>4. WrittenInOrder'
  BY WrittenStays DEF Gather
<1> QED BY <1>2, <1>3, <1>4 DEF IInv

\* A role's file is replaced by that of a later result.
LEMMA WriteKeeps == ASSUME IInv, Write PROVE IInv'
<1>1. Tasks' = Tasks /\ Calling' = Calling
  BY DEF Write, Tasks, Calling
<1>2. count \in Nat /\ Len(role) \in Nat /\ count + 1 \in Tasks /\ at = "writing"
  BY CallingIsFinite DEF IInv, TypeOK, Write, ToWrite, Tasks
<1>3. role[count + 1] \in Roles
  BY <1>2 DEF IInv, TypeOK, Tasks
<1>4. \A r \in Roles : written'[r] = IF r = role[count + 1] THEN File(count + 1) ELSE written[r]
  BY DEF IInv, TypeOK, Write
<1>5. TypeOK'
  BY <1>1, <1>2, <1>3 DEF IInv, TypeOK, Write, Tasks, File
<1>6. Permits'
  BY <1>1, <1>2 DEF IInv, Permits, Write
<1>7. Progress'
  BY <1>1, <1>2 DEF IInv, Progress, Write
<1>8. WrittenInOrder'
  <2>1. \A r \in Roles : written[r].task \in Nat
    BY CallingIsFinite DEF IInv, TypeOK
  <2>2. \A t \in Tasks : role[t] \in Roles /\ t \in Nat
    BY DEF IInv, TypeOK, Tasks
  <2>3. \A t \in Tasks : t <= count + 1 => written'[role[t]].task >= t
    BY <1>2, <1>4, <2>1, <2>2 DEF IInv, WrittenInOrder, Published, File
  <2>4. \A r \in Roles : written'[r] # NoFile =>
          /\ \A t \in Tasks : task[t] = "returned"
          /\ written'[r].task \in Tasks /\ role[written'[r].task] = r
          /\ written'[r].whole /\ written'[r].task <= count + 1
    BY <1>2, <1>4, <2>1 DEF IInv, Progress, WrittenInOrder, File
  <2>5. role' = role /\ task' = task /\ count' = count + 1
    BY DEF Write
  <2> QED BY <1>1, <2>3, <2>4, <2>5 DEF WrittenInOrder, Published
<1> QED BY <1>5, <1>6, <1>7, <1>8 DEF IInv

\* A write that is cut off leaves all other files, and of its own a part.
LEMMA CutOffKeeps ==
  ASSUME IInv, written' \in CutOff, UNCHANGED <<role, count>>,
         at' \in {"write_raised", "died"}, at \in {"writing", "write_raised"} => task' = task,
         \A t \in Tasks : task[t] = "returned" => task'[t] = "returned"
  PROVE  WrittenInOrder' /\ written' \in [Roles -> [task : 0..Len(role), whole : BOOLEAN]]
<1>1. CASE written' = written
  BY <1>1, WrittenStays DEF IInv, TypeOK
<1>2. CASE ToWrite /\ written' = [written EXCEPT ![role[count + 1]] = TornFile(count + 1)]
  <2>1. Tasks' = Tasks
    BY DEF Tasks
  <2>2. count \in Nat /\ Len(role) \in Nat /\ count + 1 \in Tasks /\ at = "writing"
    BY <1>2, CallingIsFinite DEF IInv, TypeOK, ToWrite, Tasks
  <2>3. role[count + 1] \in Roles
    BY <2>2 DEF IInv, TypeOK, Tasks
  <2>4. \A r \in Roles :
          written'[r] = IF r = role[count + 1] THEN TornFile(count + 1) ELSE written[r]
    BY <1>2 DEF IInv, TypeOK
  <2>5. \A r \in Roles : written[r].task \in Nat
    BY CallingIsFinite DEF IInv, TypeOK
  <2>6. \A t \in Tasks : role[t] \in Roles /\ t \in Nat
    BY DEF IInv, TypeOK, Tasks
  <2>7. \A t \in Tasks : t <= count => written'[role[t]].task >= t
    BY <2>2, <2>4, <2>5, <2>6 DEF IInv, WrittenInOrder, Published, TornFile
  <2>8. \A r \in Roles : written'[r] # NoFile =>
          /\ \A t \in Tasks : task'[t] = "returned"
          /\ written'[r].task \in Tasks /\ role[written'[r].task] = r
          /\ \/ written'[r].whole /\ written'[r].task <= count
             \/ ~written'[r].whole /\ written'[r].task = count + 1
    BY <2>2, <2>4, <2>5 DEF IInv, Progress, WrittenInOrder, TornFile
  <2>9. written' \in [Roles -> [task : 0..Len(role), whole : BOOLEAN]]
    BY <1>2, <2>2, <2>3 DEF IInv, TypeOK, TornFile, Tasks
  <2> QED BY <2>1, <2>7, <2>8, <2>9 DEF WrittenInOrder, Published
<1> QED BY <1>1, <1>2 DEF CutOff

\* A write that raises ends the call.
LEMMA WriteRaisesKeeps == ASSUME IInv, WriteRaises PROVE IInv'
<1>1. Tasks' = Tasks /\ Calling' = Calling
  BY DEF WriteRaises, Tasks, Calling
<1>2. WrittenInOrder' /\ written' \in [Roles -> [task : 0..Len(role), whole : BOOLEAN]]
  BY CutOffKeeps DEF WriteRaises
<1>3. TypeOK'
  BY <1>1, <1>2 DEF IInv, TypeOK, WriteRaises
<1>4. Permits' /\ Progress'
  BY <1>1 DEF IInv, Permits, Progress, WriteRaises, ToWrite
<1> QED BY <1>2, <1>3, <1>4 DEF IInv

\* The results are compared when they are all on disk.
LEMMA ConcludeKeeps == ASSUME IInv, Conclude PROVE IInv'
<1>1. Tasks' = Tasks /\ Calling' = Calling
  BY DEF Conclude, Tasks, Calling
<1>2. at = "writing" /\ at' \in {"returned", "conflict"}
  BY DEF Conclude
<1>3. TypeOK'
  BY <1>1, <1>2 DEF IInv, TypeOK, Conclude
<1>4. Permits'
  BY <1>1, <1>2 DEF IInv, Permits, Conclude
<1>5. Conflicts' = Conflicts
  BY <1>1 DEF Conclude, Conflicts, SeveritiesOf
<1>6. Progress'
  BY <1>1, <1>2, <1>5 DEF IInv, Progress, Conclude
<1>7. WrittenInOrder'
  BY <1>2, WrittenStays DEF Conclude
<1> QED BY <1>3, <1>4, <1>6, <1>7 DEF IInv

\* The end of the process ends every task.
LEMMA DieKeeps == ASSUME IInv, Die PROVE IInv'
<1>1. Tasks' = Tasks
  BY DEF Die, Tasks
<1>2. \A t \in Tasks : task'[t] = IF t \in Unended THEN "lost" ELSE task[t]
  BY DEF Die
<1>3. \A t \in Tasks : task[t] = "returned" => task'[t] = "returned"
  BY <1>2 DEF Unended
<1>4. at \in {"writing", "write_raised"} => task' = task
  <2> SUFFICES ASSUME at \in {"writing", "write_raised"} PROVE task' = task
    OBVIOUS
  <2>1. Unended = {}
    BY DEF IInv, Progress, Unended
  <2>2. task' = [t \in Tasks |-> task[t]]
    BY <2>1 DEF Die
  <2> QED BY <2>2 DEF IInv, TypeOK
<1>5. WrittenInOrder' /\ written' \in [Roles -> [task : 0..Len(role), whole : BOOLEAN]]
  BY <1>3, <1>4, CutOffKeeps DEF Die
<1>6. TypeOK'
  BY <1>1, <1>5 DEF IInv, TypeOK, Die
<1>7. Permits'
  BY <1>1, <1>2 DEF Die, Permits, Unended
<1>8. Progress'
  BY DEF Die, Progress
<1> QED BY <1>5, <1>6, <1>7, <1>8 DEF IInv

\* The invariant holds of every reachable state.
THEOREM Invariance == Spec => []IInv
<1>1. Init => IInv
  BY InitIInv
<1>2. IInv /\ [Next]_vars => IInv'
  <2> SUFFICES ASSUME IInv, [Next]_vars PROVE IInv'
    OBVIOUS
  <2>1. CASE Gather \/ Write \/ Conclude
    BY <2>1, GatherKeeps, WriteKeeps, ConcludeKeeps
  <2>6. CASE WriteRaises \/ Die
    BY <2>6, WriteRaisesKeeps, DieKeeps
  <2>2. CASE \E t \in Tasks : Start(t)
    BY <2>2, StartKeeps
  <2>3. CASE \E t \in Tasks : Return(t)
    BY <2>3, ReturnKeeps
  <2>4. CASE \E t \in Tasks : Raise(t)
    BY <2>4, RaiseKeeps
  <2>5. CASE UNCHANGED vars
    BY <2>5 DEF vars, IInv, TypeOK, Permits, Progress, WrittenInOrder, Published, Tasks,
                Calling, Unended, Conflicts, SeveritiesOf
  <2> QED BY <2>1, <2>2, <2>3, <2>4, <2>5, <2>6 DEF Next, Work
<1> QED BY <1>1, <1>2, PTL DEF Spec

\* A call keeps its types, and hands out no permit that it does not have.
THEOREM TypeCorrect == Spec => []TypeOK
<1>1. IInv => TypeOK
  BY DEF IInv
<1> QED BY <1>1, Invariance, PTL

\* Never more than max_parallel_agents are at the platform, whatever raises.
THEOREM CallsAreThrottled == Spec => []Throttled
<1>1. IInv => Throttled
  <2> SUFFICES ASSUME IInv PROVE Throttled
    OBVIOUS
  <2>1. permits \in Nat /\ Cardinality(Calling) \in Nat
    BY CallingIsFinite, ParallelAssumption DEF IInv, TypeOK
  <2>2. CASE at = "died"
    <3>1. Calling = {}
      BY <2>2 DEF IInv, Permits, Unended, Calling
    <3> QED BY <3>1, FS_EmptySet, ParallelAssumption DEF Throttled
  <2>3. CASE at # "died"
    BY <2>1, <2>3, ParallelAssumption DEF IInv, Permits, Throttled
  <2> QED BY <2>2, <2>3
<1> QED BY <1>1, Invariance, PTL

\* Results get to disk in the order of their tasks and after the last has returned,
\* wherever a write raises or the process ends.
THEOREM ResultsComeInOrder == Spec => []PublishedInOrder
<1>1. ASSUME IInv PROVE PublishedInOrder
  <2>1. count \in Nat /\ Len(role) \in Nat /\ \A r \in Roles : written[r].task \in Nat
    BY <1>1, CallingIsFinite DEF IInv, TypeOK
  <2>2. \A t \in Tasks : role[t] \in Roles /\ t \in Nat \ {0} /\ t <= Len(role)
    BY <1>1, <2>1 DEF IInv, TypeOK, Tasks
  <2>3. \A r \in Roles : written[r] # NoFile =>
          role[written[r].task] = r /\ \A t \in Tasks : task[t] = "returned"
    BY <1>1 DEF IInv, WrittenInOrder
  <2>4. ASSUME NEW u \in Tasks, Published(u), NEW t \in 1..(u - 1) PROVE Published(t)
    <3>1. written[role[u]] # NoFile /\ written[role[u]].task >= u
      BY <2>2, <2>4 DEF Published, NoFile
    <3>2. u <= count + 1
      BY <1>1, <2>1, <2>2, <3>1 DEF IInv, WrittenInOrder
    <3>3. t \in Tasks /\ t <= count
      BY <2>1, <2>2, <3>2 DEF Tasks
    <3> QED BY <1>1, <3>3 DEF IInv, WrittenInOrder
  <2>5. ASSUME NEW r \in Roles, NEW q \in Roles
        PROVE  \/ written[r].whole \/ written[r] = NoFile
               \/ written[q].task <= written[r].task
    <3>1. written[q] # NoFile => written[q].task <= count + 1
      BY <1>1, <2>1 DEF IInv, WrittenInOrder
    <3>2. written[q] = NoFile => written[q].task = 0
      BY DEF NoFile
    <3> QED BY <1>1, <2>1, <3>1, <3>2 DEF IInv, WrittenInOrder
  <2>6. ASSUME at \in {"returned", "conflict"}, NEW t \in Tasks
        PROVE  Published(t) /\ written[role[t]].whole
    <3>1. Published(t)
      BY <1>1, <2>2, <2>6 DEF IInv, Progress, WrittenInOrder
    <3>2. written[role[t]] # NoFile
      BY <2>2, <3>1 DEF Published, NoFile
    <3> QED BY <1>1, <2>2, <2>6, <3>1, <3>2 DEF IInv, WrittenInOrder
  <2> QED BY <2>3, <2>4, <2>5, <2>6 DEF PublishedInOrder
<1> QED BY <1>1, Invariance, PTL

\* Two different severities for a file are a conflict.
LEMMA ContradictionsAreConflicts ==
  ASSUME NEW t \in Tasks, NEW u \in Tasks, Contradict(t, u)
  PROVE  Conflicts # {}
<1>1. PICK file \in Files, a \in Severities, b \in Severities :
        a # b /\ <<file, a>> \in findings[t] /\ <<file, b>> \in findings[u]
  BY DEF Contradict
<1>2. {a, b} \in SUBSET SeveritiesOf(file) /\ SeveritiesOf(file) \in SUBSET Severities
  BY <1>1 DEF SeveritiesOf
<1>3. IsFiniteSet(SeveritiesOf(file)) /\ Cardinality(SeveritiesOf(file)) \in Nat
  BY <1>2, ParallelAssumption, FS_Subset, FS_CardinalityType
<1>4. Cardinality(SeveritiesOf(file)) # 0 /\ Cardinality(SeveritiesOf(file)) # 1
  BY <1>1, <1>2, <1>3, FS_EmptySet, FS_Singleton
<1> QED BY <1>3, <1>4 DEF Conflicts

\* A strict call returns no results that contradict each other.
THEOREM ContradictionsEscalate == Spec => []ContradictionsStop
<1>1. IInv => ContradictionsStop
  BY ContradictionsAreConflicts DEF IInv, Progress, ContradictionsStop
<1> QED BY <1>1, Invariance, PTL

--------------------------------------------------------------------------------
(* Why a call ends: what can still happen becomes less with every step.    *)
(* That the step is taken is fairness, and checked as AllEnd.              *)

Waiting == {t \in Tasks : task[t] = "waiting"}

\* What the call itself has left: to gather, to write each result, and to compare.
LeftOfCall ==
  CASE at = "gathering" -> Len(role) + 2
    [] at = "writing"   -> Len(role) - count + 1
    [] OTHER            -> 0

\* The steps left: two for a task that waits, one for a task at the platform, and
\* those of the call.
Left == 2 * Cardinality(Waiting) + Cardinality(Calling) + LeftOfCall

\* A task that waits is one of finitely many.
LEMMA WaitingIsFinite ==
  ASSUME TypeOK
  PROVE  IsFiniteSet(Waiting) /\ Cardinality(Waiting) \in Nat
<1>1. IsFiniteSet(Tasks)
  BY CallingIsFinite
<1>2. Waiting \in SUBSET Tasks
  BY DEF Waiting
<1> QED BY <1>1, <1>2, FS_Subset, FS_CardinalityType

\* The steps left are a number, of a length that the tasks bound.
LEMMA LeftIsBounded ==
  ASSUME TypeOK
  PROVE  Left \in 0..(3 * MaxTasks + 2) /\ LeftOfCall \in Nat
<1>1. Len(role) \in Nat /\ Len(role) <= MaxTasks /\ Cardinality(Tasks) = Len(role)
  <2>1. Len(role) \in Nat /\ Len(role) <= MaxTasks
    BY DEF TypeOK
  <2>2. Cardinality(1..Len(role)) = IF 1 > Len(role) THEN 0 ELSE Len(role) - 1 + 1
    BY <2>1, FS_Interval
  <2> QED BY <2>1, <2>2 DEF Tasks
<1>2. /\ IsFiniteSet(Tasks) /\ IsFiniteSet(Waiting) /\ IsFiniteSet(Calling)
      /\ Cardinality(Waiting) \in Nat /\ Cardinality(Calling) \in Nat
  BY CallingIsFinite, WaitingIsFinite
<1>3. Waiting \cap Calling = {} /\ Waiting \cup Calling \in SUBSET Tasks
  BY DEF Waiting, Calling
<1>4. Cardinality(Waiting \cup Calling) = Cardinality(Waiting) + Cardinality(Calling)
  <2>1. Cardinality(Waiting \cup Calling)
          = Cardinality(Waiting) + Cardinality(Calling) - Cardinality(Waiting \cap Calling)
    BY <1>2, FS_Union
  <2> QED BY <2>1, <1>2, <1>3, FS_EmptySet
<1>5. Cardinality(Waiting \cup Calling) <= Cardinality(Tasks)
  BY <1>2, <1>3, FS_Subset
<1>6. LeftOfCall \in Nat /\ LeftOfCall <= Len(role) + 2
  BY <1>1 DEF TypeOK, LeftOfCall
<1> QED BY <1>1, <1>2, <1>4, <1>5, <1>6, ParallelAssumption DEF Left

\* A task that starts has one step left where it had two.
LEMMA StartSinks == ASSUME IInv, NEW t \in Tasks, Start(t) PROVE Left' < Left
<1>1. Tasks' = Tasks /\ LeftOfCall' = LeftOfCall
  BY DEF Start, Tasks, LeftOfCall
<1>2. Waiting' = Waiting \ {t} /\ t \in Waiting /\ Calling' = Calling \cup {t} /\ t \notin Calling
  BY <1>1 DEF IInv, TypeOK, Start, Waiting, Calling
<1>3. /\ Cardinality(Waiting') = Cardinality(Waiting) - 1
      /\ Cardinality(Calling') = Cardinality(Calling) + 1
  BY <1>2, CallingIsFinite, WaitingIsFinite, FS_AddElement, FS_RemoveElement DEF IInv
<1>4. Cardinality(Waiting) \in Nat /\ Cardinality(Calling) \in Nat /\ LeftOfCall \in Nat
  BY CallingIsFinite, WaitingIsFinite, LeftIsBounded DEF IInv
<1> QED BY <1>1, <1>3, <1>4 DEF Left

\* A task that ends has no step left.
LEMMA EndSinks ==
  ASSUME IInv, NEW t \in Tasks, NEW end \in {"returned", "raised"}, task[t] = "calling",
         task' = [task EXCEPT ![t] = end], UNCHANGED <<role, count>>,
         at' = at \/ at' = "raised"
  PROVE  Left' < Left
<1>1. Tasks' = Tasks
  BY DEF Tasks
<1>2. Waiting' = Waiting /\ Calling' = Calling \ {t} /\ t \in Calling
  BY <1>1 DEF IInv, TypeOK, Waiting, Calling
<1>3. Cardinality(Calling') = Cardinality(Calling) - 1
  BY <1>2, CallingIsFinite, FS_RemoveElement DEF IInv
<1>4. Cardinality(Waiting) \in Nat /\ Cardinality(Calling) \in Nat /\ LeftOfCall \in Nat
  BY CallingIsFinite, WaitingIsFinite, LeftIsBounded DEF IInv
<1>5. LeftOfCall' = LeftOfCall \/ LeftOfCall' = 0
  BY DEF LeftOfCall
<1> QED BY <1>2, <1>3, <1>4, <1>5 DEF Left

\* The call's own steps, an exception of a write among them, leave it fewer.
LEMMA CallSinks ==
  ASSUME IInv, Gather \/ Write \/ Conclude \/ WriteRaises
  PROVE  Left' < Left
<1>1. Waiting' = Waiting /\ Calling' = Calling
  BY DEF Gather, Write, Conclude, WriteRaises, Waiting, Calling, Tasks
<1>2. Cardinality(Waiting) \in Nat /\ Cardinality(Calling) \in Nat
  BY CallingIsFinite, WaitingIsFinite DEF IInv
<1>3. Len(role) \in Nat /\ count \in 0..Len(role)
  BY CallingIsFinite DEF IInv, TypeOK
<1>4. LeftOfCall \in Nat /\ LeftOfCall' \in Nat /\ LeftOfCall' < LeftOfCall
  <2>1. CASE Gather
    <3>1. /\ at = "gathering" /\ at' = "writing" /\ role' = role /\ count' = count
          /\ count = 0
      BY <2>1 DEF IInv, Progress, Gather
    <3> QED BY <1>3, <3>1 DEF LeftOfCall
  <2>2. CASE Write
    <3>1. /\ at = "writing" /\ at' = "writing" /\ role' = role /\ count' = count + 1
          /\ count < Len(role)
      BY <2>2 DEF Write, ToWrite
    <3> QED BY <1>3, <3>1 DEF LeftOfCall
  <2>3. CASE Conclude \/ WriteRaises
    <3>1. at = "writing" /\ at' \in {"returned", "conflict", "write_raised"}
      BY <2>3 DEF Conclude, WriteRaises, ToWrite
    <3> QED BY <1>3, <3>1 DEF LeftOfCall
  <2> QED BY <2>1, <2>2, <2>3
<1> QED BY <1>1, <1>2, <1>4 DEF Left

\* The end of the process leaves nothing to do.
LEMMA DieSinks == ASSUME IInv, Die PROVE Left' < Left
<1>1. Waiting' = {} /\ Calling' = {} /\ LeftOfCall' = 0
  BY DEF Die, Tasks, Unended, Waiting, Calling, LeftOfCall
<1>2. /\ Cardinality(Waiting) \in Nat /\ Cardinality(Calling) \in Nat /\ LeftOfCall \in Nat
      /\ IsFiniteSet(Waiting) /\ IsFiniteSet(Calling)
  BY CallingIsFinite, WaitingIsFinite, LeftIsBounded DEF IInv
<1>3. Left' = 0
  BY <1>1, FS_EmptySet DEF Left
<1>4. CASE at \in {"gathering", "writing"}
  <2>1. LeftOfCall > 0
    BY <1>4, CallingIsFinite DEF IInv, TypeOK, LeftOfCall
  <2> QED BY <1>2, <1>3, <2>1 DEF Left
<1>5. CASE Unended # {}
  <2>1. Waiting # {} \/ Calling # {}
    BY <1>5 DEF Unended, Waiting, Calling
  <2>2. Cardinality(Waiting) # 0 \/ Cardinality(Calling) # 0
    BY <1>2, <2>1, FS_EmptySet
  <2> QED BY <1>2, <1>3, <2>2 DEF Left
<1> QED BY <1>4, <1>5 DEF Die

\* Whatever returns or raises, and in whatever order, a call of n tasks takes at most
\* 3 * n + 2 steps: there is a bound on the steps left, and every step lowers it.
THEOREM CallsAreShort == Spec => [](Left \in 0..(3 * MaxTasks + 2)) /\ [][Left' < Left]_vars
<1>1. IInv => Left \in 0..(3 * MaxTasks + 2)
  BY LeftIsBounded DEF IInv
<1>2. ASSUME IInv, [Next]_vars PROVE [Left' < Left]_vars
  <2>1. CASE Gather \/ Write \/ Conclude \/ WriteRaises
    BY <1>2, <2>1, CallSinks
  <2>2. CASE \E t \in Tasks : Start(t)
    BY <1>2, <2>2, StartSinks
  <2>3. CASE \E t \in Tasks : Return(t)
    BY <1>2, <2>3, EndSinks DEF Return
  <2>4. CASE \E t \in Tasks : Raise(t)
    BY <1>2, <2>4, EndSinks DEF Raise
  <2>6. CASE Die
    BY <1>2, <2>6, DieSinks
  <2>5. CASE UNCHANGED vars
    BY <2>5
  <2> QED BY <1>2, <2>1, <2>2, <2>3, <2>4, <2>5, <2>6 DEF Next, Work
<1> QED BY <1>1, <1>2, Invariance, PTL DEF Spec
================================================================================
