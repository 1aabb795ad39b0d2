--------------------------- MODULE ApprovalApiProofs ---------------------------
(***************************************************************************)
(* Theorems about ApprovalApi, for every set of requests and clients, any  *)
(* number of gates and of restarts, and every store.                       *)
(***************************************************************************)
EXTENDS ApprovalApi, FiniteSetTheorems, SequenceTheorems, TLAPS

TaskRecords == [state : {"none", "queued", "chain", "found", "loaded", "running",
                         "finished", "raised"},
                named : 0..MaxGates, answer : Answers, run : SavedRun]

\* A run, saved or in the memory of a task, whose gates were decided in order.
Sound(run) ==
  /\ \A i \in 1..Len(run.decisions) :
       /\ run.decisions[i].gate = i
       /\ run.decisions[i].answer = "reject" => i = Len(run.decisions) /\ run.status = "escalated"
  /\ run.gate # 0 => run.gate = Len(run.decisions) + 1 /\ run.status = "pending"
  /\ run.status = "pending" => run.gate # 0

AllSound == Sound(store) /\ \A t \in Tasks : Sound(task[t].run)

\* Nothing is saved, and nothing can be approved, before the start's task has run.
NotStarted ==
  task["start"].state \in {"none", "queued", "chain", "raised"} =>
    store = NoRun /\ \A t \in Requests : task[t].state = "none"

\* Where an approval comes from, and what an engine works on.
TaskStates ==
  \A t \in Tasks :
    /\ task[t].state = "queued" /\ t # "start" => task[t].named # 0
    /\ task[t].state \in {"found", "loaded"} =>
         t \in Requests /\ task[t].named # 0 /\ Suspends(backend)
    /\ task[t].state = "running" => task[t].run.status = "in_progress"

\* With a store that does not suspend, the one engine works on the run that is saved.
FileStore ==
  backend = "file" =>
    /\ \A t \in Running : store = task[t].run
    /\ \A t, u \in Running : t = u

IInv ==
  /\ TypeOK /\ backend \in Backends
  /\ AllSound /\ NotStarted /\ TaskStates /\ FileStore /\ KeyForgotten

--------------------------------------------------------------------------------
(* Runs.                                                                   *)

\* The task of the start is none of the approvals.
LEMMA StartIsNoRequest == "start" \notin Requests /\ "start" \in Tasks /\ Requests \subseteq Tasks
BY ApiAssumption DEF Tasks

\* The runs the code writes down are saved runs, and sound.
LEMMA KnownRuns ==
  /\ NoRun \in SavedRun /\ NewRun \in SavedRun /\ LostRun \in SavedRun
  /\ Sound(NoRun) /\ Sound(NewRun) /\ Sound(LostRun)
  /\ NewRun.status = "in_progress"
  /\ NoTask = [state |-> "none", named |-> 0, answer |-> "blank", run |-> NoRun]
  /\ NoTask \in TaskRecords
<1>1. <<>> \in Seq(Decision) /\ Len(<<>>) = 0
  BY EmptySeq
<1>2. 0 \in 0..MaxGates
  BY ApiAssumption
<1> DEFINE Fresh(status) == [status |-> status, gate |-> 0, decisions |-> <<>>]
<1>3. NoRun = Fresh("absent") /\ NewRun = Fresh("in_progress") /\ LostRun = Fresh("lost")
  BY DEF NoRun, NewRun, LostRun
<1>4. ASSUME NEW status \in {"absent", "in_progress", "lost"}
      PROVE  Fresh(status) \in SavedRun /\ Sound(Fresh(status))
  BY <1>1, <1>2 DEF SavedRun, Ended, Sound
<1>5. NoRun \in SavedRun /\ NewRun \in SavedRun /\ LostRun \in SavedRun
      /\ Sound(NoRun) /\ Sound(NewRun) /\ Sound(LostRun)
  BY <1>3, <1>4
<1>6. NoTask \in TaskRecords
  BY <1>2, <1>5 DEF NoTask, TaskRecords, Answers
<1> QED BY <1>3, <1>5, <1>6 DEF NoTask

\* A decision on the pending gate of a sound run keeps it sound, and closes the gate.
LEMMA DecisionsAreSound ==
  ASSUME NEW t, task[t].named \in 1..MaxGates, NEW run \in SavedRun, Sound(run), run.gate # 0
  PROVE  /\ Decide(run, t) \in SavedRun /\ Sound(Decide(run, t))
         /\ Decide(run, t).gate = 0
         /\ Decide(run, t).status = IF task[t].answer = "reject" THEN "escalated" ELSE "in_progress"
<1> DEFINE answer == IF task[t].answer = "reject" THEN "reject" ELSE "approve"
           decision == [gate |-> run.gate, named |-> task[t].named, answer |-> answer]
<1>1. /\ run.gate \in 0..MaxGates /\ run.decisions \in Seq(Decision) /\ Len(run.decisions) \in Nat
      /\ run.gate = Len(run.decisions) + 1 /\ run.status = "pending"
  BY DEF SavedRun, Sound
<1>2. decision \in Decision
  BY <1>1, ApiAssumption DEF Decision
<1>3. Decide(run, t) = [status |-> IF answer = "reject" THEN "escalated" ELSE "in_progress",
                        gate |-> 0, decisions |-> Append(run.decisions, decision)]
  BY DEF Decide
<1>4. /\ Append(run.decisions, decision) \in Seq(Decision)
      /\ Len(Append(run.decisions, decision)) = Len(run.decisions) + 1
      /\ \A i \in 1..Len(run.decisions) : Append(run.decisions, decision)[i] = run.decisions[i]
      /\ Append(run.decisions, decision)[Len(run.decisions) + 1] = decision
  BY <1>1, <1>2, AppendProperties
<1> HIDE DEF decision
<1>5. decision.gate = run.gate /\ decision.answer = answer
  BY DEF decision
<1>6. Sound(Decide(run, t))
  BY <1>1, <1>3, <1>4, <1>5 DEF Sound
<1>7. Decide(run, t) \in SavedRun
  BY <1>1, <1>3, <1>4, ApiAssumption DEF SavedRun, Ended
<1> QED BY <1>3, <1>6, <1>7

--------------------------------------------------------------------------------
(* Background tasks.                                                       *)

Events == {"gate", "failed", "complete"}

\* The queue holds events, whatever is pushed.
LEMMA PushedEvents ==
  ASSUME TypeOK, NEW seq \in Seq(Events), Push(seq)
  PROVE  events' \in Seq(Events)
BY ConcatProperties DEF TypeOK, Push, Events

\* What a background task says at its end are events.
LEMMA EndEvents == Over \in Seq(Events) /\ Failed \in Seq(Events) /\ <<"gate">> \in Seq(Events)
BY DEF Over, Failed, Events

\* A task that has been started moves on, and perhaps saves a run.
LEMMA TaskMoves ==
  ASSUME IInv, NEW t \in Tasks, NEW rec \in TaskRecords,
         task' = [task EXCEPT ![t] = rec], backend' = backend,
         store' \in SavedRun, Sound(store'), Sound(rec.run),
         rec.state \in {"found", "loaded", "running", "finished"},
         rec.state \in {"found", "loaded"} => t \in Requests /\ rec.named # 0 /\ Suspends(backend),
         rec.state = "running" =>
           rec.run.status = "in_progress" /\ (backend = "file" => store' = rec.run),
         t = "start" \/ task[t].state # "none",
         backend = "file" => \A u \in Running \ {t} : rec.state # "running" /\ store' = store
  PROVE  /\ store' \in SavedRun /\ task' \in [Tasks -> TaskRecords] /\ backend' \in Backends
         /\ AllSound' /\ NotStarted' /\ TaskStates' /\ FileStore'
<1>1. task \in [Tasks -> TaskRecords]
  BY DEF IInv, TypeOK, TaskRecords
<1>2. task' \in [Tasks -> TaskRecords] /\ task'[t] = rec /\ \A u \in Tasks \ {t} : task'[u] = task[u]
  BY <1>1
<1>3. AllSound'
  BY <1>2 DEF IInv, AllSound, Sound
<1>4. NotStarted'
  <2>1. t # "start" => task["start"].state \notin {"none", "queued", "chain", "raised"}
    BY StartIsNoRequest DEF IInv, NotStarted, Tasks
  <2> QED BY <1>2, <2>1, StartIsNoRequest DEF NotStarted
<1>5. TaskStates'
  BY <1>2 DEF IInv, TaskStates
<1>6. FileStore'
  BY <1>2 DEF IInv, FileStore, Running
<1> QED BY <1>2, <1>3, <1>4, <1>5, <1>6 DEF IInv

\* A task ends.
LEMMA TaskFinishes ==
  ASSUME IInv, NEW t \in Tasks, task' = [task EXCEPT ![t] = [NoTask EXCEPT !.state = "finished"]],
         backend' = backend, store' \in SavedRun, Sound(store'),
         t = "start" \/ task[t].state # "none",
         backend = "file" => \A u \in Running \ {t} : store' = store
  PROVE  /\ store' \in SavedRun /\ task' \in [Tasks -> TaskRecords] /\ backend' \in Backends
         /\ AllSound' /\ NotStarted' /\ TaskStates' /\ FileStore'
<1> DEFINE rec == [NoTask EXCEPT !.state = "finished"]
<1>1. rec \in TaskRecords /\ rec.run = NoRun /\ rec.state = "finished"
  BY KnownRuns DEF TaskRecords
<1> HIDE DEF rec
<1>2. Sound(rec.run)
  BY <1>1, KnownRuns
<1>3. task' = [task EXCEPT ![t] = rec]
  BY DEF rec
<1> QED BY <1>1, <1>2, <1>3, TaskMoves

\* The rest of the invariant, when a task ends with Finish.
LEMMA FinishSettles ==
  ASSUME IInv, NEW t \in Tasks, NEW seq \in Seq(Events), Finish(t, seq),
         UNCHANGED <<backend, clarifies, registered, expired, client, restarts>>,
         store' \in SavedRun, Sound(store'), t = "start" \/ task[t].state # "none",
         backend = "file" => \A u \in Running \ {t} : store' = store
  PROVE  IInv'
<1>1. /\ task' \in [Tasks -> TaskRecords] /\ backend' \in Backends
      /\ AllSound' /\ NotStarted' /\ TaskStates' /\ FileStore'
  BY TaskFinishes DEF Finish
<1>2. events' \in Seq(Events) /\ key' = FALSE
  BY PushedEvents DEF Finish, IInv
<1>3. TypeOK'
  BY <1>1, <1>2 DEF TypeOK, TaskRecords, Events, IInv
<1> QED BY <1>1, <1>2, <1>3 DEF IInv, KeyForgotten

\* An engine works while its run is saved, if the store is a file: no gate is open.
LEMMA NoGateUnderEngine ==
  ASSUME IInv, backend = "file", store.gate # 0
  PROVE  Running = {}
BY DEF IInv, AllSound, Sound, TaskStates, FileStore, Running

\* A resumed task decides on the run it loaded, or is refused.
LEMMA ResumedStep ==
  ASSUME IInv, NEW t \in Requests, NEW run \in SavedRun, Sound(run),
         task[t].state \in {"queued", "loaded"}, Resumed(t, run),
         backend = "file" => run = store,
         UNCHANGED <<backend, clarifies, registered, expired, client, restarts>>
  PROVE  IInv'
<1>0. t \in Tasks /\ t # "start" /\ task[t].named \in 1..MaxGates
  BY StartIsNoRequest, ApiAssumption DEF IInv, TypeOK, TaskStates
<1>1. CASE Refused(run, task[t].answer)
  <2>1. store' = store /\ Finish(t, Failed)
    BY <1>1 DEF Resumed
  <2> QED BY <1>0, <2>1, FinishSettles, EndEvents DEF IInv, TypeOK, AllSound
<1>2. CASE ~Refused(run, task[t].answer)
  <2>1. run.gate # 0 /\ store' = Decide(run, t)
    BY <1>2 DEF Refused, Resumed
  <2>2. /\ store' \in SavedRun /\ Sound(store')
        /\ store'.status = IF task[t].answer = "reject" THEN "escalated" ELSE "in_progress"
    BY <1>0, <2>1, DecisionsAreSound
  <2>3. backend = "file" => Running = {}
    BY <2>1, NoGateUnderEngine
  <2>4. CASE task[t].answer = "reject"
    BY <1>0, <1>2, <2>2, <2>3, <2>4, FinishSettles, EndEvents DEF Resumed
  <2>5. CASE task[t].answer # "reject"
    <3> DEFINE rec == [task[t] EXCEPT !.state = "running", !.run = store']
    <3>1. task' = [task EXCEPT ![t] = rec] /\ UNCHANGED <<events, key>>
      <4>1. task' = [task EXCEPT ![t].state = "running", ![t].run = store'] /\ UNCHANGED <<events, key>>
        BY <1>2, <2>1, <2>5 DEF Resumed
      <4> QED BY <1>0, <4>1 DEF IInv, TypeOK
    <3>2. rec \in TaskRecords /\ rec.state = "running" /\ rec.run = store'
      BY <1>0, <2>2 DEF IInv, TypeOK, TaskRecords
    <3> HIDE DEF rec
    <3>3. /\ store' \in SavedRun /\ task' \in [Tasks -> TaskRecords] /\ backend' \in Backends
          /\ AllSound' /\ NotStarted' /\ TaskStates' /\ FileStore'
      BY <1>0, <2>2, <2>3, <2>5, <3>1, <3>2, TaskMoves
    <3>4. TypeOK'
      BY <3>1, <3>3 DEF IInv, TypeOK, TaskRecords
    <3>5. KeyForgotten'
      BY <2>2, <2>5 DEF KeyForgotten, Ended
    <3> QED BY <3>3, <3>4, <3>5 DEF IInv
  <2> QED BY <2>4, <2>5
<1> QED BY <1>1, <1>2

\* The steps of the background tasks keep the invariant.
LEMMA TaskSteps ==
  ASSUME IInv, TaskStep
  PROVE  IInv'
<1>0. /\ \A t \in Tasks : task[t] \in TaskRecords /\ Sound(task[t].run) /\ task[t].run \in SavedRun
      /\ store \in SavedRun /\ Sound(store)
      /\ task \in [Tasks -> TaskRecords]
  BY DEF IInv, TypeOK, TaskRecords, AllSound
<1>1. CASE StartRun
  <2> DEFINE rec == [task["start"] EXCEPT !.state = "running", !.run = NewRun]
  <2>1. task' = [task EXCEPT !["start"] = rec] /\ store' = NewRun
    BY <1>0, <1>1, StartIsNoRequest DEF StartRun
  <2>2. rec \in TaskRecords /\ rec.state = "running" /\ rec.run = NewRun
    BY <1>0, StartIsNoRequest, KnownRuns DEF TaskRecords
  <2> HIDE DEF rec
  <2>3. Running = {}
    BY <1>1, StartIsNoRequest DEF StartRun, IInv, NotStarted, Running, Tasks
  <2>4. /\ store' \in SavedRun /\ task' \in [Tasks -> TaskRecords] /\ backend' \in Backends
        /\ AllSound' /\ NotStarted' /\ TaskStates' /\ FileStore'
    BY <1>1, <2>1, <2>2, <2>3, StartIsNoRequest, KnownRuns, TaskMoves DEF StartRun
  <2>5. TypeOK' /\ KeyForgotten'
    BY <1>1, <2>1, <2>4, KnownRuns DEF StartRun, IInv, TypeOK, TaskRecords, KeyForgotten, Ended
  <2> QED BY <2>4, <2>5 DEF IInv
<1>2. CASE AnalysisFails
  <2> DEFINE rec == [task["start"] EXCEPT !.state = "raised"]
  <2>1. task' = [task EXCEPT !["start"] = rec] /\ store' = store
    BY <1>0, <1>2, StartIsNoRequest DEF AnalysisFails
  <2>2. rec \in TaskRecords /\ rec.state = "raised" /\ rec.run = task["start"].run
    BY <1>0, StartIsNoRequest DEF TaskRecords
  <2> HIDE DEF rec
  <2>3. /\ task' \in [Tasks -> TaskRecords]
        /\ task'["start"] = rec /\ \A u \in Tasks \ {"start"} : task'[u] = task[u]
    BY <1>0, <2>1, <2>2, StartIsNoRequest
  <2>4. store = NoRun
    BY <1>2 DEF AnalysisFails, IInv, NotStarted
  <2>5. AllSound' /\ NotStarted' /\ TaskStates' /\ FileStore'
    BY <1>0, <1>2, <2>1, <2>2, <2>3, StartIsNoRequest
    DEF AnalysisFails, IInv, AllSound, NotStarted, TaskStates, FileStore, Running, Sound, Tasks
  <2>6. TypeOK' /\ KeyForgotten'
    BY <1>2, <2>3, <2>4 DEF AnalysisFails, IInv, TypeOK, TaskRecords, KeyForgotten, Ended, NoRun
  <2> QED BY <1>2, <2>5, <2>6 DEF IInv, AnalysisFails
<1>3. CASE ChainEnds
  BY <1>0, <1>3, StartIsNoRequest, FinishSettles, EndEvents DEF ChainEnds
<1>4. ASSUME NEW t \in Tasks, Resume(t) PROVE IInv'
  BY <1>0, <1>4, ResumedStep DEF Resume
<1>5. ASSUME NEW t \in Tasks, Vanished(t) PROVE IInv'
  <2>1. /\ store' \in SavedRun /\ task' \in [Tasks -> TaskRecords] /\ backend' \in Backends
        /\ AllSound' /\ NotStarted' /\ TaskStates' /\ FileStore'
    BY <1>0, <1>5, TaskFinishes DEF Vanished
  <2>2. events' \in Seq(Events)
    BY <1>5, PushedEvents, EndEvents DEF Vanished, IInv
  <2>3. TypeOK' /\ KeyForgotten'
    BY <1>5, <2>1, <2>2 DEF Vanished, IInv, TypeOK, TaskRecords, Events, KeyForgotten, Loadable, Ended
  <2> QED BY <2>1, <2>3 DEF IInv
<1>6. ASSUME NEW t \in Tasks, Find(t) \/ Load(t) PROVE IInv'
  <2>1. PICK rec \in TaskRecords :
          /\ task' = [task EXCEPT ![t] = rec] /\ rec.state \in {"found", "loaded"}
          /\ t \in Requests /\ rec.named # 0 /\ Suspends(backend) /\ Sound(rec.run)
          /\ task[t].state # "none"
    <3>1. CASE Find(t)
      <4> DEFINE rec == [task[t] EXCEPT !.state = "found"]
      <4>1. task' = [task EXCEPT ![t] = rec] /\ rec.state = "found" /\ rec \in TaskRecords
            /\ rec.named = task[t].named /\ rec.run = task[t].run
        BY <1>0, <3>1 DEF Find, TaskRecords
      <4>2. t \in Requests /\ task[t].named # 0 /\ Suspends(backend) /\ task[t].state # "none"
        BY <3>1, StartIsNoRequest DEF Find, IInv, TaskStates
      <4> QED BY <1>0, <4>1, <4>2
    <3>2. CASE Load(t)
      <4> DEFINE rec == [task[t] EXCEPT !.state = "loaded", !.run = store]
      <4>1. task' = [task EXCEPT ![t] = rec] /\ rec.state = "loaded" /\ rec \in TaskRecords
            /\ rec.named = task[t].named /\ rec.run = store
        BY <1>0, <3>2 DEF Load, TaskRecords
      <4>2. t \in Requests /\ task[t].named # 0 /\ Suspends(backend) /\ task[t].state # "none"
        BY <3>2 DEF Load, IInv, TaskStates
      <4> QED BY <1>0, <4>1, <4>2
    <3> QED BY <1>6, <3>1, <3>2
  <2>2. UNCHANGED <<backend, store, clarifies, registered, events, key, expired, client>>
    BY <1>6 DEF Find, Load
  <2>3. /\ store' \in SavedRun /\ task' \in [Tasks -> TaskRecords] /\ backend' \in Backends
        /\ AllSound' /\ NotStarted' /\ TaskStates' /\ FileStore'
    BY <1>0, <2>1, <2>2, TaskMoves
  <2>4. ~Idle'
    BY <1>0, <2>1 DEF Idle
  <2>5. TypeOK' /\ KeyForgotten'
    BY <2>2, <2>3, <2>4 DEF IInv, TypeOK, TaskRecords, KeyForgotten
  <2> QED BY <2>3, <2>5 DEF IInv
<1>7. ASSUME NEW t \in Tasks, LoadFails(t) PROVE IInv'
  BY <1>0, <1>7, FinishSettles, EndEvents DEF LoadFails
<1>8. ASSUME NEW t \in Tasks, ResumeLoaded(t) PROVE IInv'
  <2>1. t \in Requests /\ backend # "file"
    BY <1>8, StartIsNoRequest DEF ResumeLoaded, IInv, TaskStates, Suspends
  <2> QED BY <1>0, <1>8, <2>1, ResumedStep DEF ResumeLoaded
<1>9. ASSUME NEW t \in Tasks, Pause(t) \/ End(t) \/ Raise(t) PROVE IInv'
  <2>1. task[t].state = "running" /\ task[t].run.status = "in_progress" /\ task[t].run.gate = 0
    BY <1>0, <1>9 DEF Pause, End, Raise, IInv, TaskStates, Sound
  <2>2. backend = "file" => Running \subseteq {t}
    BY <1>0, <2>1 DEF IInv, FileStore, Running
  <2>3. CASE Pause(t)
    <3>1. store' \in SavedRun /\ Sound(store') /\ store'.status = "pending"
      <4> DEFINE run == task[t].run  gate == Len(run.decisions) + 1
      <4>1. /\ run = [status |-> run.status, gate |-> run.gate, decisions |-> run.decisions]
            /\ run.decisions \in Seq(Decision) /\ Len(run.decisions) \in Nat
        BY <1>0 DEF SavedRun
      <4>2. gate \in 0..MaxGates /\ gate # 0
        BY <2>3, <4>1, ApiAssumption DEF Pause
      <4>3. store' = [status |-> "pending", gate |-> gate, decisions |-> run.decisions]
        BY <2>3, <4>1 DEF Pause
      <4>4. Sound(run) /\ run.status = "in_progress"
        BY <1>0, <2>1
      <4> HIDE DEF run, gate
      <4>5. store' \in SavedRun /\ store'.status = "pending"
        BY <4>1, <4>2, <4>3 DEF SavedRun
      <4>6. Sound(store')
        <5>1. gate = Len(run.decisions) + 1
          BY DEF gate
        <5> QED BY <4>2, <4>3, <4>4, <5>1 DEF Sound
      <4> QED BY <4>5, <4>6
    <3>2. /\ task' \in [Tasks -> TaskRecords] /\ backend' \in Backends
          /\ AllSound' /\ NotStarted' /\ TaskStates' /\ FileStore'
      BY <2>1, <2>2, <2>3, <3>1, TaskFinishes DEF Pause
    <3>3. events' \in Seq(Events)
      BY <2>3, PushedEvents, EndEvents DEF Pause, IInv
    <3>4. TypeOK' /\ KeyForgotten'
      BY <2>3, <3>1, <3>2, <3>3 DEF Pause, IInv, TypeOK, TaskRecords, Events, KeyForgotten, Ended
    <3> QED BY <3>2, <3>4 DEF IInv
  <2>4. CASE End(t)
    <3>1. store' \in SavedRun /\ Sound(store')
      BY <1>0, <2>1, <2>4 DEF End, SavedRun, Sound, Ended
    <3> QED BY <2>1, <2>2, <2>4, <3>1, FinishSettles, EndEvents DEF End
  <2>5. CASE Raise(t)
    BY <1>0, <2>1, <2>5, FinishSettles, EndEvents DEF Raise
  <2> QED BY <1>9, <2>3, <2>4, <2>5
<1> QED BY <1>1, <1>2, <1>3, <1>4, <1>5, <1>6, <1>7, <1>8, <1>9 DEF TaskStep

--------------------------------------------------------------------------------
(* Requests, clients, timer, restarts.                                     *)

\* A task is queued.
LEMMA Queued ==
  ASSUME IInv, NEW t \in Tasks, NEW state \in {"queued", "chain"}, NEW named \in 0..MaxGates,
         NEW answer \in Answers,
         task' = [task EXCEPT ![t].state = state, ![t].named = named, ![t].answer = answer],
         UNCHANGED <<backend, store, clarifies, events, expired, client>>,
         registered' \in BOOLEAN, key' \in BOOLEAN, task[t].state = "none",
         t # "start" => store # NoRun /\ named # 0 /\ state = "queued"
  PROVE  IInv'
<1> DEFINE rec == [task[t] EXCEPT !.state = state, !.named = named, !.answer = answer]
<1>1. task \in [Tasks -> TaskRecords] /\ "start" \in Tasks
  BY StartIsNoRequest DEF IInv, TypeOK, TaskRecords
<1>2. rec \in TaskRecords /\ rec.state = state /\ rec.named = named /\ rec.run = task[t].run
  BY <1>1 DEF TaskRecords
<1>3. task' = [task EXCEPT ![t] = rec]
  BY <1>1
<1> HIDE DEF rec
<1>4. /\ task' \in [Tasks -> TaskRecords]
      /\ task'[t] = rec /\ \A u \in Tasks \ {t} : task'[u] = task[u]
  BY <1>1, <1>2, <1>3
<1>5. AllSound' /\ TaskStates' /\ FileStore'
  BY <1>1, <1>2, <1>4 DEF IInv, AllSound, Sound, TaskStates, FileStore, Running
<1>6. NotStarted'
  BY <1>1, <1>2, <1>4, StartIsNoRequest DEF IInv, NotStarted
<1>7. ~Idle'
  BY <1>2, <1>4 DEF Idle
<1>8. TypeOK' /\ KeyForgotten'
  BY <1>4, <1>7 DEF IInv, TypeOK, TaskRecords, KeyForgotten
<1> QED BY <1>5, <1>6, <1>8 DEF IInv

\* So do requests, which only queue a task.
LEMMA RequestSteps ==
  ASSUME IInv, Trigger \/ TriggerChain \/ \E t \in Requests : SubmitApproval(t)
  PROVE  IInv'
<1>1. task \in [Tasks -> TaskRecords] /\ "start" \in Tasks
  BY StartIsNoRequest DEF IInv, TypeOK, TaskRecords
<1>2. ASSUME NEW state \in {"queued", "chain"}, task' = [task EXCEPT !["start"].state = state],
             UNCHANGED <<backend, store, clarifies, events, expired, client>>,
             registered' \in BOOLEAN, key' \in BOOLEAN, task["start"].state = "none"
      PROVE  IInv'
  <2> DEFINE named == task["start"].named  answer == task["start"].answer
  <2>1. task["start"] \in TaskRecords /\ named \in 0..MaxGates /\ answer \in Answers
    BY <1>1 DEF TaskRecords
  <2>2. [task["start"] EXCEPT !.state = state]
        = [task["start"] EXCEPT !.state = state, !.named = named, !.answer = answer]
    BY <2>1 DEF TaskRecords
  <2>3. task' = [task EXCEPT !["start"] = [task["start"] EXCEPT !.state = state]]
    BY <1>1, <1>2
  <2>4. [task EXCEPT !["start"].state = state, !["start"].named = named, !["start"].answer = answer]
        = [task EXCEPT !["start"] =
             [task["start"] EXCEPT !.state = state, !.named = named, !.answer = answer]]
    BY <1>1
  <2>5. task' = [task EXCEPT !["start"].state = state, !["start"].named = named,
                            !["start"].answer = answer]
    BY <2>2, <2>3, <2>4
  <2> HIDE DEF named, answer
  <2>6. "start" \in Tasks
    BY <1>1
  <2> QED BY ONLY IInv, <1>2, <2>1, <2>5, <2>6, Queued
<1>3. CASE Trigger
  <2>1. task' = [task EXCEPT !["start"].state = "queued"] /\ task["start"].state = "none"
        /\ UNCHANGED <<backend, store, clarifies, events, expired, client>>
        /\ registered' \in BOOLEAN /\ key' \in BOOLEAN
    BY <1>3 DEF Trigger
  <2> QED BY <1>2, <2>1
<1>4. CASE TriggerChain
  <2>1. task' = [task EXCEPT !["start"].state = "chain"] /\ task["start"].state = "none"
        /\ UNCHANGED <<backend, store, clarifies, events, expired, client>>
        /\ registered' \in BOOLEAN /\ key' \in BOOLEAN
    BY <1>4 DEF TriggerChain, IInv, TypeOK
  <2> QED BY <1>2, <2>1
<1>5. ASSUME NEW t \in Requests, SubmitApproval(t) PROVE IInv'
  <2>1. PICK gate \in 1..MaxGates, answer \in Answers :
          /\ NamesPendingGate(gate)
          /\ task' = [task EXCEPT ![t].state = "queued", ![t].named = gate, ![t].answer = answer]
    BY <1>5 DEF SubmitApproval
  <2>2. store # NoRun
    BY <2>1 DEF NamesPendingGate, NoRun
  <2>3. gate \in 0..MaxGates /\ gate # 0
    BY ApiAssumption
  <2>4. t \in Tasks /\ t # "start" /\ registered \in BOOLEAN
    BY StartIsNoRequest DEF IInv, TypeOK
  <2> QED BY <1>5, <2>1, <2>2, <2>3, <2>4, Queued DEF SubmitApproval
<1> QED BY <1>3, <1>4, <1>5

\* So do clients and the timer, which touch neither run nor tasks.
LEMMA ClientSteps ==
  ASSUME IInv, Expire \/ \E c \in Clients : OpenStream(c) \/ Disconnect(c) \/ StartStream(c) \/ Receive(c)
  PROVE  IInv'
<1>1. UNCHANGED <<backend, store, task, clarifies>>
  BY DEF Expire, OpenStream, Disconnect, StartStream, Receive
<1>2. AllSound' /\ NotStarted' /\ TaskStates' /\ FileStore' /\ backend' \in Backends
  BY <1>1 DEF IInv, AllSound, Sound, NotStarted, TaskStates, FileStore, Running
<1>3. key' = key \/ key' = FALSE
  BY DEF Expire, OpenStream, Disconnect, StartStream, Receive
<1>4. TypeOK'
  <2>1. events' \in Seq(Events)
    <3>1. events \in Seq(Events)
      BY DEF IInv, TypeOK, Events
    <3>2. CASE events' = events
      BY <3>1, <3>2
    <3>3. CASE events # <<>> /\ events' = Tail(events)
      BY <3>1, <3>3, HeadTailProperties
    <3> QED BY <3>2, <3>3 DEF Expire, OpenStream, Disconnect, StartStream, Receive
  <2>2. client' \in [Clients -> {"none", "opened", "streaming", "closed", "broken"}]
    BY DEF IInv, TypeOK, Expire, OpenStream, Disconnect, StartStream, Receive
  <2>3. {registered, expired, registered', expired'} \subseteq BOOLEAN
    BY DEF IInv, TypeOK, Expire, OpenStream, Disconnect, StartStream, Receive
  <2> QED BY <1>1, <1>3, <2>1, <2>2, <2>3 DEF IInv, TypeOK, Events
<1> QED BY <1>1, <1>2, <1>3, <1>4 DEF IInv, KeyForgotten, Idle

\* A server keeps no run in memory: a restart leaves what is saved, or what a save that
\* it cuts off leaves of a file.
LEMMA SurvivingRuns ==
  ASSUME backend \in Backends
  PROVE  Survivors = {store} \cup (IF backend = "file" /\ Saving THEN {LostRun} ELSE {})
<1>1. backend # "memory"
  BY ApiAssumption DEF Environments, GetDefaultStateStore
<1> QED BY <1>1 DEF Survivors, AfterCrash, CutOff

\* So do a restart and a lapse: what they leave is a sound run.
LEMMA StoreSteps ==
  ASSUME IInv, Restart \/ Lapse
  PROVE  IInv'
<1>0. store' \in {store, LostRun}
  BY SurvivingRuns DEF IInv, Restart, Lapse
<1>1. store' \in SavedRun /\ Sound(store')
  BY <1>0, KnownRuns DEF IInv, TypeOK, AllSound
<1>2. CASE Restart
  <2>1. task \in [Tasks -> TaskRecords]
    BY DEF IInv, TypeOK, TaskRecords
  <2>2. \A t \in Tasks :
          task'[t] = IF task[t].state \in {"none", "raised"} THEN task[t]
                     ELSE [NoTask EXCEPT !.state = "finished"]
    BY <1>2 DEF Restart
  <2>3. [NoTask EXCEPT !.state = "finished"] = [state |-> "finished", named |-> 0,
           answer |-> "blank", run |-> NoRun]
    BY KnownRuns
  <2>4. task' \in [Tasks -> TaskRecords]
    <3>1. [NoTask EXCEPT !.state = "finished"] \in TaskRecords
      BY KnownRuns DEF TaskRecords
    <3> QED BY <1>2, <2>1, <3>1 DEF Restart
  <2>5. AllSound' /\ TaskStates' /\ FileStore'
    BY <1>1, <2>2, <2>3, KnownRuns DEF IInv, AllSound, Sound, TaskStates, FileStore, Running
  <2>6. NotStarted'
    <3>1. SUFFICES ASSUME task["start"].state = "raised"
                   PROVE  store' = NoRun /\ \A t \in Requests : task'[t].state = "none"
      BY <1>2, <2>2, <2>3, StartIsNoRequest DEF Restart, NotStarted
    <3>2. store = NoRun /\ \A t \in Requests : task[t].state = "none"
      BY <3>1 DEF IInv, NotStarted
    <3>3. ~Saving
      BY <3>1, <3>2 DEF Saving, Tasks, Accepted
    <3> QED BY <1>2, <2>2, <3>2, <3>3, StartIsNoRequest, SurvivingRuns DEF IInv, Restart
  <2>7. TypeOK'
    <3>1. client' \in [Clients -> {"none", "opened", "streaming", "closed", "broken"}]
      BY <1>2 DEF IInv, TypeOK, Restart
    <3> QED BY <1>1, <1>2, <2>4, <3>1, EmptySeq DEF IInv, TypeOK, TaskRecords, Restart
  <2> QED BY <1>2, <2>5, <2>6, <2>7 DEF IInv, Restart, KeyForgotten
<1>3. CASE Lapse
  <2>1. UNCHANGED <<backend, task, clarifies, registered, events, key, expired, client>>
        /\ store' = LostRun /\ store # NoRun /\ backend # "file"
    BY <1>3 DEF Lapse, MayLapse, Loadable, NoRun
  <2>2. AllSound' /\ NotStarted' /\ TaskStates' /\ FileStore'
    BY <1>1, <2>1 DEF IInv, AllSound, Sound, NotStarted, TaskStates, FileStore
  <2>3. TypeOK' /\ KeyForgotten'
    BY <1>1, <2>1 DEF IInv, TypeOK, KeyForgotten, LostRun, Ended, NoRun
  <2> QED BY <2>1, <2>2, <2>3 DEF IInv
<1> QED BY <1>2, <1>3

--------------------------------------------------------------------------------
(* The invariant.                                                          *)

\* A server starts with nothing.
LEMMA InitIInv == ASSUME Init PROVE IInv
<1>1. NoTask \in TaskRecords /\ NoTask.state = "none" /\ NoTask.run = NoRun
  BY KnownRuns
<1>2. \A t \in Tasks : task[t] = NoTask
  BY DEF Init
<1>3. TypeOK
  BY <1>1, EmptySeq, KnownRuns DEF Init, TypeOK, TaskRecords
<1>4. AllSound /\ NotStarted /\ TaskStates
  BY <1>1, <1>2, KnownRuns, StartIsNoRequest DEF Init, AllSound, NotStarted, TaskStates
<1>5. FileStore /\ KeyForgotten /\ backend \in Backends
  BY <1>1, <1>2 DEF Init, FileStore, Running, KeyForgotten
<1> QED BY <1>3, <1>4, <1>5 DEF IInv

\* Every step keeps the invariant.
LEMMA StepIInv == ASSUME IInv, [Next]_vars PROVE IInv'
<1>1. CASE UNCHANGED vars
  BY <1>1 DEF vars, IInv, TypeOK, AllSound, Sound, NotStarted, TaskStates, FileStore, Running,
              KeyForgotten, Idle
<1>2. CASE Next
  BY <1>2, RequestSteps, TaskSteps, ClientSteps, StoreSteps DEF Next, Read
<1> QED BY <1>1, <1>2

\* The invariant holds of every reachable state.
LEMMA Invariance == Spec => []IInv
BY InitIInv, StepIInv, PTL DEF Spec

--------------------------------------------------------------------------------
(* What the server promises, for every value of the constants.             *)

\* Store, tasks, queue and streams keep their types.
THEOREM TypeCorrect == Spec => []TypeOK
<1>1. IInv => TypeOK
  BY DEF IInv
<1> QED BY Invariance, <1>1, PTL

\* With the file store at most one engine works on the run, whatever is submitted when.
THEOREM OneEngineAtATime == Spec => []OneEngine
<1>1. ASSUME IInv PROVE OneEngine
  <2>1. SUFFICES ASSUME backend = "file" PROVE Cardinality(Running) <= 1
                   /\ (Running # {} => store.status = "in_progress" /\ store.gate = 0)
    BY DEF OneEngine
  <2>2. CASE Running = {}
    BY <2>2, FS_EmptySet
  <2>3. CASE Running # {}
    <3>1. PICK t \in Running : Running = {t}
      BY <1>1, <2>1, <2>3 DEF IInv, FileStore
    <3>2. Cardinality(Running) = 1
      BY <3>1, FS_Singleton
    <3>3. store.status = "in_progress" /\ Sound(store)
      BY <1>1, <2>1, <3>1 DEF IInv, FileStore, TaskStates, AllSound, Running
    <3> QED BY <3>2, <3>3 DEF Sound
  <2> QED BY <2>2, <2>3
<1> QED BY Invariance, <1>1, PTL

\* A server at rest holds no key for a run that has ended.
THEOREM NoKeyLeftBehind == Spec => []KeyForgotten
<1>1. IInv => KeyForgotten
  BY DEF IInv
<1> QED BY Invariance, <1>1, PTL

\* A gate in the file store waits until an approval of it is accepted.
THEOREM GatesWait == Spec => WaitingGateKept
<1>1. ASSUME IInv, Next, backend = "file", store.status = "pending", ~(\E t \in Tasks : Accepted(t))
      PROVE  store' = store
  <2>1. store.gate # 0 /\ store # NoRun
    BY <1>1 DEF IInv, AllSound, Sound, NoRun
  <2>2. /\ Running = {}
        /\ task["start"].state \notin {"none", "queued", "chain", "raised"}
    BY <1>1, <2>1, NoGateUnderEngine DEF IInv, NotStarted
  <2>3. CASE Restart
    <3>1. ~Saving
      BY <1>1, <2>2 DEF Saving, Running
    <3> QED BY <1>1, <2>3, <3>1, SurvivingRuns DEF IInv, Restart
  <2>4. CASE Lapse
    BY <1>1, <2>4 DEF Lapse, MayLapse
  <2>5. CASE TaskStep
    <3>1. ASSUME NEW t \in Tasks, Pause(t) \/ End(t) \/ Raise(t) PROVE FALSE
      BY <2>2, <3>1 DEF Pause, End, Raise, Running
    <3>2. ASSUME NEW t \in Tasks, Resume(t) PROVE store' = store
      <4>1. Refused(store, task[t].answer)
        BY <1>1, <3>2 DEF Resume, Accepted
      <4> QED BY <3>2, <4>1 DEF Resume, Resumed
    <3>3. ASSUME NEW t \in Tasks, ResumeLoaded(t) PROVE FALSE
      BY <1>1, <3>3 DEF ResumeLoaded, IInv, TaskStates, Suspends
    <3>4. ASSUME NEW t \in Tasks, Vanished(t) \/ Find(t) \/ Load(t) \/ LoadFails(t)
          PROVE  store' = store
      BY <3>4 DEF Vanished, Find, Load, LoadFails
    <3>5. CASE StartRun \/ AnalysisFails \/ ChainEnds
      BY <2>2, <3>5 DEF StartRun, AnalysisFails, ChainEnds
    <3> QED BY <2>5, <3>1, <3>2, <3>3, <3>4, <3>5 DEF TaskStep
  <2>6. CASE Trigger \/ TriggerChain \/ Expire \/ \E t \in Requests : SubmitApproval(t)
    BY <2>6 DEF Trigger, TriggerChain, Expire, SubmitApproval
  <2>7. CASE Read \/ \E c \in Clients : OpenStream(c) \/ Disconnect(c)
    BY <2>7 DEF Read, OpenStream, Disconnect, StartStream, Receive
  <2> QED BY <1>1, <2>3, <2>4, <2>5, <2>6, <2>7 DEF Next
<1>2. IInv /\ [Next]_vars => [backend = "file" /\ store.status = "pending"
                              /\ ~(\E t \in Tasks : Accepted(t)) => store' = store]_vars
  BY <1>1 DEF vars
<1> QED BY Invariance, <1>2, PTL DEF Spec, WaitingGateKept

--------------------------------------------------------------------------------
(* The saved run implements GatedRun.                                      *)

Settled(run) == {i \in 1..Len(run.decisions) : run.decisions[i].answer = "approve"}

\* A change of the saved run that GatedRun allows.
Moves(old, new) ==
  \/ Condition(new.status) = Condition(old.status) /\ new.gate = old.gate /\ Settled(new) = Settled(old)
  \/ /\ Condition(old.status) = "working" /\ Condition(new.status) = "waiting"
     /\ new.gate \in (1..MaxGates) \ Settled(old) /\ Settled(new) = Settled(old)
  \/ /\ Condition(old.status) = "waiting" /\ Condition(new.status) = "working"
     /\ new.gate = 0 /\ Settled(new) = Settled(old) \cup {old.gate}
  \/ /\ Condition(old.status) = "waiting" /\ Condition(new.status) = "stopped"
     /\ new.gate = 0 /\ Settled(new) = Settled(old)
  \/ /\ Condition(old.status) = "working" /\ Condition(new.status) \in {"released", "stopped"}
     /\ new.gate = old.gate /\ Settled(new) = Settled(old)
  \/ /\ Condition(old.status) \in {"working", "waiting"} /\ Condition(new.status) = "gone"
     /\ new.gate = 0 /\ Settled(new) = {}

\* What GatedRun sees of a new run, or of none: no gate is open, and none settled.
LEMMA FreshRunsMove ==
  /\ Settled(NoRun) = {} /\ Settled(NewRun) = {} /\ Settled(LostRun) = {}
  /\ Condition(NoRun.status) = "working" /\ Condition(NewRun.status) = "working"
  /\ Condition(LostRun.status) = "gone"
  /\ NoRun.gate = 0 /\ NewRun.gate = 0 /\ LostRun.gate = 0
BY EmptySeq DEF NoRun, NewRun, LostRun, Settled, Condition

\* A decision settles the gate that was open, or rejects it.
LEMMA DecisionsMove ==
  ASSUME NEW t, task[t].named \in 1..MaxGates, NEW run \in SavedRun, Sound(run), run.gate # 0
  PROVE  Moves(run, Decide(run, t))
<1> DEFINE answer == IF task[t].answer = "reject" THEN "reject" ELSE "approve"
           decision == [gate |-> run.gate, named |-> task[t].named, answer |-> answer]
           new == Decide(run, t)
<1>1. /\ run.decisions \in Seq(Decision) /\ Len(run.decisions) \in Nat
      /\ run.gate = Len(run.decisions) + 1 /\ run.status = "pending" /\ decision \in Decision
  BY ApiAssumption DEF SavedRun, Sound, Decision
<1>2. /\ new.decisions = Append(run.decisions, decision) /\ new.gate = 0
      /\ new.status = IF answer = "reject" THEN "escalated" ELSE "in_progress"
  BY DEF Decide
<1>3. decision.answer = answer
  OBVIOUS
<1> HIDE DEF decision
<1>4. /\ Len(new.decisions) = Len(run.decisions) + 1
      /\ \A i \in 1..Len(run.decisions) : new.decisions[i] = run.decisions[i]
      /\ new.decisions[Len(run.decisions) + 1].answer = answer
  BY <1>1, <1>2, <1>3, AppendProperties
<1> HIDE DEF new
<1>5. Settled(new) = IF answer = "approve" THEN Settled(run) \cup {run.gate} ELSE Settled(run)
  BY <1>1, <1>4 DEF Settled
<1>6. Condition(run.status) = "waiting"
      /\ Condition(new.status) = IF answer = "reject" THEN "stopped" ELSE "working"
  BY <1>1, <1>2 DEF Condition
<1> QED BY <1>2, <1>5, <1>6 DEF Moves, new

\* With the file store every step moves the saved run so, or not at all.
LEMMA StoreMoves ==
  ASSUME IInv, Next, backend = "file"
  PROVE  store' = store \/ Moves(store, store')
<1>0. store \in SavedRun /\ Sound(store) /\ task \in [Tasks -> TaskRecords]
  BY DEF IInv, TypeOK, AllSound, TaskRecords
<1>1. CASE Restart
  <2>1. store' = store \/ (Saving /\ store' = LostRun)
    BY <1>1, SurvivingRuns DEF IInv, Restart
  <2>2. ASSUME Saving PROVE Condition(store.status) \in {"working", "waiting"}
    <3>1. CASE task["start"].state = "queued"
      BY <3>1, FreshRunsMove DEF IInv, NotStarted
    <3>2. CASE \E t \in Tasks : task[t].state = "running"
      BY <3>2 DEF IInv, FileStore, TaskStates, Running, Condition
    <3>3. CASE \E t \in Tasks : Accepted(t)
      BY <1>0, <3>3 DEF Accepted, Refused, Sound, Condition
    <3> QED BY <2>2, <3>1, <3>2, <3>3 DEF Saving
  <2> QED BY <2>1, <2>2, FreshRunsMove DEF Moves
<1>2. CASE StartRun
  <2>1. store = NoRun /\ store' = NewRun
    BY <1>2 DEF StartRun, IInv, NotStarted
  <2> QED BY <2>1, FreshRunsMove DEF Moves
<1>3. ASSUME NEW t \in Tasks, Resume(t) PROVE store' = store \/ Moves(store, store')
  <2>1. CASE Refused(store, task[t].answer)
    BY <1>3, <2>1 DEF Resume, Resumed
  <2>2. CASE ~Refused(store, task[t].answer)
    <3>1. store.gate # 0 /\ store' = Decide(store, t)
      BY <1>3, <2>2 DEF Resume, Resumed, Refused
    <3>2. task[t].named \in 1..MaxGates
      BY <1>0, <1>3, StartIsNoRequest, ApiAssumption DEF Resume, IInv, TaskStates, TaskRecords
    <3> QED BY <1>0, <3>1, <3>2, DecisionsMove
  <2> QED BY <2>1, <2>2
<1>4. ASSUME NEW t \in Tasks, Pause(t) \/ End(t) \/ Raise(t) PROVE store' = store \/ Moves(store, store')
  <2>1. store = task[t].run /\ store.status = "in_progress" /\ store.gate = 0
    BY <1>0, <1>4 DEF Pause, End, Raise, IInv, FileStore, TaskStates, Running, Sound
  <2>2. store.decisions \in Seq(Decision) /\ Len(store.decisions) \in Nat
        /\ store = [status |-> store.status, gate |-> store.gate, decisions |-> store.decisions]
    BY <1>0 DEF SavedRun
  <2>3. CASE Pause(t)
    <3>1. store'.status = "pending" /\ store'.gate = Len(store.decisions) + 1
          /\ store'.decisions = store.decisions /\ Len(store.decisions) < MaxGates
      BY <2>1, <2>2, <2>3 DEF Pause
    <3>2. store'.gate \in (1..MaxGates) \ Settled(store)
      BY <2>2, <3>1, ApiAssumption DEF Settled
    <3> QED BY <2>1, <3>1, <3>2 DEF Moves, Settled, Condition
  <2>4. CASE End(t)
    <3>1. store'.status \in Ended /\ store'.gate = store.gate /\ store'.decisions = store.decisions
      BY <2>1, <2>2, <2>4 DEF End
    <3> QED BY <2>1, <3>1 DEF Moves, Settled, Condition, Ended
  <2>5. CASE Raise(t)
    BY <2>5 DEF Raise
  <2> QED BY <1>4, <2>3, <2>4, <2>5
<1>5. ASSUME NEW t \in Tasks, ResumeLoaded(t) PROVE FALSE
  BY <1>5 DEF ResumeLoaded, IInv, TaskStates, Suspends
<1>6. ASSUME NEW t \in Tasks, Vanished(t) \/ Find(t) \/ Load(t) \/ LoadFails(t) PROVE store' = store
  BY <1>6 DEF Vanished, Find, Load, LoadFails
<1>7. CASE AnalysisFails \/ ChainEnds \/ Trigger \/ TriggerChain \/ Expire \/ \E t \in Requests : SubmitApproval(t)
  BY <1>7 DEF AnalysisFails, ChainEnds, Trigger, TriggerChain, Expire, SubmitApproval
<1>8. CASE Read \/ \E c \in Clients : OpenStream(c) \/ Disconnect(c)
  BY <1>8 DEF Read, OpenStream, Disconnect, StartStream, Receive
<1>9. CASE Lapse
  BY <1>9 DEF Lapse, MayLapse
<1> QED BY <1>1, <1>2, <1>3, <1>4, <1>5, <1>6, <1>7, <1>8, <1>9 DEF Next, TaskStep

\* What DecidedOnce allows a save to change.
Decides(old, new) ==
  /\ old.status \notin Ended
  /\ \/ new.decisions = old.decisions
     \/ \E decision \in Decision :
          /\ new.decisions = Append(old.decisions, decision)
          /\ decision.gate = old.gate /\ old.gate = Len(new.decisions)
          /\ new.gate = 0
          /\ decision.answer = "reject" <=> new.status = "escalated"

\* The decision of a task is made on the gate that is open.
LEMMA DecisionsAreNew ==
  ASSUME NEW t, task[t].named \in 1..MaxGates, NEW run \in SavedRun, Sound(run), run.gate # 0
  PROVE  Decides(run, Decide(run, t))
<1> DEFINE answer == IF task[t].answer = "reject" THEN "reject" ELSE "approve"
           decision == [gate |-> run.gate, named |-> task[t].named, answer |-> answer]
           new == Decide(run, t)
<1>1. /\ run.decisions \in Seq(Decision) /\ Len(run.decisions) \in Nat
      /\ run.gate = Len(run.decisions) + 1 /\ run.status = "pending" /\ decision \in Decision
  BY ApiAssumption DEF SavedRun, Sound, Decision
<1>2. /\ new.decisions = Append(run.decisions, decision) /\ new.gate = 0
      /\ new.status = IF answer = "reject" THEN "escalated" ELSE "in_progress"
  BY DEF Decide
<1>3. decision.answer = answer /\ decision.gate = run.gate
  OBVIOUS
<1> HIDE DEF decision
<1>4. Len(new.decisions) = Len(run.decisions) + 1
  BY <1>1, <1>2, AppendProperties
<1> HIDE DEF new
<1>5. decision.answer = "reject" <=> new.status = "escalated"
  BY <1>2, <1>3
<1>6. run.status \notin Ended
  BY <1>1 DEF Ended
<1> QED BY <1>1, <1>2, <1>3, <1>4, <1>5, <1>6 DEF Decides, new

\* With the file store every save decides the open gate, or nothing.
LEMMA SavesDecide ==
  ASSUME IInv, Next, backend = "file", store' # store, Loadable(store')
  PROVE  Decides(store, store')
<1>0. store \in SavedRun /\ Sound(store) /\ task \in [Tasks -> TaskRecords]
  BY DEF IInv, TypeOK, AllSound, TaskRecords
<1>1. ASSUME Restart PROVE FALSE
  BY <1>1, SurvivingRuns DEF IInv, Restart, Loadable, LostRun, NoRun
<1>2. CASE StartRun
  <2>1. store = NoRun /\ store' = NewRun
    BY <1>2 DEF StartRun, IInv, NotStarted
  <2> QED BY <2>1 DEF Decides, NoRun, NewRun, Ended
<1>3. ASSUME NEW t \in Tasks, Resume(t) PROVE Decides(store, store')
  <2>1. store.gate # 0 /\ store' = Decide(store, t)
    BY <1>3 DEF Resume, Resumed, Refused
  <2>2. task[t].named \in 1..MaxGates
    BY <1>0, <1>3, StartIsNoRequest, ApiAssumption DEF Resume, IInv, TaskStates, TaskRecords
  <2> QED BY <1>0, <2>1, <2>2, DecisionsAreNew
<1>4. ASSUME NEW t \in Tasks, Pause(t) \/ End(t) \/ Raise(t) PROVE Decides(store, store')
  <2>1. store = task[t].run /\ store.status = "in_progress"
    BY <1>4 DEF Pause, End, Raise, IInv, FileStore, TaskStates, Running
  <2>2. store = [status |-> store.status, gate |-> store.gate, decisions |-> store.decisions]
    BY <1>0 DEF SavedRun
  <2>3. store'.decisions = store.decisions
    BY <1>4, <2>1, <2>2 DEF Pause, End, Raise
  <2> QED BY <2>1, <2>3 DEF Decides, Ended
<1>5. ASSUME NEW t \in Tasks, ResumeLoaded(t) PROVE FALSE
  BY <1>5 DEF ResumeLoaded, IInv, TaskStates, Suspends
<1>6. ASSUME NEW t \in Tasks, Vanished(t) \/ Find(t) \/ Load(t) \/ LoadFails(t) PROVE FALSE
  BY <1>6 DEF Vanished, Find, Load, LoadFails
<1>7. ASSUME AnalysisFails \/ ChainEnds \/ Trigger \/ TriggerChain \/ Expire
             \/ \E t \in Requests : SubmitApproval(t)
      PROVE  FALSE
  BY <1>7 DEF AnalysisFails, ChainEnds, Trigger, TriggerChain, Expire, SubmitApproval
<1>8. ASSUME Read \/ \E c \in Clients : OpenStream(c) \/ Disconnect(c) PROVE FALSE
  BY <1>8 DEF Read, OpenStream, Disconnect, StartStream, Receive
<1>9. ASSUME Lapse PROVE FALSE
  BY <1>9 DEF Lapse, MayLapse
<1> QED BY <1>1, <1>2, <1>3, <1>4, <1>5, <1>6, <1>7, <1>8, <1>9 DEF Next, TaskStep

\* With the file store every gate is decided once, while the run waits at it; no save
\* takes a decision back, and after a rejection there is none.
THEOREM GatesDecidedOnce == Spec => DecidedOnce
<1>1. ASSUME IInv, [Next]_vars, backend = "file", Loadable(store'), store' # store
      PROVE  Decides(store, store')
  BY <1>1, SavesDecide DEF vars
<1>2. IInv /\ [Next]_vars =>
        [backend = "file" /\ Loadable(store') /\ store' # store =>
           /\ store.status \notin Ended
           /\ \/ store'.decisions = store.decisions
              \/ \E decision \in Decision :
                   /\ store'.decisions = Append(store.decisions, decision)
                   /\ decision.gate = store.gate /\ store.gate = Len(store'.decisions)
                   /\ store'.gate = 0
                   /\ decision.answer = "reject" <=> store'.status = "escalated"]_vars
  BY <1>1 DEF Decides
<1> QED BY Invariance, <1>2, PTL DEF Spec, DecidedOnce

\* The store is configured once.
LEMMA BackendStays == ASSUME Next PROVE backend' = backend
BY DEF Next, TaskStep, Read, Trigger, TriggerChain, StartRun, AnalysisFails, ChainEnds, Resume, Vanished,
       Find, Load, LoadFails, ResumeLoaded, Pause, End, Raise, StartStream, Receive, Expire, Restart,
       Lapse, SubmitApproval, OpenStream, Disconnect

\* Through the API the run saved in the file store moves as GatedRun allows: every
\* step of the server is one of GatedRun's, or leaves its variables alone.
THEOREM ServerImplementsGatedRun == Spec => ImplementsGatedRun
<1>1. ASSUME Init PROVE Run!Init
  BY <1>1, FreshRunsMove DEF Init, Run!Init, Seen, Settled
<1>2. ASSUME IInv, [Next]_vars PROVE [Run!Next]_(Run!runVars)
  <2>1. CASE UNCHANGED vars
    BY <2>1 DEF vars, Run!runVars, Seen, Condition
  <2>2. CASE Next /\ backend # "file"
    BY <2>2, BackendStays DEF Run!runVars, Seen
  <2>3. CASE Next /\ backend = "file"
    <3>1. Seen = store /\ Seen' = store' /\ (store' = store \/ Moves(store, store'))
      BY <1>2, <2>3, BackendStays, StoreMoves DEF Seen
    <3>2. CASE store' = store
      BY <3>1, <3>2 DEF Run!runVars
    <3>3. CASE Moves(store, store')
      BY <3>1, <3>3
      DEF Moves, Settled, Run!Next, Run!Ask, Run!SettleItself, Run!Approved, Run!Rejected,
          Run!Release, Run!Stop, Run!Lose, Run!runVars
    <3> QED BY <3>1, <3>2, <3>3
  <2> QED BY <1>2, <2>1, <2>2, <2>3
<1> QED BY Invariance, <1>1, <1>2, PTL DEF Spec, ImplementsGatedRun, Run!Spec

\* Whatever the environment says, the engines of the server, whose store is made from
\* its configuration, work with the store that its requests read.
THEOREM StoresAgree ==
  \A caller : \A env \in Environments :
    GetStateStore(ApiConfig(env), caller) = GetDefaultStateStore(env)
BY DEF Environments, GetStateStore, ApiConfig, GetDefaultStateStore

--------------------------------------------------------------------------------
(* Why a stream ends: it is never left with nobody to end it.  That the    *)
(* ones who can will do so is fairness, and checked as StreamsEnd.         *)

Moving == {t \in Tasks : task[t].state \in {"queued", "chain", "found", "loaded", "running"}}

Announced == \E i \in 1..Len(events) : events[i] = "complete"

\* While the queue has its entry, swarm_complete is in it, or a background task is
\* under way that will say more; or the run waits for its user or has lapsed, or could
\* not be started.
Awaited ==
  registered /\ task["start"].state # "raised" =>
    Announced \/ Moving # {} \/ store.status \in {"pending", "lost"}

\* What is in the queue stays there when something is pushed, and what is pushed comes
\* into it.
LEMMA PushedAnnounces ==
  ASSUME TypeOK, NEW seq \in Seq(Events), Push(seq)
  PROVE  /\ Announced => Announced'
         /\ registered /\ seq \in {Over, Failed} => Announced'
<1>1. events \in Seq(Events) /\ Len(events) \in Nat /\ Len(seq) \in Nat
  BY DEF TypeOK, Events
<1>2. CASE ~registered
  BY <1>2 DEF Push, Announced
<1>3. CASE registered
  <2>1. events' = events \o seq
    BY <1>3 DEF Push
  <2>2. /\ Len(events') = Len(events) + Len(seq)
        /\ \A i \in 1..Len(events) : events'[i] = events[i]
        /\ \A i \in 1..Len(seq) : events'[Len(events) + i] = seq[i]
    BY <1>1, <2>1, ConcatProperties
  <2>3. Announced => Announced'
    BY <1>1, <2>2 DEF Announced
  <2>4. ASSUME seq \in {Over, Failed} PROVE Announced'
    <3>1. Len(seq) > 0 /\ seq[Len(seq)] = "complete"
      <4>1. CASE seq = Over
        <5>1. Len(seq) = 1 /\ seq[1] = "complete"
          BY <4>1 DEF Over
        <5> QED BY <5>1
      <4>2. CASE seq = Failed
        <5>1. Len(seq) = 2 /\ seq[2] = "complete"
          BY <4>2 DEF Failed
        <5> QED BY <5>1
      <4> QED BY <2>4, <4>1, <4>2
    <3>2. events'[Len(events) + Len(seq)] = "complete"
      BY <1>1, <2>2, <3>1
    <3> QED BY <1>1, <2>2, <3>1, <3>2 DEF Announced
  <2> QED BY <2>3, <2>4
<1> QED BY <1>2, <1>3

\* A task that ends says so.
LEMMA FinishAwaited ==
  ASSUME IInv, Awaited, NEW t \in Tasks, NEW seq \in {Over, Failed},
         task' = [task EXCEPT ![t] = [NoTask EXCEPT !.state = "finished"]],
         Push(seq), registered' = registered
  PROVE  Awaited'
<1>1. registered => Announced'
  BY EndEvents, PushedAnnounces DEF IInv
<1> QED BY <1>1 DEF Awaited

\* A task that moves on is under way.
LEMMA MoveAwaited ==
  ASSUME IInv, NEW t \in Tasks, task'[t].state \in {"queued", "chain", "found", "loaded", "running"}
  PROVE  Awaited'
BY DEF Awaited, Moving

\* A resumed task is under way, or has ended and said so.
LEMMA ResumedAwaited ==
  ASSUME IInv, Awaited, NEW t \in Requests, NEW run, Resumed(t, run), registered' = registered
  PROVE  Awaited'
<1>1. t \in Tasks /\ task[t] \in TaskRecords /\ DOMAIN task = Tasks
  BY StartIsNoRequest DEF IInv, TypeOK, TaskRecords
<1>2. CASE Finish(t, Failed)
  BY <1>1, <1>2, FinishAwaited DEF Finish
<1>3. CASE task' = [task EXCEPT ![t].state = "running", ![t].run = Decide(run, t)]
  <2>1. task'[t].state = "running"
    BY <1>1, <1>3 DEF TaskRecords
  <2> QED BY <1>1, <2>1, MoveAwaited
<1> QED BY <1>2, <1>3 DEF Resumed

\* The background tasks.
LEMMA TaskAwaited == ASSUME IInv, Awaited, TaskStep PROVE Awaited'
<1>0. /\ task \in [Tasks -> TaskRecords] /\ store \in SavedRun
      /\ "start" \in Tasks /\ Requests \subseteq Tasks
  BY StartIsNoRequest DEF IInv, TypeOK, TaskRecords
<1>1. CASE StartRun
  <2>1. task' = [task EXCEPT !["start"].state = "running", !["start"].run = NewRun]
    BY <1>1 DEF StartRun
  <2>2. task'["start"].state = "running"
    BY <1>0, <2>1 DEF TaskRecords
  <2> QED BY <1>0, <2>2, MoveAwaited
<1>2. CASE AnalysisFails
  <2>1. task' = [task EXCEPT !["start"].state = "raised"]
    BY <1>2 DEF AnalysisFails
  <2>2. task'["start"].state = "raised"
    BY <1>0, <2>1 DEF TaskRecords
  <2> QED BY <2>2 DEF Awaited
<1>3. CASE ChainEnds
  BY <1>0, <1>3, FinishAwaited DEF ChainEnds, Finish
<1>4. ASSUME NEW t \in Tasks, Resume(t) PROVE Awaited'
  BY <1>4, ResumedAwaited DEF Resume
<1>5. ASSUME NEW t \in Tasks, Vanished(t) PROVE Awaited'
  BY <1>5, FinishAwaited DEF Vanished
<1>6. ASSUME NEW t \in Tasks, Find(t) \/ Load(t) PROVE Awaited'
  <2>1. \/ task' = [task EXCEPT ![t].state = "found"]
        \/ task' = [task EXCEPT ![t].state = "loaded", ![t].run = store]
    BY <1>6 DEF Find, Load
  <2>2. task'[t].state \in {"found", "loaded"}
    BY <1>0, <2>1 DEF TaskRecords
  <2> QED BY <2>2, MoveAwaited
<1>7. ASSUME NEW t \in Tasks, LoadFails(t) PROVE Awaited'
  BY <1>7, FinishAwaited DEF LoadFails, Finish
<1>8. ASSUME NEW t \in Tasks, ResumeLoaded(t) PROVE Awaited'
  <2>1. t \in Requests
    BY <1>8 DEF ResumeLoaded, IInv, TaskStates
  <2> QED BY <1>8, <2>1, ResumedAwaited DEF ResumeLoaded
<1>9. ASSUME NEW t \in Tasks, Pause(t) PROVE Awaited'
  <2>1. store' = [task[t].run EXCEPT !.status = "pending", !.gate = Len(task[t].run.decisions) + 1]
    BY <1>9 DEF Pause
  <2>2. store'.status = "pending"
    BY <1>0, <2>1 DEF TaskRecords, SavedRun
  <2> QED BY <2>2 DEF Awaited
<1>10. ASSUME NEW t \in Tasks, End(t) \/ Raise(t) PROVE Awaited'
  BY <1>10, FinishAwaited DEF End, Raise, Finish
<1> QED BY <1>1, <1>2, <1>3, <1>4, <1>5, <1>6, <1>7, <1>8, <1>9, <1>10 DEF TaskStep

\* Everybody else: readers give the entry up with swarm_complete, and a dead server has
\* none.
LEMMA OthersAwaited ==
  ASSUME IInv, Awaited,
         \/ Trigger \/ TriggerChain \/ Read \/ Expire \/ Restart \/ Lapse
         \/ \E t \in Requests : SubmitApproval(t)
         \/ \E c \in Clients : OpenStream(c) \/ Disconnect(c)
  PROVE  Awaited'
<1>0. /\ task \in [Tasks -> TaskRecords] /\ events \in Seq(Events)
      /\ "start" \in Tasks /\ Requests \subseteq Tasks
  BY StartIsNoRequest DEF IInv, TypeOK, TaskRecords, Events
<1>1. CASE Trigger \/ TriggerChain
  <2>1. \E state \in {"queued", "chain"} : task' = [task EXCEPT !["start"].state = state]
    BY <1>1 DEF Trigger, TriggerChain
  <2>2. task'["start"].state \in {"queued", "chain"}
    BY <1>0, <2>1 DEF TaskRecords
  <2> QED BY <1>0, <2>2, MoveAwaited
<1>2. ASSUME NEW t \in Requests, SubmitApproval(t) PROVE Awaited'
  <2>1. \E gate, answer :
          task' = [task EXCEPT ![t].state = "queued", ![t].named = gate, ![t].answer = answer]
    BY <1>2 DEF SubmitApproval
  <2>2. t \in Tasks /\ task'[t].state = "queued"
    BY <1>0, <2>1 DEF TaskRecords
  <2> QED BY <2>2, MoveAwaited
<1>3. ASSUME NEW c \in Clients, Receive(c) PROVE Awaited'
  <2>1. /\ events # <<>> /\ events' = Tail(events) /\ UNCHANGED <<store, task>>
        /\ registered' = (registered /\ Head(events) # "complete")
    BY <1>3 DEF Receive
  <2>2. ASSUME Announced, Head(events) # "complete" PROVE Announced'
    <3>1. PICK i \in 1..Len(events) : events[i] = "complete"
      BY <2>2 DEF Announced
    <3>2. i # 1
      BY <1>0, <2>2, <3>1
    <3>3. i - 1 \in 1..Len(Tail(events)) /\ Tail(events)[i - 1] = events[i]
      BY <1>0, <2>1, <3>1, <3>2
    <3> QED BY <2>1, <3>1, <3>3 DEF Announced
  <2>3. Moving' = Moving
    BY <2>1 DEF Moving
  <2> QED BY <2>1, <2>2, <2>3 DEF Awaited
<1>4. CASE Expire \/ Restart \/ (\E c \in Clients : Disconnect(c))
  <2>1. registered' = FALSE
    BY <1>4 DEF Expire, Restart, Disconnect
  <2> QED BY <2>1 DEF Awaited
<1>5. CASE Lapse
  <2>1. store'.status = "lost"
    BY <1>5 DEF Lapse, LostRun, NoRun
  <2> QED BY <2>1 DEF Awaited
<1>6. CASE \E c \in Clients : OpenStream(c) \/ StartStream(c)
  <2>1. UNCHANGED <<registered, events, task, store>>
    BY <1>6 DEF OpenStream, StartStream
  <2> QED BY <2>1 DEF Awaited, Announced, Moving
<1> QED BY <1>1, <1>2, <1>3, <1>4, <1>5, <1>6 DEF Read

\* However requests, tasks, readers, timer and the death of the server interleave, no
\* stream waits on a queue that nobody will close: as long as the queue has its entry,
\* it holds swarm_complete or a background task is at work, unless the run waits for
\* its user, has lapsed or could not be started.
THEOREM StreamsAreAwaited == Spec => []Awaited
<1>1. Init => Awaited
  BY DEF Init, Awaited
<1>2. IInv /\ Awaited /\ [Next]_vars => Awaited'
  <2> SUFFICES ASSUME IInv, Awaited, [Next]_vars PROVE Awaited'
    OBVIOUS
  <2>1. CASE UNCHANGED vars
    BY <2>1 DEF vars, Awaited, Announced, Moving
  <2>2. CASE Next
    BY <2>2, TaskAwaited, OthersAwaited DEF Next
  <2> QED BY <2>1, <2>2
<1> QED BY <1>1, <1>2, Invariance, PTL DEF Spec
================================================================================
