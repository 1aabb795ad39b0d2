------------------------------ MODULE ApprovalApi ------------------------------
(***************************************************************************)
(* One task in the API server, apps/api/main.py: the requests that start   *)
(* it and decide on its gates, the background task each of them leaves     *)
(* behind, the queue of events its clients read, and the key the server    *)
(* keeps for it.  An autonomous run is that of GatedRun: a background task *)
(* drives it to the next gate or to its end.  A plain chain of agents has  *)
(* no run state and no gates.                                              *)
(*                                                                         *)
(* A request is answered before its background task starts, so requests    *)
(* and tasks interleave.  With the file store no load or save suspends its *)
(* task: resume_autonomous loads the run, checks the gate and saves the    *)
(* decision in one step.  With the Redis store each of them suspends, and  *)
(* the loads are steps of their own.                                       *)
(*                                                                         *)
(* The server may die at any moment and is started again: queues, keys,    *)
(* timers, tasks and streams are gone, and what it saved is what the store *)
(* makes of a save that was cut off.  A saved run may lapse in Redis.      *)
(***************************************************************************)
EXTENDS Naturals, FiniteSets, SequencesExt, StateStore

CONSTANTS
  Requests,       \* approval requests a server may get for the task
  Clients,        \* clients that open the task's event stream
  MaxGates,       \* gates at which the run may pause
  MaxRestarts,    \* how often the server may die
  Backends        \* state stores the server may be configured with

ASSUME ApiAssumption ==
  /\ {MaxGates, MaxRestarts} \subseteq Nat
  /\ Backends \subseteq {GetDefaultStateStore(env).kind : env \in Environments}
  /\ "start" \notin Requests

\* The background tasks: execute_autonomous_swarm_inner or execute_swarm_inner for
\* the request that starts the task, execute_autonomous_resume_inner for every
\* approval.
Tasks == Requests \cup {"start"}

VARIABLES
  backend,      \* the state store the server is configured with
  store,        \* the saved run
  task,         \* task -> its state, its request, the run in its memory
  clarifies,    \* the first gate is a clarification
  registered,   \* the task has an entry in event_queues
  events,       \* the queue itself, which readers keep when the entry is gone
  key,          \* the task has an entry in task_api_keys
  expired,      \* the entries' one timer has fired, or died with the server
  client,       \* client -> its stream
  restarts      \* how often the server has died

vars == <<backend, store, task, clarifies, registered, events, key, expired, client,
          restarts>>

\* gate is the id of the pending gate, or 0; a decision records the gate it was
\* applied to and the gate_id the request named.
NoRun    == [status |-> "absent", gate |-> 0, decisions |-> <<>>]
NewRun   == [NoRun EXCEPT !.status = "in_progress"]
LostRun  == [NoRun EXCEPT !.status = "lost"]
Ended    == {"done", "escalated"}
Answers  == {"approve", "reject", "blank"}
Decision == [gate : 1..MaxGates, named : 1..MaxGates, answer : {"approve", "reject"}]
SavedRun == [status : {"absent", "lost", "in_progress", "pending"} \cup Ended,
             gate : 0..MaxGates, decisions : Seq(Decision)]
Loadable(run) == run.status \notin {"absent", "lost"}

NoTask   == [state |-> "none", named |-> 0, answer |-> "blank", run |-> NoRun]

Init ==
  /\ backend \in Backends
  /\ store = NoRun
  /\ task = [t \in Tasks |-> NoTask]
  /\ clarifies \in BOOLEAN
  /\ registered = FALSE
  /\ events = <<>>
  /\ key = FALSE
  /\ expired = FALSE
  /\ client = [c \in Clients |-> "none"]
  /\ restarts = 0

--------------------------------------------------------------------------------
(* Requests.                                                               *)

\* trigger_autonomous_swarm
Trigger ==
  /\ task["start"].state = "none"
  /\ task' = [task EXCEPT !["start"].state = "queued"]
  /\ registered' = TRUE
  /\ key' = TRUE
  /\ UNCHANGED <<backend, store, clarifies, events, expired, client, restarts>>

\* trigger_swarm: the chain's key is not kept in the table.
TriggerChain ==
  /\ task["start"].state = "none"
  /\ task' = [task EXCEPT !["start"].state = "chain"]
  /\ registered' = TRUE
  /\ UNCHANGED <<backend, store, clarifies, events, key, expired, client, restarts>>

NamesPendingGate(gate) == store.gate # 0 /\ store.gate = gate

\* submit_approval: refused with 404 or 409 unless the run can be loaded and the
\* request names its pending gate.  The gate stays pending until the background
\* task takes it.  The request may bring a key; it is the one that is kept.
SubmitApproval(t) ==
  /\ t \in Requests
  /\ task[t].state = "none"
  /\ \E gate \in 1..MaxGates, answer \in Answers :
       /\ NamesPendingGate(gate)
       /\ task' = [task EXCEPT ![t].state = "queued", ![t].named = gate, ![t].answer = answer]
  /\ key' = TRUE
  /\ UNCHANGED <<backend, store, clarifies, registered, events, expired, client, restarts>>

--------------------------------------------------------------------------------
(* Background tasks.                                                       *)

\* _push_event: dropped when the queue has no entry any more.
Push(seq) == events' = IF registered THEN events \o seq ELSE events

\* Mutation: the key is forgotten only with a run that failed.
FinishKeepingKey(t, seq) ==
  /\ task' = [task EXCEPT ![t] = [NoTask EXCEPT !.state = "finished"]]
  /\ Push(seq)
  /\ key' = (key /\ seq = <<"complete">>)

\* Mutation: the task ends without a word.
FinishSilently(t, seq) ==
  /\ task' = [task EXCEPT ![t] = [NoTask EXCEPT !.state = "finished"]]
  /\ Push(SubSeq(seq, 1, Len(seq) - 1))
  /\ key' = FALSE

\* The end of a background task that found the run ended, or that caught an
\* exception: the key is forgotten, and swarm_complete is the last event.
Finish(t, seq) ==
  /\ task' = [task EXCEPT ![t] = [NoTask EXCEPT !.state = "finished"]]
  /\ Push(seq)
  /\ key' = FALSE

Over   == <<"complete">>
Failed == <<"failed", "complete">>

\* run_autonomous saves the run and works on it.
StartRun ==
  /\ task["start"].state = "queued"
  /\ store' = NewRun
  /\ task' = [task EXCEPT !["start"].state = "running", !["start"].run = NewRun]
  /\ UNCHANGED <<backend, clarifies, registered, events, key, expired, client, restarts>>

\* analyze raises before the try of the background task: nothing is said, and the
\* key stays.
AnalysisFails ==
  /\ task["start"].state \in {"queued", "chain"}
  /\ task' = [task EXCEPT !["start"].state = "raised"]
  /\ UNCHANGED <<backend, store, clarifies, registered, events, key, expired, client, restarts>>

\* execute_swarm_inner: the chain returns or raises.
ChainEnds ==
  /\ task["start"].state = "chain"
  /\ store' = store
  /\ Finish("start", Over)
  /\ UNCHANGED <<backend, clarifies, registered, expired, client, restarts>>

\* Mutation: only the answer is checked.
RefusedBlankOnly(run, answer) == answer = "blank" /\ clarifies /\ run.gate <= 1

\* resume_autonomous refuses: no gate is pending, or a clarification has no answer.
Refused(run, answer) ==
  \/ run.gate = 0
  \/ answer = "blank" /\ clarifies /\ run.gate = 1

\* Mutation: the decided gate stays pending.
DecideKeepsGate(run, t) ==
  [status |-> IF task[t].answer = "reject" THEN "escalated" ELSE "in_progress",
   gate |-> run.gate,
   decisions |-> Append(run.decisions,
                        [gate |-> run.gate, named |-> task[t].named,
                         answer |-> IF task[t].answer = "reject" THEN "reject" ELSE "approve"])]

\* Mutation: a rejected run goes on.
DecideGoesOn(run, t) ==
  [status |-> "in_progress", gate |-> 0,
   decisions |-> Append(run.decisions,
                        [gate |-> run.gate, named |-> task[t].named,
                         answer |-> IF task[t].answer = "reject" THEN "reject" ELSE "approve"])]

\* A blank comment is an approval like any other of a gate that asks nothing.
Decide(run, t) ==
  LET answer == IF task[t].answer = "reject" THEN "reject" ELSE "approve"
  IN  [status |-> IF answer = "reject" THEN "escalated" ELSE "in_progress",
       gate |-> 0,
       decisions |-> Append(run.decisions,
                            [gate |-> run.gate, named |-> task[t].named, answer |-> answer])]

\* What a resumed task does with the run it has loaded.
Resumed(t, run) ==
  \/ /\ Refused(run, task[t].answer)
     /\ store' = store
     /\ Finish(t, Failed)
  \/ /\ ~Refused(run, task[t].answer)
     /\ task[t].answer = "reject"
     /\ store' = Decide(run, t)
     /\ Finish(t, Failed)
  \/ /\ ~Refused(run, task[t].answer)
     /\ task[t].answer # "reject"
     /\ store' = Decide(run, t)
     /\ task' = [task EXCEPT ![t].state = "running", ![t].run = Decide(run, t)]
     /\ UNCHANGED <<events, key>>

\* execute_autonomous_resume_inner finds no run: it says so, and keeps the key.
Vanished(t) ==
  /\ t \in Requests
  /\ task[t].state = "queued"
  /\ ~Loadable(store)
  /\ task' = [task EXCEPT ![t] = [NoTask EXCEPT !.state = "finished"]]
  /\ Push(Over)
  /\ UNCHANGED <<backend, store, clarifies, registered, key, expired, client, restarts>>

\* With the file store the run is found, loaded, checked and saved at once.
Resume(t) ==
  /\ ~Suspends(backend)
  /\ t \in Requests
  /\ task[t].state = "queued"
  /\ Loadable(store)
  /\ Resumed(t, store)
  /\ UNCHANGED <<backend, clarifies, registered, expired, client, restarts>>

\* With the Redis store it is found ...
Find(t) ==
  /\ Suspends(backend)
  /\ t \in Requests
  /\ task[t].state = "queued"
  /\ Loadable(store)
  /\ task' = [task EXCEPT ![t].state = "found"]
  /\ UNCHANGED <<backend, store, clarifies, registered, events, key, expired, client, restarts>>

\* ... loaded by resume_autonomous ...
Load(t) ==
  /\ task[t].state = "found"
  /\ Loadable(store)
  /\ task' = [task EXCEPT ![t].state = "loaded", ![t].run = store]
  /\ UNCHANGED <<backend, store, clarifies, registered, events, key, expired, client, restarts>>

\* ... which raises if it has lapsed in the meantime ...
LoadFails(t) ==
  /\ task[t].state = "found"
  /\ ~Loadable(store)
  /\ store' = store
  /\ Finish(t, Failed)
  /\ UNCHANGED <<backend, clarifies, registered, expired, client, restarts>>

\* ... and checked and saved later.
ResumeLoaded(t) ==
  /\ task[t].state = "loaded"
  /\ Resumed(t, task[t].run)
  /\ UNCHANGED <<backend, clarifies, registered, expired, client, restarts>>

\* The run pauses at its next gate; the task ends and says no more.
Pause(t) ==
  /\ task[t].state = "running"
  /\ Len(task[t].run.decisions) < MaxGates
  /\ store' = [task[t].run EXCEPT !.status = "pending", !.gate = Len(task[t].run.decisions) + 1]
  /\ task' = [task EXCEPT ![t] = [NoTask EXCEPT !.state = "finished"]]
  /\ Push(<<"gate">>)
  /\ UNCHANGED <<backend, clarifies, registered, key, expired, client, restarts>>

\* The run ends DONE or ESCALATED.
End(t) ==
  /\ task[t].state = "running"
  /\ \E status \in Ended : store' = [task[t].run EXCEPT !.status = status]
  /\ Finish(t, Over)
  /\ UNCHANGED <<backend, clarifies, registered, expired, client, restarts>>

\* An exception leaves the engine; the saved run stays in_progress for good.
Raise(t) ==
  /\ task[t].state = "running"
  /\ store' = store
  /\ Finish(t, Failed)
  /\ UNCHANGED <<backend, clarifies, registered, expired, client, restarts>>

--------------------------------------------------------------------------------
(* Clients and the timer.                                                  *)

\* swarm_events answers while the queue has its entry ...
OpenStream(c) ==
  /\ client[c] = "none"
  /\ registered
  /\ client' = [client EXCEPT ![c] = "opened"]
  /\ UNCHANGED <<backend, store, task, clarifies, registered, events, key, expired, restarts>>

\* ... but its generator looks the entry up again when it starts.
StartStream(c) ==
  /\ client[c] = "opened"
  /\ client' = [client EXCEPT ![c] = IF registered THEN "streaming" ELSE "broken"]
  /\ UNCHANGED <<backend, store, task, clarifies, registered, events, key, expired, restarts>>

\* One reader takes each event; the one that takes swarm_complete ends, and
\* removes the entry.
Receive(c) ==
  /\ client[c] = "streaming"
  /\ events # <<>>
  /\ events' = Tail(events)
  /\ client' = [client EXCEPT ![c] = IF Head(events) = "complete" THEN "closed" ELSE @]
  /\ registered' = (registered /\ Head(events) # "complete")
  /\ UNCHANGED <<backend, store, task, clarifies, key, expired, restarts>>

\* A client that goes away removes the entry too.
Disconnect(c) ==
  /\ client[c] = "streaming"
  /\ client' = [client EXCEPT ![c] = "closed"]
  /\ registered' = FALSE
  /\ UNCHANGED <<backend, store, task, clarifies, events, key, expired, restarts>>

\* _expire_task_state, once, _QUEUE_TTL_SECONDS after the start.
Expire ==
  /\ task["start"].state # "none"
  /\ ~expired
  /\ expired' = TRUE
  /\ registered' = FALSE
  /\ key' = FALSE
  /\ UNCHANGED <<backend, store, task, clarifies, events, client, restarts>>

--------------------------------------------------------------------------------
(* The server dies; the store forgets.                                     *)

\* A queued approval that resume_autonomous will not refuse.
Accepted(t) ==
  t \in Requests /\ task[t].state = "queued" /\ Loadable(store) /\ ~Refused(store, task[t].answer)

\* Some task may be in the middle of a save: an engine saves at every turn of its
\* loop, the others with the first step they take.
Saving ==
  \/ task["start"].state = "queued"
  \/ \E t \in Tasks : task[t].state = "running" \/ Accepted(t)

\* Mutation: the server that starts again closes what it finds unfinished.
SurvivorsClosed ==
  {IF run.status = "pending" THEN [run EXCEPT !.status = "escalated", !.gate = 0] ELSE run :
     run \in AfterCrash(backend, store, Saving, LostRun, NoRun)}

Survivors == AfterCrash(backend, store, Saving, LostRun, NoRun)

Restart ==
  /\ task["start"].state # "none"
  /\ restarts < MaxRestarts
  /\ restarts' = restarts + 1
  /\ store' \in Survivors
  /\ task' = [t \in Tasks |->
       IF task[t].state \in {"none", "raised"} THEN task[t] ELSE [NoTask EXCEPT !.state = "finished"]]
  /\ registered' = FALSE
  /\ events' = <<>>
  /\ key' = FALSE
  /\ expired' = TRUE
  /\ client' = [c \in Clients |->
       IF client[c] \in {"opened", "streaming"} THEN "broken" ELSE client[c]]
  /\ UNCHANGED <<backend, clarifies>>

\* A saved run lapses.
Lapse ==
  /\ MayLapse(backend)
  /\ Loadable(store)
  /\ store' = LostRun
  /\ UNCHANGED <<backend, task, clarifies, registered, events, key, expired, client, restarts>>

--------------------------------------------------------------------------------
TaskStep ==
  \/ StartRun \/ AnalysisFails \/ ChainEnds
  \/ \E t \in Tasks : \/ Resume(t) \/ Vanished(t) \/ Find(t) \/ Load(t) \/ LoadFails(t)
                      \/ ResumeLoaded(t) \/ Pause(t) \/ End(t) \/ Raise(t)

Read == \E c \in Clients : StartStream(c) \/ Receive(c)

Next ==
  \/ Trigger \/ TriggerChain \/ TaskStep \/ Read \/ Expire \/ Restart \/ Lapse
  \/ \E t \in Requests : SubmitApproval(t)
  \/ \E c \in Clients : OpenStream(c) \/ Disconnect(c)

Spec == Init /\ [][Next]_vars

(* The event loop runs every background task that can move, and every     *)
(* generator whose queue has an event.  Nobody must submit, or connect,   *)
(* and nothing must fail.                                                  *)
FairSpec == Spec /\ WF_vars(TaskStep) /\ WF_vars(Read)

--------------------------------------------------------------------------------
(* What the server promises.                                               *)

\* Every variable keeps its type; the counts of gates and decisions stay in range.
TypeOK ==
  /\ store \in SavedRun
  /\ task \in [Tasks -> [state : {"none", "queued", "chain", "found", "loaded", "running",
                                   "finished", "raised"},
                         named : 0..MaxGates, answer : Answers, run : SavedRun]]
  /\ {clarifies, registered, key, expired} \subseteq BOOLEAN
  /\ events \in Seq({"gate", "failed", "complete"})
  /\ client \in [Clients -> {"none", "opened", "streaming", "closed", "broken"}]

Running == {t \in Tasks : task[t].state = "running"}

\* However often and however late approvals are submitted, with the file store one
\* engine at a time works on the run, and only while it is saved as in progress.
OneEngine ==
  backend = "file" =>
    /\ Cardinality(Running) <= 1
    /\ Running # {} => store.status = "in_progress" /\ store.gate = 0

\* With the file store every gate is decided once: a save keeps the decisions that are
\* there, and adds one only to a gate that the saved run waits at, the next in order.  A
\* rejection escalates the run, and a run that has ended is not saved again.  (With the
\* Redis store two engines decide one gate and save over each other: NeverTwoEngines.)
DecidedOnce ==
  [][backend = "file" /\ Loadable(store') /\ store' # store =>
       /\ store.status \notin Ended
       /\ \/ store'.decisions = store.decisions
          \/ \E decision \in Decision :
               /\ store'.decisions = Append(store.decisions, decision)
               /\ decision.gate = store.gate /\ store.gate = Len(store'.decisions)
               /\ store'.gate = 0
               /\ decision.answer = "reject" <=> store'.status = "escalated"]_vars

Idle == \A t \in Tasks : task[t].state \in {"none", "finished", "raised"}

\* When a run has ended and its background tasks are over, the server holds no
\* key for it, expired or not.
KeyForgotten == store.status \in Ended /\ Idle => ~key

\* With the file store a gate waits for its decision: as long as no approval of it is
\* on its way, nothing changes the saved run, neither late or refused approvals, nor
\* the end of its streams, its queue and its key, nor the death of the server.
WaitingGateKept ==
  [][backend = "file" /\ store.status = "pending" /\ ~(\E t \in Tasks : Accepted(t)) =>
       store' = store]_vars

\* A stream ends, unless its run waits for a user, has lapsed or could not be
\* started, or another reader or the timer has given up the queue.
StreamsEnd ==
  \A c \in Clients :
    client[c] = "streaming" ~>
      \/ client[c] # "streaming" \/ ~registered
      \/ store.status \in {"pending", "lost"} \/ task["start"].state = "raised"

Condition(status) == CASE status \in {"absent", "in_progress"} -> "working"
                       [] status = "pending" -> "waiting"
                       [] status = "lost"    -> "gone"
                       [] status = "done"    -> "released"
                       [] OTHER              -> "stopped"

\* The saved run as GatedRun sees it: with the Redis store, where engines save
\* over each other (see NeverTwoEngines), it sees none.
Seen == IF backend = "file" THEN store ELSE NewRun

Run == INSTANCE GatedRun WITH
  Gates     <- 1..MaxGates,
  NoOpen    <- 0,
  required  <- {},
  condition <- Condition(Seen.status),
  open      <- Seen.gate,
  settled   <- {i \in 1..Len(Seen.decisions) : Seen.decisions[i].answer = "approve"}

\* Through the API, too, the run saved in the file store moves as GatedRun allows,
\* restarts of the server included: only a run in the middle of a save can be lost.
ImplementsGatedRun == Run!Spec

\* resume_autonomous refuses a run without a pending gate, so that, whatever the
\* store, no two engines work on one run.
NeverTwoEngines == Cardinality(Running) <= 1

\* A decision is applied to the gate the request named (AUTONOMOUS.md: "API
\* approvals should submit the current gate_id").
DecisionFitsGate ==
  \A i \in 1..Len(store.decisions) : store.decisions[i].gate = store.decisions[i].named

\* swarm_complete is in the queue only once no engine works on the run and no
\* gate of it waits (the dashboard answers it with "SWARM COMPLETE" and closes).
CompleteMeansEnded ==
  (\E i \in 1..Len(events) : events[i] = "complete") =>
    Running = {} /\ store.status # "pending"
================================================================================
