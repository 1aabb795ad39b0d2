--------------------------- MODULE SequentialRunProofs ---------------------------
(***************************************************************************)
(* Theorems about SequentialRun, for every set of roles, length of a chain *)
(* and number of calls.                                                    *)
(***************************************************************************)
EXTENDS SequentialRun, SequenceTheorems, TLAPS

\* What is known at each place of a call.
Place ==
  /\ at # "idle" => call > 0 /\ ended = "none"
  /\ at = "invoked" => Len(results) < Len(chain) /\ checkpoint \in {results, NoContext}
  /\ at = "answered" =>
       /\ Len(results) < Len(chain)
       /\ \E status \in Statuses : answer = AnswerOf(status)
       /\ checkpoint \in {Append(results, answer), NoContext}

\* A strict call that is at work has met no escalation.
NoneEscalated ==
  at # "idle" /\ strict => \A i \in 1..Len(results) : results[i].status # "escalated"

\* The files of this call are its results, one for each of them, unless the file of
\* the answer was cut off, which ended the call.
Files ==
  /\ \A r \in Roles : published[r].call <= call
  /\ \A r \in Roles : published[r].call = call /\ call > 0 =>
       \/ \E i \in 1..Len(results) : results[i] = published[r]
       \/ /\ published[r].status = "torn" /\ at = "idle" /\ answer \in Results
          /\ r = answer.role /\ checkpoint \in {Append(results, answer), NoContext}
  /\ \A i \in 1..Len(results) : published[results[i].role].call = call

\* The checkpoint is lost or of an earlier call, or holds the results of this one, with
\* or without the answer that is not recorded yet.
Checkpoint ==
  /\ \A i \in 1..Len(checkpoint) : checkpoint[i].call <= call
  /\ \/ results = <<>> /\ \A i \in 1..Len(checkpoint) : checkpoint[i].call < call
     \/ checkpoint \in {results, TornContext, NoContext}
     \/ answer \in Results /\ checkpoint = Append(results, answer)

IInv == TypeOK /\ Place /\ WholeOrHalted /\ NoneEscalated /\ Files /\ Checkpoint

\* No result is NoResult, so no saved context is NoContext or TornContext.
LEMMA CallsOfResults ==
  /\ NoResult.call = 0 /\ NoResult \notin Results
  /\ \A e \in Results : e.call \in Nat \ {0} /\ e.role \in Roles /\ e.status \in Statuses
BY ChainAssumption DEF NoResult, Results

\* A checkpoint is a sequence whose members have calls.
LEMMA CheckpointType ==
  ASSUME TypeOK
  PROVE  /\ Len(checkpoint) \in Nat
         /\ \A i \in 1..Len(checkpoint) : checkpoint[i].call \in Nat
         /\ Len(results) \in Nat /\ Len(chain) \in Nat /\ call \in Nat
         /\ \A r \in Roles : published[r].call \in Nat
<1>1. /\ Len(checkpoint) \in Nat
      /\ \A i \in 1..Len(checkpoint) : checkpoint[i].call \in Nat
  <2>1. CASE checkpoint \in Seq(Results)
    BY <2>1, CallsOfResults
  <2>2. CASE checkpoint \in {NoContext, TornContext}
    BY <2>2 DEF NoContext, TornContext, NoResult
  <2> QED BY <2>1, <2>2 DEF TypeOK
<1>2. Len(results) \in Nat /\ Len(chain) \in Nat /\ call \in Nat
  BY ChainAssumption DEF TypeOK
<1>3. \A r \in Roles : published[r].call \in Nat
  BY CallsOfResults DEF TypeOK, TornResults
<1> QED BY <1>1, <1>2, <1>3

\* Before the first call there is nothing.
LEMMA InitIInv == ASSUME Init PROVE IInv
<1>1. TypeOK
  BY ChainAssumption DEF Init, TypeOK
<1>2. Place /\ WholeOrHalted /\ NoneEscalated
  BY DEF Init, Place, WholeOrHalted, NoneEscalated
<1>3. Files
  BY CallsOfResults DEF Init, Files
<1>4. Checkpoint
  BY CallsOfResults DEF Init, Checkpoint, NoContext
<1> QED BY <1>1, <1>2, <1>3, <1>4 DEF IInv

\* A call starts with no results, and whatever is saved is from before it.
LEMMA BeginKeeps ==
  ASSUME IInv, Begin, results' = <<>>, strict' \in BOOLEAN
  PROVE  IInv'
<1>1. call \in Nat /\ call' = call + 1 /\ call' \in 0..MaxCalls
  BY ChainAssumption DEF IInv, TypeOK, Begin
<1>2. chain' \in Seq(Roles)
  BY ChainAssumption DEF Begin, BoundedSeq, SeqOf
<1>3. TypeOK'
  BY <1>1, <1>2 DEF IInv, TypeOK, Begin
<1>4. Place' /\ WholeOrHalted' /\ NoneEscalated'
  BY <1>1 DEF Begin, Place, WholeOrHalted, NoneEscalated
<1>5. \A r \in Roles : published[r].call \in Nat
  BY CheckpointType DEF IInv
<1>6. Files'
  BY <1>1, <1>5 DEF IInv, Files, Begin
<1>7. Checkpoint'
  BY <1>1, CheckpointType DEF IInv, Checkpoint, Begin
<1> QED BY <1>3, <1>4, <1>6, <1>7 DEF IInv

\* Before an invocation, the results are saved.
LEMMA InvokeKeeps == ASSUME IInv, Invoke PROVE IInv'
<1>1. TypeOK'
  BY DEF IInv, TypeOK, Invoke
<1>2. Place' /\ WholeOrHalted' /\ NoneEscalated' /\ Files'
  BY DEF IInv, Place, WholeOrHalted, NoneEscalated, Files, Invoke
<1>3. Checkpoint'
  BY CheckpointType DEF IInv, TypeOK, WholeOrHalted, Checkpoint, Invoke
<1> QED BY <1>1, <1>2, <1>3 DEF IInv

\* With the answer, the results and the answer are.
LEMMA AnswersKeeps == ASSUME IInv, Answers PROVE IInv'
<1>1. answer' \in Results /\ answer'.call = call
  <2>1. PICK status \in Statuses : answer' = AnswerOf(status)
    BY DEF Answers
  <2>2. Len(results) + 1 \in 1..Len(chain) /\ call \in 1..MaxCalls
    BY CheckpointType DEF IInv, TypeOK, Place, Answers
  <2>3. chain[Len(results) + 1] \in Roles
    BY <2>2 DEF IInv, TypeOK
  <2> QED BY <2>1, <2>2, <2>3 DEF AnswerOf, Results
<1>2. /\ checkpoint' \in Seq(Results) /\ Len(checkpoint') = Len(results) + 1
      /\ \A i \in 1..Len(results) : checkpoint'[i] = results[i]
      /\ checkpoint'[Len(results) + 1] = answer'
  BY <1>1, AppendProperties DEF IInv, TypeOK, Answers
<1>3. TypeOK'
  BY <1>1, <1>2 DEF IInv, TypeOK, Answers
<1>4. Place'
  BY DEF IInv, Place, Answers, AnswerOf
<1>5. WholeOrHalted' /\ NoneEscalated' /\ Files'
  BY DEF IInv, WholeOrHalted, NoneEscalated, Files, Answers
<1>6. Checkpoint'
  <2>1. \A i \in 1..Len(checkpoint') : checkpoint'[i].call <= call
    BY <1>1, <1>2, CheckpointType DEF IInv, WholeOrHalted
  <2>2. results' = results /\ call' = call /\ checkpoint' = Append(results, answer')
    BY DEF Answers
  <2> QED BY <1>1, <2>1, <2>2 DEF Checkpoint
<1> QED BY <1>3, <1>4, <1>5, <1>6 DEF IInv

\* The answer becomes a result, and its file is written.
LEMMA RecordKeeps == ASSUME IInv, Record PROVE IInv'
<1>1. PICK status \in Statuses : answer = AnswerOf(status)
  BY DEF IInv, Place, Record
<1>2. Len(results) + 1 \in 1..Len(chain) /\ call \in 1..MaxCalls
  BY CheckpointType DEF IInv, TypeOK, Place, Record
<1>3. chain[Len(results) + 1] \in Roles
  BY <1>2 DEF IInv, TypeOK
<1>4. answer \in Results /\ answer.call = call /\ answer.role = chain[Len(results) + 1]
  BY <1>1, <1>2, <1>3 DEF AnswerOf, Results
<1>5. /\ results' \in Seq(Results) /\ Len(results') = Len(results) + 1
      /\ \A i \in 1..Len(results) : results'[i] = results[i]
      /\ results'[Len(results) + 1] = answer
  BY <1>4, AppendProperties DEF IInv, TypeOK, Record
<1>6. /\ at' \in {"idle", "working"} /\ ended' \in {"none", "returned"}
      /\ at' = "working" => ~Halts /\ ended' = "none"
      /\ at' = "idle" => Halts
      /\ checkpoint' \in {results', NoContext} /\ call' = call /\ call > 0
      /\ chain' = chain /\ strict' = strict /\ answer' = answer /\ kind' = kind
  BY DEF IInv, Place, Record
<1>7. published' = [published EXCEPT ![answer.role] = answer]
  BY DEF Record
<1>8. TypeOK'
  BY <1>2, <1>4, <1>5, <1>6, <1>7 DEF IInv, TypeOK
<1>9. Place'
  BY <1>6 DEF Place
<1>10. NoneEscalated'
  BY <1>4, <1>5, <1>6, CheckpointType DEF IInv, NoneEscalated, Halts, Record
<1>11. WholeOrHalted'
  <2>1. \A i \in 1..Len(results') : results'[i].role = chain[i] /\ results'[i].call = call
    BY <1>4, <1>5, CheckpointType DEF IInv, WholeOrHalted
  <2>2. strict => \A i \in 1..Len(results') :
                    results'[i].status = "escalated" => i = Len(results')
    BY <1>5, CheckpointType DEF IInv, NoneEscalated, Record
  <2>3. ended' = "returned" => strict /\ results' # <<>> /\ Last(results').status = "escalated"
    BY <1>5, <1>6, CheckpointType DEF IInv, Place, Record, Halts, Last
  <2> QED BY <1>6, <2>1, <2>2, <2>3 DEF WholeOrHalted
<1>12. Files'
  <2>1. \A r \in Roles : published'[r] = IF r = answer.role THEN answer ELSE published[r]
    BY <1>7 DEF IInv, TypeOK
  <2>2. \A r \in Roles : published'[r].call <= call'
    BY <1>4, <1>6, <2>1, CheckpointType DEF IInv, Files
  <2>3. \A r \in Roles : published'[r].call = call' /\ call' > 0 =>
          \E i \in 1..Len(results') : results'[i] = published'[r]
    BY <1>2, <1>4, <1>5, <1>6, <2>1, CheckpointType DEF IInv, Files
  <2>4. \A i \in 1..Len(results) : results[i].role \in Roles
    BY CallsOfResults DEF IInv, TypeOK
  <2>5. \A i \in 1..Len(results') : published'[results'[i].role].call = call'
    BY <1>3, <1>4, <1>5, <1>6, <2>1, <2>4, CheckpointType DEF IInv, Files
  <2> QED BY <2>2, <2>3, <2>5 DEF Files
<1>13. Checkpoint'
  <2>1. \A i \in 1..Len(results') : results'[i].call <= call
    BY <1>4, <1>5, CheckpointType DEF IInv, WholeOrHalted
  <2>2. Len(NoContext) = 1 /\ NoContext[1].call = 0
    BY DEF NoContext, NoResult
  <2> QED BY <1>2, <1>6, <2>1, <2>2 DEF Checkpoint
<1> QED BY <1>8, <1>9, <1>10, <1>11, <1>12, <1>13 DEF IInv

\* A return and a failure leave the results; of a save or a write that is cut off,
\* part may be left, and the checkpoint may be lost.
LEMMA EndKeeps ==
  ASSUME IInv, at # "idle", at' = "idle",
         \/ ended' = "failed"
         \/ ended' = "returned" /\ Len(results) = Len(chain),
         UNCHANGED <<kind, call, strict, chain, results, answer>>,
         \/ checkpoint' \in {checkpoint, NoContext}
         \/ checkpoint' = TornContext /\ at # "answered",
         published' \in LeftOnDisk
  PROVE  IInv'
<1>1. published' \in [Roles -> Results \cup TornResults \cup {NoResult}]
  <2>1. CASE published' = published
    BY <2>1 DEF IInv, TypeOK
  <2>2. CASE at = "answered" /\ published' = [published EXCEPT ![answer.role] = TornAnswer]
    <3>1. PICK status \in Statuses : answer = AnswerOf(status)
      BY <2>2 DEF IInv, Place
    <3>2. Len(results) + 1 \in 1..Len(chain) /\ call \in 1..MaxCalls
      BY <2>2, CheckpointType DEF IInv, TypeOK, Place
    <3>3. chain[Len(results) + 1] \in Roles
      BY <3>2 DEF IInv, TypeOK
    <3>4. TornAnswer \in TornResults
      BY <3>1, <3>2, <3>3 DEF AnswerOf, TornAnswer, TornResults
    <3> QED BY <2>2, <3>4 DEF IInv, TypeOK
  <2> QED BY <2>1, <2>2 DEF LeftOnDisk
<1>2. checkpoint' \in {checkpoint, TornContext, NoContext}
  OBVIOUS
<1>3. TypeOK'
  BY <1>1, <1>2 DEF IInv, TypeOK
<1>4. Place' /\ WholeOrHalted' /\ NoneEscalated'
  BY DEF IInv, Place, WholeOrHalted, NoneEscalated
<1>5. Checkpoint'
  <2>1. CASE checkpoint' = checkpoint
    BY <2>1 DEF IInv, Checkpoint
  <2>2. CASE checkpoint' \in {TornContext, NoContext}
    <3>1. Len(checkpoint') = 1 /\ checkpoint'[1].call = 0
      BY <2>2 DEF TornContext, NoContext, NoResult
    <3> QED BY <2>2, <3>1, CheckpointType DEF IInv, Checkpoint
  <2> QED BY <1>2, <2>1, <2>2
<1>6. Files'
  <2>1. CASE published' = published
    <3>1. ASSUME NEW r \in Roles, published[r].call = call, call > 0
          PROVE  \E i \in 1..Len(results) : results[i] = published[r]
      BY <3>1 DEF IInv, Files
    <3> QED BY <2>1, <3>1 DEF IInv, Files
  <2>2. CASE at = "answered" /\ published' = [published EXCEPT ![answer.role] = TornAnswer]
    <3>1. PICK status \in Statuses : answer = AnswerOf(status)
      BY <2>2 DEF IInv, Place
    <3>2. Len(results) + 1 \in 1..Len(chain) /\ call \in 1..MaxCalls
      BY <2>2, CheckpointType DEF IInv, TypeOK, Place
    <3>3. chain[Len(results) + 1] \in Roles
      BY <3>2 DEF IInv, TypeOK
    <3>4. /\ answer \in Results /\ answer.role \in Roles
          /\ TornAnswer.status = "torn" /\ TornAnswer.call = call
      BY <3>1, <3>2, <3>3 DEF AnswerOf, Results, TornAnswer
    <3>5. checkpoint' \in {Append(results, answer), NoContext}
      BY <2>2 DEF IInv, Place
    <3>6. \A r \in Roles : published'[r] = IF r = answer.role THEN TornAnswer ELSE published[r]
      BY <2>2 DEF IInv, TypeOK
    <3>7. \A r \in Roles : published'[r].call <= call
      BY <3>2, <3>4, <3>6 DEF IInv, Files
    <3>8. ASSUME NEW r \in Roles, published'[r].call = call
          PROVE  \/ \E i \in 1..Len(results) : results[i] = published'[r]
                 \/ published'[r].status = "torn" /\ r = answer.role
      BY <2>2, <3>2, <3>4, <3>6, <3>8 DEF IInv, Files
    <3>9. \A i \in 1..Len(results) : results[i].role \in Roles
      BY CallsOfResults DEF IInv, TypeOK
    <3>10. \A i \in 1..Len(results) : published'[results[i].role].call = call
      BY <3>4, <3>6, <3>9 DEF IInv, Files
    <3> QED BY <3>4, <3>5, <3>7, <3>8, <3>10 DEF Files
  <2> QED BY <2>1, <2>2 DEF LeftOnDisk
<1> QED BY <1>3, <1>4, <1>5, <1>6 DEF IInv

\* A checkpoint that lapses takes nothing else along.
LEMMA LapseKeeps == ASSUME IInv, Lapse PROVE IInv'
<1>1. Len(checkpoint') = 1 /\ checkpoint'[1].call = 0 /\ checkpoint' = NoContext
  BY DEF Lapse, NoContext, NoResult
<1>2. TypeOK'
  BY <1>1 DEF IInv, TypeOK, Lapse
<1>3. Place' /\ WholeOrHalted' /\ NoneEscalated' /\ Files'
  BY <1>1 DEF IInv, Place, WholeOrHalted, NoneEscalated, Files, Lapse, AnswerOf
<1>4. Checkpoint'
  BY <1>1, CheckpointType DEF IInv, Checkpoint, Lapse
<1> QED BY <1>2, <1>3, <1>4 DEF IInv

\* Every step keeps the invariant.
LEMMA Step == ASSUME IInv, [Next]_vars PROVE IInv'
<1>1. CASE RunSequential
  BY <1>1, BeginKeeps DEF RunSequential, IInv, TypeOK
<1>2. CASE ResumeSwarm
  BY <1>2, BeginKeeps DEF ResumeSwarm
<1>3. CASE Invoke
  BY <1>3, InvokeKeeps
<1>4. CASE Answers
  BY <1>4, AnswersKeeps
<1>5. CASE Record
  BY <1>5, RecordKeeps
<1>6. CASE Return
  BY <1>6, EndKeeps DEF Return, LeftOnDisk
<1>7. CASE Fail
  BY <1>7, EndKeeps DEF Fail, CutOff, Saving
<1>9. CASE Die
  BY <1>9, EndKeeps DEF Die, AfterCrash, CutOff, Saving
<1>10. CASE Lapse
  BY <1>10, LapseKeeps
<1>8. CASE UNCHANGED vars
  BY <1>8 DEF vars, IInv, TypeOK, Place, WholeOrHalted, NoneEscalated, Files, Checkpoint, AnswerOf
<1> QED BY <1>1, <1>2, <1>3, <1>4, <1>5, <1>6, <1>7, <1>8, <1>9, <1>10 DEF Next

\* The invariant holds of every reachable state.
THEOREM Invariance == Spec => []IInv
<1>1. Init => IInv
  BY InitIInv
<1>2. IInv /\ [Next]_vars => IInv'
  BY Step
<1> QED BY <1>1, <1>2, PTL DEF Spec

\* No call ever has more results than agents, whatever is resumed and however it
\* fails: the types of all that run_sequential keeps and saves.
THEOREM TypeCorrect == Spec => []TypeOK
<1>1. IInv => TypeOK
  BY DEF IInv
<1> QED BY <1>1, Invariance, PTL

\* run_sequential returns the whole chain in order, or the part of it that ends
\* with the first escalation of a strict call.
THEOREM ChainsAreWhole == Spec => []WholeOrHalted
<1>1. IInv => WholeOrHalted
  BY DEF IInv
<1> QED BY <1>1, Invariance, PTL

\* At every point where a call can fail, a context that a resumption finds knows the
\* files of the call, and all outputs but the last have their file.
THEOREM CheckpointsLead == Spec => []CheckpointAhead
<1>1. ASSUME IInv PROVE CheckpointAhead
  <2> SUFFICES ASSUME checkpoint \notin {NoContext, TornContext}, call > 0, NEW r \in Roles
               PROVE  /\ published[r].call = call =>
                           IF published[r].status = "torn"
                           THEN checkpoint # <<>> /\ Last(checkpoint).role = r
                           ELSE \E i \in 1..Len(checkpoint) : checkpoint[i] = published[r]
                      /\ \A i \in 1..(Len(checkpoint) - 1) :
                           checkpoint[i].role = r /\ checkpoint[i].call = call
                             => published[r].call = call
    BY DEF CheckpointAhead, Found, FoundAnew
  <2>0. \A i \in 1..Len(results) : results[i].status # "torn"
    BY <1>1, CallsOfResults DEF IInv, TypeOK, Statuses
  <2>5. ASSUME answer \in Results, checkpoint = Append(results, answer)
        PROVE  /\ Len(checkpoint) = Len(results) + 1 /\ checkpoint # <<>>
               /\ \A i \in 1..Len(results) : checkpoint[i] = results[i]
               /\ Last(checkpoint) = answer
    BY <1>1, <2>5, CheckpointType, AppendProperties DEF IInv, TypeOK, Last
  <2>6. ASSUME published[r].call = call, published[r].status = "torn"
        PROVE  checkpoint # <<>> /\ Last(checkpoint).role = r
    BY <1>1, <2>0, <2>5, <2>6 DEF IInv, Files
  <2>1. ASSUME published[r].call = call, published[r].status # "torn"
        PROVE  \E i \in 1..Len(results) : results[i] = published[r]
    BY <1>1, <2>1 DEF IInv, Files
  <2>2. CASE results = <<>> /\ \A i \in 1..Len(checkpoint) : checkpoint[i].call < call
    BY <1>1, <2>1, <2>2, <2>6, CheckpointType DEF IInv, Files
  <2>3. CASE checkpoint = results
    BY <1>1, <2>1, <2>3, <2>6, CheckpointType DEF IInv, Files
  <2>4. CASE answer \in Results /\ checkpoint = Append(results, answer)
    BY <1>1, <2>1, <2>4, <2>5, <2>6, CheckpointType DEF IInv, Files
  <2> QED BY <1>1, <2>2, <2>3, <2>4 DEF IInv, Checkpoint
<1> QED BY <1>1, Invariance, PTL
================================================================================
