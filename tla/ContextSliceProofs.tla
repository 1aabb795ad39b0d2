--------------------------- MODULE ContextSliceProofs ---------------------------
(***************************************************************************)
(* Theorems about ContextSlice, for every budget, reserve, threshold and   *)
(* number and size of files: slice_to_budget keeps its budget and wastes   *)
(* none of it, whatever the files are.                                     *)
(***************************************************************************)
EXTENDS ContextSlice, TLAPS

\* What the steps need and keep.  None of its parts is inductive alone: that the
\* files left out still do not fit takes used not to shrink, and used shrinks
\* nowhere because a truncated file is charged a remainder that is positive.
IInv == TypeOK /\ WithinBudget /\ OneTruncated /\ NothingMoreFits /\ GoodFilesFirst

\* Whatever a step does with the next file, it sees one file more, and its tokens
\* and those of the files before it are natural numbers.
LEMMA NextScoreFacts ==
  ASSUME TypeOK, NEW score \in Scores \cup {"none"}, NextScore(score)
  PROVE  /\ files' \in 0..MaxFiles /\ files' = files + 1
         /\ rank' \in Scores \cup {"none"}
         /\ budget' = budget /\ available' = available
         /\ available \in Int /\ used \in Nat /\ truncated \in 0..files
BY SliceAssumption DEF NextScore, TypeOK, available

\* A step that selects nothing and leaves nothing out keeps the invariant.
LEMMA SkipKeeps ==
  ASSUME IInv, NEW score \in Scores \cup {"none"}, NextScore(score),
         UNCHANGED <<used, truncated, left>>
  PROVE  IInv'
BY NextScoreFacts DEF IInv, TypeOK, WithinBudget, OneTruncated, NothingMoreFits,
                      GoodFilesFirst, Fits

\* Taking a file that fits keeps the invariant: used grows, within the budget.
LEMMA TakeWholeKeeps ==
  ASSUME IInv, NEW score \in Scores, NEW tokens \in Tokens,
         NextScore(score), Fits(tokens), TakeWhole(tokens)
  PROVE  IInv'
<1>1. /\ tokens \in Nat /\ used \in Nat /\ used' = used + tokens
      /\ truncated' = truncated /\ left' = left
  BY SliceAssumption DEF IInv, TypeOK, Tokens, TakeWhole
<1>2. /\ available \in Int /\ available' = available /\ used + tokens <= available
      /\ files' = files + 1 /\ files' \in 0..MaxFiles
  BY NextScoreFacts DEF Fits, IInv
<1>3. TypeOK'
  BY <1>1, <1>2, NextScoreFacts DEF IInv, TypeOK
<1>4. WithinBudget' /\ OneTruncated'
  BY <1>1, <1>2 DEF IInv, WithinBudget, OneTruncated
<1>5. \A f \in left : f[2] \in Nat
  BY SliceAssumption DEF IInv, TypeOK, Tokens
<1>6. NothingMoreFits' /\ GoodFilesFirst'
  BY <1>1, <1>2, <1>5, SliceAssumption DEF IInv, NothingMoreFits, GoodFilesFirst, Fits
<1> QED BY <1>3, <1>4, <1>6 DEF IInv

\* Truncating a file keeps the invariant: no file was truncated before, for it
\* would have left nothing, and now nothing remains.
LEMMA TakeTruncatedKeeps ==
  ASSUME IInv, NEW score \in Scores, NEW tokens \in Tokens,
         NextScore(score), Truncates(score), TakeTruncated(tokens)
  PROVE  IInv'
<1>1. /\ used \in Nat /\ used' = available
      /\ truncated' = truncated + 1 /\ left' = left
  BY DEF IInv, TypeOK, TakeTruncated
<1>2. /\ available \in Int /\ available' = available /\ available - used > 0
      /\ available - used > Least /\ Least \in Nat
      /\ files' = files + 1 /\ files' \in 0..MaxFiles
  BY NextScoreFacts, SliceAssumption DEF Truncates, IInv, TypeOK
<1>3. truncated = 0
  BY <1>1, <1>2 DEF IInv, TypeOK, OneTruncated
<1>4. TypeOK'
  BY <1>1, <1>2, <1>3, NextScoreFacts DEF IInv, TypeOK
<1>5. WithinBudget' /\ OneTruncated'
  BY <1>1, <1>2, <1>3 DEF WithinBudget, OneTruncated
<1>6. \A f \in left : f[2] \in Nat
  BY SliceAssumption DEF IInv, TypeOK, Tokens
<1>7. NothingMoreFits' /\ GoodFilesFirst'
  BY <1>1, <1>2, <1>6 DEF IInv, NothingMoreFits, GoodFilesFirst, Fits
<1> QED BY <1>4, <1>5, <1>7 DEF IInv

\* Leaving a file out keeps the invariant: it does not fit, and if it is a good
\* one too little remains to truncate it.
LEMMA LeaveOutKeeps ==
  ASSUME IInv, NEW score \in Scores, NEW tokens \in Tokens,
         NextScore(score), ~Fits(tokens), ~Truncates(score), LeaveOut(score, tokens)
  PROVE  IInv'
<1>1. /\ used' = used /\ truncated' = truncated /\ left' = left \cup {<<score, tokens>>}
      /\ available' = available /\ available \in Int /\ used \in Nat /\ Least \in Nat
  BY NextScoreFacts, SliceAssumption DEF LeaveOut, IInv
<1>2. TypeOK' /\ WithinBudget' /\ OneTruncated'
  BY <1>1, NextScoreFacts DEF IInv, TypeOK, WithinBudget, OneTruncated
<1>3. NothingMoreFits'
  BY <1>1 DEF IInv, NothingMoreFits, Fits
<1>4. score = "high" => available - used <= Least
  BY <1>1 DEF Truncates
<1>5. GoodFilesFirst'
  BY <1>1, <1>4 DEF IInv, GoodFilesFirst
<1> QED BY <1>2, <1>3, <1>5 DEF IInv

\* The invariant holds of the empty selection, and every file keeps it.
THEOREM Invariance == Spec => []IInv
<1>1. Init => IInv
  BY SliceAssumption DEF Init, IInv, TypeOK, WithinBudget, OneTruncated, NothingMoreFits,
                         GoodFilesFirst, Scores
<1>2. IInv /\ [Next]_vars => IInv'
  <2> SUFFICES ASSUME IInv, [Next]_vars PROVE IInv'
    OBVIOUS
  <2>1. CASE Irrelevant
    BY <2>1, SkipKeeps DEF Irrelevant
  <2>2. CASE Unreadable
    BY <2>2, SkipKeeps DEF Unreadable
  <2>3. CASE Read
    BY <2>3, TakeWholeKeeps, TakeTruncatedKeeps, LeaveOutKeeps DEF Read
  <2>4. CASE TakePreviewed
    BY <2>4, TakeWholeKeeps DEF TakePreviewed
  <2>5. CASE TooLarge
    BY <2>5, TakeTruncatedKeeps, LeaveOutKeeps DEF TooLarge
  <2>6. CASE UNCHANGED vars
    BY <2>6 DEF vars, IInv, TypeOK, WithinBudget, OneTruncated, NothingMoreFits,
                GoodFilesFirst, Fits, available
  <2> QED BY <2>1, <2>2, <2>3, <2>4, <2>5, <2>6 DEF Next
<1> QED BY <1>1, <1>2, PTL DEF Spec

\* A selection keeps its types; what is charged is never negative.
THEOREM TypeCorrect == Spec => []TypeOK
<1>1. IInv => TypeOK
  BY DEF IInv
<1> QED BY <1>1, Invariance, PTL

\* The files of a context are charged no more than the budget less the reserve
\* for the prompt, for every budget and whatever the files turn out to hold.
THEOREM BudgetKept == Spec => []WithinBudget
<1>1. IInv => WithinBudget
  BY DEF IInv
<1> QED BY <1>1, Invariance, PTL

\* At most one file of a context is truncated, and it fills the budget.
THEOREM TruncatedOnce == Spec => []OneTruncated
<1>1. IInv => OneTruncated
  BY DEF IInv
<1> QED BY <1>1, Invariance, PTL

\* No readable file that still fits is left out of a context.
THEOREM SelectionIsMaximal == Spec => []NothingMoreFits
<1>1. IInv => NothingMoreFits
  BY DEF IInv
<1> QED BY <1>1, Invariance, PTL

\* No good file is left out while there is room worth a truncated one.
THEOREM GoodFilesTaken == Spec => []GoodFilesFirst
<1>1. IInv => GoodFilesFirst
  BY DEF IInv
<1> QED BY <1>1, Invariance, PTL
================================================================================
