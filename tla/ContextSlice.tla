------------------------------ MODULE ContextSlice ------------------------------
(***************************************************************************)
(* slice_to_budget of context_optimizer.py, between the scoring of files   *)
(* by pass_1_metadata_score and pass_2_content_refinement and the context  *)
(* that build_context hands to an agent.  The files come best first; each  *)
(* step takes the next one whole, takes it truncated, or leaves it out.    *)
(*                                                                         *)
(* A file's token count is an estimate from its size until its text is     *)
(* read and counted.  Pass 2 reads previews: a file longer than its        *)
(* preview keeps the estimate.                                             *)
(***************************************************************************)
EXTENDS Integers, FiniteSets

CONSTANTS
  MaxBudget,   \* bound on token_budget_per_agent
  Reserve,     \* reserve_for_prompt (4000)
  Least,       \* a remainder up to this is not worth a truncated file (300)
  MaxTokens,   \* bound on the token count of a file
  MaxFiles     \* bound on the number of files

ASSUME SliceAssumption == {MaxBudget, Reserve, Least, MaxTokens, MaxFiles} \subseteq Nat

VARIABLES
  budget,     \* token_budget
  files,      \* files looked at so far
  rank,       \* score of the last file: "high" (40 and more), "low", or "none" (0 and less)
  used,       \* tokens charged for the selected files
  truncated,  \* selected files that were truncated
  left        \* score and token count of the readable files left out

vars == <<budget, files, rank, used, truncated, left>>

Tokens == 0..MaxTokens
Scores == {"high", "low"}

available == budget - Reserve

Init ==
  /\ budget \in 0..MaxBudget
  /\ files = 0
  /\ rank = "high"
  /\ used = 0
  /\ truncated = 0
  /\ left = {}

--------------------------------------------------------------------------------
\* pass_2_content_refinement returns its files sorted by score.
NextScore(score) ==
  /\ files < MaxFiles
  /\ files' = files + 1
  /\ rank = "low" => score # "high"
  /\ rank = "none" => score = "none"
  /\ rank' = score
  /\ UNCHANGED budget

Fits(tokens) == used + tokens <= available

\* Mutation: any remainder is worth it.
TruncatesAlways(score) == score = "high"

\* Mutation: a truncated file needs twice the room.
TruncatesLate(score) == score = "high" /\ available - used > 2 * Least

\* A good file is truncated into what remains, if that is worth it.
Truncates(score) == score = "high" /\ available - used > Least

\* Mutation: the file is charged what it would have cost whole.
TakeTruncatedWhole(tokens) ==
  /\ used' = used + tokens
  /\ truncated' = truncated + 1
  /\ UNCHANGED left

\* Whatever the file's size, all that remains is charged for it.
TakeTruncated(tokens) ==
  /\ tokens \in Tokens
  /\ used' = available
  /\ truncated' = truncated + 1
  /\ UNCHANGED left

TakeWhole(tokens) ==
  /\ used' = used + tokens
  /\ UNCHANGED <<truncated, left>>

LeaveOut(score, tokens) ==
  /\ left' = left \cup {<<score, tokens>>}
  /\ UNCHANGED <<used, truncated>>

--------------------------------------------------------------------------------
(* The kinds of files.                                                     *)

\* No signal speaks for the file.
Irrelevant == NextScore("none") /\ UNCHANGED <<used, truncated, left>>

\* The file is to be read, and cannot be.
Unreadable ==
  /\ \E score \in Scores, estimate \in Tokens :
       NextScore(score) /\ (Fits(estimate) \/ Truncates(score))
  /\ UNCHANGED <<used, truncated, left>>

\* Mutation: the file is taken by its estimate, and counted afterwards.
ReadUnchecked ==
  \E score \in Scores, estimate, tokens \in Tokens :
    NextScore(score) /\ Fits(estimate) /\ TakeWhole(tokens)

\* Mutation: a file larger than its estimate is left out.
ReadOnceOnly ==
  \E score \in Scores, estimate, tokens \in Tokens :
    /\ NextScore(score)
    /\ Fits(estimate)
    /\ IF tokens <= estimate THEN TakeWhole(tokens) ELSE LeaveOut(score, tokens)

\* The file fits by its estimate, is read, and is counted again.
Read ==
  \E score \in Scores, estimate, tokens \in Tokens :
    /\ NextScore(score)
    /\ Fits(estimate)
    /\ \/ Fits(tokens) /\ TakeWhole(tokens)
       \/ ~Fits(tokens) /\ Truncates(score) /\ TakeTruncated(tokens)
       \/ ~Fits(tokens) /\ ~Truncates(score) /\ LeaveOut(score, tokens)

\* Pass 2 has read the file, and it fits by what it is counted at since.
TakePreviewed ==
  \E score \in Scores, tokens \in Tokens :
    NextScore(score) /\ Fits(tokens) /\ TakeWhole(tokens)

\* The file does not fit, previewed or by its estimate.  To truncate it its text
\* is read, if it was not, but not counted again.
TooLarge ==
  \E score \in Scores, tokens \in Tokens :
    /\ NextScore(score)
    /\ ~Fits(tokens)
    /\ \/ Truncates(score) /\ TakeTruncated(tokens)
       \/ ~Truncates(score) /\ LeaveOut(score, tokens)

Next == Irrelevant \/ Unreadable \/ Read \/ TakePreviewed \/ TooLarge

Spec == Init /\ [][Next]_vars

--------------------------------------------------------------------------------
(* What the selection promises.                                            *)

\* The selection never charges more than the budget leaves beside the prompt; a
\* budget below the reserve selects nothing.
WithinBudget == used = 0 \/ used <= available

\* One file is truncated at most, and it takes all the room there was: whatever
\* follows it costs nothing.
OneTruncated == truncated > 0 => truncated = 1 /\ used = available

\* No file was left out that would still fit when the selection ends, counted as
\* it was when its turn came.
NothingMoreFits == \A f \in left : ~Fits(f[2])

\* A good file is never left out while more than Least remains.
GoodFilesFirst == \A f \in left : f[1] = "high" => available - used <= Least

\* Every variable keeps its type.
TypeOK ==
  /\ budget \in 0..MaxBudget
  /\ files \in 0..MaxFiles
  /\ rank \in Scores \cup {"none"}
  /\ used \in Nat
  /\ truncated \in 0..files
  /\ left \in SUBSET (Scores \X Tokens)
================================================================================
