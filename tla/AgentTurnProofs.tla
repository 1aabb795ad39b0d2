---------------------------- MODULE AgentTurnProofs ----------------------------
(***************************************************************************)
(* Theorems about AgentTurn, for every set of commands, list of gates,     *)
(* length of an answer and number of retries.                              *)
(***************************************************************************)
EXTENDS MCAgentTurn, SequenceTheorems, WellFoundedInduction, TLAPS

Ran == [command : Allowlisted \ Blocked, passed : BOOLEAN]

\* What is known of the variables' values.
Shape ==
  /\ at \in {"calling", "answered", "applying", "running", "over",
             "driver_raised", "invoke_raised", "executor_raised"}
  /\ mode \in Modes
  /\ attempts \in 0..(MaxRetries + 1)
  /\ answer \in Answers
  /\ result \in Results
  /\ tree \in {"untouched", "patched", "partial"}
  /\ ran \in Seq(Ran)
  /\ outcome \in {"none", "done", "escalated"}

Escalates(r) == r.status = "escalated" => r.reason # "none"

\* What a strict turn leaves of the commands of an answer with a blocked one.
CutAtBlocked ==
  mode.strict /\ BlockedAt(answer.commands) # {} =>
    result.commands = SubSeq(answer.commands, 1, Min(BlockedAt(answer.commands)) - 1)

\* The filter adds no command.
NoneAdded ==
  \A i \in 1..Len(result.commands) : result.commands[i] \in Suggested(Len(answer.commands))

\* What is known at each place of a turn.
Place ==
  /\ at = "calling" => attempts <= MaxRetries /\ answer = NoAnswer
  /\ at = "answered" =>
       /\ Escalates(result)
       /\ result.commands = answer.commands
       /\ result.reason = "rate_limit" => attempts = MaxRetries + 1
  /\ at \in {"calling", "answered", "applying", "driver_raised", "invoke_raised"} =>
       tree = "untouched" /\ ran = <<>> /\ outcome = "none"
  /\ at \in {"applying", "running", "over", "executor_raised"} => CutAtBlocked /\ NoneAdded

\* What the executor has at hand while it runs commands.
Executing ==
  at = "running" =>
    /\ outcome = "none"
    /\ tree = IF result.diffs = "patch" THEN "patched" ELSE "untouched"
    /\ \A i \in 1..Len(ran) : ran[i].passed

IInv == Shape /\ Place /\ Executing /\ EscalationsExplained /\ OnlyVettedRuns /\ GreenIsGreen

--------------------------------------------------------------------------------
(* The first blocked command.                                              *)

\* The order of the naturals as the relation that well-founded induction speaks of.
LEMMA LessThan == \A x, y \in Nat : x < y => <<x, y>> \in OpToRel(<, Nat)
BY Z3 DEF OpToRel

\* A set of positions that is not empty has a least member.
LEMMA LeastPosition ==
  ASSUME NEW S, S \subseteq Nat, S # {}
  PROVE  Min(S) \in S /\ \A k \in S : Min(S) <= k
<1> DEFINE Less == OpToRel(<, Nat)
<1>1. IsWellFoundedOn(Less, Nat)
  BY NatLessThanWellFounded
<1>2. \A x, y \in Nat : x < y => <<x, y>> \in Less
  BY LessThan
<1> HIDE DEF Less
<1>3. \E x \in S : \A y \in S : ~(<<y, x>> \in Less)
  BY <1>1, WFMin
<1>4. \E x \in S : \A y \in S : ~(y < x)
  BY <1>2, <1>3, Zenon
<1>5. \E x \in S : \A y \in S : x <= y
  BY <1>4, SMT
<1> QED BY <1>5 DEF Min

\* A bounded sequence is a sequence that is not too long.
LEMMA Bounded ==
  ASSUME NEW s
  PROVE  s \in BoundedSeq(Commands, MaxSuggested) <=> s \in Seq(Commands) /\ Len(s) <= MaxSuggested
<1>1. ASSUME s \in BoundedSeq(Commands, MaxSuggested)
      PROVE  s \in Seq(Commands) /\ Len(s) <= MaxSuggested
  <2>1. PICK n \in 0..MaxSuggested : s \in [1..n -> Commands]
    BY <1>1 DEF BoundedSeq, SeqOf
  <2>2. n \in Nat
    BY TurnAssumption
  <2> QED BY <2>1, <2>2
<1>2. ASSUME s \in Seq(Commands), Len(s) <= MaxSuggested
      PROVE  s \in BoundedSeq(Commands, MaxSuggested)
  <2>1. Len(s) \in 0..MaxSuggested /\ s \in [1..Len(s) -> Commands]
    BY <1>2, TurnAssumption
  <2> QED BY <2>1 DEF BoundedSeq, SeqOf
<1> QED BY <1>1, <1>2

\* An answer's commands are a sequence of commands, and NoAnswer has none.
LEMMA AnswerCommands ==
  /\ \A a \in Answers : a.commands \in Seq(Commands)
  /\ NoAnswer \in Answers /\ NoAnswer.commands = <<>>
<1>1. \A s \in BoundedSeq(Commands, MaxSuggested) : s \in Seq(Commands)
  BY TurnAssumption DEF BoundedSeq, SeqOf
<1>2. <<>> \in BoundedSeq(Commands, MaxSuggested)
  <2>1. <<>> \in [1..0 -> Commands] /\ 0 \in 0..MaxSuggested
    BY TurnAssumption
  <2> QED BY <2>1 DEF BoundedSeq, SeqOf
<1> QED BY <1>1, <1>2 DEF Answers, NoAnswer

\* A sequence over a set is one over a larger set.
LEMMA SubsetSeq == ASSUME NEW S, NEW T, S \subseteq T PROVE Seq(S) \subseteq Seq(T)
OBVIOUS

\* What the cut leaves stands before every blocked command.
LEMMA CutIsVetted ==
  ASSUME NEW s \in Seq(Commands), NEW k \in 1..Len(s), s[k] \in Blocked,
         NEW i \in 1..Len(SubSeq(s, 1, Min(BlockedAt(s)) - 1))
  PROVE  SubSeq(s, 1, Min(BlockedAt(s)) - 1)[i] \in {s[j] : j \in 1..(k - 1)}
<1> DEFINE first == Min(BlockedAt(s))
<1>1. k \in BlockedAt(s) /\ BlockedAt(s) \subseteq 1..Len(s)
  BY DEF BlockedAt, IsSafe
<1>2. first \in 1..Len(s) /\ first <= k
  <2>1. BlockedAt(s) \subseteq Nat
    BY <1>1
  <2> QED BY <1>1, <2>1, LeastPosition
<1> HIDE DEF first
<1>3. i \in 1..(first - 1) /\ SubSeq(s, 1, first - 1)[i] = s[i]
  BY <1>2, SubSeqProperties DEF first
<1>4. i \in 1..(k - 1)
  BY <1>2, <1>3
<1> QED BY <1>3, <1>4 DEF first

--------------------------------------------------------------------------------
(* The loop of the filter.                                                 *)

\* A set with 0, and with n + 1 if it has n, has every natural.
LEMMA EveryNatural ==
  ASSUME NEW S, 0 \in S, \A n \in Nat : n \in S => n + 1 \in S
  PROVE  Nat \subseteq S
<1> SUFFICES ASSUME Nat \ S # {} PROVE FALSE
  OBVIOUS
<1> DEFINE least == Min(Nat \ S)
<1>1. least \in Nat /\ least \notin S /\ \A k \in Nat \ S : least <= k
  BY LeastPosition
<1> HIDE DEF least
<1>2. least - 1 \in Nat /\ least - 1 \in S
  BY <1>1, SMT
<1> QED BY <1>1, <1>2, SMT

\* f are the values of a loop of N rounds that starts with some value and makes the next
\* one of each.
LoopHas(f, N, start, step) ==
  f[0] = start /\ \A k \in 1..N : f[k] = step[<<k, f[k - 1]>>]

LoopHasValues(N, T, start, step) == \E f \in [0..N -> T] : LoopHas(f, N, start, step)

\* Such a loop has a value after every round.
LEMMA LoopRuns ==
  ASSUME NEW N \in Nat, NEW T, NEW start \in T, NEW step \in [(1..N) \X T -> T]
  PROVE  LoopHasValues(N, T, start, step)
<1> DEFINE Runs == {n \in Nat : n <= N =>
             \E f \in [0..n -> T] : f[0] = start /\ \A k \in 1..n : f[k] = step[<<k, f[k - 1]>>]}
<1>1. 0 \in Runs
  <2> DEFINE f == [k \in 0..0 |-> start]
  <2>1. f \in [0..0 -> T] /\ f[0] = start /\ \A k \in 1..0 : f[k] = step[<<k, f[k - 1]>>]
    OBVIOUS
  <2> QED BY <2>1
<1>2. ASSUME NEW n \in Nat, n \in Runs PROVE n + 1 \in Runs
  <2>1. SUFFICES ASSUME n + 1 <= N
                 PROVE  \E g \in [0..(n + 1) -> T] :
                          g[0] = start /\ \A k \in 1..(n + 1) : g[k] = step[<<k, g[k - 1]>>]
    OBVIOUS
  <2>2. PICK h \in [0..n -> T] : h[0] = start /\ \A k \in 1..n : h[k] = step[<<k, h[k - 1]>>]
    BY <1>2, <2>1
  <2> DEFINE g == [k \in 0..(n + 1) |-> IF k = n + 1 THEN step[<<n + 1, h[n]>>] ELSE h[k]]
  <2>3. step[<<n + 1, h[n]>>] \in T
    BY <2>1, <2>2
  <2>4. g \in [0..(n + 1) -> T]
    BY <2>2, <2>3
  <2>5. g[n + 1] = step[<<n + 1, h[n]>>] /\ \A k \in 0..n : g[k] = h[k]
    OBVIOUS
  <2> HIDE DEF g
  <2>6. g[0] = start
    BY <2>2, <2>5
  <2>7. ASSUME NEW k \in 1..(n + 1) PROVE g[k] = step[<<k, g[k - 1]>>]
    <3>1. CASE k = n + 1
      BY <2>5, <3>1
    <3>2. CASE k \in 1..n
      BY <2>2, <2>5, <3>2
    <3> QED BY <3>1, <3>2
  <2> QED BY <2>4, <2>6, <2>7
<1> HIDE DEF Runs
<1>3. N \in Runs
  BY <1>1, <1>2, EveryNatural
<1> QED BY <1>3 DEF Runs, LoopHasValues, LoopHas

\* Round for round: nothing at first, then each safe command at the end.
LEMMA KeptRounds ==
  ASSUME NEW s \in Seq(Commands)
  PROVE  /\ KeptOf(s)[0] = <<>>
         /\ \A k \in 1..Len(s) :
              KeptOf(s)[k] = IF IsSafe(s[k]) THEN Append(KeptOf(s)[k - 1], s[k]) ELSE KeptOf(s)[k - 1]
<1> DEFINE n == Len(s)
           step == [p \in (1..n) \X Seq(Commands) |->
                      IF IsSafe(s[p[1]]) THEN Append(p[2], s[p[1]]) ELSE p[2]]
           Round(f, k) ==
             IF k = 0 THEN <<>> ELSE IF IsSafe(s[k]) THEN Append(f[k - 1], s[k]) ELSE f[k - 1]
<1>1. \E f : f = [k \in 0..n |-> Round(f, k)]
  <2>1. n \in Nat /\ <<>> \in Seq(Commands)
    OBVIOUS
  <2>2. step \in [(1..n) \X Seq(Commands) -> Seq(Commands)]
    OBVIOUS
  <2>3. PICK f \in [0..n -> Seq(Commands)] :
          f[0] = <<>> /\ \A k \in 1..n : f[k] = step[<<k, f[k - 1]>>]
    <3> HIDE DEF step, n
    <3>1. LoopHasValues(n, Seq(Commands), <<>>, step)
      BY <2>1, <2>2, LoopRuns
    <3> QED BY <3>1 DEF LoopHasValues, LoopHas
  <2>4. \A k \in 1..n : step[<<k, f[k - 1]>>] = IF IsSafe(s[k]) THEN Append(f[k - 1], s[k]) ELSE f[k - 1]
    <3>1. \A k \in 1..n : f[k - 1] \in Seq(Commands)
      BY <2>1, <2>3
    <3> QED BY <3>1
  <2> HIDE DEF step, n
  <2>5. ASSUME NEW k \in 0..n PROVE f[k] = Round(f, k)
    <3>1. k = 0 \/ (k # 0 /\ k \in 1..n)
      BY <2>1
    <3> QED BY <2>3, <2>4, <3>1
  <2>6. f = [k \in 0..n |-> f[k]]
    BY <2>3
  <2> HIDE DEF Round
  <2>7. f = [k \in 0..n |-> Round(f, k)]
    BY <2>5, <2>6, Zenon
  <2>8. \E h : h = [k \in 0..n |-> Round(h, k)]
    BY <2>7, Zenon
  <2> QED BY <2>8
<1>2. KeptOf(s) = [k \in 0..Len(s) |->
         IF k = 0 THEN <<>>
         ELSE IF IsSafe(s[k]) THEN Append(KeptOf(s)[k - 1], s[k]) ELSE KeptOf(s)[k - 1]]
  BY <1>1, Zenon DEF KeptOf
<1> HIDE DEF IsSafe
<1>3. Len(s) \in Nat
  OBVIOUS
<1>4. ASSUME NEW k \in 0..Len(s)
      PROVE  KeptOf(s)[k] = IF k = 0 THEN <<>>
               ELSE IF IsSafe(s[k]) THEN Append(KeptOf(s)[k - 1], s[k]) ELSE KeptOf(s)[k - 1]
  BY <1>2, Zenon
<1> QED BY <1>3, <1>4

\* The filter hands over commands of the list that are not blocked, and no more than
\* there were.
LEMMA SafeOfList ==
  ASSUME NEW s \in Seq(Commands)
  PROVE  /\ SafeOf(s) \in Seq({s[i] : i \in 1..Len(s)} \ Blocked)
         /\ Len(SafeOf(s)) <= Len(s)
<1> DEFINE Vetted == {s[i] : i \in 1..Len(s)} \ Blocked
    Good == {n \in Nat : n <= Len(s) => KeptOf(s)[n] \in Seq(Vetted) /\ Len(KeptOf(s)[n]) <= n}
<1>1. 0 \in Good
  <2>1. <<>> \in Seq(Vetted) /\ Len(<<>>) <= 0
    BY EmptySeq
  <2>2. KeptOf(s)[0] = <<>>
    BY KeptRounds
  <2> HIDE DEF Vetted
  <2>3. KeptOf(s)[0] \in Seq(Vetted) /\ Len(KeptOf(s)[0]) <= 0
    BY <2>1, <2>2, Zenon
  <2> QED BY <2>3
<1>2. ASSUME NEW n \in Nat, n \in Good PROVE n + 1 \in Good
  <2> SUFFICES ASSUME n + 1 <= Len(s)
               PROVE  KeptOf(s)[n + 1] \in Seq(Vetted) /\ Len(KeptOf(s)[n + 1]) <= n + 1
    OBVIOUS
  <2>1. KeptOf(s)[n] \in Seq(Vetted) /\ Len(KeptOf(s)[n]) <= n /\ n + 1 \in 1..Len(s)
    BY <1>2
  <2>2. KeptOf(s)[n + 1] = IF IsSafe(s[n + 1]) THEN Append(KeptOf(s)[n], s[n + 1]) ELSE KeptOf(s)[n]
    <3>1. (n + 1) - 1 = n
      OBVIOUS
    <3> QED BY <2>1, <3>1, KeptRounds
  <2>3. CASE IsSafe(s[n + 1])
    <3>1. s[n + 1] \in Vetted
      BY <2>1, <2>3 DEF IsSafe
    <3> HIDE DEF Vetted
    <3> QED BY <2>1, <2>2, <2>3, <3>1, AppendProperties
  <2>4. CASE ~IsSafe(s[n + 1])
    BY <2>1, <2>2, <2>4
  <2> QED BY <2>3, <2>4
<1> HIDE DEF Good
<1>3. Len(s) \in Good
  BY <1>1, <1>2, EveryNatural
<1> QED BY <1>3 DEF Good, SafeOf

\* The cut, too, hands over commands of the list and no more than there were.
LEMMA CutOfList ==
  ASSUME NEW s \in Seq(Commands), BlockedAt(s) # {}
  PROVE  /\ SubSeq(s, 1, Min(BlockedAt(s)) - 1) \in Seq({s[i] : i \in 1..Len(s)})
         /\ Len(SubSeq(s, 1, Min(BlockedAt(s)) - 1)) <= Len(s)
<1> DEFINE first == Min(BlockedAt(s))
           Members == {s[i] : i \in 1..Len(s)}
<1>1. first \in 1..Len(s)
  <2>1. BlockedAt(s) \subseteq 1..Len(s) /\ BlockedAt(s) \subseteq Nat
    BY DEF BlockedAt
  <2> QED BY <2>1, LeastPosition
<1>2. s \in Seq(Members)
  BY LenProperties, IsASeq
<1> HIDE DEF first, Members
<1>3. SubSeq(s, 1, first - 1) \in Seq(Members) /\ Len(SubSeq(s, 1, first - 1)) = first - 1
  BY <1>1, <1>2, SubSeqProperties
<1> QED BY <1>1, <1>3 DEF first, Members

\* The filter keeps a result's type, and its commands are from the ones before.
LEMMA FilteredResult ==
  ASSUME NEW r \in Results
  PROVE  /\ Filtered(r) \in Results
         /\ \A i \in 1..Len(Filtered(r).commands) :
              Filtered(r).commands[i] \in {r.commands[j] : j \in 1..Len(r.commands)}
<1> DEFINE Members == {r.commands[j] : j \in 1..Len(r.commands)}
<1>1. r.commands \in Seq(Commands) /\ Len(r.commands) <= MaxSuggested
  BY Bounded DEF Results
<1>2. Filtered(r).commands \in Seq(Members) /\ Len(Filtered(r).commands) <= Len(r.commands)
  <2>1. CASE mode.strict /\ BlockedAt(r.commands) # {}
    <3>1. Filtered(r).commands = SubSeq(r.commands, 1, Min(BlockedAt(r.commands)) - 1)
      BY <2>1 DEF Filtered, Results
    <3> QED BY <1>1, <2>1, <3>1, CutOfList
  <2>2. CASE ~(mode.strict /\ BlockedAt(r.commands) # {})
    <3>1. Filtered(r).commands = SafeOf(r.commands)
      BY <2>2 DEF Filtered, Results
    <3>2. SafeOf(r.commands) \in Seq(Members \ Blocked) /\ Len(SafeOf(r.commands)) <= Len(r.commands)
      BY <1>1, SafeOfList
    <3>3. Seq(Members \ Blocked) \subseteq Seq(Members)
      BY SubsetSeq
    <3> QED BY <3>1, <3>2, <3>3
  <2> QED BY <2>1, <2>2
<1>3. Members \subseteq Commands
  BY <1>1
<1> HIDE DEF Members
<1>4. Filtered(r).commands \in Seq(Commands) /\ Len(Filtered(r).commands) <= MaxSuggested
  BY <1>1, <1>2, <1>3, TurnAssumption
<1>5. Filtered(r).commands \in BoundedSeq(Commands, MaxSuggested)
  BY <1>4, Bounded
<1>6. Filtered(r) \in Results
  <2>1. CASE mode.strict /\ BlockedAt(r.commands) # {}
    BY <1>5, <2>1 DEF Filtered, Results, Reasons
  <2>2. CASE ~(mode.strict /\ BlockedAt(r.commands) # {})
    BY <1>5, <2>2 DEF Filtered, Results
  <2> QED BY <2>1, <2>2
<1>7. \A i \in 1..Len(Filtered(r).commands) : Filtered(r).commands[i] \in Members
  BY <1>2
<1> QED BY <1>6, <1>7 DEF Members

--------------------------------------------------------------------------------
(* Gate expressions: the values of the interpreter.                        *)

\* The interpreter's value of a node is made of those of its kids.
LEMMA VisitedNode ==
  ASSUME NEW expr, NEW object, IsExpression(expr)
  PROVE  \A i \in 1..Len(expr) : Visited(expr, object)[i] =
           Visit(expr[i], [k \in 1..Len(expr[i].kids) |->
                  Visited(expr, object)[i - expr[i].kids[k]]], object)
<1> DEFINE Values(f, i) == [k \in 1..Len(expr[i].kids) |-> f[i - expr[i].kids[k]]]
           Node(f, i) == Visit(expr[i], Values(f, i), object)
           Done == {n \in Nat : n <= Len(expr) => \E f : f = [i \in 1..n |-> Node(f, i)]}
<1>1. 0 \in Done
  <2> DEFINE none == [i \in 1..0 |-> 0]
  <2> HIDE DEF Node
  <2>1. none = [i \in 1..0 |-> Node(none, i)]
    <3>1. 1..0 = {}
      OBVIOUS
    <3> QED BY <3>1
  <2> HIDE DEF none
  <2>2. \E f : f = [i \in 1..0 |-> Node(f, i)]
    BY <2>1, Zenon
  <2> QED BY <2>2
<1>2. ASSUME NEW n \in Nat, n \in Done PROVE n + 1 \in Done
  <2>1. SUFFICES ASSUME n + 1 <= Len(expr)
                 PROVE  \E f : f = [i \in 1..(n + 1) |-> Node(f, i)]
    OBVIOUS
  <2>2. Len(expr) \in Nat /\ n <= Len(expr)
    BY <2>1 DEF IsExpression
  <2>3. PICK f : f = [i \in 1..n |-> Node(f, i)]
    BY <1>2, <2>2, Zenon
  <2> DEFINE g == [i \in 1..(n + 1) |-> IF i = n + 1 THEN Node(f, i) ELSE f[i]]
  <2>4. \A i \in 1..(n + 1) : Values(g, i) = Values(f, i)
    <3>1. SUFFICES ASSUME NEW i \in 1..(n + 1), NEW k \in 1..Len(expr[i].kids)
                   PROVE  g[i - expr[i].kids[k]] = f[i - expr[i].kids[k]]
      BY Zenon
    <3>2. i \in 1..Len(expr)
      BY <2>1, <2>2
    <3>3. expr[i].kids \in Seq(1..(i - 1))
      BY <3>2 DEF IsExpression
    <3>4. expr[i].kids[k] \in 1..(i - 1)
      BY <3>3
    <3>5. i - expr[i].kids[k] \in 1..n
      BY <3>4
    <3> QED BY <3>5
  <2>5. \A i \in 1..(n + 1) : g[i] = Node(g, i)
    <3>1. ASSUME NEW i \in 1..(n + 1) PROVE Node(g, i) = Node(f, i)
      <4> HIDE DEF g
      <4> QED BY <2>4
    <3>2. ASSUME NEW i \in 1..n PROVE f[i] = Node(f, i)
      <4> HIDE DEF Node
      <4> QED BY <2>3
    <3>3. ASSUME NEW i \in 1..(n + 1) PROVE g[i] = Node(f, i)
      <4> HIDE DEF Node
      <4>1. i = n + 1 \/ i \in 1..n
        OBVIOUS
      <4> QED BY <3>2, <4>1
    <3> HIDE DEF Node, g
    <3> QED BY <3>1, <3>3
  <2>6. g = [i \in 1..(n + 1) |-> g[i]]
    OBVIOUS
  <2> HIDE DEF g, Node
  <2>7. g = [i \in 1..(n + 1) |-> Node(g, i)]
    BY <2>5, <2>6, Zenon
  <2> QED BY <2>7
<1> HIDE DEF Done
<1>3. Nat \subseteq Done
  BY <1>1, <1>2, EveryNatural
<1>4. \E f : f = [i \in 1..Len(expr) |-> Node(f, i)]
  <2>1. Len(expr) \in Nat /\ Len(expr) <= Len(expr)
    BY DEF IsExpression
  <2> HIDE DEF Node
  <2> QED BY <1>3, <2>1, Zenon DEF Done
<1>5. Visited(expr, object) = [i \in 1..Len(expr) |-> Node(Visited(expr, object), i)]
  BY <1>4, Zenon DEF Visited
<1> HIDE DEF Node
<1>6. \A i \in 1..Len(expr) : Visited(expr, object)[i] = Node(Visited(expr, object), i)
  BY <1>5, Zenon
<1> QED BY <1>6 DEF Node

\* So is the value Python gives it.
LEMMA MeaningOfNode ==
  ASSUME NEW expr, NEW object, IsExpression(expr)
  PROVE  \A i \in 1..Len(expr) : Meanings(expr, object)[i] =
           InPython(expr[i], [k \in 1..Len(expr[i].kids) |->
                  Meanings(expr, object)[i - expr[i].kids[k]]], object)
<1> DEFINE Values(f, i) == [k \in 1..Len(expr[i].kids) |-> f[i - expr[i].kids[k]]]
           Node(f, i) == InPython(expr[i], Values(f, i), object)
           Done == {n \in Nat : n <= Len(expr) => \E f : f = [i \in 1..n |-> Node(f, i)]}
<1>1. 0 \in Done
  <2> DEFINE none == [i \in 1..0 |-> 0]
  <2> HIDE DEF Node
  <2>1. none = [i \in 1..0 |-> Node(none, i)]
    <3>1. 1..0 = {}
      OBVIOUS
    <3> QED BY <3>1
  <2> HIDE DEF none
  <2>2. \E f : f = [i \in 1..0 |-> Node(f, i)]
    BY <2>1, Zenon
  <2> QED BY <2>2
<1>2. ASSUME NEW n \in Nat, n \in Done PROVE n + 1 \in Done
  <2>1. SUFFICES ASSUME n + 1 <= Len(expr)
                 PROVE  \E f : f = [i \in 1..(n + 1) |-> Node(f, i)]
    OBVIOUS
  <2>2. Len(expr) \in Nat /\ n <= Len(expr)
    BY <2>1 DEF IsExpression
  <2>3. PICK f : f = [i \in 1..n |-> Node(f, i)]
    BY <1>2, <2>2, Zenon
  <2> DEFINE g == [i \in 1..(n + 1) |-> IF i = n + 1 THEN Node(f, i) ELSE f[i]]
  <2>4. \A i \in 1..(n + 1) : Values(g, i) = Values(f, i)
    <3>1. SUFFICES ASSUME NEW i \in 1..(n + 1), NEW k \in 1..Len(expr[i].kids)
                   PROVE  g[i - expr[i].kids[k]] = f[i - expr[i].kids[k]]
      BY Zenon
    <3>2. i \in 1..Len(expr)
      BY <2>1, <2>2
    <3>3. expr[i].kids \in Seq(1..(i - 1))
      BY <3>2 DEF IsExpression
    <3>4. expr[i].kids[k] \in 1..(i - 1)
      BY <3>3
    <3>5. i - expr[i].kids[k] \in 1..n
      BY <3>4
    <3> QED BY <3>5
  <2>5. \A i \in 1..(n + 1) : g[i] = Node(g, i)
    <3>1. ASSUME NEW i \in 1..(n + 1) PROVE Node(g, i) = Node(f, i)
      <4> HIDE DEF g
      <4> QED BY <2>4
    <3>2. ASSUME NEW i \in 1..n PROVE f[i] = Node(f, i)
      <4> HIDE DEF Node
      <4> QED BY <2>3
    <3>3. ASSUME NEW i \in 1..(n + 1) PROVE g[i] = Node(f, i)
      <4> HIDE DEF Node
      <4>1. i = n + 1 \/ i \in 1..n
        OBVIOUS
      <4> QED BY <3>2, <4>1
    <3> HIDE DEF Node, g
    <3> QED BY <3>1, <3>3
  <2>6. g = [i \in 1..(n + 1) |-> g[i]]
    OBVIOUS
  <2> HIDE DEF g, Node
  <2>7. g = [i \in 1..(n + 1) |-> Node(g, i)]
    BY <2>5, <2>6, Zenon
  <2> QED BY <2>7
<1> HIDE DEF Done
<1>3. Nat \subseteq Done
  BY <1>1, <1>2, EveryNatural
<1>4. \E f : f = [i \in 1..Len(expr) |-> Node(f, i)]
  <2>1. Len(expr) \in Nat /\ Len(expr) <= Len(expr)
    BY DEF IsExpression
  <2> HIDE DEF Node
  <2> QED BY <1>3, <2>1, Zenon DEF Done
<1>5. Meanings(expr, object) = [i \in 1..Len(expr) |-> Node(Meanings(expr, object), i)]
  BY <1>4, Zenon DEF Meanings
<1> HIDE DEF Node
<1>6. \A i \in 1..Len(expr) : Meanings(expr, object)[i] = Node(Meanings(expr, object), i)
  BY <1>5, Zenon
<1> QED BY <1>6 DEF Node

--------------------------------------------------------------------------------
(* Gate expressions: loops and rules.                                      *)

\* Truth and errors, as far as the loops look.
LEMMA TruthValues ==
  /\ Truthy(PyBool(TRUE)) /\ ~Truthy(PyBool(FALSE)) /\ ~Truthy(Raised)
  /\ ~Is(PyBool(TRUE), "raised") /\ ~Is(PyBool(FALSE), "raised") /\ Is(Raised, "raised")
  /\ PyBool(TRUE) # PyBool(FALSE) /\ PyBool(TRUE) # Raised /\ PyBool(FALSE) # Raised
<1>1. PyBool(TRUE) = [int |-> 1] /\ PyBool(FALSE) = [int |-> 0] /\ Raised = [raised |-> TRUE]
  BY DEF PyBool, PyInt, Raised
<1>2. /\ Is(PyBool(TRUE), "int") /\ PyBool(TRUE).int # 0
      /\ Is(PyBool(FALSE), "int") /\ PyBool(FALSE).int = 0
  BY DEF PyBool, PyInt, Is
<1>3. Truthy(PyBool(TRUE)) /\ ~Truthy(PyBool(FALSE))
  <2>1. ASSUME NEW value, Is(value, "int"), ~Is(value, "str"), ~Is(value, "list"),
               ~Is(value, "raised")
        PROVE  Truthy(value) <=> value.int # 0
    <3> HIDE DEF Is
    <3> QED BY <2>1 DEF Truthy
  <2>2. /\ ~Is(PyBool(TRUE), "str") /\ ~Is(PyBool(TRUE), "list")
        /\ ~Is(PyBool(FALSE), "str") /\ ~Is(PyBool(FALSE), "list")
        /\ ~Is(PyBool(TRUE), "raised") /\ ~Is(PyBool(FALSE), "raised")
    BY <1>1 DEF Is
  <2> HIDE DEF Is
  <2> QED BY <1>2, <2>1, <2>2, Zenon
<1>4. ~Truthy(Raised)
  BY <1>1 DEF Truthy, Is
<1>5. ~Is(PyBool(TRUE), "raised") /\ ~Is(PyBool(FALSE), "raised") /\ Is(Raised, "raised")
  BY <1>1 DEF Is
<1>6. PyBool(TRUE) # PyBool(FALSE) /\ PyBool(TRUE) # Raised /\ PyBool(FALSE) # Raised
  BY <1>2, <1>5
<1> QED BY <1>3, <1>4, <1>5, <1>6

ThreeAnswers == {PyBool(TRUE), PyBool(FALSE), Raised}

\* A comparison is true, false, or raises.
LEMMA ComparisonAnswers ==
  ASSUME NEW op, NEW left, NEW right
  PROVE  CompareValues(op, left, right) \in ThreeAnswers
<1>1. \A b \in BOOLEAN : PyBool(b) \in ThreeAnswers
  BY DEF ThreeAnswers
<1>2. Raised \in ThreeAnswers
  BY DEF ThreeAnswers
<1>3. /\ PyBool(left = right) \in ThreeAnswers
      /\ PyBool(left # right) \in ThreeAnswers
      /\ PyBool(left \in ToSet(right.list)) \in ThreeAnswers
      /\ PyBool(left \notin ToSet(right.list)) \in ThreeAnswers
      /\ PyBool(InOrder(op, left.int, right.int)) \in ThreeAnswers
  BY DEF PyBool, ThreeAnswers
<1> HIDE DEF ThreeAnswers
<1> QED BY <1>2, <1>3, Zenon DEF CompareValues

\* f is a loop over answers that goes on as long as they are goesOn.
GoesOver(f, links, n, goesOn) ==
  f[0] = goesOn /\ \A k \in 1..n : f[k] = IF f[k - 1] = goesOn THEN links[k] ELSE f[k - 1]

\* Where it would stop.
StopsOf(links, n, goesOn) == {k \in 1..n : links[k] # goesOn}

\* There is such a loop.
LEMMA GoesOverSomehow ==
  ASSUME NEW n \in Nat, NEW goesOn \in ThreeAnswers, NEW links \in [1..n -> ThreeAnswers]
  PROVE  \E f \in [0..n -> ThreeAnswers] : GoesOver(f, links, n, goesOn)
<1> HIDE DEF ThreeAnswers
<1> DEFINE step == [p \in (1..n) \X ThreeAnswers |-> IF p[2] = goesOn THEN links[p[1]] ELSE p[2]]
<1>1. step \in [(1..n) \X ThreeAnswers -> ThreeAnswers]
  OBVIOUS
<1>2. LoopHasValues(n, ThreeAnswers, goesOn, step)
  <2> HIDE DEF step
  <2> QED BY <1>1, LoopRuns
<1>3. PICK f \in [0..n -> ThreeAnswers] :
        f[0] = goesOn /\ \A k \in 1..n : f[k] = step[<<k, f[k - 1]>>]
  <2> HIDE DEF step
  <2> QED BY <1>2 DEF LoopHasValues, LoopHas
<1>4. ASSUME NEW k \in 1..n PROVE f[k] = IF f[k - 1] = goesOn THEN links[k] ELSE f[k - 1]
  <2>1. f[k - 1] \in ThreeAnswers
    BY <1>3
  <2>2. step[<<k, f[k - 1]>>] = IF f[k - 1] = goesOn THEN links[k] ELSE f[k - 1]
    BY <2>1
  <2> QED BY <1>3, <2>2
<1> HIDE DEF step
<1> QED BY <1>3, <1>4 DEF GoesOver

\* It ends with the first answer that stops it.
LEMMA FirstStop ==
  ASSUME NEW n \in Nat, NEW goesOn, NEW links, NEW f, GoesOver(f, links, n, goesOn)
  PROVE  f[n] = IF StopsOf(links, n, goesOn) = {} THEN goesOn
                ELSE links[Min(StopsOf(links, n, goesOn))]
<1> DEFINE stops == StopsOf(links, n, goesOn)
           first == Min(stops)
           Good == {k \in Nat : k <= n =>
                      f[k] = IF stops # {} /\ first <= k THEN links[first] ELSE goesOn}
<1>1. stops \subseteq 1..n /\ \A k \in 1..n : k \in stops <=> links[k] # goesOn
  BY DEF StopsOf
<1>2. stops # {} => first \in stops /\ \A k \in stops : first <= k
  BY <1>1, LeastPosition
<1> HIDE DEF stops
<1>7. stops # {} => first \in Nat /\ first >= 1 /\ first <= n /\ links[first] # goesOn
  <2>1. SUFFICES ASSUME stops # {}
                 PROVE  first \in Nat /\ first >= 1 /\ first <= n /\ links[first] # goesOn
    OBVIOUS
  <2>2. first \in stops
    BY <1>2, <2>1
  <2> HIDE DEF first
  <2> QED BY <1>1, <2>2
<1> HIDE DEF first
<1>3. 0 \in Good
  <2>1. f[0] = goesOn
    BY DEF GoesOver
  <2>2. ~(stops # {} /\ first <= 0)
    BY <1>7
  <2> QED BY <2>1, <2>2
<1>4. ASSUME NEW k \in Nat, k \in Good PROVE k + 1 \in Good
  <2>1. SUFFICES ASSUME k + 1 <= n
                 PROVE f[k + 1] = IF stops # {} /\ first <= k + 1 THEN links[first] ELSE goesOn
    OBVIOUS
  <2>2. k + 1 \in 1..n /\ (k + 1) - 1 = k /\ k <= n
    BY <2>1
  <2>3. f[k + 1] = IF f[k] = goesOn THEN links[k + 1] ELSE f[k]
    BY <2>2 DEF GoesOver
  <2>4. f[k] = IF stops # {} /\ first <= k THEN links[first] ELSE goesOn
    BY <1>4, <2>2
  <2>5. CASE stops # {} /\ first <= k
    <3>1. first \in 1..n /\ links[first] # goesOn
      BY <1>1, <1>2, <2>5
    <3> QED BY <2>3, <2>4, <2>5, <3>1
  <2>6. CASE stops # {} /\ first = k + 1
    <3>1. ~(first <= k) /\ first <= k + 1
      BY <2>6
    <3> QED BY <2>3, <2>4, <2>6, <3>1
  <2>7. CASE ~(stops # {} /\ first <= k + 1)
    <3>1. ~(stops # {} /\ first <= k)
      BY <1>7, <2>7
    <3>2. k + 1 \notin stops
      BY <1>2, <2>7
    <3> QED BY <1>1, <2>2, <2>3, <2>4, <2>7, <3>1, <3>2
  <2> QED BY <1>7, <2>5, <2>6, <2>7
<1>5. n \in Good
  <2> HIDE DEF Good
  <2> QED BY <1>3, <1>4, EveryNatural
<1> QED BY <1>5, <1>7 DEF stops, first

\* The loop over a chain stops at the first link that is not true, which is Python's
\* answer as well; after a chain without such a link both answer true.
LEMMA ComparesLikePython ==
  ASSUME NEW ops \in Seq(STRING), ops # <<>>, NEW values
  PROVE  VisitCompare(ops, values) = PythonCompare(ops, values)
<1> DEFINE n == Len(ops)
           yes == PyBool(TRUE)
           links == [k \in 1..n |-> CompareValues(ops[k], values[k], values[k + 1])]
           Round(f, k) == IF k = 0 THEN yes
                          ELSE IF f[k - 1] = yes
                               THEN CompareValues(ops[k], values[k], values[k + 1]) ELSE f[k - 1]
           loop == CHOOSE f : f = [k \in 0..n |-> Round(f, k)]
           stops == StopsOf(links, n, yes)
<1>1. n \in Nat /\ n >= 1
  OBVIOUS
<1>2. links \in [1..n -> ThreeAnswers]
  BY ComparisonAnswers
<1>3. yes \in ThreeAnswers
  BY DEF ThreeAnswers
<1>4. VisitCompare(ops, values) = loop[n]
  BY Zenon DEF VisitCompare
<1>5. PythonCompare(ops, values) = PythonBoolOp("And", links)
  BY Zenon DEF PythonCompare
<1>6. \A k \in 1..n : links[k] = CompareValues(ops[k], values[k], values[k + 1])
  BY Zenon
<1> HIDE DEF n, links, yes
<1>7. \E f : f = [k \in 0..n |-> Round(f, k)]
  <2>1. PICK f \in [0..n -> ThreeAnswers] : GoesOver(f, links, n, yes)
    BY <1>1, <1>2, <1>3, GoesOverSomehow
  <2>2. ASSUME NEW k \in 0..n PROVE f[k] = Round(f, k)
    <3>1. k = 0 \/ (k # 0 /\ k \in 1..n)
      BY <1>1
    <3> QED BY <1>6, <2>1, <3>1 DEF GoesOver
  <2>3. f = [k \in 0..n |-> f[k]]
    OBVIOUS
  <2> HIDE DEF Round
  <2>4. f = [k \in 0..n |-> Round(f, k)]
    BY <2>2, <2>3, Zenon
  <2>5. \E h : h = [k \in 0..n |-> Round(h, k)]
    BY <2>4, Zenon
  <2> QED BY <2>5
<1>8. \A k \in 0..n : loop[k] = Round(loop, k)
  <2> HIDE DEF Round
  <2>1. loop = [k \in 0..n |-> Round(loop, k)]
    BY <1>7, Zenon
  <2> HIDE DEF loop
  <2> QED BY <2>1, Zenon
<1> HIDE DEF loop
<1>9. GoesOver(loop, links, n, yes)
  <2>1. loop[0] = yes
    BY <1>1, <1>8
  <2>2. ASSUME NEW k \in 1..n PROVE loop[k] = IF loop[k - 1] = yes THEN links[k] ELSE loop[k - 1]
    <3>1. k \in 0..n /\ k # 0
      BY <1>1
    <3>2. loop[k] = Round(loop, k)
      BY <1>8, <3>1
    <3> QED BY <1>6, <3>1, <3>2
  <2> QED BY <2>1, <2>2 DEF GoesOver
<1>10. loop[n] = IF stops = {} THEN yes ELSE links[Min(stops)]
  BY <1>1, <1>9, FirstStop
<1>11. ASSUME NEW k \in 1..n
       PROVE  Is(links[k], "raised") \/ (Truthy(links[k]) <=> "And" = "Or") <=> links[k] # yes
  <2>1. links[k] \in ThreeAnswers
    BY <1>2
  <2> QED BY <2>1, TruthValues DEF ThreeAnswers, yes
<1>12. Len(links) = n /\ Settling("And", links) = stops
  <2>1. Len(links) = n
    BY <1>1, <1>2
  <2> QED BY <2>1, <1>11 DEF Settling, StopsOf
<1>13. PythonBoolOp("And", links) = links[IF stops = {} THEN n ELSE Min(stops)]
  BY <1>12, Zenon DEF PythonBoolOp
<1>14. stops = {} => links[n] = yes
  BY <1>1 DEF StopsOf
<1> HIDE DEF stops
<1> QED BY <1>4, <1>5, <1>10, <1>13, <1>14

\* Both raise or neither does, and they are as true as each other.
SameTruth(value, meaning) ==
  /\ Is(value, "raised") <=> Is(meaning, "raised")
  /\ Truthy(value) <=> Truthy(meaning)

\* The loop over operands stops where Python does, with the truth of what Python answers.
LEMMA BoolOpsAlike ==
  ASSUME NEW op \in {"And", "Or"}, NEW n \in Nat, n >= 1, NEW values, NEW meanings,
         Len(values) = n, Len(meanings) = n,
         \A k \in 1..n : SameTruth(values[k], meanings[k])
  PROVE  SameTruth(VisitBoolOp(op, values), PythonBoolOp(op, meanings))
<1> DEFINE goesOn == PyBool(op = "And")
           Link(k) == IF Is(values[k], "raised") THEN Raised ELSE PyBool(Truthy(values[k]))
           links == [k \in 1..n |-> Link(k)]
           Round(f, k) == IF k = 0 THEN goesOn
                          ELSE IF f[k - 1] # goesOn THEN f[k - 1]
                          ELSE Link(k)
           loop == CHOOSE f : f = [k \in 0..n |-> Round(f, k)]
           stops == StopsOf(links, n, goesOn)
<1>1. VisitBoolOp(op, values) = loop[n]
  BY Zenon DEF VisitBoolOp
<1>2. links \in [1..n -> ThreeAnswers]
  BY DEF ThreeAnswers, PyBool
<1>3. goesOn \in ThreeAnswers
  BY DEF ThreeAnswers, PyBool
<1>4. \A k \in 1..n : links[k] = Link(k)
  OBVIOUS
<1>5. goesOn = IF op = "And" THEN PyBool(TRUE) ELSE PyBool(FALSE)
  BY DEF PyBool
<1>6. \A k \in 1..n : Link(k) = IF Is(values[k], "raised") THEN Raised
                                ELSE IF Truthy(values[k]) THEN PyBool(TRUE) ELSE PyBool(FALSE)
  BY DEF PyBool
<1> HIDE DEF Link, links, goesOn
<1>7. \E f : f = [k \in 0..n |-> Round(f, k)]
  <2>1. PICK f \in [0..n -> ThreeAnswers] : GoesOver(f, links, n, goesOn)
    BY <1>2, <1>3, GoesOverSomehow
  <2>2. ASSUME NEW k \in 0..n PROVE f[k] = Round(f, k)
    <3>1. k = 0 \/ (k # 0 /\ k \in 1..n)
      OBVIOUS
    <3> QED BY <1>4, <2>1, <3>1 DEF GoesOver
  <2>3. f = [k \in 0..n |-> f[k]]
    OBVIOUS
  <2> HIDE DEF Round
  <2>4. f = [k \in 0..n |-> Round(f, k)]
    BY <2>2, <2>3, Zenon
  <2>5. \E h : h = [k \in 0..n |-> Round(h, k)]
    BY <2>4, Zenon
  <2> QED BY <2>5
<1>8. \A k \in 0..n : loop[k] = Round(loop, k)
  <2> HIDE DEF Round
  <2>1. loop = [k \in 0..n |-> Round(loop, k)]
    BY <1>7, Zenon
  <2> HIDE DEF loop
  <2> QED BY <2>1, Zenon
<1> HIDE DEF loop
<1>9. GoesOver(loop, links, n, goesOn)
  <2>1. loop[0] = goesOn
    BY <1>8
  <2>2. ASSUME NEW k \in 1..n
        PROVE  loop[k] = IF loop[k - 1] = goesOn THEN links[k] ELSE loop[k - 1]
    <3>1. k \in 0..n /\ k # 0
      OBVIOUS
    <3>2. loop[k] = Round(loop, k)
      BY <1>8, <3>1
    <3> QED BY <1>4, <3>1, <3>2
  <2> QED BY <2>1, <2>2 DEF GoesOver
<1>10. loop[n] = IF stops = {} THEN goesOn ELSE links[Min(stops)]
  BY <1>9, FirstStop
<1>11. ASSUME NEW k \in 1..n
       PROVE  links[k] # goesOn
                <=> Is(meanings[k], "raised") \/ (Truthy(meanings[k]) <=> op = "Or")
  <2>1. SameTruth(values[k], meanings[k])
    OBVIOUS
  <2> QED BY <1>4, <1>5, <1>6, <2>1, TruthValues DEF SameTruth
<1>12. Settling(op, meanings) = stops
  BY <1>11 DEF Settling, StopsOf
<1>13. PythonBoolOp(op, meanings) = meanings[IF stops = {} THEN n ELSE Min(stops)]
  BY <1>12, Zenon DEF PythonBoolOp
<1>14. CASE stops = {}
  <2>1. links[n] = goesOn
    BY <1>14 DEF StopsOf
  <2>2. ~Is(meanings[n], "raised") /\ (Truthy(meanings[n]) <=> op = "And")
    BY <1>11, <2>1
  <2>3. SameTruth(goesOn, meanings[n])
    BY <1>5, <2>2, TruthValues DEF SameTruth
  <2> HIDE DEF stops
  <2> QED BY <1>1, <1>10, <1>13, <1>14, <2>3
<1>15. CASE stops # {}
  <2> DEFINE first == Min(stops)
  <2>1. first \in 1..n
    <3>1. stops \subseteq 1..n
      BY DEF StopsOf
    <3> QED BY <1>15, <3>1, LeastPosition
  <2> HIDE DEF first
  <2>2. SameTruth(Link(first), meanings[first])
    <3>1. SameTruth(values[first], meanings[first])
      BY <2>1
    <3>2. Is(values[first], "raised") => ~Truthy(values[first])
      BY DEF Truthy
    <3> QED BY <1>6, <2>1, <3>1, <3>2, TruthValues DEF SameTruth
  <2>3. links[first] = Link(first)
    BY <1>4, <2>1
  <2> HIDE DEF stops
  <2> QED BY <1>1, <1>10, <1>13, <1>15, <2>2, <2>3 DEF first
<1> QED BY <1>14, <1>15

\* The interpreter does with one node and the values of its kids what Python does.  It
\* asks the kids for the same values, or, where only their truth counts, the same truth.
LEMMA OneNode ==
  ASSUME NEW node, WellFormed(node), Len(node.kids) \in Nat, NEW object, NEW values, NEW meanings,
         Len(values) = Len(node.kids), Len(meanings) = Len(node.kids),
         \A k \in 1..Len(node.kids) : SameTruth(values[k], meanings[k]),
         node.type \in {"Compare", "Call", "Attribute"} => values = meanings
  PROVE  /\ SameTruth(Visit(node, values, object), InPython(node, meanings, object))
         /\ node.type # "BoolOp" => Visit(node, values, object) = InPython(node, meanings, object)
<1>1. CASE node.type = "BoolOp"
  <2>1. node.op \in {"And", "Or"} /\ Len(node.kids) >= 1
    BY <1>1 DEF WellFormed
  <2>2. SameTruth(VisitBoolOp(node.op, values), PythonBoolOp(node.op, meanings))
    BY <2>1, BoolOpsAlike
  <2>3. Visit(node, values, object) = VisitBoolOp(node.op, values)
    BY <1>1 DEF Visit
  <2>4. InPython(node, meanings, object) = PythonBoolOp(node.op, meanings)
    BY <1>1 DEF InPython
  <2> QED BY <1>1, <2>2, <2>3, <2>4
<1>2. CASE node.type = "Compare"
  <2>1. node.ops \in Seq(STRING) /\ node.ops # <<>>
    BY <1>2 DEF WellFormed
  <2>2. VisitCompare(node.ops, values) = PythonCompare(node.ops, values)
    BY <2>1, ComparesLikePython
  <2>3. Visit(node, values, object) = VisitCompare(node.ops, values)
    BY <1>2 DEF Visit
  <2>4. InPython(node, meanings, object) = PythonCompare(node.ops, meanings)
    BY <1>2 DEF InPython
  <2> QED BY <1>2, <2>2, <2>3, <2>4 DEF SameTruth
<1>3. CASE node.type \notin {"BoolOp", "Compare"}
  <2>1. /\ Visit(node, values, object) = VisitPlain(node, values, object)
        /\ InPython(node, meanings, object) = VisitPlain(node, meanings, object)
    BY <1>3 DEF Visit, InPython
  <2>2. VisitPlain(node, values, object) = VisitPlain(node, meanings, object)
    <3>1. CASE node.type = "UnaryOp"
      <4>1. Len(node.kids) = 1
        BY <3>1 DEF WellFormed
      <4>2. SameTruth(values[1], meanings[1])
        BY <4>1
      <4>3. \A v : VisitPlain(node, v, object) =
                     IF Is(v[1], "raised") THEN Raised ELSE PyBool(~Truthy(v[1]))
        BY <3>1 DEF VisitPlain
      <4>4. PyBool(~Truthy(values[1])) = PyBool(~Truthy(meanings[1]))
        BY <4>2 DEF SameTruth, PyBool
      <4> QED BY <4>2, <4>3, <4>4 DEF SameTruth
    <3>2. CASE node.type \in {"Call", "Attribute"}
      BY <3>2
    <3>3. CASE node.type = "Constant"
      BY <3>3 DEF VisitPlain
    <3>4. CASE node.type = "Name"
      BY <3>4 DEF VisitPlain
    <3>5. CASE node.type \notin {"UnaryOp", "Call", "Attribute", "Constant", "Name"}
      BY <3>5 DEF VisitPlain
    <3> QED BY <3>1, <3>2, <3>3, <3>4, <3>5
  <2> QED BY <2>1, <2>2 DEF SameTruth
<1> QED BY <1>1, <1>2, <1>3

\* So with every node of an expression that uses "and" and "or" for their truth only, one
\* after the other.
LEMMA NodesAgree ==
  ASSUME NEW expr, NEW object, IsExpression(expr), TruthOnly(expr)
  PROVE  \A i \in 1..Len(expr) : SameTruth(Visited(expr, object)[i], Meanings(expr, object)[i])
<1> DEFINE value == Visited(expr, object)
           meaning == Meanings(expr, object)
           Agrees(i) == /\ SameTruth(value[i], meaning[i])
                        /\ expr[i].type # "BoolOp" => value[i] = meaning[i]
           Values(i) == [k \in 1..Len(expr[i].kids) |-> value[i - expr[i].kids[k]]]
           MeaningsOf(i) == [k \in 1..Len(expr[i].kids) |-> meaning[i - expr[i].kids[k]]]
           Done == {n \in Nat : \A i \in 1..Len(expr) : i <= n => Agrees(i)}
<1>1. Len(expr) \in Nat
  BY DEF IsExpression
<1>2. \A i \in 1..Len(expr) : value[i] = Visit(expr[i], Values(i), object)
  BY VisitedNode, Zenon
<1>3. \A i \in 1..Len(expr) : meaning[i] = InPython(expr[i], MeaningsOf(i), object)
  BY MeaningOfNode, Zenon
<1> HIDE DEF value, meaning
<1>4. 0 \in Done
  OBVIOUS
<1>5. ASSUME NEW n \in Nat, n \in Done PROVE n + 1 \in Done
  <2>1. SUFFICES ASSUME n + 1 <= Len(expr) PROVE Agrees(n + 1)
    <3>1. \A i \in 1..Len(expr) : i <= n + 1 => i <= n \/ (i = n + 1 /\ n + 1 <= Len(expr))
      BY <1>1
    <3> HIDE DEF Agrees
    <3> QED BY <1>5, <2>1, <3>1
  <2> DEFINE i == n + 1
             node == expr[i]
  <2>2. i \in 1..Len(expr)
    BY <1>1, <2>1
  <2>3. WellFormed(node) /\ node.kids \in Seq(1..(i - 1))
    BY <2>2 DEF IsExpression
  <2>4. Len(node.kids) \in Nat
    BY <2>3
  <2>5. ASSUME NEW k \in 1..Len(node.kids)
        PROVE  i - node.kids[k] \in 1..Len(expr) /\ Agrees(i - node.kids[k])
    <3>1. node.kids[k] \in 1..(i - 1)
      BY <2>3, <2>5
    <3>2. i - node.kids[k] \in 1..Len(expr) /\ i - node.kids[k] <= n
      BY <1>1, <2>1, <3>1
    <3> HIDE DEF Agrees
    <3> QED BY <1>5, <3>2
  <2>6. \A k \in 1..Len(node.kids) : SameTruth(Values(i)[k], MeaningsOf(i)[k])
    BY <2>5
  <2>7. node.type \in {"Compare", "Call", "Attribute"} => Values(i) = MeaningsOf(i)
    <3>1. SUFFICES ASSUME node.type \in {"Compare", "Call", "Attribute"},
                          NEW k \in 1..Len(node.kids)
                   PROVE  value[i - node.kids[k]] = meaning[i - node.kids[k]]
      BY Zenon
    <3>2. Kid(expr, i, k).type # "BoolOp"
      BY <2>2, <3>1 DEF TruthOnly
    <3> QED BY <2>5, <3>2 DEF Kid
  <2>8. Len(Values(i)) = Len(node.kids) /\ Len(MeaningsOf(i)) = Len(node.kids)
    BY <2>4
  <2>9. value[i] = Visit(node, Values(i), object)
    BY <1>2, <2>2
  <2>10. meaning[i] = InPython(node, MeaningsOf(i), object)
    BY <1>3, <2>2
  <2> HIDE DEF Values, MeaningsOf
  <2>11. /\ SameTruth(Visit(node, Values(i), object), InPython(node, MeaningsOf(i), object))
         /\ node.type # "BoolOp" =>
              Visit(node, Values(i), object) = InPython(node, MeaningsOf(i), object)
    <3> HIDE DEF node, i
    <3> QED BY <2>3, <2>4, <2>6, <2>7, <2>8, OneNode
  <2> QED BY <2>9, <2>10, <2>11
<1> HIDE DEF Done
<1>6. Nat \subseteq Done
  BY <1>4, <1>5, EveryNatural
<1>7. ASSUME NEW i \in 1..Len(expr) PROVE SameTruth(value[i], meaning[i])
  <2>1. i \in Nat /\ i <= i
    BY <1>1
  <2> QED BY <1>6, <2>1 DEF Done
<1> QED BY <1>7 DEF value, meaning

\* The evaluator calls an expression true exactly when Python does: "and" and "or" may stop
\* early, and a chain of comparisons too, and an error may never be reached, but what the
\* gate comes to is the same.
THEOREM EvaluatorIsPython ==
  ASSUME NEW gate, NEW a, IsExpression(gate), TruthOnly(gate)
  PROVE  SafeEvalGate(gate, a) <=> HoldsInPython(gate, a)
<1>1. Len(gate) \in 1..Len(gate)
  BY DEF IsExpression
<1>2. SameTruth(Visited(gate, ResultOf(a))[Len(gate)], Meanings(gate, ResultOf(a))[Len(gate)])
  <2> DEFINE object == ResultOf(a)
  <2> HIDE DEF object
  <2>1. SameTruth(Visited(gate, object)[Len(gate)], Meanings(gate, object)[Len(gate)])
    BY <1>1, NodesAgree
  <2> QED BY <2>1 DEF object
<1> QED BY <1>2 DEF SafeEvalGate, HoldsInPython, SameTruth

--------------------------------------------------------------------------------
(* The invariant.                                                          *)

\* A turn starts with no answer, no result and nothing run.
LEMMA InitIInv == ASSUME Init PROVE IInv
<1>1. Shape
  BY AnswerCommands, TurnAssumption, EmptySeq DEF Init, Shape, NoAnswer, Results, Answers, Reasons
<1>2. Place /\ Executing
  BY TurnAssumption DEF Init, Place, Executing, Escalates
<1>3. EscalationsExplained /\ OnlyVettedRuns /\ GreenIsGreen
  BY DEF Init, EscalationsExplained, OnlyVettedRuns, GreenIsGreen
<1> QED BY <1>1, <1>2, <1>3 DEF IInv

\* A turn that has not run anything has nothing to answer for.
LEMMA NothingRun ==
  ASSUME ran' = <<>>, outcome' = "none"
  PROVE  OnlyVettedRuns' /\ GreenIsGreen'
BY DEF OnlyVettedRuns, GreenIsGreen

\* Without an answer, the result is the driver's own, with a reason.
LEMMA GiveUpStep ==
  ASSUME IInv, NEW reason \in {"rate_limit", "error"}, Call, GiveUp(reason),
         reason = "rate_limit" => ~RetriesLeft, UNCHANGED <<mode, answer, tree, ran, outcome>>
  PROVE  IInv'
<1> USE DEF IInv
<1>1. Shape'
  BY TurnAssumption, AnswerCommands DEF Shape, Place, Call, GiveUp, Results, Answers, NoAnswer, Reasons
<1>2. Place'
  BY TurnAssumption, AnswerCommands DEF Shape, Place, Call, GiveUp, Escalates, RetriesLeft
<1>3. Executing' /\ EscalationsExplained'
  BY DEF GiveUp, Executing, EscalationsExplained
<1>4. OnlyVettedRuns' /\ GreenIsGreen'
  BY NothingRun DEF Place, Call
<1> QED BY <1>1, <1>2, <1>3, <1>4

\* A call is answered, is tried again, or raises.
LEMMA CallStep ==
  ASSUME IInv, NoDriver \/ RateLimited \/ CallFails \/ CallFailsSilently \/ CallAnswers
  PROVE  IInv'
<1> USE DEF IInv
<1>1. CASE NoDriver
  <2>1. Shape' /\ Place' /\ Executing' /\ EscalationsExplained'
    BY <1>1 DEF NoDriver, Shape, Place, Executing, EscalationsExplained
  <2>2. OnlyVettedRuns' /\ GreenIsGreen'
    BY <1>1, NothingRun DEF NoDriver, Place
  <2> QED BY <2>1, <2>2
<1>2. CASE RateLimited
  <2>1. CASE RetriesLeft /\ UNCHANGED <<at, result>>
    <3>1. Shape' /\ Place' /\ Executing' /\ EscalationsExplained'
      BY <1>2, <2>1, TurnAssumption
      DEF RateLimited, Call, RetriesLeft, Shape, Place, Executing, EscalationsExplained
    <3>2. OnlyVettedRuns' /\ GreenIsGreen'
      BY <1>2, NothingRun DEF RateLimited, Call, Place
    <3> QED BY <3>1, <3>2
  <2>2. CASE ~RetriesLeft /\ GiveUp("rate_limit")
    BY <1>2, <2>2, GiveUpStep DEF RateLimited
  <2> QED BY <1>2, <2>1, <2>2 DEF RateLimited
<1>3. CASE CallFails
  BY <1>3, GiveUpStep DEF CallFails
<1>4. CASE CallFailsSilently
  <2>1. Shape' /\ Place' /\ Executing' /\ EscalationsExplained'
    BY <1>4, TurnAssumption
    DEF CallFailsSilently, Call, Shape, Place, Executing, EscalationsExplained
  <2>2. OnlyVettedRuns' /\ GreenIsGreen'
    BY <1>4, NothingRun DEF CallFailsSilently, Call, Place
  <2> QED BY <2>1, <2>2
<1>5. CASE CallAnswers
  <2>1. Shape'
    <3>1. answer' \in Answers /\ result' = Gated(answer') /\ at' = "answered"
          /\ attempts' = attempts + 1 /\ UNCHANGED <<mode, tree, ran, outcome>> /\ at = "calling"
      BY <1>5 DEF CallAnswers, Call
    <3>2. Gated(answer') \in Results
      BY <3>1 DEF Gated, Answers, Results, Reasons
    <3> QED BY <3>1, <3>2, TurnAssumption DEF Shape, Place
  <2>2. Place'
    BY <1>5 DEF CallAnswers, Call, Gated, Place, Escalates, Shape, Answers
  <2>3. Executing' /\ EscalationsExplained'
    BY <1>5 DEF CallAnswers, Executing, EscalationsExplained
  <2>4. OnlyVettedRuns' /\ GreenIsGreen'
    BY <1>5, NothingRun DEF CallAnswers, Call, Place
  <2> QED BY <2>1, <2>2, <2>3, <2>4
<1> QED BY <1>1, <1>2, <1>3, <1>4, <1>5

\* The filter cuts what is blocked, and hands over nothing else.
LEMMA FilterStep == ASSUME IInv, SecurityFilter PROVE IInv'
<1> USE DEF IInv
<1>1. result' = Filtered(result) /\ at' \in {"applying", "over"} /\ at = "answered"
      /\ UNCHANGED <<mode, attempts, answer, tree, ran, outcome>>
  BY DEF SecurityFilter
<1>2. result.commands = answer.commands /\ tree = "untouched" /\ ran = <<>> /\ outcome = "none"
  BY <1>1 DEF Place
<1>3. result' \in Results /\ NoneAdded'
  <2>1. result \in Results
    BY DEF Shape
  <2>2. result' \in Results
        /\ \A i \in 1..Len(result'.commands) :
             result'.commands[i] \in {result.commands[j] : j \in 1..Len(result.commands)}
    BY <1>1, <2>1, FilteredResult
  <2> QED BY <1>1, <1>2, <2>2 DEF NoneAdded, Suggested
<1>4. Shape'
  BY <1>1, <1>3 DEF Shape
<1>5. CASE mode.strict /\ BlockedAt(answer.commands) # {}
  <2>1. /\ result'.status = "escalated" /\ result'.reason = "security"
        /\ result'.commands = SubSeq(answer.commands, 1, Min(BlockedAt(answer.commands)) - 1)
    BY <1>1, <1>2, <1>5 DEF Filtered, Shape, Results
  <2>2. Place' /\ Executing' /\ EscalationsExplained'
    BY <1>1, <1>2, <1>3, <2>1 DEF Place, CutAtBlocked, Executing, EscalationsExplained
  <2> QED BY <1>1, <1>2, <1>4, <2>2, NothingRun
<1>6. CASE ~(mode.strict /\ BlockedAt(answer.commands) # {})
  <2>1. result'.status = result.status /\ result'.reason = result.reason
    BY <1>1, <1>2, <1>6 DEF Filtered, Shape, Results
  <2>2. ~(mode.strict /\ ToSet(answer.commands) \cap Blocked # {})
    BY <1>6, AnswerCommands DEF BlockedAt, IsSafe, ToSet, Shape
  <2>3. Place' /\ Executing' /\ EscalationsExplained'
    BY <1>1, <1>2, <1>3, <1>6, <2>1, <2>2
    DEF Place, CutAtBlocked, Executing, EscalationsExplained, Escalates
  <2> QED BY <1>1, <1>2, <1>4, <2>3, NothingRun
<1> QED BY <1>5, <1>6

\* A step of the executor leaves what came before it.
LEMMA ExecutorKeeps ==
  ASSUME IInv, at \in {"applying", "running"},
         at' \in {"running", "over", "executor_raised"},
         UNCHANGED <<mode, attempts, answer, result>>, ran' \in Seq(Ran),
         tree' \in {"untouched", "patched", "partial"}, outcome' \in {"none", "done", "escalated"}
  PROVE  Shape' /\ Place' /\ EscalationsExplained'
BY DEF IInv, Shape, Place, CutAtBlocked, NoneAdded, Suggested, EscalationsExplained

\* The diffs of a vetted result are applied, or the executor gives up.
LEMMA ApplyStep ==
  ASSUME IInv, NothingToApply \/ PatchApplies \/ PatchFails
  PROVE  IInv'
<1> USE DEF IInv
<1>1. at = "applying" /\ at' \in {"running", "over"} /\ ran = <<>> /\ outcome = "none"
      /\ UNCHANGED <<mode, attempts, answer, result, ran>> /\ tree = "untouched"
  BY DEF NothingToApply, PatchApplies, PatchFails, Place
<1>2. Shape' /\ Place' /\ EscalationsExplained'
  <2>1. ran' \in Seq(Ran) /\ tree' \in {"untouched", "patched", "partial"}
        /\ outcome' \in {"none", "done", "escalated"}
    BY <1>1, EmptySeq DEF NothingToApply, PatchApplies, PatchFails
  <2> QED BY <1>1, <2>1, ExecutorKeeps
<1>3. Executing'
  BY <1>1 DEF NothingToApply, PatchApplies, PatchFails, Executing
<1>4. OnlyVettedRuns' /\ GreenIsGreen'
  BY <1>1 DEF NothingToApply, PatchApplies, PatchFails, OnlyVettedRuns, GreenIsGreen
<1> QED BY <1>2, <1>3, <1>4

\* What the executor is about to run, it may run.
LEMMA CurrentIsVetted ==
  ASSUME IInv, AtCommand, Runnable(Current)
  PROVE  /\ Current \in Allowlisted \ Blocked
         /\ Current \in Suggested(Len(answer.commands)) \cup ToSet(mode.defaults)
         /\ mode.strict =>
              \A k \in 1..Len(answer.commands) :
                answer.commands[k] \in Blocked =>
                  Current \in Suggested(k - 1) \cup ToSet(mode.defaults)
<1>1. Current \in Allowlisted \ Blocked
  BY DEF Runnable
<1>2. Len(ran) \in Nat /\ Len(ran) < Len(ToRun)
  BY DEF IInv, Shape, AtCommand
<1>3. result.commands \in Seq(Commands)
  BY Bounded DEF IInv, Shape, Results
<1>4. ASSUME result.commands = <<>> PROVE Current \in ToSet(mode.defaults)
  <2>1. mode.defaults \in Seq(Allowlisted)
    <3>1. mode.defaults \in {<<>>} \cup {<<c>> : c \in Allowlisted \ Blocked}
      BY DEF IInv, Shape, Modes
    <3>2. CASE mode.defaults = <<>>
      BY <3>2
    <3>3. ASSUME NEW c \in Allowlisted, mode.defaults = <<c>>
          PROVE  mode.defaults \in Seq(Allowlisted)
      BY <3>3
    <3> QED BY <3>1, <3>2, <3>3
  <2>2. Current = mode.defaults[Len(ran) + 1] /\ Len(ran) + 1 \in 1..Len(mode.defaults)
    BY <1>2, <1>4, <2>1 DEF Current, ToRun
  <2> QED BY <2>1, <2>2 DEF ToSet
<1>5. ASSUME result.commands # <<>>
      PROVE  Current = result.commands[Len(ran) + 1] /\ Len(ran) + 1 \in 1..Len(result.commands)
  BY <1>2, <1>3, <1>5 DEF Current, ToRun
<1>6. Current \in Suggested(Len(answer.commands)) \cup ToSet(mode.defaults)
  <2>1. NoneAdded
    BY DEF IInv, Place, AtCommand
  <2> QED BY <1>4, <1>5, <2>1 DEF NoneAdded
<1>7. ASSUME mode.strict, NEW k \in 1..Len(answer.commands), answer.commands[k] \in Blocked
      PROVE  Current \in Suggested(k - 1) \cup ToSet(mode.defaults)
  <2>1. answer.commands \in Seq(Commands)
    BY AnswerCommands DEF IInv, Shape
  <2>2. k \in BlockedAt(answer.commands)
    BY <1>7 DEF BlockedAt, IsSafe
  <2>3. result.commands = SubSeq(answer.commands, 1, Min(BlockedAt(answer.commands)) - 1)
    BY <1>7, <2>2 DEF IInv, Place, CutAtBlocked, AtCommand
  <2>4. CASE result.commands # <<>>
    <3>1. Current = result.commands[Len(ran) + 1] /\ Len(ran) + 1 \in 1..Len(result.commands)
      BY <1>5, <2>4
    <3> QED BY <1>7, <2>1, <2>3, <3>1, CutIsVetted DEF Suggested
  <2> QED BY <1>4, <2>4
<1> QED BY <1>1, <1>6, <1>7

\* One command more has run, or the turn is over.
LEMMA CommandStep ==
  ASSUME IInv, CommandRefused \/ CommandSucceeds \/ CommandFails \/ ExecutorRaises \/ ExecutorDone
  PROVE  IInv'
<1> USE DEF IInv
<1>0. ran \in Seq(Ran) /\ tree \in {"untouched", "patched", "partial"}
      /\ outcome \in {"none", "done", "escalated"}
  BY DEF Shape
<1>1. CASE CommandRefused \/ ExecutorRaises \/ ExecutorDone
  <2>1. Shape' /\ Place' /\ EscalationsExplained'
    BY <1>0, <1>1, ExecutorKeeps DEF CommandRefused, ExecutorRaises, ExecutorDone, AtCommand
  <2>2. Executing' /\ OnlyVettedRuns'
    <3>1. UNCHANGED <<mode, answer, ran>> /\ at' # "running"
      BY <1>1 DEF CommandRefused, ExecutorRaises, ExecutorDone
    <3> QED BY <3>1 DEF Executing, OnlyVettedRuns, Suggested
  <2>3. GreenIsGreen'
    <3>1. ran' = ran /\ tree' = tree /\ result' = result /\ ToRun' = ToRun
      BY <1>1 DEF CommandRefused, ExecutorRaises, ExecutorDone, ToRun
    <3>2. CASE at = "running"
      BY <1>1, <3>1, <3>2
      DEF CommandRefused, ExecutorRaises, ExecutorDone, AtCommand, Executing, GreenIsGreen
    <3>3. CASE at # "running"
      BY <1>1, <3>1, <3>3 DEF CommandRefused, ExecutorRaises, ExecutorDone, AtCommand, Place, GreenIsGreen
    <3> QED BY <3>2, <3>3
  <2> QED BY <2>1, <2>2, <2>3
<1>2. ASSUME NEW passed \in BOOLEAN, AtCommand, Runnable(Current),
             ran' = Append(ran, [command |-> Current, passed |-> passed]),
             UNCHANGED <<mode, attempts, answer, result, tree>>,
             passed => UNCHANGED <<at, outcome>>,
             ~passed => at' = "over" /\ outcome' = "escalated"
      PROVE  IInv'
  <2>1. ran' \in Seq(Ran) /\ Len(ran') = Len(ran) + 1 /\ Len(ran) \in Nat
        /\ ran'[Len(ran) + 1] = [command |-> Current, passed |-> passed]
        /\ \A i \in 1..Len(ran) : ran'[i] = ran[i]
    BY <1>0, <1>2, CurrentIsVetted, AppendProperties DEF Ran
  <2>2. Shape' /\ Place' /\ EscalationsExplained'
    <3>1. /\ at = "running" /\ at' \in {"running", "over"}
          /\ tree' \in {"untouched", "patched", "partial"}
          /\ outcome' \in {"none", "done", "escalated"}
      BY <1>0, <1>2 DEF AtCommand
    <3> QED BY <1>2, <2>1, <3>1, ExecutorKeeps
  <2>3. \A i \in 1..Len(ran) : ran[i].passed
    BY <1>2 DEF AtCommand, Executing
  <2>4. \A i \in 1..Len(ran') : ran'[i].passed \/ (i = Len(ran') /\ ~passed)
    BY <2>1, <2>3
  <2>5. Executing' /\ GreenIsGreen'
    BY <1>2, <2>1, <2>4 DEF AtCommand, Executing, GreenIsGreen
  <2>6. OnlyVettedRuns'
    <3> DEFINE Vetted(c) ==
          /\ c \in Allowlisted \ Blocked
          /\ c \in Suggested(Len(answer.commands)) \cup ToSet(mode.defaults)
          /\ mode.strict =>
               \A k \in 1..Len(answer.commands) :
                 answer.commands[k] \in Blocked => c \in Suggested(k - 1) \cup ToSet(mode.defaults)
    <3>1. Vetted(Current)
      BY <1>2, CurrentIsVetted
    <3>2. \A i \in 1..Len(ran) : Vetted(ran[i].command)
      BY DEF IInv, OnlyVettedRuns
    <3>3. ASSUME \A i \in 1..Len(ran') : Vetted(ran'[i].command) PROVE OnlyVettedRuns'
      <4>1. answer' = answer /\ mode' = mode
        BY <1>2
      <4> QED BY <3>3, <4>1 DEF OnlyVettedRuns, Suggested
    <3> HIDE DEF Vetted
    <3>4. ASSUME NEW i \in 1..Len(ran') PROVE Vetted(ran'[i].command)
      <4>1. CASE i \in 1..Len(ran)
        BY <2>1, <3>2, <4>1
      <4>2. CASE i = Len(ran) + 1
        BY <2>1, <3>1, <4>2
      <4> QED BY <2>1, <4>1, <4>2
    <3> QED BY <3>3, <3>4
  <2> QED BY <2>2, <2>5, <2>6
<1>3. CASE CommandSucceeds
  BY <1>2, <1>3 DEF CommandSucceeds, AtCommand
<1>4. CASE CommandFails
  BY <1>2, <1>4 DEF CommandFails
<1> QED BY <1>1, <1>3, <1>4

\* Every step keeps the invariant.
LEMMA StepIInv == ASSUME IInv, [Next]_vars PROVE IInv'
<1>1. CASE UNCHANGED vars
  BY <1>1 DEF vars, IInv, Shape, Place, CutAtBlocked, NoneAdded, Executing, EscalationsExplained,
              OnlyVettedRuns, Suggested, GreenIsGreen, ToRun
<1>2. CASE Next
  BY <1>2, CallStep, FilterStep, ApplyStep, CommandStep DEF Next
<1> QED BY <1>1, <1>2

\* The invariant holds of every reachable state.
LEMMA Invariance == Spec => []IInv
BY InitIInv, StepIInv, PTL DEF Spec

--------------------------------------------------------------------------------
(* What a turn promises, for every value of the constants.                 *)

\* Every variable keeps its type: the filter, in either mode, leaves a list of commands
\* that is no longer than the answer's.
THEOREM TypeCorrect == Spec => []TypeOK
<1>1. IInv => TypeOK
  <2>1. Seq(Ran) \subseteq Seq([command : Commands, passed : BOOLEAN])
    <3>1. Ran \subseteq [command : Commands, passed : BOOLEAN]
      BY TurnAssumption DEF Ran
    <3> QED BY <3>1, SubsetSeq
  <2> QED BY <2>1 DEF IInv, Shape, TypeOK
<1> QED BY Invariance, <1>1, PTL

\* Whoever escalates leaves a reason, and a strict turn with a blocked command ends
\* escalated for it.
THEOREM ReasonsAreGiven == Spec => []EscalationsExplained
<1>1. IInv => EscalationsExplained
  BY DEF IInv
<1> QED BY Invariance, <1>1, PTL

\* What the executor runs is allowlisted, not blocked, was suggested or is a default, and
\* in strict mode stood before the first blocked command.
THEOREM RunsAreVetted == Spec => []OnlyVettedRuns
<1>1. IInv => OnlyVettedRuns
  BY DEF IInv
<1> QED BY Invariance, <1>1, PTL

\* A green outcome means the whole patch and every command.
THEOREM GreenIsEarned == Spec => []GreenIsGreen
<1>1. IInv => GreenIsGreen
  BY DEF IInv
<1> QED BY Invariance, <1>1, PTL

\* An answer that is neither the driver's own nor filtered yet is what the gates made of it.
Judged == at = "answered" => result.reason \in {"rate_limit", "error"} \/ result = Gated(answer)

\* Nothing comes between the gates and the filter.
LEMMA JudgedInvariance == Spec => []Judged
<1>1. Init => Judged
  BY DEF Init, Judged
<1>2. ASSUME Judged, [Next]_vars PROVE Judged'
  <2>1. CASE UNCHANGED vars
    BY <1>2, <2>1 DEF vars, Judged, Gated, GatesPass
  <2>2. CASE RateLimited
    <3>1. CASE UNCHANGED <<at, result>>
      BY <2>2, <3>1 DEF RateLimited, Call, Judged
    <3>2. CASE GiveUp("rate_limit")
      BY <3>2 DEF GiveUp, Judged
    <3> QED BY <2>2, <3>1, <3>2 DEF RateLimited
  <2>3. CASE CallFails
    BY <2>3 DEF CallFails, GiveUp, Judged
  <2>4. CASE CallAnswers
    <3>1. result' = Gated(answer') /\ mode' = mode
      BY <2>4 DEF CallAnswers
    <3> QED BY <3>1 DEF Judged, Gated, GatesPass
  <2>5. CASE NoDriver \/ CallFailsSilently \/ SecurityFilter
    BY <2>5 DEF NoDriver, CallFailsSilently, SecurityFilter, Judged
  <2>6. CASE NothingToApply \/ PatchApplies \/ PatchFails
    BY <2>6 DEF NothingToApply, PatchApplies, PatchFails, Judged
  <2>7. CASE CommandRefused \/ CommandSucceeds \/ CommandFails \/ ExecutorRaises \/ ExecutorDone
    BY <2>7 DEF CommandRefused, CommandSucceeds, CommandFails, ExecutorRaises, ExecutorDone,
                AtCommand, Judged
  <2> QED BY <1>2, <2>1, <2>2, <2>3, <2>4, <2>5, <2>6, <2>7 DEF Next
<1> QED BY <1>1, <1>2, PTL DEF Spec

\* A strict turn escalates an answer for its gates exactly when Python would not call
\* them all true, and no turn does when Python would: of gates that are expressions, use
\* "and" and "or" for their truth, and are judged by the evaluator.
THEOREM GatesAreMeant ==
  ASSUME AllTests(Gates),
         \A list \in DOMAIN Gates : \A i \in DOMAIN Gates[list], a \in Answers :
           Passes(Gates[list][i], a) <=> SafeEvalGate(Gates[list][i], a)
  PROVE  Spec => []GatesMeanPython
<1>1. ASSUME IInv, Judged PROVE GatesMeanPython
  <2>1. SUFFICES ASSUME at = "answered", result.reason \in {"none", "agent", "gate"}
                 PROVE  result.reason = "gate" <=> \E i \in DOMAIN Gates[mode.gates] :
                                                     ~HoldsInPython(Gates[mode.gates][i], answer)
    BY Zenon DEF GatesMeanPython
  <2>2. mode.gates \in DOMAIN Gates /\ answer \in Answers
    BY <1>1 DEF IInv, Shape, Modes
  <2>3. result = Gated(answer)
    BY <1>1, <2>1 DEF Judged
  <2>4. result.reason = "gate" <=> ~GatesPass(answer)
    BY <2>3 DEF Gated
  <2>5. ASSUME NEW i \in DOMAIN Gates[mode.gates]
        PROVE  Passes(Gates[mode.gates][i], answer) <=> HoldsInPython(Gates[mode.gates][i], answer)
    <3>1. IsExpression(Gates[mode.gates][i]) /\ TruthOnly(Gates[mode.gates][i])
      BY <2>2 DEF AllTests
    <3>2. SafeEvalGate(Gates[mode.gates][i], answer) <=> HoldsInPython(Gates[mode.gates][i], answer)
      BY <3>1, EvaluatorIsPython
    <3> QED BY <2>2, <3>2
  <2> QED BY <2>4, <2>5 DEF GatesPass
<1> QED BY <1>1, Invariance, JudgedInvariance, PTL

--------------------------------------------------------------------------------
(* Why a turn ends: what can still happen becomes less with every step.    *)
(* That the step is taken is fairness, and checked as TurnEnds.            *)

\* The steps a turn has left at most: the calls of the platform, the filter, the
\* diffs, the commands there are, and the end.
Left ==
  CASE at = "calling"  -> (MaxRetries + 1 - attempts) + MaxSuggested + 4
    [] at = "answered" -> MaxSuggested + 4
    [] at = "applying" -> MaxSuggested + 3
    [] at = "running"  -> Len(ToRun) - Len(ran) + 1
    [] OTHER           -> 0

\* The executor runs no more than there is to run.
InList == at = "running" => Len(ran) <= Len(ToRun)

\* What there is to run is no longer than an answer, or the one default of the phase.
LEMMA ToRunIsShort == ASSUME Shape PROVE Len(ToRun) \in Nat /\ Len(ToRun) <= MaxSuggested + 1
<1>1. result.commands \in Seq(Commands) /\ Len(result.commands) <= MaxSuggested
  BY Bounded DEF Shape, Results
<1>2. Len(mode.defaults) \in Nat /\ Len(mode.defaults) <= 1
  <2>1. mode.defaults = <<>> \/ \E c \in Allowlisted \ Blocked : mode.defaults = <<c>>
    BY DEF Shape, Modes
  <2>2. CASE mode.defaults = <<>>
    BY <2>2
  <2>3. ASSUME NEW c, mode.defaults = <<c>> PROVE Len(mode.defaults) \in Nat /\ Len(mode.defaults) <= 1
    <3>1. Len(mode.defaults) = 1
      BY <2>3
    <3> QED BY <3>1
  <2> QED BY <2>1, <2>2, <2>3
<1> QED BY <1>1, <1>2, TurnAssumption DEF ToRun

\* The executor starts at the first command and takes the next as long as there is one.
LEMMA InListInvariance == Spec => []InList
<1>1. Init => InList
  BY DEF Init, InList
<1>2. ASSUME IInv, InList, [Next]_vars PROVE InList'
  <2>1. Len(ran) \in Nat /\ Len(ToRun) \in Nat
    BY <1>2, ToRunIsShort DEF IInv, Shape
  <2>2. CASE NothingToApply \/ PatchApplies
    <3>1. ran' = <<>> /\ ToRun' = ToRun
      BY <1>2, <2>2 DEF NothingToApply, PatchApplies, IInv, Place, ToRun
    <3> QED BY <2>1, <3>1 DEF InList
  <2>3. CASE CommandSucceeds
    <3>1. ran \in Seq(Ran) /\ ran' = Append(ran, [command |-> Current, passed |-> TRUE])
      BY <1>2, <2>3 DEF CommandSucceeds, IInv, Shape
    <3>2. Len(ran') = Len(ran) + 1 /\ ToRun' = ToRun /\ Len(ran) < Len(ToRun)
      BY <2>3, <3>1 DEF CommandSucceeds, AtCommand, ToRun
    <3> QED BY <2>1, <3>2 DEF InList
  <2>4. CASE NoDriver \/ RateLimited \/ CallFails \/ CallFailsSilently \/ CallAnswers
    BY <2>4 DEF NoDriver, RateLimited, CallFails, CallFailsSilently, CallAnswers, Call, GiveUp, InList
  <2>5. CASE SecurityFilter \/ PatchFails \/ CommandRefused \/ CommandFails \/ ExecutorRaises \/ ExecutorDone
    BY <2>5 DEF SecurityFilter, PatchFails, CommandRefused, CommandFails, ExecutorRaises, ExecutorDone, InList
  <2>6. CASE UNCHANGED vars
    BY <1>2, <2>6 DEF vars, InList, ToRun
  <2> QED BY <1>2, <2>2, <2>3, <2>4, <2>5, <2>6 DEF Next
<1> QED BY <1>1, <1>2, Invariance, PTL DEF Spec

\* A call that the turn comes back from, or tries again, is one call less.
LEMMA CallSinks ==
  ASSUME IInv, NoDriver \/ RateLimited \/ CallFails \/ CallFailsSilently \/ CallAnswers
  PROVE  Left' < Left
<1>1. /\ at = "calling" /\ attempts \in 0..MaxRetries
      /\ \/ at' \in {"answered", "driver_raised", "invoke_raised"}
         \/ at' = "calling" /\ attempts' = attempts + 1
  BY TurnAssumption
  DEF NoDriver, RateLimited, CallFails, CallFailsSilently, CallAnswers, Call, GiveUp, IInv, Shape, Place
<1>2. Left = (MaxRetries + 1 - attempts) + MaxSuggested + 4
  BY <1>1 DEF Left
<1>3. \/ Left' = MaxSuggested + 4 \/ Left' = 0
      \/ Left' = (MaxRetries + 1 - (attempts + 1)) + MaxSuggested + 4
  BY <1>1 DEF Left
<1> QED BY <1>1, <1>2, <1>3, TurnAssumption

\* Whatever follows the answer is one step nearer to the end.
LEMMA ExecutorSinks ==
  ASSUME IInv, InList,
         \/ SecurityFilter \/ NothingToApply \/ PatchApplies \/ PatchFails
         \/ CommandRefused \/ CommandSucceeds \/ CommandFails \/ ExecutorRaises \/ ExecutorDone
  PROVE  Left' < Left
<1>1. Len(ran) \in Nat /\ Len(ToRun) \in Nat /\ Len(ToRun) <= MaxSuggested + 1
  BY ToRunIsShort DEF IInv, Shape
<1>2. CASE SecurityFilter
  <2>1. at = "answered" /\ at' \in {"applying", "over"}
    BY <1>2 DEF SecurityFilter
  <2> QED BY <2>1, TurnAssumption DEF Left
<1>3. CASE NothingToApply \/ PatchApplies
  <2>1. at = "applying" /\ at' = "running" /\ ran' = <<>> /\ ToRun' = ToRun
    BY <1>3 DEF NothingToApply, PatchApplies, IInv, Place, ToRun
  <2>2. Left = MaxSuggested + 3 /\ Left' = Len(ToRun) - 0 + 1
    BY <2>1 DEF Left
  <2> QED BY <1>1, <2>2, TurnAssumption
<1>4. CASE CommandSucceeds
  <2>1. ran \in Seq(Ran) /\ ran' = Append(ran, [command |-> Current, passed |-> TRUE])
    BY <1>4 DEF CommandSucceeds, IInv, Shape
  <2>2. /\ at = "running" /\ at' = "running" /\ ToRun' = ToRun
        /\ Len(ran') = Len(ran) + 1 /\ Len(ran) < Len(ToRun)
    BY <1>4, <2>1 DEF CommandSucceeds, AtCommand, ToRun
  <2>3. Left = Len(ToRun) - Len(ran) + 1 /\ Left' = Len(ToRun) - (Len(ran) + 1) + 1
    BY <2>2 DEF Left
  <2> QED BY <1>1, <2>2, <2>3
<1>5. CASE PatchFails \/ CommandRefused \/ CommandFails \/ ExecutorRaises \/ ExecutorDone
  <2>1. at \in {"applying", "running"} /\ at' \in {"over", "executor_raised"}
    BY <1>5 DEF PatchFails, CommandRefused, CommandFails, ExecutorRaises, ExecutorDone, AtCommand
  <2>2. Left' = 0
    BY <2>1 DEF Left
  <2>3. CASE at = "running"
    <3>1. Left = Len(ToRun) - Len(ran) + 1 /\ Len(ran) <= Len(ToRun)
      BY <2>3 DEF Left, InList
    <3> QED BY <1>1, <2>2, <3>1
  <2>4. CASE at = "applying"
    BY <2>2, <2>4, TurnAssumption DEF Left
  <2> QED BY <2>1, <2>3, <2>4
<1> QED BY <1>2, <1>3, <1>4, <1>5

\* The steps left are a number that retries and answer bound.
LEMMA LeftIsBounded == ASSUME IInv, InList PROVE Left \in 0..(MaxRetries + MaxSuggested + 5)
<1>1. Len(ran) \in Nat /\ Len(ToRun) \in Nat /\ Len(ToRun) <= MaxSuggested + 1
  BY ToRunIsShort DEF IInv, Shape
<1>2. CASE at = "calling"
  <2>1. attempts \in Nat /\ attempts <= MaxRetries
    BY <1>2, TurnAssumption DEF IInv, Shape, Place
  <2>2. Left = (MaxRetries + 1 - attempts) + MaxSuggested + 4
    BY <1>2 DEF Left
  <2> QED BY <2>1, <2>2, TurnAssumption
<1>3. CASE at = "running"
  <2>1. Left = Len(ToRun) - Len(ran) + 1 /\ Len(ran) <= Len(ToRun)
    BY <1>3 DEF Left, InList
  <2> QED BY <1>1, <2>1, TurnAssumption
<1>4. CASE at \notin {"calling", "running"}
  <2>1. Left \in {MaxSuggested + 4, MaxSuggested + 3, 0}
    BY <1>4 DEF Left
  <2> QED BY <2>1, TurnAssumption
<1> QED BY <1>2, <1>3, <1>4

\* Whatever platform, git and commands do, a turn takes at most max_retries and the
\* commands of an answer and five steps more: there is a bound on the steps left, and
\* every step lowers it.
THEOREM TurnsAreShort ==
  Spec => [](Left \in 0..(MaxRetries + MaxSuggested + 5)) /\ [][Left' < Left]_vars
<1>1. IInv /\ InList => Left \in 0..(MaxRetries + MaxSuggested + 5)
  BY LeftIsBounded
<1>2. IInv /\ InList /\ [Next]_vars => [Left' < Left]_vars
  BY CallSinks, ExecutorSinks DEF Next
<1> QED BY <1>1, <1>2, Invariance, InListInvariance, PTL DEF Spec
================================================================================
