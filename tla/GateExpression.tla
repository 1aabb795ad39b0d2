----------------------------- MODULE GateExpression -----------------------------
(***************************************************************************)
(* The expression of a quality gate: the whitelist and the interpreter     *)
(* with which BaseAgentDriver evaluates it against a StructuredResult, and *)
(* what the same expression means in Python.                               *)
(*                                                                         *)
(* An expression is the sequence of the nodes of its syntax tree, every    *)
(* node after its children and the root last.  A node is a record with its *)
(* type, its fields as the ast module names them, and its children (kids): *)
(* how many places before it each of them stands.                          *)
(***************************************************************************)
EXTENDS Integers, SequencesExt

--------------------------------------------------------------------------------
(* Python values: a record whose one field is the kind.  A bool is an int, *)
(* as in Python; "raised" is any exception.                                *)

PyInt(n)  == [int |-> n]
PyBool(b) == PyInt(IF b THEN 1 ELSE 0)
PyStr(s)  == [str |-> s]
PyList(s) == [list |-> s]
PyNone    == [none |-> TRUE]
Raised    == [raised |-> TRUE]

Is(value, kind) == kind \in DOMAIN value

\* An exception is no answer.
Truthy(value) ==
  /\ ~Is(value, "raised")
  /\ CASE Is(value, "int")  -> value.int # 0
       [] Is(value, "str")  -> value.str # ""
       [] Is(value, "list") -> value.list # <<>>
       [] OTHER             -> Is(value, "object") \/ Is(value, "function")

LenOf(value) ==
  CASE Is(value, "str")  -> PyInt(Len(value.str))
    [] Is(value, "list") -> PyInt(Len(value.list))
    [] OTHER             -> Raised

\* Methods and other attributes of strings and lists are left out.
AttributeOf(value, attr) ==
  IF Is(value, "object") /\ attr \in DOMAIN value.object THEN value.object[attr] ELSE Raised

Orderings == {"Lt", "LtE", "Gt", "GtE"}

InOrder(op, m, n) ==
  \/ op = "Lt" /\ m < n
  \/ op = "LtE" /\ m <= n
  \/ op = "Gt" /\ m > n
  \/ op = "GtE" /\ m >= n

\* Numbers are ordered and lists searched; no gate here orders strings or looks for
\* a part of one.
CompareValues(op, left, right) ==
  IF Is(left, "raised") \/ Is(right, "raised") THEN Raised
  ELSE CASE op = "Eq"    -> PyBool(left = right)
         [] op = "NotEq" -> PyBool(left # right)
         [] op = "In"    -> IF Is(right, "list") THEN PyBool(left \in ToSet(right.list)) ELSE Raised
         [] op = "NotIn" -> IF Is(right, "list") THEN PyBool(left \notin ToSet(right.list)) ELSE Raised
         [] OTHER        -> IF Is(left, "int") /\ Is(right, "int")
                            THEN PyBool(InOrder(op, left.int, right.int)) ELSE Raised

\* The names an expression can use.
NameOf(id, result) ==
  CASE id = "result" -> result
    [] id = "len"    -> [function |-> "len"]
    [] OTHER         -> Raised

--------------------------------------------------------------------------------
(* Expressions.                                                            *)

Kid(expr, i, k) == expr[i - expr[i].kids[k]]

\* What the grammar says of a node.  An attribute's kid is its value; a call's are the
\* function and the arguments, a comparison's the left operand and the comparators.
WellFormed(node) ==
  LET kids == Len(node.kids)
  IN  /\ node.type \in {"Constant", "Name"} => kids = 0
      /\ node.type \in {"Attribute", "UnaryOp"} => kids = 1
      /\ node.type \in {"Call", "BoolOp"} => kids >= 1
      /\ node.type = "BoolOp" => node.op \in {"And", "Or"}
      /\ node.type = "Compare" =>
           node.ops \in Seq(STRING) /\ node.ops # <<>> /\ kids = Len(node.ops) + 1

\* What the parser makes.
IsExpression(expr) ==
  /\ Len(expr) \in Nat \ {0}
  /\ \A i \in 1..Len(expr) : expr[i].kids \in Seq(1..(i - 1)) /\ WellFormed(expr[i])

--------------------------------------------------------------------------------
(* The whitelist.                                                          *)

Comparisons == {"Eq", "NotEq", "In", "NotIn"} \cup Orderings

\* A node the walk lets pass.
AllowedNode(expr, i) ==
  LET node == expr[i]
  IN  /\ node.type \in {"Constant", "Name", "Attribute", "Call", "Compare", "BoolOp", "UnaryOp"}
      /\ node.type = "Call" => Kid(expr, i, 1).type = "Name" /\ Kid(expr, i, 1).id = "len"
      /\ node.type = "Attribute" => ~node.private
      /\ node.type = "Compare" => ToSet(node.ops) \subseteq Comparisons
      /\ node.type = "UnaryOp" => node.op = "Not"

Allowed(expr) == \A i \in 1..Len(expr) : AllowedNode(expr, i)

--------------------------------------------------------------------------------
(* The interpreter: what it makes of a node and the values of its kids.  A *)
(* value that is not asked for counts for nothing, raised or not.          *)

\* The nodes on which interpreter and Python do the same.
VisitPlain(node, values, result) ==
  CASE node.type = "Constant"  -> node.value
    [] node.type = "Name"      -> NameOf(node.id, result)
    [] node.type = "Attribute" -> AttributeOf(values[1], node.attr)
    [] node.type = "Call"      -> IF Len(values) = 2 THEN LenOf(values[2]) ELSE Raised
    [] node.type = "UnaryOp"   -> IF Is(values[1], "raised") THEN Raised
                                  ELSE PyBool(~Truthy(values[1]))
    [] OTHER                   -> Raised

\* Mutation: left = right is forgotten, every comparison is with the first operand.
VisitCompareToFirst(ops, values) ==
  LET compared[k \in 0..Len(ops)] ==
        IF k = 0 THEN PyBool(TRUE)
        ELSE IF compared[k - 1] = PyBool(TRUE) THEN CompareValues(ops[k], values[1], values[k + 1])
        ELSE compared[k - 1]
  IN  compared[Len(ops)]

\* visit_Compare: from left to right until one comparison is false, or raises.
VisitCompare(ops, values) ==
  LET compared[k \in 0..Len(ops)] ==
        IF k = 0 THEN PyBool(TRUE)
        ELSE IF compared[k - 1] = PyBool(TRUE) THEN CompareValues(ops[k], values[k], values[k + 1])
        ELSE compared[k - 1]
  IN  compared[Len(ops)]

\* visit_BoolOp: True goes on to the next operand of an "and", False to that of an
\* "or"; the answer is a bool.
VisitBoolOp(op, values) ==
  LET goesOn == PyBool(op = "And")
      answer[k \in 0..Len(values)] ==
        IF k = 0 THEN goesOn
        ELSE IF answer[k - 1] # goesOn THEN answer[k - 1]
        ELSE IF Is(values[k], "raised") THEN Raised
        ELSE PyBool(Truthy(values[k]))
  IN  answer[Len(values)]

Visit(node, values, result) ==
  CASE node.type = "Compare" -> VisitCompare(node.ops, values)
    [] node.type = "BoolOp"  -> VisitBoolOp(node.op, values)
    [] OTHER                 -> VisitPlain(node, values, result)

\* The value of every node.
Visited(expr, result) ==
  LET value[i \in 1..Len(expr)] ==
        Visit(expr[i], [k \in 1..Len(expr[i].kids) |-> value[i - expr[i].kids[k]]], result)
  IN  value

\* What a gate sees of an answer.
ResultOf(answer) ==
  [object |->
    [status             |-> PyStr(answer.status),
     diffs              |-> PyList(IF answer.diffs = "none" THEN <<>> ELSE <<PyStr(answer.diffs)>>),
     suggested_commands |-> PyList([i \in DOMAIN answer.commands |-> PyStr(answer.commands[i])]),
     escalation_reason  |-> IF answer.status = "escalated" THEN PyStr("reason") ELSE PyNone]]

\* _safe_eval_gate: an expression that is refused, or raises, fails.
SafeEvalGate(gate, answer) ==
  Allowed(gate) /\ Truthy(Visited(gate, ResultOf(answer))[Len(gate)])

--------------------------------------------------------------------------------
(* The reference: Python's own rules.                                      *)

\* The operands that settle an "and" or an "or".
Settling(op, values) ==
  {k \in 1..Len(values) : Is(values[k], "raised") \/ (Truthy(values[k]) <=> op = "Or")}

\* "and" and "or" are the first operand that settles them, or else the last.
PythonBoolOp(op, values) ==
  values[IF Settling(op, values) = {} THEN Len(values) ELSE Min(Settling(op, values))]

\* A chain of comparisons is the conjunction of its links.
PythonCompare(ops, values) ==
  PythonBoolOp("And", [k \in 1..Len(ops) |-> CompareValues(ops[k], values[k], values[k + 1])])

InPython(node, values, result) ==
  CASE node.type = "Compare" -> PythonCompare(node.ops, values)
    [] node.type = "BoolOp"  -> PythonBoolOp(node.op, values)
    [] OTHER                 -> VisitPlain(node, values, result)

\* What every node means.
Meanings(expr, result) ==
  LET meaning[i \in 1..Len(expr)] ==
        InPython(expr[i], [k \in 1..Len(expr[i].kids) |-> meaning[i - expr[i].kids[k]]], result)
  IN  meaning

\* Does Python, restricted to the operations the evaluator permits, call the gate true?
HoldsInPython(gate, answer) ==
  Allowed(gate) /\ Truthy(Meanings(gate, ResultOf(answer))[Len(gate)])

\* "and" and "or" used for their truth only.  The interpreter makes a bool of them,
\* which is not what Python compares, measures or takes an attribute of.
TruthOnly(expr) ==
  \A i \in 1..Len(expr) : expr[i].type \in {"Compare", "Call", "Attribute"} =>
    \A k \in 1..Len(expr[i].kids) : Kid(expr, i, k).type # "BoolOp"
================================================================================
