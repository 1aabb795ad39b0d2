------------------------------ MODULE MCAgentTurn ------------------------------
(***************************************************************************)
(* AgentTurn with gates that are expressions: one list of them for each    *)
(* construct that the evaluator permits, misjudges easily, or refuses.     *)
(***************************************************************************)
EXTENDS AgentTurn, GateExpression

\* A node after the trees of its kids.
Tree(node, trees) ==
  LET behind(k) == Len(FlattenSeq(SubSeq(trees, k + 1, Len(trees))))
  IN  Append(FlattenSeq(trees), [kids |-> [k \in 1..Len(trees) |-> behind(k) + 1]] @@ node)

Constant(value)   == Tree([type |-> "Constant", value |-> value], <<>>)
Number(n)         == Constant(PyInt(n))
Text(s)           == Constant(PyStr(s))
Name(id)          == Tree([type |-> "Name", id |-> id], <<>>)
Attribute(attr, private) ==
  Tree([type |-> "Attribute", attr |-> attr, private |-> private], <<Name("result")>>)
Field(attr)       == Attribute(attr, FALSE)
Private(attr)     == Attribute(attr, TRUE)
CallOf(func, arg) == Tree([type |-> "Call"], <<Name(func), arg>>)
Size(attr)        == CallOf("len", Field(attr))
Not(operand)      == Tree([type |-> "UnaryOp", op |-> "Not"], <<operand>>)
And(operands)     == Tree([type |-> "BoolOp", op |-> "And"], operands)
Or(operands)      == Tree([type |-> "BoolOp", op |-> "Or"], operands)
Arithmetic        == Tree([type |-> "BinOp"], <<>>)

Chain(left, ops, comparators) == Tree([type |-> "Compare", ops |-> ops], <<left>> \o comparators)
Compare(left, op, right)      == Chain(left, <<op>>, <<right>>)

GateLists ==
  << <<>>,
     \* len(result.diffs) > 0 (tests/test_drivers.py)
     << Compare(Size("diffs"), "Gt", Number(0)) >>,
     \* result.status == 'done'; not result.escalation_reason
     << Compare(Field("status"), "Eq", Text("done")), Not(Field("escalation_reason")) >>,
     \* 1 <= len(result.suggested_commands) < 3
     << Chain(Number(1), <<"LtE", "Lt">>, <<Size("suggested_commands"), Number(3)>>) >>,
     \* 3 >= len(result.suggested_commands) > len(result.diffs) != 0
     << Chain(Number(3), <<"GtE", "Gt", "NotEq">>,
              <<Size("suggested_commands"), Size("diffs"), Number(0)>>) >>,
     \* not result.diffs or 'test' in result.suggested_commands
     << Or(<<Not(Field("diffs")), Compare(Text("test"), "In", Field("suggested_commands"))>>) >>,
     \* result.escalation_reason and len(result.escalation_reason) > 3
     << And(<<Field("escalation_reason"), Compare(Size("escalation_reason"), "Gt", Number(3))>>) >>,
     \* len(result.escalation_reason) > 3 or result.status == 'done': len(None) raises
     << Or(<<Compare(Size("escalation_reason"), "Gt", Number(3)),
             Compare(Field("status"), "Eq", Text("done"))>>) >>,
     \* not (result.diffs and 'wipe' not in result.suggested_commands)
     << Not(And(<<Field("diffs"), Compare(Text("wipe"), "NotIn", Field("suggested_commands"))>>)) >>,
     \* result.verdict != 'bad': no such attribute; result.status < 1: no such order
     << Or(<<Compare(Field("status"), "Eq", Text("done")),
             Compare(Field("verdict"), "NotEq", Text("bad")), Compare(Field("status"), "Lt", Number(1))>>) >>,
     \* len(result.diffs) + 1 > 1
     << Compare(Arithmetic, "Gt", Number(1)) >>,
     \* result._status or any(result.diffs)
     << Or(<<Private("_status"), CallOf("any", Field("diffs"))>>) >> >>

\* The gates of the lists are expressions, and only test.
AllTests(lists) ==
  \A i \in DOMAIN lists : \A j \in DOMAIN lists[i] :
    IsExpression(lists[i][j]) /\ TruthOnly(lists[i][j])

ASSUME GatesOnlyTest == AllTests(GateLists)

\* No driver takes anything but a StructuredResult for an answer.
ASSUME DriversAgree ==
  \A platform \in Registered, reply \in Replies :
    Outcome(platform, reply) = "result" <=> reply = [code |-> 200, body |-> "text", text |-> "result"]

\* TLC evaluates a definition that stands for a constant anew at every use, and one
\* that it names only once.
AllGates == GateLists
NoGates == << <<>> >>

\* A strict turn escalates an answer for its gates exactly when Python would not call
\* them all true, and no turn does when Python would: chains of comparisons, short cuts
\* and errors come out as Python has them (docs/review_report.md: gates "support a safe
\* subset of Python expressions").  For gates that only test.
GatesMeanPython ==
  at = "answered" /\ result.reason \in {"none", "agent", "gate"} =>
    LET untrue == \E i \in DOMAIN Gates[mode.gates] : ~HoldsInPython(Gates[mode.gates][i], answer)
    IN  /\ result.reason = "gate" => untrue
        /\ mode.strict /\ untrue => result.reason = "gate"

\* What the description of quality_gate_strict says of a swarm without it, where a gate
\* fails: "findings are logged but execution continues".
LenientGatesLog == at = "answered" /\ ~mode.strict => result.reason # "gate"
================================================================================
