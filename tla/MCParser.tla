------------------------------ MODULE MCParser ------------------------------
EXTENDS Parser

CONSTANT None  \* the reference of an element without one: NoRef

Node(tag, id, in, form) == [tag |-> tag, id |-> id, in |-> in, form |-> form]
EventNode(tag, id, in, definition, ref, host) ==
  [tag |-> tag, id |-> id, in |-> in, form |-> "ok",
   definition |-> definition, ref |-> ref, host |-> host]
FlowNode(id, in, source, target) ==
  [tag |-> "sequenceFlow", id |-> id, in |-> in, form |-> "ok", source |-> source, target |-> target]
Faulty(element, form) == [element EXCEPT !.form = form]

\* Process "Process_1" with a subprocess and one in it, and a process that it calls.
Base ==
  {EventNode("startEvent", "start", "Process_1", "none", None, None),
   Node("subProcess", "outer", "Process_1", "ok"),
   Node("callActivity", "call", "Process_1", "ok"),
   EventNode("endEvent", "end", "Process_1", "terminate", None, None),
   FlowNode("f1", "Process_1", "start", "outer"),
   FlowNode("f2", "Process_1", "outer", "end"),
   Node("subProcess", "inner", "outer", "ok"),
   EventNode("startEvent", "go", "Called", "signal", "sig", None)}

\* What else a file may have,
Sound ==
  {Node("serviceTask", "task", "outer", "ok"),
   Node("serviceTask", "keyed", "Called", "keyed"),
   Node("serviceTask", "skipped", "Process_1", "bare"),
   EventNode("boundaryEvent", "alarm", "outer", "signal", "sig", "task"),
   EventNode("boundaryEvent", "watch", "Process_1", "message", "msg", "inner"),
   FlowNode("f4", "Process_1", "start", "outer")}

\* and what faults.
Faults ==
  {Node("serviceTask", "odd", "inner", "unknown"),
   Node("userTask", "far", "outer", "foreign"),
   FlowNode("f3", "Process_1", "start", "skipped"),
   Node("userTask", "user", "inner", "bare"),
   Node("gateway", "gate", "Process_1", "incomplete"),
   EventNode("startEvent", "on", "Called", "message", None, None),
   EventNode("endEvent", "fault", "Called", "error", "err", None),
   EventNode("throwEvent", "throw", "Process_1", "signal", "nobody", None),
   EventNode("catchEvent", "catch", "outer", "signal", "msg", None),
   Faulty(EventNode("boundaryEvent", "late", "Process_1", "timer", None, "outer"), "invalid"),
   FlowNode("f6", "Process_1", "start", ""),
   Faulty(FlowNode("f5", "Process_1", "start", "end"), "invalid")}

Known == [x \in {"sig", "msg", "err", "shape"} |->
            CASE x = "sig" -> "signal" [] x = "msg" -> "message" [] x = "err" -> "error"
              [] x = "shape" -> "none of these"]

Document(elements, definitions) ==
  [form |-> "ok", processes |-> {"Process_1", "Called"}, events |-> definitions,
   elements |-> elements]

\* Another mission: the same process ids, other subprocesses.
Other == Document({EventNode("startEvent", "start", "Process_1", "none", None, None),
                   Node("subProcess", "inner", "Process_1", "ok"),
                   Node("subProcess", "extra", "Called", "ok")}, Empty)

Unreadable == [Other EXCEPT !.form = "unreadable"]
Nameless == [Document(Base, Known) EXCEPT !.form = "incomplete"]

MCFiles ==
  {Document(Base \cup {x, y}, Known) : x \in Sound, y \in Sound \cup Faults} \cup
    {Other, Unreadable, Nameless}
=============================================================================
