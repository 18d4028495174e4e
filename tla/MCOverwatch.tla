----------------------------- MODULE MCOverwatch -----------------------------
(***************************************************************************)
(* Small processes to check Overwatch on.                                  *)
(***************************************************************************)
EXTENDS Overwatch, TLC

CONSTANTS s, a, b, c, j, e, x, y, t1, t2, t3

NoBoundary == [n \in Nodes |-> {}]

\* s forks to the tasks a and b, which meet again in j; e is the end.
ForkFlows == {<<s, a>>, <<s, b>>, <<a, j>>, <<b, j>>, <<j, e>>}

\* s forks to the tasks a and b; a may fail, which its error boundary event y
\* or nobody catches: y leads to the terminating end event x; the gateway c
\* chooses the end e, or b by default.
FailureFlows == {<<s, a>>, <<s, b>>, <<a, c>>, <<y, x>>, <<c, e>>, <<c, b>>,
                 <<b, x>>}
FailureConditional == {<<c, e>>}
FailureDefault == {<<c, b>>}
FailureBoundary == [n \in Nodes |-> IF n = a THEN {y} ELSE {}]

\* The smallest process: s, then the end e.
LineFlows == {<<s, e>>}

\* A task between them.
TaskFlows == {<<s, a>>, <<a, e>>}

\* The task a is followed by the task b and by the end e.
SpawnFlows == {<<s, a>>, <<a, b>>, <<a, e>>}

\* s forks to the terminating end events x and y.
TwoTerminatorFlows == {<<s, x>>, <<s, y>>}

\* s forks to the end e, to the task b and straight to the join j.
DirectFlows == {<<s, e>>, <<s, b>>, <<s, j>>, <<b, j>>, <<j, e>>}
=============================================================================
