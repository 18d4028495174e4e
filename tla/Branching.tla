----------------------------- MODULE Branching -----------------------------
(***************************************************************************)
(* How a token chooses the flows it follows out of a node: the expressions *)
(* are evaluated one after the other, each with two reads of the data      *)
(* store, while other tokens write to it.  Workflow!Followed is the        *)
(* abstraction of it that Overwatch uses.                                  *)
(***************************************************************************)
EXTENDS Naturals

CONSTANTS Gate, Targets,     \* a node and the targets of its flows
          Expressions,       \* those that a flow may have
          Keys, Numbers,     \* of the data store
          Junk,              \* a text that is not a number
          NoValue, NoTarget,
          MaxWrites          \* bound on the writes while the token chooses

Texts == Numbers \cup {Junk}
Types == {"int", "string", "other"}
Operators == {"==", "!=", "<", "unsupported"}
None == [operator |-> "none"]

ASSUME BranchingAssumption ==
  /\ Numbers \subseteq Nat /\ Junk \notin Numbers /\ Keys \cap Texts = {}
  /\ NoValue \notin Texts /\ NoTarget \notin Targets /\ Gate \notin Targets
  /\ MaxWrites \in Nat
  /\ \A e \in Expressions \ {None} :
       /\ e.type \in Types /\ e.operator \in Operators
       /\ e.lhs \in Keys /\ e.rhs \in (Keys \ {e.lhs}) \cup Texts

VARIABLES
  kind,       \* of the node: exclusive, inclusive, or any other
  expression, \* target -> the expression_ of the flow
  default,    \* the target of the default flow
  db,         \* the data store
  pc,
  remaining,  \* the flows not yet evaluated
  current,    \* the one being evaluated
  rhs,        \* its rhs_value
  next,       \* next_uuid
  emitted,    \* the targets of new tokens
  writes, written, \* history: writes, and the keys, since the choice began
  wasTrue, wasFalse \* history: the flows that were so in some state since then

model == <<kind, expression, default>>
choice == <<pc, remaining, current, rhs, next, emitted>>
history == <<writes, written, wasTrue, wasFalse>>
vars == <<model, db, choice, history>>

TypeOK ==
  /\ kind \in {"exclusive", "inclusive", "other"}
  /\ expression \in [Targets -> Expressions]
  /\ default \in Targets \cup {NoTarget}
  /\ db \in [Keys -> Texts \cup {NoValue}]
  /\ pc \in {"choosing", "reading", "comparing", "done", "failed"}
  /\ remaining \subseteq Targets /\ current \in Targets \cup {NoTarget}
  /\ rhs \in Texts \cup {NoValue}
  /\ next \in Targets \cup {NoTarget} /\ emitted \subseteq Targets
  /\ writes \in 0..MaxWrites /\ written \subseteq Keys
  /\ wasTrue \subseteq Targets /\ wasFalse \subseteq Targets
-----------------------------------------------------------------------------
(* evaluateExpression: true, false (also for the runtime_error of an       *)
(* unsupported operator) or an exception that is not caught: out_of_range  *)
(* for a missing key, invalid_argument for a text that is not a number.    *)

Resolve(v, store) == IF v \in Keys THEN store[v] ELSE v

Compare(op, l, r) ==
  CASE op = "==" -> l = r
    [] op = "!=" -> l # r
    [] op = "<" -> l < r
    [] op = "unsupported" -> FALSE

\* A type that is not known is no condition.
Result(e, l, r) ==
  CASE r = NoValue -> "throws"
    [] e.type = "other" -> "true"
    [] e.type # "other" /\ (l = NoValue \/ (e.type = "int" /\ Junk \in {l, r})) -> "throws"
    [] OTHER -> IF Compare(e.operator, l, r) THEN "true" ELSE "false"

ValueIn(t, store) ==
  IF expression[t] = None THEN "true"
  ELSE Result(expression[t], store[expression[t].lhs], Resolve(expression[t].rhs, store))

Flows == Targets \ {default}
Holding(store) == {t \in Flows : ValueIn(t, store) = "true"}
Failing(store) == {t \in Flows : ValueIn(t, store) = "false"}

\* Each node, expression and state of the data store.
Init ==
  /\ kind \in {"exclusive", "inclusive", "other"}
  /\ expression \in [Targets -> Expressions]
  /\ default \in IF kind = "other" THEN {NoTarget} ELSE Targets \cup {NoTarget}
  /\ db \in [Keys -> Texts \cup {NoValue}]
  /\ pc = "choosing" /\ remaining = Flows
  /\ current = NoTarget /\ rhs = NoValue /\ next = NoTarget /\ emitted = {}
  /\ writes = 0 /\ written = {}
  /\ wasTrue = Holding(db) /\ wasFalse = Failing(db)
-----------------------------------------------------------------------------
(* Mutants: what a plausible bug would make of the definitions below.      *)

\* The right-hand side is the one that the flow before has left behind.
ReadNothing == rhs' = IF rhs = NoValue THEN Resolve(expression[current].rhs, db) ELSE rhs

\* An exclusive gateway goes on after its first true flow.
FollowAll(t) ==
  /\ IF next = NoTarget THEN next' = t /\ UNCHANGED emitted
     ELSE emitted' = emitted \cup {t} /\ UNCHANGED next
  /\ pc' = "choosing"
-----------------------------------------------------------------------------
\* The first true flow is the token's own; out of an exclusive gateway it is
\* the only one.
Follow(t) ==
  /\ IF next = NoTarget THEN next' = t /\ UNCHANGED emitted
     ELSE emitted' = emitted \cup {t} /\ UNCHANGED next
  /\ pc' = IF kind = "exclusive" THEN "done" ELSE "choosing"

TakeFlow ==
  /\ pc = "choosing"
  /\ \E t \in remaining :
       /\ remaining' = remaining \ {t}
       /\ current' = t
       /\ IF expression[t] = None THEN Follow(t)
          ELSE pc' = "reading" /\ UNCHANGED <<next, emitted>>
  /\ UNCHANGED <<model, db, rhs, history>>

Read == rhs' = Resolve(expression[current].rhs, db)

ReadRhs ==
  /\ pc = "reading"
  /\ Read
  /\ pc' = IF rhs' = NoValue THEN "failed" ELSE "comparing"
  /\ UNCHANGED <<model, db, remaining, current, next, emitted, history>>

ReadLhsAndCompare ==
  /\ pc = "comparing"
  /\ LET r == Result(expression[current], db[expression[current].lhs], rhs) IN
       \/ r = "true" /\ Follow(current)
       \/ r = "false" /\ pc' = "choosing" /\ UNCHANGED <<next, emitted>>
       \/ r = "throws" /\ pc' = "failed" /\ UNCHANGED <<next, emitted>>
  /\ UNCHANGED <<model, db, remaining, current, rhs, history>>

FollowDefault ==
  /\ pc = "choosing" /\ remaining = {}
  /\ next' = IF next = NoTarget THEN default ELSE next
  /\ pc' = "done"
  /\ UNCHANGED <<model, db, remaining, current, rhs, emitted, history>>

\* Another token, or a connector.
Write ==
  /\ writes < MaxWrites /\ pc \in {"choosing", "reading", "comparing"}
  /\ \E k \in Keys, v \in Texts : db' = [db EXCEPT ![k] = v] /\ written' = written \cup {k}
  /\ writes' = writes + 1
  /\ wasTrue' = wasTrue \cup Holding(db') /\ wasFalse' = wasFalse \cup Failing(db')
  /\ UNCHANGED <<model, choice>>

Next == TakeFlow \/ ReadRhs \/ ReadLhsAndCompare \/ FollowDefault \/ Write

Spec == Init /\ [][Next]_vars
-----------------------------------------------------------------------------
Taken == ({next} \ {NoTarget}) \cup emitted

Flow(t) == <<Gate, t>>

Abstract == INSTANCE Workflow WITH
  Nodes <- Targets \cup {Gate}, Starts <- {}, Ends <- {}, Terminators <- {}, Joins <- {},
  Exclusive <- IF kind = "exclusive" THEN {Gate} ELSE {},
  Flows <- {Flow(t) : t \in Targets},
  Conditional <- {Flow(t) : t \in {u \in Targets : expression[u] # None}},
  Default <- {Flow(t) : t \in Targets \cap {default}},
  Boundary <- [n \in Targets \cup {Gate} |-> {}], Lasting <- {}, Faulty <- {}

(* Whatever the expressions and the data are, the flows that a token       *)
(* follows are a choice that Workflow allows it: what is shown with        *)
(* Workflow's choice holds of the program's.                               *)
ChoiceIsAbstract == pc = "done" => {Flow(t) : t \in Taken} \in Abstract!Followed(Gate)

(* A flow is followed only if its expression was true in some state of the *)
(* data store since the token began to choose, and the default only if     *)
(* each of the others was false in some state; a node that is not          *)
(* exclusive leaves out only those that were false.  Provided at most one  *)
(* key was written meanwhile: two writes between the two reads of an       *)
(* expression show it a pair of values that never were.                    *)
OneKey == \A k, l \in written : k = l

FollowedWasTrue ==
  pc = "done" /\ OneKey =>
    /\ Taken \ {default} \subseteq wasTrue
    /\ default \in Taken => Flows \subseteq wasFalse
    /\ kind # "exclusive" => Flows \ Taken \subseteq wasFalse

(* Why these hold: a flow that has been tried was followed, if it has no   *)
(* condition, or its condition was false in some state; a comparison after *)
(* at most one key was written is one of the present values, or of those   *)
(* when its right-hand side was read.                                      *)
Evaluating == pc \in {"reading", "comparing"}
Busy == pc = "choosing" \/ Evaluating
Tried == (Flows \ remaining) \ {t \in {current} : Evaluating}

Trying ==
  /\ Busy => /\ remaining \subseteq Flows /\ Taken \subseteq Tried
             /\ next = NoTarget => emitted = {}
             /\ kind = "exclusive" => next = NoTarget
             /\ \A t \in Tried : expression[t] = None => t \in Taken
  /\ Evaluating => current \in Flows \ remaining /\ expression[current] # None

Chosen ==
  pc = "done" =>
    \/ Taken = Targets \cap {default} /\ (\A t \in Flows : expression[t] # None)
    \/ kind = "exclusive" /\ \E t \in Flows : Taken = {t}
    \/ /\ kind # "exclusive" /\ Taken \subseteq Flows /\ Taken # {}
       /\ \A t \in Flows : expression[t] = None => t \in Taken

Recorded == Holding(db) \subseteq wasTrue /\ Failing(db) \subseteq wasFalse

Compared ==
  pc = "comparing" =>
    LET e == expression[current]
        r == Result(e, db[e.lhs], rhs)
    IN /\ e.rhs \notin written => rhs = Resolve(e.rhs, db)
       /\ e.lhs \notin written => /\ r = "true" => current \in wasTrue
                                  /\ r = "false" => current \in wasFalse

Justified ==
  OneKey =>
    /\ Busy \/ pc = "done" => Taken \ {default} \subseteq wasTrue
    /\ Busy => Tried \ Taken \subseteq wasFalse
    /\ pc = "done" => /\ default \in Taken => Flows \subseteq wasFalse
                      /\ kind # "exclusive" => Flows \ Taken \subseteq wasFalse

BranchingInv == TypeOK /\ Trying /\ Chosen /\ Recorded /\ Compared /\ Justified
=============================================================================
