------------------------------ MODULE Workflow ------------------------------
(***************************************************************************)
(* The definition of one process, as the parser leaves it in the members   *)
(* of a Process: its flow nodes, their kinds and the sequence flows        *)
(* between them.  A flow is the pair <<source, target>>; a boundary event  *)
(* is a source that no flow enters, reached through the activity that      *)
(* carries it.                                                             *)
(***************************************************************************)
EXTENDS FiniteSets

CONSTANTS Nodes,        \* the keys of process_definition_
          Starts,       \* its start events
          Ends,         \* its end events
          Terminators,  \* the end events of type TERMINATION
          Joins,        \* its parallel gateways
          Exclusive,    \* its exclusive gateways
          Flows,        \* its sequence flows
          Conditional,  \* the flows whose expression may be false
          Default,      \* the default flows of exclusive and inclusive gateways
          Boundary,     \* node -> the boundary events it may be left through
          Lasting,      \* nodes that wait for the world: tasks, catch events
          Faulty        \* nodes whose execution or whose flows may throw

ASSUME WorkflowAssumption ==
  /\ Starts \subseteq Nodes /\ Ends \subseteq Nodes /\ Joins \subseteq Nodes
  /\ Terminators \subseteq Ends
  /\ Ends \cap Joins = {}
  /\ Exclusive \subseteq Nodes /\ Lasting \subseteq Nodes /\ Faulty \subseteq Nodes
  /\ Flows \subseteq Nodes \X Nodes
  /\ Conditional \subseteq Flows /\ Default \subseteq Flows
  /\ \A d, e \in Default : d[1] = e[1] => d = e
  /\ Boundary \in [Nodes -> SUBSET Nodes]

\* ProcessModelNode::output_ports_ and input_ports_.
OutputPorts(n) == {e \in Flows : e[1] = n}
InputPorts(n) == {e[1] : e \in {f \in Flows : f[2] = n}}

(***************************************************************************)
(* The sets of flows that Token::followOutputPorts may follow out of n:    *)
(* every true flow but the default, only one of them out of an exclusive   *)
(* gateway, and the default when none is true.                             *)
(***************************************************************************)
TrueFlows(n) ==
  {T \in SUBSET (OutputPorts(n) \ Default) :
     OutputPorts(n) \ (Default \cup Conditional) \subseteq T}

Followed(n) ==
  UNION {IF T = {} THEN {OutputPorts(n) \cap Default}
         ELSE IF n \in Exclusive THEN {{e} : e \in T}
         ELSE {T} : T \in TrueFlows(n)}

\* The node itself, or one of its boundary events: an activity that ends in
\* error or is interrupted is left through the flows of that event.
Exits(n) == {n} \cup Boundary[n]

Departures(n) == UNION {Followed(x) : x \in Exits(n)}

\* A token that leaves for a parallel gateway follows no other flow: it goes
\* there itself, and no new token is emitted into the gateway.
JoinsFollowedAlone ==
  \A n \in Nodes : \A F \in Departures(n) : \A e \in F : e[2] \in Joins => F = {e}
=============================================================================
