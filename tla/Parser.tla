------------------------------- MODULE Parser -------------------------------
(***************************************************************************)
(* Loading a mission model: the parser works through the processes of a    *)
(* file, and through the subprocesses in them, kind of element after kind  *)
(* of element, and leaves events and processes, with the ports and the     *)
(* boundary events of their nodes, in the Model; whatever goes wrong on    *)
(* the way leaves what was there so far.                                   *)
(*                                                                         *)
(* A file has event definitions, processes, elements, and a form, which is *)
(* "unreadable" if it is not XML or has no bpmn:definitions and            *)
(* "incomplete" if an event definition has no id.  An element has a tag,   *)
(* an id, the process or subprocess that it is in, and a form, which is    *)
(* "bare" for a task without a connector, "foreign" for one whose          *)
(* connector is not loaded, "unknown" for one whose connector does not     *)
(* know the resource, "keyed" for one whose resource is not known yet,     *)
(* "invalid" for a timer or a condition that cannot be parsed and          *)
(* "incomplete" if it has no id or a property of it has no name.           *)
(***************************************************************************)
EXTENDS Naturals, Sequences

CONSTANTS Files, NoFile, NoRef,
          MaxLoads  \* bound on the loads

VARIABLES
  status,    \* mission_status_
  processes, \* processes_: id -> the file, the nodes of the process and their ports
  events,    \* events_: id -> type
  url,       \* bpmn_xml_url_
  outputs,   \* output_ports_ of the nodes being made: <<source, target>> -> the flow
  inputs,    \* input_ports_: <<target, source>>
  attached,  \* boundary_events_: <<activity, boundary event>>
  file,      \* the file being parsed
  pending,   \* its processes that are yet to be parsed
  stack,     \* the calls of createProcessDefinition, innermost first
  nodes,     \* process_definition_ of the processes of the file
  result,    \* of the latest load
  loads,
  dirty      \* history: a load has failed since the model was empty

modelVars == <<status, processes, events, url>>
portVars == <<outputs, inputs, attached>>
parseVars == <<file, pending, stack, nodes>>
parserVars == <<modelVars, portVars, parseVars, result, loads, dirty>>

\* The order in which createProcessDefinition extracts the elements.
Phases == <<"serviceTask", "userTask", "gateway", "startEvent", "endEvent", "throwEvent",
            "catchEvent", "subProcess", "callActivity", "boundaryEvent", "sequenceFlow">>
Empty == [x \in {} |-> x]

Idle == file = NoFile
Frame == Head(stack)
Tag == Phases[Frame.phase]
Elements(f, tag, scope) == {e \in f.elements : e.tag = tag /\ e.in = scope}
Current == Elements(file, Tag, Frame.scope)
Ids(E) == {e.id : e \in E}
Subprocesses(f) == {e \in f.elements : e.tag = "subProcess"}
SequenceFlows(f) == {e \in f.elements : e.tag = "sequenceFlow"}
Boundaries(f) == {e \in f.elements : e.tag = "boundaryEvent"}
Scopes(f) == f.processes \cup Ids(Subprocesses(f))

\* The process or subprocess p has the subprocess s in it, at any depth: s is in
\* every set that has the subprocesses in p and those in its members.
Nests(f, D, p) == \A e \in Subprocesses(f) : e.in \in D \cup {p} => e.id \in D
Within(f, s, p) == \A D \in SUBSET Ids(Subprocesses(f)) : Nests(f, D, p) => s \in D
Inside(f, p) == {s \in Ids(Subprocesses(f)) : Within(f, s, p)}

\* A file is a tree of elements with an id each; the host of a boundary event, if
\* it is in the file, is an activity, and only tasks have connectors.
ActivityTags == {"serviceTask", "userTask", "subProcess", "callActivity"}
WellFormed(f) ==
  /\ \A d, e \in f.elements : d.id = e.id => d = e
  /\ \A e \in f.elements : e.id \notin f.processes /\ e.in \in Scopes(f)
  /\ \A s \in Ids(Subprocesses(f)) : \E p \in f.processes : Within(f, s, p)
  /\ \A b \in Boundaries(f), e \in f.elements : e.id = b.host => e.tag \in ActivityTags
  /\ \A e \in f.elements : e.form \in {"foreign", "unknown"} => e.tag \in {"serviceTask", "userTask"}

ASSUME FilesAssumption == NoFile \notin Files /\ \A f \in Files : WellFormed(f)
-----------------------------------------------------------------------------
(* What becomes of an element: a "node", nothing ("skip"), an "error"      *)
(* (runtime_error), an exception that "escapes" from the parser            *)
(* (out_of_range, invalid_argument), or a "crash" (a null pointer).        *)

\* The kinds of events that a file defines for others to refer to.
Notations == {"signal", "message", "escalation", "error"}

Reference(e) ==
  CASE e.ref = NoRef -> "none"
    [] e.ref # NoRef /\ e.ref \notin DOMAIN events -> "unknown"
    [] e.ref \in DOMAIN events -> IF events[e.ref] = e.definition THEN "known" ELSE "mismatch"

TaskVerdict(e) ==
  CASE e.form # "bare" -> "node"
    [] e.form = "bare" -> IF e.tag = "serviceTask" THEN "skip" ELSE "error"

StartVerdict(e) ==
  IF e.definition \in {"message", "signal"}
  THEN [none |-> "crash", unknown |-> "escapes", mismatch |-> "error", known |-> "node"][Reference(e)]
  ELSE IF e.definition = "none" THEN "node" ELSE "skip"

\* An unknown reference, like an unknown definition, is a plain end event.
EndVerdict(e) ==
  CASE e.definition \in {"message", "signal", "escalation"} ->
         [none |-> "error", unknown |-> "node", mismatch |-> "error", known |-> "node"][Reference(e)]
    [] e.definition = "error" -> "error"
    [] OTHER -> "node"

ThrowVerdict(e) ==
  IF e.definition \in {"message", "signal", "escalation"}
  THEN [none |-> "node", unknown |-> "escapes", mismatch |-> "error", known |-> "node"][Reference(e)]
  ELSE "node"

TimerVerdict(e) == IF e.form = "invalid" THEN "escapes" ELSE "node"

CatchVerdict(e) ==
  CASE e.definition \in {"message", "signal", "escalation"} ->
         [none |-> "node", unknown |-> "escapes", mismatch |-> "error", known |-> "node"][Reference(e)]
    [] e.definition = "timer" -> TimerVerdict(e)
    [] OTHER -> "skip"

\* The event of a timer is made by the parser.
TimerBoundaryVerdict(e) == TimerVerdict(e)

BoundaryVerdict(e) ==
  CASE e.definition \in {"message", "signal", "escalation", "error"} ->
         [none |-> IF e.definition = "message" THEN "crash" ELSE "node",
          unknown |-> "escapes", mismatch |-> "error", known |-> "node"][Reference(e)]
    [] e.definition = "timer" -> TimerBoundaryVerdict(e)
    [] OTHER -> "skip"

FlowVerdict(e) == IF e.form = "invalid" THEN "error" ELSE "node"

\* Neither a default flow nor the process that is called is looked up yet.
Unchecked == {"gateway", "subProcess", "callActivity"}

\* A flow without a source or a target is not: it names "", which is no node.
Incomplete(e) == e.form = "incomplete"

Verdict(e) ==
  CASE Incomplete(e) -> "error"
    [] ~Incomplete(e) ->
       CASE e.tag \in {"serviceTask", "userTask"} -> TaskVerdict(e)
         [] e.tag = "startEvent" -> StartVerdict(e)
         [] e.tag = "endEvent" -> EndVerdict(e)
         [] e.tag = "throwEvent" -> ThrowVerdict(e)
         [] e.tag = "catchEvent" -> CatchVerdict(e)
         [] e.tag = "boundaryEvent" -> BoundaryVerdict(e)
         [] e.tag = "sequenceFlow" -> FlowVerdict(e)
         [] e.tag \in Unchecked -> "node"

Accepted(E) == {e \in E : Verdict(e) = "node"}
Harmless(E) == \A e \in E : Verdict(e) \in {"node", "skip"}
-----------------------------------------------------------------------------
(* Mutants: what a plausible bug would make of the definitions below.      *)

\* A process hands its subprocesses on without those in them.
OwnOnly(frame) == Ids(Elements(file, "subProcess", frame.scope))

\* The input port is named after the target.
WireByTarget(F) ==
  /\ outputs' = [x \in DOMAIN outputs \cup {<<e.source, e.target>> : e \in F} |->
                   IF \E e \in F : <<e.source, e.target>> = x
                   THEN (CHOOSE e \in F : <<e.source, e.target>> = x).id ELSE outputs[x]]
  /\ inputs' = inputs \cup {<<e.target, e.target>> : e \in F}

\* reset() leaves the events.
ResetProcesses == processes' = Empty /\ UNCHANGED events
-----------------------------------------------------------------------------
ParserInit ==
  /\ status = "UNINITIALIZED" /\ processes = Empty /\ events = Empty /\ url = NoFile
  /\ outputs = Empty /\ inputs = {} /\ attached = {}
  /\ file = NoFile /\ pending = {} /\ stack = <<>> /\ nodes = Empty
  /\ result = "none" /\ loads = 0 /\ dirty = FALSE

\* The event definitions of the file are added to those the model has; a tag
\* that is none of them is passed over.
Defined(f) == {x \in DOMAIN f.events : f.events[x] \in Notations}

ExtractModelEvents(f, D) ==
  events' = [x \in DOMAIN events \cup D |-> IF x \in D THEN f.events[x] ELSE events[x]]

\* Model::initializeFromXml; a definition without an id leaves those before it.
Load(f) ==
  /\ Idle /\ result # "crash" /\ loads < MaxLoads
  /\ loads' = loads + 1
  /\ \/ /\ status # "UNINITIALIZED"
        /\ result' = "refused"
        /\ UNCHANGED <<url, parseVars, events, dirty>>
     \/ /\ status = "UNINITIALIZED" /\ f.form = "unreadable"
        /\ result' = "error" /\ url' = f
        /\ UNCHANGED <<parseVars, events, dirty>>
     \/ /\ status = "UNINITIALIZED" /\ f.form = "incomplete"
        /\ \E D \in SUBSET Defined(f) : ExtractModelEvents(f, D)
        /\ result' = "error" /\ url' = f /\ dirty' = TRUE
        /\ UNCHANGED parseVars
     \/ /\ status = "UNINITIALIZED" /\ f.form = "ok"
        /\ file' = f /\ pending' = f.processes
        /\ nodes' = [p \in Scopes(f) |-> {}]
        /\ ExtractModelEvents(f, Defined(f))
        /\ result' = "none"
        /\ UNCHANGED <<url, stack, dirty>>
  /\ UNCHANGED <<status, processes, portVars>>

Enter(scope) == stack' = <<[scope |-> scope, phase |-> 1, subprocesses |-> {}]>> \o stack
Replace(frame) == stack' = <<frame>> \o Tail(stack)
NextPhase == Replace([Frame EXCEPT !.phase = @ + 1])

Add(ids) == nodes' = [nodes EXCEPT ![Frame.scope] = @ \cup ids]

BeginProcess ==
  /\ ~Idle /\ stack = <<>>
  /\ \E p \in pending :
       /\ Enter(p)
       /\ pending' = pending \ {p}
  /\ UNCHANGED <<modelVars, portVars, file, nodes, result, loads, dirty>>

Extract ==
  /\ stack # <<>> /\ Frame.phase <= Len(Phases)
  /\ Tag \notin {"subProcess", "boundaryEvent", "sequenceFlow"} /\ Harmless(Current)
  /\ Add(Ids(Accepted(Current)))
  /\ NextPhase
  /\ UNCHANGED <<modelVars, portVars, file, pending, result, loads, dirty>>

\* What was being made is gone, but for what the processes of the model share.
Forget ==
  /\ file' = NoFile /\ stack' = <<>> /\ pending' = {} /\ nodes' = Empty
  /\ outputs' = Empty /\ inputs' = {} /\ attached' = {}

GiveUp(verdict) ==
  /\ result' = verdict
  /\ Forget
  /\ dirty' = TRUE
  /\ UNCHANGED <<status, processes, events, loads>>

\* The first element with a fault: an error keeps the url, an exception does not.
Fail ==
  /\ stack # <<>> /\ Frame.phase <= Len(Phases)
  /\ \E e \in Current :
       /\ Verdict(e) \notin {"node", "skip"}
       /\ GiveUp(Verdict(e))
  /\ url' = IF result' = "error" THEN file ELSE url

\* The subprocesses, and those in them, are nodes of the process.
ExtractSubprocess ==
  /\ stack # <<>> /\ Frame.phase <= Len(Phases) /\ Tag = "subProcess" /\ Harmless(Current)
  /\ LET rest == Ids(Current) \ Frame.subprocesses IN
       \/ /\ \E s \in rest : Enter(s)
          /\ UNCHANGED nodes
       \/ /\ rest = {}
          /\ Add(Frame.subprocesses)
          /\ NextPhase
  /\ UNCHANGED <<modelVars, portVars, file, pending, result, loads, dirty>>

\* The activities that a boundary event can be attached to.
Activities(scope) ==
  Ids(Accepted(Elements(file, "serviceTask", scope) \cup Elements(file, "userTask", scope)))
    \cup Ids(Elements(file, "callActivity", scope)) \cup Frame.subprocesses

ExtractBoundaryEvents ==
  /\ stack # <<>> /\ Frame.phase <= Len(Phases) /\ Tag = "boundaryEvent" /\ Harmless(Current)
  /\ Add(Ids(Accepted(Current)))
  /\ attached' = attached \cup
       {<<e.host, e.id>> : e \in {b \in Accepted(Current) : b.host \in Activities(Frame.scope)}}
  /\ NextPhase
  /\ UNCHANGED <<modelVars, outputs, inputs, file, pending, result, loads, dirty>>

\* A second flow between two nodes replaces the first.
Wire(F) ==
  /\ outputs' = [x \in DOMAIN outputs \cup {<<e.source, e.target>> : e \in F} |->
                   IF \E e \in F : <<e.source, e.target>> = x
                   THEN (CHOOSE e \in F : <<e.source, e.target>> = x).id ELSE outputs[x]]
  /\ inputs' = inputs \cup {<<e.target, e.source>> : e \in F}

Connected(e) == {e.source, e.target} \subseteq nodes[Frame.scope]

WireFlows ==
  /\ stack # <<>> /\ Frame.phase <= Len(Phases) /\ Tag = "sequenceFlow" /\ Harmless(Current)
  /\ \A e \in Current : Connected(e)
  /\ Wire(Current)
  /\ NextPhase
  /\ UNCHANGED <<modelVars, attached, file, pending, nodes, result, loads, dirty>>

\* getNodeByUuid answers nullptr for a node that was skipped, is elsewhere or "".
FlowToNowhere ==
  /\ stack # <<>> /\ Frame.phase <= Len(Phases) /\ Tag = "sequenceFlow" /\ Harmless(Current)
  /\ \E e \in Current : ~Connected(e)
  /\ GiveUp("crash")
  /\ UNCHANGED url

\* What extractSubprocesses has returned, and the subprocess itself.
Returned(frame) == frame.subprocesses

\* The nodes of a process keep their ports and their boundary events.
Definition(p) ==
  LET pairs == nodes[p] \X nodes[p] IN
  [file |-> file, nodes |-> nodes[p],
   outputs |-> [x \in DOMAIN outputs \cap pairs |-> outputs[x]],
   inputs |-> inputs \cap pairs, attached |-> attached \cap pairs]

\* The end of createProcessDefinition: of a subprocess, or of a process.
Leave ==
  /\ stack # <<>> /\ Frame.phase > Len(Phases)
  /\ IF Len(stack) > 1
     THEN LET above == stack[2] IN
            /\ stack' = <<[above EXCEPT !.subprocesses =
                             @ \cup {Frame.scope} \cup Returned(Frame)]>> \o Tail(Tail(stack))
            /\ UNCHANGED processes
     ELSE /\ stack' = <<>>
          /\ processes' =
               LET new == {Frame.scope} \cup Returned(Frame) IN
               [p \in DOMAIN processes \cup new |->
                  IF p \in new THEN Definition(p) ELSE processes[p]]
  /\ UNCHANGED <<status, events, url, portVars, file, pending, nodes, result, loads, dirty>>

Finish ==
  /\ ~Idle /\ stack = <<>> /\ pending = {}
  /\ status' = "READY" /\ url' = file /\ result' = "ok"
  /\ Forget
  /\ UNCHANGED <<processes, events, loads, dirty>>

\* The tasks that the processes of the model have.
Implemented ==
  UNION {{e \in processes[p].file.elements :
            e.tag \in {"serviceTask", "userTask"} /\ e.id \in processes[p].nodes} :
         p \in DOMAIN processes}

\* Model::validate: the connectors are asked for the resources in any order; one
\* that is not loaded is a null pointer, and an expression that cannot be
\* evaluated yet passes.
Validate ==
  /\ Idle /\ result = "ok"
  /\ \/ (\E t \in Implemented : t.form = "foreign") /\ result' = "crash"
     \/ (\E t \in Implemented : t.form = "unknown") /\ result' = "invalid"
     \/ (\A t \in Implemented : t.form \notin {"foreign", "unknown"}) /\ result' = "valid"
  /\ UNCHANGED <<modelVars, portVars, parseVars, loads, dirty>>

Clear == processes' = Empty /\ events' = Empty

\* Model::reset; url and the objects of the old model are just forgotten.
Reset ==
  /\ Idle /\ result # "crash"
  /\ Clear
  /\ status' = "UNINITIALIZED"
  /\ result' = "none" /\ dirty' = FALSE
  /\ UNCHANGED <<url, portVars, parseVars, loads>>

Parse ==
  \/ BeginProcess \/ Extract \/ Fail \/ ExtractSubprocess \/ ExtractBoundaryEvents
  \/ WireFlows \/ FlowToNowhere \/ Leave \/ Finish

ParserNext == Parse \/ Validate \/ Reset \/ \E f \in Files : Load(f)

ParserSpec == ParserInit /\ [][ParserNext]_parserVars
-----------------------------------------------------------------------------
Loaded == status = "READY"

(* A model that is READY has every process and subprocess of the file it   *)
(* was loaded from, each with its subprocesses at every depth among its    *)
(* nodes, and nothing else, unless an earlier load has failed and nobody   *)
(* has reset the model since.                                              *)
ModelIsTheFile ==
  Loaded =>
    /\ \A p \in Scopes(url) :
         /\ p \in DOMAIN processes /\ processes[p].file = url
         /\ \A s \in Ids(Subprocesses(url)) :
              Within(url, s, p) <=> s \in processes[p].nodes
    /\ ~dirty => /\ DOMAIN processes = Scopes(url)
                 /\ events = [x \in Defined(url) |-> url.events[x]]

\* The ports of a process q agree with the flows of its file and with each other,
\* and a boundary event is attached to the activity of its scope that it names.
PortsMatch(p, q) ==
  /\ \A e \in SequenceFlows(q.file) : e.in = p => <<e.source, e.target>> \in DOMAIN q.outputs
  /\ \A x \in DOMAIN q.outputs :
       \E e \in SequenceFlows(q.file) : q.outputs[x] = e.id /\ x = <<e.source, e.target>>
  /\ \A a, b \in q.nodes : <<a, b>> \in DOMAIN q.outputs <=> <<b, a>> \in q.inputs
  /\ \A a \in q.nodes, b \in q.nodes \cap Ids(Boundaries(q.file)) :
       <<a, b>> \in q.attached <=> \E e \in Boundaries(q.file) : e.id = b /\ e.host = a

(* Every process of the model, whether the model is READY or the process   *)
(* is what a failed load has left, has the ports that its own file gives   *)
(* it: a join waits for no input that nobody can trigger.                  *)
PortsMatchFlows == \A p \in DOMAIN processes : PortsMatch(p, processes[p])

(* The model can count and list the tokens of each subprocess that a token *)
(* may execute: it is a process of its own (model.cpp dereferences         *)
(* processes_[uuid]), whatever was loaded or failed to load before.  So a  *)
(* validation reaches the tasks at every depth: after it, no connector     *)
(* refuses a resource that the file names.                                 *)
SubprocessesKnown ==
  /\ \A p \in DOMAIN processes :
       \A s \in processes[p].nodes :
         (\E e \in Subprocesses(processes[p].file) : e.id = s) => s \in DOMAIN processes
  /\ result = "valid" => \A e \in url.elements : e.form \notin {"foreign", "unknown"}
-----------------------------------------------------------------------------
(* Why these hold.  What a scope has at the end depends on the file and    *)
(* the events only (Final); what has been parsed of it is never more, and  *)
(* as much as its phase says (Reached).  So what a process takes into the  *)
(* model as it ends (Stored) is what the file has.                         *)

Before(n) == {Phases[i] : i \in 1..(n - 1)} \ {"subProcess", "sequenceFlow"}
Found(f, s, n) == {e \in f.elements : e.in = s /\ e.tag \in Before(n) /\ Verdict(e) = "node"}
Final(f, s) == Ids(Found(f, s, 12)) \cup Inside(f, s)

Attaches(f, s) ==
  \A b \in Boundaries(f) :
    (b \in Found(f, s, 12) /\ b.host \in Final(f, s)) => <<b.host, b.id>> \in attached
Wires(f, s) ==
  \A e \in SequenceFlows(f) :
    e.in = s => <<e.source, e.target>> \in DOMAIN outputs /\ {e.source, e.target} \subseteq nodes[s]

Reached(f, s, n) ==
  /\ Ids(Found(f, s, n)) \subseteq nodes[s]
  /\ n > 8 => Inside(f, s) \subseteq nodes[s]
  /\ n > 10 => Attaches(f, s)
  /\ n > 11 => Wires(f, s)

Stored(f, s) ==
  s \in DOMAIN processes /\ processes[s].file = f /\ processes[s].nodes = Final(f, s)

\* No port and no attachment comes from elsewhere, and each output has its input.
PortsOf(f) ==
  /\ \A x \in DOMAIN outputs :
       \E e \in SequenceFlows(f) : outputs[x] = e.id /\ x = <<e.source, e.target>>
  /\ inputs = {<<e.target, e.source>> :
                 e \in {d \in SequenceFlows(f) : <<d.source, d.target>> \in DOMAIN outputs}}
  /\ attached \subseteq {<<b.host, b.id>> : b \in Boundaries(f)}

Frames(f) == [scope : Scopes(f), phase : 1..12, subprocesses : SUBSET Ids(Subprocesses(f))]

\* What a call of createProcessDefinition has done so far.
Framed(frame) ==
  /\ frame.subprocesses \subseteq Inside(file, frame.scope)
  /\ \A e \in Subprocesses(file) : e.in \in frame.subprocesses => e.id \in frame.subprocesses
  /\ frame.phase > 8 => Nests(file, frame.subprocesses, frame.scope)
  /\ Reached(file, frame.scope, frame.phase)
  /\ \A s \in frame.subprocesses : Reached(file, s, 12)

\* The frame above is extracting its subprocesses, and this is one of them.
Called(frame, above) ==
  above.phase = 8 /\ \E e \in Subprocesses(file) : e.id = frame.scope /\ e.in = above.scope

Bottom == stack[Len(stack)].scope
Ended == {p \in file.processes \ pending : stack # <<>> => p # Bottom}

Parsing ==
  ~Idle =>
    /\ file \in Files /\ status = "UNINITIALIZED" /\ pending \subseteq file.processes
    /\ nodes \in [Scopes(file) -> SUBSET Ids(file.elements)]
    /\ \A s \in Scopes(file) : nodes[s] \subseteq Final(file, s)
    /\ stack \in Seq(Frames(file))
    /\ stack # <<>> => Bottom \in file.processes
    /\ \A i \in 1..Len(stack) : Framed(stack[i])
    /\ \A i \in 1..(Len(stack) - 1) : Called(stack[i], stack[i + 1])
    /\ PortsOf(file)
    /\ \A p \in Ended : \A s \in {p} \cup Inside(file, p) : Stored(file, s)
    /\ ~dirty => /\ DOMAIN processes \subseteq Scopes(file)
                 /\ events = [x \in Defined(file) |-> file.events[x]]

AtRest ==
  Idle => /\ stack = <<>> /\ outputs = Empty /\ inputs = {} /\ attached = {}
          /\ status = "UNINITIALIZED" /\ ~dirty => processes = Empty /\ events = Empty

Complete ==
  Loaded => /\ Idle /\ url \in Files
            /\ \A s \in Scopes(url) : Stored(url, s)
            /\ ~dirty => /\ DOMAIN processes = Scopes(url)
                         /\ events = [x \in Defined(url) |-> url.events[x]]

Listed ==
  \A p \in DOMAIN processes :
    \A s \in processes[p].nodes :
      (\E e \in Subprocesses(processes[p].file) : e.id = s) => s \in DOMAIN processes

Checked ==
  /\ status \in {"UNINITIALIZED", "READY"}
  /\ result \in {"ok", "valid"} => Loaded
  /\ result = "valid" => \A e \in url.elements : e.form \notin {"foreign", "unknown"}

ParserInv == Parsing /\ AtRest /\ Complete /\ Listed /\ Checked /\ PortsMatchFlows
=============================================================================
