------------------------------ MODULE Overwatch ------------------------------
(***************************************************************************)
(* One process and the tokens of its children.  Every token is a thread    *)
(* that executes flow nodes one after the other; the process runs in the   *)
(* thread of its own token (the overwatch) and sleeps until the token      *)
(* threads notify it that they are about to end.  A third thread may       *)
(* terminate the process (Model::abort or an enclosing process), a fourth  *)
(* one may interrupt it (the boundary event that fires).                   *)
(*                                                                         *)
(* Locks.  token_list_mutex_ makes the emission of a token, and each count *)
(* or list of the active tokens, one step.  The overwatch holds            *)
(* termination_notification_mutex_ in the states of Holding.               *)
(***************************************************************************)
EXTENDS Workflow, Naturals, Sequences

CONSTANTS Tokens,   \* the identities tokens may take: the bound on emissions
          Deaf,     \* lasting nodes that may miss that they were hit: user
                    \* tasks, call activities and catch events, which wait
                    \* for a notification without a predicate
          Self,     \* the overwatch as a caller of Process::terminate
          Outside,  \* the thread that terminates the process from outside
          Disturbances, \* which of "terminate" and "interrupt" may come
          NoNode, NoToken

ASSUME TokenAssumption ==
  /\ Starts # {}
  /\ Self \notin Tokens /\ Outside \notin Tokens /\ Self # Outside
  /\ NoToken \notin Tokens /\ NoNode \notin Nodes
  /\ Deaf \subseteq Lasting

VARIABLES
  pc,      \* where the thread of each token is
  active,  \* Token::is_active_
  node,    \* Token::current_node_
  hit,     \* the current node has been asked to terminate or interrupt
  todo,    \* the true flows followOutputPorts has not followed yet
  next,    \* its next_uuid
  edge,    \* the flow whose token is emitted and whose port is not triggered
  raised,  \* the thread ends with ExitStatusCode::EXCEPTION
  ports,   \* join -> its input ports that are on
  sweep,   \* caller of Process::terminate -> tokens it has still to terminate
  join,    \* caller of Process::terminate -> token whose thread it waits for
  outside, \* the outside termination: "idle", "busy" or "done"
  op,      \* where the overwatch is
  toEmit,  \* start events whose token is not emitted yet
  queue,   \* token_termination_notification_queue_
  note,    \* the notification taken from the queue
  fired,   \* interrupting_boundary_event_uuid_ is set
  seen,    \* the overwatch has read it as set
  interrupted, \* is_interrupted_
  cancelled,   \* is_cancelled_
  marks,   \* the nodes Process::interrupt has still to interrupt
  outcome, \* what the process returned
  lost     \* history: tokens whose notification no queue received

threadVars == <<pc, active, node, hit, todo, next, edge, raised>>
callVars == <<sweep, join, outside>>
processVars == <<op, toEmit, queue, note, seen, cancelled, outcome>>
interruptVars == <<fired, interrupted, marks>>
vars == <<threadVars, ports, callVars, processVars, interruptVars, lost>>

Callers == Tokens \cup {Self, Outside}

Holding == {"take", "await", "count"}
Running == {"start", "enter", "wait", "settle", "fail"} \cup Holding
Ended == {"returned", "threw"}

\* Token::isTerminated: the thread is over and the flag is down.
IsTerminated(t) == ~active[t] /\ pc[t] = "gone"
\* Model::activeTokensByProcessUuid and activeTokenCountByProcess: the tokens
\* of tokens_ on a node of this process that are not terminated.
Live == {t \in Tokens : pc[t] # "none" /\ ~IsTerminated(t)}

Init ==
  /\ pc = [t \in Tokens |-> "none"]
  /\ active = [t \in Tokens |-> FALSE]
  /\ node = [t \in Tokens |-> NoNode]
  /\ hit = [t \in Tokens |-> FALSE]
  /\ todo = [t \in Tokens |-> {}]
  /\ next = [t \in Tokens |-> NoNode]
  /\ edge = [t \in Tokens |-> <<NoNode, NoNode>>]
  /\ raised = [t \in Tokens |-> FALSE]
  /\ ports = [j \in Joins |-> {}]
  /\ sweep = [c \in Callers |-> {}]
  /\ join = [c \in Callers |-> NoToken]
  /\ outside = "idle"
  /\ op = "start" /\ toEmit = Starts
  /\ queue = <<>> /\ note = NoToken
  /\ fired = FALSE /\ seen = FALSE
  /\ interrupted = FALSE /\ cancelled = FALSE
  /\ marks = {}
  /\ outcome = "none"
  /\ lost = {}

-----------------------------------------------------------------------------
(* The start of Process::terminate.                                        *)

\* The list of the active children, read once.
BeginTerminate(c) == sweep' = [sweep EXCEPT ![c] = Live]

\* Its terminator_uuid: children on this node are left alone.
TerminatorNode(c) == CASE c \in Tokens -> node[c]
                       [] c = Self -> node[note]
                       [] c = Outside -> NoNode

-----------------------------------------------------------------------------
(* Mutants: what some actions below would be after a plausible slip.  They *)
(* belong to no specification; each makes a property fail in some run.     *)

\* Of Synchronize: the gateway fires and forgets to reset its ports.
SynchronizeNoReset(t) ==
  LET gate == node[t] IN
  /\ pc[t] = "exec" /\ gate \in Joins
  /\ next' = [next EXCEPT ![t] = NoNode]
  /\ \/ /\ InputPorts(gate) \subseteq ports[gate]
        /\ \E F \in Followed(gate) : todo' = [todo EXCEPT ![t] = F]
        /\ pc' = [pc EXCEPT ![t] = "follow"]
        /\ UNCHANGED active
     \/ /\ ~ (InputPorts(gate) \subseteq ports[gate])
        /\ active' = [active EXCEPT ![t] = FALSE]
        /\ pc' = [pc EXCEPT ![t] = "loop"]
        /\ UNCHANGED todo
  /\ UNCHANGED <<node, hit, edge, raised, ports, callVars, processVars,
                 interruptVars, lost>>

\* Of TerminateChild: the flag is taken down but the node is not terminated.
TerminateFlagOnly(c) ==
  /\ join[c] = NoToken
  /\ \E u \in sweep[c] :
       /\ sweep' = [sweep EXCEPT ![c] = @ \ {u}]
       /\ \/ node[u] = TerminatorNode(c) /\ UNCHANGED <<active, join>>
          \/ /\ node[u] # TerminatorNode(c)
             /\ active' = [active EXCEPT ![u] = FALSE]
             /\ join' = [join EXCEPT ![c] = u]
  /\ UNCHANGED <<pc, node, hit, todo, next, edge, raised, ports, outside,
                 processVars, interruptVars, lost>>

\* Of AwaitSender: the notification is handled while its sender still ends.
HandleAtOnce ==
  /\ op = "await"
  /\ \/ raised[note] /\ op' = "fail" /\ BeginTerminate(Self)
     \/ ~raised[note] /\ op' = "count" /\ UNCHANGED sweep
  /\ UNCHANGED <<threadVars, ports, join, outside, toEmit, queue, note, seen,
                 cancelled, outcome, interruptVars, lost>>

\* Of AwaitSender: an exception is handled like an ordinary end.
IgnoreException ==
  /\ op = "await" /\ note \notin Live
  /\ op' = "count"
  /\ UNCHANGED <<threadVars, ports, callVars, toEmit, queue, note, seen,
                 cancelled, outcome, interruptVars, lost>>

\* Of CountChildren: the flags are counted and not the threads.
CountByFlag ==
  /\ op = "count"
  /\ op' = IF \A t \in Tokens : ~active[t] THEN "settle" ELSE "take"
  /\ note' = NoToken
  /\ UNCHANGED <<threadVars, ports, callVars, toEmit, queue, seen, cancelled,
                 outcome, interruptVars, lost>>

-----------------------------------------------------------------------------
(* The thread of a token.                                                  *)

\* Model::emitNewToken and Token::start: a thread on node n.  Identities are
\* random in the code, so any unused one will do.
EmitNewToken(u, n) ==
  /\ pc[u] = "none" /\ u = CHOOSE v \in Tokens : pc[v] = "none"
  /\ active' = [active EXCEPT ![u] = TRUE]
  /\ node' = [node EXCEPT ![u] = n]

\* ProcessModelNode::triggerInputPort; only a parallel gateway reads its ports.
TriggerInputPort(e) ==
  ports' = IF e[2] \in Joins THEN [ports EXCEPT ![e[2]] = @ \cup {e[1]}]
           ELSE ports

\* Token::loop: execute the current node while active, else publish OK.
CheckActive(t) ==
  /\ pc[t] = "loop"
  /\ pc' = [pc EXCEPT ![t] = IF active[t] THEN "exec" ELSE "publish"]
  /\ UNCHANGED <<active, node, hit, todo, next, edge, raised, ports,
                 callVars, processVars, interruptVars, lost>>

\* The node is done: its flows, or those of one of its boundary events,
\* are to be followed.
Complete(t) ==
  /\ pc[t] = "exec" /\ node[t] \notin Joins
  /\ \E F \in Departures(node[t]) : todo' = [todo EXCEPT ![t] = F]
  /\ next' = [next EXCEPT ![t] = NoNode]
  /\ pc' = [pc EXCEPT ![t] = "follow"]
  /\ UNCHANGED <<active, node, hit, edge, raised, ports,
                 callVars, processVars, interruptVars, lost>>

\* ParallelGateway::activity: with a port off the outcome is CANCELLED and
\* the token ends; with all of them on they are reset and the flows followed.
Synchronize(t) ==
  LET gate == node[t] IN
  /\ pc[t] = "exec" /\ gate \in Joins
  /\ next' = [next EXCEPT ![t] = NoNode]
  /\ \/ /\ InputPorts(gate) \subseteq ports[gate]
        /\ ports' = [ports EXCEPT ![gate] = {}]
        /\ \E F \in Followed(gate) : todo' = [todo EXCEPT ![t] = F]
        /\ pc' = [pc EXCEPT ![t] = "follow"]
        /\ UNCHANGED active
     \/ /\ ~ (InputPorts(gate) \subseteq ports[gate])
        /\ active' = [active EXCEPT ![t] = FALSE]
        /\ pc' = [pc EXCEPT ![t] = "loop"]
        /\ UNCHANGED <<ports, todo>>
  /\ UNCHANGED <<node, hit, edge, raised, callVars, processVars,
                 interruptVars, lost>>

\* A lasting node that was terminated or interrupted gives up: CANCELLED, or
\* INTERRUPTED without a boundary event, and the token has no next node.  One
\* that is deaf may miss the notice, and does then not give up.
GiveUp(t) ==
  /\ pc[t] = "exec" /\ node[t] \in Lasting /\ hit[t]
  /\ active' = [active EXCEPT ![t] = FALSE]
  /\ pc' = [pc EXCEPT ![t] = "loop"]
  /\ UNCHANGED <<node, hit, todo, next, edge, raised, ports,
                 callVars, processVars, interruptVars, lost>>

\* An exception leaves activity(): an error no boundary event catches, or a
\* flow whose expression throws.
Raise(t) ==
  /\ pc[t] \in {"exec", "follow"} /\ node[t] \in Faulty
  /\ raised' = [raised EXCEPT ![t] = TRUE]
  /\ todo' = [todo EXCEPT ![t] = {}]
  /\ pc' = [pc EXCEPT ![t] = "publish"]
  /\ UNCHANGED <<active, node, hit, next, edge, ports,
                 callVars, processVars, interruptVars, lost>>

\* Token::followOutputPorts: the first true flow is this token's own.
FollowFirst(t) ==
  /\ pc[t] = "follow" /\ next[t] = NoNode
  /\ \E e \in todo[t] :
       /\ next' = [next EXCEPT ![t] = e[2]]
       /\ todo' = [todo EXCEPT ![t] = @ \ {e}]
       /\ TriggerInputPort(e)
  /\ UNCHANGED <<pc, active, node, hit, edge, raised,
                 callVars, processVars, interruptVars, lost>>

\* Every further true flow gets a new token, whose thread is running before
\* the input port is triggered.
FollowMore(t) ==
  /\ pc[t] = "follow" /\ next[t] # NoNode
  /\ \E e \in todo[t], u \in Tokens :
       /\ EmitNewToken(u, e[2])
       /\ pc' = [pc EXCEPT ![t] = "trigger", ![u] = "loop"]
       /\ edge' = [edge EXCEPT ![t] = e]
       /\ todo' = [todo EXCEPT ![t] = @ \ {e}]
  /\ UNCHANGED <<hit, next, raised, ports, callVars, processVars,
                 interruptVars, lost>>

TriggerPort(t) ==
  /\ pc[t] = "trigger"
  /\ TriggerInputPort(edge[t])
  /\ edge' = [edge EXCEPT ![t] = <<NoNode, NoNode>>]
  /\ pc' = [pc EXCEPT ![t] = "follow"]
  /\ UNCHANGED <<active, node, hit, todo, next, raised,
                 callVars, processVars, interruptVars, lost>>

\* The end of Token::activity: go on to the next node, on a fresh clone, or
\* deactivate.  A token terminated meanwhile still moves on.
EnterNext(t) ==
  /\ pc[t] = "follow" /\ todo[t] = {}
  /\ pc' = [pc EXCEPT ![t] = "loop"]
  /\ next' = [next EXCEPT ![t] = NoNode]
  /\ \/ /\ next[t] = NoNode
        /\ active' = [active EXCEPT ![t] = FALSE]
        /\ UNCHANGED <<node, hit>>
     \/ /\ next[t] # NoNode
        /\ node' = [node EXCEPT ![t] = next[t]]
        /\ hit' = [hit EXCEPT ![t] = FALSE]
        /\ UNCHANGED active
  /\ UNCHANGED <<todo, edge, raised, ports, callVars, processVars,
                 interruptVars, lost>>

-----------------------------------------------------------------------------
(* Termination notifications, in the thread of the token that ends.        *)

\* Process::token_termination_event_callback up to the push.  The slot is
\* disconnected once the process has ended; an end event is not recognised
\* before activity() has filled end_event_uuids_; an exception of a parallel
\* gateway is not queued; a terminating end event terminates the siblings.
Publish(t) ==
  /\ pc[t] = "publish"
  /\ \/ /\ op \in Ended
        /\ pc' = [pc EXCEPT ![t] = "leave"]
        /\ UNCHANGED <<sweep, lost>>
     \/ /\ op \notin Ended
        /\ \/ ~raised[t] /\ node[t] \in Ends /\ op \in {"start", "enter"}
           \/ raised[t] /\ node[t] \in Joins
        /\ pc' = [pc EXCEPT ![t] = "leave"]
        /\ lost' = lost \cup {t}
        /\ UNCHANGED sweep
     \/ /\ op \notin Ended \cup {"start", "enter"}
        /\ ~raised[t] /\ node[t] \in Terminators
        /\ BeginTerminate(t)
        /\ pc' = [pc EXCEPT ![t] = "terminate"]
        /\ UNCHANGED lost
     \/ /\ op \notin Ended
        /\ \/ ~raised[t] /\ node[t] \notin Ends
           \/ ~raised[t] /\ node[t] \in Ends \ Terminators
                         /\ op \notin {"start", "enter"}
           \/ raised[t] /\ node[t] \notin Joins
        /\ pc' = [pc EXCEPT ![t] = "push"]
        /\ UNCHANGED <<sweep, lost>>
  /\ UNCHANGED <<active, node, hit, todo, next, edge, raised, ports, join,
                 outside, processVars, interruptVars>>

\* The push, under termination_notification_mutex_.
Push(t) ==
  /\ pc[t] = "push" /\ op \notin Holding
  /\ queue' = Append(queue, t)
  /\ pc' = [pc EXCEPT ![t] = "leave"]
  /\ UNCHANGED <<active, node, hit, todo, next, edge, raised, ports, callVars,
                 op, toEmit, note, seen, cancelled, outcome, interruptVars, lost>>

\* The thread ends; after an exception it deactivates only now.
Exit(t) ==
  /\ pc[t] = "leave"
  /\ active' = [active EXCEPT ![t] = FALSE]
  /\ pc' = [pc EXCEPT ![t] = "gone"]
  /\ UNCHANGED <<node, hit, todo, next, edge, raised, ports,
                 callVars, processVars, interruptVars, lost>>

-----------------------------------------------------------------------------
(* Process::terminate, run by a terminating end event's token, by the      *)
(* overwatch after an exception, or from outside.                          *)

\* Token::terminate: take the flag down, terminate the node, wait for the
\* thread.  The caller waits without a timeout.
TerminateChild(c) ==
  /\ join[c] = NoToken
  /\ \E u \in sweep[c] :
       /\ sweep' = [sweep EXCEPT ![c] = @ \ {u}]
       /\ \/ node[u] = TerminatorNode(c) /\ UNCHANGED <<active, hit, join>>
          \/ /\ node[u] # TerminatorNode(c)
             /\ active' = [active EXCEPT ![u] = FALSE]
             /\ hit' = [hit EXCEPT ![u] = TRUE]
             /\ join' = [join EXCEPT ![c] = u]
  /\ UNCHANGED <<pc, node, todo, next, edge, raised, ports, outside,
                 processVars, interruptVars, lost>>

JoinChild(c) ==
  /\ join[c] # NoToken /\ pc[join[c]] = "gone"
  /\ join' = [join EXCEPT ![c] = NoToken]
  /\ UNCHANGED <<threadVars, ports, sweep, outside, processVars,
                 interruptVars, lost>>

\* is_cancelled_ is stored once every listed child is gone.
SweptBy(c) == sweep[c] = {} /\ join[c] = NoToken

EndTerminate(t) ==
  /\ pc[t] = "terminate" /\ SweptBy(t)
  /\ cancelled' = FALSE
  /\ pc' = [pc EXCEPT ![t] = "push"]
  /\ UNCHANGED <<active, node, hit, todo, next, edge, raised, ports, callVars,
                 op, toEmit, queue, note, seen, outcome, interruptVars, lost>>

TerminateProcess ==
  /\ "terminate" \in Disturbances /\ outside = "idle" /\ op \in Running
  /\ outside' = "busy"
  /\ BeginTerminate(Outside)
  /\ UNCHANGED <<threadVars, ports, join, processVars, interruptVars, lost>>

EndTerminateProcess ==
  /\ outside = "busy" /\ SweptBy(Outside)
  /\ outside' = "done"
  /\ cancelled' = TRUE
  /\ UNCHANGED <<threadVars, ports, sweep, join, op, toEmit, queue, note, seen,
                 outcome, interruptVars, lost>>

-----------------------------------------------------------------------------
(* Interruption: Activity::boundary_event_callback and Process::interrupt. *)

BoundaryEventFires ==
  /\ "interrupt" \in Disturbances /\ ~fired /\ ~interrupted /\ op \in Running
  /\ fired' = TRUE
  /\ UNCHANGED <<threadVars, ports, callVars, processVars, interrupted, marks,
                 lost>>

\* From its first node to the publication of its end.
PunchedIn(t) == pc[t] \in {"loop", "exec", "follow", "trigger", "publish"}

ActiveNodes == {<<t, node[t]>> : t \in {u \in Live : PunchedIn(u)}}

Interrupt ==
  /\ "interrupt" \in Disturbances /\ ~interrupted /\ op \in Running
  /\ interrupted' = TRUE
  /\ marks' = ActiveNodes
  /\ UNCHANGED <<threadVars, ports, callVars, processVars, fired, lost>>

\* The node is asked to stop; its token may have left it since.
InterruptChild ==
  /\ \E m \in marks :
       /\ marks' = marks \ {m}
       /\ hit' = [hit EXCEPT ![m[1]] = @ \/ node[m[1]] = m[2]]
  /\ UNCHANGED <<pc, active, node, todo, next, edge, raised, ports, callVars,
                 processVars, fired, interrupted, lost>>

-----------------------------------------------------------------------------
(* The overwatch.                                                          *)

\* Process::start: one token per start event, once the slot is connected.
EmitStart ==
  /\ op = "start"
  /\ \E n \in toEmit, u \in Tokens :
       /\ EmitNewToken(u, n)
       /\ pc' = [pc EXCEPT ![u] = "loop"]
       /\ toEmit' = toEmit \ {n}
  /\ UNCHANGED <<hit, todo, next, edge, raised, ports, callVars, op, queue,
                 note, seen, cancelled, outcome, interruptVars, lost>>

EndStart ==
  /\ op = "start" /\ toEmit = {}
  /\ op' = "enter"
  /\ UNCHANGED <<threadVars, ports, callVars, toEmit, queue, note, seen,
                 cancelled, outcome, interruptVars, lost>>

\* Process::activity fills end_event_uuids_.
ReadEndEvents ==
  /\ op = "enter"
  /\ op' = "wait"
  /\ UNCHANGED <<threadVars, ports, callVars, toEmit, queue, note, seen,
                 cancelled, outcome, interruptVars, lost>>

\* The wait ends, notified or after 100 ms, with the lock held.
WakeUp ==
  /\ op = "wait"
  /\ op' = "take"
  /\ seen' = fired
  /\ UNCHANGED <<threadVars, ports, callVars, toEmit, queue, note, cancelled,
                 outcome, interruptVars, lost>>

Unlock ==
  /\ op = "take" /\ queue = <<>>
  /\ op' = "wait"
  /\ UNCHANGED <<threadVars, ports, callVars, toEmit, queue, note, seen,
                 cancelled, outcome, interruptVars, lost>>

TakeNotification ==
  /\ op = "take" /\ queue # <<>>
  /\ note' = Head(queue) /\ queue' = Tail(queue)
  /\ op' = "await"
  /\ UNCHANGED <<threadVars, ports, callVars, toEmit, seen, cancelled, outcome,
                 interruptVars, lost>>

\* Wait until the sender is not among the active tokens.  An exception ends
\* the process: it terminates its children, but not those on the same node.
AwaitSender ==
  /\ op = "await" /\ note \notin Live
  /\ \/ /\ raised[note]
        /\ op' = "fail"
        /\ BeginTerminate(Self)
     \/ /\ ~raised[note]
        /\ op' = "count"
        /\ UNCHANGED sweep
  /\ UNCHANGED <<threadVars, ports, join, outside, toEmit, queue, note, seen,
                 cancelled, outcome, interruptVars, lost>>

CountChildren ==
  /\ op = "count"
  /\ op' = IF Live = {} THEN "settle" ELSE "take"
  /\ note' = NoToken
  /\ UNCHANGED <<threadVars, ports, callVars, toEmit, queue, seen, cancelled,
                 outcome, interruptVars, lost>>

\* The process returns its outcome and disconnects its slot.
Settle ==
  /\ op = "settle"
  /\ outcome' = IF interrupted
                THEN (IF seen THEN "boundary" ELSE "interrupted")
                ELSE IF cancelled THEN "cancelled" ELSE "ok"
  /\ op' = "returned"
  /\ UNCHANGED <<threadVars, ports, callVars, toEmit, queue, note, seen,
                 cancelled, interruptVars, lost>>

\* The children are terminated: disconnect and throw.
Throw ==
  /\ op = "fail" /\ SweptBy(Self)
  /\ cancelled' = FALSE
  /\ outcome' = "exception"
  /\ op' = "threw"
  /\ note' = NoToken
  /\ UNCHANGED <<threadVars, ports, callVars, toEmit, queue, seen,
                 interruptVars, lost>>

-----------------------------------------------------------------------------
TokenStep(t) ==
  \/ CheckActive(t) \/ Complete(t) \/ Synchronize(t) \/ GiveUp(t) \/ Raise(t)
  \/ FollowFirst(t) \/ FollowMore(t) \/ TriggerPort(t) \/ EnterNext(t)
  \/ Publish(t) \/ EndTerminate(t) \/ Push(t) \/ Exit(t)

OverwatchStep ==
  \/ EmitStart \/ EndStart \/ ReadEndEvents \/ WakeUp \/ Unlock
  \/ TakeNotification \/ AwaitSender \/ CountChildren \/ Settle \/ Throw

CallerStep(c) == TerminateChild(c) \/ JoinChild(c)

\* Nothing is left to do: the process has ended and no thread is running.
Terminated ==
  /\ op \in Ended /\ Live = {} /\ outside # "busy" /\ marks = {}
  /\ UNCHANGED vars

Next ==
  \/ \E t \in Tokens : TokenStep(t)
  \/ \E c \in Callers : CallerStep(c)
  \/ OverwatchStep
  \/ TerminateProcess \/ EndTerminateProcess
  \/ BoundaryEventFires \/ Interrupt \/ InterruptChild
  \/ Terminated

Spec == Init /\ [][Next]_vars

(***************************************************************************)
(* A runnable thread runs.  A lasting node need not ever complete of its   *)
(* own (a task waits for a robot or for a person) and gives up once hit    *)
(* only if it is not deaf; nothing is forced to throw, to terminate or to  *)
(* interrupt the process.                                                  *)
(***************************************************************************)
Prompt(t) ==
  \/ CheckActive(t) \/ (node[t] \notin Lasting /\ Complete(t))
  \/ Synchronize(t) \/ (node[t] \notin Deaf /\ GiveUp(t)) \/ FollowFirst(t) \/ FollowMore(t)
  \/ TriggerPort(t) \/ EnterNext(t) \/ Publish(t) \/ EndTerminate(t) \/ Exit(t)

Fairness ==
  /\ \A t \in Tokens : WF_vars(Prompt(t)) /\ SF_vars(Push(t))
  /\ \A c \in Callers : WF_vars(CallerStep(c))
  /\ WF_vars(OverwatchStep)
  /\ WF_vars(EndTerminateProcess)
  /\ WF_vars(fired /\ Interrupt) /\ WF_vars(InterruptChild)

FairSpec == Spec /\ Fairness

-----------------------------------------------------------------------------
ThreadTypes ==
  /\ pc \in [Tokens -> {"none", "loop", "exec", "follow", "trigger", "publish",
                        "terminate", "push", "leave", "gone"}]
  /\ active \in [Tokens -> BOOLEAN]
  /\ node \in [Tokens -> Nodes \cup {NoNode}]
  /\ hit \in [Tokens -> BOOLEAN]
  /\ todo \in [Tokens -> SUBSET Flows]
  /\ next \in [Tokens -> Nodes \cup {NoNode}]
  /\ edge \in [Tokens -> Flows \cup {<<NoNode, NoNode>>}]
  /\ raised \in [Tokens -> BOOLEAN]

CallTypes ==
  /\ ports \in [Joins -> SUBSET Nodes]
  /\ sweep \in [Callers -> SUBSET Tokens]
  /\ join \in [Callers -> Tokens \cup {NoToken}]
  /\ outside \in {"idle", "busy", "done"}

ProcessTypes ==
  /\ op \in Running \cup Ended
  /\ toEmit \subseteq Starts
  /\ queue \in Seq(Tokens)
  /\ note \in Tokens \cup {NoToken}
  /\ fired \in BOOLEAN /\ seen \in BOOLEAN
  /\ interrupted \in BOOLEAN /\ cancelled \in BOOLEAN
  /\ marks \subseteq Tokens \X Nodes
  /\ outcome \in {"none", "ok", "cancelled", "interrupted", "boundary",
                  "exception"}
  /\ lost \subseteq Tokens

\* A thread that runs is on a node of the process, and the port it still has
\* to trigger is that of a flow.
Placed(t) ==
  /\ pc[t] # "none" => node[t] \in Nodes
  /\ pc[t] = "trigger" => edge[t] \in Flows

\* Every variable of the process and of its children has a value of its type.
TypeOK ==
  /\ ThreadTypes /\ CallTypes /\ ProcessTypes
  /\ \A t \in Tokens : Placed(t)

\* A process that returns an outcome has no child left: no token of it is
\* running, ending or waiting, whatever was terminated or interrupted.
NoOrphan == op = "returned" => Live = {}

\* The overwatch never sleeps for nothing: while it waits, a notification is
\* in the queue or a child that has yet to send one is alive, unless a
\* notification was lost.
NeverStranded ==
  op \in {"wait", "take"} =>
    \/ queue # <<>>
    \/ \E t \in Live : pc[t] # "leave"
    \/ lost # {}

\* A join whose input ports are all on has a token that is about to execute
\* it, as long as nothing was terminated, interrupted or raised.
Undisturbed ==
  /\ outside = "idle" /\ ~interrupted
  /\ \A t \in Tokens : ~raised[t] /\ node[t] \notin Terminators
NoMissedJoin ==
  Undisturbed =>
    \A j \in Joins :
      (InputPorts(j) # {} /\ InputPorts(j) \subseteq ports[j]) =>
        \E t \in Live : \/ node[t] = j /\ pc[t] \in {"loop", "exec"}
                        \/ next[t] = j /\ pc[t] \in {"follow", "trigger"}

\* The two ways a call of Process::terminate may stay blocked: a deaf node has
\* missed that it was hit, or two terminating end events terminate each other.
Missed(t) == pc[t] = "exec" /\ node[t] \in Deaf /\ hit[t]
MutualWait == \E t, u \in Tokens : join[t] = u /\ join[u] = t
Stuck == MutualWait \/ \E t \in Tokens : Missed(t)

\* Whoever waits in Token::terminate for a child's thread gets it back, unless
\* a deaf node has missed its notice for good or two terminating end events
\* wait for each other: no other wait of the process, its children and its
\* terminators blocks (Process::terminate).
TerminateSettles ==
  \A c \in Callers : join[c] # NoToken ~> (join[c] = NoToken \/ []Stuck)

\* When its children are gone the process ends, if none of their
\* notifications was lost.
LastChildEndsProcess ==
  (op = "wait" /\ Live = {} /\ lost = {}) ~> (op \in Ended)

\* An exception that a child is about to report ends the process, which first
\* terminates the siblings and waits for them: also those that would have run
\* for ever, unless one of them has missed its notice for good or waits for a
\* terminator that waits for it.
ExceptionEndsProcess ==
  \A t \in Tokens :
    (pc[t] = "push" /\ raised[t] /\ op \notin Ended) ~> (op \in Ended \/ []Stuck)

-----------------------------------------------------------------------------
(* The inductive invariant behind NoOrphan and NeverStranded.              *)

InQueue(t) == \E i \in 1..Len(queue) : queue[i] = t

\* A thread that is over has its flag down, so Live can be read off pc.
GoneIsDown == \A t \in Tokens : pc[t] = "gone" => ~active[t]

\* Only tokens on their way out are notified of, and the notification in the
\* overwatch's hand is that of a token, gone once it is counted.
SentIsLeaving ==
  /\ \A t \in Tokens : InQueue(t) \/ t = note => pc[t] \in {"leave", "gone"}
  /\ op \in {"await", "count", "fail"} <=> note # NoToken
  /\ op = "count" => pc[note] = "gone"

\* A token about to leave has its notification in the queue, in the hand of
\* the overwatch or lost.
Accounted ==
  \A t \in Tokens :
    pc[t] = "leave" => InQueue(t) \/ t = note \/ t \in lost \/ op \in Ended

\* NeverStranded, from the first start event on.
Reporting == {t \in Live : pc[t] # "leave"}
Awaiting ==
  op \in {"start", "enter", "wait", "take"} =>
    (op = "start" /\ toEmit # {}) \/ queue # <<>> \/ Reporting # {} \/ lost # {}

SettledEmpty == op \in {"settle", "returned"} => Live = {}

\* The conjunction that every step of the process and of its children keeps.
OverwatchInv ==
  TypeOK /\ GoneIsDown /\ SentIsLeaving /\ Accounted /\ Awaiting /\ SettledEmpty

-----------------------------------------------------------------------------
(* Why no join is missed, in a process whose tokens go to parallel         *)
(* gateways themselves (JoinsFollowedAlone): the port of a flow that is    *)
(* followed with a new token is triggered only when the token may already  *)
(* have found the gateway not ready.                                       *)

\* What was terminated, interrupted or raised leaves a trace that stays.
Disturbed ==
  \/ outside # "idle" \/ interrupted
  \/ \E t \in Tokens :
       raised[t] \/ (node[t] \in Terminators
                      /\ pc[t] \in {"terminate", "push", "leave", "gone"})

\* Nobody is asked to stop.
Calm ==
  /\ \A c \in Callers : sweep[c] = {} /\ join[c] = NoToken
  /\ marks = {}
  /\ \A t \in Tokens : ~hit[t]

\* A flow into a join is followed first, and then there is no other one.
HeadsAlone(t) ==
  /\ pc[t] = "follow" /\ next[t] = NoNode =>
       \A e \in todo[t] : e[2] \in Joins => todo[t] = {e}
  /\ pc[t] \in {"follow", "trigger"} /\ next[t] # NoNode =>
       \A e \in todo[t] : e[2] \notin Joins
  /\ pc[t] = "trigger" => edge[t][2] \notin Joins /\ next[t] # NoNode

AllOn(j) == InputPorts(j) # {} /\ InputPorts(j) \subseteq ports[j]

\* The token will execute the join and find its ports as they are, or with more
\* of them on.
Arriving(t, j) ==
  \/ node[t] = j /\ (pc[t] = "exec" \/ (pc[t] = "loop" /\ active[t]))
  \/ next[t] = j /\ pc[t] \in {"follow", "trigger"}

JoinInv ==
  /\ \A t \in Tokens : HeadsAlone(t)
  /\ ~Disturbed =>
       /\ Calm
       /\ \A t \in Tokens : pc[t] \in {"exec", "follow", "trigger"} => active[t]
       /\ \A j \in Joins : AllOn(j) => \E t \in Tokens : Arriving(t, j)

-----------------------------------------------------------------------------
(* The process keeps the promise of Scope.                                 *)

Stage == CASE op = "start" -> "starting"
           [] op = "returned" -> "closed"
           [] op = "threw" -> "failed"
           [] OTHER -> "watching"

AbstractScope == INSTANCE Scope WITH Children <- Tokens, live <- Live,
  left <- {t \in Tokens : IsTerminated(t) /\ pc[t] # "none"}, stage <- Stage

\* Children enter through the start events or through a live sibling, and the
\* process returns an outcome only when none is live.
KeepsScope == AbstractScope!Spec

-----------------------------------------------------------------------------
(* Statements the source makes about itself that do not hold.              *)

\* "Child terminated successfully.": a termination gets back every thread it
\* waits for (Process::terminate); two terminating end events that wait for
\* each other do not.
TerminateReturns == \A c \in Callers : join[c] # NoToken ~> join[c] = NoToken

\* "I'm the last one left, let's give up": the process ends once no child is
\* left (Process::activity).
GivesUpAfterLastChild == (op = "wait" /\ Live = {}) ~> (op \in Ended)

\* "Aborts the mission and cleans up its state(s)": once the termination of
\* the process has returned, the process ends (MissionControl::abort).
AbortEndsProcess == (outside = "done") ~> (op \in Ended)

\* "Natural end of my life cycle": a process that returns OK is not waiting
\* for a child it has just terminated (Process::activity).
NaturalEnd == (op = "returned" /\ outcome = "ok") => join[Outside] = NoToken

\* "Process terminated successfully": an outcome OK means that no child
\* reported an exception (Process::activity).
SuccessMeansNoException ==
  (op = "returned" /\ outcome = "ok") => \A t \in Tokens : raised[t] => t \in lost

\* "Not interrupted by a boundary event.": an interrupted process without the
\* event in its outcome was not interrupted by one (Token::activity).
InterruptedWithoutEvent == outcome = "interrupted" => ~fired
=============================================================================
