-------------------------- MODULE Overwatch_proofs --------------------------
(***************************************************************************)
(* Theorems about Overwatch, for every workflow and every set of tokens:   *)
(* type correctness, no orphan after the process has returned, no overwatch*)
(* that sleeps for nothing, and the refinement of Scope.                   *)
(***************************************************************************)
EXTENDS Overwatch, TLAPS

-----------------------------------------------------------------------------
(* Sequence flows.                                                         *)

\* Whatever followOutputPorts decides, it follows sequence flows of the process.
LEMMA FollowedAreFlows ==
  ASSUME NEW n \in Nodes, NEW F \in Followed(n)
  PROVE  F \subseteq Flows
  BY DEF Followed, TrueFlows, OutputPorts

\* So it does when the node is left through a boundary event.
LEMMA DeparturesAreFlows ==
  ASSUME NEW n \in Nodes, NEW F \in Departures(n)
  PROVE  F \subseteq Flows
  BY FollowedAreFlows, WorkflowAssumption DEF Departures, Exits, WorkflowAssumption

\* A sequence flow joins two nodes of the process.
LEMMA FlowEnds ==
  ASSUME NEW e \in Flows
  PROVE  e[1] \in Nodes /\ e[2] \in Nodes
  BY WorkflowAssumption DEF WorkflowAssumption

-----------------------------------------------------------------------------
(* Type correctness.                                                       *)

\* Every variable starts with a value of its type.
LEMMA TypeInit == Init => TypeOK
<1> SUFFICES ASSUME Init PROVE TypeOK OBVIOUS
<1>1. ThreadTypes
  BY DEF Init, ThreadTypes
<1>2. CallTypes
  BY DEF Init, CallTypes
<1>3. ProcessTypes
  <2>1. queue \in Seq(Tokens)
    BY DEF Init
  <2> QED
    BY <2>1 DEF Init, ProcessTypes, Running
<1>4. \A t \in Tokens : Placed(t)
  BY DEF Init, Placed
<1> QED
  BY <1>1, <1>2, <1>3, <1>4 DEF TypeOK

\* A step of a token thread (Token::loop, Token::activity) keeps the types.
LEMMA TypeToken ==
  ASSUME TypeOK, NEW t \in Tokens, TokenStep(t)
  PROVE  TypeOK'
<1> USE DEF TypeOK
<1>1. CASE CheckActive(t)
  <2>1. ThreadTypes' /\ \A u \in Tokens : Placed(u)'
    BY <1>1 DEF CheckActive, ThreadTypes, Placed
  <2>2. CallTypes' /\ ProcessTypes'
    BY <1>1 DEF CheckActive, CallTypes, ProcessTypes, callVars, processVars,
       interruptVars
  <2> QED BY <2>1, <2>2
<1>2. CASE Complete(t)
  <2>1. ThreadTypes'
    <3>0. node[t] \in Nodes
      BY <1>2 DEF Complete, Placed
    <3>1. todo' \in [Tokens -> SUBSET Flows]
      BY <1>2, <3>0, DeparturesAreFlows DEF Complete, ThreadTypes
    <3> QED BY <1>2, <3>1 DEF Complete, ThreadTypes
  <2>2. \A u \in Tokens : Placed(u)'
    BY <1>2 DEF Complete, ThreadTypes, Placed
  <2>3. CallTypes' /\ ProcessTypes'
    BY <1>2 DEF Complete, CallTypes, ProcessTypes, callVars, processVars,
       interruptVars
  <2> QED BY <2>1, <2>2, <2>3
<1>3. CASE Synchronize(t)
  <2>1. ThreadTypes'
    <3>0. node[t] \in Nodes
      BY <1>3 DEF Synchronize, Placed
    <3>1. todo' \in [Tokens -> SUBSET Flows]
      BY <1>3, <3>0, FollowedAreFlows DEF Synchronize, ThreadTypes
    <3> QED BY <1>3, <3>1 DEF Synchronize, ThreadTypes
  <2>2. \A u \in Tokens : Placed(u)'
    BY <1>3 DEF Synchronize, ThreadTypes, Placed
  <2>3. CallTypes'
    BY <1>3 DEF Synchronize, CallTypes, callVars
  <2>4. ProcessTypes'
    BY <1>3 DEF Synchronize, ProcessTypes, processVars, interruptVars
  <2> QED BY <2>1, <2>2, <2>3, <2>4
<1>4. CASE GiveUp(t)
  <2>1. ThreadTypes' /\ \A u \in Tokens : Placed(u)'
    BY <1>4 DEF GiveUp, ThreadTypes, Placed
  <2>2. CallTypes' /\ ProcessTypes'
    BY <1>4 DEF GiveUp, CallTypes, ProcessTypes, callVars, processVars, interruptVars
  <2> QED BY <2>1, <2>2
<1>5. CASE Raise(t)
  <2>1. ThreadTypes' /\ \A u \in Tokens : Placed(u)'
    BY <1>5 DEF Raise, ThreadTypes, Placed
  <2>2. CallTypes' /\ ProcessTypes'
    BY <1>5 DEF Raise, CallTypes, ProcessTypes, callVars, processVars, interruptVars
  <2> QED BY <2>1, <2>2
<1>6. CASE FollowFirst(t)
  <2>1. PICK e \in todo[t] : /\ next' = [next EXCEPT ![t] = e[2]]
                             /\ todo' = [todo EXCEPT ![t] = @ \ {e}]
                             /\ TriggerInputPort(e)
    BY <1>6 DEF FollowFirst
  <2>2. e[1] \in Nodes /\ e[2] \in Nodes
    BY <2>1, FlowEnds DEF ThreadTypes
  <2>3. ThreadTypes' /\ \A u \in Tokens : Placed(u)'
    BY <1>6, <2>1, <2>2 DEF FollowFirst, ThreadTypes, Placed
  <2>4. CallTypes'
    BY <1>6, <2>1, <2>2 DEF FollowFirst, TriggerInputPort, CallTypes, callVars
  <2>5. ProcessTypes'
    BY <1>6 DEF FollowFirst, ProcessTypes, processVars, interruptVars
  <2> QED BY <2>3, <2>4, <2>5
<1>7. CASE FollowMore(t)
  <2>1. PICK e \in todo[t], u \in Tokens :
             /\ EmitNewToken(u, e[2])
             /\ pc' = [pc EXCEPT ![t] = "trigger", ![u] = "loop"]
             /\ edge' = [edge EXCEPT ![t] = e]
             /\ todo' = [todo EXCEPT ![t] = @ \ {e}]
    BY <1>7 DEF FollowMore
  <2>2. e \in Flows /\ e[2] \in Nodes
    BY <2>1, FlowEnds DEF ThreadTypes
  <2>3. ThreadTypes' /\ \A v \in Tokens : Placed(v)'
    BY <1>7, <2>1, <2>2 DEF FollowMore, EmitNewToken, ThreadTypes, Placed
  <2>4. CallTypes' /\ ProcessTypes'
    BY <1>7 DEF FollowMore, CallTypes, ProcessTypes, callVars, processVars,
       interruptVars
  <2> QED BY <2>3, <2>4
<1>8. CASE TriggerPort(t)
  <2>1. edge[t][1] \in Nodes
    <3>1. edge[t] \in Flows
      BY <1>8 DEF TriggerPort, Placed
    <3> QED BY <3>1, FlowEnds
  <2>2. ThreadTypes' /\ \A u \in Tokens : Placed(u)'
    BY <1>8 DEF TriggerPort, ThreadTypes, Placed
  <2>3. CallTypes'
    BY <1>8, <2>1 DEF TriggerPort, TriggerInputPort, CallTypes, callVars
  <2>4. ProcessTypes'
    BY <1>8 DEF TriggerPort, ProcessTypes, processVars, interruptVars
  <2> QED BY <2>2, <2>3, <2>4
<1>9. CASE EnterNext(t)
  <2>1. ThreadTypes' /\ \A u \in Tokens : Placed(u)'
    BY <1>9 DEF EnterNext, ThreadTypes, Placed
  <2>2. CallTypes' /\ ProcessTypes'
    BY <1>9 DEF EnterNext, CallTypes, ProcessTypes, callVars, processVars,
       interruptVars
  <2> QED BY <2>1, <2>2
<1>10. CASE Publish(t)
  <2>1. ThreadTypes'
    BY <1>10 DEF Publish, ThreadTypes
  <2>2. \A u \in Tokens : Placed(u)'
    BY <1>10 DEF Publish, ThreadTypes, Placed
  <2>3. CallTypes'
    BY <1>10 DEF Publish, CallTypes, BeginTerminate, Live
  <2>4. ProcessTypes'
    BY <1>10 DEF Publish, ProcessTypes, processVars, interruptVars
  <2> QED BY <2>1, <2>2, <2>3, <2>4
<1>11. CASE EndTerminate(t)
  <2>1. ThreadTypes' /\ \A u \in Tokens : Placed(u)'
    BY <1>11 DEF EndTerminate, ThreadTypes, Placed
  <2>2. CallTypes' /\ ProcessTypes'
    BY <1>11 DEF EndTerminate, CallTypes, ProcessTypes, callVars, processVars,
       interruptVars
  <2> QED BY <2>1, <2>2
<1>12. CASE Push(t)
  <2>1. ThreadTypes' /\ \A u \in Tokens : Placed(u)'
    BY <1>12 DEF Push, ThreadTypes, Placed
  <2>2. CallTypes' /\ ProcessTypes'
    BY <1>12 DEF Push, CallTypes, ProcessTypes, callVars, processVars, interruptVars
  <2> QED BY <2>1, <2>2
<1>13. CASE Exit(t)
  <2>1. ThreadTypes' /\ \A u \in Tokens : Placed(u)'
    BY <1>13 DEF Exit, ThreadTypes, Placed
  <2>2. CallTypes' /\ ProcessTypes'
    BY <1>13 DEF Exit, CallTypes, ProcessTypes, callVars, processVars, interruptVars
  <2> QED BY <2>1, <2>2
<1> QED
  BY <1>1, <1>2, <1>3, <1>4, <1>5, <1>6, <1>7, <1>8, <1>9, <1>10, <1>11,
     <1>12, <1>13 DEF TokenStep

\* A step inside Process::terminate keeps the types.
LEMMA TypeCaller ==
  ASSUME TypeOK, NEW c \in Callers, CallerStep(c)
  PROVE  TypeOK'
<1> USE DEF TypeOK
<1>1. CASE TerminateChild(c)
  <2>1. ThreadTypes' /\ \A u \in Tokens : Placed(u)'
    BY <1>1 DEF TerminateChild, ThreadTypes, Placed, threadVars
  <2>2. CallTypes'
    BY <1>1 DEF TerminateChild, CallTypes, callVars
  <2>3. ProcessTypes'
    BY <1>1 DEF TerminateChild, ProcessTypes, processVars, interruptVars,
       Running, Holding, Ended
  <2> QED BY <2>1, <2>2, <2>3
<1>2. CASE JoinChild(c)
  <2>1. ThreadTypes' /\ \A u \in Tokens : Placed(u)'
    BY <1>2 DEF JoinChild, ThreadTypes, Placed, threadVars
  <2>2. CallTypes'
    BY <1>2 DEF JoinChild, CallTypes, callVars
  <2>3. ProcessTypes'
    BY <1>2 DEF JoinChild, ProcessTypes, processVars, interruptVars,
       Running, Holding, Ended
  <2> QED BY <2>1, <2>2, <2>3
<1> QED
  BY <1>1, <1>2 DEF CallerStep

\* A step of the overwatch (Process::start, Process::activity) keeps the types.
LEMMA TypeOverwatch ==
  ASSUME TypeOK, OverwatchStep
  PROVE  TypeOK'
<1> USE DEF TypeOK
<1>1. CASE EmitStart
  <2>1. ThreadTypes' /\ \A u \in Tokens : Placed(u)'
    BY <1>1, WorkflowAssumption DEF EmitStart, ThreadTypes, ProcessTypes,
       Placed, EmitNewToken, WorkflowAssumption
  <2>2. CallTypes'
    BY <1>1 DEF EmitStart, CallTypes, callVars, EmitNewToken
  <2>3. ProcessTypes'
    BY <1>1 DEF EmitStart, ProcessTypes, processVars, interruptVars,
       Running, Holding, Ended, EmitNewToken
  <2> QED BY <2>1, <2>2, <2>3
<1>2. CASE EndStart
  <2>1. ThreadTypes' /\ \A u \in Tokens : Placed(u)'
    BY <1>2 DEF EndStart, ThreadTypes, Placed, threadVars
  <2>2. CallTypes'
    BY <1>2 DEF EndStart, CallTypes, callVars
  <2>3. ProcessTypes'
    BY <1>2 DEF EndStart, ProcessTypes, processVars, interruptVars,
       Running, Holding, Ended
  <2> QED BY <2>1, <2>2, <2>3
<1>3. CASE ReadEndEvents
  <2>1. ThreadTypes' /\ \A u \in Tokens : Placed(u)'
    BY <1>3 DEF ReadEndEvents, ThreadTypes, Placed, threadVars
  <2>2. CallTypes'
    BY <1>3 DEF ReadEndEvents, CallTypes, callVars
  <2>3. ProcessTypes'
    BY <1>3 DEF ReadEndEvents, ProcessTypes, processVars, interruptVars,
       Running, Holding, Ended
  <2> QED BY <2>1, <2>2, <2>3
<1>4. CASE WakeUp
  <2>1. ThreadTypes' /\ \A u \in Tokens : Placed(u)'
    BY <1>4 DEF WakeUp, ThreadTypes, Placed, threadVars
  <2>2. CallTypes'
    BY <1>4 DEF WakeUp, CallTypes, callVars
  <2>3. ProcessTypes'
    BY <1>4 DEF WakeUp, ProcessTypes, processVars, interruptVars,
       Running, Holding, Ended
  <2> QED BY <2>1, <2>2, <2>3
<1>5. CASE Unlock
  <2>1. ThreadTypes' /\ \A u \in Tokens : Placed(u)'
    BY <1>5 DEF Unlock, ThreadTypes, Placed, threadVars
  <2>2. CallTypes'
    BY <1>5 DEF Unlock, CallTypes, callVars
  <2>3. ProcessTypes'
    BY <1>5 DEF Unlock, ProcessTypes, processVars, interruptVars,
       Running, Holding, Ended
  <2> QED BY <2>1, <2>2, <2>3
<1>6. CASE TakeNotification
  <2>1. ThreadTypes' /\ \A u \in Tokens : Placed(u)'
    BY <1>6 DEF TakeNotification, ThreadTypes, Placed, threadVars
  <2>2. CallTypes'
    BY <1>6 DEF TakeNotification, CallTypes, callVars
  <2>3. Head(queue) \in Tokens /\ Tail(queue) \in Seq(Tokens)
    BY <1>6 DEF TakeNotification, ProcessTypes
  <2>4. ProcessTypes'
    BY <1>6, <2>3 DEF TakeNotification, ProcessTypes, interruptVars, Running,
       Holding
  <2> QED BY <2>1, <2>2, <2>4
<1>7. CASE AwaitSender
  <2>1. ThreadTypes' /\ \A u \in Tokens : Placed(u)'
    BY <1>7 DEF AwaitSender, ThreadTypes, Placed, threadVars, BeginTerminate,
       Live, Callers
  <2>2. CallTypes'
    BY <1>7 DEF AwaitSender, CallTypes, callVars, BeginTerminate, Live, Callers
  <2>3. ProcessTypes'
    BY <1>7 DEF AwaitSender, ProcessTypes, processVars, interruptVars,
       Running, Holding, Ended, BeginTerminate, Live, Callers
  <2> QED BY <2>1, <2>2, <2>3
<1>8. CASE CountChildren
  <2>1. ThreadTypes' /\ \A u \in Tokens : Placed(u)'
    BY <1>8 DEF CountChildren, ThreadTypes, Placed, threadVars
  <2>2. CallTypes'
    BY <1>8 DEF CountChildren, CallTypes, callVars
  <2>3. ProcessTypes'
    BY <1>8 DEF CountChildren, ProcessTypes, processVars, interruptVars,
       Running, Holding, Ended
  <2> QED BY <2>1, <2>2, <2>3
<1>9. CASE Settle
  <2>1. ThreadTypes' /\ \A u \in Tokens : Placed(u)'
    BY <1>9 DEF Settle, ThreadTypes, Placed, threadVars
  <2>2. CallTypes'
    BY <1>9 DEF Settle, CallTypes, callVars
  <2>3. ProcessTypes'
    BY <1>9 DEF Settle, ProcessTypes, processVars, interruptVars,
       Running, Holding, Ended
  <2> QED BY <2>1, <2>2, <2>3
<1>10. CASE Throw
  <2>1. ThreadTypes' /\ \A u \in Tokens : Placed(u)'
    BY <1>10 DEF Throw, ThreadTypes, Placed, threadVars
  <2>2. CallTypes'
    BY <1>10 DEF Throw, CallTypes, callVars
  <2>3. ProcessTypes'
    BY <1>10 DEF Throw, ProcessTypes, processVars, interruptVars,
       Running, Holding, Ended
  <2> QED BY <2>1, <2>2, <2>3
<1> QED
  BY <1>1, <1>2, <1>3, <1>4, <1>5, <1>6, <1>7, <1>8, <1>9, <1>10 DEF OverwatchStep

\* A termination from outside and an interruption keep the types.
LEMMA TypeOutside ==
  ASSUME TypeOK, TerminateProcess \/ EndTerminateProcess \/ BoundaryEventFires
         \/ Interrupt \/ InterruptChild
  PROVE  TypeOK'
<1> USE DEF TypeOK
<1>1. CASE TerminateProcess
  <2>1. ThreadTypes' /\ \A u \in Tokens : Placed(u)'
    BY <1>1 DEF TerminateProcess, ThreadTypes, Placed, threadVars,
       BeginTerminate, Live, Callers
  <2>2. CallTypes'
    BY <1>1 DEF TerminateProcess, CallTypes, callVars, BeginTerminate, Live, Callers
  <2>3. ProcessTypes'
    BY <1>1 DEF TerminateProcess, ProcessTypes, processVars, interruptVars,
       Running, Holding, Ended, BeginTerminate, Live, Callers
  <2> QED BY <2>1, <2>2, <2>3
<1>2. CASE EndTerminateProcess
  <2>1. ThreadTypes' /\ \A u \in Tokens : Placed(u)'
    BY <1>2 DEF EndTerminateProcess, ThreadTypes, Placed, threadVars
  <2>2. CallTypes'
    BY <1>2 DEF EndTerminateProcess, CallTypes, callVars
  <2>3. ProcessTypes'
    BY <1>2 DEF EndTerminateProcess, ProcessTypes, processVars, interruptVars,
       Running, Holding, Ended
  <2> QED BY <2>1, <2>2, <2>3
<1>3. CASE BoundaryEventFires
  <2>1. ThreadTypes' /\ \A u \in Tokens : Placed(u)'
    BY <1>3 DEF BoundaryEventFires, ThreadTypes, Placed, threadVars
  <2>2. CallTypes'
    BY <1>3 DEF BoundaryEventFires, CallTypes, callVars
  <2>3. ProcessTypes'
    BY <1>3 DEF BoundaryEventFires, ProcessTypes, processVars, interruptVars,
       Running, Holding, Ended
  <2> QED BY <2>1, <2>2, <2>3
<1>4. CASE Interrupt
  <2>1. ThreadTypes' /\ \A u \in Tokens : Placed(u)'
    BY <1>4 DEF Interrupt, ThreadTypes, Placed, threadVars, Live
  <2>2. CallTypes'
    BY <1>4 DEF Interrupt, CallTypes, callVars, Live
  <2>3. marks' \subseteq Tokens \X Nodes
    BY <1>4 DEF Interrupt, ActiveNodes, PunchedIn, Live, Placed
  <2>4. ProcessTypes'
    BY <1>4, <2>3 DEF Interrupt, ProcessTypes, processVars
  <2> QED BY <2>1, <2>2, <2>4
<1>5. CASE InterruptChild
  <2>1. ThreadTypes' /\ \A u \in Tokens : Placed(u)'
    BY <1>5 DEF InterruptChild, ThreadTypes, Placed, threadVars
  <2>2. CallTypes'
    BY <1>5 DEF InterruptChild, CallTypes, callVars
  <2>3. ProcessTypes'
    BY <1>5 DEF InterruptChild, ProcessTypes, processVars, interruptVars,
       Running, Holding, Ended
  <2> QED BY <2>1, <2>2, <2>3
<1> QED
  BY <1>1, <1>2, <1>3, <1>4, <1>5

\* A step that changes nothing keeps the types.
LEMMA TypeStutter ==
  ASSUME TypeOK, UNCHANGED vars
  PROVE  TypeOK'
  BY DEF TypeOK, ThreadTypes, CallTypes, ProcessTypes, Placed, vars, threadVars,
         callVars, processVars, interruptVars

\* Every step keeps the types.
LEMMA TypeStep ==
  ASSUME TypeOK, [Next]_vars
  PROVE  TypeOK'
<1>1. CASE \E t \in Tokens : TokenStep(t)
  BY <1>1, TypeToken
<1>2. CASE \E c \in Callers : CallerStep(c)
  BY <1>2, TypeCaller
<1>3. CASE OverwatchStep
  BY <1>3, TypeOverwatch
<1>4. CASE TerminateProcess \/ EndTerminateProcess \/ BoundaryEventFires
           \/ Interrupt \/ InterruptChild
  BY <1>4, TypeOutside
<1>5. CASE UNCHANGED vars
  BY <1>5, TypeStutter
<1> QED
  BY <1>1, <1>2, <1>3, <1>4, <1>5 DEF Next, Terminated

\* Every variable of the model keeps its type (the declarations of Token,
\* Process and ProcessModelNode), and a running thread is on a node.
THEOREM TypeCorrect == Spec => []TypeOK
  BY TypeInit, TypeStep, PTL DEF Spec

-----------------------------------------------------------------------------
(* The inductive invariant.                                                *)

\* A busy thread is live and has not handed its notification on.
Busy == {"loop", "exec", "follow", "trigger", "publish", "terminate", "push"}

\* With every finished thread's flag down, Live can be read off pc.
LEMMA LiveIs ==
  ASSUME GoneIsDown, GoneIsDown'
  PROVE  /\ Live = {t \in Tokens : pc[t] \notin {"none", "gone"}}
         /\ Live' = {t \in Tokens : pc'[t] \notin {"none", "gone"}}
  BY DEF GoneIsDown, Live, IsTerminated

\* The inductive invariant holds when the process starts.
LEMMA InvInit == Init => OverwatchInv
<1> SUFFICES ASSUME Init PROVE OverwatchInv OBVIOUS
<1>1. TypeOK
  BY TypeInit
<1>2. GoneIsDown /\ SentIsLeaving /\ Accounted
  BY TokenAssumption DEF Init, GoneIsDown, SentIsLeaving, Accounted, InQueue
<1>3. Awaiting /\ SettledEmpty
  BY TokenAssumption DEF Init, Awaiting, SettledEmpty
<1> QED
  BY <1>1, <1>2, <1>3 DEF OverwatchInv

\* A step of a busy thread after which it is still busy, and which touches
\* nothing of the overwatch.
LocalStep(t) ==
  /\ pc[t] \in Busy /\ pc'[t] \in Busy
  /\ \A u \in Tokens : u # t => pc'[u] = pc[u]
  /\ \A u \in Tokens : u # t => active'[u] = active[u]
  /\ UNCHANGED <<op, toEmit, queue, note, lost>>

\* A thread that moves on without ending, or that publishes its end, keeps it.
LEMMA LocalKeeps ==
  ASSUME OverwatchInv, NEW t \in Tokens, LocalStep(t), TypeOK'
  PROVE  OverwatchInv'
<1>1. GoneIsDown'
  BY DEF OverwatchInv, GoneIsDown, LocalStep, Busy
<1>2. /\ Live = {u \in Tokens : pc[u] \notin {"none", "gone"}}
      /\ Live' = {u \in Tokens : pc'[u] \notin {"none", "gone"}}
  BY <1>1, LiveIs DEF OverwatchInv
<1>3. SentIsLeaving'
  <2>1. \A u \in Tokens : InQueue(u)' \/ u = note' => pc'[u] \in {"leave", "gone"}
    BY DEF OverwatchInv, SentIsLeaving, InQueue, LocalStep, Busy
  <2>2. op' = "count" => pc'[note'] = "gone"
    <3>1. op = "count" => note \in Tokens /\ pc[note] = "gone"
      BY DEF OverwatchInv, TypeOK, ProcessTypes, SentIsLeaving
    <3> QED BY <3>1 DEF LocalStep, Busy
  <2> QED BY <2>1, <2>2 DEF OverwatchInv, SentIsLeaving, LocalStep
<1>4. Accounted'
  BY DEF OverwatchInv, Accounted, InQueue, LocalStep, Busy
<1>5. t \in Live /\ t \in Live' /\ pc'[t] # "leave"
  BY <1>2 DEF LocalStep, Busy
<1>6. Awaiting'
  BY <1>5 DEF Awaiting, Reporting
<1>7. SettledEmpty'
  BY <1>5 DEF OverwatchInv, SettledEmpty, LocalStep
<1> QED
  BY <1>1, <1>3, <1>4, <1>6, <1>7 DEF OverwatchInv

\* The token steps of that kind.
LEMMA LocalSteps ==
  ASSUME TypeOK, NEW t \in Tokens,
         \/ CheckActive(t) \/ Complete(t) \/ Synchronize(t) \/ GiveUp(t)
         \/ Raise(t) \/ FollowFirst(t) \/ TriggerPort(t) \/ EnterNext(t)
         \/ EndTerminate(t)
  PROVE  LocalStep(t)
<1> USE DEF LocalStep, Busy, TypeOK, ThreadTypes, processVars
<1>1. CASE CheckActive(t) BY <1>1 DEF CheckActive
<1>2. CASE Complete(t) BY <1>2 DEF Complete
<1>3. CASE Synchronize(t) BY <1>3 DEF Synchronize
<1>4. CASE GiveUp(t) BY <1>4 DEF GiveUp
<1>5. CASE Raise(t) BY <1>5 DEF Raise
<1>6. CASE FollowFirst(t) BY <1>6 DEF FollowFirst
<1>7. CASE TriggerPort(t) BY <1>7 DEF TriggerPort
<1>8. CASE EnterNext(t) BY <1>8 DEF EnterNext
<1>9. CASE EndTerminate(t) BY <1>9 DEF EndTerminate
<1> QED
  BY <1>1, <1>2, <1>3, <1>4, <1>5, <1>6, <1>7, <1>8, <1>9

\* A child is emitted by the overwatch while it starts or by a busy thread:
\* the new thread is busy at once.
EmitStep ==
  /\ \/ op = "start"
     \/ \E t \in Tokens : pc[t] \in Busy /\ pc'[t] \in Busy
  /\ \E u \in Tokens :
       /\ pc[u] = "none" /\ pc'[u] = "loop"
       /\ \A v \in Tokens : v # u =>
            pc'[v] = pc[v] \/ (pc[v] \in Busy /\ pc'[v] \in Busy)
       /\ \A v \in Tokens : v # u => active'[v] = active[v]
  /\ UNCHANGED <<op, queue, note, lost>>

\* A token emitted by the start of the process or by a live sibling keeps it.
LEMMA EmitKeeps ==
  ASSUME OverwatchInv, EmitStep, TypeOK'
  PROVE  OverwatchInv'
<1> USE DEF Busy
<1>0. PICK u \in Tokens :
       /\ pc[u] = "none" /\ pc'[u] = "loop"
       /\ \A v \in Tokens : v # u =>
            pc'[v] = pc[v] \/ (pc[v] \in Busy /\ pc'[v] \in Busy)
       /\ \A v \in Tokens : v # u => active'[v] = active[v]
  BY DEF EmitStep
<1>1. GoneIsDown'
  BY <1>0 DEF OverwatchInv, GoneIsDown
<1>2. /\ Live = {v \in Tokens : pc[v] \notin {"none", "gone"}}
      /\ Live' = {v \in Tokens : pc'[v] \notin {"none", "gone"}}
  BY <1>1, LiveIs DEF OverwatchInv
<1>3. SentIsLeaving'
  <2>1. \A v \in Tokens : InQueue(v)' \/ v = note' => pc'[v] \in {"leave", "gone"}
    BY <1>0 DEF OverwatchInv, SentIsLeaving, InQueue, EmitStep
  <2>2. op' = "count" => pc'[note'] = "gone"
    <3>1. op = "count" => note \in Tokens /\ pc[note] = "gone"
      BY DEF OverwatchInv, TypeOK, ProcessTypes, SentIsLeaving
    <3> QED BY <3>1, <1>0 DEF EmitStep
  <2> QED BY <2>1, <2>2 DEF OverwatchInv, SentIsLeaving, EmitStep
<1>4. Accounted'
  BY <1>0 DEF OverwatchInv, Accounted, InQueue, EmitStep
<1>5. u \in Live' /\ pc'[u] # "leave"
  BY <1>0, <1>2
<1>6. Awaiting'
  BY <1>5 DEF Awaiting, Reporting
<1>7. SettledEmpty'
  BY <1>2 DEF OverwatchInv, SettledEmpty, EmitStep
<1> QED
  BY <1>1, <1>3, <1>4, <1>6, <1>7 DEF OverwatchInv

\* The two steps that emit a token.
LEMMA EmitSteps ==
  ASSUME TypeOK, EmitStart \/ \E t \in Tokens : FollowMore(t)
  PROVE  EmitStep
<1> USE DEF EmitStep, Busy, TypeOK, ThreadTypes, processVars, EmitNewToken
<1>1. CASE EmitStart
  BY <1>1 DEF EmitStart
<1>2. ASSUME NEW t \in Tokens, FollowMore(t) PROVE EmitStep
  <2>1. PICK e \in todo[t], u \in Tokens :
             /\ EmitNewToken(u, e[2])
             /\ pc' = [pc EXCEPT ![t] = "trigger", ![u] = "loop"]
    BY <1>2 DEF FollowMore
  <2>2. pc[t] = "follow" /\ u # t /\ pc'[u] = "loop" /\ pc'[t] = "trigger"
    BY <1>2, <2>1 DEF FollowMore
  <2>3. \A v \in Tokens : v # u => active'[v] = active[v]
    BY <2>1
  <2>4. \A v \in Tokens : v # u => v = t \/ pc'[v] = pc[v]
    BY <2>1
  <2>5. UNCHANGED <<op, queue, note, lost>>
    BY <1>2 DEF FollowMore
  <2>6. pc[u] = "none"
    BY <2>1
  <2> QED BY <2>2, <2>3, <2>4, <2>5, <2>6
<1> QED BY <1>1, <1>2

\* Steps that leave the overwatch alone and may only take a flag down.
QuietStep ==
  /\ \A u \in Tokens : active'[u] => active[u]
  /\ UNCHANGED <<pc, op, toEmit, queue, note, lost>>

\* A step that moves no thread, no notification and not the overwatch keeps it.
LEMMA QuietKeeps ==
  ASSUME OverwatchInv, QuietStep, TypeOK'
  PROVE  OverwatchInv'
<1>1. GoneIsDown'
  BY DEF OverwatchInv, GoneIsDown, QuietStep, TypeOK, ThreadTypes
<1>2. /\ Live = {u \in Tokens : pc[u] \notin {"none", "gone"}}
      /\ Live' = {u \in Tokens : pc'[u] \notin {"none", "gone"}}
  BY <1>1, LiveIs DEF OverwatchInv
<1>3. Live' = Live
  BY <1>2 DEF QuietStep
<1>4. SentIsLeaving' /\ Accounted'
  BY DEF OverwatchInv, SentIsLeaving, Accounted, InQueue, QuietStep
<1>5. Awaiting' /\ SettledEmpty'
  BY <1>3 DEF OverwatchInv, Awaiting, Reporting, SettledEmpty, QuietStep
<1> QED
  BY <1>1, <1>4, <1>5 DEF OverwatchInv

\* The steps of that kind: terminations and interruptions under way.
LEMMA QuietSteps ==
  ASSUME TypeOK,
         \/ \E c \in Callers : CallerStep(c)
         \/ TerminateProcess \/ EndTerminateProcess
         \/ BoundaryEventFires \/ Interrupt \/ InterruptChild
         \/ UNCHANGED vars
  PROVE  QuietStep
<1> USE DEF QuietStep, threadVars, processVars
<1>1. ASSUME NEW c \in Callers, TerminateChild(c) PROVE QuietStep
  BY <1>1 DEF TerminateChild, TypeOK, ThreadTypes
<1>2. ASSUME NEW c \in Callers, JoinChild(c) PROVE QuietStep
  BY <1>2 DEF JoinChild
<1>3. CASE TerminateProcess BY <1>3 DEF TerminateProcess
<1>4. CASE EndTerminateProcess BY <1>4 DEF EndTerminateProcess
<1>5. CASE BoundaryEventFires BY <1>5 DEF BoundaryEventFires
<1>6. CASE Interrupt BY <1>6 DEF Interrupt
<1>7. CASE InterruptChild BY <1>7 DEF InterruptChild
<1>8. CASE UNCHANGED vars BY <1>8 DEF vars
<1> QED
  BY <1>1, <1>2, <1>3, <1>4, <1>5, <1>6, <1>7, <1>8 DEF CallerStep

\* A thread hands its notification to the queue, or fails to.
LEMMA LeaveKeeps ==
  ASSUME OverwatchInv, NEW t \in Tokens, TypeOK',
         pc[t] \in Busy, pc' = [pc EXCEPT ![t] = "leave"],
         UNCHANGED <<active, op, toEmit, note>>,
         \/ op \in Ended /\ UNCHANGED <<queue, lost>>
         \/ lost' = lost \cup {t} /\ UNCHANGED queue
         \/ queue' = Append(queue, t) /\ UNCHANGED lost
  PROVE  OverwatchInv'
<1> USE DEF Busy
<1>0. pc'[t] = "leave" /\ \A u \in Tokens : u # t => pc'[u] = pc[u]
  BY DEF OverwatchInv, TypeOK, ThreadTypes
<1>1. GoneIsDown'
  BY <1>0 DEF OverwatchInv, GoneIsDown
<1>2. /\ Live = {u \in Tokens : pc[u] \notin {"none", "gone"}}
      /\ Live' = {u \in Tokens : pc'[u] \notin {"none", "gone"}}
  BY <1>1, LiveIs DEF OverwatchInv
<1>3. queue \in Seq(Tokens)
  BY DEF OverwatchInv, TypeOK, ProcessTypes
<1>4. /\ \A u \in Tokens : InQueue(u)' <=> InQueue(u) \/ (u = t /\ queue' # queue)
      /\ queue # <<>> => queue' # <<>>
  <2>1. CASE UNCHANGED queue
    BY <2>1 DEF InQueue
  <2>2. CASE queue' = Append(queue, t)
    <3>1. /\ Len(queue') = Len(queue) + 1 /\ Len(queue) \in Nat
          /\ queue'[Len(queue) + 1] = t
          /\ \A i \in 1..Len(queue) : queue'[i] = queue[i]
      BY <2>2, <1>3
    <3> QED BY <3>1 DEF InQueue
  <2> QED BY <2>1, <2>2
<1>5. SentIsLeaving'
  <2>1. \A u \in Tokens : InQueue(u)' \/ u = note' => pc'[u] \in {"leave", "gone"}
    BY <1>0, <1>4 DEF OverwatchInv, SentIsLeaving
  <2>2. op = "count" => note \in Tokens /\ pc[note] = "gone"
    BY DEF OverwatchInv, TypeOK, ProcessTypes, SentIsLeaving
  <2> QED BY <2>1, <2>2, <1>0 DEF OverwatchInv, SentIsLeaving
<1>6. t \in lost' \/ InQueue(t)' \/ op \in Ended
  <2>1. CASE queue' = Append(queue, t)
    <3>1. Len(queue') = Len(queue) + 1 /\ Len(queue) \in Nat
      BY <2>1, <1>3
    <3> QED BY <3>1, <1>4
  <2> QED BY <2>1
<1>7. Accounted'
  BY <1>0, <1>4, <1>6 DEF OverwatchInv, Accounted
<1>8. op \in Ended \/ queue' # <<>> \/ lost' # {}
  BY <1>6, <1>3 DEF InQueue
<1>9. Awaiting'
  BY <1>8 DEF Awaiting, Ended
<1>10. SettledEmpty'
  BY <1>2, <1>0 DEF OverwatchInv, SettledEmpty
<1> QED
  BY <1>1, <1>5, <1>7, <1>9, <1>10 DEF OverwatchInv

\* A thread that ends keeps it: its notification is accounted for already.
LEMMA ExitKeeps ==
  ASSUME OverwatchInv, NEW t \in Tokens, Exit(t), TypeOK'
  PROVE  OverwatchInv'
<1>0. /\ pc[t] = "leave" /\ pc'[t] = "gone" /\ ~active'[t]
      /\ \A u \in Tokens : u # t => pc'[u] = pc[u] /\ active'[u] = active[u]
      /\ UNCHANGED <<op, toEmit, queue, note, lost>>
  BY DEF OverwatchInv, TypeOK, ThreadTypes, Exit, processVars
<1>1. GoneIsDown'
  BY <1>0 DEF OverwatchInv, GoneIsDown
<1>2. /\ Live = {u \in Tokens : pc[u] \notin {"none", "gone"}}
      /\ Live' = {u \in Tokens : pc'[u] \notin {"none", "gone"}}
  BY <1>1, LiveIs DEF OverwatchInv
<1>3. SentIsLeaving'
  <2>1. op = "count" => note \in Tokens /\ pc[note] = "gone"
    BY DEF OverwatchInv, TypeOK, ProcessTypes, SentIsLeaving
  <2> QED BY <1>0, <2>1 DEF OverwatchInv, SentIsLeaving, InQueue
<1>4. Accounted'
  BY <1>0 DEF OverwatchInv, Accounted, InQueue
<1>5. Reporting' = Reporting
  BY <1>0, <1>2 DEF Reporting
<1>6. Awaiting'
  BY <1>0, <1>5 DEF OverwatchInv, Awaiting
<1>7. SettledEmpty'
  BY <1>0, <1>2 DEF OverwatchInv, SettledEmpty
<1> QED
  BY <1>1, <1>3, <1>4, <1>6, <1>7 DEF OverwatchInv

\* The steps of the overwatch, which leave the threads alone.
LEMMA OverwatchKeeps ==
  ASSUME OverwatchInv, OverwatchStep, ~EmitStart, TypeOK'
  PROVE  OverwatchInv'
<1> USE DEF threadVars
<1>0. UNCHANGED <<pc, active, lost>>
  BY DEF OverwatchStep, EndStart, ReadEndEvents, WakeUp, Unlock,
         TakeNotification, AwaitSender, CountChildren, Settle, Throw
<1>1. GoneIsDown'
  BY <1>0 DEF OverwatchInv, GoneIsDown
<1>2. /\ Live = {u \in Tokens : pc[u] \notin {"none", "gone"}}
      /\ Live' = Live
  BY <1>0, <1>1, LiveIs DEF OverwatchInv
<1>3. Reporting' = Reporting
  BY <1>0, <1>2 DEF Reporting
<1>4. queue \in Seq(Tokens) /\ note \in Tokens \cup {NoToken}
  BY DEF OverwatchInv, TypeOK, ProcessTypes
<1>5. CASE EndStart \/ ReadEndEvents \/ WakeUp \/ Unlock \/ Settle
  <2>1. UNCHANGED <<queue, note>>
    BY <1>5 DEF EndStart, ReadEndEvents, WakeUp, Unlock, Settle
  <2>2. SentIsLeaving'
    BY <1>0, <1>5, <2>1 DEF OverwatchInv, SentIsLeaving, InQueue, EndStart,
       ReadEndEvents, WakeUp, Unlock, Settle
  <2>3. Accounted'
    BY <1>0, <1>5, <2>1 DEF OverwatchInv, Accounted, InQueue, EndStart,
       ReadEndEvents, WakeUp, Unlock, Settle, Ended
  <2>4. Awaiting'
    BY <1>0, <1>3, <1>5, <2>1 DEF OverwatchInv, Awaiting, EndStart,
       ReadEndEvents, WakeUp, Unlock, Settle
  <2>5. SettledEmpty'
    BY <1>2, <1>5 DEF OverwatchInv, SettledEmpty, EndStart, ReadEndEvents,
       WakeUp, Unlock, Settle
  <2> QED BY <1>1, <2>2, <2>3, <2>4, <2>5 DEF OverwatchInv
<1>6. CASE TakeNotification
  <2>1. /\ note = NoToken /\ op = "take" /\ op' = "await"
        /\ note' = Head(queue) /\ queue' = Tail(queue) /\ queue # <<>>
    BY <1>6 DEF OverwatchInv, SentIsLeaving, TakeNotification
  <2>2. /\ Len(queue) \in Nat /\ Len(queue) >= 1
        /\ note' = queue[1] /\ Len(queue') = Len(queue) - 1
        /\ \A i \in 1..(Len(queue) - 1) : queue'[i] = queue[i + 1]
    BY <1>4, <2>1
  <2>3. \A u \in Tokens : InQueue(u) <=> InQueue(u)' \/ u = note'
    <3> SUFFICES ASSUME NEW u \in Tokens
                 PROVE InQueue(u) <=> InQueue(u)' \/ u = note'
      OBVIOUS
    <3>1. ASSUME InQueue(u) PROVE InQueue(u)' \/ u = note'
      <4>1. PICK i \in 1..Len(queue) : queue[i] = u
        BY <3>1 DEF InQueue
      <4>2. CASE i = 1
        BY <4>1, <4>2, <2>2
      <4>3. CASE i # 1
        <5>1. i - 1 \in 1..(Len(queue) - 1) /\ (i - 1) + 1 = i
          BY <4>3, <2>2
        <5>2. queue'[i - 1] = u
          BY <5>1, <4>1, <2>2
        <5> QED BY <5>1, <5>2, <2>2 DEF InQueue
      <4> QED BY <4>2, <4>3
    <3>2. ASSUME InQueue(u)' PROVE InQueue(u)
      <4>1. PICK i \in 1..(Len(queue) - 1) : queue'[i] = u
        BY <3>2, <2>2 DEF InQueue
      <4>2. i + 1 \in 1..Len(queue) /\ queue[i + 1] = u
        BY <4>1, <2>2
      <4> QED BY <4>2 DEF InQueue
    <3>3. ASSUME u = note' PROVE InQueue(u)
      BY <3>3, <2>2 DEF InQueue
    <3> QED BY <3>1, <3>2, <3>3
  <2>4. note' # NoToken
    BY <2>2, <1>4, <2>1, TokenAssumption
  <2>5. SentIsLeaving'
    BY <1>0, <2>1, <2>3, <2>4 DEF OverwatchInv, SentIsLeaving
  <2>6. Accounted'
    BY <1>0, <2>1, <2>3, TokenAssumption DEF OverwatchInv, Accounted, Ended
  <2>7. Awaiting' /\ SettledEmpty'
    BY <2>1 DEF Awaiting, SettledEmpty
  <2> QED BY <1>1, <2>5, <2>6, <2>7 DEF OverwatchInv
<1>7. CASE AwaitSender
  <2>1. /\ op = "await" /\ op' \in {"fail", "count"} /\ note \notin Live
        /\ UNCHANGED <<queue, note>>
    BY <1>7 DEF AwaitSender
  <2>2. note \in Tokens /\ pc[note] = "gone"
    BY <2>1, <1>2, <1>4 DEF OverwatchInv, SentIsLeaving
  <2>3. SentIsLeaving'
    BY <1>0, <2>1, <2>2, TokenAssumption DEF OverwatchInv, SentIsLeaving, InQueue
  <2>4. Accounted'
    BY <1>0, <2>1 DEF OverwatchInv, Accounted, InQueue, Ended
  <2>5. Awaiting' /\ SettledEmpty'
    BY <2>1 DEF Awaiting, SettledEmpty
  <2> QED BY <1>1, <2>3, <2>4, <2>5 DEF OverwatchInv
<1>8. CASE CountChildren
  <2>1. /\ op = "count" /\ note' = NoToken /\ UNCHANGED queue
        /\ op' = IF Live = {} THEN "settle" ELSE "take"
    BY <1>8 DEF CountChildren
  <2>2. note \in Tokens /\ pc[note] = "gone"
    BY <2>1, <1>4 DEF OverwatchInv, SentIsLeaving
  <2>3. SentIsLeaving'
    BY <1>0, <2>1, TokenAssumption DEF OverwatchInv, SentIsLeaving, InQueue
  <2>4. Accounted'
    BY <1>0, <2>1, <2>2 DEF OverwatchInv, Accounted, InQueue, Ended
  <2>5. Awaiting'
    <3>1. SUFFICES ASSUME Live # {}, Reporting = {}, lost = {}
                   PROVE queue # <<>>
      BY <1>0, <1>3, <2>1 DEF Awaiting
    <3>2. PICK u \in Tokens : pc[u] = "leave"
      BY <1>2, <3>1 DEF Reporting
    <3>3. InQueue(u)
      BY <2>1, <2>2, <3>1, <3>2 DEF OverwatchInv, Accounted, Ended
    <3> QED BY <3>3, <1>4 DEF InQueue
  <2>6. SettledEmpty'
    BY <2>1, <1>2 DEF SettledEmpty
  <2> QED BY <1>1, <2>3, <2>4, <2>5, <2>6 DEF OverwatchInv
<1>9. CASE Throw
  <2>1. op' = "threw" /\ note' = NoToken /\ UNCHANGED queue
    BY <1>9 DEF Throw
  <2>2. SentIsLeaving'
    BY <1>0, <2>1, TokenAssumption DEF OverwatchInv, SentIsLeaving, InQueue
  <2>3. Accounted' /\ Awaiting' /\ SettledEmpty'
    BY <2>1 DEF Accounted, Awaiting, SettledEmpty, Ended
  <2> QED BY <1>1, <2>2, <2>3 DEF OverwatchInv
<1> QED
  BY <1>5, <1>6, <1>7, <1>8, <1>9 DEF OverwatchStep

\* Every token step keeps the invariant.
LEMMA InvToken ==
  ASSUME OverwatchInv, NEW t \in Tokens, TokenStep(t), TypeOK'
  PROVE  OverwatchInv'
<1>0. TypeOK
  BY DEF OverwatchInv
<1>1. CASE \/ CheckActive(t) \/ Complete(t) \/ Synchronize(t) \/ GiveUp(t)
           \/ Raise(t) \/ FollowFirst(t) \/ TriggerPort(t) \/ EnterNext(t)
           \/ EndTerminate(t)
  BY <1>0, <1>1, LocalSteps, LocalKeeps
<1>2. CASE FollowMore(t)
  BY <1>0, <1>2, EmitSteps, EmitKeeps
<1>3. CASE Publish(t)
  <2>1. /\ pc[t] = "publish"
        /\ UNCHANGED <<active, op, toEmit, queue, note>>
        /\ pc \in [Tokens -> {"none", "loop", "exec", "follow", "trigger",
                              "publish", "terminate", "push", "leave", "gone"}]
    BY <1>0, <1>3 DEF Publish, processVars, TypeOK, ThreadTypes
  <2>2. \/ /\ pc' = [pc EXCEPT ![t] = "terminate"] \/ pc' = [pc EXCEPT ![t] = "push"]
           /\ UNCHANGED lost
        \/ /\ pc' = [pc EXCEPT ![t] = "leave"]
           /\ (op \in Ended /\ UNCHANGED lost) \/ lost' = lost \cup {t}
    BY <1>3 DEF Publish
  <2>3. CASE pc' = [pc EXCEPT ![t] = "leave"]
    BY <2>1, <2>2, <2>3, LeaveKeeps DEF Busy
  <2>4. CASE /\ pc' = [pc EXCEPT ![t] = "terminate"] \/ pc' = [pc EXCEPT ![t] = "push"]
             /\ UNCHANGED lost
    <3>1. LocalStep(t)
      BY <2>1, <2>4 DEF LocalStep, Busy
    <3> QED BY <3>1, LocalKeeps
  <2> QED BY <2>2, <2>3, <2>4
<1>4. CASE Push(t)
  <2>1. /\ pc[t] = "push" /\ pc' = [pc EXCEPT ![t] = "leave"]
        /\ UNCHANGED <<active, op, toEmit, note, lost>>
        /\ queue' = Append(queue, t)
    BY <1>4 DEF Push
  <2> QED BY <2>1, LeaveKeeps DEF Busy
<1>5. CASE Exit(t)
  BY <1>5, ExitKeeps
<1> QED
  BY <1>1, <1>2, <1>3, <1>4, <1>5 DEF TokenStep

\* Every step keeps the invariant.
LEMMA InvStep ==
  ASSUME OverwatchInv, [Next]_vars
  PROVE  OverwatchInv'
<1>0. TypeOK /\ TypeOK'
  BY TypeStep DEF OverwatchInv
<1>1. CASE \E t \in Tokens : TokenStep(t)
  BY <1>0, <1>1, InvToken
<1>2. CASE EmitStart
  BY <1>0, <1>2, EmitSteps, EmitKeeps
<1>3. CASE OverwatchStep /\ ~EmitStart
  BY <1>0, <1>3, OverwatchKeeps
<1>4. CASE \/ \E c \in Callers : CallerStep(c)
           \/ TerminateProcess \/ EndTerminateProcess
           \/ BoundaryEventFires \/ Interrupt \/ InterruptChild
           \/ UNCHANGED vars
  BY <1>0, <1>4, QuietSteps, QuietKeeps
<1> QED
  BY <1>1, <1>2, <1>3, <1>4 DEF Next, Terminated

\* The inductive invariant: who is on the way out is accounted for in the
\* queue, in the overwatch's hand or among the lost, and a process that has
\* counted no child has none (Process::activity, Model::activeTokenCount-
\* ByProcess, Token::isTerminated).
THEOREM Invariant == Spec => []OverwatchInv
  BY InvInit, InvStep, PTL DEF Spec

\* A process that has returned an outcome has no child left, whatever was
\* emitted, terminated or interrupted on the way (Process::activity 277-303).
THEOREM NoOrphanHolds == Spec => []NoOrphan
<1>1. OverwatchInv => NoOrphan
  BY DEF OverwatchInv, SettledEmpty, NoOrphan
<1> QED
  BY <1>1, Invariant, PTL

\* The overwatch never sleeps for nothing: some child has still to report, or
\* its report is queued, or one was lost (Process::activity 239-272,
\* Process::token_termination_event_callback).
THEOREM NeverStrandedHolds == Spec => []NeverStranded
<1>1. OverwatchInv => NeverStranded
  BY DEF OverwatchInv, Awaiting, Reporting, NeverStranded
<1> QED
  BY <1>1, Invariant, PTL

-----------------------------------------------------------------------------
(* The process keeps the promise of Scope.                                 *)

Gone == {t \in Tokens : IsTerminated(t) /\ pc[t] # "none"}

\* The children that have left are the threads that are over.
LEMMA GoneIs ==
  ASSUME GoneIsDown, GoneIsDown'
  PROVE  /\ Gone = {t \in Tokens : pc[t] = "gone"}
         /\ Gone' = {t \in Tokens : pc'[t] = "gone"}
  BY DEF GoneIsDown, Gone, IsTerminated

\* The process starts as Scope starts.
LEMMA ScopeInit == Init => AbstractScope!Init
  BY DEF Init, AbstractScope!Init, Live, IsTerminated, Stage

\* A thread step that neither starts nor ends a thread.
LEMMA ScopeStutters ==
  ASSUME OverwatchInv, OverwatchInv', Stage' = Stage,
         \A t \in Tokens : \/ pc'[t] = pc[t]
                           \/ /\ pc[t] \notin {"none", "gone"}
                              /\ pc'[t] \notin {"none", "gone"}
  PROVE  UNCHANGED AbstractScope!vars
<1>1. Live' = Live
  BY LiveIs DEF OverwatchInv
<1>2. Gone' = Gone
  BY GoneIs DEF OverwatchInv
<1> QED
  BY <1>1, <1>2 DEF AbstractScope!vars, Gone

\* A token emitted is a child that enters.
LEMMA ScopeEnter ==
  ASSUME OverwatchInv, OverwatchInv', EmitStep
  PROVE  AbstractScope!Next
<1> USE DEF Busy
<1>0. PICK u \in Tokens :
       /\ pc[u] = "none" /\ pc'[u] = "loop"
       /\ \A v \in Tokens : v # u =>
            pc'[v] = pc[v] \/ (pc[v] \in Busy /\ pc'[v] \in Busy)
  BY DEF EmitStep
<1>1. Stage' = Stage
  BY DEF EmitStep, Stage
<1>2. /\ Live = {t \in Tokens : pc[t] \notin {"none", "gone"}}
      /\ Live' = {t \in Tokens : pc'[t] \notin {"none", "gone"}}
      /\ Gone = {t \in Tokens : pc[t] = "gone"}
      /\ Gone' = {t \in Tokens : pc'[t] = "gone"}
  BY LiveIs, GoneIs DEF OverwatchInv
<1>3. u \notin Live \cup Gone /\ Live' = Live \cup {u} /\ Gone' = Gone
  BY <1>0, <1>2
<1>4. Stage = "starting" \/ Live # {}
  BY <1>2 DEF EmitStep, Stage
<1>5. AbstractScope!Enter(u)
  BY <1>1, <1>3, <1>4 DEF AbstractScope!Enter, Gone
<1> QED
  BY <1>5 DEF AbstractScope!Next

\* A thread that ends is a child that leaves.
LEMMA ScopeLeave ==
  ASSUME OverwatchInv, OverwatchInv', NEW t \in Tokens, Exit(t)
  PROVE  AbstractScope!Next
<1>0. /\ pc[t] = "leave" /\ pc'[t] = "gone"
      /\ \A u \in Tokens : u # t => pc'[u] = pc[u]
      /\ Stage' = Stage
  BY DEF OverwatchInv, TypeOK, ThreadTypes, Exit, processVars, Stage
<1>2. /\ Live = {u \in Tokens : pc[u] \notin {"none", "gone"}}
      /\ Live' = {u \in Tokens : pc'[u] \notin {"none", "gone"}}
      /\ Gone = {u \in Tokens : pc[u] = "gone"}
      /\ Gone' = {u \in Tokens : pc'[u] = "gone"}
  BY LiveIs, GoneIs DEF OverwatchInv
<1>3. t \in Live /\ Live' = Live \ {t} /\ Gone' = Gone \cup {t}
  BY <1>0, <1>2
<1>4. AbstractScope!Leave(t)
  BY <1>0, <1>3 DEF AbstractScope!Leave, Gone
<1> QED
  BY <1>4 DEF AbstractScope!Next

\* A step of the overwatch opens, closes or fails the scope, or is none of it.
LEMMA ScopeOverwatch ==
  ASSUME OverwatchInv, OverwatchInv', OverwatchStep, ~EmitStart
  PROVE  [AbstractScope!Next]_AbstractScope!vars
<1> USE DEF threadVars, Stage
<1>0. UNCHANGED <<pc, active>>
  BY DEF OverwatchStep, EndStart, ReadEndEvents, WakeUp, Unlock,
         TakeNotification, AwaitSender, CountChildren, Settle, Throw
<1>1. Live' = Live /\ Gone' = Gone
  BY <1>0, LiveIs, GoneIs DEF OverwatchInv
<1>2. CASE EndStart
  <2>1. AbstractScope!Watch
    BY <1>1, <1>2 DEF EndStart, AbstractScope!Watch, Gone
  <2> QED BY <2>1 DEF AbstractScope!Next
<1>3. CASE Settle
  <2>1. Live = {}
    BY <1>3 DEF Settle, OverwatchInv, SettledEmpty
  <2>2. AbstractScope!Close
    BY <1>1, <1>3, <2>1 DEF Settle, AbstractScope!Close, Gone
  <2> QED BY <2>2 DEF AbstractScope!Next
<1>4. CASE Throw
  <2>1. AbstractScope!Fail
    BY <1>1, <1>4 DEF Throw, AbstractScope!Fail, Gone
  <2> QED BY <2>1 DEF AbstractScope!Next
<1>5. CASE \/ ReadEndEvents \/ WakeUp \/ Unlock \/ TakeNotification
           \/ AwaitSender \/ CountChildren
  <2>1. Stage' = Stage
    BY <1>5 DEF ReadEndEvents, WakeUp, Unlock, TakeNotification, AwaitSender,
       CountChildren
  <2> QED BY <1>0, <2>1, ScopeStutters
<1> QED
  BY <1>2, <1>3, <1>4, <1>5 DEF OverwatchStep

\* Every token step is a step of Scope or a stutter.
LEMMA ScopeToken ==
  ASSUME OverwatchInv, OverwatchInv', NEW t \in Tokens, TokenStep(t)
  PROVE  [AbstractScope!Next]_AbstractScope!vars
<1>0. TypeOK /\ pc \in [Tokens -> {"none", "loop", "exec", "follow", "trigger",
             "publish", "terminate", "push", "leave", "gone"}]
  BY DEF OverwatchInv, TypeOK, ThreadTypes
<1>1. CASE \/ CheckActive(t) \/ Complete(t) \/ Synchronize(t) \/ GiveUp(t)
           \/ Raise(t) \/ FollowFirst(t) \/ TriggerPort(t) \/ EnterNext(t)
           \/ EndTerminate(t)
  <2>1. LocalStep(t)
    BY <1>0, <1>1, LocalSteps
  <2> QED BY <2>1, ScopeStutters DEF LocalStep, Busy, Stage
<1>2. CASE FollowMore(t)
  BY <1>0, <1>2, EmitSteps, ScopeEnter
<1>3. CASE Publish(t) \/ Push(t)
  <2>1. UNCHANGED op /\ pc[t] \in {"publish", "push"}
    BY <1>3 DEF Publish, Push, processVars
  <2>2. \E x \in {"leave", "terminate", "push"} : pc' = [pc EXCEPT ![t] = x]
    BY <1>3 DEF Publish, Push
  <2>3. \A u \in Tokens : \/ pc'[u] = pc[u]
                          \/ /\ pc[u] \notin {"none", "gone"}
                             /\ pc'[u] \notin {"none", "gone"}
    BY <1>0, <2>1, <2>2
  <2> QED BY <2>1, <2>3, ScopeStutters DEF Stage
<1>4. CASE Exit(t)
  BY <1>4, ScopeLeave
<1> QED
  BY <1>1, <1>2, <1>3, <1>4 DEF TokenStep

\* So is every step.
LEMMA ScopeStep ==
  ASSUME OverwatchInv, OverwatchInv', [Next]_vars
  PROVE  [AbstractScope!Next]_AbstractScope!vars
<1>0. TypeOK
  BY DEF OverwatchInv
<1>1. CASE \E t \in Tokens : TokenStep(t)
  BY <1>1, ScopeToken
<1>2. CASE EmitStart
  BY <1>0, <1>2, EmitSteps, ScopeEnter
<1>3. CASE OverwatchStep /\ ~EmitStart
  BY <1>3, ScopeOverwatch
<1>4. CASE \/ \E c \in Callers : CallerStep(c)
           \/ TerminateProcess \/ EndTerminateProcess
           \/ BoundaryEventFires \/ Interrupt \/ InterruptChild
           \/ UNCHANGED vars
  <2>1. QuietStep
    BY <1>0, <1>4, QuietSteps
  <2> QED BY <2>1, ScopeStutters DEF QuietStep, Stage
<1> QED
  BY <1>1, <1>2, <1>3, <1>4 DEF Next, Terminated

\* Seen from outside, a process behaves as Scope says: children enter through
\* its start events or through a live sibling, and it closes only when no
\* child is live (Process::start, Token::followOutputPorts, Process::activity).
THEOREM Refinement == Spec => KeepsScope
<1>1. Init => AbstractScope!Init
  BY ScopeInit
<1>2. OverwatchInv /\ OverwatchInv' /\ [Next]_vars
        => [AbstractScope!Next]_AbstractScope!vars
  BY ScopeStep
<1> QED
  BY <1>1, <1>2, Invariant, PTL DEF Spec, KeepsScope, AbstractScope!Spec

-----------------------------------------------------------------------------
(* No join is missed.                                                      *)

\* The steps of the overwatch, of its terminators and of its interruption move
\* no thread, but for the tokens that are told to stop.
ElseStep ==
  \/ \E c \in Callers : CallerStep(c)
  \/ OverwatchStep /\ ~EmitStart
  \/ TerminateProcess \/ EndTerminateProcess
  \/ BoundaryEventFires \/ Interrupt \/ InterruptChild
  \/ UNCHANGED vars

LEMMA ElseFrame ==
  ASSUME ElseStep
  PROVE  UNCHANGED <<pc, node, todo, next, edge, raised, ports>>
BY DEF ElseStep, CallerStep, TerminateChild, JoinChild, OverwatchStep, EndStart,
       ReadEndEvents, WakeUp, Unlock, TakeNotification, AwaitSender, CountChildren,
       Settle, Throw, TerminateProcess, EndTerminateProcess, BoundaryEventFires,
       Interrupt, InterruptChild, vars, threadVars, callVars

LEMMA NextIs ==
  ASSUME [Next]_vars
  PROVE  (\E t \in Tokens : TokenStep(t)) \/ EmitStart \/ ElseStep
BY DEF Next, ElseStep, Terminated, OverwatchStep

\* A completed node leaves the token with flows of which one into a join is the
\* only one, and the rest of the way keeps this.
LEMMA HeadsStep ==
  ASSUME TypeOK, TypeOK', JoinsFollowedAlone, \A v \in Tokens : HeadsAlone(v), [Next]_vars,
         NEW u \in Tokens
  PROVE  HeadsAlone(u)'
<1>0. ThreadTypes /\ \A v \in Tokens : Placed(v)
  BY DEF TypeOK
<1>00. \A n \in Nodes : n # NoNode
  BY TokenAssumption
<1>1. ASSUME NEW t \in Tokens, TokenStep(t) PROVE HeadsAlone(u)'
  <2> USE <1>0, <1>00 DEF HeadsAlone, ThreadTypes
  <2>1. CASE CheckActive(t)
    BY <2>1 DEF CheckActive
  <2>2. CASE Complete(t)
    <3>1. node[t] \in Nodes
      BY <2>2 DEF Complete, Placed
    <3>2. PICK F \in Departures(node[t]) : todo' = [todo EXCEPT ![t] = F]
      BY <2>2 DEF Complete
    <3>3. \A e \in F : e[2] \in Joins => F = {e}
      BY <3>1, <3>2 DEF JoinsFollowedAlone
    <3> QED BY <2>2, <3>2, <3>3 DEF Complete
  <2>3. CASE Synchronize(t)
    <3>1. node[t] \in Nodes
      BY <2>3 DEF Synchronize, Placed
    <3>2. CASE pc' = [pc EXCEPT ![t] = "follow"]
      <4>1. PICK F \in Followed(node[t]) : todo' = [todo EXCEPT ![t] = F]
        BY <2>3, <3>2 DEF Synchronize
      <4>2. F \in Departures(node[t])
        BY <4>1 DEF Departures, Exits
      <4>3. \A e \in F : e[2] \in Joins => F = {e}
        BY <3>1, <4>2 DEF JoinsFollowedAlone
      <4> QED BY <2>3, <3>2, <4>1, <4>3 DEF Synchronize
    <3>3. CASE pc' = [pc EXCEPT ![t] = "loop"]
      BY <2>3, <3>3 DEF Synchronize
    <3> QED BY <2>3, <3>2, <3>3 DEF Synchronize
  <2>4. CASE GiveUp(t)
    BY <2>4 DEF GiveUp
  <2>5. CASE Raise(t)
    BY <2>5 DEF Raise
  <2>6. CASE FollowFirst(t)
    <3>1. PICK e \in todo[t] : /\ next' = [next EXCEPT ![t] = e[2]]
                               /\ todo' = [todo EXCEPT ![t] = @ \ {e}]
      BY <2>6 DEF FollowFirst
    <3>2. \A f \in todo[t] : f[2] \in Joins => todo[t] = {f}
      BY <2>6 DEF FollowFirst
    <3>3. \A f \in todo[t] \ {e} : f[2] \notin Joins
      BY <3>2
    <3> QED BY <2>6, <3>1, <3>3 DEF FollowFirst
  <2>7. CASE FollowMore(t)
    BY <2>7 DEF FollowMore, EmitNewToken
  <2>8. CASE TriggerPort(t)
    BY <2>8 DEF TriggerPort
  <2>9. CASE EnterNext(t)
    BY <2>9 DEF EnterNext
  <2>10. CASE Publish(t)
    BY <2>10 DEF Publish
  <2>11. CASE EndTerminate(t)
    BY <2>11 DEF EndTerminate
  <2>12. CASE Push(t)
    BY <2>12 DEF Push
  <2>13. CASE Exit(t)
    BY <2>13 DEF Exit
  <2> QED
    BY <1>1, <2>1, <2>2, <2>3, <2>4, <2>5, <2>6, <2>7, <2>8, <2>9, <2>10, <2>11,
       <2>12, <2>13 DEF TokenStep
<1>2. CASE EmitStart
  BY <1>0, <1>2 DEF EmitStart, EmitNewToken, HeadsAlone, ThreadTypes
<1>3. CASE ElseStep
  BY <1>3, ElseFrame DEF HeadsAlone
<1> QED BY <1>1, <1>2, <1>3, NextIs

\* A disturbance leaves a trace that stays.
LEMMA DisturbedStays ==
  ASSUME TypeOK, [Next]_vars, Disturbed
  PROVE  Disturbed'
<1>0. ThreadTypes
  BY DEF TypeOK
<1> USE DEF Disturbed
<1>1. CASE outside # "idle"
  <2>1. outside' # "idle"
    BY <1>1 DEF Next, TokenStep, CheckActive, Complete, Synchronize, GiveUp, Raise,
       FollowFirst, FollowMore, TriggerPort, EnterNext, Publish, EndTerminate, Push,
       Exit, CallerStep, TerminateChild, JoinChild, OverwatchStep, EmitStart,
       EndStart, ReadEndEvents, WakeUp, Unlock, TakeNotification, AwaitSender,
       CountChildren, Settle, Throw, TerminateProcess, EndTerminateProcess,
       BoundaryEventFires, Interrupt, InterruptChild, Terminated, vars, callVars
  <2> QED BY <2>1
<1>2. CASE interrupted
  <2>1. interrupted'
    BY <1>2 DEF Next, TokenStep, CheckActive, Complete, Synchronize, GiveUp, Raise,
       FollowFirst, FollowMore, TriggerPort, EnterNext, Publish, EndTerminate, Push,
       Exit, CallerStep, TerminateChild, JoinChild, OverwatchStep, EmitStart,
       EndStart, ReadEndEvents, WakeUp, Unlock, TakeNotification, AwaitSender,
       CountChildren, Settle, Throw, TerminateProcess, EndTerminateProcess,
       BoundaryEventFires, Interrupt, InterruptChild, Terminated, vars, interruptVars
  <2> QED BY <2>1
<1>3. ASSUME NEW t \in Tokens, raised[t] PROVE raised'[t]
  BY <1>0, <1>3 DEF Next, TokenStep, CheckActive, Complete, Synchronize, GiveUp,
     Raise, FollowFirst, FollowMore, TriggerPort, EnterNext, Publish, EndTerminate,
     Push, Exit, CallerStep, TerminateChild, JoinChild, OverwatchStep, EmitStart,
     EndStart, ReadEndEvents, WakeUp, Unlock, TakeNotification, AwaitSender,
     CountChildren, Settle, Throw, TerminateProcess, EndTerminateProcess,
     BoundaryEventFires, Interrupt, InterruptChild, Terminated, vars, threadVars,
     ThreadTypes
<1>4. ASSUME NEW t \in Tokens, pc[t] \in {"terminate", "push", "leave", "gone"}
      PROVE  node'[t] = node[t] /\ pc'[t] \in {"terminate", "push", "leave", "gone"}
  <2>1. ASSUME NEW u \in Tokens, TokenStep(u)
        PROVE  node'[t] = node[t] /\ pc'[t] \in {"terminate", "push", "leave", "gone"}
    <3> USE <1>0, <1>4 DEF ThreadTypes
    <3>1. CASE CheckActive(u)
      BY <3>1 DEF CheckActive
    <3>2. CASE Complete(u)
      BY <3>2 DEF Complete
    <3>3. CASE Synchronize(u)
      BY <3>3 DEF Synchronize
    <3>4. CASE GiveUp(u)
      BY <3>4 DEF GiveUp
    <3>5. CASE Raise(u)
      BY <3>5 DEF Raise
    <3>6. CASE FollowFirst(u)
      BY <3>6 DEF FollowFirst
    <3>7. CASE FollowMore(u)
      BY <3>7 DEF FollowMore, EmitNewToken
    <3>8. CASE TriggerPort(u)
      BY <3>8 DEF TriggerPort
    <3>9. CASE EnterNext(u)
      BY <3>9 DEF EnterNext
    <3>10. CASE Publish(u)
      BY <3>10 DEF Publish
    <3>11. CASE EndTerminate(u)
      BY <3>11 DEF EndTerminate
    <3>12. CASE Push(u)
      BY <3>12 DEF Push
    <3>13. CASE Exit(u)
      BY <3>13 DEF Exit
    <3> QED
      BY <2>1, <3>1, <3>2, <3>3, <3>4, <3>5, <3>6, <3>7, <3>8, <3>9, <3>10, <3>11,
         <3>12, <3>13 DEF TokenStep
  <2>2. CASE EmitStart
    BY <1>0, <1>4, <2>2 DEF EmitStart, EmitNewToken, ThreadTypes
  <2>3. CASE ElseStep
    BY <1>4, <2>3, ElseFrame
  <2> QED BY <2>1, <2>2, <2>3, NextIs
<1> QED BY <1>1, <1>2, <1>3, <1>4

\* Only a disturbance asks anybody to stop.
LEMMA CalmStep ==
  ASSUME OverwatchInv, [Next]_vars, Calm, ~Disturbed'
  PROVE  Calm'
<1>0. TypeOK /\ ThreadTypes /\ CallTypes /\ SentIsLeaving
  BY DEF OverwatchInv, TypeOK
<1> USE DEF Calm
<1>1. ASSUME NEW t \in Tokens, TokenStep(t) PROVE Calm'
  <2>1. CASE Publish(t)
    <3>1. CASE BeginTerminate(t) /\ pc' = [pc EXCEPT ![t] = "terminate"]
      <4>1. node'[t] \in Terminators /\ pc'[t] = "terminate"
        BY <1>0, <2>1, <3>1 DEF Publish, ThreadTypes
      <4> QED BY <4>1 DEF Disturbed
    <3>2. CASE UNCHANGED sweep
      BY <2>1, <3>2 DEF Publish, interruptVars
    <3> QED BY <2>1, <3>1, <3>2 DEF Publish
  <2>2. CASE ~Publish(t) /\ ~EnterNext(t)
    BY <1>1, <2>2 DEF TokenStep, CheckActive, Complete, Synchronize, GiveUp, Raise,
       FollowFirst, FollowMore, TriggerPort, EndTerminate, Push, Exit, callVars,
       interruptVars
  <2>3. CASE EnterNext(t)
    <3>1. \A u \in Tokens : ~hit'[u]
      BY <1>0, <2>3 DEF EnterNext, ThreadTypes
    <3> QED BY <2>3, <3>1 DEF EnterNext, callVars, interruptVars
  <2> QED BY <2>1, <2>2, <2>3
<1>2. CASE EmitStart
  BY <1>2 DEF EmitStart, callVars, interruptVars
<1>3. CASE ElseStep
  <2>1. CASE AwaitSender
    <3>1. note \in Tokens
      BY <1>0, <2>1 DEF AwaitSender, SentIsLeaving, OverwatchInv, TypeOK,
         ProcessTypes
    <3>2. ~raised[note]
      BY <2>1, <3>1 DEF AwaitSender, Disturbed, threadVars
    <3> QED BY <2>1, <3>2 DEF AwaitSender, threadVars, interruptVars
  <2>2. CASE \E c \in Callers : CallerStep(c)
    BY <2>2 DEF CallerStep, TerminateChild, JoinChild
  <2>3. CASE TerminateProcess
    BY <2>3 DEF TerminateProcess, Disturbed
  <2>4. CASE Interrupt
    BY <2>4 DEF Interrupt, Disturbed
  <2>5. CASE InterruptChild
    BY <2>5 DEF InterruptChild
  <2>6. CASE OverwatchStep /\ ~EmitStart /\ ~AwaitSender
    BY <2>6 DEF OverwatchStep, EndStart, ReadEndEvents, WakeUp, Unlock,
       TakeNotification, CountChildren, Settle, Throw, threadVars, callVars,
       interruptVars
  <2>7. CASE EndTerminateProcess \/ BoundaryEventFires \/ UNCHANGED vars
    BY <2>7 DEF EndTerminateProcess, BoundaryEventFires, vars, threadVars, callVars,
       interruptVars
  <2> QED BY <1>3, <2>1, <2>2, <2>3, <2>4, <2>5, <2>6, <2>7 DEF ElseStep
<1> QED BY <1>1, <1>2, <1>3, NextIs

\* Nor takes anybody else a token's flag down.
LEMMA CalmFrame ==
  ASSUME Calm, ElseStep
  PROVE  UNCHANGED <<pc, active, node, todo, next, edge, ports>>
<1>1. UNCHANGED active
  BY DEF Calm, ElseStep, CallerStep, TerminateChild, JoinChild, OverwatchStep,
         EndStart, ReadEndEvents, WakeUp, Unlock, TakeNotification, AwaitSender,
         CountChildren, Settle, Throw, TerminateProcess, EndTerminateProcess,
         BoundaryEventFires, Interrupt, InterruptChild, vars, threadVars, callVars
<1> QED BY <1>1, ElseFrame

AtWork(u) == pc[u] \in {"exec", "follow", "trigger"} => active[u]

LEMMA AtWorkStep ==
  ASSUME TypeOK, [Next]_vars, Calm, \A v \in Tokens : AtWork(v), NEW u \in Tokens
  PROVE  AtWork(u)'
<1>0. ThreadTypes
  BY DEF TypeOK
<1>1. ASSUME NEW t \in Tokens, TokenStep(t) PROVE AtWork(u)'
  <2> USE <1>0 DEF AtWork, ThreadTypes
  <2>1. CASE CheckActive(t)
    BY <2>1 DEF CheckActive
  <2>2. CASE Complete(t)
    BY <2>2 DEF Complete
  <2>3. CASE Synchronize(t)
    BY <2>3 DEF Synchronize
  <2>4. CASE GiveUp(t)
    BY <2>4 DEF GiveUp
  <2>5. CASE Raise(t)
    BY <2>5 DEF Raise
  <2>6. CASE FollowFirst(t)
    BY <2>6 DEF FollowFirst
  <2>7. CASE FollowMore(t)
    BY <2>7 DEF FollowMore, EmitNewToken
  <2>8. CASE TriggerPort(t)
    BY <2>8 DEF TriggerPort
  <2>9. CASE EnterNext(t)
    BY <2>9 DEF EnterNext
  <2>10. CASE Publish(t)
    BY <2>10 DEF Publish
  <2>11. CASE EndTerminate(t)
    BY <2>11 DEF EndTerminate
  <2>12. CASE Push(t)
    BY <2>12 DEF Push
  <2>13. CASE Exit(t)
    BY <2>13 DEF Exit
  <2> QED
    BY <1>1, <2>1, <2>2, <2>3, <2>4, <2>5, <2>6, <2>7, <2>8, <2>9, <2>10, <2>11,
       <2>12, <2>13 DEF TokenStep
<1>2. CASE EmitStart
  BY <1>0, <1>2 DEF EmitStart, EmitNewToken, AtWork, ThreadTypes
<1>3. CASE ElseStep
  BY <1>3, CalmFrame DEF AtWork
<1> QED BY <1>1, <1>2, <1>3, NextIs

\* A step that does not trigger a port of the join and leaves who is on its way
\* on its way.
LEMMA ArriveKept ==
  ASSUME NEW j \in Joins, AllOn(j) => \E u \in Tokens : Arriving(u, j),
         AllOn(j)' => AllOn(j), \A u \in Tokens : Arriving(u, j) => Arriving(u, j)'
  PROVE  AllOn(j)' => \E u \in Tokens : Arriving(u, j)'
OBVIOUS

LEMMA ArriveStep ==
  ASSUME TypeOK, [Next]_vars, Calm, ~Disturbed', \A v \in Tokens : HeadsAlone(v) /\ AtWork(v),
         NEW j \in Joins, AllOn(j) => \E u \in Tokens : Arriving(u, j)
  PROVE  AllOn(j)' => \E u \in Tokens : Arriving(u, j)'
<1>0. ThreadTypes /\ CallTypes /\ \A v \in Tokens : Placed(v)
  BY DEF TypeOK
<1>00. j \in Nodes /\ j # NoNode
  BY TokenAssumption, WorkflowAssumption
<1>1. ASSUME NEW t \in Tokens, TokenStep(t)
      PROVE  AllOn(j)' => \E u \in Tokens : Arriving(u, j)'
  <2> DEFINE Kept == \A u \in Tokens : Arriving(u, j) => Arriving(u, j)'
  <2>1. CASE CheckActive(t)
    <3>1. Kept
      BY <1>0, <2>1 DEF CheckActive, Arriving, ThreadTypes
    <3>2. UNCHANGED ports
      BY <2>1 DEF CheckActive
    <3> QED BY <3>1, <3>2, ArriveKept DEF AllOn
  <2>2. CASE Complete(t)
    <3>1. Kept
      BY <1>0, <1>00, <2>2 DEF Complete, Arriving, ThreadTypes
    <3>2. UNCHANGED ports
      BY <2>2 DEF Complete
    <3> QED BY <3>1, <3>2, ArriveKept DEF AllOn
  <2>3. CASE Synchronize(t)
    <3>1. CASE node[t] = j
      <4>1. CASE ports' = [ports EXCEPT ![j] = {}]
        <5>1. ports'[j] = {}
          BY <1>0, <4>1 DEF CallTypes
        <5> QED BY <5>1 DEF AllOn
      <4>2. CASE ~ (InputPorts(j) \subseteq ports[j]) /\ UNCHANGED ports
        BY <4>2 DEF AllOn
      <4> QED BY <2>3, <3>1, <4>1, <4>2 DEF Synchronize
    <3>2. CASE node[t] # j
      <4>1. ports'[j] = ports[j]
        BY <1>0, <2>3, <3>2 DEF Synchronize, CallTypes
      <4>2. Kept
        BY <1>0, <2>3, <3>2 DEF Synchronize, Arriving, ThreadTypes
      <4> QED BY <4>1, <4>2, ArriveKept DEF AllOn
    <3> QED BY <3>1, <3>2
  <2>4. CASE GiveUp(t)
    <3>1. Kept
      BY <1>0, <2>4 DEF GiveUp, Calm, Arriving, ThreadTypes
    <3>2. UNCHANGED ports
      BY <2>4 DEF GiveUp
    <3> QED BY <3>1, <3>2, ArriveKept DEF AllOn
  <2>5. CASE Raise(t)
    <3>1. Kept
      BY <1>0, <2>5 DEF Raise, Disturbed, Arriving, ThreadTypes
    <3>2. UNCHANGED ports
      BY <2>5 DEF Raise
    <3> QED BY <3>1, <3>2, ArriveKept DEF AllOn
  <2>6. CASE FollowFirst(t)
    <3>1. PICK e \in todo[t] : next' = [next EXCEPT ![t] = e[2]] /\ TriggerInputPort(e)
      BY <2>6 DEF FollowFirst
    <3>2. CASE e[2] = j
      <4>1. Arriving(t, j)'
        BY <1>0, <2>6, <3>1, <3>2 DEF FollowFirst, Arriving, ThreadTypes
      <4> QED BY <4>1
    <3>3. CASE e[2] # j
      <4>1. ports'[j] = ports[j]
        BY <1>0, <3>1, <3>3 DEF TriggerInputPort, CallTypes
      <4>2. Kept
        BY <1>0, <1>00, <2>6, <3>1 DEF FollowFirst, Arriving, ThreadTypes
      <4> QED BY <4>1, <4>2, ArriveKept DEF AllOn
    <3> QED BY <3>2, <3>3
  <2>7. CASE FollowMore(t)
    <3>1. Kept
      BY <1>0, <2>7 DEF FollowMore, EmitNewToken, Arriving, ThreadTypes
    <3>2. UNCHANGED ports
      BY <2>7 DEF FollowMore
    <3> QED BY <3>1, <3>2, ArriveKept DEF AllOn
  <2>8. CASE TriggerPort(t)
    <3>1. edge[t][2] # j
      BY <2>8 DEF TriggerPort, HeadsAlone
    <3>2. ports'[j] = ports[j]
      BY <1>0, <2>8, <3>1 DEF TriggerPort, TriggerInputPort, CallTypes
    <3>3. Kept
      BY <1>0, <2>8 DEF TriggerPort, Arriving, ThreadTypes
    <3> QED BY <3>2, <3>3, ArriveKept DEF AllOn
  <2>9. CASE EnterNext(t)
    <3>1. Kept
      BY <1>0, <1>00, <2>9 DEF EnterNext, AtWork, Arriving, ThreadTypes
    <3>2. UNCHANGED ports
      BY <2>9 DEF EnterNext
    <3> QED BY <3>1, <3>2, ArriveKept DEF AllOn
  <2>10. CASE Publish(t)
    <3>1. Kept
      BY <1>0, <2>10 DEF Publish, Arriving, ThreadTypes
    <3>2. UNCHANGED ports
      BY <2>10 DEF Publish
    <3> QED BY <3>1, <3>2, ArriveKept DEF AllOn
  <2>11. CASE EndTerminate(t)
    <3>1. Kept
      BY <1>0, <2>11 DEF EndTerminate, Arriving, ThreadTypes
    <3>2. UNCHANGED ports
      BY <2>11 DEF EndTerminate
    <3> QED BY <3>1, <3>2, ArriveKept DEF AllOn
  <2>12. CASE Push(t)
    <3>1. Kept
      BY <1>0, <2>12 DEF Push, Arriving, ThreadTypes
    <3>2. UNCHANGED ports
      BY <2>12 DEF Push
    <3> QED BY <3>1, <3>2, ArriveKept DEF AllOn
  <2>13. CASE Exit(t)
    <3>1. Kept
      BY <1>0, <2>13 DEF Exit, Arriving, ThreadTypes
    <3>2. UNCHANGED ports
      BY <2>13 DEF Exit
    <3> QED BY <3>1, <3>2, ArriveKept DEF AllOn
  <2> QED
    BY <1>1, <2>1, <2>2, <2>3, <2>4, <2>5, <2>6, <2>7, <2>8, <2>9, <2>10, <2>11,
       <2>12, <2>13 DEF TokenStep
<1>2. CASE EmitStart
  <2>1. \A u \in Tokens : Arriving(u, j) => Arriving(u, j)'
    BY <1>0, <1>2 DEF EmitStart, EmitNewToken, Arriving, ThreadTypes
  <2>2. UNCHANGED ports
    BY <1>2 DEF EmitStart
  <2> QED BY <2>1, <2>2, ArriveKept DEF AllOn
<1>3. CASE ElseStep
  BY <1>3, CalmFrame DEF AllOn, Arriving
<1> QED BY <1>1, <1>2, <1>3, NextIs

LEMMA JoinInit == Init => JoinInv
BY DEF Init, JoinInv, HeadsAlone, Disturbed, Calm, AllOn

LEMMA JoinStep ==
  ASSUME JoinsFollowedAlone, OverwatchInv, OverwatchInv', JoinInv, [Next]_vars
  PROVE  JoinInv'
<1>0. TypeOK /\ TypeOK'
  BY DEF OverwatchInv
<1>1. \A t \in Tokens : HeadsAlone(t)'
  BY <1>0, HeadsStep DEF JoinInv
<1>2. ASSUME ~Disturbed'
      PROVE  /\ Calm'
             /\ \A t \in Tokens : AtWork(t)'
             /\ \A j \in Joins : AllOn(j)' => \E t \in Tokens : Arriving(t, j)'
  <2>1. ~Disturbed
    BY <1>0, <1>2, DisturbedStays
  <2>2. /\ Calm /\ \A t \in Tokens : HeadsAlone(t) /\ AtWork(t)
        /\ \A j \in Joins : AllOn(j) => \E t \in Tokens : Arriving(t, j)
    BY <2>1 DEF JoinInv, AtWork
  <2>3. Calm'
    BY <1>2, <2>2, CalmStep
  <2>4. \A t \in Tokens : AtWork(t)'
    BY <1>0, <2>2, AtWorkStep
  <2>5. \A j \in Joins : AllOn(j)' => \E t \in Tokens : Arriving(t, j)'
    BY <1>0, <1>2, <2>2, ArriveStep
  <2> QED BY <2>3, <2>4, <2>5
<1> QED BY <1>1, <1>2 DEF JoinInv, AtWork

\* In a process whose tokens go to its parallel gateways themselves, no join is
\* missed: when its ports are all on a token comes to find them so (Token::follow-
\* OutputPorts, ParallelGateway::activity).
THEOREM NoMissedJoinHolds ==
  ASSUME JoinsFollowedAlone
  PROVE  Spec => []NoMissedJoin
<1>1. OverwatchInv /\ OverwatchInv' /\ JoinInv /\ [Next]_vars => JoinInv'
  BY JoinStep
<1>2. OverwatchInv /\ JoinInv => NoMissedJoin
  <2> SUFFICES ASSUME OverwatchInv, JoinInv, Undisturbed, NEW j \in Joins, AllOn(j)
               PROVE  \E t \in Live :
                        \/ node[t] = j /\ pc[t] \in {"loop", "exec"}
                        \/ next[t] = j /\ pc[t] \in {"follow", "trigger"}
    BY DEF NoMissedJoin, AllOn
  <2>1. ~Disturbed
    BY DEF Undisturbed, Disturbed
  <2>2. PICK t \in Tokens : Arriving(t, j)
    BY <2>1 DEF JoinInv
  <2>3. t \in Live
    BY <2>2 DEF Arriving, Live, IsTerminated
  <2> QED BY <2>2, <2>3 DEF Arriving
<1> QED BY <1>1, <1>2, JoinInit, Invariant, PTL DEF Spec
=============================================================================
