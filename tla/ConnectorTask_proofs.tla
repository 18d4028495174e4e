------------------------ MODULE ConnectorTask_proofs ------------------------
(***************************************************************************)
(* For any tasks, resources and keys: an inductive invariant of connector  *)
(* tasks, and the safety properties that follow from it.                   *)
(***************************************************************************)
EXTENDS ConnectorTask, TLAPS

USE TaskAssumption DEF UnderWay

\* Before anything has started nothing is held and nothing is told.
LEMMA InitInv == Init => TaskInv
BY DEF Init, TaskInv, Held, Heard, TypeOK, Holding, Resource, FromExpression

\* Each action keeps the type of the state.
LEMMA NextType == TaskInv /\ [Next]_vars => TypeOK'
<1> SUFFICES ASSUME TaskInv, [Next]_vars PROVE TypeOK'
  OBVIOUS
<1>0. TypeOK /\ \A t \in Tasks : Holding(t) => Resource(t) \in Resources
  BY DEF TaskInv, Held
<1> USE DEF TypeOK, vars, signalVars, connectorVars
<1>1. CASE UNCHANGED vars
  BY <1>0, <1>1
<1>2. ASSUME NEW t \in Tasks, Thread(t) PROVE TypeOK'
  <2>1. CASE Start(t)
    BY <1>0, <2>1 DEF Start, Resource, FromExpression, Reserved
  <2>2. CASE Command(t)
    BY <1>0, <2>2 DEF Command, Holding
  <2>3. CASE GiveUp(t)
    BY <1>0, <2>3 DEF GiveUp, Aborted
  <2>4. CASE TakeResult(t)
    BY <1>0, <2>4 DEF TakeResult
  <2>5. CASE TakeException(t)
    BY <1>0, <2>5 DEF TakeException
  <2>6. CASE Await(t)
    BY <1>0, <2>6 DEF Await
  <2>7. CASE Cleanup(t)
    BY <1>0, <2>7 DEF Cleanup, Released
  <2>8. CASE Destroy(t)
    BY <1>0, <2>8 DEF Destroy
  <2>9. CASE Join(t)
    BY <1>0, <2>9 DEF Join
  <2> QED
    BY <1>2, <2>1, <2>2, <2>3, <2>4, <2>5, <2>6, <2>7, <2>8, <2>9 DEF Thread
<1>3. ASSUME NEW t \in Tasks, Helper(t) \/ WakeSpuriously(t) PROVE TypeOK'
  <2>1. signalled' \in [Tasks -> BOOLEAN]
    BY <1>0, <1>3 DEF Helper, HelperCheck, HelperWait, HelperWake, HelperDone,
      WakeSpuriously, Destructing
  <2>2. helper' \in [Tasks -> {"none", "spawned", "checked", "waiting", "woken", "done"}]
    BY <1>0, <1>3 DEF Helper, HelperCheck, HelperWait, HelperWake, HelperDone,
      WakeSpuriously
  <2> QED
    BY <1>0, <1>3, <2>1, <2>2 DEF Helper, HelperCheck, HelperWait, HelperWake,
      WakeSpuriously
<1>4. ASSUME NEW t \in Tasks, BeginTerminate(t) \/ Caller(t) PROVE TypeOK'
  <2>1. ASSUME NEW i \in BOOLEAN, interrupted' = [interrupted EXCEPT ![t] = i]
        PROVE  interrupted' \in [Tasks -> BOOLEAN]
    BY <1>0, <2>1
  <2>2. helper' \in [Tasks -> {"none", "spawned", "checked", "waiting", "woken", "done"}]
    BY <1>0, <1>4 DEF Caller, BeginTerminate, Deactivate, Tell, Notify
  <2> QED
    BY <1>0, <1>4, <2>1, <2>2, ZenonT(30)
    DEF Caller, BeginTerminate, Deactivate, Tell, Notify
<1>5. ASSUME NEW t \in Tasks, Complete(t) PROVE TypeOK'
  BY <1>0, <1>5 DEF Complete
<1> QED
  BY <1>1, <1>2, <1>3, <1>4, <1>5 DEF Next

\* The steps of the helper and of the caller touch nothing that is held.
LEMMA HeldStep ==
  ASSUME TypeOK, NEW t \in Tasks, Held(t), [Next]_vars, TypeOK',
         \A o \in Tasks : Held(o)
  PROVE  Held(t)'
<1> USE DEF vars, signalVars, connectorVars, TypeOK
<1>1. CASE UNCHANGED <<pc, connectorVars>>
  BY <1>1 DEF Held, Holding, Resource, FromExpression
<1>2. ASSUME NEW o \in Tasks, Start(o) PROVE Held(t)'
  <2>1. CASE UNCHANGED holder
    BY <1>2, <2>1 DEF Start, Held, Holding, Resource, FromExpression, Reserved
  <2>2. CASE Reserved(Resource(o), o) /\ t = o
    BY <1>2, <2>2 DEF Start, Held, Holding, Resource, FromExpression, Reserved
  <2>3. CASE Reserved(Resource(o), o) /\ t # o
    BY <1>2, <2>3 DEF Start, Held, Holding, Resource, FromExpression, Reserved
  <2> QED
    BY <1>2, <2>1, <2>2, <2>3 DEF Start
<1>3. ASSUME NEW o \in Tasks, Command(o) PROVE Held(t)'
  BY <1>3 DEF Command, Held, Holding, Resource, FromExpression
<1>4. ASSUME NEW o \in Tasks, GiveUp(o) PROVE Held(t)'
  BY <1>4 DEF GiveUp, Aborted, InRound, Held, Holding, Resource, FromExpression
<1>5. ASSUME NEW o \in Tasks, TakeResult(o) PROVE Held(t)'
  BY <1>5 DEF TakeResult, InRound, Held, Holding, Resource, FromExpression
<1>6. ASSUME NEW o \in Tasks, TakeException(o) PROVE Held(t)'
  BY <1>6 DEF TakeException, InRound, Held, Holding, Resource, FromExpression
<1>7. ASSUME NEW o \in Tasks, Await(o) PROVE Held(t)'
  BY <1>7 DEF Await, Held, Holding, Resource, FromExpression
<1>8. ASSUME NEW o \in Tasks, Cleanup(o) PROVE Held(t)'
  BY <1>8 DEF Cleanup, Released, Held, Holding, Resource, FromExpression
<1>9. ASSUME NEW o \in Tasks, Destroy(o) \/ Join(o) PROVE Held(t)'
  BY <1>9 DEF Destroy, Join, Held, Holding, Resource, FromExpression
<1>10. ASSUME NEW o \in Tasks, Complete(o) PROVE Held(t)'
  BY <1>10 DEF Complete, Held, Holding, Resource, FromExpression
<1>11. ASSUME NEW o \in Tasks, Helper(o) \/ WakeSpuriously(o) \/ BeginTerminate(o) \/ Caller(o)
       PROVE  Held(t)'
  BY <1>1, <1>11 DEF Helper, HelperCheck, HelperWait, HelperWake, WakeSpuriously,
    BeginTerminate, Caller, Deactivate, Tell, Notify
<1> QED
  BY <1>1, <1>2, <1>3, <1>4, <1>5, <1>6, <1>7, <1>8, <1>9, <1>10,
     <1>11 DEF Next, Thread

LEMMA HeardStep ==
  ASSUME TypeOK, NEW t \in Tasks, Heard(t), [Next]_vars
  PROVE  Heard(t)'
<1> USE DEF vars, signalVars, connectorVars, TypeOK
<1>1. CASE UNCHANGED <<caller, outcome, signalVars>>
  BY <1>1 DEF Heard
<1>2. ASSUME NEW o \in Tasks, GiveUp(o) PROVE Heard(t)'
  BY <1>2 DEF GiveUp, Verdict, Heard
<1>3. ASSUME NEW o \in Tasks, Command(o) \/ TakeResult(o) PROVE Heard(t)'
  BY <1>3 DEF Command, TakeResult, Heard
<1>4. ASSUME NEW o \in Tasks, Destroy(o) PROVE Heard(t)'
  BY <1>4 DEF Destroy, Heard
<1>5. ASSUME NEW o \in Tasks, HelperCheck(o) \/ HelperWake(o) PROVE Heard(t)'
  BY <1>5 DEF HelperCheck, HelperWake, HelperDone, Heard
<1>6. ASSUME NEW o \in Tasks, BeginTerminate(o) PROVE Heard(t)'
  BY <1>6 DEF BeginTerminate, Heard
<1>7. ASSUME NEW o \in Tasks, Caller(o) PROVE Heard(t)'
  BY <1>7 DEF Caller, Deactivate, Tell, Notify, Heard
<1> QED
  BY <1>1, <1>2, <1>3, <1>4, <1>5, <1>6, <1>7 DEF Next, Thread, Helper, Start,
    TakeException, Await, Cleanup, Join, HelperWait, WakeSpuriously, Complete

\* The invariant holds in every reachable state.
THEOREM Inductive == Spec => []TaskInv
<1>1. TaskInv /\ [Next]_vars => TaskInv'
  <2> SUFFICES ASSUME TaskInv, [Next]_vars PROVE TaskInv'
    OBVIOUS
  <2>1. TypeOK'
    BY NextType
  <2>2. ASSUME NEW t \in Tasks PROVE (Held(t) /\ Heard(t))'
    BY <2>1, HeldStep, HeardStep DEF TaskInv
  <2> QED
    BY <2>1, <2>2 DEF TaskInv
<1> QED
  BY <1>1, InitInv, PTL DEF Spec

\* No resource stays reserved after its task is over (ConnectorServiceTask.cpp,
\* cleanup), but for the two cases the property names.
THEOREM ResourceReleased == Spec => []NoLeak
<1>1. TaskInv => NoLeak
  BY DEF TaskInv, Held, TypeOK, NoLeak, Over, Holding
<1> QED
  BY <1>1, Inductive, PTL

\* A running command has its resource, if the key of its task was not rewritten
\* since the reservation (ConnectorServiceTask.cpp, start and activity): two such
\* tasks never run commands on one resource.
THEOREM Exclusive == Spec => []CommandOwnsResource
<1>1. TaskInv => CommandOwnsResource
  BY DEF TaskInv, Held, TypeOK, CommandOwnsResource, Holding
<1> QED
  BY <1>1, Inductive, PTL

\* No service task gives up for a wake-up that meant nothing.
THEOREM Truthful == Spec => []CancelledOnlyIfTold
<1>1. TaskInv => CancelledOnlyIfTold
  BY DEF TaskInv, Heard, CancelledOnlyIfTold
<1> QED
  BY <1>1, Inductive, PTL
=============================================================================
