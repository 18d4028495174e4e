------------------------ MODULE BoundaryEvents_proofs ------------------------
(***************************************************************************)
(* For any tokens and boundary events of an activity: an inductive         *)
(* invariant, and the safety properties that follow from it.               *)
(***************************************************************************)
EXTENDS BoundaryEvents, TLAPS

USE BoundaryAssumption

LEMMA InitInv == Init => BoundaryInv
BY DEF Init, BoundaryInv, TypeOK, Told, Named, Calls, Launched, Attached, Fresh, Alone,
   Running, Boundaries,
       Triggers, Event

LEMMA NextType ==
  ASSUME BoundaryInv, [Next]_vars
  PROVE  TypeOK'
<1> USE DEF BoundaryInv, TypeOK, vars, hostVars, timerVars, triggerVars, copyVars,
            Boundaries, Triggers, Event
<1>1. CASE UNCHANGED vars
  BY <1>1
<1>2. ASSUME NEW b \in Hosts, Begin(b) PROVE TypeOK'
  BY <1>2 DEF Begin
<1>3. ASSUME NEW b \in Hosts, Activate(b) PROVE TypeOK'
  BY <1>3 DEF Activate
<1>4. ASSUME NEW b \in Hosts, Unblock(b) PROVE TypeOK'
  BY <1>4 DEF Unblock
<1>5. ASSUME NEW b \in Hosts, Work(b) PROVE TypeOK'
  BY <1>5 DEF Work
<1>6. ASSUME NEW b \in Hosts, Throws(b) PROVE TypeOK'
  BY <1>6 DEF Throws
<1>7. ASSUME NEW b \in Hosts, ReadFlag(b) PROVE TypeOK'
  BY <1>7 DEF ReadFlag
<1>8. ASSUME NEW b \in Hosts, NameInterrupter(b) PROVE TypeOK'
  BY <1>8 DEF NameInterrupter
<1>9. ASSUME NEW b \in Hosts, CopyInterrupter(b) PROVE TypeOK'
  BY <1>9 DEF CopyInterrupter
<1>10. ASSUME NEW b \in Hosts, Judge(b) PROVE TypeOK'
  BY <1>10 DEF Judge
<1>11. ASSUME NEW b \in Hosts, Detach(b) PROVE TypeOK'
  BY <1>11 DEF Detach
<1>12. ASSUME NEW b \in Hosts, CancelTimer(b) PROVE TypeOK'
  BY <1>12 DEF CancelTimer
<1>13. ASSUME NEW b \in Hosts, Leave(b) PROVE TypeOK'
  BY <1>13 DEF Leave, Drained
<1>14. ASSUME NEW b \in Hosts, TimerWaits(b) PROVE TypeOK'
  BY <1>14 DEF TimerWaits, TimerMutexFree
<1>15. ASSUME NEW b \in Hosts, TimerWakes(b) PROVE TypeOK'
  <2>1. CASE timer[b] = "expired"
    <3>1. timer' \in [Hosts -> {"none", "launched", "waiting", "expired", "woken",
                               "firing", "done"}]
      BY <1>15 DEF TimerWakes
    <3>2. todo' \in [Triggers -> SUBSET Hosts]
      <4>1. todo' = [todo EXCEPT ![b] = {g \in Hosts : <<g, Timer>> \in attached}]
        BY <1>15, <2>1 DEF TimerWakes
      <4> QED
        BY <4>1
    <3>3. at' \in [Triggers -> {"idle", "calling", "done"}]
      BY <1>15 DEF TimerWakes
    <3> QED
      BY <1>15, <3>1, <3>2, <3>3 DEF TimerWakes
  <2>2. CASE timer[b] = "woken"
    BY <1>15, <2>2 DEF TimerWakes
  <2> QED
    BY <1>15, <2>1, <2>2 DEF TimerWakes
<1>16. ASSUME NEW b \in Hosts, TimerEnds(b) PROVE TypeOK'
  BY <1>16 DEF TimerEnds
<1>17. ASSUME NEW b \in Hosts, TimeOut(b) PROVE TypeOK'
  BY <1>17 DEF TimeOut
<1>18. ASSUME NEW b \in Signals, Throw(b) PROVE TypeOK'
  BY <1>18 DEF Throw
<1>19. ASSUME NEW b \in Triggers, CallHost(b) PROVE TypeOK'
  BY <1>19 DEF CallHost, Store
<1>20. ASSUME NEW b \in Triggers, EndCallback(b) PROVE TypeOK'
  BY <1>20 DEF EndCallback
<1> QED
  BY <1>1, <1>2, <1>3, <1>4, <1>5, <1>6, <1>7, <1>8, <1>9, <1>10, <1>11,
     <1>12, <1>13, <1>14, <1>15, <1>16, <1>17, <1>18, <1>19, <1>20
     DEF Next, Host, TimerThread, Calling

LEMMA ToldStep ==
  ASSUME BoundaryInv, [Next]_vars, NEW h \in Hosts
  PROVE  Told(h)'
<1> USE DEF BoundaryInv, TypeOK, vars, hostVars, timerVars, triggerVars, copyVars,
            Boundaries, Triggers, Told, Named, Calls, Event
<1>1. CASE UNCHANGED vars
  BY <1>1
<1>2. ASSUME NEW b \in Hosts, Begin(b) PROVE Told(h)'
  BY <1>2 DEF Begin
<1>3. ASSUME NEW b \in Hosts, Activate(b) PROVE Told(h)'
  BY <1>3 DEF Activate
<1>4. ASSUME NEW b \in Hosts, Unblock(b) PROVE Told(h)'
  BY <1>4 DEF Unblock
<1>5. ASSUME NEW b \in Hosts, Work(b) PROVE Told(h)'
  BY <1>5 DEF Work
<1>6. ASSUME NEW b \in Hosts, Throws(b) PROVE Told(h)'
  BY <1>6 DEF Throws
<1>7. ASSUME NEW b \in Hosts, ReadFlag(b) PROVE Told(h)'
  BY <1>7 DEF ReadFlag
<1>8. ASSUME NEW b \in Hosts, NameInterrupter(b) PROVE Told(h)'
  BY <1>8 DEF NameInterrupter
<1>9. ASSUME NEW b \in Hosts, CopyInterrupter(b) PROVE Told(h)'
  BY <1>9 DEF CopyInterrupter
<1>10. ASSUME NEW b \in Hosts, Judge(b) PROVE Told(h)'
  BY <1>10 DEF Judge
<1>11. ASSUME NEW b \in Hosts, Detach(b) PROVE Told(h)'
  BY <1>11 DEF Detach
<1>12. ASSUME NEW b \in Hosts, CancelTimer(b) PROVE Told(h)'
  BY <1>12 DEF CancelTimer
<1>13. ASSUME NEW b \in Hosts, Leave(b) PROVE Told(h)'
  BY <1>13 DEF Leave, Drained
<1>14. ASSUME NEW b \in Hosts, TimerWaits(b) PROVE Told(h)'
  BY <1>14 DEF TimerWaits, TimerMutexFree
<1>15. ASSUME NEW b \in Hosts, TimerWakes(b) PROVE Told(h)'
  BY <1>15 DEF TimerWakes, TimerMutexFree
<1>16. ASSUME NEW b \in Hosts, TimerEnds(b) PROVE Told(h)'
  BY <1>16 DEF TimerEnds
<1>17. ASSUME NEW b \in Hosts, TimeOut(b) PROVE Told(h)'
  BY <1>17 DEF TimeOut
<1>18. ASSUME NEW b \in Signals, Throw(b) PROVE Told(h)'
  BY <1>18 DEF Throw
<1>19. ASSUME NEW b \in Triggers, CallHost(b) PROVE Told(h)'
  BY <1>19 DEF CallHost, Store
<1>20. ASSUME NEW b \in Triggers, EndCallback(b) PROVE Told(h)'
  BY <1>20 DEF EndCallback
<1> QED
  BY <1>1, <1>2, <1>3, <1>4, <1>5, <1>6, <1>7, <1>8, <1>9, <1>10, <1>11,
     <1>12, <1>13, <1>14, <1>15, <1>16, <1>17, <1>18, <1>19, <1>20
     DEF Next, Host, TimerThread, Calling

LEMMA CallsStep ==
  ASSUME BoundaryInv, [Next]_vars, NEW x \in Triggers
  PROVE  Calls(x)'
<1> USE DEF BoundaryInv, TypeOK, vars, hostVars, timerVars, triggerVars, copyVars,
            Boundaries, Triggers, Calls, Launched, Event
<1>1. CASE UNCHANGED vars
  BY <1>1
<1>2. ASSUME NEW b \in Hosts, Begin(b) PROVE Calls(x)'
  BY <1>2 DEF Begin
<1>3. ASSUME NEW b \in Hosts, Activate(b) PROVE Calls(x)'
  BY <1>3 DEF Activate, Fresh
<1>4. ASSUME NEW b \in Hosts, Unblock(b) PROVE Calls(x)'
  BY <1>4 DEF Unblock
<1>5. ASSUME NEW b \in Hosts, Work(b) PROVE Calls(x)'
  BY <1>5 DEF Work
<1>6. ASSUME NEW b \in Hosts, Throws(b) PROVE Calls(x)'
  BY <1>6 DEF Throws
<1>7. ASSUME NEW b \in Hosts, ReadFlag(b) PROVE Calls(x)'
  BY <1>7 DEF ReadFlag
<1>8. ASSUME NEW b \in Hosts, NameInterrupter(b) PROVE Calls(x)'
  BY <1>8 DEF NameInterrupter
<1>9. ASSUME NEW b \in Hosts, CopyInterrupter(b) PROVE Calls(x)'
  BY <1>9 DEF CopyInterrupter
<1>10. ASSUME NEW b \in Hosts, Judge(b) PROVE Calls(x)'
  BY <1>10 DEF Judge
<1>11. ASSUME NEW b \in Hosts, Detach(b) PROVE Calls(x)'
  BY <1>11 DEF Detach
<1>12. ASSUME NEW b \in Hosts, CancelTimer(b) PROVE Calls(x)'
  BY <1>12 DEF CancelTimer
<1>13. ASSUME NEW b \in Hosts, Leave(b) PROVE Calls(x)'
  BY <1>13 DEF Leave, Drained
<1>14. ASSUME NEW b \in Hosts, TimerWaits(b) PROVE Calls(x)'
  BY <1>14 DEF TimerWaits, TimerMutexFree
<1>15. ASSUME NEW b \in Hosts, TimerWakes(b) PROVE Calls(x)'
  BY <1>15 DEF TimerWakes, TimerMutexFree
<1>16. ASSUME NEW b \in Hosts, TimerEnds(b) PROVE Calls(x)'
  BY <1>16 DEF TimerEnds
<1>17. ASSUME NEW b \in Hosts, TimeOut(b) PROVE Calls(x)'
  BY <1>17 DEF TimeOut
<1>18. ASSUME NEW b \in Signals, Throw(b) PROVE Calls(x)'
  BY <1>18 DEF Throw
<1>19. ASSUME NEW b \in Triggers, CallHost(b) PROVE Calls(x)'
  BY <1>19 DEF CallHost, Store
<1>20. ASSUME NEW b \in Triggers, EndCallback(b) PROVE Calls(x)'
  BY <1>20 DEF EndCallback
<1> QED
  BY <1>1, <1>2, <1>3, <1>4, <1>5, <1>6, <1>7, <1>8, <1>9, <1>10, <1>11,
     <1>12, <1>13, <1>14, <1>15, <1>16, <1>17, <1>18, <1>19, <1>20
     DEF Next, Host, TimerThread, Calling

LEMMA LaunchedStep ==
  ASSUME BoundaryInv, [Next]_vars, NEW h \in Hosts
  PROVE  Launched(h)'
<1> USE DEF BoundaryInv, TypeOK, vars, hostVars, timerVars, triggerVars, copyVars,
            Boundaries, Triggers, Launched, Calls, Event
<1>1. CASE UNCHANGED vars
  BY <1>1
<1>2. ASSUME NEW b \in Hosts, Begin(b) PROVE Launched(h)'
  BY <1>2 DEF Begin
<1>3. ASSUME NEW b \in Hosts, Activate(b) PROVE Launched(h)'
  <2> SUFFICES ASSUME timer' = [timer EXCEPT ![b] = "launched"], timer[b] = "none",
                      future' = b, blocked' = [blocked EXCEPT ![b] = future]
               PROVE  Launched(h)'
    <3>1. PICK e \in Boundaries :
            /\ <<b, e>> \notin attached
            /\ IF e = Timer
               THEN /\ timer' = [timer EXCEPT ![b] = "launched"]
                    /\ future' = b /\ blocked' = [blocked EXCEPT ![b] = future]
               ELSE UNCHANGED <<timer, future, blocked>>
      BY <1>3 DEF Activate
    <3>2. CASE e = Timer
      BY <1>3, <3>1, <3>2 DEF Activate, Fresh
    <3>3. CASE e # Timer
      BY <1>3, <3>1, <3>3 DEF Activate
    <3> QED
      BY <3>2, <3>3
  <2>1. pc[b] = "activating" /\ pc' = pc /\ at' = at /\ blocked[b] = NoHost
    BY <1>3 DEF Activate
  <2>2. CASE h = b
    BY <2>1, <2>2
  <2>3. CASE h # b
    <3>1. timer'[h] = timer[h] /\ blocked'[h] = blocked[h]
      BY <2>3
    <3>2. timer[h] \notin {"none", "done"} => \E g \in Hosts : blocked'[g] = h
      <4>1. CASE future = h
        BY <4>1, <2>1
      <4>2. ASSUME NEW g \in Hosts, blocked[g] = h PROVE blocked'[g] = h
        BY <4>2, <2>1
      <4> QED
        BY <4>1, <4>2
    <3> QED
      BY <2>1, <3>1, <3>2
  <2> QED
    BY <2>2, <2>3
<1>4. ASSUME NEW b \in Hosts, Unblock(b) PROVE Launched(h)'
  BY <1>4 DEF Unblock
<1>5. ASSUME NEW b \in Hosts, Work(b) PROVE Launched(h)'
  BY <1>5 DEF Work
<1>6. ASSUME NEW b \in Hosts, Throws(b) PROVE Launched(h)'
  BY <1>6 DEF Throws
<1>7. ASSUME NEW b \in Hosts, ReadFlag(b) PROVE Launched(h)'
  BY <1>7 DEF ReadFlag
<1>8. ASSUME NEW b \in Hosts, NameInterrupter(b) PROVE Launched(h)'
  BY <1>8 DEF NameInterrupter
<1>9. ASSUME NEW b \in Hosts, CopyInterrupter(b) PROVE Launched(h)'
  BY <1>9 DEF CopyInterrupter
<1>10. ASSUME NEW b \in Hosts, Judge(b) PROVE Launched(h)'
  BY <1>10 DEF Judge
<1>11. ASSUME NEW b \in Hosts, Detach(b) PROVE Launched(h)'
  BY <1>11 DEF Detach
<1>12. ASSUME NEW b \in Hosts, CancelTimer(b) PROVE Launched(h)'
  BY <1>12 DEF CancelTimer
<1>13. ASSUME NEW b \in Hosts, Leave(b) PROVE Launched(h)'
  BY <1>13 DEF Leave, Drained
<1>14. ASSUME NEW b \in Hosts, TimerWaits(b) PROVE Launched(h)'
  BY <1>14 DEF TimerWaits, TimerMutexFree
<1>15. ASSUME NEW b \in Hosts, TimerWakes(b) PROVE Launched(h)'
  BY <1>15 DEF TimerWakes, TimerMutexFree
<1>16. ASSUME NEW b \in Hosts, TimerEnds(b) PROVE Launched(h)'
  BY <1>16 DEF TimerEnds
<1>17. ASSUME NEW b \in Hosts, TimeOut(b) PROVE Launched(h)'
  BY <1>17 DEF TimeOut
<1>18. ASSUME NEW b \in Signals, Throw(b) PROVE Launched(h)'
  BY <1>18 DEF Throw
<1>19. ASSUME NEW b \in Triggers, CallHost(b) PROVE Launched(h)'
  BY <1>19 DEF CallHost, Store
<1>20. ASSUME NEW b \in Triggers, EndCallback(b) PROVE Launched(h)'
  BY <1>20 DEF EndCallback
<1> QED
  BY <1>1, <1>2, <1>3, <1>4, <1>5, <1>6, <1>7, <1>8, <1>9, <1>10, <1>11,
     <1>12, <1>13, <1>14, <1>15, <1>16, <1>17, <1>18, <1>19, <1>20
     DEF Next, Host, TimerThread, Calling

LEMMA AttachedStep ==
  ASSUME BoundaryInv, [Next]_vars, NEW h \in Hosts
  PROVE  Attached(h)'
<1> USE DEF BoundaryInv, TypeOK, vars, hostVars, timerVars, triggerVars, copyVars,
            Boundaries, Triggers, Attached
<1>1. CASE UNCHANGED vars
  BY <1>1
<1>2. ASSUME NEW b \in Hosts, Begin(b) PROVE Attached(h)'
  BY <1>2 DEF Begin
<1>3. ASSUME NEW b \in Hosts, Activate(b) PROVE Attached(h)'
  BY <1>3 DEF Activate
<1>4. ASSUME NEW b \in Hosts, Unblock(b) PROVE Attached(h)'
  BY <1>4 DEF Unblock
<1>5. ASSUME NEW b \in Hosts, Work(b) PROVE Attached(h)'
  BY <1>5 DEF Work
<1>6. ASSUME NEW b \in Hosts, Throws(b) PROVE Attached(h)'
  BY <1>6 DEF Throws
<1>7. ASSUME NEW b \in Hosts, ReadFlag(b) PROVE Attached(h)'
  BY <1>7 DEF ReadFlag
<1>8. ASSUME NEW b \in Hosts, NameInterrupter(b) PROVE Attached(h)'
  BY <1>8 DEF NameInterrupter
<1>9. ASSUME NEW b \in Hosts, CopyInterrupter(b) PROVE Attached(h)'
  BY <1>9 DEF CopyInterrupter
<1>10. ASSUME NEW b \in Hosts, Judge(b) PROVE Attached(h)'
  BY <1>10 DEF Judge
<1>11. ASSUME NEW b \in Hosts, Detach(b) PROVE Attached(h)'
  BY <1>11 DEF Detach
<1>12. ASSUME NEW b \in Hosts, CancelTimer(b) PROVE Attached(h)'
  BY <1>12 DEF CancelTimer
<1>13. ASSUME NEW b \in Hosts, Leave(b) PROVE Attached(h)'
  BY <1>13 DEF Leave, Drained
<1>14. ASSUME NEW b \in Hosts, TimerWaits(b) PROVE Attached(h)'
  BY <1>14 DEF TimerWaits, TimerMutexFree
<1>15. ASSUME NEW b \in Hosts, TimerWakes(b) PROVE Attached(h)'
  BY <1>15 DEF TimerWakes, TimerMutexFree
<1>16. ASSUME NEW b \in Hosts, TimerEnds(b) PROVE Attached(h)'
  BY <1>16 DEF TimerEnds
<1>17. ASSUME NEW b \in Hosts, TimeOut(b) PROVE Attached(h)'
  BY <1>17 DEF TimeOut
<1>18. ASSUME NEW b \in Signals, Throw(b) PROVE Attached(h)'
  BY <1>18 DEF Throw
<1>19. ASSUME NEW b \in Triggers, CallHost(b) PROVE Attached(h)'
  BY <1>19 DEF CallHost, Store
<1>20. ASSUME NEW b \in Triggers, EndCallback(b) PROVE Attached(h)'
  BY <1>20 DEF EndCallback
<1> QED
  BY <1>1, <1>2, <1>3, <1>4, <1>5, <1>6, <1>7, <1>8, <1>9, <1>10, <1>11,
     <1>12, <1>13, <1>14, <1>15, <1>16, <1>17, <1>18, <1>19, <1>20
     DEF Next, Host, TimerThread, Calling

LEMMA FreshStep ==
  ASSUME BoundaryInv, [Next]_vars, NEW h \in Hosts
  PROVE  Fresh(h)'
<1> USE DEF BoundaryInv, TypeOK, vars, hostVars, timerVars, triggerVars, copyVars,
            Boundaries, Triggers, Attached, Fresh
<1>1. CASE UNCHANGED vars
  BY <1>1
<1>2. ASSUME NEW b \in Hosts, Begin(b) PROVE Fresh(h)'
  BY <1>2 DEF Begin
<1>3. ASSUME NEW b \in Hosts, Activate(b) PROVE Fresh(h)'
  BY <1>3 DEF Activate
<1>4. ASSUME NEW b \in Hosts, Unblock(b) PROVE Fresh(h)'
  BY <1>4 DEF Unblock
<1>5. ASSUME NEW b \in Hosts, Work(b) PROVE Fresh(h)'
  BY <1>5 DEF Work
<1>6. ASSUME NEW b \in Hosts, Throws(b) PROVE Fresh(h)'
  BY <1>6 DEF Throws
<1>7. ASSUME NEW b \in Hosts, ReadFlag(b) PROVE Fresh(h)'
  BY <1>7 DEF ReadFlag
<1>8. ASSUME NEW b \in Hosts, NameInterrupter(b) PROVE Fresh(h)'
  BY <1>8 DEF NameInterrupter
<1>9. ASSUME NEW b \in Hosts, CopyInterrupter(b) PROVE Fresh(h)'
  BY <1>9 DEF CopyInterrupter
<1>10. ASSUME NEW b \in Hosts, Judge(b) PROVE Fresh(h)'
  BY <1>10 DEF Judge
<1>11. ASSUME NEW b \in Hosts, Detach(b) PROVE Fresh(h)'
  BY <1>11 DEF Detach
<1>12. ASSUME NEW b \in Hosts, CancelTimer(b) PROVE Fresh(h)'
  BY <1>12 DEF CancelTimer
<1>13. ASSUME NEW b \in Hosts, Leave(b) PROVE Fresh(h)'
  BY <1>13 DEF Leave, Drained
<1>14. ASSUME NEW b \in Hosts, TimerWaits(b) PROVE Fresh(h)'
  BY <1>14 DEF TimerWaits, TimerMutexFree
<1>15. ASSUME NEW b \in Hosts, TimerWakes(b) PROVE Fresh(h)'
  BY <1>15 DEF TimerWakes, TimerMutexFree
<1>16. ASSUME NEW b \in Hosts, TimerEnds(b) PROVE Fresh(h)'
  BY <1>16 DEF TimerEnds
<1>17. ASSUME NEW b \in Hosts, TimeOut(b) PROVE Fresh(h)'
  BY <1>17 DEF TimeOut
<1>18. ASSUME NEW b \in Signals, Throw(b) PROVE Fresh(h)'
  BY <1>18 DEF Throw
<1>19. ASSUME NEW b \in Triggers, CallHost(b) PROVE Fresh(h)'
  BY <1>19 DEF CallHost, Store
<1>20. ASSUME NEW b \in Triggers, EndCallback(b) PROVE Fresh(h)'
  BY <1>20 DEF EndCallback
<1> QED
  BY <1>1, <1>2, <1>3, <1>4, <1>5, <1>6, <1>7, <1>8, <1>9, <1>10, <1>11,
     <1>12, <1>13, <1>14, <1>15, <1>16, <1>17, <1>18, <1>19, <1>20
     DEF Next, Host, TimerThread, Calling

LEMMA AloneStep ==
  ASSUME BoundaryInv, [Next]_vars, NEW h \in Hosts
  PROVE  Alone(h)'
<1> USE DEF BoundaryInv, TypeOK, vars, hostVars, timerVars, triggerVars, copyVars,
            Boundaries, Triggers, Alone, Attached, Launched, Calls, Running,
            Event
<1>1. CASE UNCHANGED vars
  BY <1>1
<1>2. ASSUME NEW b \in Hosts, Begin(b) PROVE Alone(h)'
  BY <1>2 DEF Begin
<1>3. ASSUME NEW b \in Hosts, Activate(b) PROVE Alone(h)'
  BY <1>3 DEF Activate
<1>4. ASSUME NEW b \in Hosts, Unblock(b) PROVE Alone(h)'
  BY <1>4 DEF Unblock
<1>5. ASSUME NEW b \in Hosts, Work(b) PROVE Alone(h)'
  BY <1>5 DEF Work
<1>6. ASSUME NEW b \in Hosts, Throws(b) PROVE Alone(h)'
  BY <1>6 DEF Throws
<1>7. ASSUME NEW b \in Hosts, ReadFlag(b) PROVE Alone(h)'
  BY <1>7 DEF ReadFlag
<1>8. ASSUME NEW b \in Hosts, NameInterrupter(b) PROVE Alone(h)'
  BY <1>8 DEF NameInterrupter
<1>9. ASSUME NEW b \in Hosts, CopyInterrupter(b) PROVE Alone(h)'
  BY <1>9 DEF CopyInterrupter
<1>10. ASSUME NEW b \in Hosts, Judge(b) PROVE Alone(h)'
  BY <1>10 DEF Judge
<1>11. ASSUME NEW b \in Hosts, Detach(b) PROVE Alone(h)'
  BY <1>11 DEF Detach
<1>12. ASSUME NEW b \in Hosts, CancelTimer(b) PROVE Alone(h)'
  BY <1>12 DEF CancelTimer
<1>13. ASSUME NEW b \in Hosts, Leave(b) PROVE Alone(h)'
  <2>1. CASE b # h
    BY <1>13, <2>1 DEF Leave, Drained
  <2>2. CASE b = h /\ h \notin shared
    <3>1. future = h /\ timer[h] = "done"
      BY <1>13, <2>2 DEF Leave, Drained
    <3>2. \A g \in Hosts : pc[g] # "activating"
      BY <1>13, <2>2 DEF Leave, Drained
    <3>3. \A x \in Hosts : timer[x] \in {"none", "done"}
      <4> SUFFICES ASSUME NEW x \in Hosts, timer[x] \notin {"none", "done"} PROVE FALSE
        OBVIOUS
      <4>1. PICK g \in Hosts : blocked[g] = x
        BY <3>1
      <4>2. pc[g] = "activating"
        BY <4>1
      <4> QED
        BY <4>2, <3>2
    <3>4. \A x \in Hosts : in[x] # h
      BY <3>3
    <3> QED
      BY <1>13, <2>2, <3>1, <3>4 DEF Leave, Drained
  <2> QED
    BY <1>13, <2>1, <2>2 DEF Leave, Drained
<1>14. ASSUME NEW b \in Hosts, TimerWaits(b) PROVE Alone(h)'
  BY <1>14 DEF TimerWaits, TimerMutexFree
<1>15. ASSUME NEW b \in Hosts, TimerWakes(b) PROVE Alone(h)'
  BY <1>15 DEF TimerWakes, TimerMutexFree
<1>16. ASSUME NEW b \in Hosts, TimerEnds(b) PROVE Alone(h)'
  BY <1>16 DEF TimerEnds
<1>17. ASSUME NEW b \in Hosts, TimeOut(b) PROVE Alone(h)'
  BY <1>17 DEF TimeOut
<1>18. ASSUME NEW b \in Signals, Throw(b) PROVE Alone(h)'
  BY <1>18 DEF Throw
<1>19. ASSUME NEW b \in Triggers, CallHost(b) PROVE Alone(h)'
  BY <1>19 DEF CallHost, Store
<1>20. ASSUME NEW b \in Triggers, EndCallback(b) PROVE Alone(h)'
  BY <1>20 DEF EndCallback
<1> QED
  BY <1>1, <1>2, <1>3, <1>4, <1>5, <1>6, <1>7, <1>8, <1>9, <1>10, <1>11,
     <1>12, <1>13, <1>14, <1>15, <1>16, <1>17, <1>18, <1>19, <1>20
     DEF Next, Host, TimerThread, Calling

\* The invariant holds in every reachable state.
THEOREM Inductive == Spec => []BoundaryInv
<1>1. BoundaryInv /\ [Next]_vars => BoundaryInv'
  <2> SUFFICES ASSUME BoundaryInv, [Next]_vars PROVE BoundaryInv'
    OBVIOUS
  <2>1. ASSUME NEW h \in Hosts PROVE (Told(h) /\ Launched(h) /\ Attached(h) /\ Fresh(h) /\ Alone(h))'
    BY ToldStep, LaunchedStep, AttachedStep, FreshStep, AloneStep
  <2>2. ASSUME NEW x \in Triggers PROVE Calls(x)'
    BY CallsStep
  <2> QED
    BY <2>1, <2>2, NextType DEF BoundaryInv
<1> QED
  BY <1>1, InitInv, PTL DEF Spec

\* A cleanup (timer_boundary_event.cc, cleanup()) leaves no timer thread of a host
\* behind, if no other host ran at the same time.
THEOREM TimerStoppedHolds == Spec => []TimerStopped
<1>1. BoundaryInv => TimerStopped
  BY DEF BoundaryInv, Alone, TimerStopped
<1> QED
  BY <1>1, Inductive, PTL

\* The callback (Activity.cpp, boundary_event_callback()) stores the event before
\* it interrupts, which is enough for an activity that reads the flag first.
THEOREM InterrupterKnownHolds == Spec => []InterrupterKnown
<1>1. BoundaryInv => InterrupterKnown
  BY DEF BoundaryInv, Told, InterrupterKnown
<1> QED
  BY <1>1, Inductive, PTL
=============================================================================
