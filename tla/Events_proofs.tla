--------------------------- MODULE Events_proofs ---------------------------
(***************************************************************************)
(* For any nodes, events and throwers: an inductive invariant of model     *)
(* events, and the safety properties that follow from it.                  *)
(***************************************************************************)
EXTENDS Events, TLAPS

USE EventsAssumption

LEMMA InitInv == Init => EventInv
BY DEF Init, EventInv, OfCatcher, OfThrow, TypeOK, Slots, Callers

LEMMA NextType ==
  ASSUME EventInv, [Next]_vars
  PROVE  TypeOK'
<1> USE DEF EventInv, OfThrow, TypeOK, vars, catchVars, throwVars, Slots, Callers
<1>1. CASE UNCHANGED vars
  BY <1>1
<1>2. ASSUME NEW b \in Catchers, Start(b) PROVE TypeOK'
  BY <1>2 DEF Start
<1>3. ASSUME NEW b \in Catchers, Wait(b) PROVE TypeOK'
  BY <1>3 DEF Wait
<1>4. ASSUME NEW b \in Catchers, WakeSpuriously(b) PROVE TypeOK'
  BY <1>4 DEF WakeSpuriously, Wake
<1>5. ASSUME NEW b \in Catchers, Expire(b) PROVE TypeOK'
  BY <1>5 DEF Expire, Wake
<1>6. ASSUME NEW b \in Catchers, Decide(b) PROVE TypeOK'
  BY <1>6 DEF Decide
<1>7. ASSUME NEW b \in Catchers, TerminateCatcher(b) PROVE TypeOK'
  BY <1>7 DEF TerminateCatcher, Wake
<1>8. ASSUME NEW b \in Callers, Trigger(b) PROVE TypeOK'
  BY <1>8 DEF Trigger
<1>9. ASSUME NEW b \in Callers, Catch(b) PROVE TypeOK'
  BY <1>9 DEF Catch
<1>10. ASSUME NEW b \in Callers, NotifyCatcher(b) PROVE TypeOK'
  BY <1>10 DEF NotifyCatcher, Wake
<1>11. ASSUME NEW b \in Callers, Skip(b) PROVE TypeOK'
  BY <1>11 DEF Skip
<1>12. ASSUME NEW b \in Callers, CallHost(b) PROVE TypeOK'
  BY <1>12 DEF CallHost, Fail
<1>13. ASSUME NEW b \in Callers, Return(b) PROVE TypeOK'
  BY <1>13 DEF Return
<1>14. ASSUME NEW b \in Callers, EmitUnknown(b) PROVE TypeOK'
  BY <1>14 DEF EmitUnknown
<1>15. ASSUME NEW b \in Throwers, TerminateThrower(b) PROVE TypeOK'
  BY <1>15 DEF TerminateThrower
<1> QED
  BY <1>1, <1>2, <1>3, <1>4, <1>5, <1>6, <1>7, <1>8, <1>9, <1>10, <1>11, <1>12,
     <1>13, <1>14, <1>15 DEF Next, Catcher, Caller

LEMMA CatcherStep ==
  ASSUME EventInv, [Next]_vars, NEW c \in Catchers
  PROVE  OfCatcher(c)'
<1> USE DEF EventInv, TypeOK, vars, catchVars, throwVars, Slots, Callers,
            OfCatcher, OfThrow
<1>1. CASE UNCHANGED vars
  BY <1>1
<1>2. ASSUME NEW b \in Catchers, Start(b) PROVE OfCatcher(c)'
  BY <1>2 DEF Start
<1>3. ASSUME NEW b \in Catchers, Wait(b) PROVE OfCatcher(c)'
  BY <1>3 DEF Wait
<1>4. ASSUME NEW b \in Catchers, WakeSpuriously(b) PROVE OfCatcher(c)'
  BY <1>4 DEF WakeSpuriously, Wake
<1>5. ASSUME NEW b \in Catchers, Expire(b) PROVE OfCatcher(c)'
  BY <1>5 DEF Expire, Wake
<1>6. ASSUME NEW b \in Catchers, Decide(b) PROVE OfCatcher(c)'
  BY <1>6 DEF Decide
<1>7. ASSUME NEW b \in Catchers, TerminateCatcher(b) PROVE OfCatcher(c)'
  BY <1>7 DEF TerminateCatcher, Wake
<1>8. ASSUME NEW b \in Callers, Trigger(b) PROVE OfCatcher(c)'
  BY <1>8 DEF Trigger
<1>9. ASSUME NEW b \in Callers, Catch(b) PROVE OfCatcher(c)'
  BY <1>9 DEF Catch
<1>10. ASSUME NEW b \in Callers, NotifyCatcher(b) PROVE OfCatcher(c)'
  BY <1>10 DEF NotifyCatcher, Wake
<1>11. ASSUME NEW b \in Callers, Skip(b) PROVE OfCatcher(c)'
  BY <1>11 DEF Skip
<1>12. ASSUME NEW b \in Callers, CallHost(b) PROVE OfCatcher(c)'
  BY <1>12 DEF CallHost, Fail
<1>13. ASSUME NEW b \in Callers, Return(b) PROVE OfCatcher(c)'
  BY <1>13 DEF Return
<1>14. ASSUME NEW b \in Callers, EmitUnknown(b) PROVE OfCatcher(c)'
  BY <1>14 DEF EmitUnknown
<1>15. ASSUME NEW b \in Throwers, TerminateThrower(b) PROVE OfCatcher(c)'
  BY <1>15 DEF TerminateThrower
<1> QED
  BY <1>1, <1>2, <1>3, <1>4, <1>5, <1>6, <1>7, <1>8, <1>9, <1>10, <1>11, <1>12,
     <1>13, <1>14, <1>15 DEF Next, Catcher, Caller

LEMMA ThrowStep ==
  ASSUME EventInv, [Next]_vars, NEW t \in Callers
  PROVE  OfThrow(t)'
<1> USE DEF EventInv, TypeOK, vars, catchVars, throwVars, Slots, Callers,
            OfCatcher, OfThrow
<1>1. CASE UNCHANGED vars
  BY <1>1
<1>2. ASSUME NEW b \in Catchers, Start(b) PROVE OfThrow(t)'
  BY <1>2 DEF Start
<1>3. ASSUME NEW b \in Catchers, Wait(b) PROVE OfThrow(t)'
  BY <1>3 DEF Wait
<1>4. ASSUME NEW b \in Catchers, WakeSpuriously(b) PROVE OfThrow(t)'
  BY <1>4 DEF WakeSpuriously, Wake
<1>5. ASSUME NEW b \in Catchers, Expire(b) PROVE OfThrow(t)'
  BY <1>5 DEF Expire, Wake
<1>6. ASSUME NEW b \in Catchers, Decide(b) PROVE OfThrow(t)'
  BY <1>6 DEF Decide
<1>7. ASSUME NEW b \in Catchers, TerminateCatcher(b) PROVE OfThrow(t)'
  BY <1>7 DEF TerminateCatcher, Wake
<1>8. ASSUME NEW b \in Callers, Trigger(b) PROVE OfThrow(t)'
  BY <1>8 DEF Trigger
<1>9. ASSUME NEW b \in Callers, Catch(b) PROVE OfThrow(t)'
  BY <1>9 DEF Catch
<1>10. ASSUME NEW b \in Callers, NotifyCatcher(b) PROVE OfThrow(t)'
  BY <1>10 DEF NotifyCatcher, Wake
<1>11. ASSUME NEW b \in Callers, Skip(b) PROVE OfThrow(t)'
  BY <1>11 DEF Skip
<1>12. ASSUME NEW b \in Callers, CallHost(b) PROVE OfThrow(t)'
  BY <1>12 DEF CallHost, Fail
<1>13. ASSUME NEW b \in Callers, Return(b) PROVE OfThrow(t)'
  BY <1>13 DEF Return
<1>14. ASSUME NEW b \in Callers, EmitUnknown(b) PROVE OfThrow(t)'
  BY <1>14 DEF EmitUnknown
<1>15. ASSUME NEW b \in Throwers, TerminateThrower(b) PROVE OfThrow(t)'
  BY <1>15 DEF TerminateThrower
<1> QED
  BY <1>1, <1>2, <1>3, <1>4, <1>5, <1>6, <1>7, <1>8, <1>9, <1>10, <1>11, <1>12,
     <1>13, <1>14, <1>15 DEF Next, Catcher, Caller

\* The invariant holds in every reachable state.
THEOREM Inductive == Spec => []EventInv
<1>1. EventInv /\ [Next]_vars => EventInv'
  <2> SUFFICES ASSUME EventInv, [Next]_vars PROVE EventInv'
    OBVIOUS
  <2>1. TypeOK'
    BY NextType
  <2>2. ASSUME NEW c \in Catchers PROVE OfCatcher(c)'
    BY CatcherStep
  <2>3. ASSUME NEW t \in Callers PROVE OfThrow(t)'
    BY ThrowStep
  <2> QED
    BY <2>1, <2>2, <2>3 DEF EventInv
<1> QED
  BY <1>1, InitInv, PTL DEF Spec

\* A catch event (IntermediateCatchEvent.cpp, activity()) reports what happened.
THEOREM TrueCatch == Spec => []CatchIsTrue
<1>1. EventInv => CatchIsTrue
  BY DEF EventInv, OfCatcher, TypeOK, CatchIsTrue
<1> QED
  BY <1>1, Inductive, PTL

\* The callback (event_callback()) does not outlive the node it notifies.
THEOREM NotifyAlive == Spec => []NoDanglingNotify
<1>1. EventInv => NoDanglingNotify
  BY DEF EventInv, OfCatcher, OfThrow, TypeOK, NoDanglingNotify, Undisturbed, Callers
<1> QED
  BY <1>1, Inductive, PTL

\* Whom a throw has yet to reach.
Reach(t) ==
  /\ OfReach(t)
  /\ result[t] \in {"OK", "CANCELLED", "true"} =>
       \A h \in Hosts : Listens[h] = Throws[t] => h \in spawned

LEMMA ReachStep ==
  ASSUME ReachInv, [Next]_vars, NEW t \in Callers
  PROVE  Reach(t)'
<1> USE DEF ReachInv, EventInv, OfThrow, TypeOK, vars, catchVars, throwVars,
            Slots, Callers, OfReach, Reach, ThrowReaches
<1>1. CASE UNCHANGED vars
  BY <1>1
<1>2. ASSUME NEW b \in Catchers, Start(b) PROVE Reach(t)'
  BY <1>2 DEF Start
<1>3. ASSUME NEW b \in Catchers, Wait(b) PROVE Reach(t)'
  BY <1>3 DEF Wait
<1>4. ASSUME NEW b \in Catchers, WakeSpuriously(b) PROVE Reach(t)'
  BY <1>4 DEF WakeSpuriously
<1>5. ASSUME NEW b \in Catchers, Expire(b) PROVE Reach(t)'
  BY <1>5 DEF Expire
<1>6. ASSUME NEW b \in Catchers, Decide(b) PROVE Reach(t)'
  BY <1>6 DEF Decide
<1>7. ASSUME NEW b \in Catchers, TerminateCatcher(b) PROVE Reach(t)'
  BY <1>7 DEF TerminateCatcher
<1>8. ASSUME NEW b \in Callers, Trigger(b) PROVE Reach(t)'
  BY <1>8 DEF Trigger
<1>9. ASSUME NEW b \in Callers, Catch(b) PROVE Reach(t)'
  BY <1>9 DEF Catch
<1>10. ASSUME NEW b \in Callers, NotifyCatcher(b) PROVE Reach(t)'
  BY <1>10 DEF NotifyCatcher
<1>11. ASSUME NEW b \in Callers, Skip(b) PROVE Reach(t)'
  BY <1>11 DEF Skip
<1>12. ASSUME NEW b \in Callers, CallHost(b) PROVE Reach(t)'
  BY <1>12 DEF CallHost, Fail
<1>13. ASSUME NEW b \in Callers, Return(b) PROVE Reach(t)'
  BY <1>13 DEF Return
<1>14. ASSUME NEW b \in Callers, EmitUnknown(b) PROVE Reach(t)'
  BY <1>14 DEF EmitUnknown
<1>15. ASSUME NEW b \in Throwers, TerminateThrower(b) PROVE Reach(t)'
  BY <1>15 DEF TerminateThrower
<1> QED
  BY <1>1, <1>2, <1>3, <1>4, <1>5, <1>6, <1>7, <1>8, <1>9, <1>10, <1>11, <1>12,
     <1>13, <1>14, <1>15 DEF Next, Catcher, Caller

LEMMA HostsAttached ==
  ASSUME ReachInv, [Next]_vars
  PROVE  Hosts \subseteq attached'
BY DEF ReachInv, Next, Catcher, Caller, Start, Wait, WakeSpuriously, Wake, Expire,
       Decide, TerminateCatcher, Trigger, Catch, NotifyCatcher, Skip, CallHost,
       Return, EmitUnknown, TerminateThrower, vars, catchVars, throwVars

\* A throw without an exception, and a signal that emitSignal() confirms, has
\* emitted a token at every activity that listens (trigger(), emitSignal()).
THEOREM Reaches == Spec => []ThrowReaches
<1>1. Init => ReachInv
  BY InitInv DEF Init, ReachInv, OfReach, ThrowReaches, Slots, Callers
<1>2. ReachInv /\ [Next]_vars /\ EventInv' => ReachInv'
  <2> SUFFICES ASSUME ReachInv, [Next]_vars, EventInv' PROVE ReachInv'
    OBVIOUS
  <2>1. ASSUME NEW t \in Callers PROVE Reach(t)'
    BY ReachStep
  <2>2. Hosts \subseteq attached'
    BY HostsAttached
  <2> QED
    BY <2>1, <2>2 DEF ReachInv, Reach, ThrowReaches
<1>3. ReachInv => ThrowReaches
  BY DEF ReachInv
<1> QED
  BY <1>1, <1>2, <1>3, Inductive, PTL DEF Spec

LEMMA AttachedStep ==
  ASSUME EventInv, StillAttached, [Next]_vars
  PROVE  StillAttached'
BY DEF EventInv, TypeOK, StillAttached, Next, Catcher, Caller, Start, Wait,
       WakeSpuriously, Wake, Expire, Decide, TerminateCatcher, Trigger, Catch,
       NotifyCatcher, Skip, CallHost, Fail, Return, EmitUnknown, TerminateThrower,
       vars, catchVars, throwVars

\* A throw calls a catch event that waits, unless a slot fails first: it neither
\* returns nor goes on without having woken it up (trigger(), event_callback()).
THEOREM NotPassedByHolds == Spec => NotPassedBy
<1>1. Init => StillAttached
  BY DEF Init, StillAttached
<1>2. ASSUME EventInv, StillAttached, Next, NEW c \in Catchers, NEW t \in Callers,
             Calling(c, t), pc'[c] = "waiting"
      PROVE  \/ in'[t] = c
             \/ in[t] # c /\ (c \in todo'[t] \/ result'[t] \in {"exception", "false"})
  <2> USE <1>2 DEF EventInv, OfThrow, TypeOK, StillAttached, Calling, Wake, catchVars,
          throwVars, Callers, Slots
  <2>1. ASSUME NEW b \in Catchers,
               Start(b) \/ Wait(b) \/ WakeSpuriously(b) \/ Expire(b) \/ Decide(b) \/ TerminateCatcher(b)
        PROVE  in' = in /\ todo' = todo
    BY <2>1 DEF Start, Wait, WakeSpuriously, Expire, Decide, TerminateCatcher
  <2>2. ASSUME NEW b \in Callers, Trigger(b) PROVE in' = in /\ (b # t => todo'[t] = todo[t]) /\ b # t
    BY <2>2 DEF Trigger
  <2>3. CASE \E b \in Callers : Catch(b)
    BY <2>3 DEF Catch
  <2>4. CASE \E b \in Callers : NotifyCatcher(b)
    BY <2>4 DEF NotifyCatcher
  <2>5. CASE \E b \in Callers : Skip(b)
    BY <2>5 DEF Skip
  <2>6. CASE \E b \in Callers : CallHost(b)
    BY <2>6, EventsAssumption DEF CallHost, Fail
  <2>7. CASE \E b \in Callers : Return(b) \/ EmitUnknown(b)
    BY <2>7 DEF Return, EmitUnknown
  <2>8. CASE \E b \in Throwers : TerminateThrower(b)
    BY <2>8 DEF TerminateThrower
  <2> QED
    BY <2>1, <2>2, <2>3, <2>4, <2>5, <2>6, <2>7, <2>8 DEF Next, Catcher, Caller
<1>3. EventInv /\ StillAttached /\ [Next]_vars =>
        [\A c \in Catchers, t \in Callers :
           (Calling(c, t) /\ pc'[c] = "waiting") =>
              \/ in'[t] = c
              \/ in[t] # c /\ (c \in todo'[t] \/ result'[t] \in {"exception", "false"})]_vars
  BY <1>2 DEF vars
<1> QED
  BY <1>1, <1>3, AttachedStep, Inductive, PTL DEF Spec, NotPassedBy
=============================================================================
