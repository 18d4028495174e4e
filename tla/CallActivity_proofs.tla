------------------------ MODULE CallActivity_proofs ------------------------
(***************************************************************************)
(* For any calls of any processes: an inductive invariant of call          *)
(* activities, and the safety properties that follow from it.              *)
(***************************************************************************)
EXTENDS CallActivity, TLAPS

USE CallAssumption

LEMMA InitInv == Init => CallInv
<1> SUFFICES ASSUME Init PROVE CallInv
  OBVIOUS
<1> USE DEF Init
<1>1. TypeOK
  BY DEF TypeOK
<1>2. OutcomeIsTrue
  BY DEF OutcomeIsTrue
<1>3. ASSUME NEW c \in Calls PROVE Stored(c) /\ Called(c) /\ Woken(c)
  BY DEF Stored, Called, Woken
<1> QED
  BY <1>1, <1>2, <1>3 DEF CallInv

\* The actions one at a time: each has its own step in the proofs below.
LEMMA Cases ==
  ASSUME [Next]_vars
  PROVE  \/ UNCHANGED vars
         \/ \E c \in Calls :
              \/ Start(c) \/ Resume(c) \/ Wait(c) \/ WakeSpuriously(c) \/ Decide(c)
              \/ Execute(c) \/ Publish(c) \/ Callback(c) \/ Notify(c) \/ RunOver(c)
              \/ BeginInterrupt(c) \/ BeginTerminate(c) \/ Interrupt(c)
              \/ Terminate(c) \/ NotifyTerminated(c)
BY DEF Next, Thread, Run, Stopper

LEMMA NextType == TypeOK /\ [Next]_vars => TypeOK'
<1> SUFFICES ASSUME TypeOK, [Next]_vars PROVE TypeOK'
  OBVIOUS
<1> USE DEF TypeOK, vars, callVars, runVars
<1>1. CASE UNCHANGED vars
  BY <1>1
<1>2. ASSUME NEW c \in Calls, Start(c) \/ Resume(c) \/ Wait(c) \/ WakeSpuriously(c) PROVE TypeOK'
  BY <1>2 DEF Start, Resume, Wait, WakeSpuriously
<1>3. ASSUME NEW c \in Calls, Decide(c) PROVE TypeOK'
  BY <1>3 DEF Decide
<1>4. ASSUME NEW c \in Calls, Execute(c) \/ RunOver(c) PROVE TypeOK'
  BY <1>4 DEF Execute, RunOver
<1>5. ASSUME NEW c \in Calls, Publish(c) PROVE TypeOK'
  BY <1>5 DEF Publish
<1>6. ASSUME NEW c \in Calls, Callback(c) PROVE TypeOK'
  BY <1>6 DEF Callback, SetStatus
<1>7. ASSUME NEW c \in Calls, Notify(c) PROVE TypeOK'
  BY <1>7 DEF Notify
<1>8. ASSUME NEW c \in Calls, BeginInterrupt(c) \/ BeginTerminate(c) \/ NotifyTerminated(c)
      PROVE  TypeOK'
  <2>1. CASE BeginInterrupt(c)
    <3>1. interrupted' \in [Calls -> BOOLEAN]
      BY <2>1 DEF BeginInterrupt, MayStop
    <3> QED
      BY <2>1, <3>1 DEF BeginInterrupt
  <2>2. CASE BeginTerminate(c)
    BY <2>2 DEF BeginTerminate, MayStop
  <2>3. CASE NotifyTerminated(c)
    BY <2>3 DEF NotifyTerminated
  <2> QED
    BY <1>8, <2>1, <2>2, <2>3
<1>9. ASSUME NEW c \in Calls, NEW next \in {"interrupted", "joining"},
             Interrupt(c) \/ Terminate(c), Stop(c, next)
      PROVE  TypeOK'
  <2>1. stopper' \in [Calls -> {"none", "interrupting", "interrupted", "stopping",
                                "joining", "notified"}]
    BY <1>9 DEF Stop
  <2>2. stopped' \subseteq Calls /\ crashed' \in BOOLEAN
    BY <1>9 DEF Stop, RunsOf
  <2> QED
    BY <1>9, <2>1, <2>2 DEF Interrupt, Terminate
<1>10. ASSUME NEW c \in Calls, Interrupt(c) \/ Terminate(c) PROVE TypeOK'
  BY <1>9, <1>10 DEF Interrupt, Terminate
<1> QED
  BY <1>1, <1>2, <1>3, <1>4, <1>5, <1>6, <1>7, <1>8, <1>10, Cases

\* What is stored in a call is what a run has published.
LEMMA StoredStep ==
  ASSUME CallInv, [Next]_vars, NEW c \in Calls
  PROVE  Stored(c)'
<1> USE DEF CallInv, TypeOK, vars, callVars, runVars, Stored, Called, SameCallee
<1>1. CASE UNCHANGED vars
  BY <1>1
<1>2. ASSUME NEW b \in Calls, Start(b) \/ Resume(b) \/ Wait(b) \/ WakeSpuriously(b) \/ Decide(b)
      PROVE  Stored(c)'
  BY <1>2 DEF Start, Resume, Wait, WakeSpuriously, Decide
<1>3. ASSUME NEW b \in Calls, Execute(b) \/ RunOver(b) PROVE Stored(c)'
  <2>1. CASE Execute(b)
    BY <2>1 DEF Execute
  <2>2. CASE RunOver(b)
    BY <2>2 DEF RunOver
  <2> QED
    BY <1>3, <2>1, <2>2
<1>4. ASSUME NEW b \in Calls, Publish(b) PROVE Stored(c)'
  BY <1>4 DEF Publish
<1>5. ASSUME NEW b \in Calls, Callback(b) PROVE Stored(c)'
  <2>1. CASE notifying'[b] = c
    BY <1>5, <2>1 DEF Callback, SetStatus
  <2>2. CASE notifying'[b] # c
    BY <1>5, <2>2 DEF Callback, SetStatus
  <2> QED
    BY <2>1, <2>2
<1>6. ASSUME NEW b \in Calls, Notify(b) PROVE Stored(c)'
  BY <1>6 DEF Notify
<1>7. ASSUME NEW b \in Calls, BeginInterrupt(b) \/ BeginTerminate(b) \/ NotifyTerminated(b)
      PROVE  Stored(c)'
  <2>1. CASE BeginInterrupt(b)
    BY <2>1 DEF BeginInterrupt, MayStop
  <2>2. CASE BeginTerminate(b)
    BY <2>2 DEF BeginTerminate, MayStop
  <2>3. CASE NotifyTerminated(b)
    BY <2>3 DEF NotifyTerminated
  <2> QED
    BY <1>7, <2>1, <2>2, <2>3
<1>8. ASSUME NEW b \in Calls, Interrupt(b) \/ Terminate(b) PROVE Stored(c)'
  BY <1>8 DEF Interrupt, Terminate, Stop
<1> QED
  BY <1>1, <1>2, <1>3, <1>4, <1>5, <1>6, <1>7, <1>8, Cases

\* A run calls the callbacks of calls to its process, each at most once.
LEMMA CalledStep ==
  ASSUME CallInv, [Next]_vars, NEW c \in Calls
  PROVE  Called(c)'
<1> USE DEF CallInv, TypeOK, vars, callVars, runVars, Called, SameCallee
<1>1. CASE UNCHANGED vars
  BY <1>1
<1>2. ASSUME NEW b \in Calls, Start(b) \/ Resume(b) \/ Wait(b) \/ WakeSpuriously(b) \/ Decide(b)
      PROVE  Called(c)'
  BY <1>2 DEF Start, Resume, Wait, WakeSpuriously, Decide, Stored
<1>3. ASSUME NEW b \in Calls, Execute(b) \/ RunOver(b) PROVE Called(c)'
  BY <1>3 DEF Execute, RunOver
<1>4. ASSUME NEW b \in Calls, Publish(b) PROVE Called(c)'
  BY <1>4 DEF Publish, Concerns
<1>5. ASSUME NEW b \in Calls, Callback(b) PROVE Called(c)'
  BY <1>5 DEF Callback, SetStatus
<1>6. ASSUME NEW b \in Calls, Notify(b) PROVE Called(c)'
  BY <1>6 DEF Notify
<1>7. ASSUME NEW b \in Calls, BeginInterrupt(b) \/ BeginTerminate(b) \/ NotifyTerminated(b)
      PROVE  Called(c)'
  BY <1>7 DEF BeginInterrupt, BeginTerminate, NotifyTerminated
<1>8. ASSUME NEW b \in Calls, Interrupt(b) \/ Terminate(b) PROVE Called(c)'
  BY <1>8 DEF Interrupt, Terminate, Stop
<1> QED
  BY <1>1, <1>2, <1>3, <1>4, <1>5, <1>6, <1>7, <1>8, Cases

\* A call that nothing disturbs is woken by its own run alone, once.
LEMMA WokenStep ==
  ASSUME CallInv, [Next]_vars, NEW c \in Calls
  PROVE  Woken(c)'
<1> USE DEF CallInv, TypeOK, vars, callVars, runVars, Woken, Called, Stored, Alone,
       Undisturbed, SameCallee
<1>1. CASE UNCHANGED vars
  BY <1>1
<1>2. ASSUME NEW b \in Calls, Start(b) \/ Resume(b) \/ Wait(b) \/ WakeSpuriously(b) \/ Decide(b)
      PROVE  Woken(c)'
  BY <1>2 DEF Start, Resume, Wait, WakeSpuriously, Decide
<1>3. ASSUME NEW b \in Calls, Execute(b) \/ RunOver(b) PROVE Woken(c)'
  BY <1>3 DEF Execute, RunOver
<1>4. ASSUME NEW b \in Calls, Publish(b) PROVE Woken(c)'
  BY <1>4 DEF Publish
<1>5. ASSUME NEW b \in Calls, Callback(b) PROVE Woken(c)'
  BY <1>5 DEF Callback
<1>6. ASSUME NEW b \in Calls, Notify(b) PROVE Woken(c)'
  BY <1>6 DEF Notify
<1>7. ASSUME NEW b \in Calls, BeginInterrupt(b) \/ BeginTerminate(b) \/ NotifyTerminated(b)
      PROVE  Woken(c)'
  <2>1. CASE BeginInterrupt(b)
    BY <2>1 DEF BeginInterrupt, MayStop
  <2>2. CASE BeginTerminate(b)
    BY <2>2 DEF BeginTerminate, MayStop
  <2>3. CASE NotifyTerminated(b)
    BY <2>3 DEF NotifyTerminated
  <2> QED
    BY <1>7, <2>1, <2>2, <2>3
<1>8. ASSUME NEW b \in Calls, Interrupt(b) \/ Terminate(b) PROVE Woken(c)'
  BY <1>8 DEF Interrupt, Terminate, Stop, RunsOf
<1> QED
  BY <1>1, <1>2, <1>3, <1>4, <1>5, <1>6, <1>7, <1>8, Cases

\* The outcome of a call is decided from what is stored.
LEMMA OutcomeStep ==
  ASSUME CallInv, [Next]_vars, TypeOK', \A c \in Calls : Stored(c)'
  PROVE  OutcomeIsTrue'
<1> USE DEF CallInv, TypeOK, vars, callVars, runVars, OutcomeIsTrue, Alone,
            SameCallee
<1>1. CASE UNCHANGED vars
  BY <1>1
<1>2. ASSUME NEW b \in Calls, Start(b) \/ Resume(b) \/ Wait(b) \/ WakeSpuriously(b) PROVE OutcomeIsTrue'
  BY <1>2 DEF Start, Resume, Wait, WakeSpuriously, Stored
<1>3. ASSUME NEW b \in Calls, Decide(b) PROVE OutcomeIsTrue'
  BY <1>3 DEF Decide, Stored
<1>4. ASSUME NEW b \in Calls, Execute(b) \/ Publish(b) \/ RunOver(b) PROVE OutcomeIsTrue'
  BY <1>4 DEF Execute, Publish, RunOver
<1>5. ASSUME NEW b \in Calls, Callback(b) \/ Notify(b) PROVE OutcomeIsTrue'
  BY <1>5 DEF Callback, Notify
<1>6. ASSUME NEW b \in Calls, BeginInterrupt(b) \/ BeginTerminate(b) \/ NotifyTerminated(b)
      PROVE  OutcomeIsTrue'
  BY <1>6 DEF BeginInterrupt, BeginTerminate, NotifyTerminated, MayStop
<1>7. ASSUME NEW b \in Calls, Interrupt(b) \/ Terminate(b) PROVE OutcomeIsTrue'
  BY <1>7 DEF Interrupt, Terminate, Stop
<1> QED
  BY <1>1, <1>2, <1>3, <1>4, <1>5, <1>6, <1>7, Cases

\* The invariant holds in every reachable state.
THEOREM Inductive == Spec => []CallInv
<1>1. CallInv /\ [Next]_vars => CallInv'
  <2> SUFFICES ASSUME CallInv, [Next]_vars PROVE CallInv'
    OBVIOUS
  <2>1. TypeOK'
    BY NextType DEF CallInv
  <2>2. ASSUME NEW c \in Calls PROVE (Stored(c) /\ Called(c) /\ Woken(c))'
    BY StoredStep, CalledStep, WokenStep
  <2>3. OutcomeIsTrue'
    BY <2>1, <2>2, OutcomeStep
  <2> QED
    BY <2>1, <2>2, <2>3 DEF CallInv
<1> QED
  BY <1>1, InitInv, PTL DEF Spec

\* The outcome of a call (CallActivity.cpp, activity()) is that of a run of the
\* process it names.
THEOREM TrueOutcome == Spec => []OutcomeIsTrue
<1>1. CallInv => OutcomeIsTrue
  BY DEF CallInv
<1> QED
  BY <1>1, Inductive, PTL

\* A call that is alone goes on only after its run, or after it was told to end.
THEOREM RunNotLeft == Spec => []NoRunLeftBehind
<1>1. CallInv => NoRunLeftBehind
  BY DEF CallInv, TypeOK, NoRunLeftBehind, Woken, Undisturbed
<1> QED
  BY <1>1, Inductive, PTL

\* The raw pointer that the callback holds is not used after the call is gone.
THEOREM CallbackAlive == Spec => []NoDanglingCallback
<1>1. CallInv => NoDanglingCallback
  BY DEF CallInv, TypeOK, NoDanglingCallback, Called, Woken, Undisturbed, Alone,
         SameCallee
<1> QED
  BY <1>1, Inductive, PTL

LEMMA ConnectedStep ==
  ASSUME CallInv, Connected, [Next]_vars
  PROVE  Connected'
<1> USE DEF CallInv, TypeOK, Connected, vars, callVars, runVars
<1>1. CASE UNCHANGED vars
  BY <1>1
<1>2. ASSUME NEW b \in Calls, Start(b) \/ Resume(b) \/ Wait(b) \/ WakeSpuriously(b) \/ Decide(b)
      PROVE  Connected'
  BY <1>2 DEF Start, Resume, Wait, WakeSpuriously, Decide
<1>3. ASSUME NEW b \in Calls, Execute(b) \/ Publish(b) \/ Callback(b) \/ RunOver(b)
      PROVE  Connected'
  BY <1>3 DEF Execute, Publish, Callback, RunOver
<1>4. ASSUME NEW b \in Calls, Notify(b) \/ NotifyTerminated(b) PROVE Connected'
  BY <1>4 DEF Notify, NotifyTerminated
<1>5. ASSUME NEW b \in Calls,
             BeginInterrupt(b) \/ BeginTerminate(b) \/ Interrupt(b) \/ Terminate(b)
      PROVE  Connected'
  BY <1>5 DEF BeginInterrupt, BeginTerminate, Interrupt, Terminate
<1> QED
  BY <1>1, <1>2, <1>3, <1>4, <1>5, Cases

\* The end of the called process is not lost on a call that waits for it: each run
\* calls back those that are connected, and each that is called back is woken up
\* (Model::notifyOfTokenTermination, CallActivity.cpp:57).
THEOREM NotPassedByHolds == Spec => NotPassedBy
<1> DEFINE Kept(c, d) ==
      pc[c] = "waiting" /\ pc'[c] = "waiting" /\ SameCallee(c, d) =>
        /\ run[d] \in {"emitted", "executing"} =>
             run'[d] \in {"emitted", "executing"} \/ c \in slots'[d]
        /\ c \in slots[d] => c \in slots'[d] \/ notifying'[d] = c
        /\ notifying[d] = c => notifying'[d] = c
<1>1. Init => Connected
  BY DEF Init, Connected
<1>2. ASSUME CallInv, Connected, [Next]_vars, NEW c \in Calls, NEW d \in Calls
      PROVE  Kept(c, d)
  <2> USE <1>2 DEF CallInv, TypeOK, Connected, Called, SameCallee, vars, callVars, runVars
  <2>1. CASE UNCHANGED vars
    BY <2>1
  <2>2. ASSUME NEW b \in Calls, Start(b) \/ Resume(b) \/ Wait(b) \/ WakeSpuriously(b) \/ Decide(b)
        PROVE  Kept(c, d)
    BY <2>2 DEF Start, Resume, Wait, WakeSpuriously, Decide, Stored
  <2>3. ASSUME NEW b \in Calls, Execute(b) \/ RunOver(b) PROVE Kept(c, d)
    BY <2>3 DEF Execute, RunOver
  <2>4. ASSUME NEW b \in Calls, Publish(b) PROVE Kept(c, d)
    BY <2>4 DEF Publish, Concerns
  <2>5. ASSUME NEW b \in Calls, Callback(b) PROVE Kept(c, d)
    BY <2>5 DEF Callback
  <2>6. ASSUME NEW b \in Calls, Notify(b) \/ NotifyTerminated(b) PROVE Kept(c, d)
    BY <2>6 DEF Notify, NotifyTerminated
  <2>7. ASSUME NEW b \in Calls,
               BeginInterrupt(b) \/ BeginTerminate(b) \/ Interrupt(b) \/ Terminate(b)
        PROVE  Kept(c, d)
    BY <2>7 DEF BeginInterrupt, BeginTerminate, Interrupt, Terminate, Stop
  <2> QED
    BY <2>1, <2>2, <2>3, <2>4, <2>5, <2>6, <2>7, Cases
<1>3. CallInv /\ Connected /\ [Next]_vars => [\A c, d \in Calls : Kept(c, d)]_vars
  BY <1>2
<1> QED
  BY <1>1, <1>3, ConnectedStep, Inductive, PTL DEF Spec, NotPassedBy
=============================================================================
