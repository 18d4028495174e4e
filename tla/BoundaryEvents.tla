--------------------------- MODULE BoundaryEvents ---------------------------
(***************************************************************************)
(* The boundary events of an activity.  Each token that executes the       *)
(* activity has a copy of it, a host; the boundary events are shared by    *)
(* all copies.  A host attaches its callback to each of them, one after    *)
(* the other, and starts them: the timer launches a thread that waits, and *)
(* keeps the future of the latest.  A boundary event that is triggered     *)
(* calls the hosts attached to it; in an interrupting one they store which *)
(* it was and are interrupted.  An activity that returns reads both, the   *)
(* flag first if it is a task of a connector, and the event first if it is *)
(* a call activity or a process.  A host that ends detaches, notifies the  *)
(* timer and waits for the future.                                         *)
(***************************************************************************)
EXTENDS FiniteSets

CONSTANTS Hosts,
          Timer, Signals,  \* the boundary events
          Interrupting,    \* those with cancelActivity
          NoHost, NoEvent

Boundaries == Signals \cup {Timer}
Triggers == Hosts \cup Signals  \* a host stands for the timer thread it has launched

ASSUME BoundaryAssumption ==
  /\ Timer \notin Signals /\ Interrupting \subseteq Boundaries
  /\ Hosts \cap Signals = {} /\ NoHost \notin Hosts /\ NoEvent \notin Boundaries

VARIABLES
  pc,          \* where the thread of a host is
  attached,    \* the connected callbacks: pairs of a host and a boundary event
  interrupter, \* interrupting_boundary_event_uuid_
  interrupted, \* is_interrupted_
  outcome,
  timer,       \* where the timer thread of a host is
  future,      \* timer_future_: the host that has launched the latest timer
  blocked,     \* whose timer an assignment to timer_future_ waits for
  at,          \* where a trigger is
  todo,        \* the hosts that it has yet to call
  in,          \* the host it is in
  spawned,     \* the non-interrupting events that have emitted a token
  copiesFirst, \* whether the activity copies the event before it reads the flag
  copy,        \* the event that a host has copied
  shared       \* history: the hosts that were not alone

hostVars == <<pc, attached, outcome>>
timerVars == <<timer, future, blocked>>
triggerVars == <<interrupter, interrupted, at, todo, in, spawned>>
copyVars == <<copiesFirst, copy>>
vars == <<hostVars, timerVars, triggerVars, copyVars, shared>>

Event(x) == IF x \in Signals THEN x ELSE Timer
\* A host whose exception skipped the cleanup has left its callbacks and its
\* timer behind.
Running(h) == pc[h] \notin {"idle", "over"}
\* timer_mutex_ is held while the timer triggers.
TimerMutexFree == \A h \in Hosts : timer[h] # "firing"

TypeOK ==
  /\ pc \in [Hosts -> {"idle", "activating", "working", "naming", "judging", "cleanup",
                       "detached", "draining", "over", "raised"}]
  /\ attached \subseteq Hosts \X Boundaries
  /\ interrupter \in [Hosts -> Boundaries \cup {NoEvent}]
  /\ interrupted \in [Hosts -> BOOLEAN]
  /\ outcome \in [Hosts -> {"none", "OK"} \cup Boundaries \cup {NoEvent}]
  /\ timer \in [Hosts -> {"none", "launched", "waiting", "expired", "woken",
                          "firing", "done"}]
  /\ future \in Hosts \cup {NoHost} /\ blocked \in [Hosts -> Hosts \cup {NoHost}]
  /\ at \in [Triggers -> {"idle", "calling", "done"}]
  /\ todo \in [Triggers -> SUBSET Hosts]
  /\ in \in [Triggers -> Hosts \cup {NoHost}]
  /\ spawned \subseteq Boundaries \ Interrupting /\ shared \subseteq Hosts
  /\ copiesFirst \in BOOLEAN /\ copy \in [Hosts -> Boundaries \cup {NoEvent}]

Init ==
  /\ pc = [h \in Hosts |-> "idle"] /\ attached = {}
  /\ interrupter = [h \in Hosts |-> NoEvent]
  /\ interrupted = [h \in Hosts |-> FALSE]
  /\ outcome = [h \in Hosts |-> "none"]
  /\ timer = [h \in Hosts |-> "none"]
  /\ future = NoHost /\ blocked = [h \in Hosts |-> NoHost]
  /\ at = [x \in Triggers |-> "idle"] /\ todo = [x \in Triggers |-> {}]
  /\ in = [x \in Triggers |-> NoHost]
  /\ spawned = {} /\ shared = {}
  /\ copiesFirst \in BOOLEAN /\ copy = [h \in Hosts |-> NoEvent]
-----------------------------------------------------------------------------
(* Mutants: what a plausible bug would make of the definitions below.      *)

\* cleanup() does not wait for the timer thread.
DrainNothing(h) == pc[h] = "draining"

\* The timer is not notified.
CancelNothing(h) ==
  /\ pc[h] = "detached"
  /\ pc' = [pc EXCEPT ![h] = "draining"]
  /\ UNCHANGED <<attached, outcome, timerVars, triggerVars, copyVars, shared>>

\* The activity is interrupted before the event is stored.
StoreLate(x) ==
  /\ interrupted' = [interrupted EXCEPT ![in'[x]] = TRUE]
  /\ UNCHANGED interrupter
-----------------------------------------------------------------------------
(* The thread of a host: start(), activity(), cleanup().                   *)

Begin(h) ==
  /\ pc[h] = "idle"
  /\ pc' = [pc EXCEPT ![h] = "activating"]
  /\ LET others == {g \in Hosts : Running(g)} IN
       shared' = IF others = {} THEN shared ELSE shared \cup others \cup {h}
  /\ UNCHANGED <<attached, outcome, timerVars, triggerVars, copyVars>>

\* The start of the timer: its new thread becomes the future of the event, and
\* the one that it replaces is waited for.
Activate(h) ==
  /\ pc[h] = "activating" /\ blocked[h] = NoHost
  /\ \E b \in Boundaries :
       /\ <<h, b>> \notin attached
       /\ attached' = attached \cup {<<h, b>>}
       /\ IF b = Timer
          THEN /\ timer' = [timer EXCEPT ![h] = "launched"]
               /\ future' = h
               /\ blocked' = [blocked EXCEPT ![h] = future]
          ELSE UNCHANGED timerVars
  /\ UNCHANGED <<pc, outcome, triggerVars, copyVars, shared>>

Unblock(h) ==
  /\ blocked[h] # NoHost /\ timer[blocked[h]] = "done"
  /\ blocked' = [blocked EXCEPT ![h] = NoHost]
  /\ UNCHANGED <<hostVars, timer, future, triggerVars, copyVars, shared>>

Work(h) ==
  /\ pc[h] = "activating" /\ blocked[h] = NoHost
  /\ \A b \in Boundaries : <<h, b>> \in attached
  /\ pc' = [pc EXCEPT ![h] = "working"]
  /\ UNCHANGED <<attached, outcome, timerVars, triggerVars, copyVars, shared>>

\* The activity throws: there is no cleanup.
Throws(h) ==
  /\ pc[h] = "working"
  /\ pc' = [pc EXCEPT ![h] = "raised"]
  /\ UNCHANGED <<attached, outcome, timerVars, triggerVars, copyVars, shared>>

\* The task of a connector reads the flag, and then the event.
ReadFlag(h) ==
  /\ pc[h] = "working" /\ ~copiesFirst
  /\ \/ /\ interrupted[h]
        /\ pc' = [pc EXCEPT ![h] = "naming"]
        /\ UNCHANGED outcome
     \/ /\ ~interrupted[h]
        /\ pc' = [pc EXCEPT ![h] = "cleanup"]
        /\ outcome' = [outcome EXCEPT ![h] = "OK"]
  /\ UNCHANGED <<attached, timerVars, triggerVars, copyVars, shared>>

NameInterrupter(h) ==
  /\ pc[h] = "naming"
  /\ pc' = [pc EXCEPT ![h] = "cleanup"]
  /\ outcome' = [outcome EXCEPT ![h] = interrupter[h]]
  /\ UNCHANGED <<attached, timerVars, triggerVars, copyVars, shared>>

\* A call activity or a process copies the event, and reads the flag later.
CopyInterrupter(h) ==
  /\ pc[h] = "working" /\ copiesFirst
  /\ pc' = [pc EXCEPT ![h] = "judging"]
  /\ copy' = [copy EXCEPT ![h] = interrupter[h]]
  /\ UNCHANGED <<attached, outcome, timerVars, triggerVars, copiesFirst, shared>>

Judge(h) ==
  /\ pc[h] = "judging"
  /\ pc' = [pc EXCEPT ![h] = "cleanup"]
  /\ outcome' = [outcome EXCEPT ![h] = IF interrupted[h] THEN copy[h] ELSE "OK"]
  /\ UNCHANGED <<attached, timerVars, triggerVars, copyVars, shared>>

Detach(h) ==
  /\ pc[h] = "cleanup"
  /\ pc' = [pc EXCEPT ![h] = "detached"]
  /\ attached' = attached \ ({h} \X Boundaries)
  /\ UNCHANGED <<outcome, timerVars, triggerVars, copyVars, shared>>

\* notify_all(), without the mutex and whether or not the timer waits yet.
CancelTimer(h) ==
  /\ pc[h] = "detached"
  /\ pc' = [pc EXCEPT ![h] = "draining"]
  /\ timer' = [g \in Hosts |-> IF timer[g] = "waiting" THEN "woken" ELSE timer[g]]
  /\ UNCHANGED <<attached, outcome, future, blocked, triggerVars, copyVars, shared>>

Drained(h) == pc[h] = "draining" /\ timer[future] = "done"

Leave(h) ==
  /\ Drained(h)
  /\ pc' = [pc EXCEPT ![h] = "over"]
  /\ UNCHANGED <<attached, outcome, timerVars, triggerVars, copyVars, shared>>
-----------------------------------------------------------------------------
(* The timer thread that a host has launched.                              *)

\* An expression that does not evaluate to a time ends the thread.
TimerWaits(h) ==
  /\ timer[h] = "launched" /\ TimerMutexFree
  /\ \E s \in {"waiting", "done"} : timer' = [timer EXCEPT ![h] = s]
  /\ UNCHANGED <<hostVars, future, blocked, triggerVars, copyVars, shared>>

\* Time passes, or the wait ends by itself.
TimeOut(h) ==
  /\ timer[h] = "waiting"
  /\ \E s \in {"expired", "woken"} : timer' = [timer EXCEPT ![h] = s]
  /\ UNCHANGED <<hostVars, future, blocked, triggerVars, copyVars, shared>>

TimerWakes(h) ==
  /\ timer[h] \in {"expired", "woken"} /\ TimerMutexFree
  /\ \/ /\ timer[h] = "expired"
        /\ timer' = [timer EXCEPT ![h] = "firing"]
        /\ at' = [at EXCEPT ![h] = "calling"]
        /\ todo' = [todo EXCEPT ![h] = {g \in Hosts : <<g, Timer>> \in attached}]
     \/ /\ timer[h] = "woken"
        /\ timer' = [timer EXCEPT ![h] = "done"]
        /\ UNCHANGED <<at, todo>>
  /\ UNCHANGED <<hostVars, future, blocked, interrupter, interrupted, in, spawned, copyVars, shared>>

TimerEnds(h) ==
  /\ timer[h] = "firing" /\ todo[h] = {} /\ in[h] = NoHost
  /\ timer' = [timer EXCEPT ![h] = "done"]
  /\ at' = [at EXCEPT ![h] = "done"]
  /\ UNCHANGED <<hostVars, future, blocked, interrupter, interrupted, todo, in, spawned, copyVars, shared>>
-----------------------------------------------------------------------------
(* A trigger: the callbacks of the hosts that are attached.                *)

Throw(s) ==
  /\ s \in Signals /\ at[s] = "idle"
  /\ at' = [at EXCEPT ![s] = "calling"]
  /\ todo' = [todo EXCEPT ![s] = {h \in Hosts : <<h, s>> \in attached}]
  /\ UNCHANGED <<hostVars, timerVars, interrupter, interrupted, in, spawned, copyVars, shared>>

Store(x) ==
  /\ interrupter' = [interrupter EXCEPT ![in'[x]] = Event(x)]
  /\ UNCHANGED interrupted

\* One that was disconnected meanwhile is skipped.
CallHost(x) ==
  /\ at[x] = "calling" /\ in[x] = NoHost
  /\ \E h \in todo[x] :
       /\ todo' = [todo EXCEPT ![x] = @ \ {h}]
       /\ \/ /\ <<h, Event(x)>> \notin attached
             /\ UNCHANGED <<interrupter, interrupted, in, spawned>>
          \/ /\ <<h, Event(x)>> \in attached /\ Event(x) \in Interrupting
             /\ in' = [in EXCEPT ![x] = h]
             /\ Store(x)
             /\ UNCHANGED spawned
          \/ /\ <<h, Event(x)>> \in attached /\ Event(x) \notin Interrupting
             /\ in' = [in EXCEPT ![x] = h]
             /\ spawned' = spawned \cup {Event(x)}
             /\ UNCHANGED <<interrupter, interrupted>>
  /\ UNCHANGED <<hostVars, timerVars, at, copyVars, shared>>

\* interrupt(), and the end of the callback.
EndCallback(x) ==
  /\ in[x] # NoHost
  /\ in' = [in EXCEPT ![x] = NoHost]
  /\ interrupted' = [interrupted EXCEPT ![in[x]] = @ \/ Event(x) \in Interrupting]
  /\ UNCHANGED <<hostVars, timerVars, interrupter, at, todo, spawned, copyVars, shared>>
-----------------------------------------------------------------------------
Host(h) ==
  \/ Begin(h) \/ Activate(h) \/ Unblock(h) \/ Work(h) \/ Throws(h)
  \/ ReadFlag(h) \/ NameInterrupter(h) \/ CopyInterrupter(h) \/ Judge(h)
  \/ Detach(h) \/ CancelTimer(h) \/ Leave(h)
TimerThread(h) == TimerWaits(h) \/ TimerWakes(h) \/ TimerEnds(h)
Calling(x) == CallHost(x) \/ EndCallback(x)

Next ==
  \/ \E h \in Hosts : Host(h) \/ TimerThread(h) \/ TimeOut(h)
  \/ \E s \in Signals : Throw(s)
  \/ \E x \in Triggers : Calling(x)

Spec == Init /\ [][Next]_vars

\* The threads run; no timer is bound to expire.
FairSpec ==
  /\ Spec
  /\ \A h \in Hosts : WF_vars(Host(h)) /\ WF_vars(TimerThread(h))
  /\ \A x \in Triggers : WF_vars(Calling(x))
-----------------------------------------------------------------------------
(* A host that has ended, and was alone, has no timer thread left: none    *)
(* that waits, and none that still calls it with a raw pointer.            *)
TimerStopped ==
  \A h \in Hosts :
    pc[h] = "over" /\ h \notin shared =>
      timer[h] = "done" /\ (\A x \in Hosts : in[x] # h)

(* An interrupted activity names an event that interrupts, and the token   *)
(* goes on there: a task of a connector always, a call activity or process *)
(* unless the event was stored after it had copied it: then it names none, *)
(* and the token ends.                                                     *)
Named(h) == outcome[h] \in Interrupting \/ (copiesFirst /\ copy[h] = NoEvent)

InterrupterKnown == \A h \in Hosts : outcome[h] \notin {"none", "OK"} => Named(h)

(* Why these hold: a host that is interrupted has been told by an event    *)
(* that interrupts; a timer thread that still runs is the latest, or the   *)
(* one that an activation waits for; a host that is alone has launched the *)
(* latest.                                                                 *)
Told(h) ==
  /\ interrupter[h] \in Interrupting \cup {NoEvent}
  /\ interrupted[h] => interrupter[h] \in Interrupting
  /\ copy[h] \in Interrupting \cup {NoEvent}
  /\ pc[h] \in {"idle", "activating", "working"} => outcome[h] = "none"
  /\ pc[h] = "naming" => interrupted[h]
  /\ pc[h] = "judging" => copiesFirst
  /\ outcome[h] \notin {"none", "OK"} => Named(h)

Calls(x) ==
  in[x] # NoHost => /\ x \in Hosts => timer[x] = "firing"
                    /\ Event(x) \in Interrupting => interrupter[in[x]] \in Interrupting

Launched(h) ==
  /\ timer[h] \notin {"none", "done"} => future = h \/ \E g \in Hosts : blocked[g] = h
  /\ blocked[h] # NoHost => pc[h] = "activating"
  /\ at[h] = "calling" => timer[h] = "firing"

Attached(h) ==
  /\ pc[h] \in {"idle", "detached", "draining", "over"} =>
       \A b \in Boundaries : <<h, b>> \notin attached
  /\ pc[h] \in {"working", "naming", "judging", "cleanup"} => <<h, Timer>> \in attached

Fresh(h) ==
  pc[h] \in {"idle", "activating"} /\ <<h, Timer>> \notin attached => timer[h] = "none"

Alone(h) ==
  h \notin shared =>
    /\ Running(h) => \A g \in Hosts \ {h} : ~Running(g)
    /\ pc[h] \in {"detached", "draining"} \/ <<h, Timer>> \in attached => future = h
    /\ pc[h] = "over" => timer[h] = "done" /\ (\A x \in Hosts : in[x] # h)

BoundaryInv ==
  /\ TypeOK
  /\ \A h \in Hosts : Told(h) /\ Launched(h) /\ Attached(h) /\ Fresh(h) /\ Alone(h)
  /\ \A x \in Triggers : Calls(x)

(* A host that was alone ends although its timer does not expire, if the   *)
(* timer has begun to wait before the host notifies it.  (A timer that has *)
(* not misses the notification: the host waits until it expires.)          *)
CleanupReturns ==
  \A h \in Hosts :
    (pc[h] = "detached" /\ timer[h] = "waiting" /\ h \notin shared)
      ~> (pc[h] = "over" \/ h \in shared)
=============================================================================
