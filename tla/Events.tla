------------------------------- MODULE Events -------------------------------
(***************************************************************************)
(* Model events: those who throw an event call the slots attached to it    *)
(* one by one, in their own thread.  Intermediate catch events and start   *)
(* events wait for theirs; an activity emits a token for a non-            *)
(* interrupting boundary event, and its slot fails if a condition on the   *)
(* way refers to missing data.  Throw events, end events and               *)
(* Model::emitSignal throw.                                                *)
(***************************************************************************)
EXTENDS Naturals, FiniteSets

CONSTANTS Events,
          Catchers, Hosts,   \* catch and start events; activities
          Listens,           \* the event that each of them is attached to
          Throwers, Outside, \* throw and end events; calls of emitSignal
          Throws,            \* the event that each of them throws
          Resuming,          \* the catch events that a snapshot brings back
          Timed,             \* the catch events that wait for a timer instead
          NoOne,
          MaxDisturbed       \* bound: nodes terminated, or woken up by themselves

Slots == Catchers \cup Hosts
Callers == Throwers \cup Outside

ASSUME EventsAssumption ==
  /\ Catchers \cap Hosts = {} /\ Throwers \cap Outside = {}
  /\ DOMAIN Listens = Slots /\ DOMAIN Throws = Callers
  /\ \A s \in Slots : Listens[s] \in Events
  /\ \A t \in Callers : Throws[t] \in Events
  /\ Resuming \subseteq Catchers /\ Timed \subseteq Catchers /\ NoOne \notin Slots
  /\ MaxDisturbed \in Nat

VARIABLES
  pc,       \* where the thread of a catch event is
  attached, \* the slots that are connected
  caught,   \* event_caught_, or that the wait has timed out
  outcome,  \* of a catch event
  at,       \* where a caller of trigger() is
  todo,     \* the slots it has yet to call
  in,       \* the slot it is in
  result,   \* of a caller
  spawned,  \* the activities that have emitted a token for their event
  stopped,  \* the nodes that were terminated
  spurious, \* history: the catch events that woke up by themselves
  heard     \* history: the slots whose event was thrown while they were attached

catchVars == <<pc, attached, caught, outcome>>
throwVars == <<at, todo, in, result, spawned, heard>>
vars == <<catchVars, throwVars, stopped, spurious>>

TypeOK ==
  /\ pc \in [Catchers -> {"idle", "started", "waiting", "woken", "ended"}]
  /\ attached \subseteq Slots
  /\ caught \in [Catchers -> BOOLEAN]
  /\ outcome \in [Catchers -> {"none", "OK", "CANCELLED"}]
  /\ at \in [Callers -> {"idle", "triggering", "returned"}]
  /\ todo \in [Callers -> SUBSET Slots]
  /\ in \in [Callers -> Slots \cup {NoOne}]
  /\ result \in [Callers -> {"none", "OK", "CANCELLED", "exception", "true", "false"}]
  /\ spawned \subseteq Hosts /\ heard \subseteq Slots
  /\ stopped \subseteq Catchers \cup Throwers /\ spurious \subseteq Catchers

Init ==
  /\ pc = [c \in Catchers |-> "idle"]
  /\ attached = Hosts
  /\ caught = [c \in Catchers |-> FALSE]
  /\ outcome = [c \in Catchers |-> "none"]
  /\ at = [t \in Callers |-> "idle"]
  /\ todo = [t \in Callers |-> {}] /\ in = [t \in Callers |-> NoOne]
  /\ result = [t \in Callers |-> "none"]
  /\ spawned = {} /\ stopped = {} /\ spurious = {} /\ heard = {}
-----------------------------------------------------------------------------
(* Mutants: what a plausible bug would make of the definitions below.      *)

\* The flag is set after the notification.
CatchLate(t) ==
  /\ at[t] = "triggering" /\ in[t] = NoOne
  /\ \E c \in todo[t] \cap Catchers :
       /\ todo' = [todo EXCEPT ![t] = @ \ {c}]
       /\ in' = [in EXCEPT ![t] = c]
       /\ caught' = [caught EXCEPT ![c] = pc[c] = "woken"]
  /\ UNCHANGED <<pc, attached, outcome, at, result, spawned, heard, stopped, spurious>>

\* The slot of a catch event is called until the event is detached.
CatchAgain(t) ==
  /\ at[t] = "triggering" /\ in[t] = NoOne
  /\ \E c \in todo[t] \cap attached \cap Catchers :
       /\ in' = [in EXCEPT ![t] = c]
       /\ caught' = [caught EXCEPT ![c] = TRUE]
  /\ UNCHANGED <<pc, attached, outcome, at, todo, result, spawned, heard, stopped, spurious>>

\* The callback does not notify.
CatchQuietly(t) ==
  /\ in[t] # NoOne
  /\ in' = [in EXCEPT ![t] = NoOne]
  /\ UNCHANGED <<catchVars, at, todo, result, spawned, heard, stopped, spurious>>

\* A slot that fails is skipped.
SkipFailed(t, h) ==
  /\ todo' = [todo EXCEPT ![t] = @ \ {h}]
  /\ UNCHANGED <<at, result>>
-----------------------------------------------------------------------------
(* Catch events and start events: start(), activity(), cleanup().          *)

\* resume() does not attach, and a timer has no event.
Start(c) ==
  /\ pc[c] = "idle"
  /\ pc' = [pc EXCEPT ![c] = "started"]
  /\ attached' = IF c \in Resuming \cup Timed THEN attached ELSE attached \cup {c}
  /\ UNCHANGED <<caught, outcome, throwVars, stopped, spurious>>

\* The wait has no predicate: an event that came before is caught only after
\* something else has woken up the node.
Wait(c) ==
  /\ pc[c] = "started"
  /\ pc' = [pc EXCEPT ![c] = "waiting"]
  /\ UNCHANGED <<attached, caught, outcome, throwVars, stopped, spurious>>

Wake(c) == pc' = [pc EXCEPT ![c] = IF @ = "waiting" THEN "woken" ELSE @]

MayDisturb == Cardinality(stopped) + Cardinality(spurious) < MaxDisturbed

WakeSpuriously(c) ==
  /\ MayDisturb /\ pc[c] = "waiting" /\ Wake(c)
  /\ spurious' = spurious \cup {c}
  /\ UNCHANGED <<attached, caught, outcome, throwVars, stopped>>

Expire(c) ==
  /\ c \in Timed /\ pc[c] = "waiting" /\ Wake(c)
  /\ caught' = [caught EXCEPT ![c] = TRUE]
  /\ UNCHANGED <<attached, outcome, throwVars, stopped, spurious>>

Decide(c) ==
  /\ pc[c] = "woken"
  /\ pc' = [pc EXCEPT ![c] = "ended"]
  /\ outcome' = [outcome EXCEPT ![c] = IF caught[c] THEN "OK" ELSE "CANCELLED"]
  /\ attached' = attached \ {c}
  /\ UNCHANGED <<caught, throwVars, stopped, spurious>>

TerminateCatcher(c) ==
  /\ MayDisturb /\ c \notin stopped /\ pc[c] # "ended"
  /\ Wake(c)
  /\ stopped' = stopped \cup {c}
  /\ UNCHANGED <<attached, caught, outcome, throwVars, spurious>>
-----------------------------------------------------------------------------
(* trigger(): the slots that are attached when it begins.                  *)

Trigger(t) ==
  /\ at[t] = "idle"
  /\ at' = [at EXCEPT ![t] = "triggering"]
  /\ todo' = [todo EXCEPT ![t] = {s \in attached : Listens[s] = Throws[t]}]
  /\ heard' = heard \cup todo'[t]
  /\ UNCHANGED <<catchVars, in, result, spawned, stopped, spurious>>

\* event_callback() of a catch event.
Catch(t) ==
  /\ at[t] = "triggering" /\ in[t] = NoOne
  /\ \E c \in todo[t] \cap attached \cap Catchers :
       /\ todo' = [todo EXCEPT ![t] = @ \ {c}]
       /\ in' = [in EXCEPT ![t] = c]
       /\ caught' = [caught EXCEPT ![c] = TRUE]
  /\ UNCHANGED <<pc, attached, outcome, at, result, spawned, heard, stopped, spurious>>

NotifyCatcher(t) ==
  /\ in[t] # NoOne
  /\ Wake(in[t])
  /\ in' = [in EXCEPT ![t] = NoOne]
  /\ UNCHANGED <<attached, caught, outcome, at, todo, result, spawned, heard,
                 stopped, spurious>>

\* A slot that was disconnected meanwhile is not called.
Skip(t) ==
  /\ at[t] = "triggering" /\ in[t] = NoOne
  /\ \E s \in todo[t] \ attached : todo' = [todo EXCEPT ![t] = @ \ {s}]
  /\ UNCHANGED <<catchVars, at, in, result, spawned, heard, stopped, spurious>>

\* An exception of a slot ends trigger() and its caller; emitSignal() takes it
\* for an unknown signal.
Fail(t, h) ==
  /\ at' = [at EXCEPT ![t] = "returned"]
  /\ todo' = [todo EXCEPT ![t] = {}]
  /\ result' = [result EXCEPT ![t] = IF t \in Outside THEN "false" ELSE "exception"]

\* boundary_event_callback() of a non-interrupting boundary event.
CallHost(t) ==
  /\ at[t] = "triggering" /\ in[t] = NoOne
  /\ \E h \in todo[t] \cap Hosts :
       \/ /\ spawned' = spawned \cup {h}
          /\ todo' = [todo EXCEPT ![t] = @ \ {h}]
          /\ UNCHANGED <<at, result>>
       \/ Fail(t, h) /\ UNCHANGED spawned
  /\ UNCHANGED <<catchVars, in, heard, stopped, spurious>>

\* A throw event that was terminated meanwhile is cancelled.
Return(t) ==
  /\ at[t] = "triggering" /\ todo[t] = {} /\ in[t] = NoOne
  /\ at' = [at EXCEPT ![t] = "returned"]
  /\ result' = [result EXCEPT ![t] =
       CASE t \in Outside -> "true"
         [] t \in stopped -> "CANCELLED"
         [] OTHER -> "OK"]
  /\ UNCHANGED <<catchVars, todo, in, spawned, heard, stopped, spurious>>

EmitUnknown(t) ==
  /\ t \in Outside /\ at[t] = "idle"
  /\ at' = [at EXCEPT ![t] = "returned"]
  /\ result' = [result EXCEPT ![t] = "false"]
  /\ UNCHANGED <<catchVars, todo, in, spawned, heard, stopped, spurious>>

TerminateThrower(t) ==
  /\ MayDisturb /\ t \notin stopped /\ at[t] # "returned"
  /\ stopped' = stopped \cup {t}
  /\ UNCHANGED <<catchVars, throwVars, spurious>>
-----------------------------------------------------------------------------
Catcher(c) == Start(c) \/ Wait(c) \/ Decide(c)
Caller(t) ==
  \/ Trigger(t) \/ Catch(t) \/ NotifyCatcher(t) \/ Skip(t) \/ CallHost(t)
  \/ Return(t) \/ EmitUnknown(t)

Next ==
  \/ \E c \in Catchers : Catcher(c) \/ WakeSpuriously(c) \/ Expire(c) \/ TerminateCatcher(c)
  \/ \E t \in Callers : Caller(t)
  \/ \E t \in Throwers : TerminateThrower(t)

Spec == Init /\ [][Next]_vars

\* The threads run; a throw is not bound to begin.
FairSpec ==
  /\ Spec
  /\ \A c \in Catchers : WF_vars(Catcher(c))
  /\ \A t \in Callers : WF_vars(at[t] # "idle" /\ Caller(t))
-----------------------------------------------------------------------------
(* A catch event ends with OK only if its event was thrown while it was    *)
(* attached, or its timer expired; it is cancelled only if it was          *)
(* terminated or woke up by itself, never because of the notification that *)
(* its event has come.                                                     *)
CatchIsTrue ==
  \A c \in Catchers :
    /\ outcome[c] = "OK" => c \in heard \cup Timed
    /\ outcome[c] = "CANCELLED" => c \in stopped \/ c \in spurious

(* The callback of a catch event has a raw pointer: it does not notify a   *)
(* node that has ended, as long as nothing but this throw could wake it.   *)
Undisturbed(c, t) ==
  /\ c \notin stopped \cup spurious \cup Timed
  /\ \A o \in Callers \ {t} : at[o] # "idle" => Throws[o] # Listens[c]

NoDanglingNotify ==
  \A t \in Callers, c \in Catchers : in[t] = c /\ Undisturbed(c, t) => pc[c] # "ended"

(* A throw that ends without an exception, and a signal that emitSignal()  *)
(* confirms, has reached every activity that listens.  (If one fails to    *)
(* emit its token the others hear nothing, the thrower's process ends by   *)
(* an exception and emitSignal() denies a signal it knows.)                *)
ThrowReaches ==
  \A t \in Callers :
    result[t] \in {"OK", "CANCELLED", "true"} =>
      \A h \in Hosts : Listens[h] = Throws[t] => h \in spawned

(* A catch event that waits goes on when its event is thrown, unless an    *)
(* activity before it makes the throw fail.  (An event thrown between its  *)
(* start and its wait is lost, and so is each for one that was resumed.)   *)
WaitingCatches ==
  \A c \in Catchers, t \in Callers :
    (pc[c] = "waiting" /\ c \in todo[t])
      ~> (pc[c] = "ended" \/ result[t] \in {"exception", "false"})

(* Why the first two hold: a throw visits a slot once and stores the flag  *)
(* before it notifies, so a catch event that has woken up was left alone   *)
(* by the throw that woke it.                                              *)
OfCatcher(c) ==
  /\ caught[c] => c \in heard \cup Timed
  /\ outcome[c] # "none" => pc[c] = "ended"
  /\ outcome[c] = "OK" => caught[c]
  /\ pc[c] \in {"woken", "ended"} =>
       \/ c \in stopped \cup spurious
       \/ c \in Timed /\ caught[c] /\ outcome[c] # "CANCELLED"
       \/ /\ caught[c] /\ outcome[c] # "CANCELLED"
          /\ \E o \in Callers : /\ at[o] # "idle" /\ Throws[o] = Listens[c]
                                /\ c \notin todo[o] /\ in[o] # c

OfThrow(t) ==
  /\ todo[t] \subseteq heard
  /\ at[t] = "idle" => in[t] = NoOne /\ todo[t] = {}
  /\ \A s \in todo[t] : Listens[s] = Throws[t]
  /\ in[t] # NoOne => /\ in[t] \in Catchers /\ Listens[in[t]] = Throws[t]
                     /\ in[t] \notin todo[t] /\ caught[in[t]]

EventInv ==
  /\ TypeOK
  /\ \A c \in Catchers : OfCatcher(c)
  /\ \A t \in Callers : OfThrow(t)

(* Why a throw reaches every activity: they are attached from the parser   *)
(* on, and one that has not emitted its token is still to be called.       *)
OfReach(t) ==
  /\ at[t] = "idle" => result[t] = "none"
  /\ at[t] = "triggering" =>
       /\ result[t] = "none"
       /\ \A h \in Hosts : Listens[h] = Throws[t] => h \in todo[t] \cup spawned

ReachInv ==
  /\ EventInv
  /\ Hosts \subseteq attached
  /\ \A t \in Callers : OfReach(t)
  /\ ThrowReaches

(* What there is of WaitingCatches without fairness: a throw that has to   *)
(* call a waiting catch event does not pass it by, and leaves it awake.    *)
Calling(c, t) == pc[c] = "waiting" /\ (c \in todo[t] \/ in[t] = c)
NotPassedBy ==
  [][\A c \in Catchers, t \in Callers :
       (Calling(c, t) /\ pc'[c] = "waiting") =>
          \/ in'[t] = c
          \/ in[t] # c /\ (c \in todo'[t] \/ result'[t] \in {"exception", "false"})]_vars

\* A slot that is to be called is connected as long as its node has not ended.
StillAttached ==
  \A c \in Catchers, t \in Callers : c \in todo[t] /\ pc[c] # "ended" => c \in attached
=============================================================================
