---------------------------- MODULE ConnectorTask ----------------------------
(***************************************************************************)
(* Service and user tasks that a connector carries out.  A task reserves   *)
(* its resource, sends a command and polls the future of its result; a     *)
(* helper thread waits to be told that the task is terminated; a caller    *)
(* (a boundary event, or the thread that ends the process) terminates or   *)
(* interrupts it; at last the node is destroyed, which joins the helper.   *)
(* The resource is looked up anew by every call to the connector, the      *)
(* abort included: some tasks name it by a key of the data store, the      *)
(* result of another task, which may be rewritten between two calls.       *)
(***************************************************************************)
EXTENDS Naturals, FiniteSets

CONSTANTS Tasks, Resources,
          Service, \* the service tasks; the others are user tasks
          Derived, \* the tasks that name their resource by the key
          Writers, \* the tasks whose result is stored under the key
          Named,   \* the resource that each of the other tasks names
          Default, \* the default in the expression of a derived task, or Unset
          NoTask, Unset,
          Stored, \* the values the key may have at first
          MaxCallers \* bound: the tasks that are terminated from outside

ASSUME TaskAssumption ==
  /\ Service \subseteq Tasks /\ Derived \subseteq Tasks /\ Writers \subseteq Tasks
  /\ Named \in [Tasks -> Resources] /\ Default \in [Tasks -> Resources \cup {Unset}]
  /\ NoTask \notin Tasks /\ Unset \notin Resources
  /\ Stored \subseteq Resources \cup {Unset} /\ MaxCallers \in Nat

VARIABLES
  pc,          \* where the thread of the task is
  helper,      \* where wait_for_terminate_signal is
  caller,      \* where the call that terminates the task is
  told,        \* external_termination_signaled_for_real_
  signalled,   \* is_external_terminate_signaled_
  interrupted, \* is_interrupted_
  command,     \* the command: under way, told to abort, or its future's end
  target,      \* the resource the command was sent to
  outcome,     \* what activity() has decided
  holder,      \* the connector: resource -> the task that has reserved it
  store,       \* the value of the key in the data store
  stale        \* history: the tasks whose key was rewritten since they reserved

signalVars == <<told, signalled, interrupted>>
connectorVars == <<command, target, outcome, holder, store, stale>>
vars == <<pc, helper, caller, signalVars, connectorVars>>

\* execute() has returned, by an outcome or by an exception.
Over(t) == pc[t] \in {"ended", "raised", "destroying", "gone"}
Destructing(t) == pc[t] \in {"destroying", "gone"}

UnderWay(t) == command[t] \in {"running", "aborted"}

\* is_active_mutex_: the helper holds it from the test of its flag to the wait,
\* a user task through the abort of its command.
MutexFree(t) ==
  /\ helper[t] # "checked"
  /\ t \in Service \/ pc[t] # "awaiting"

\* A round of a user task needs it, that of a service task has another mutex.
InRound(t) == pc[t] = "polling" /\ (t \in Service \/ MutexFree(t))

\* ${key} or ${key,default}; without either it is Unset, which throws.
FromExpression(t) == IF store # Unset THEN store ELSE Default[t]

Resource(t) == IF t \in Derived THEN FromExpression(t) ELSE Named[t]

TypeOK ==
  /\ pc \in [Tasks -> {"idle", "commanding", "polling", "awaiting", "cleanup",
                       "ended", "raised", "destroying", "gone"}]
  /\ helper \in [Tasks -> {"none", "spawned", "checked", "waiting", "woken", "done"}]
  /\ caller \in [Tasks -> {"none", "deactivating", "telling", "notifying", "done"}]
  /\ told \in [Tasks -> BOOLEAN] /\ signalled \in [Tasks -> BOOLEAN]
  /\ interrupted \in [Tasks -> BOOLEAN]
  /\ command \in [Tasks -> {"none", "running", "aborted", "result", "exception"}]
  /\ target \in [Tasks -> Resources]
  /\ outcome \in [Tasks -> {"none", "RESULT", "ERROR", "INTERRUPTED", "CANCELLED"}]
  /\ holder \in [Resources -> Tasks \cup {NoTask}]
  /\ store \in Resources \cup {Unset}
  /\ stale \subseteq Tasks

Init ==
  /\ pc = [t \in Tasks |-> "idle"]
  /\ helper = [t \in Tasks |-> "none"] /\ caller = [t \in Tasks |-> "none"]
  /\ told = [t \in Tasks |-> FALSE] /\ signalled = [t \in Tasks |-> FALSE]
  /\ interrupted = [t \in Tasks |-> FALSE]
  /\ command = [t \in Tasks |-> "none"]
  /\ target = Named
  /\ outcome = [t \in Tasks |-> "none"]
  /\ holder = [r \in Resources |-> NoTask]
  /\ store \in Stored
  /\ stale = {}
-----------------------------------------------------------------------------
(* The connector, outside this repository: a resource has one holder, the  *)
(* command of a task comes to a result or an exception, and an aborted one *)
(* for certain, to a result.  An abort is of the command that the task has *)
(* on the resource it names; if it has none there, nothing is aborted.     *)

Reserved(r, t) == holder' = [holder EXCEPT ![r] = t]

Aborted(r, t) ==
  command' = IF command[t] = "running" /\ target[t] = r
             THEN [command EXCEPT ![t] = "aborted"] ELSE command

Released(r, t) ==
  holder' = IF r \in Resources /\ holder[r] = t
            THEN [holder EXCEPT ![r] = NoTask] ELSE holder

Complete(t) ==
  /\ UnderWay(t)
  /\ \E c \in {"result", "exception"} :
       /\ command[t] = "aborted" => c = "result"
       /\ command' = [command EXCEPT ![t] = c]
  /\ UNCHANGED <<pc, helper, caller, signalVars, target, outcome, holder, store, stale>>
-----------------------------------------------------------------------------
(* Mutants: what a plausible bug would make of the definitions below.      *)

\* An interrupted task does not wait until its command is aborted.
AbortOnly(t) ==
  /\ pc[t] = "awaiting"
  /\ pc' = [pc EXCEPT ![t] = "cleanup"]
  /\ UNCHANGED <<helper, caller, signalVars, connectorVars>>

\* An error of the command is an exception, as a refused reservation is.
CommandRaises(t) ==
  /\ pc[t] = "commanding"
  /\ \/ /\ pc' = [pc EXCEPT ![t] = "polling"]
        /\ command' = [command EXCEPT ![t] = "running"]
        /\ target' = [target EXCEPT ![t] = Resource(t)]
        /\ UNCHANGED outcome
     \/ /\ pc' = [pc EXCEPT ![t] = "raised"]
        /\ outcome' = [outcome EXCEPT ![t] = "ERROR"]
        /\ UNCHANGED <<command, target>>
  /\ UNCHANGED <<helper, caller, signalVars, holder, store, stale>>

\* The helper does not look at the flag again after it was woken.
WakeBlindly(t) ==
  /\ helper[t] = "woken" /\ MutexFree(t)
  /\ helper' = [helper EXCEPT ![t] = "done"]
  /\ signalled' = [signalled EXCEPT ![t] = ~Destructing(t)]
  /\ UNCHANGED <<pc, caller, told, interrupted, connectorVars>>

\* The termination is announced before the flag is set.
TellLate(t) ==
  /\ caller[t] = "telling"
  /\ caller' = [caller EXCEPT ![t] = "notifying"]
  /\ helper' = [helper EXCEPT ![t] = IF @ = "waiting" THEN "woken" ELSE @]
  /\ UNCHANGED <<pc, signalVars, connectorVars>>

\* The destructor of a service task notifies the helper and sets no flag.
DestroyQuietly(t) ==
  /\ pc[t] \in {"ended", "raised"} /\ caller[t] \in {"none", "done"}
  /\ pc' = [pc EXCEPT ![t] = "destroying"]
  /\ helper' = [helper EXCEPT ![t] = IF @ = "waiting" THEN "woken" ELSE @]
  /\ UNCHANGED <<caller, signalVars, connectorVars>>

\* Only the signal of the helper ends a task, an interruption does not.
PollSignal(t, verdict) ==
  /\ verdict = IF ~signalled[t] THEN "none"
               ELSE IF interrupted[t] THEN "INTERRUPTED" ELSE "CANCELLED"
-----------------------------------------------------------------------------
(* The thread of the task: start(), activity(), cleanup().                 *)

\* The helper is launched and the resource reserved.  A key that is not in the
\* data store and a refusal are exceptions, which leave execute() without a
\* cleanup.
Start(t) ==
  /\ pc[t] = "idle"
  /\ helper' = [helper EXCEPT ![t] = "spawned"]
  /\ LET r == Resource(t) IN
       IF r # Unset /\ holder[r] = NoTask
       THEN /\ Reserved(r, t)
            /\ stale' = stale \ {t}
            /\ pc' = [pc EXCEPT ![t] = "commanding"]
       ELSE pc' = [pc EXCEPT ![t] = "raised"] /\ UNCHANGED <<holder, stale>>
  /\ UNCHANGED <<caller, signalVars, command, target, outcome, store>>

\* command_resource() returns a future, or throws, which is an error outcome.
Command(t) ==
  /\ pc[t] = "commanding"
  /\ \/ /\ pc' = [pc EXCEPT ![t] = "polling"]
        /\ command' = [command EXCEPT ![t] = "running"]
        /\ target' = [target EXCEPT ![t] = Resource(t)]
        /\ UNCHANGED outcome
     \/ /\ pc' = [pc EXCEPT ![t] = "cleanup"]
        /\ outcome' = [outcome EXCEPT ![t] = "ERROR"]
        /\ UNCHANGED <<command, target>>
  /\ UNCHANGED <<helper, caller, signalVars, holder, store, stale>>

\* What a round of the loop decides: a service task also sees an interruption
\* that its helper has missed.
Verdict(t, verdict) ==
  verdict = CASE interrupted[t] /\ (signalled[t] \/ t \in Service) -> "INTERRUPTED"
              [] ~interrupted[t] /\ signalled[t] -> "CANCELLED"
              [] OTHER -> "none"

\* A round that ends the task: an abort is sent to the resource that the inputs
\* name now, and the command is waited for.
GiveUp(t) ==
  /\ InRound(t)
  /\ \E v \in {"INTERRUPTED", "CANCELLED"} :
       Verdict(t, v) /\ outcome' = [outcome EXCEPT ![t] = v]
  /\ pc' = [pc EXCEPT ![t] = "awaiting"]
  /\ Aborted(Resource(t), t)
  /\ UNCHANGED <<helper, caller, signalVars, target, holder, store, stale>>

\* A round that finds a result, which is copied to the data store.
TakeResult(t) ==
  /\ InRound(t) /\ Verdict(t, "none")
  /\ command[t] = "result"
  /\ \E v \in IF t \in Writers THEN Resources ELSE {store} :
       /\ store' = v
       /\ stale' = IF v = store THEN stale ELSE stale \cup Derived
  /\ outcome' = [outcome EXCEPT ![t] = "RESULT"]
  /\ pc' = [pc EXCEPT ![t] = "cleanup"]
  /\ UNCHANGED <<helper, caller, signalVars, command, target, holder>>

\* A round that finds an exception, which get() throws again.
TakeException(t) ==
  /\ InRound(t) /\ Verdict(t, "none")
  /\ command[t] = "exception"
  /\ pc' = [pc EXCEPT ![t] = "raised"]
  /\ UNCHANGED <<helper, caller, signalVars, connectorVars>>

\* service_future.wait().
Await(t) ==
  /\ pc[t] = "awaiting" /\ ~UnderWay(t)
  /\ pc' = [pc EXCEPT ![t] = "cleanup"]
  /\ UNCHANGED <<helper, caller, signalVars, connectorVars>>

Cleanup(t) ==
  /\ pc[t] = "cleanup" /\ MutexFree(t)
  /\ Released(Resource(t), t)
  /\ pc' = [pc EXCEPT ![t] = "ended"]
  /\ UNCHANGED <<helper, caller, signalVars, command, target, outcome, store, stale>>

\* The destructor of a service task sets the flag, that of a user task does
\* not; both notify the helper without its mutex.
Destroy(t) ==
  /\ pc[t] \in {"ended", "raised"} /\ caller[t] \in {"none", "done"}
  /\ pc' = [pc EXCEPT ![t] = "destroying"]
  /\ told' = [told EXCEPT ![t] = @ \/ t \in Service]
  /\ helper' = [helper EXCEPT ![t] = IF @ = "waiting" THEN "woken" ELSE @]
  /\ UNCHANGED <<caller, signalled, interrupted, connectorVars>>

\* The destructor of the helper's future waits for it.
Join(t) ==
  /\ pc[t] = "destroying" /\ helper[t] = "done"
  /\ pc' = [pc EXCEPT ![t] = "gone"]
  /\ UNCHANGED <<helper, caller, signalVars, connectorVars>>
-----------------------------------------------------------------------------
(* The helper, wait_for_terminate_signal().                                *)

\* It is done: the signal is passed on unless the node is destroyed.
HelperDone(t) ==
  /\ helper' = [helper EXCEPT ![t] = "done"]
  /\ signalled' = [signalled EXCEPT ![t] = @ \/ ~Destructing(t)]

\* The helper of a service task looks at the flag first, and again whenever it
\* is woken; that of a user task waits once.
HelperCheck(t) ==
  /\ helper[t] = "spawned" /\ MutexFree(t)
  /\ IF t \in Service /\ told[t] THEN HelperDone(t)
     ELSE helper' = [helper EXCEPT ![t] = "checked"] /\ UNCHANGED signalled
  /\ UNCHANGED <<pc, caller, told, interrupted, connectorVars>>

HelperWait(t) ==
  /\ helper[t] = "checked"
  /\ helper' = [helper EXCEPT ![t] = "waiting"]
  /\ UNCHANGED <<pc, caller, signalVars, connectorVars>>

HelperWake(t) ==
  /\ helper[t] = "woken" /\ MutexFree(t)
  /\ IF t \notin Service \/ told[t] THEN HelperDone(t)
     ELSE helper' = [helper EXCEPT ![t] = "checked"] /\ UNCHANGED signalled
  /\ UNCHANGED <<pc, caller, told, interrupted, connectorVars>>

\* A condition variable may wake up by itself.
WakeSpuriously(t) ==
  /\ helper[t] = "waiting"
  /\ helper' = [helper EXCEPT ![t] = "woken"]
  /\ UNCHANGED <<pc, caller, signalVars, connectorVars>>
-----------------------------------------------------------------------------
(* The caller: terminate() of the node, after interrupt() or not.          *)

BeginTerminate(t) ==
  /\ caller[t] = "none" /\ ~Over(t)
  /\ Cardinality({o \in Tasks : caller[o] # "none"}) < MaxCallers
  /\ \E i \in BOOLEAN : interrupted' = [interrupted EXCEPT ![t] = i]
  /\ caller' = [caller EXCEPT ![t] = "deactivating"]
  /\ UNCHANGED <<pc, helper, told, signalled, connectorVars>>

Deactivate(t) ==
  /\ caller[t] = "deactivating" /\ MutexFree(t)
  /\ caller' = [caller EXCEPT ![t] = "telling"]
  /\ UNCHANGED <<pc, helper, signalVars, connectorVars>>

Tell(t) ==
  /\ caller[t] = "telling"
  /\ told' = [told EXCEPT ![t] = TRUE]
  /\ caller' = [caller EXCEPT ![t] = "notifying"]
  /\ UNCHANGED <<pc, helper, signalled, interrupted, connectorVars>>

Notify(t) ==
  /\ caller[t] = "notifying"
  /\ helper' = [helper EXCEPT ![t] = IF @ = "waiting" THEN "woken" ELSE @]
  /\ caller' = [caller EXCEPT ![t] = "done"]
  /\ UNCHANGED <<pc, signalVars, connectorVars>>
-----------------------------------------------------------------------------
Thread(t) ==
  \/ Start(t) \/ Command(t) \/ GiveUp(t) \/ TakeResult(t)
  \/ TakeException(t) \/ Await(t) \/ Cleanup(t) \/ Destroy(t) \/ Join(t)
Helper(t) == HelperCheck(t) \/ HelperWait(t) \/ HelperWake(t)
Caller(t) == Deactivate(t) \/ Tell(t) \/ Notify(t)

Next ==
  \E t \in Tasks :
    \/ Thread(t) \/ Helper(t) \/ WakeSpuriously(t)
    \/ BeginTerminate(t) \/ Caller(t) \/ Complete(t)

Spec == Init /\ [][Next]_vars

\* The threads run, and get a mutex that is free again and again; the connector
\* finishes what it was told to abort.
FairSpec ==
  /\ Spec
  /\ \A t \in Tasks :
       /\ WF_vars(Thread(t)) /\ WF_vars(Helper(t)) /\ WF_vars(Caller(t))
       /\ SF_vars(Cleanup(t)) /\ SF_vars(Deactivate(t))
       /\ WF_vars(command[t] = "aborted" /\ Complete(t))
-----------------------------------------------------------------------------
(* A task that is over holds no resource, unless its command threw an      *)
(* exception, which skips the cleanup, or the key by which it names the    *)
(* resource was rewritten meanwhile, so that it released another one.      *)
NoLeak ==
  \A t \in Tasks, r \in Resources :
    holder[r] = t /\ Over(t) => command[t] = "exception" \/ t \in stale

(* A command runs only on a resource its task has reserved and has not yet *)
(* released: the cleanup comes after the end of the command, however the   *)
(* task ends.  It says nothing of a task whose key was rewritten since it  *)
(* reserved, which may command a resource it does not hold; of the others  *)
(* no two run commands on one resource.                                    *)
CommandOwnsResource ==
  \A t \in Tasks :
    UnderWay(t) /\ t \notin stale => holder[target[t]] = t

(* Why these hold: from its reservation to its cleanup a task holds the     *)
(* resource its expression names, and no other, and sent its command       *)
(* there; the signal of a service task follows the flag.                   *)
Holding(t) == pc[t] \in {"commanding", "polling", "awaiting", "cleanup"}

Held(t) ==
  /\ pc[t] = "idle" => command[t] = "none" /\ \A r \in Resources : holder[r] # t
  /\ UnderWay(t) => pc[t] \in {"polling", "awaiting"}
  /\ Holding(t) => Resource(t) \in Resources
  /\ t \notin stale =>
       /\ Holding(t) => holder[Resource(t)] = t
       /\ pc[t] \in {"polling", "awaiting"} => target[t] = Resource(t)
       /\ \A r \in Resources :
            holder[r] = t => /\ r = Resource(t)
                             /\ Holding(t) \/ command[t] = "exception"

Heard(t) ==
  /\ caller[t] = "none" => ~interrupted[t]
  /\ outcome[t] = "INTERRUPTED" => interrupted[t]
  /\ t \in Service /\ outcome[t] = "CANCELLED" => told[t]
  /\ t \in Service /\ signalled[t] => told[t]

TaskInv == TypeOK /\ \A t \in Tasks : Held(t) /\ Heard(t)

(* A service task is cancelled or interrupted only if it was: a wake-up    *)
(* without a notification and a destructor are told apart by the flag.     *)
CancelledOnlyIfTold ==
  \A t \in Service :
    /\ outcome[t] = "CANCELLED" => told[t]
    /\ outcome[t] = "INTERRUPTED" => interrupted[t]

\* The task waits for its command, but the abort went to another resource.
AbortAstray(t) == pc[t] = "awaiting" /\ command[t] = "running"

(* A termination ends the task, whatever the connector would have done     *)
(* with the command, if the helper is in its wait when the flag has been   *)
(* set; a wake-up by itself does no harm then.  (Before, it makes the      *)
(* helper test the flag too early and miss the notification.)  One thing   *)
(* can keep the task: the key of its resource was rewritten, so that the   *)
(* abort went to another resource and the command runs on, for ever.       *)
TerminationHeard ==
  \A t \in Tasks :
    (caller[t] = "notifying" /\ helper[t] = "waiting") ~> (Over(t) \/ AbortAstray(t))

(* An interrupted service task ends, although its helper may miss the      *)
(* notification: the loop looks at the interruption itself.  The abort may *)
(* go astray here too.                                                     *)
InterruptionSeen ==
  \A t \in Service : interrupted[t] ~> (Over(t) \/ AbortAstray(t))

(* A node is destroyed, which waits for its helper, if the helper was      *)
(* woken or, in a service task, has not looked at the flag before it is    *)
(* set.  (A helper between the test and the wait misses the notification.) *)
DestructorReturns ==
  \A t \in Tasks :
    (/\ pc[t] = "destroying"
     /\ helper[t] \in {"woken", "done"} \/ (t \in Service /\ helper[t] = "spawned"))
      ~> pc[t] = "gone"
=============================================================================
