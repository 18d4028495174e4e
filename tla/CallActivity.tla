---------------------------- MODULE CallActivity ----------------------------
(***************************************************************************)
(* Call activities.  A call attaches a callback to the notifications of    *)
(* ended tokens, emits a token for the process it names, its run, and      *)
(* waits until it is notified; whatever the notification was, it then      *)
(* reads the status.  A run that ends calls the callbacks one by one in    *)
(* its own thread.  A boundary event interrupts a call, and the thread     *)
(* that ends the calling process terminates it; both look for a run of the *)
(* process by its name.                                                    *)
(***************************************************************************)
EXTENDS Naturals, FiniteSets

CONSTANTS Calls, Processes,
          Naming,      \* which process each call may name
          Resuming,    \* the calls that a snapshot brings back
          NoCall,
          MaxSpurious, \* bound: wake-ups without a notification
          MaxStops     \* bound: calls that are interrupted or terminated

ASSUME CallAssumption ==
  /\ Naming \subseteq [Calls -> Processes] /\ NoCall \notin Calls
  /\ Resuming \subseteq Calls
  /\ MaxSpurious \in Nat /\ MaxStops \in Nat

VARIABLES
  callee,      \* call_uuid_
  pc,          \* where the thread of the call is
  attached,    \* the calls whose callback is connected
  status,      \* called_token_status_
  interrupted, \* is_interrupted_
  outcome,
  stopper,     \* where the thread that terminates or interrupts the call is
  run,         \* where the run that the call has emitted is
  exit,        \* what the run publishes
  slots,       \* the callbacks the run has yet to call
  notifying,   \* the call whose callback the run is in
  stopped,     \* the runs that were told to end
  spurious,    \* history: the calls that woke up by themselves
  crashed      \* a null pointer was followed

callVars == <<pc, attached, status, interrupted, outcome, stopper>>
runVars == <<run, exit, slots, notifying, stopped>>
vars == <<callee, callVars, runVars, spurious, crashed>>

SameCallee(c, d) == callee[c] = callee[d]
Alone(c) == \A d \in Calls : SameCallee(c, d) => d = c
\* Nothing but the notification of its own run can wake up such a call.
Undisturbed(c) == Alone(c) /\ c \notin spurious /\ stopper[c] # "notified"

TypeOK ==
  /\ callee \in [Calls -> Processes]
  /\ pc \in [Calls -> {"idle", "called", "waiting", "woken", "ended"}]
  /\ attached \subseteq Calls
  /\ status \in [Calls -> {"FALSE_ALARM", "OK", "EXCEPTION"}]
  /\ interrupted \in [Calls -> BOOLEAN]
  /\ outcome \in [Calls -> {"none", "OK", "ERROR", "CANCELLED", "INTERRUPTED"}]
  /\ stopper \in [Calls -> {"none", "interrupting", "interrupted", "stopping",
                            "joining", "notified"}]
  /\ run \in [Calls -> {"none", "emitted", "executing", "publishing", "over"}]
  /\ exit \in [Calls -> {"FALSE_ALARM", "OK", "EXCEPTION"}]
  /\ slots \in [Calls -> SUBSET Calls]
  /\ notifying \in [Calls -> Calls \cup {NoCall}]
  /\ stopped \subseteq Calls /\ spurious \subseteq Calls /\ crashed \in BOOLEAN

\* Model::start has emitted the run of a call that is resumed, if the snapshot
\* has it.
Init ==
  /\ callee \in Naming
  /\ pc = [c \in Calls |-> "idle"] /\ attached = {}
  /\ status = [c \in Calls |-> "FALSE_ALARM"]
  /\ interrupted = [c \in Calls |-> FALSE]
  /\ outcome = [c \in Calls |-> "none"]
  /\ stopper = [c \in Calls |-> "none"]
  /\ run \in [Calls -> {"none", "emitted"}] /\ exit = [c \in Calls |-> "FALSE_ALARM"]
  /\ \A c \in Calls \ Resuming : run[c] = "none"
  /\ slots = [c \in Calls |-> {}] /\ notifying = [c \in Calls |-> NoCall]
  /\ stopped = {} /\ spurious = {} /\ crashed = FALSE
-----------------------------------------------------------------------------
(* Mutants: what a plausible bug would make of the definitions below.      *)

\* The callback does not compare the uuid of the process.
NotifyAnyone(c, d) == TRUE

\* The callback wakes up the call first and stores the status then.
SetStatusLate(c) == UNCHANGED status

\* The termination wakes up the call and leaves its process alone.
StopNothing(c, next) ==
  /\ stopper' = [stopper EXCEPT ![c] = next]
  /\ UNCHANGED <<stopped, crashed>>

\* A run that fails is over without a notification.
PublishSuccess(c) ==
  /\ run[c] = "executing"
  /\ run' = [run EXCEPT ![c] = "publishing"]
  /\ \E e \in {"OK", "EXCEPTION"} :
       /\ exit' = [exit EXCEPT ![c] = e]
       /\ slots' = [slots EXCEPT ![c] =
            IF e = "OK" THEN {d \in attached : SameCallee(c, d)} ELSE {}]
  /\ UNCHANGED <<callee, callVars, notifying, stopped, spurious, crashed>>

\* The wait has a time limit.
GiveUpWaiting(c) ==
  /\ pc[c] \in {"called", "waiting"}
  /\ pc' = [pc EXCEPT ![c] = IF @ = "called" THEN "waiting" ELSE "woken"]
  /\ UNCHANGED <<callee, attached, status, interrupted, outcome, stopper, runVars,
                 spurious, crashed>>
-----------------------------------------------------------------------------
(* The thread of the call: start(), activity(), cleanup().                 *)

\* The callback is connected before the run is emitted.
Start(c) ==
  /\ pc[c] = "idle" /\ c \notin Resuming
  /\ pc' = [pc EXCEPT ![c] = "called"]
  /\ attached' = attached \cup {c}
  /\ run' = [run EXCEPT ![c] = "emitted"]
  /\ UNCHANGED <<callee, status, interrupted, outcome, stopper, exit, slots,
                 notifying, stopped, spurious, crashed>>

\* The run of a resumed call may be anywhere by then.
Resume(c) ==
  /\ pc[c] = "idle" /\ c \in Resuming
  /\ pc' = [pc EXCEPT ![c] = "called"]
  /\ attached' = attached \cup {c}
  /\ UNCHANGED <<callee, status, interrupted, outcome, stopper, runVars, spurious, crashed>>

\* The wait has no predicate: a notification that came before is lost.
Wait(c) ==
  /\ pc[c] = "called"
  /\ pc' = [pc EXCEPT ![c] = "waiting"]
  /\ UNCHANGED <<callee, attached, status, interrupted, outcome, stopper, runVars,
                 spurious, crashed>>

WakeSpuriously(c) ==
  /\ pc[c] = "waiting" /\ Cardinality(spurious) < MaxSpurious
  /\ pc' = [pc EXCEPT ![c] = "woken"]
  /\ spurious' = spurious \cup {c}
  /\ UNCHANGED <<callee, attached, status, interrupted, outcome, stopper, runVars, crashed>>

\* The status is read whatever the wake-up meant.  cleanup() disconnects; the
\* token leaves the node, which is destroyed.
Decide(c) ==
  /\ pc[c] = "woken"
  /\ pc' = [pc EXCEPT ![c] = "ended"]
  /\ attached' = attached \ {c}
  /\ outcome' = [outcome EXCEPT ![c] =
       CASE interrupted[c] -> "INTERRUPTED"
         [] ~interrupted[c] /\ status[c] = "FALSE_ALARM" -> "CANCELLED"
         [] ~interrupted[c] /\ status[c] = "OK" -> "OK"
         [] OTHER -> "ERROR"]
  /\ UNCHANGED <<callee, status, interrupted, stopper, runVars, spurious, crashed>>
-----------------------------------------------------------------------------
(* The run: the token of the called process.                               *)

\* The process knows its model, which it needs to be stopped, only while it
\* executes.
Execute(c) ==
  /\ run[c] = "emitted"
  /\ run' = [run EXCEPT ![c] = "executing"]
  /\ UNCHANGED <<callee, callVars, exit, slots, notifying, stopped, spurious, crashed>>

Concerns(c, d) == SameCallee(c, d)

\* The callbacks that are connected now are those that will be called; one of a
\* call to another process returns at once.
Publish(c) ==
  /\ run[c] = "executing"
  /\ run' = [run EXCEPT ![c] = "publishing"]
  /\ \E e \in {"OK", "EXCEPTION"} : exit' = [exit EXCEPT ![c] = e]
  /\ slots' = [slots EXCEPT ![c] = {d \in attached : Concerns(c, d)}]
  /\ UNCHANGED <<callee, callVars, notifying, stopped, spurious, crashed>>

SetStatus(c) ==
  status' = [d \in Calls |-> IF d = notifying'[c] THEN exit[c] ELSE status[d]]

\* A callback that was disconnected meanwhile is skipped.
Callback(c) ==
  /\ run[c] = "publishing" /\ notifying[c] = NoCall
  /\ \E d \in slots[c] :
       /\ slots' = [slots EXCEPT ![c] = @ \ {d}]
       /\ notifying' = [notifying EXCEPT ![c] = IF d \in attached THEN d ELSE NoCall]
  /\ SetStatus(c)
  /\ UNCHANGED <<callee, pc, attached, interrupted, outcome, stopper, run, exit, stopped,
                 spurious, crashed>>

\* notify_all(), after the mutex was released.
Notify(c) ==
  /\ notifying[c] # NoCall
  /\ pc' = [pc EXCEPT ![notifying[c]] = IF @ = "waiting" THEN "woken" ELSE @]
  /\ notifying' = [notifying EXCEPT ![c] = NoCall]
  /\ UNCHANGED <<callee, attached, status, interrupted, outcome, stopper, run, exit, slots,
                 stopped, spurious, crashed>>

RunOver(c) ==
  /\ run[c] = "publishing" /\ slots[c] = {} /\ notifying[c] = NoCall
  /\ run' = [run EXCEPT ![c] = "over"]
  /\ UNCHANGED <<callee, callVars, exit, slots, notifying, stopped, spurious, crashed>>
-----------------------------------------------------------------------------
(* The threads that interrupt or terminate a call.                         *)

MayStop(c) ==
  stopper[c] = "none" /\ Cardinality({d \in Calls : stopper[d] # "none"}) < MaxStops

\* A boundary event reaches an activity that has attached its boundary events.
BeginInterrupt(c) ==
  /\ MayStop(c) /\ pc[c] \notin {"idle", "ended"}
  /\ interrupted' = [interrupted EXCEPT ![c] = TRUE]
  /\ stopper' = [stopper EXCEPT ![c] = "interrupting"]
  /\ UNCHANGED <<callee, pc, attached, status, outcome, runVars, spurious, crashed>>

\* Token::terminate() may find the call before it has started or after its end.
BeginTerminate(c) ==
  /\ MayStop(c)
  /\ stopper' = [stopper EXCEPT ![c] = "stopping"]
  /\ UNCHANGED <<callee, pc, attached, status, interrupted, outcome, runVars, spurious, crashed>>

\* The runs that activeProcessByUuid() may return.
RunsOf(c) ==
  {d \in Calls : SameCallee(c, d) /\ run[d] \in {"emitted", "executing", "publishing"}}

\* There may be none, or the call or the run may not know its model.
Stop(c, next) ==
  \/ /\ pc[c] \notin {"idle", "ended"}
     /\ \E d \in RunsOf(c) : run[d] = "executing" /\ stopped' = stopped \cup {d}
     /\ stopper' = [stopper EXCEPT ![c] = next]
     /\ UNCHANGED crashed
  \/ /\ \/ pc[c] \in {"idle", "ended"} \/ RunsOf(c) = {}
        \/ \E d \in RunsOf(c) : run[d] # "executing"
     /\ crashed' = TRUE
     /\ UNCHANGED <<stopper, stopped>>

Interrupt(c) ==
  /\ stopper[c] = "interrupting"
  /\ Stop(c, "interrupted")
  /\ UNCHANGED <<callee, pc, attached, status, interrupted, outcome, run, exit, slots,
                 notifying, spurious>>

Terminate(c) ==
  /\ stopper[c] = "stopping"
  /\ Stop(c, "joining")
  /\ UNCHANGED <<callee, pc, attached, status, interrupted, outcome, run, exit, slots,
                 notifying, spurious>>

\* The children of the run were joined, the run itself may go on for a while.
NotifyTerminated(c) ==
  /\ stopper[c] = "joining"
  /\ stopper' = [stopper EXCEPT ![c] = "notified"]
  /\ pc' = [pc EXCEPT ![c] = IF @ = "waiting" THEN "woken" ELSE @]
  /\ UNCHANGED <<callee, attached, status, interrupted, outcome, runVars, spurious, crashed>>
-----------------------------------------------------------------------------
Thread(c) == Start(c) \/ Resume(c) \/ Wait(c) \/ Decide(c)
Run(c) == Execute(c) \/ Publish(c) \/ Callback(c) \/ Notify(c) \/ RunOver(c)
Stopper(c) == Interrupt(c) \/ Terminate(c) \/ NotifyTerminated(c)

Next ==
  /\ ~crashed
  /\ \E c \in Calls :
       \/ Thread(c) \/ Run(c) \/ Stopper(c)
       \/ WakeSpuriously(c) \/ BeginInterrupt(c) \/ BeginTerminate(c)

Spec == Init /\ [][Next]_vars

\* The threads run, and the called process ends.
FairSpec ==
  Spec /\ \A c \in Calls : WF_vars(~crashed /\ Thread(c)) /\ WF_vars(~crashed /\ Run(c))
-----------------------------------------------------------------------------
(* What a call reports is true: success or failure is that of a run of the *)
(* process it names, of its own run if nobody else calls that process;     *)
(* CANCELLED means that it was terminated or woke up by itself.            *)
OutcomeIsTrue ==
  \A c \in Calls :
    /\ outcome[c] \in {"OK", "ERROR"} =>
         \E d \in Calls : /\ SameCallee(c, d) /\ Alone(c) => d = c
                          /\ run[d] \in {"publishing", "over"}
                          /\ exit[d] = IF outcome[c] = "OK" THEN "OK" ELSE "EXCEPTION"
    /\ outcome[c] = "CANCELLED" => stopper[c] = "notified" \/ c \in spurious
    /\ outcome[c] = "INTERRUPTED" => interrupted[c]

(* A call does not leave its run behind: it goes on with its run unfinished *)
(* only if that was told to end, or if a wake-up by itself or the run of   *)
(* another call of the same process was taken for it.                      *)
NoRunLeftBehind ==
  \A c \in Calls :
    pc[c] = "ended" /\ run[c] \in {"emitted", "executing"} =>
      c \in stopped \/ c \in spurious \/ ~Alone(c)

(* A run never notifies a call that has gone on and is destroyed, as the   *)
(* callback has only a raw pointer: this takes a call that nothing else    *)
(* could wake up.                                                          *)
NoDanglingCallback ==
  \A c, d \in Calls : notifying[c] = d /\ Undisturbed(d) => pc[d] # "ended"

(* Why these hold: only the callback of a run of the process stores a      *)
(* status, before it notifies, and each callback is called once.           *)
Stored(c) ==
  /\ status[c] # "FALSE_ALARM" =>
       \E d \in Calls : /\ SameCallee(c, d) /\ run[d] \in {"publishing", "over"}
                        /\ exit[d] = status[c]
  /\ pc[c] \in {"woken", "ended"} =>
       \/ status[c] # "FALSE_ALARM" \/ stopper[c] = "notified" \/ c \in spurious
  /\ pc[c] = "idle" /\ c \notin Resuming => run[c] = "none"

Called(c) ==
  /\ notifying[c] # NoCall =>
       /\ run[c] = "publishing" /\ SameCallee(c, notifying[c])
       /\ notifying[c] \notin slots[c] /\ status[notifying[c]] # "FALSE_ALARM"
  /\ \A d \in slots[c] : SameCallee(c, d) /\ run[c] = "publishing"
  /\ run[c] \in {"publishing", "over"} => exit[c] # "FALSE_ALARM"

Woken(c) ==
  /\ Alone(c) /\ stopper[c] \in {"joining", "notified"} => c \in stopped
  /\ pc[c] \in {"woken", "ended"} /\ Undisturbed(c) =>
       run[c] \in {"publishing", "over"} /\ c \notin slots[c] /\ notifying[c] # c

CallInv ==
  /\ TypeOK /\ OutcomeIsTrue
  /\ \A c \in Calls : Stored(c) /\ Called(c) /\ Woken(c)

(* A call that waits before its run ends goes on in the end.  (One that is *)
(* later misses the notification and waits for ever; a termination finds   *)
(* no process then and crashes.)                                           *)
WaitingCallEnds ==
  \A c \in Calls :
    (pc[c] = "waiting" /\ run[c] \in {"emitted", "executing"})
      ~> (pc[c] = "ended" \/ crashed)

(* What there is of it without fairness: a run does not end without the    *)
(* callback of a call that waits for it, and the callback wakes it up.     *)
NotPassedBy ==
  [][\A c, d \in Calls :
       pc[c] = "waiting" /\ pc'[c] = "waiting" /\ SameCallee(c, d) =>
         /\ run[d] \in {"emitted", "executing"} =>
              run'[d] \in {"emitted", "executing"} \/ c \in slots'[d]
         /\ c \in slots[d] => c \in slots'[d] \/ notifying'[d] = c
         /\ notifying[d] = c => notifying'[d] = c]_vars

\* A call is connected from its start to its end.
Connected ==
  \A c \in Calls : c \in attached <=> pc[c] \in {"called", "waiting", "woken"}
=============================================================================
