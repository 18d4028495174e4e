------------------------------- MODULE Mission -------------------------------
(***************************************************************************)
(* MissionControl and the status of its Model.  Callers start, abort and   *)
(* await missions; the main token of a mission runs its first process in a *)
(* thread and reports the end of it to the model; the other tokens of the  *)
(* mission are one child here.  A mission is named by its main token.      *)
(*                                                                         *)
(* Locks.  statusLock is mission_status_mutex_, listLock is                *)
(* token_list_mutex_; a caller holds them over several steps only while it *)
(* launches a mission, scans the tokens or resets the model.               *)
(***************************************************************************)
EXTENDS Naturals, FiniteSets

CONSTANTS Callers,     \* the threads that call MissionControl
          MaxMissions, \* bound on the missions launched
          Disturbances \* which of "orphan" and "signal" may come

ASSUME MissionAssumption == MaxMissions \in Nat \ {0}

VARIABLES
  status,     \* mission_status_
  statusLock, \* who holds mission_status_mutex_, a set of at most one caller
  listLock,   \* who holds token_list_mutex_, likewise
  mainToken,  \* main_token_uuid_, 0 for none
  listener,   \* token_termination_event_listener_ is connected
  tokens,     \* the keys of tokens_: <<mission, "main">>, <<mission, "child">>,
              \* and Null
  main,       \* mission -> where the thread of its main token is
  child,      \* mission -> where the threads of its other tokens are
  failed,     \* mission -> its main token ends with an exception
  at,         \* caller -> where it is
  back,       \* caller -> where it goes on after an abort
  target,     \* caller -> the mission it terminates, 0 for none
  swept,      \* caller -> it waits for the child of its target, too
  ok          \* caller -> what its last start returned

tokenVars == <<mainToken, tokens, main, child, failed>>
callVars == <<back, target, swept, ok>>
vars == <<status, statusLock, listLock, listener, tokenVars, at, callVars>>

Missions == 1..MaxMissions
Tokens == Missions \X {"main", "child"}
\* A key of tokens_ without a token: a null pointer.
Null == <<0, "main">>

\* Missions are numbered in the order of their launches.
Launched == {m \in Missions : main[m] # "none"}

Starting == {"check", "init", "validate", "launch", "emit", "assign"}
Aborting == {"abort", "lookup", "terminate", "join", "reset", "clear", "destroy"}
Waiting == {"poll", "scan", "cleanup", "leave"}

Init ==
  /\ status = "UNINITIALIZED"
  /\ statusLock = {} /\ listLock = {}
  /\ mainToken = 0 /\ listener = FALSE /\ tokens = {}
  /\ main = [m \in Missions |-> "none"]
  /\ child = [m \in Missions |-> "none"]
  /\ failed = [m \in Missions |-> FALSE]
  /\ at = [c \in Callers |-> "idle"]
  /\ back = [c \in Callers |-> "idle"]
  /\ target = [c \in Callers |-> 0]
  /\ swept = [c \in Callers |-> FALSE]
  /\ ok = [c \in Callers |-> FALSE]

\* A caller has followed a null pointer, and the program is gone.
Crashed == \E c \in Callers : at[c] = "crashed"

\* ProcessModelNode::instance_ of the process of the main token: stored when the
\* process is executed, and cleared when it returns but not when it throws.
InstanceSet(m) == main[m] = "run" \/ (failed[m] /\ main[m] # "new")

\* The thread of a token is over.
Over(k) == (IF k[2] = "main" THEN main ELSE child)[k[1]] \in {"none", "gone"}

Goto(c, l) == at' = [at EXCEPT ![c] = l]

-----------------------------------------------------------------------------
(* Mutants: what a plausible bug would make of the actions below.          *)

\* The outcome is set whatever the status is.
ReportAlways(m) ==
  /\ main[m] = "report" /\ statusLock = {}
  /\ status' = IF failed[m] THEN "FAILED" ELSE "SUCCESS"
  /\ main' = [main EXCEPT ![m] = "detach"]
  /\ UNCHANGED <<statusLock, listLock, listener, mainToken, tokens, child, failed,
                 at, callVars>>

\* An exception is reported as a success.
ReportSuccess(m) ==
  /\ main[m] = "report" /\ statusLock = {}
  /\ status' = IF status = "IN_PROGRESS" THEN "SUCCESS" ELSE status
  /\ main' = [main EXCEPT ![m] = "detach"]
  /\ UNCHANGED <<statusLock, listLock, listener, mainToken, tokens, child, failed,
                 at, callVars>>

\* The future of a token is not waited for.
DestroyNow(c) ==
  /\ at[c] = "destroy"
  /\ tokens' = {} /\ status' = "UNINITIALIZED"
  /\ statusLock' = {} /\ listLock' = {}
  /\ at' = [at EXCEPT ![c] = back[c]] /\ back' = [back EXCEPT ![c] = "idle"]
  /\ UNCHANGED <<listener, mainToken, main, child, failed, target, swept, ok>>

\* The model is reset without the mutex of the status.
ResetUnlocked(c) ==
  /\ at[c] = "reset"
  /\ IF status = "IN_PROGRESS"
     THEN at' = [at EXCEPT ![c] = back[c]] /\ back' = [back EXCEPT ![c] = "idle"]
     ELSE at' = [at EXCEPT ![c] = "clear"] /\ UNCHANGED back
  /\ UNCHANGED <<status, statusLock, listLock, listener, tokenVars, target, swept,
                 ok>>

\* The flags of the tokens alone decide whether the model is active.
ScanFlags(c) ==
  /\ at[c] = "scan" /\ Null \notin tokens
  /\ listLock' = {}
  /\ at' = [at EXCEPT ![c] =
       IF \E k \in tokens :
            (IF k[2] = "main" THEN main ELSE child)[k[1]] \in {"run", "busy", "emit"}
       THEN "cleanup" ELSE "leave"]
  /\ UNCHANGED <<status, statusLock, listener, tokenVars, callVars>>

\* The wait goes on until it has erased a token itself.
CleanupSome(c) ==
  /\ at[c] \in {"cleanup", "leave"} /\ listLock = {} /\ Null \notin tokens
  /\ tokens' = {k \in tokens : ~Over(k)}
  /\ at' = [at EXCEPT ![c] = IF tokens' = tokens THEN "poll" ELSE "idle"]
  /\ UNCHANGED <<status, statusLock, listLock, listener, mainToken, main, child,
                 failed, callVars>>

-----------------------------------------------------------------------------
(* The threads of a mission's tokens.                                      *)

\* The thread of the main token executes its process.
MainStarts(m) ==
  /\ main[m] = "new"
  /\ main' = [main EXCEPT ![m] = "run"]
  /\ UNCHANGED <<status, statusLock, listLock, listener, mainToken, tokens, child,
                 failed, at, callVars>>

\* The main process emits its start tokens.
MainEmits(m) ==
  /\ main[m] = "run" /\ child[m] = "none" /\ listLock = {}
  /\ child' = [child EXCEPT ![m] = "busy"]
  /\ tokens' = tokens \cup {<<m, "child">>}
  /\ UNCHANGED <<status, statusLock, listLock, listener, mainToken, main, failed,
                 at, callVars>>

\* A child goes to emit a further token, and does.
ChildWorks(m) ==
  /\ \/ child[m] = "busy" /\ child' = [child EXCEPT ![m] = "emit"]
     \/ child[m] = "emit" /\ listLock = {} /\ child' = [child EXCEPT ![m] = "busy"]
  /\ UNCHANGED <<status, statusLock, listLock, listener, mainToken, tokens, main,
                 failed, at, callVars>>

ChildEnds(m) ==
  /\ child[m] = "busy"
  /\ child' = [child EXCEPT ![m] = "gone"]
  /\ UNCHANGED <<status, statusLock, listLock, listener, mainToken, tokens, main,
                 failed, at, callVars>>

\* The main process counts no child and returns, or throws, which may leave
\* children running (Overwatch).
MainEnds(m) ==
  /\ main[m] = "run" /\ listLock = {}
  /\ main' = [main EXCEPT ![m] = "publish"]
  /\ \/ child[m] = "gone" /\ UNCHANGED failed
     \/ /\ child[m] = "gone" \/ ("orphan" \in Disturbances /\ child[m] # "none")
        /\ failed' = [failed EXCEPT ![m] = TRUE]
  /\ UNCHANGED <<status, statusLock, listLock, listener, mainToken, tokens, child,
                 at, callVars>>

\* Model::token_termination_event_callback compares the token that ends with
\* main_token_uuid_, without a lock.
Recognize(m) ==
  /\ main[m] = "publish"
  /\ main' = [main EXCEPT ![m] = IF listener /\ mainToken = m THEN "report"
                                 ELSE "gone"]
  /\ UNCHANGED <<status, statusLock, listLock, listener, mainToken, tokens, child,
                 failed, at, callVars>>

\* Model::setMissionStatusIf.
Report(m) ==
  /\ main[m] = "report" /\ statusLock = {}
  /\ status' = IF status # "IN_PROGRESS" THEN status
               ELSE IF failed[m] THEN "FAILED" ELSE "SUCCESS"
  /\ main' = [main EXCEPT ![m] = "detach"]
  /\ UNCHANGED <<statusLock, listLock, listener, mainToken, tokens, child, failed,
                 at, callVars>>

Detach(m) ==
  /\ main[m] = "detach"
  /\ listener' = FALSE
  /\ main' = [main EXCEPT ![m] = "gone"]
  /\ UNCHANGED <<status, statusLock, listLock, mainToken, tokens, child, failed,
                 at, callVars>>

-----------------------------------------------------------------------------
(* MissionControl::start and ResumeFromUrl, which abort a running mission  *)
(* first, and ResumeFromByteString, which does not.                        *)

\* A call, as long as a mission is left to launch.
BeginStart(c) ==
  /\ at[c] = "idle"
  /\ Cardinality(Launched \cup
       {d \in Callers : at[d] \in Starting \/ back[d] = "init"}) < MaxMissions
  /\ Goto(c, "check") \/ Goto(c, "init")
  /\ UNCHANGED <<status, statusLock, listLock, listener, tokenVars, callVars>>

\* Model::hasMissionLiftoff, without a lock.
CheckLiftoff(c) ==
  /\ at[c] = "check"
  /\ IF status = "IN_PROGRESS"
     THEN Goto(c, "abort") /\ back' = [back EXCEPT ![c] = "init"]
     ELSE Goto(c, "init") /\ UNCHANGED back
  /\ UNCHANGED <<status, statusLock, listLock, listener, tokenVars, target, swept,
                 ok>>

\* A start ends and returns r.
Return(c, r) == Goto(c, "idle") /\ ok' = [ok EXCEPT ![c] = r]

\* Model::initializeFromXml: refused in any other status, or the file is bad.
InitializeFromXml(c) ==
  /\ at[c] = "init" /\ statusLock = {}
  /\ \/ /\ status = "UNINITIALIZED"
        /\ status' = "READY"
        /\ Goto(c, "validate") /\ UNCHANGED ok
     \/ Return(c, FALSE) /\ UNCHANGED status
  /\ UNCHANGED <<statusLock, listLock, listener, tokenVars, back, target, swept>>

\* Model::validate: the status stays READY when a connector refuses.
Validate(c) ==
  /\ at[c] = "validate"
  /\ \/ Goto(c, "launch") /\ UNCHANGED ok
     \/ Return(c, FALSE)
  /\ UNCHANGED <<status, statusLock, listLock, listener, tokenVars, back, target,
                 swept>>

\* Model::start attaches the listener, or refuses, unnoticed by its caller.
Launch(c) ==
  /\ at[c] = "launch" /\ statusLock = {}
  /\ \/ /\ status = "READY"
        /\ statusLock' = {c} /\ listener' = TRUE
        /\ Goto(c, "emit") /\ UNCHANGED ok
     \/ /\ status # "READY"
        /\ Return(c, TRUE) /\ UNCHANGED <<statusLock, listener>>
  /\ UNCHANGED <<status, listLock, tokenVars, back, target, swept>>

\* The main token's thread runs before main_token_uuid_ is assigned.
EmitMain(c) ==
  LET m == Cardinality(Launched) + 1 IN
  /\ at[c] = "emit" /\ listLock = {}
  /\ main' = [main EXCEPT ![m] = "new"]
  /\ tokens' = tokens \cup {<<m, "main">>}
  /\ Goto(c, "assign")
  /\ UNCHANGED <<status, statusLock, listLock, listener, mainToken, child, failed,
                 callVars>>

AssignMain(c) ==
  /\ at[c] = "assign"
  /\ mainToken' = Cardinality(Launched)
  /\ status' = "IN_PROGRESS" /\ statusLock' = {}
  /\ Return(c, TRUE)
  /\ UNCHANGED <<listLock, listener, tokens, main, child, failed, back, target,
                 swept>>

-----------------------------------------------------------------------------
(* MissionControl::abort: Model::abort, then Model::reset.                 *)

BeginAbort(c) ==
  /\ at[c] = "idle"
  /\ Goto(c, "abort")
  /\ back' = [back EXCEPT ![c] = "idle"]
  /\ UNCHANGED <<status, statusLock, listLock, listener, tokenVars, target, swept,
                 ok>>

\* Model::setMissionStatusIf.
SetAborted(c) ==
  /\ at[c] = "abort" /\ statusLock = {}
  /\ IF status = "IN_PROGRESS"
     THEN status' = "ABORTED" /\ Goto(c, "lookup")
     ELSE UNCHANGED status /\ Goto(c, "reset")
  /\ UNCHANGED <<statusLock, listLock, listener, tokenVars, callVars>>

\* tokens_[main_token_uuid_]: a key that is not there is inserted.
LookUpMain(c) ==
  /\ at[c] = "lookup" /\ listLock = {}
  /\ \/ /\ <<mainToken, "main">> \in tokens
        /\ target' = [target EXCEPT ![c] = mainToken]
        /\ Goto(c, "terminate") /\ UNCHANGED tokens
     \/ /\ <<mainToken, "main">> \notin tokens
        /\ tokens' = tokens \cup {Null}
        /\ Goto(c, "reset") /\ UNCHANGED target
  /\ UNCHANGED <<status, statusLock, listLock, listener, mainToken, main, child,
                 failed, back, swept, ok>>

\* Token::terminate of the main token: the children its process lists, if they
\* are there already, and its own thread are waited for.  That they end when
\* they are terminated is the matter of Overwatch.
TerminateMain(c) ==
  /\ at[c] = "terminate" /\ InstanceSet(target[c]) /\ listLock = {}
  /\ swept' = [swept EXCEPT ![c] = <<target[c], "child">> \in tokens]
  /\ Goto(c, "join")
  /\ UNCHANGED <<status, statusLock, listLock, listener, tokenVars, back, target, ok>>

\* Process::terminate lists its children through instance_; a wait and a snapshot
\* go through all of tokens_.
FollowNull(c) ==
  /\ \/ at[c] = "terminate" /\ ~InstanceSet(target[c])
     \/ at[c] = "scan" /\ Null \in tokens
     \/ at[c] \in {"cleanup", "leave", "suspend"} /\ listLock = {} /\ Null \in tokens
  /\ Goto(c, "crashed")
  /\ back' = [back EXCEPT ![c] = "idle"] /\ target' = [target EXCEPT ![c] = 0]
  /\ UNCHANGED <<status, statusLock, listLock, listener, tokenVars, swept, ok>>

JoinMain(c) ==
  /\ at[c] = "join"
  /\ Over(<<target[c], "main">>) /\ (swept[c] => Over(<<target[c], "child">>))
  /\ target' = [target EXCEPT ![c] = 0] /\ swept' = [swept EXCEPT ![c] = FALSE]
  /\ Goto(c, "reset")
  /\ UNCHANGED <<status, statusLock, listLock, listener, tokenVars, back, ok>>

\* The end of an abort, and of the handler of SIGINT.
Resume(c) == Goto(c, back[c]) /\ back' = [back EXCEPT ![c] = "idle"]

\* Model::reset refuses while a mission is in progress.
Reset(c) ==
  /\ at[c] = "reset" /\ statusLock = {}
  /\ IF status = "IN_PROGRESS"
     THEN Resume(c) /\ UNCHANGED statusLock
     ELSE statusLock' = {c} /\ Goto(c, "clear") /\ UNCHANGED back
  /\ UNCHANGED <<status, listLock, listener, tokenVars, target, swept, ok>>

Clear(c) ==
  /\ at[c] = "clear" /\ listLock = {}
  /\ listLock' = {c}
  /\ Goto(c, "destroy")
  /\ UNCHANGED <<status, statusLock, listener, tokenVars, callVars>>

\* Tokens another caller still refers to, while it terminates them.
HeldBy(d) == {<<target[d], "main">>} \cup
             (IF swept[d] THEN {<<target[d], "child">>} ELSE {})

\* tokens_.clear(): the destructor of a token's future waits for its thread.
Destroy(c) ==
  /\ at[c] = "destroy"
  /\ \A k \in tokens \ ({Null} \cup UNION {HeldBy(d) : d \in Callers}) : Over(k)
  /\ tokens' = {} /\ status' = "UNINITIALIZED"
  /\ statusLock' = {} /\ listLock' = {}
  /\ Resume(c)
  /\ UNCHANGED <<listener, mainToken, main, child, failed, target, swept, ok>>

-----------------------------------------------------------------------------
(* MissionControl::wait, and the handler of SIGINT that main.cpp installs. *)

BeginWait(c) ==
  /\ at[c] = "idle"
  /\ Goto(c, "poll")
  /\ UNCHANGED <<status, statusLock, listLock, listener, tokenVars, callVars>>

\* Model::waitForTermination: isActive scans the tokens under the mutex,
Poll(c) ==
  /\ at[c] = "poll" /\ listLock = {}
  /\ listLock' = {c}
  /\ Goto(c, "scan")
  /\ UNCHANGED <<status, statusLock, listener, tokenVars, callVars>>

Scan(c) ==
  /\ at[c] = "scan" /\ Null \notin tokens
  /\ listLock' = {}
  /\ Goto(c, IF \A k \in tokens : Over(k) THEN "leave" ELSE "cleanup")
  /\ UNCHANGED <<status, statusLock, listener, tokenVars, callVars>>

\* and cleanup_tokens, under the mutex again, erases those that are terminated.
CleanupTokens(c) ==
  /\ at[c] \in {"cleanup", "leave"} /\ listLock = {} /\ Null \notin tokens
  /\ tokens' = {k \in tokens : ~Over(k)}
  /\ Goto(c, IF at[c] = "leave" \/ tokens' = {} THEN "idle" ELSE "poll")
  /\ UNCHANGED <<status, statusLock, listLock, listener, mainToken, main, child,
                 failed, callVars>>

\* The signal comes while its thread waits for the mission it has started.
Signal(c) ==
  /\ "signal" \in Disturbances /\ at[c] \in Waiting /\ back[c] = "idle" /\ ok[c]
  /\ back' = [back EXCEPT ![c] = at[c]]
  /\ Goto(c, "suspend")
  /\ UNCHANGED <<status, statusLock, listLock, listener, tokenVars, target, swept,
                 ok>>

\* MissionControl::SuspendToUrl: a snapshot under token_list_mutex_, an abort.
Suspend(c) ==
  /\ at[c] = "suspend" /\ listLock = {} /\ Null \notin tokens
  /\ Goto(c, "abort")
  /\ UNCHANGED <<status, statusLock, listLock, listener, tokenVars, callVars>>

-----------------------------------------------------------------------------
TokenStep(m) ==
  \/ MainStarts(m) \/ MainEmits(m) \/ ChildWorks(m) \/ ChildEnds(m) \/ MainEnds(m)
  \/ Recognize(m) \/ Report(m) \/ Detach(m)

Call(c) == BeginStart(c) \/ BeginAbort(c) \/ BeginWait(c)

CallStep(c) ==
  \/ CheckLiftoff(c) \/ InitializeFromXml(c) \/ Validate(c) \/ Launch(c)
  \/ EmitMain(c) \/ AssignMain(c)
  \/ SetAborted(c) \/ LookUpMain(c) \/ TerminateMain(c) \/ JoinMain(c)
  \/ FollowNull(c)
  \/ Reset(c) \/ Clear(c) \/ Destroy(c)
  \/ Poll(c) \/ Scan(c) \/ CleanupTokens(c) \/ Suspend(c)

\* After a crash nothing happens any more.
Next ==
  \/ ~Crashed /\ \E m \in Missions : TokenStep(m)
  \/ ~Crashed /\ \E c \in Callers : Call(c) \/ CallStep(c) \/ Signal(c)
  \/ Crashed /\ UNCHANGED vars

Spec == Init /\ [][Next]_vars

(***************************************************************************)
(* Threads run and get the mutexes they wait for; a child ends sooner or   *)
(* later, whatever it emits until then.  Nobody is forced to call.         *)
(***************************************************************************)
Fairness ==
  /\ \A m \in Missions : SF_vars(TokenStep(m)) /\ SF_vars(ChildEnds(m))
  /\ \A c \in Callers : SF_vars(CallStep(c))

FairSpec == Spec /\ Fairness

-----------------------------------------------------------------------------
\* Every variable of the model, its tokens and its callers has a value of its
\* type.
TypeOK ==
  /\ status \in {"UNINITIALIZED", "READY", "IN_PROGRESS", "SUCCESS", "FAILED",
                 "ABORTED"}
  /\ statusLock \subseteq Callers /\ listLock \subseteq Callers
  /\ mainToken \in Missions \cup {0}
  /\ listener \in BOOLEAN
  /\ tokens \subseteq Tokens \cup {Null}
  /\ main \in [Missions -> {"none", "new", "run", "publish", "report", "detach",
                        "gone"}]
  /\ child \in [Missions -> {"none", "busy", "emit", "gone"}]
  /\ failed \in [Missions -> BOOLEAN]
  /\ at \in [Callers -> {"idle", "suspend", "crashed"} \cup Starting \cup Aborting \cup Waiting]
  /\ back \in [Callers -> {"idle", "init"} \cup Waiting]
  /\ target \in [Callers -> Missions \cup {0}]
  /\ swept \in [Callers -> BOOLEAN] /\ ok \in [Callers -> BOOLEAN]

\* Who launches a mission or resets the model is alone with the status: it does
\* not change between the test of it and the assignment (the lock_guards of
\* Model::start and Model::reset).
StatusLocked ==
  \A c \in Callers :
    /\ at[c] \in {"emit", "assign"} => statusLock = {c} /\ status = "READY"
    /\ at[c] \in {"clear", "destroy"} => statusLock = {c} /\ status # "IN_PROGRESS"

\* A mission that was aborted is not turned into one that has ended by a late
\* report, and only a mission in progress gets an outcome (Model::setMission-
\* StatusIf).
StatusOrder ==
  [][/\ status = "ABORTED" => status' \in {"ABORTED", "UNINITIALIZED"}
     /\ status' \in {"SUCCESS", "FAILED"} => status \in {"IN_PROGRESS", status'}
     /\ status = "IN_PROGRESS" => status' # "UNINITIALIZED"]_vars

\* The outcome of the mission in progress is that of its own main token, never
\* one an older mission reports late (the callback checks main_token_uuid_ and
\* sets the status in two steps).
OutcomeIsOwn ==
  [][(status = "IN_PROGRESS" /\ status' \in {"SUCCESS", "FAILED"}) =>
       /\ mainToken # 0
       /\ main[mainToken] = "report" /\ main'[mainToken] = "detach"
       /\ status' = IF failed[mainToken] THEN "FAILED" ELSE "SUCCESS"]_vars

\* No thread of a mission runs.
Still(m) == Over(<<m, "main">>) /\ Over(<<m, "child">>)

\* "Active mission is aborted before starting new mission." (Mission-
\* Control::start): when a mission is launched no thread of an older one runs.
OldMissionGone ==
  \A m, n \in Missions :
    (m < n /\ main[n] # "none") => Still(m)

\* The model listens as long as the main token of the mission in progress has
\* its end still to publish (Model::start and the callback's disconnect).
MissionIsHeard ==
  (status = "IN_PROGRESS" /\ main[mainToken] \in {"new", "run", "publish"})
    => listener

\* Nothing of the mission runs any more when a wait returns (Mission-
\* Control::wait).
WaitIsOver ==
  [][\A c \in Callers :
       (at[c] \in Waiting /\ at'[c] = "idle") =>
         \A m \in Launched : Still(m)]_vars

\* Every call of MissionControl returns, or the program crashes in it: an abort
\* follows the null pointer of a main process that is not executed yet or any
\* more.  It is a statement about missions without SIGINT, whose handler may wait
\* for a mutex of its own thread (Interrupted.cfg), and without children that are
\* left behind, which a reset may wait for in vain (ResetOrphan.cfg); children end
\* when they are terminated, as they do unless they are stuck (Overwatch).
CallsReturn == \A c \in Callers : at[c] # "idle" ~> (at[c] = "idle" \/ Crashed)

-----------------------------------------------------------------------------
(* Why these hold.  MissionControl has no lock of its own over a call: the *)
(* missions stay apart as long as its callers, who may be many, do not     *)
(* start, resume, suspend or abort at the same time; a wait is over only   *)
(* if none of them launches another mission meanwhile.                     *)
Active(c) == at[c] \notin {"idle"} \cup Waiting
Serial == \A c, d \in Callers : Active(c) /\ Active(d) => c = d

NoStartInWait == \A c, d \in Callers : at[c] \in Waiting => at[d] \notin Starting

Last == Cardinality(Launched)

\* Missions are launched in order, and all but the last are over; the last one
\* is, too, unless it has been announced in the status, or is about to be.
InOrder ==
  /\ \A m \in Missions : main[m] # "none" <=> m <= Last
  /\ \A m \in Missions : main[m] = "none" => child[m] = "none"
  /\ \A m \in Missions : m # Last => Still(m)
  /\ status \in {"UNINITIALIZED", "READY"} /\ (\A c \in Callers : at[c] # "assign")
       => \A m \in Missions : Still(m)

\* The model knows every thread that runs, and the main token it listens to.
Known ==
  /\ \A k \in Tokens : Over(k) \/ k \in tokens
  /\ mainToken <= Last
  /\ status \notin {"UNINITIALIZED", "READY"} => mainToken = Last /\ Last # 0
  /\ \A m \in Missions : main[m] \in {"report", "detach"} => m = mainToken
  /\ MissionIsHeard

OfCaller(c) ==
  /\ back[c] # "idle" => at[c] \in Aborting \cup {"suspend"}
  /\ at[c] \in Starting \ {"assign"} \/ back[c] = "init" => Last < MaxMissions
  /\ at[c] \in {"emit", "assign"} => listener
  /\ at[c] = "assign" => mainToken < Last
  /\ at[c] \in {"terminate", "join"} \/ target[c] = 0
  /\ at[c] = "join" \/ ~swept[c]

MissionInv ==
  /\ TypeOK /\ StatusLocked
  /\ InOrder /\ Known
  /\ \A c \in Callers : OfCaller(c)

\* A scan that finds everything terminated stays true.
ScanHolds ==
  \A c \in Callers : "leave" \in {at[c], back[c]} => \A m \in Missions : Still(m)

Terminating == {"lookup", "terminate", "join", "crashed"}

(* Why a reset does not wait for a thread that waits for it: Model::reset  *)
(* destroys the tokens with both mutexes in its hands, and the destructor  *)
(* of a token's future waits for the token's thread.                       *)

\* A mission that has its outcome has no child left, and its main token has
\* published its end; one that was aborted has been waited for.
Reported ==
  /\ \A m \in Missions : main[m] \notin {"none", "new", "run"} => child[m] = "gone"
  /\ status \in {"SUCCESS", "FAILED"} => main[mainToken] \in {"detach", "gone"}
  /\ status = "ABORTED" /\ (\A c \in Callers : at[c] \notin Terminating)
       => main[mainToken] = "gone"
  /\ \A c \in Callers : at[c] \in {"terminate", "join"} => target[c] = mainToken

\* The threads that a reset waits for need no mutex any more.
ResetIsFree ==
  \A c \in Callers : at[c] \in {"clear", "destroy"} =>
    \A m \in Missions : child[m] \in {"none", "gone"} /\ main[m] \in {"none", "detach", "gone"}

-----------------------------------------------------------------------------
(* Statements the source makes about itself that do not hold.              *)

\* "Aborts the mission and cleans up its state(s)" (MissionControl::abort): an
\* abort of a mission at its very beginning or end crashes instead.
AbortCleansUp == ~Crashed

\* "true if the mission is running and false otherwise" (MissionControl::Is-
\* MissionInProgress): a mission whose main token is gone is not in progress.
EndedIsOver == status = "IN_PROGRESS" => main[mainToken] # "gone"

\* "A boolean indicating whether starting the mission was successful or not"
\* (MissionControl::start): a start that launches nothing does not return true.
StartTells ==
  [][\A c \in Callers : (at[c] = "launch" /\ at'[c] = "idle") => ~ok'[c]]_vars
=============================================================================
