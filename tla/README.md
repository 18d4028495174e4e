# A TLA+ model of the TRACE executive

TRACE (`nasa/trace-executive`) executes missions that are written as BPMN
processes.  This directory holds TLA+ modules that model its core, the TLC runs
that check them on small processes, and theorems about them that TLAPS proves
for every process.  Paths below are relative to the repository's root
(`src/model/Process.cpp` and so on); `PROJECT.json` maps each definition to its
lines.

## 1. The system

A *mission* is a set of BPMN processes that the parser reads from an XML file.
The executive runs it with one thread per *token*: a token owns a flow node,
executes it, follows the node's outgoing flows and goes on.

| component | code | state it keeps | operations | talks to |
|---|---|---|---|---|
| MissionControl, command line | `src/control/mission_control.cpp`, `src/main.cpp` | the model | start, abort, wait, suspend, resume; SIGINT | Model |
| Model | `src/model.cpp` | mission status, tokens, main token, punch cards, processes, events, the termination signal | start, abort, reset, emitNewToken, lists and counts of tokens, notifyOfTokenTermination, waitForTermination, snapshot | Tokens, Processes, Snapshot |
| Token | `src/token.cpp` | active flag, current node, future of its thread | start, loop, activity, followOutputPorts, terminate | its node, Model |
| Process (the *overwatch*) | `src/model/Process.cpp` | queue of termination notifications, end events, cancelled and interrupted flags | start, activity, notification callback, terminate, interrupt, resume | Model, children's tokens |
| flow nodes and ports | `src/model/ProcessModelNode.cpp`, `SequenceFlow.cpp` | input ports, active flag | execute = start, activity, cleanup; triggerInputPort; evaluateExpression | Tokens, DataStore |
| gateways | `src/model/ParallelGateway.cpp`, `ExclusiveGateway.cpp`, `InclusiveGateway.cpp` | ports shared by all tokens | activity | Tokens |
| activities, boundary events | `src/model/Activity.cpp`, `BoundaryEvent.cpp` | interrupting event, interrupted flag | interrupt, boundary_event_callback | events, Model |
| call activities | `src/model/CallActivity.cpp` | status of the called token | start, activity, terminate, interrupt | called Process |
| events | `src/ModelEvent.cpp`, `src/model/*Event.cpp` | callbacks, caught flag | trigger, attach, activity | connectors, Tokens |
| timers | `src/model/timer_*.cc` | definition, future of the timer's thread | WaitOn, start, cleanup | Activity, connector |
| connector tasks | `src/model/extension/*.cpp` | termination flag, helper thread, future of the command | start (reserve), activity (command, abort), cleanup (release) | connector |
| connectors | `src/connector/*.cpp` | loaded libraries | load, unload_all | tasks, logger |
| data store, snapshots | `src/storage/DataStore.cpp`, `src/Snapshot*.cpp` | key-value store | get, set, expand, serialise | flows, tasks, Model |
| parser | `src/bpmn/Parser.cpp` | none | extractModelFromXml | Model |
| logging | `src/log/*.cpp` | targets | log | all |

**What is hard in it.**  Everything runs concurrently: a thread per token, the
overwatch in the thread of its own token, a helper thread per connector task, a
thread per timer, the caller of MissionControl and the SIGINT handler.  A
process learns of its children's ends through a synchronous signal that runs in
the *child's* thread while that child is still active; it must neither end with
a child running nor sleep after the last report.  Termination lists the children
once and joins their threads, from a child's thread, from the overwatch or from
outside.  Joins are flags in a node that all tokens share.  Waiting nodes often
wait on a condition variable without a predicate.  `PROJECT.json` "hazards"
lists each of these at its line, with the property that covers it or the reason
why none does.  About half of them have no property: they are what the code gets
wrong, or does not promise, on purpose or not.  Where TLC shows it, section 6 names
the configuration; elsewhere the properties exempt the case, and say so.

**What makes each part correct.**  Process: returns only without live children
(*NoOrphan*), never sleeps for nothing (*NeverStranded*), ends after its last
child (*LastChildEndsProcess*) or after an exception (*ExceptionEndsProcess*),
and its terminations return unless they wait for each other or for a node that has
missed its notice (*TerminateSettles*).  Gateways: a join that has all
its ports on is executed (*NoMissedJoin*); a flow is followed only if its
condition was true (*FollowedWasTrue*).  Mission: a status that never leaves
ABORTED but by a reset (*StatusOrder*), a mission that is over before the next is
launched (*OldMissionGone*), a wait that waits for all of it (*WaitIsOver*).  Waiting nodes (calls, catch events, tasks): what they
wait for wakes them, what they report is true, and nobody notifies them once they
are gone.  Connector tasks: what is reserved is released (*NoLeak*), and a command
runs on what is reserved (*CommandOwnsResource*).  Timers end with the activity
they belong to (*TimerStopped*).  Snapshots: a resumed mission stands where the
saved one stood (*JoinWaitsForAll*, *NothingSkipped*).  Parser: a model that is
READY is the file it was loaded from (*ModelIsTheFile*, *PortsMatchFlows*).

## 2. Plan

Done, in this order, the most important behaviour first:

1. **Workflow, Scope, Overwatch**: one process, its tokens, its joins, its
   terminations and interruptions; the promise of a process; theorems.
2. **Mission**: MissionControl and Model's status machine with several callers, the
   main token's thread, SIGINT and the null pointers in between; theorems on the order of the statuses and on
   missions whose calls follow one another.
3. **ConnectorTask**, **CallActivity**, **Events**, **BoundaryEvents**: the nodes
   that wait, each with its callbacks, helper threads and terminations; theorems.
4. **Resume**: a snapshot taken while tokens run, a crash, and the resumed mission;
   theorems.
5. **Branching**: the evaluation of conditions while others write to the data store,
   shown to be a choice of Workflow; theorems.
6. **Parser**: loads, failed loads, validations and resets of a model; theorems.

Left, in the order of what it would add:

- Overwatch over several executions of one process: the ports that an aborted
  execution, or a second token over the same flow, leaves on.
- Overwatch from the initial states that Resume reaches, for any workflow (Resume
  has one shape of workflow, with any number of branches).
- The token that a non-interrupting boundary event emits beside the last child of a
  process (Events and BoundaryEvents have the emission, Overwatch has the count).
- The arithmetic of ISO 8601 durations, as a pure module.
- Theorems: what there is without fairness of the liveness properties of Overwatch,
  ConnectorTask, BoundaryEvents and Resume, as for calls, catch events and resets.

## 3. The modules

**`Workflow`** is the definition of one process: nodes, kinds, flows.  Its
operators are the pure part of `Token::followOutputPorts` and of the outcome
handling in `Token::activity`: `Followed(n)` is the set of sets of flows that may
be followed out of `n` (the value of an expression is a choice, an exclusive
gateway takes one true flow, the default is taken when none is true), and
`Departures(n)` adds the flows of the boundary events through which an activity
may be left.

**`Overwatch`** is one process in execution.  Its threads and their states:

- *tokens* (`pc`, `active`, `node`, `hit`, `todo`, `next`, `edge`, `raised`).
  `pc` is the place in `Token::loop`: `loop` (test of the flag), `exec` (the
  node's `activity()`), `follow` and `trigger` (`followOutputPorts`, one flow at
  a time), `publish`, `terminate`, `push` and `leave` (the notification, in this
  thread), `gone`.  `hit` says that the current clone was asked to terminate or
  interrupt; `raised` that an exception ends the thread.
- *the overwatch* (`op`, `toEmit`, `queue`, `note`, `seen`, `cancelled`,
  `outcome`): `start` and `enter` are `Process::start` and the entry of
  `activity()`; `wait`, `take`, `await`, `count` its loop; `settle`/`returned`
  the normal end, `fail`/`threw` the end by exception.
- *callers of `Process::terminate`* (`sweep`, `join`): the token of a
  terminating end event, the overwatch after an exception, and a thread outside
  (`Model::abort`, an enclosing process).
- *interruption* (`fired`, `interrupted`, `marks`):
  `Activity::boundary_event_callback` and `Process::interrupt`.

Locks become atomicity: `token_list_mutex_` makes an emission, a count or a list
of tokens one step; `termination_notification_mutex_` is held by the overwatch in
`take`, `await` and `count`, so `Push` waits.  Each read of shared state that
the code makes without a lock is a step of its own.  `lost` is a history
variable: tokens whose notification the code drops.  A notification published
after the process has ended reaches no slot (`cleanup` has disconnected it) and
is not counted as lost.

**`Scope`** is what a process promises, without threads, queues or locks:
children enter while it starts or while another child is live, leave once, and it
closes only when none is live.  `Overwatch` implements it with `live` the tokens
that are not terminated and `left` the threads that are over.

**`MCOverwatch`** names the small processes the runs use.
**`Overwatch_proofs`** holds the theorems.

**`Mission`** is MissionControl and the status machine of its Model.  Callers
(`at`, `back`, `target`, `swept`, `ok`) go through `start`, `abort`, `wait` and
the handler of SIGINT step by step; `statusLock` and `listLock` are
`mission_status_mutex_` and `token_list_mutex_`, held over several steps only by
`Model::start` (which emits the main token), `Model::isActive` and
`Model::reset` (which waits for the threads of the tokens it destroys).  A mission
is named by its main token; `main` is the place of that token's thread up to the
three steps of `Model::token_termination_event_callback` (`Recognize`, `Report`,
`Detach`), `child` stands for all its other tokens, and `tokens` are the keys of
`tokens_`, among them `Null`, the empty entry that an abort inserts when its main
token is gone.  `InstanceSet` is the process's `instance_`, through which an abort
lists the children: while it is null, before the process is executed and after it
has returned, the abort crashes (`FollowNull`), and the model stops (`crashed`).
What Overwatch shows is taken up here in one place each: a process
counts no child when it returns, but may leave one behind when it throws
(`"orphan"`), and threads end once they are terminated.

**`MCMission`** names two callers.  **`Mission_proofs`** holds its theorems.

**`ConnectorTask`** is service and user tasks.  `pc` is the place in
`execute()`: `Start` (start, which reserves), `commanding`, `polling` (the rounds of
`activity()`, which look at the future, the interruption and the termination),
`awaiting` (a user task that has aborted its command waits for the result),
`cleanup`, then `destroying` (the destructor that joins the helper).  `helper` is
`wait_for_terminate_signal`, `caller` a thread in `terminate()` or `interrupt()`,
in the steps the code takes: the active flag without a mutex, the flag, the
notification.  Two mutexes are kept as guards (`MutexFree`, `InRound`).  The
connector is external: `holder` says who has reserved a resource, `Complete`
answers a command at any time or never.  Each call to the connector expands the
task's inputs anew: `Resource(t)` reads `store`, which the result of another task
may have rewritten (`stale`).  This holds of the abort, too: it is of the command
that the task has on the resource it names *now* (`Aborted`), and if it has none
there, the task waits for a command that nobody has aborted (`AbortAstray`).

**`CallActivity`** is call activities beside the runs of the processes they call.
`pc` follows `execute()` (`called` after `start()` or `resume()`, `waiting` in the
wait without a predicate, `woken`, `ended`), `run` the called process's token
(`emitted`, `executing`, `publishing` with the callbacks in `slots`, `over`).  The
notification of a token's end goes to every attached call, which compares process
names: two calls of one process hear each other's runs.  `stopper` is the thread
that interrupts or terminates; `crashed` the null pointer that `terminate()` follows
when no run is active: the program ends there, and the model stops.

**`Events`** is `ModelEvent::trigger` and whoever is attached: catch and start
events (`pc`, `caught`), and activities, whose slot emits a token for a
non-interrupting boundary event and may throw.  A thrower (`at`, `todo`, `in`,
`result`) calls the slots one at a time, in any order, storing the flag of a catch
event (`Catch`) before it notifies (`NotifyCatcher`).  A resumed catch event is
not attached, as in the code.  Time-outs are steps that may happen at any time.

**`BoundaryEvents`** is the boundary events of one activity that several tokens
execute: each has its own clone, a *host*, while the boundary events, the timer's
mutex and its future are shared.  A host attaches to the boundary events one by
one and starts the timer, whose thread (`timer`) waits, expires or is notified, and
calls the hosts attached at that moment.  `blocked` is an assignment to
`timer_future_` that waits for the thread whose future it overwrites.  A host whose
activity throws (`raised`) skips the cleanup.  How the activity reads which event
interrupted it is left open (`copiesFirst`): tasks of a connector read the flag and
then the event (`ReadFlag`, `NameInterrupter`), call activities and processes copy
the event and read the flag later (`CopyInterrupter`, `Judge`).  The tasks read the
event without its mutex; the read is taken to return a value before or after a
write that overlaps it.

**`Resume`** is a mission of any number of branches that meet in a join before the
end event; a snapshot that reads the tokens one by one and then the inputs of the
join, while the tokens move (`ReadToken`, `ReadInputs`); and the mission resumed
from it by another program, token by token in any order (`EmitToken`), the
process's own token among them: it attaches its callback in `resume()` (`Attach`)
and learns which are its end events only in `activity()` (`ReadEndEvents`), and in
between it hears of any child but one at the end event (`Hears`).  `torn` is a history variable: some
token moved between the first and the last read.  The archive format is
left out.

**`Branching`** is `Token::followOutputPorts` and `SequenceFlow::evaluateExpression`
step by step for one node: the flows are tried in any order, the right-hand side of
an expression and the left-hand side are two reads, with writes of other tokens
between them.  `Result` is the comparison: an operator that the code does not
support makes it false, a type it does not know true, and a missing key or a text
that is not a number throws what nobody catches.
`ChoiceIsAbstract` is a refinement of data: through `INSTANCE Workflow WITH`, the
flows followed are one of the sets that `Workflow!Followed` allows, which is what
`Overwatch` uses.

**`Parser`** is `Model::initializeFromXml`, `extractModelFromXml` and the recursive
`createProcessDefinition`, one kind of element of one scope after the other: `stack`
holds the calls, `Phases` the order.  An element is a record, and its verdict says
what becomes of it: a node, nothing, an error that is caught, an exception that
escapes, or a null pointer.  Whatever fails leaves what has been stored so far: the
event definitions read before the faulty one, and the processes completed before the
fault.  Ports and boundary events belong to nodes: those of the file that is being
parsed are in `outputs`, `inputs` and `attached`, and a process takes its share with
it when it enters the model (`Definition`), together with the file it is from.  A
flow whose source or target is missing leads to the null pointer of node "".
`Validate` and `Reset` follow the code of Model.  `FilesAssumption` says what a file
is: each element has an id of its own and is in a process or in a subprocess of the
file, which are nested as trees are; a boundary event names an activity; only tasks
have connectors.  `Within` is the nesting at any depth, as the least set that has the
subprocesses of its members, so that no induction over the file is needed.

**`MCConnectorTask`, `MCCallActivity`, `MCEvents`, `MCBoundaryEvents`, `MCResume`,
`MCBranching`, `MCParser`** give each its instance; **`ConnectorTask_proofs`,
`CallActivity_proofs`, `Events_proofs`, `BoundaryEvents_proofs`, `Resume_proofs`,
`Flows_proofs`** hold their theorems, the last one those of `Parser`, which wires the
flows, and of `Branching`, which chooses among them.

Each module has a section of mutants: each is a plausible slip in the code and makes
the property it is paired with in `PROJECT.json` fail, which shows that the
property says something about that code.

### Abstractions

- One process instance and one execution of it; the ports start off.  Called
  processes, tasks and catch events are *lasting* nodes: they complete, fail or
  give up once hit, but for those in `Deaf`, which may miss a hit for good (a wait
  without a predicate does if it has not begun).  When tasks, calls and catch events
  notice, and when not, is shown by their own modules.
- `Token::terminate` takes the flag down and then terminates the node: one step,
  since the thread in between can only reach its test of the flag or a node it
  will not execute.
- The 100 ms waits are steps that may happen at any time; time is not modelled.
- Identities of tokens are random in the code, so the model takes any unused one.
  `Tokens` bounds the emissions: when they are used up no more token is emitted
  and the emitter waits, which the runs avoid or, in loops, allow for.
- Mission: a start with a snapshot takes the steps of a start without one; the
  tokens it emits are Resume's.  A connection that is overwritten
  without a disconnect, after an end that was not recognised, stays and calls the
  model a second time, which changes nothing (`setMissionStatusIf`); it is left
  out.  `main_token_uuid_` and `mission_status_` are read without a lock in places;
  such a read returns the value before or after a write that overlaps it.
- Connection of the slot and emission of the first token cannot interleave with
  children, as there are none yet.
- Condition variables: a notification wakes up whoever waits at that moment and is
  lost otherwise; a wakeup by itself is a step, bounded by a constant where it would
  make every property vacuous (`MaxSpurious`, `MaxDisturbed`).
- Signals (`boost::signals2`): a slot that is disconnected is not called any more,
  one that is being called runs to its end.
- Branching: numbers are small naturals, a text is one that is a number or `Junk`;
  `<` stands for the four orders.  Writes stop after `MaxWrites`.
- Parser: attributes and properties of an element are reduced to its `form`; the
  order of elements of one kind does not matter to the code and is left open.

## 4. The runs

| run | instance | what it shows |
|---|---|---|
| `fork` | start, tasks a and b, join, end; the join may throw; interruption at any time; 2 tokens | the promises NoOrphan, NeverStranded, NoMissedJoin, LastChildEndsProcess, and that Overwatch implements Scope |
| `failure` | task a (may fail; error boundary event to a terminating end event) and task b (may miss a termination) behind an exclusive gateway with a loop, a second terminating end event; termination from outside; 2 tokens | an exception ends the process, every termination returns, unless a task has missed its notice or two terminators wait for each other; the inductive invariant |
| `mission` | one caller, two missions, any order of calls | what outlives what, own outcomes, a wait that waits, every call returns or crashes on a null pointer |
| `mission_two` | two callers, one mission, SIGINT, children left behind | the status order, and the mutex it rests on, under all disturbances |
| `tasks` | a service task and a user task, two resources, one named by the other's result; one caller; helpers wake up by themselves | no leak, a command owns its resource, whoever is told to end does, except where a rewritten key leads astray |
| `calls` | two calls of one or of two processes, one resumed; one termination or interruption, one wakeup by itself | a call tells what its run did, goes on after it, and goes on if it waits in time |
| `events` | two catch events, one of them resumed, a timer, an activity; a throw event and emitSignal | nothing is caught that was not thrown, and what is confirmed has arrived |
| `boundary` | two tokens in one activity with an interrupting timer and a signal | in both orders of reading event and flag: no timer survives a lone host, the interrupter is known (or none, if the event is read first), the cleanup does not wait for the expiry |
| `resume` | three branches, a snapshot at any moment, a restart at any later one | the join waits, nothing is skipped, the resumed process ends |
| `branching` | three flows, six kinds of conditions, two keys, any data; two writes | the choice is one of Workflow's; what is followed was true |
| `parser` | two loads out of 96 files, with validations and resets in between | a READY model is the file it was loaded from; what a failed load leaves has the ports of its own file |
| `swallowed` | the smallest process that shows it | a statement of the source that does not hold, see section 6 |

Twelve further configurations are kept for reference and are not listed as runs;
TLC refutes the property each names (section 6).

**Why these bounds are enough.**  Two tokens are enough for each interference a
pair of children can have with the overwatch (one ends while the other is emitted,
ends, is joined, fails).  Two missions let a late step of the first meet the second;
a third would meet the second as the second meets the first.  `mission` has one
caller since with a second one most promises fail (`TwoMissions.cfg`).  Two tasks
and two resources let one take what the other has left, and rewrite the key the
other reads.  Two calls, or two hosts, are the least that share a process, or a
timer; one disturbance at a time shows which one a failure comes from, and the
undisturbed nodes must not fail with it.  Three branches let a token be saved
before, at and behind the join in one snapshot.  Two writes are the least that show
a condition a pair of values that never were; `FollowedWasTrue` is claimed for
writes to one key.  A file has up to two elements besides a fixed core that has
nested subprocesses and a called process, so that each fault meets each sound
element, and a second load meets what a first one has left.  `branching` is
symmetric in the targets: all three may have any condition and the definitions name
none of them; no other run uses symmetry.

**Deadlock** is checked in the runs of Overwatch (`Terminated` is the only state
without another step there) and in `mission`.  It is not in `mission_two`,
where the program itself may stop in a deadlock, nor in the runs of the other
modules, whose systems come to rest when all nodes have ended, or wait for an event,
a connector or a person that may never answer: there the liveness properties say who
must go on.

**Fairness.**  In `Overwatch`, each thread that can run does (weak fairness per
token, caller and overwatch), as the operating system schedules every thread.
`Push` needs strong fairness: the mutex is released and taken again by the
overwatch every 100 ms, and a thread that waits for it is not starved for ever.  A
lasting node need not ever complete, since it may wait for a robot or a person, but
it gives up once it is hit, unless it is deaf.  Nothing is forced to throw, to terminate or to
interrupt the process; once a boundary event has fired its handler goes on to
interrupt.  In `Mission`, strong fairness per thread and caller says that it runs
and gets the mutexes it waits for, which are free again and again; a child ends
sooner or later, as missions are meant to end, and as Overwatch's do when they are
terminated, unless they are stuck; nobody is forced to call, to send a
signal or to fail.  In `ConnectorTask`, threads, helpers and callers run; `Cleanup`
and `Deactivate` are strongly fair, as they wait for a mutex that is free again and
again; a connector need not answer a command, only the abort of one that reaches it.  In
`CallActivity`, `Events`, `BoundaryEvents` and `Resume`, threads that have begun run on;
no event is bound to be thrown, no timer to expire, no wakeup to happen by itself, and
no snapshot to be taken.  `Branching` and `Parser` make no claim of liveness.

Every liveness property that holds of a wait has the condition under which the code
keeps it in its statement: the wait has begun before the notification
(`WaitingCatches`, `WaitingCallEnds`, `CleanupReturns`, `Listens`), or what it may be
stuck in as another way to go on: a null pointer (`CallsReturn`), an abort astray
(`TerminationHeard`, `InterruptionSeen`), a missed notice or a mutual wait
(`TerminateSettles`, `ExceptionEndsProcess`).  Without the condition each of them
fails.  `CallsReturn` is about runs without SIGINT and without children left behind
(`Interrupted.cfg`, `ResetOrphan.cfg`).

## 5. What is proved

`Overwatch_proofs`, for every workflow and every set of tokens that satisfy
`WorkflowAssumption` and `TokenAssumption` (sets of the right kinds, at least one
start event, identities of threads distinct from tokens):

- `TypeCorrect`: `Spec => []TypeOK`.
- `Invariant`: `Spec => []OverwatchInv`.
- `NoOrphanHolds` and `NeverStrandedHolds`, from the invariant.
- `Refinement`: `Spec => KeepsScope`, every step is a step of Scope or a stutter.

NoOrphan and NeverStranded are not inductive.  `OverwatchInv` adds what they rest
on: a thread that is over has its flag down, so the set of live children can be
read off `pc` (`GoneIsDown`); only tokens on their way out are notified of, and
the one in the overwatch's hand is gone when children are counted
(`SentIsLeaving`); every token on its way out is in the queue, in the overwatch's
hand or among the lost (`Accounted`); whoever is not, still will be (`Awaiting`,
from the first start event on); a settled process has no child
(`SettledEmpty`): from there on nobody is left to emit one.  Steps fall into four
kinds that keep it for the same reason each: a thread that moves on
(`LocalKeeps`), one that emits (`EmitKeeps`), one that leaves (`LeaveKeeps`,
`ExitKeeps`), and a step that moves no thread (`QuietKeeps`); the overwatch's
steps are taken one by one (`OverwatchKeeps`).

- `NoMissedJoinHolds`: `Spec => []NoMissedJoin`, for workflows with `JoinsFollowedAlone`:
  a token that leaves for a join follows no other flow.

The last one fails without its hypothesis (`DirectJoin.cfg`): a token emitted into a
join runs before its port is on.  With it, whoever triggers a port of a join goes there
itself (`HeadsAlone`), and so whoever triggers the last one finds all of them on.
`JoinInv` adds that as long as nothing has been terminated, interrupted or raised nobody
is asked to stop (`Calm`), so a token that is about to execute the join does; and a token
that has just executed it has taken its ports down.

`Mission_proofs`, for any sets of callers and disturbances and any number of
missions:

- `StatusLockedHolds`: `Spec => []StatusLocked`.
- `StatusOrderHolds`: `Spec => StatusOrder`.
- `OldMissionGoneHolds`, `MissionIsHeardHolds`, `OutcomeIsOwnHolds`:
  `Spec /\ []Serial =>` the property, with signals and with processes that leave
  children behind.
- `WaitIsOverHolds`: the same, if nothing is started during a wait (`NoStartInWait`).
- `OneCaller`: all four of `Spec` alone, if there is one caller, such as the command
  line with its handler of SIGINT.
- `ResetIsFreeHolds`: `Spec /\ []Serial => []ResetIsFree`, if no process leaves children
  behind: the threads that a reset waits for, with both mutexes in its hands, need none.

The order of the statuses rests on mutual exclusion: `StatusInv` says where
callers can be and that whoever launches or resets holds `mission_status_mutex_`
and still finds the status it tested.  Steps are of three kinds: those that touch
neither status nor mutex (`QuietKeeps`), those that test and set the status in one
go while the mutex is free (`OneGoKeeps`), and those that release it
(`ReleaseKeeps`).

`Serial` says that no two callers start, resume, suspend or abort at the same time; they
may wait meanwhile.  The code has no lock over such a call and leaves that to whoever uses
it: without `Serial` TLC refutes the four properties and `ResetIsFree` for two callers
(`TwoMissions.cfg` is one of them).  `MissionInv` then says that the missions are launched
in order and all but the last are over (`InOrder`), that the model knows every thread that
runs and which main token it listens to (`Known`), and what each caller has still to do
(`OfCaller`); `ScanHolds` adds what a wait knows after its scan, and `Reported` that a
mission with an outcome has no child left and that an aborted one has been waited for.

`ConnectorTask_proofs`, for any tasks, resources, keys and terminations:
`ResourceReleased` (NoLeak), `Exclusive` (CommandOwnsResource) and `Truthful`
(CancelledOnlyIfTold), from `TaskInv`.  What a task holds is tied to its place:
nothing before its reservation and after its cleanup, in between the resource its
expression named, and its command runs there, unless the key was rewritten, of which
`ResourceReleased` and `Exclusive` say nothing; and a flag is up only if a
caller or a destructor has put it up.

`CallActivity_proofs`, for any calls, processes and naming: `TrueOutcome`
(OutcomeIsTrue), `RunNotLeft` (NoRunLeftBehind) and `CallbackAlive`
(NoDanglingCallback), from `CallInv`: a status comes from a run of the same process
that has stored its exit; a run that is not over has slots only of calls that are
attached or have been woken up by something else.  `NotPassedByHolds` is what
WaitingCallEnds says without fairness: a run does not end without the callback of a call
that waits for it, and a callback leaves the call awake (`Connected`).

`Events_proofs`, for any events, nodes and throwers: `TrueCatch` (CatchIsTrue) and
`NotifyAlive` (NoDanglingNotify), from `EventInv`: a throw has each slot at most once
before it, and a flag that is up was put up by a throw that found the node attached.
`Reaches` (ThrowReaches) from `ReachInv`: the activities are attached from the beginning,
and each that listens has emitted its token or is still to be called.  `NotPassedByHolds`
is what WaitingCatches says without fairness: a throw neither returns nor goes on without
having woken a waiting catch event up, unless a slot has failed (`StillAttached`).

`BoundaryEvents_proofs`, for any hosts, timer and signals: `TimerStoppedHolds` and
`InterrupterKnownHolds`, from `BoundaryInv`.  A timer thread that still runs is the one
the future belongs to or the one an activation waits for (`Launched`); so a host that
was alone waits for its own when it detaches, and hosts that overlap are exempt
(`Alone`).  An event stores itself before it interrupts (`Told`, `Calls`): whoever reads
the flag first finds it stored, whoever copied the event before may have copied none.

`Resume_proofs`, for any number of branches: `JoinWaitsForAllHolds` and
`NothingSkippedHolds`, from `ResumeInv`.  Unless the snapshot is torn, what is saved is
a state that the mission was in (`Seen`, `SnapshotInv`), and in each mission a token
that is in its branch, or will be emitted there, has its input off (`Apart`); as long as
the end event has not been executed, a token is leaving the join, or those whose inputs
are off are in their branches and the last to arrive passes (`Going`).

`Flows_proofs`, of Branching, for any node, conditions, data and number of writes:
`ChoiceIsAbstractHolds` and `FollowedWasTrueHolds`, from `BranchingInv`.  A flow that
has been tried was followed, has no condition or its condition was false in some
state (`Trying`, `Justified`); a comparison is with a value that is still the present
one unless its key was written (`Compared`), and with one key written at most one of
the two sides is old.  A choice may be empty, if all conditions are false and there is no
default; runs in which two keys are written are left out by `OneKey`.

`Flows_proofs`, of Parser, for any files that satisfy `FilesAssumption` and any number of
loads, failures, validations and resets: `ModelIsTheFileHolds`, `PortsMatchFlowsHolds` and
`SubprocessesKnownHolds`, from `ParserInv`.  What a scope has in the end depends on the file
and on the events only, which are complete before the first process (`Final`); what has been
parsed of it is never more, and is as much as the phase of its call says (`Reached`), so
what a process takes into the model when it ends (`Stored`) is what the file has.  The calls
on the stack are nested as the file is (`Called`), and what they have returned is closed
under nesting (`Framed`).  The ports are claimed of every process of the model, those of
a failed load included (`AtRest`, `PortsMatch`).  Nothing depends on what an earlier load has left, but the claim
that there is nothing else, which is for models that are not `dirty`.

Each invariant was checked by TLC on the instances of the runs, or smaller ones, before it
was proved: `JoinInv` on forks with lasting, terminating and repeated joins, `MissionInv`,
`ScanHolds` and `Reported` with two callers and two missions under the constraint `Serial`,
`ReachInv` and `NotPassedBy` on `events` and `calls`, `ParserInv` on `parser`.

The proofs rest on the assumptions on constants that each module names
(`WorkflowAssumption`, `TokenAssumption`, `TaskAssumption`, `CallAssumption`,
`EventsAssumption`, `BoundaryAssumption`, `ResumeAssumption`, `BranchingAssumption`,
`FilesAssumption` and those of `Mission`), which TLC evaluates on the instances of the runs.
Beyond them there are the hypotheses that stand in the theorems themselves:
`JoinsFollowedAlone`, `Serial`, `NoStartInWait`, a single caller, and no orphans.

**Only model-checked**: the liveness properties (LastChildEndsProcess,
ExceptionEndsProcess, TerminateSettles, CallsReturn, TerminationHeard, InterruptionSeen,
DestructorReturns, WaitingCallEnds, WaitingCatches, CleanupReturns, ResumedEnds), as the
prover handles neither fairness nor ENABLED.  Every safety and action property that a passing run
checks has its theorem.  No module declares a RECURSIVE operator.

## 6. What the code says and does not do

`swallowed` is the run that expects a violation, and the finding in `PROJECT.json`: the
process returns OK ("Process terminated successfully") with an unread exception in its
queue.  TLC refutes the property of each of the following configurations, too.  With
`MCOverwatch`:

- `LastChild.cfg` (GivesUpAfterLastChild): an end event that is reached before
  `activity()` has filled `end_event_uuids_` is not reported, and the process waits for
  ever after its "last one left".
- `Abort.cfg` (AbortEndsProcess): a token emitted while the children are being
  terminated survives, and the aborted process waits for it.
- `TwoTerminators.cfg` (TerminateReturns): two terminating end events wait for each
  other's thread.
- `DirectJoin.cfg` (NoMissedJoin): a token emitted straight into a join runs before its
  port is on.
- `Natural.cfg` (NaturalEnd): the process reads `is_cancelled_` before the termination
  stores it and returns OK.
- `Boundary.cfg` (InterruptedWithoutEvent): the process copies the boundary event before
  it reads `is_interrupted_`: interrupted by an event, it reports none.

With `MCMission`:

- `AbortCrash.cfg` (AbortCleansUp): an abort before the main process is executed, or
  after it has returned, follows its null `instance_`.
- `Interrupted.cfg` (CallsReturn): the SIGINT handler waits for a mutex its own thread
  holds.
- `EndUnseen.cfg` (EndedIsOver): a main token that ends before its id is assigned leaves
  the mission in progress for ever.
- `StartTells.cfg` (StartTells): a start overtaken by another caller's abort returns
  true.
- `ResetOrphan.cfg` (CallsReturn): a reset waits, with the mutex, for a thread that needs
  it.
- `TwoMissions.cfg` (OldMissionGone): a second abort resets the model before the first
  has terminated the mission, which runs on beside the next one.

What the conditions in the properties of the other modules leave out is what the code
does not promise: a torn snapshot may lose or repeat a branch, a resumed catch event
hears nothing, a notification before a wait is lost, two calls of one process take each
other's end for their own, a task whose command throws keeps its resource, one whose key
was rewritten commands, aborts and releases another, overlapping hosts of a timer wait for
each other's, a call activity that an event interrupts between its two reads names none,
and a failed load leaves its processes to the next one.

## 7. What is not modelled

- Logging and the value types: they change no state of a mission.
- Connector manager and interface: loading of libraries and virtual calls; what a
  connector answers is external to `ConnectorTask`.
- XML reading and the archive format of snapshots: library code.  The copy of the data
  store into a snapshot without its mutex is a data race on a container, whose outcome
  no model bounds.
- The arithmetic of ISO 8601 expressions: valid or invalid in `Parser`, a wait that may
  end at any time elsewhere.
- The ports of a process over several executions (section 2).
- `Parser::copyDataInputAssociationToLocalDataStore`, `Token::interrupt` and
  `Token::getAttachedSignals`: nobody calls them.  That a reset is refused while a mission
  runs is in `Mission`; no mission is started in `Parser`.
- A process without an id (`Parser.cpp:55`): an error like that of an event without one.
