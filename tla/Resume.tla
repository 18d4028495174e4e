------------------------------- MODULE Resume -------------------------------
(***************************************************************************)
(* A snapshot of a running mission, and the mission that is resumed from   *)
(* it.  The mission is a process, watched by the main token, in which each *)
(* of the children has a branch; the branches meet in a parallel gateway,  *)
(* the join, and the token that passes it goes to the end event.  The      *)
(* snapshot reads the tokens one after the other, and then the inputs of   *)
(* the join, while the tokens move on.  The resumed mission gets the       *)
(* inputs, and then a token for each of the snapshot, one after the other, *)
(* that repeats the node it was on.                                        *)
(***************************************************************************)
EXTENDS Naturals

CONSTANTS Children, Main

ASSUME ResumeAssumption == Main \notin Children /\ Children # {}

Tokens == Children \cup {Main}

VARIABLES
  life,     \* 1 the mission, 2 the resumed one
  place,    \* the current node of a child
  stage,    \* where the thread of a child is
  inputs,   \* the inputs of the join that are on, named after the branches
  main,     \* where the process is
  heard,    \* its queue: the children that it has been notified of
  taking,   \* whether a snapshot is being taken
  unread,   \* the tokens that it has yet to read
  snapshot, \* what it has read
  toEmit,   \* the tokens that start() has yet to emit
  finished, \* history: the end event has been executed
  atBegin,  \* history: whether it had, when the snapshot began
  torn      \* history: a token was moving while the snapshot was read

tokenVars == <<place, stage, inputs>>
mainVars == <<main, heard>>
snapshotVars == <<taking, unread, snapshot, atBegin>>
vars == <<life, tokenVars, mainVars, snapshotVars, toEmit, finished, torn>>

Nothing == [at |-> [t \in {} |-> "branch"], inputs |-> {}]
Snapshots == [at : UNION {[D -> {"branch", "join", "end", "main"}] : D \in SUBSET Tokens},
              inputs : SUBSET Children]

TypeOK ==
  /\ life \in 1..2
  /\ place \in [Children -> {"branch", "join", "end"}]
  /\ stage \in [Children -> {"absent", "working", "moving", "inactive", "published",
                             "terminated"}]
  /\ inputs \subseteq Children
  /\ main \in {"absent", "starting", "attached", "watching", "over"} /\ heard \subseteq Children
  /\ taking \in {"idle", "reading", "saved"} /\ unread \subseteq Tokens
  /\ snapshot \in Snapshots
  /\ toEmit \subseteq Tokens
  /\ finished \in BOOLEAN /\ atBegin \in BOOLEAN /\ torn \in BOOLEAN

\* Each child is on its branch and the process watches.
Init ==
  /\ life = 1
  /\ place = [c \in Children |-> "branch"] /\ stage = [c \in Children |-> "working"]
  /\ inputs = {} /\ main = "watching" /\ heard = {}
  /\ taking = "idle" /\ unread = {} /\ snapshot = Nothing /\ toEmit = {}
  /\ finished = FALSE /\ atBegin = FALSE /\ torn = FALSE

Reading == taking = "reading"
Active(c) == stage[c] \in {"working", "moving", "inactive", "published"}
\* activeTokenCountByProcess: the tokens not yet emitted do not count.
LastOne == \A c \in Children : ~Active(c)
-----------------------------------------------------------------------------
(* Mutants: what a plausible bug would make of the definitions below.      *)

\* The inputs are listed whether they are on or off.
AllInputs == Children

\* The inputs of the snapshot are not given to the join.
RestoreNothing == inputs' = {}

\* A token that was stopped by the join tells no one.
TellOfEnd(c) == heard' = IF place[c] = "end" /\ main = "watching"
                         THEN heard \cup {c} ELSE heard
-----------------------------------------------------------------------------
(* The thread of a child.                                                  *)

\* The activity of the branch ends and the token turns on the input of the join.
LeaveBranch(c) ==
  /\ place[c] = "branch" /\ stage[c] = "working"
  /\ stage' = [stage EXCEPT ![c] = "moving"]
  /\ inputs' = inputs \cup {c}
  /\ torn' = (torn \/ Reading)
  /\ UNCHANGED <<life, place, mainVars, snapshotVars, toEmit, finished>>

\* The join: every input is on, and turned off, or the token stops.
Fires(c) == place[c] = "join" /\ stage[c] = "working" /\ inputs = Children

PassJoin(c) ==
  /\ Fires(c)
  /\ stage' = [stage EXCEPT ![c] = "moving"]
  /\ inputs' = {}
  /\ torn' = (torn \/ Reading)
  /\ UNCHANGED <<life, place, mainVars, snapshotVars, toEmit, finished>>

StopAtJoin(c) ==
  /\ place[c] = "join" /\ stage[c] = "working" /\ inputs # Children
  /\ stage' = [stage EXCEPT ![c] = "inactive"]
  /\ UNCHANGED <<life, place, inputs, mainVars, snapshotVars, toEmit, finished, torn>>

SetCurrentNode(c) ==
  /\ stage[c] = "moving"
  /\ place' = [place EXCEPT ![c] = IF @ = "branch" THEN "join" ELSE "end"]
  /\ stage' = [stage EXCEPT ![c] = "working"]
  /\ torn' = (torn \/ Reading)
  /\ UNCHANGED <<life, inputs, mainVars, snapshotVars, toEmit, finished>>

ExecuteEnd(c) ==
  /\ place[c] = "end" /\ stage[c] = "working"
  /\ stage' = [stage EXCEPT ![c] = "inactive"]
  /\ finished' = TRUE
  /\ torn' = (torn \/ Reading)
  /\ UNCHANGED <<life, place, inputs, mainVars, snapshotVars, toEmit>>

\* The process hears of it once its callback is attached; of a token at the end
\* event only when it has read which its end events are.
Hears(c) == main = "watching" \/ (main = "attached" /\ place[c] # "end")

Tell(c) == heard' = IF Hears(c) THEN heard \cup {c} ELSE heard

Publish(c) ==
  /\ stage[c] = "inactive"
  /\ stage' = [stage EXCEPT ![c] = "published"]
  /\ Tell(c)
  /\ UNCHANGED <<life, place, inputs, main, snapshotVars, toEmit, finished, torn>>

Terminate(c) ==
  /\ stage[c] = "published"
  /\ stage' = [stage EXCEPT ![c] = "terminated"]
  /\ UNCHANGED <<life, place, inputs, mainVars, snapshotVars, toEmit, finished, torn>>

\* cleanup_tokens() of the thread that waits for the mission.
Erase(c) ==
  /\ stage[c] = "terminated" /\ ~Reading
  /\ stage' = [stage EXCEPT ![c] = "absent"]
  /\ UNCHANGED <<life, place, inputs, mainVars, snapshotVars, toEmit, finished, torn>>
-----------------------------------------------------------------------------
(* The process.                                                            *)

\* resume() attaches the callback.
Attach ==
  /\ main = "starting"
  /\ main' = "attached"
  /\ UNCHANGED <<life, tokenVars, heard, snapshotVars, toEmit, finished, torn>>

\* activity() begins: getEndEventUuids().
ReadEndEvents ==
  /\ main = "attached"
  /\ main' = "watching"
  /\ UNCHANGED <<life, tokenVars, heard, snapshotVars, toEmit, finished, torn>>

\* A notification is handled when its token has terminated.
Watch ==
  /\ main = "watching"
  /\ \E c \in heard :
       /\ ~Active(c)
       /\ heard' = heard \ {c}
       /\ main' = IF LastOne THEN "over" ELSE main
  /\ UNCHANGED <<life, tokenVars, snapshotVars, toEmit, finished, torn>>
-----------------------------------------------------------------------------
(* generateEncodedSnapshot() of another thread.                            *)

BeginSnapshot ==
  /\ life = 1 /\ taking = "idle"
  /\ taking' = "reading"
  /\ \E m \in IF main = "over" THEN {{}, {Main}} ELSE {{Main}} :
       unread' = {c \in Children : stage[c] # "absent"} \cup m
  /\ atBegin' = finished
  /\ torn' = (\E c \in Children : stage[c] = "moving")
  /\ UNCHANGED <<life, tokenVars, mainVars, snapshot, toEmit, finished>>

\* A token that has terminated, and is not erased yet, is read like the others.
ReadToken ==
  /\ \E t \in unread :
       /\ unread' = unread \ {t}
       /\ snapshot' = [snapshot EXCEPT !.at =
                         [u \in DOMAIN @ \cup {t} |->
                            IF u # t THEN @[u] ELSE IF t = Main THEN "main" ELSE place[t]]]
  /\ UNCHANGED <<life, tokenVars, mainVars, taking, toEmit, finished, atBegin, torn>>

ActiveInputs == inputs

ReadInputs ==
  /\ Reading /\ unread = {}
  /\ taking' = "saved"
  /\ snapshot' = [snapshot EXCEPT !.inputs = ActiveInputs]
  /\ UNCHANGED <<life, tokenVars, mainVars, unread, toEmit, finished, atBegin, torn>>
-----------------------------------------------------------------------------
(* The program ends, by abort() or a crash, at any time, and another one   *)
(* resumes the mission: start() with the snapshot.                         *)

RestoreInputs == inputs' = snapshot.inputs

StartFromSnapshot ==
  /\ life = 1 /\ taking = "saved"
  /\ life' = 2
  /\ stage' = [c \in Children |-> "absent"]
  /\ RestoreInputs
  /\ main' = "absent" /\ heard' = {}
  /\ toEmit' = DOMAIN snapshot.at
  /\ finished' = atBegin
  /\ UNCHANGED <<place, snapshotVars, torn>>

\* A token runs as soon as it is emitted.
EmitToken ==
  /\ \E t \in toEmit :
       /\ toEmit' = toEmit \ {t}
       /\ \/ t = Main /\ main' = "starting" /\ UNCHANGED <<place, stage>>
          \/ /\ t # Main
             /\ place' = [place EXCEPT ![t] = snapshot.at[t]]
             /\ stage' = [stage EXCEPT ![t] = "working"]
             /\ UNCHANGED main
  /\ UNCHANGED <<life, inputs, heard, snapshotVars, finished, torn>>
-----------------------------------------------------------------------------
Child(c) ==
  \/ LeaveBranch(c) \/ PassJoin(c) \/ StopAtJoin(c) \/ SetCurrentNode(c)
  \/ ExecuteEnd(c) \/ Publish(c) \/ Terminate(c)

Next ==
  \/ \E c \in Children : Child(c) \/ Erase(c)
  \/ Attach \/ ReadEndEvents \/ Watch \/ BeginSnapshot \/ ReadToken \/ ReadInputs
  \/ StartFromSnapshot \/ EmitToken

Spec == Init /\ [][Next]_vars

\* The threads run.
FairSpec ==
  /\ Spec
  /\ \A c \in Children : WF_vars(Child(c))
  /\ WF_vars(Attach) /\ WF_vars(ReadEndEvents) /\ WF_vars(Watch) /\ WF_vars(EmitToken)
-----------------------------------------------------------------------------
(* The join does not let a token pass while another one is, or is going to *)
(* be, in a branch; in a resumed mission, if no token moved during the     *)
(* snapshot.                                                               *)
JoinWaitsForAll ==
  [][~torn =>
       \A c \in Children : PassJoin(c) =>
         /\ \A d \in Children : ~(place[d] = "branch" /\ stage[d] = "working")
         /\ \A d \in toEmit \ {Main} : snapshot.at[d] # "branch"]_vars

(* A process that ends after all its tokens have been emitted has executed *)
(* the end event, before the snapshot or after it, if no token moved       *)
(* during the snapshot: nothing is skipped.                                *)
NothingSkipped ==
  [][main' = "over" /\ main # "over" /\ toEmit = {} /\ ~torn => finished]_vars

(* A resumed process ends if it listens, its end events read, before its   *)
(* last child, and each other that is still active, tells that it has      *)
(* ended.  (The process is not told of a token that tells before: the      *)
(* resumed tokens run from the moment they are emitted.  If all tell       *)
(* before, or one does and terminates only after the last notification has *)
(* been handled, the mission hangs.)                                       *)
Listens ==
  /\ life = 2 /\ main = "watching"
  /\ \E c \in Children : stage[c] \in {"working", "moving"}
  /\ \A c \in Children : stage[c] = "published" => c \in heard

ResumedEnds == Listens ~> (main = "over")

(* Why the first two hold: unless the snapshot is torn, each token is in   *)
(* its branch (or will be emitted there) and its input is off, or it is    *)
(* past it and the input on, until one leaves the join; and what is saved  *)
(* is a state that the mission was in.                                     *)
Saved(d) == d \in DOMAIN snapshot.at
Emits(d, p) == d \in toEmit /\ snapshot.at[d] = p

InBranch(d) == (place[d] = "branch" /\ stage[d] = "working") \/ Emits(d, "branch")
Arriving(d) ==
  \/ place[d] = "branch" /\ stage[d] = "moving"
  \/ place[d] = "join" /\ stage[d] = "working"
  \/ Emits(d, "join")
Leaving(d) ==
  \/ place[d] = "join" /\ stage[d] = "moving"
  \/ place[d] = "end" /\ stage[d] = "working"
  \/ Emits(d, "end")

Phases ==
  /\ taking = "idle" => snapshot = Nothing /\ ~torn
  /\ ~Reading => unread = {}
  /\ life = 1 => toEmit = {}
  /\ life = 2 => taking = "saved" /\ toEmit \subseteq DOMAIN snapshot.at

Placed(d) ==
  /\ place[d] = "branch" => stage[d] \in {"absent", "working", "moving"}
  /\ place[d] = "end" => stage[d] # "moving"
  /\ stage[d] # "absent" => d \notin toEmit
  /\ Saved(d) => snapshot.at[d] # "main"

Apart(d) == ~torn /\ InBranch(d) => d \notin inputs

Going ==
  ~torn /\ ~finished =>
    \/ \E d \in Children : Leaving(d)
    \/ /\ \A d \in Children \ inputs : InBranch(d)
       /\ inputs = Children => \E d \in Children : Arriving(d)

Seen(d) ==
  Reading =>
    /\ stage[d] # "absent" <=> Saved(d) \/ d \in unread
    /\ ~torn => stage[d] # "moving" /\ (Saved(d) => snapshot.at[d] = place[d])

SnapshotInv ==
  ~torn =>
    /\ Reading => finished = atBegin
    /\ taking = "saved" =>
         \A d \in snapshot.inputs : Saved(d) => snapshot.at[d] # "branch"
    /\ taking = "saved" /\ ~atBegin =>
         \/ \E d \in Children : Saved(d) /\ snapshot.at[d] = "end"
         \/ /\ \A d \in Children \ snapshot.inputs : Saved(d) /\ snapshot.at[d] = "branch"
            /\ snapshot.inputs = Children =>
                 \E d \in Children : Saved(d) /\ snapshot.at[d] = "join"

ResumeInv ==
  /\ TypeOK /\ Phases /\ Going /\ SnapshotInv
  /\ \A d \in Children : Placed(d) /\ Apart(d) /\ Seen(d)
=============================================================================
