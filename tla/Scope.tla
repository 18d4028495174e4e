-------------------------------- MODULE Scope --------------------------------
(***************************************************************************)
(* What a process promises about its children.  Children enter while the   *)
(* process is starting, and later only as long as another child is live;   *)
(* each leaves once.  A process closes when no child is live; it fails at  *)
(* any time after it has started, whoever is still live.                   *)
(***************************************************************************)
CONSTANT Children

VARIABLES live,  \* the children that have entered and not left
          left,  \* the children that have left
          stage  \* of the process

vars == <<live, left, stage>>

Init == live = {} /\ left = {} /\ stage = "starting"

Enter(c) ==
  /\ stage = "starting" \/ live # {}
  /\ c \notin live \cup left
  /\ live' = live \cup {c}
  /\ UNCHANGED <<left, stage>>

Leave(c) ==
  /\ c \in live
  /\ live' = live \ {c} /\ left' = left \cup {c}
  /\ UNCHANGED stage

Watch ==
  /\ stage = "starting"
  /\ stage' = "watching"
  /\ UNCHANGED <<live, left>>

Close ==
  /\ stage = "watching" /\ live = {}
  /\ stage' = "closed"
  /\ UNCHANGED <<live, left>>

Fail ==
  /\ stage = "watching"
  /\ stage' = "failed"
  /\ UNCHANGED <<live, left>>

Next ==
  \/ \E c \in Children : Enter(c) \/ Leave(c)
  \/ Watch \/ Close \/ Fail

Spec == Init /\ [][Next]_vars

-----------------------------------------------------------------------------
\* A closed process has no live child, and none enters it again.
ClosedIsEmpty == stage = "closed" => live = {}
=============================================================================
