--------------------------- MODULE Mission_proofs ---------------------------
(***************************************************************************)
(* The order of a mission's statuses, proved for any number of callers and *)
(* missions and under every disturbance.                                   *)
(***************************************************************************)
EXTENDS Mission, FiniteSetTheorems, TLAPS

Labels == {"idle", "suspend", "crashed"} \cup Starting \cup Aborting \cup Waiting

\* What the steps of a caller rest on: where callers are, and that nobody goes
\* on to where the mutex of the status is held.
Places ==
  /\ at \in [Callers -> Labels]
  /\ back \in [Callers -> {"idle", "init"} \cup Waiting]

\* The inductive invariant.
StatusInv == Places /\ StatusLocked

Inside == {"emit", "assign", "clear", "destroy"}

\* A step that does not change the status or its mutex and takes its caller to
\* no place where the mutex is needed keeps the invariant.
LEMMA QuietKeeps ==
  ASSUME StatusInv, NEW c \in Callers, NEW l \in Labels \ Inside, Goto(c, l),
         UNCHANGED <<status, statusLock>>,
         back' \in [Callers -> {"idle", "init"} \cup Waiting]
  PROVE  StatusInv'
<1>1. Places'
  BY DEF StatusInv, Places, Goto
<1>2. StatusLocked'
  BY DEF StatusInv, Places, StatusLocked, Goto, Inside
<1> QED BY <1>1, <1>2 DEF StatusInv

\* While the mutex of the status is free nobody is where it is needed.
LEMMA FreeIsOutside ==
  ASSUME StatusInv, statusLock = {}
  PROVE  \A c \in Callers : at[c] \notin Inside
BY DEF StatusInv, StatusLocked, Inside

\* A step that changes the status under the mutex, in one go.
LEMMA OneGoKeeps ==
  ASSUME StatusInv, statusLock = {}, UNCHANGED <<statusLock, back>>,
         NEW c \in Callers, NEW l \in Labels \ Inside, Goto(c, l)
  PROVE  StatusInv'
<1>1. Places'
  BY DEF StatusInv, Places, Goto
<1>2. StatusLocked'
  BY FreeIsOutside DEF StatusInv, Places, StatusLocked, Goto, Inside
<1> QED BY <1>1, <1>2 DEF StatusInv

\* Whoever releases the mutex was the only one inside.
LEMMA ReleaseKeeps ==
  ASSUME StatusInv, NEW c \in Callers, at[c] \in Inside, statusLock' = {},
         NEW l \in Labels \ Inside, Goto(c, l),
         back' \in [Callers -> {"idle", "init"} \cup Waiting]
  PROVE  StatusInv'
<1>1. \A d \in Callers : d # c => at[d] \notin Inside
  BY DEF StatusInv, StatusLocked, Inside
<1>2. Places'
  BY DEF StatusInv, Places, Goto
<1>3. StatusLocked'
  BY <1>1 DEF StatusInv, Places, StatusLocked, Goto, Inside
<1> QED BY <1>2, <1>3 DEF StatusInv

\* Init puts every caller outside.
LEMMA InitHolds == Init => StatusInv
BY DEF Init, StatusInv, Places, StatusLocked, Labels, Waiting

\* A token's thread touches the status only while nobody holds the mutex.
LEMMA TokensKeep ==
  ASSUME StatusInv, NEW m \in Missions, TokenStep(m)
  PROVE  StatusInv'
<1>1. UNCHANGED <<at, back>>
  BY DEF TokenStep, MainStarts, MainEmits, ChildWorks, ChildEnds, MainEnds, Recognize, Report,
     Detach, callVars
<1>2. Places'
  BY <1>1 DEF StatusInv, Places
<1>3. CASE UNCHANGED <<status, statusLock>>
  BY <1>1, <1>2, <1>3 DEF StatusInv, StatusLocked
<1>4. CASE Report(m)
  <2>1. \A c \in Callers : at[c] \notin Inside
    BY <1>4, FreeIsOutside DEF Report
  <2> QED BY <1>1, <1>2, <2>1 DEF StatusInv, StatusLocked, Inside
<1>5. CASE ~Report(m)
  BY <1>5, <1>3 DEF TokenStep, MainStarts, MainEmits, ChildWorks, ChildEnds, MainEnds,
     Recognize, Detach
<1> QED BY <1>4, <1>5

\* Every step of a caller keeps the invariant.
LEMMA CallersKeep ==
  ASSUME StatusInv, NEW c \in Callers, Call(c) \/ CallStep(c) \/ Signal(c)
  PROVE  StatusInv'
<1> DEFINE Back == {"idle", "init"} \cup Waiting
<1>1. /\ {"idle", "suspend", "crashed", "check", "init", "validate", "launch", "abort",
          "lookup", "terminate", "join", "reset"} \cup Back \cup Waiting
            \subseteq Labels \ Inside
      /\ back \in [Callers -> Back] /\ at \in [Callers -> Labels]
  BY DEF StatusInv, Places, Labels, Inside, Starting, Aborting, Waiting
<1>2. \A l \in Back : [back EXCEPT ![c] = l] \in [Callers -> Back]
  BY <1>1
<1>3. CASE BeginStart(c) \/ BeginAbort(c) \/ BeginWait(c) \/ CheckLiftoff(c)
           \/ Validate(c) \/ LookUpMain(c) \/ TerminateMain(c) \/ FollowNull(c) \/ JoinMain(c)
           \/ Poll(c) \/ Scan(c) \/ CleanupTokens(c) \/ Suspend(c) \/ Signal(c)
  <2>1. UNCHANGED <<status, statusLock>>
    BY <1>3 DEF BeginStart, BeginAbort, BeginWait, CheckLiftoff, Validate,
       LookUpMain, TerminateMain, FollowNull, JoinMain, Poll, Scan, CleanupTokens, Suspend,
       Signal
  <2>2. back' \in [Callers -> Back]
    BY <1>1, <1>2, <1>3 DEF BeginStart, BeginAbort, BeginWait, CheckLiftoff,
       Validate, LookUpMain, TerminateMain, FollowNull, JoinMain, Poll, Scan, CleanupTokens,
       Suspend, Signal, callVars, Waiting
  <2>3. \E l \in Labels \ Inside : Goto(c, l)
    BY <1>1, <1>3 DEF BeginStart, BeginAbort, BeginWait, CheckLiftoff, Validate,
       LookUpMain, TerminateMain, FollowNull, JoinMain, Poll, Scan, CleanupTokens, Suspend,
       Signal, Return, Waiting
  <2> QED BY <2>1, <2>2, <2>3, QuietKeeps
<1>4. CASE InitializeFromXml(c) \/ SetAborted(c)
  <2>1. statusLock = {} /\ UNCHANGED <<statusLock, back>>
    BY <1>4 DEF InitializeFromXml, SetAborted, callVars
  <2>2. \E l \in Labels \ Inside : Goto(c, l)
    BY <1>1, <1>4 DEF InitializeFromXml, SetAborted, Return
  <2> QED BY <2>1, <2>2, OneGoKeeps
<1>5. CASE Launch(c)
  <2>1. CASE status = "READY"
    <3>1. statusLock = {} /\ statusLock' = {c} /\ Goto(c, "emit")
          /\ UNCHANGED <<status, back>>
      BY <1>5, <2>1 DEF Launch
    <3>2. Places'
      BY <1>1, <3>1 DEF Places, Goto, Labels, Starting
    <3>3. StatusLocked'
      BY <1>1, <2>1, <3>1, FreeIsOutside DEF StatusLocked, Goto, Inside
    <3> QED BY <3>2, <3>3 DEF StatusInv
  <2>2. CASE status # "READY"
    BY <1>1, <1>5, <2>2, QuietKeeps DEF Launch, Return
  <2> QED BY <2>1, <2>2
<1>6. CASE EmitMain(c)
  <2>1. at[c] = "emit" /\ Goto(c, "assign") /\ UNCHANGED <<status, statusLock, back>>
    BY <1>6 DEF EmitMain, callVars
  <2>2. Places'
    BY <1>1, <2>1 DEF Places, Goto, Labels, Starting
  <2>3. StatusLocked'
    BY <1>1, <2>1 DEF StatusInv, StatusLocked, Goto
  <2> QED BY <2>2, <2>3 DEF StatusInv
<1>7. CASE AssignMain(c)
  BY <1>1, <1>7, ReleaseKeeps DEF AssignMain, Return, Inside
<1>8. CASE Reset(c)
  <2>1. CASE status = "IN_PROGRESS"
    <3>1. UNCHANGED <<status, statusLock>> /\ Goto(c, back[c])
          /\ back' = [back EXCEPT ![c] = "idle"]
      BY <1>8, <2>1 DEF Reset, Resume
    <3>2. back[c] \in Labels \ Inside
      BY <1>1
    <3>3. back' \in [Callers -> Back]
      BY <1>2, <3>1
    <3> QED BY <3>1, <3>2, <3>3, QuietKeeps
  <2>2. CASE status # "IN_PROGRESS"
    <3>1. statusLock = {} /\ statusLock' = {c} /\ Goto(c, "clear")
          /\ UNCHANGED <<status, back>>
      BY <1>8, <2>2 DEF Reset
    <3>2. Places'
      BY <1>1, <3>1 DEF Places, Goto, Labels, Aborting
    <3>3. StatusLocked'
      BY <1>1, <2>2, <3>1, FreeIsOutside DEF StatusLocked, Goto, Inside
    <3> QED BY <3>2, <3>3 DEF StatusInv
  <2> QED BY <2>1, <2>2
<1>9. CASE Clear(c)
  <2>1. at[c] = "clear" /\ Goto(c, "destroy") /\ UNCHANGED <<status, statusLock, back>>
    BY <1>9 DEF Clear, callVars
  <2>2. Places'
    BY <1>1, <2>1 DEF Places, Goto, Labels, Aborting
  <2>3. StatusLocked'
    BY <1>1, <2>1 DEF StatusInv, StatusLocked, Goto
  <2> QED BY <2>2, <2>3 DEF StatusInv
<1>10. CASE Destroy(c)
  <2>1. at[c] \in Inside /\ statusLock' = {} /\ Goto(c, back[c])
        /\ back' = [back EXCEPT ![c] = "idle"]
    BY <1>10 DEF Destroy, Resume, Inside
  <2>2. back[c] \in Labels \ Inside
    BY <1>1
  <2>3. back' \in [Callers -> Back]
    BY <1>2, <2>1
  <2> QED BY <2>1, <2>2, <2>3, ReleaseKeeps
<1> QED
  BY <1>3, <1>4, <1>5, <1>6, <1>7, <1>8, <1>9, <1>10 DEF Call, CallStep

\* The invariant is inductive.
LEMMA NextKeeps == StatusInv /\ [Next]_vars => StatusInv'
<1>1. ASSUME StatusInv, UNCHANGED vars PROVE StatusInv'
  BY <1>1 DEF StatusInv, Places, StatusLocked, vars, callVars
<1> QED BY <1>1, TokensKeep, CallersKeep DEF Next

\* The mutex of the status is held where a mission is launched or the model is
\* reset, and the status found there stays.
THEOREM StatusLockedHolds == Spec => []StatusLocked
<1>1. StatusInv => StatusLocked
  BY DEF StatusInv
<1> QED BY <1>1, InitHolds, NextKeeps, PTL DEF Spec

\* No step breaks the order of the statuses where the invariant holds.
LEMMA StepInOrder ==
  ASSUME StatusInv, Next
  PROVE  /\ status = "ABORTED" => status' \in {"ABORTED", "UNINITIALIZED"}
         /\ status' \in {"SUCCESS", "FAILED"} => status \in {"IN_PROGRESS", status'}
         /\ status = "IN_PROGRESS" => status' # "UNINITIALIZED"
<1>1. CASE UNCHANGED status
  BY <1>1
<1>2. CASE \E m \in Missions : Report(m)
  BY <1>2 DEF Report
<1>3. CASE \E c \in Callers : InitializeFromXml(c) \/ SetAborted(c)
  BY <1>3 DEF InitializeFromXml, SetAborted
<1>4. CASE \E c \in Callers : AssignMain(c)
  BY <1>4 DEF AssignMain, StatusInv, StatusLocked
<1>5. CASE \E c \in Callers : Destroy(c)
  BY <1>5 DEF Destroy, StatusInv, StatusLocked
<1>6. UNCHANGED status \/ (\E m \in Missions : Report(m))
      \/ (\E c \in Callers : InitializeFromXml(c) \/ SetAborted(c) \/ AssignMain(c)
                             \/ Destroy(c))
  BY DEF Next, vars, TokenStep, Call, CallStep, MainStarts, MainEmits, ChildWorks, ChildEnds, MainEnds,
     Recognize, Detach, BeginStart, CheckLiftoff, Validate, Launch, EmitMain,
     BeginAbort, LookUpMain, TerminateMain, FollowNull, JoinMain, Reset, Clear, BeginWait, Poll,
     Scan, CleanupTokens, Signal, Suspend
<1> QED BY <1>1, <1>2, <1>3, <1>4, <1>5, <1>6

\* A mission that was aborted stays aborted until it is reset, only a mission in
\* progress gets an outcome, and it is not reset, whatever callers and tokens do
\* at the same time.
THEOREM StatusOrderHolds == Spec => StatusOrder
<1>1. StatusInv /\ [Next]_vars =>
        [/\ status = "ABORTED" => status' \in {"ABORTED", "UNINITIALIZED"}
         /\ status' \in {"SUCCESS", "FAILED"} => status \in {"IN_PROGRESS", status'}
         /\ status = "IN_PROGRESS" => status' # "UNINITIALIZED"]_vars
  BY StepInOrder DEF vars
<1> QED BY <1>1, InitHolds, NextKeeps, PTL DEF Spec, StatusOrder

-----------------------------------------------------------------------------
(* One mission at a time: what holds as long as starts and aborts do not   *)
(* overlap.                                                                *)

Overs == {"none", "gone"}
Mains == {"none", "new", "run", "publish", "report", "detach", "gone"}

\* What it means that a thread is over, before and after a step.
LEMMA OverIs ==
  ASSUME NEW m
  PROVE  /\ Over(<<m, "main">>) <=> main[m] \in Overs
         /\ Over(<<m, "child">>) <=> child[m] \in Overs
         /\ Over(<<m, "main">>)' <=> main'[m] \in Overs
         /\ Over(<<m, "child">>)' <=> child'[m] \in Overs
         /\ Still(m) <=> main[m] \in Overs /\ child[m] \in Overs
         /\ Still(m)' <=> main'[m] \in Overs /\ child'[m] \in Overs
BY DEF Over, Still, Overs

\* Every token is the main token or the child of a mission.
LEMMA TokenIs ==
  /\ \A k \in Tokens : \E m \in Missions : k = <<m, "main">> \/ k = <<m, "child">>
  /\ \A m \in Missions : <<m, "main">> \in Tokens /\ <<m, "child">> \in Tokens
BY DEF Tokens

\* The number of the last mission.
LEMMA LastIs == Last \in Nat /\ Last <= MaxMissions
<1>1. Launched \subseteq 1..MaxMissions
  BY DEF Launched, Missions
<1>2. IsFiniteSet(1..MaxMissions) /\ Cardinality(1..MaxMissions) = MaxMissions
  BY FS_Interval, MissionAssumption
<1> QED BY <1>1, <1>2, FS_Subset, FS_CardinalityType DEF Last

LEMMA LastNext ==
  ASSUME NEW n \in Nat, n <= MaxMissions,
         \A m \in Missions : main'[m] # "none" <=> m <= n
  PROVE  Last' = n
<1>1. Launched' = 1..n
  BY MissionAssumption DEF Launched, Missions
<1>2. Cardinality(1..n) = n
  BY FS_Interval
<1> QED BY <1>1, <1>2 DEF Last

\* A step that launches nothing.
LEMMA LastSame ==
  ASSUME \A m \in Missions : main'[m] # "none" <=> main[m] # "none"
  PROVE  Last' = Last
BY DEF Last, Launched

\* The token steps change nothing of the callers, and the model of a caller has
\* the same type before and after.
LEMMA TokenTypes ==
  ASSUME TypeOK, NEW m \in Missions, TokenStep(m)
  PROVE  TypeOK'
<1> USE DEF TypeOK, callVars
<1>1. CASE MainEmits(m)
  BY <1>1 DEF MainEmits, Tokens
<1>2. CASE ChildWorks(m)
  BY <1>2 DEF ChildWorks
<1>3. CASE ChildEnds(m)
  BY <1>3 DEF ChildEnds
<1>4. CASE MainEnds(m)
  BY <1>4 DEF MainEnds
<1>5. CASE Recognize(m)
  BY <1>5 DEF Recognize
<1>6. CASE Report(m)
  BY <1>6 DEF Report
<1>7. CASE Detach(m)
  BY <1>7 DEF Detach
<1>8. CASE MainStarts(m)
  BY <1>8 DEF MainStarts
<1> QED BY <1>1, <1>2, <1>3, <1>4, <1>5, <1>6, <1>7, <1>8 DEF TokenStep

\* What the step of a token's thread may do to its mission.
TokenEffect(m) ==
  /\ UNCHANGED <<statusLock, listLock, mainToken, at, back, target, swept, ok>>
  /\ status' = status \/ (status = "IN_PROGRESS" /\ status' \in {"SUCCESS", "FAILED"})
  /\ main[m] \notin Overs \/ child[m] \notin Overs
  /\ main[m] # "none" /\ main'[m] # "none"
  /\ \A n \in Missions \ {m} : main'[n] = main[n] /\ child'[n] = child[n]
  /\ main[m] \in Overs => main'[m] \in Overs
  /\ child[m] \in Overs => child'[m] \in Overs \/ <<m, "child">> \in tokens'
  /\ tokens \subseteq tokens'
  /\ main'[m] \in {"new", "run", "publish"} => main[m] \in {"new", "run", "publish"}
  /\ main'[m] \in {"report", "detach"} =>
       main[m] \in {"report", "detach"} \/ m = mainToken
  /\ listener' = listener \/ (main[m] = "detach" /\ main'[m] = "gone")

LEMMA TokenDoes ==
  ASSUME MissionInv, NEW m \in Missions, TokenStep(m)
  PROVE  TokenEffect(m)
<1>0. /\ main \in [Missions -> Mains]
      /\ child \in [Missions -> {"none", "busy", "emit", "gone"}]
      /\ main[m] = "none" => child[m] = "none"
  BY DEF MissionInv, TypeOK, Labels, Mains, InOrder
<1> USE <1>0 DEF callVars, TokenEffect, Overs
<1>1. CASE MainEmits(m)
  BY <1>1 DEF MainEmits
<1>2. CASE ChildWorks(m)
  BY <1>2 DEF ChildWorks
<1>3. CASE ChildEnds(m)
  BY <1>3 DEF ChildEnds
<1>4. CASE MainEnds(m)
  BY <1>4 DEF MainEnds
<1>5. CASE Recognize(m)
  BY <1>5 DEF Recognize
<1>6. CASE Report(m)
  BY <1>6 DEF Report
<1>7. CASE Detach(m)
  BY <1>7 DEF Detach
<1>8. CASE MainStarts(m)
  BY <1>8 DEF MainStarts
<1> QED BY <1>1, <1>2, <1>3, <1>4, <1>5, <1>6, <1>7, <1>8 DEF TokenStep

\* A step of a token's thread keeps the missions in order: its mission is the
\* last one.
LEMMA TokenInOrder ==
  ASSUME MissionInv, NEW m \in Missions, TokenEffect(m)
  PROVE  InOrder' /\ Last' = Last
<1>1. Last' = Last
  BY LastSame DEF TokenEffect
<1>2. ~Still(m)
  BY OverIs DEF TokenEffect
<1>3. m = Last
  BY <1>2 DEF MissionInv, InOrder
<1>4. \A n \in Missions \ {m} : Still(n)' <=> Still(n)
  BY OverIs DEF TokenEffect
<1>5. \A n \in Missions : main'[n] # "none" <=> n <= Last
  BY <1>3 DEF MissionInv, InOrder, TokenEffect
<1>6. \A n \in Missions : main'[n] = "none" => child'[n] = "none"
  BY DEF MissionInv, InOrder, TokenEffect
<1>7. \A n \in Missions : n # Last => Still(n)'
  BY <1>3, <1>4 DEF MissionInv, InOrder
<1>8. ~ (status' \in {"UNINITIALIZED", "READY"} /\ \A c \in Callers : at'[c] # "assign")
  BY <1>2 DEF MissionInv, InOrder, TokenEffect
<1> QED BY <1>1, <1>5, <1>6, <1>7, <1>8 DEF InOrder

LEMMA TokenKnown ==
  ASSUME MissionInv, NEW m \in Missions, TokenEffect(m)
  PROVE  Known'
<1>1. Last' = Last
  BY TokenInOrder
<1>2. ASSUME NEW k \in Tokens PROVE Over(k)' \/ k \in tokens'
  <2>1. Over(k) \/ k \in tokens'
    BY DEF MissionInv, Known, TokenEffect
  <2>2. PICK n \in Missions : k = <<n, "main">> \/ k = <<n, "child">>
    BY TokenIs
  <2>3. CASE n = m
    BY <2>1, <2>2, <2>3, OverIs DEF TokenEffect
  <2>4. CASE n # m
    BY <2>1, <2>2, <2>4, OverIs DEF TokenEffect
  <2> QED BY <2>3, <2>4
<1>3. mainToken' <= Last'
  BY <1>1 DEF MissionInv, Known, TokenEffect
<1>4. status' \notin {"UNINITIALIZED", "READY"} => mainToken' = Last' /\ Last' # 0
  BY <1>1 DEF MissionInv, Known, TokenEffect
<1>5. \A n \in Missions : main'[n] \in {"report", "detach"} => n = mainToken'
  BY DEF MissionInv, Known, TokenEffect
<1>6. MissionIsHeard'
  <2> SUFFICES ASSUME status' = "IN_PROGRESS", main'[mainToken] \in {"new", "run", "publish"}
               PROVE  listener'
    BY DEF MissionIsHeard, TokenEffect
  <2>1. status = "IN_PROGRESS"
    BY DEF TokenEffect
  <2>2. mainToken \in Missions
    BY <2>1 DEF MissionInv, Known, TypeOK
  <2>3. main[mainToken] \in {"new", "run", "publish"}
    BY <2>2 DEF TokenEffect
  <2>4. listener
    BY <2>1, <2>3 DEF MissionInv, Known, MissionIsHeard
  <2>5. ~ (main[m] = "detach" /\ main'[m] = "gone")
    BY DEF MissionInv, Known
  <2> QED BY <2>4, <2>5 DEF TokenEffect
<1> QED BY <1>2, <1>3, <1>4, <1>5, <1>6 DEF Known

LEMMA TokenOfCaller ==
  ASSUME MissionInv, NEW m \in Missions, TokenEffect(m), NEW c \in Callers
  PROVE  OfCaller(c)'
<1>1. Last' = Last
  BY TokenInOrder
<1>2. ASSUME at[c] \in {"emit", "assign"} PROVE listener'
  <2>1. listener /\ status = "READY"
    BY <1>2 DEF MissionInv, OfCaller, StatusLocked
  <2>2. ~Still(m)
    BY OverIs DEF TokenEffect
  <2>3. PICK d \in Callers : at[d] = "assign"
    BY <2>1, <2>2 DEF MissionInv, InOrder
  <2>4. m = Last /\ mainToken < Last
    BY <2>2, <2>3 DEF MissionInv, InOrder, OfCaller
  <2>5. main[m] # "detach"
    BY <2>4, LastIs DEF MissionInv, Known
  <2> QED BY <2>1, <2>5 DEF TokenEffect
<1> QED BY <1>1, <1>2 DEF MissionInv, OfCaller, TokenEffect

\* What the steps of a caller do that neither launch a mission nor erase tokens.
CallEffect(c) ==
  /\ UNCHANGED <<main, child, mainToken>> /\ tokens \subseteq tokens'
  /\ \/ status' = status
     \/ status = "UNINITIALIZED" /\ status' = "READY"
     \/ status = "IN_PROGRESS" /\ status' = "ABORTED"
  /\ listener => listener'
  /\ at[c] # "assign"
  /\ \A d \in Callers \ {c} :
       /\ at'[d] = at[d] /\ back'[d] = back[d]
       /\ target'[d] = target[d] /\ swept'[d] = swept[d]

QuietCall(c) ==
  \/ BeginStart(c) \/ CheckLiftoff(c) \/ InitializeFromXml(c) \/ Validate(c)
  \/ Launch(c) \/ BeginAbort(c) \/ SetAborted(c) \/ LookUpMain(c)
  \/ TerminateMain(c) \/ FollowNull(c) \/ JoinMain(c) \/ Reset(c) \/ Clear(c) \/ BeginWait(c)
  \/ Poll(c) \/ Scan(c) \/ Signal(c) \/ Suspend(c)

LEMMA CallDoes ==
  ASSUME MissionInv, NEW c \in Callers, QuietCall(c)
  PROVE  CallEffect(c)
<1>0. /\ at \in [Callers -> Labels]
      /\ back \in [Callers -> {"idle", "init"} \cup Waiting]
      /\ target \in [Callers -> Missions \cup {0}] /\ swept \in [Callers -> BOOLEAN]
  BY DEF MissionInv, TypeOK, Labels, Mains
<1> USE <1>0 DEF Labels, CallEffect, tokenVars, callVars, Goto
<1>1. CASE BeginStart(c)
  BY <1>1 DEF BeginStart
<1>2. CASE CheckLiftoff(c)
  BY <1>2 DEF CheckLiftoff
<1>3. CASE InitializeFromXml(c)
  BY <1>3 DEF InitializeFromXml, Return
<1>4. CASE Validate(c)
  BY <1>4 DEF Validate, Return
<1>5. CASE Launch(c)
  BY <1>5 DEF Launch, Return
<1>6. CASE BeginAbort(c)
  BY <1>6 DEF BeginAbort
<1>7. CASE SetAborted(c)
  BY <1>7 DEF SetAborted
<1>8. CASE LookUpMain(c)
  BY <1>8 DEF LookUpMain
<1>9. CASE TerminateMain(c)
  BY <1>9 DEF TerminateMain
<1>10. CASE JoinMain(c)
  BY <1>10 DEF JoinMain
<1>11. CASE Reset(c)
  BY <1>11 DEF Reset, Resume
<1>12. CASE Clear(c)
  BY <1>12 DEF Clear
<1>13. CASE BeginWait(c)
  BY <1>13 DEF BeginWait
<1>14. CASE Poll(c)
  BY <1>14 DEF Poll
<1>15. CASE Scan(c)
  BY <1>15 DEF Scan
<1>16. CASE Signal(c)
  BY <1>16 DEF Signal, Waiting
<1>17. CASE Suspend(c)
  BY <1>17 DEF Suspend
<1>18. CASE FollowNull(c)
  BY <1>18 DEF FollowNull
<1> QED
  BY <1>1, <1>2, <1>3, <1>4, <1>5, <1>6, <1>7, <1>8, <1>9, <1>10, <1>11, <1>12,
     <1>13, <1>14, <1>15, <1>16, <1>17, <1>18 DEF QuietCall

LEMMA CallInOrder ==
  ASSUME MissionInv, NEW c \in Callers, CallEffect(c)
  PROVE  InOrder' /\ Last' = Last
<1>1. Last' = Last
  BY LastSame DEF CallEffect
<1>2. \A m \in Missions : Still(m)' <=> Still(m)
  BY OverIs DEF CallEffect
<1>3. (\A d \in Callers : at'[d] # "assign") => \A d \in Callers : at[d] # "assign"
  BY DEF CallEffect
<1> QED BY <1>1, <1>2, <1>3 DEF MissionInv, InOrder, CallEffect

LEMMA CallKnown ==
  ASSUME MissionInv, NEW c \in Callers, CallEffect(c)
  PROVE  Known'
<1>1. Last' = Last
  BY CallInOrder
<1>2. \A k \in Tokens : Over(k)' <=> Over(k)
  BY DEF Over, CallEffect
<1>3. MissionIsHeard'
  BY DEF MissionInv, Known, MissionIsHeard, CallEffect
<1> QED BY <1>1, <1>2, <1>3 DEF MissionInv, Known, CallEffect

\* Where the callers are that take no part in a step.
LEMMA OthersKept ==
  ASSUME MissionInv, NEW c \in Callers, CallEffect(c), NEW d \in Callers, d # c
  PROVE  OfCaller(d)'
BY CallInOrder DEF MissionInv, OfCaller, CallEffect

\* A call begins while nobody else is about to launch a mission.
LEMMA RoomToStart ==
  ASSUME MissionInv, Serial', NEW c \in Callers, BeginStart(c)
  PROVE  Last < MaxMissions
<1> DEFINE S == {d \in Callers : at[d] \in Starting \/ back[d] = "init"}
<1>1. ASSUME NEW d \in S PROVE FALSE
  <2>1. at[d] # "idle" /\ at[d] \notin Waiting
    BY DEF MissionInv, OfCaller, Starting, Aborting, Waiting
  <2>2. d # c
    BY <2>1 DEF BeginStart
  <2>3. at'[d] = at[d] /\ at'[c] \in {"check", "init"}
    BY <2>2 DEF MissionInv, TypeOK, BeginStart, Goto
  <2> QED BY <2>1, <2>2, <2>3 DEF Serial, Active, Waiting
<1>2. S = {}
  BY <1>1
<1> QED BY <1>2 DEF BeginStart, Last

LEMMA CallOfCaller ==
  ASSUME MissionInv, Serial', NEW c \in Callers, QuietCall(c)
  PROVE  OfCaller(c)'
<1>0. /\ at \in [Callers -> Labels]
      /\ back \in [Callers -> {"idle", "init"} \cup Waiting]
      /\ target \in [Callers -> Missions \cup {0}] /\ swept \in [Callers -> BOOLEAN]
      /\ OfCaller(c) /\ Last' = Last
  BY CallDoes, CallInOrder DEF MissionInv, TypeOK, Labels, Mains
<1> USE <1>0 DEF Labels, OfCaller, Starting, Aborting, Waiting, tokenVars, callVars, Goto
<1>1. CASE BeginStart(c)
  BY <1>1, RoomToStart DEF BeginStart
<1>2. CASE CheckLiftoff(c)
  BY <1>2 DEF CheckLiftoff
<1>3. CASE InitializeFromXml(c)
  BY <1>3 DEF InitializeFromXml, Return
<1>4. CASE Validate(c)
  BY <1>4 DEF Validate, Return
<1>5. CASE Launch(c)
  BY <1>5 DEF Launch, Return
<1>6. CASE BeginAbort(c)
  BY <1>6 DEF BeginAbort
<1>7. CASE SetAborted(c)
  BY <1>7 DEF SetAborted
<1>8. CASE LookUpMain(c)
  BY <1>8 DEF LookUpMain
<1>9. CASE TerminateMain(c)
  BY <1>9 DEF TerminateMain
<1>10. CASE JoinMain(c)
  BY <1>10 DEF JoinMain
<1>11. CASE Reset(c)
  BY <1>11 DEF Reset, Resume
<1>12. CASE Clear(c)
  BY <1>12 DEF Clear
<1>13. CASE BeginWait(c)
  BY <1>13 DEF BeginWait
<1>14. CASE Poll(c)
  BY <1>14 DEF Poll
<1>15. CASE Scan(c)
  BY <1>15 DEF Scan
<1>16. CASE Signal(c)
  BY <1>16 DEF Signal
<1>17. CASE Suspend(c)
  BY <1>17 DEF Suspend
<1>18. CASE FollowNull(c)
  BY <1>18 DEF FollowNull
<1> QED
  BY <1>1, <1>2, <1>3, <1>4, <1>5, <1>6, <1>7, <1>8, <1>9, <1>10, <1>11, <1>12,
     <1>13, <1>14, <1>15, <1>16, <1>17, <1>18 DEF QuietCall

\* A mission is launched when nothing of an older one runs.
LEMMA EmitKeeps ==
  ASSUME MissionInv, Serial, NEW c \in Callers, EmitMain(c)
  PROVE  /\ InOrder' /\ Known' /\ Last' = Last + 1 /\ Last + 1 \in Missions
         /\ \A d \in Callers : OfCaller(d)'
<1> DEFINE m == Last + 1
<1> USE LastIs
<1>0. /\ main \in [Missions -> Mains]
      /\ child \in [Missions -> {"none", "busy", "emit", "gone"}]
      /\ at \in [Callers -> Labels]
      /\ mainToken <= Last
  BY DEF MissionInv, TypeOK, Labels, Mains, Known
<1>1. /\ at[c] = "emit" /\ at' = [at EXCEPT ![c] = "assign"]
      /\ main' = [main EXCEPT ![m] = "new"]
      /\ tokens' = tokens \cup {<<m, "main">>}
      /\ UNCHANGED <<status, listener, mainToken, child, back, target, swept>>
  BY DEF EmitMain, Goto, callVars, Last
<1>2. Last < MaxMissions /\ listener /\ status = "READY"
  BY <1>1 DEF MissionInv, OfCaller, StatusLocked, Starting
<1>3. m \in Missions /\ m \in Nat /\ m <= MaxMissions
  BY <1>2, MissionAssumption DEF Missions
<1>4. \A d \in Callers : d # c => ~Active(d)
  BY <1>1 DEF Serial, Active, Waiting
<1>5. \A d \in Callers : at[d] # "assign"
  BY <1>1, <1>4 DEF Active, Waiting
<1>6. \A n \in Missions : Still(n)
  BY <1>2, <1>5 DEF MissionInv, InOrder
<1>7. Last' = m
  <2>1. \A n \in Missions : main'[n] # "none" <=> n <= m
    BY <1>0, <1>1, <1>3 DEF MissionInv, InOrder, Missions
  <2> QED BY <1>3, <2>1, LastNext
<1>8. \A n \in Missions : n # m => (Still(n)' <=> Still(n))
  BY <1>0, <1>1, <1>3, OverIs
<1>9. InOrder'
  <2>1. \A n \in Missions : main'[n] # "none" <=> n <= Last'
    BY <1>0, <1>1, <1>3, <1>7 DEF MissionInv, InOrder, Missions
  <2>2. \A n \in Missions : main'[n] = "none" => child'[n] = "none"
    BY <1>0, <1>1, <1>3 DEF MissionInv, InOrder
  <2>3. \A n \in Missions : n # Last' => Still(n)'
    BY <1>6, <1>7, <1>8
  <2>4. at'[c] = "assign"
    BY <1>0, <1>1
  <2> QED BY <2>1, <2>2, <2>3, <2>4 DEF InOrder
<1>10. Known'
  <2>1. ASSUME NEW k \in Tokens PROVE Over(k)' \/ k \in tokens'
    <3>1. PICK n \in Missions : k = <<n, "main">> \/ k = <<n, "child">>
      BY TokenIs
    <3>2. CASE k = <<m, "main">>
      BY <1>1, <3>2
    <3>3. CASE k # <<m, "main">>
      <4>1. Over(k)' <=> Over(k)
        BY <1>0, <1>1, <1>3, <3>1, <3>3, OverIs
      <4> QED BY <4>1, <1>1 DEF MissionInv, Known
    <3> QED BY <3>2, <3>3
  <2>2. \A n \in Missions : main'[n] \in {"report", "detach"} => n = mainToken'
    BY <1>0, <1>1, <1>3 DEF MissionInv, Known
  <2> QED
    BY <1>0, <1>1, <1>2, <1>7, <2>1, <2>2 DEF Known, MissionIsHeard, MissionInv, TypeOK, Missions
<1>11. ASSUME NEW d \in Callers PROVE OfCaller(d)'
  <2>1. CASE d = c
    BY <1>0, <1>1, <1>2, <1>7, <2>1 DEF MissionInv, OfCaller, TypeOK, Starting,
       Aborting, Missions, Waiting
  <2>2. CASE d # c
    <3>1. at'[d] = at[d] /\ at[d] \in {"idle"} \cup Waiting
      BY <1>0, <1>1, <1>4, <2>2 DEF Active
    <3>2. at[d] \notin Starting \cup Aborting \cup {"suspend"}
      BY <3>1 DEF Starting, Aborting, Waiting
    <3>3. back[d] = "idle" /\ target[d] = 0 /\ ~swept[d]
      BY <3>2 DEF MissionInv, OfCaller, Aborting
    <3> QED BY <1>1, <3>1, <3>2, <3>3 DEF OfCaller, Starting
  <2> QED BY <2>1, <2>2
<1> QED BY <1>3, <1>7, <1>9, <1>10, <1>11

\* Only then is the mission in progress, and the model listens to its main token.
LEMMA AssignKeeps ==
  ASSUME MissionInv, Serial, NEW c \in Callers, AssignMain(c)
  PROVE  /\ InOrder' /\ Known'
         /\ \A d \in Callers : OfCaller(d)'
<1> USE LastIs
<1>0. /\ at \in [Callers -> Labels]
      /\ mainToken \in Missions \cup {0}
  BY DEF MissionInv, TypeOK, Labels, Mains
<1>1. /\ at[c] = "assign" /\ at' = [at EXCEPT ![c] = "idle"]
      /\ mainToken' = Last /\ status' = "IN_PROGRESS"
      /\ UNCHANGED <<listener, tokens, main, child, back, target, swept>>
  BY DEF AssignMain, Return, Goto, Last
<1>2. mainToken < Last /\ listener
  BY <1>1 DEF MissionInv, OfCaller
<1>3. Last' = Last
  BY <1>1, LastSame
<1>4. \A d \in Callers : d # c => ~Active(d)
  BY <1>1 DEF Serial, Active, Waiting
<1>5. \A m \in Missions : Still(m)' <=> Still(m)
  BY <1>1, OverIs
<1>6. InOrder'
  BY <1>1, <1>3, <1>5 DEF MissionInv, InOrder
<1>7. \A k \in Tokens : Over(k)' <=> Over(k)
  BY <1>1 DEF Over
<1>8. \A m \in Missions : main[m] \notin {"report", "detach"}
  <2> SUFFICES ASSUME NEW m \in Missions, main[m] \in {"report", "detach"} PROVE FALSE
    OBVIOUS
  <2>1. m # Last
    BY <1>2 DEF MissionInv, Known
  <2>2. Still(m)
    BY <2>1 DEF MissionInv, InOrder
  <2> QED BY <2>2, OverIs DEF Overs
<1>9. Last # 0
  BY <1>0, <1>2 DEF Missions
<1>10. Known'
  BY <1>1, <1>2, <1>3, <1>7, <1>8, <1>9 DEF MissionInv, Known, MissionIsHeard
<1>11. ASSUME NEW d \in Callers PROVE OfCaller(d)'
  <2>1. CASE d = c
    BY <1>0, <1>1, <1>3, <2>1 DEF MissionInv, OfCaller, Starting, Aborting
  <2>2. CASE d # c
    <3>1. at'[d] = at[d] /\ at[d] # "assign"
      BY <1>0, <1>1, <1>4, <2>2 DEF Active, Waiting
    <3> QED BY <1>1, <1>3, <3>1 DEF MissionInv, OfCaller
  <2> QED BY <2>1, <2>2
<1> QED BY <1>6, <1>10, <1>11

\* The model is reset when nothing runs any more, and tokens that are terminated
\* are erased: the threads are left alone.
EraseEffect(c) ==
  /\ UNCHANGED <<main, child, mainToken, listener>>
  /\ \A k \in tokens \cap Tokens : Over(k) \/ k \in tokens'
  /\ status' = status \/ (status' = "UNINITIALIZED" /\ \A m \in Missions : Still(m))
  /\ at[c] # "assign"
  /\ \A d \in Callers \ {c} :
       /\ at'[d] = at[d] /\ back'[d] = back[d]
       /\ target'[d] = target[d] /\ swept'[d] = swept[d]
  /\ OfCaller(c)'

LEMMA DestroyErases ==
  ASSUME MissionInv, Serial, NEW c \in Callers, Destroy(c)
  PROVE  EraseEffect(c)
<1>0. /\ at \in [Callers -> Labels]
      /\ back \in [Callers -> {"idle", "init"} \cup Waiting] /\ tokens \subseteq Tokens \cup {Null}
      /\ \A d \in Callers : OfCaller(d)
  BY DEF MissionInv, TypeOK, Labels, Mains
<1>1. /\ at[c] = "destroy" /\ at' = [at EXCEPT ![c] = back[c]]
      /\ back' = [back EXCEPT ![c] = "idle"] /\ status' = "UNINITIALIZED"
      /\ UNCHANGED <<listener, mainToken, main, child, target, swept>>
  BY DEF Destroy, Resume, Goto
<1>2. ASSUME NEW d \in Callers PROVE HeldBy(d) = {<<0, "main">>}
  <2>1. at[d] \notin {"terminate", "join"}
    BY <1>1 DEF Serial, Active, Waiting
  <2> QED BY <1>0, <2>1 DEF OfCaller, HeldBy
<1>3. ASSUME NEW k \in tokens \cap Tokens PROVE Over(k)
  <2>1. PICK m \in Missions : k = <<m, "main">> \/ k = <<m, "child">>
    BY <1>0, TokenIs
  <2>2. k # Null
    BY <2>1 DEF Missions, Null
  <2>3. k \notin {Null} \cup UNION {HeldBy(d) : d \in Callers}
    BY <1>2, <2>2 DEF Null
  <2> QED BY <2>3 DEF Destroy
<1>4. \A m \in Missions : Still(m)
  BY <1>3, TokenIs DEF MissionInv, Known, Still
<1>5. Last' = Last
  BY <1>1, LastSame
<1>6. OfCaller(c)'
  BY <1>0, <1>1, <1>5 DEF OfCaller, Starting, Aborting, Waiting
<1> QED BY <1>0, <1>1, <1>3, <1>4, <1>6 DEF EraseEffect

LEMMA CleanupErases ==
  ASSUME MissionInv, NEW c \in Callers, CleanupTokens(c)
  PROVE  EraseEffect(c)
<1>0. /\ at \in [Callers -> Labels]
      /\ OfCaller(c)
  BY DEF MissionInv, TypeOK, Labels, Mains
<1>1. /\ at[c] \in {"cleanup", "leave"}
      /\ \E l \in {"idle", "poll"} : at' = [at EXCEPT ![c] = l]
      /\ tokens' = {k \in tokens : ~Over(k)}
      /\ UNCHANGED <<status, listener, mainToken, main, child, back, target, swept>>
  BY DEF CleanupTokens, Goto, callVars
<1>2. Last' = Last
  BY <1>1, LastSame
<1>3. OfCaller(c)'
  BY <1>0, <1>1, <1>2 DEF OfCaller, Starting, Aborting, Waiting
<1> QED BY <1>0, <1>1, <1>3 DEF EraseEffect

LEMMA EraseKeeps ==
  ASSUME MissionInv, NEW c \in Callers, EraseEffect(c)
  PROVE  /\ InOrder' /\ Known'
         /\ \A d \in Callers : OfCaller(d)'
<1>1. Last' = Last
  BY LastSame DEF EraseEffect
<1>2. \A m \in Missions : Still(m)' <=> Still(m)
  BY OverIs DEF EraseEffect
<1>3. \A k \in Tokens : Over(k)' <=> Over(k)
  BY DEF EraseEffect, Over
<1>4. InOrder'
  <2>1. (\A d \in Callers : at'[d] # "assign") => \A d \in Callers : at[d] # "assign"
    BY DEF EraseEffect
  <2> QED BY <1>1, <1>2, <2>1 DEF MissionInv, InOrder, EraseEffect
<1>5. \A k \in Tokens : Over(k)' \/ k \in tokens'
  BY <1>3 DEF MissionInv, Known, EraseEffect
<1>6. MissionIsHeard'
  BY DEF MissionInv, Known, MissionIsHeard, EraseEffect
<1>7. Known'
  BY <1>1, <1>5, <1>6 DEF MissionInv, Known, EraseEffect
<1>8. ASSUME NEW d \in Callers PROVE OfCaller(d)'
  BY <1>1 DEF MissionInv, OfCaller, EraseEffect
<1> QED BY <1>4, <1>7, <1>8

\* The variables keep their types.
LEMMA CallTypes ==
  ASSUME MissionInv, Serial, Serial', NEW c \in Callers,
         Call(c) \/ CallStep(c) \/ Signal(c)
  PROVE  TypeOK'
<1>0. TypeOK
  BY DEF MissionInv
<1> USE <1>0 DEF Labels, TypeOK, Starting, Aborting, Waiting, tokenVars, callVars, Goto
<1>1. CASE BeginStart(c)
  BY <1>1 DEF BeginStart
<1>2. CASE CheckLiftoff(c)
  BY <1>2 DEF CheckLiftoff
<1>3. CASE InitializeFromXml(c)
  BY <1>3 DEF InitializeFromXml, Return
<1>4. CASE Validate(c)
  BY <1>4 DEF Validate, Return
<1>5. CASE Launch(c)
  BY <1>5 DEF Launch, Return
<1>6. CASE BeginAbort(c)
  BY <1>6 DEF BeginAbort
<1>7. CASE SetAborted(c)
  BY <1>7 DEF SetAborted
<1>8. CASE LookUpMain(c)
  BY <1>8 DEF LookUpMain
<1>9. CASE TerminateMain(c)
  BY <1>9 DEF TerminateMain
<1>10. CASE JoinMain(c)
  BY <1>10 DEF JoinMain
<1>11. CASE Reset(c)
  BY <1>11 DEF Reset, Resume
<1>12. CASE Clear(c)
  BY <1>12 DEF Clear
<1>13. CASE BeginWait(c)
  BY <1>13 DEF BeginWait
<1>14. CASE Poll(c)
  BY <1>14 DEF Poll
<1>15. CASE Scan(c)
  BY <1>15 DEF Scan
<1>16. CASE Signal(c)
  BY <1>16 DEF Signal
<1>17. CASE Suspend(c)
  BY <1>17 DEF Suspend
<1>18. CASE EmitMain(c)
  <2>1. Last + 1 \in Missions
    BY <1>18, EmitKeeps
  <2> QED BY <1>18, <2>1 DEF EmitMain, Last, Tokens
<1>19. CASE AssignMain(c)
  <2>1. Last \in Missions \cup {0}
    BY LastIs DEF Missions
  <2> QED BY <1>19, <2>1 DEF AssignMain, Return, Last
<1>20. CASE Destroy(c)
  BY <1>20 DEF Destroy, Resume
<1>21. CASE CleanupTokens(c)
  BY <1>21 DEF CleanupTokens
<1>22. CASE FollowNull(c)
  BY <1>22 DEF FollowNull
<1> QED
  BY <1>1, <1>2, <1>3, <1>4, <1>5, <1>6, <1>7, <1>8, <1>9, <1>10, <1>11, <1>12,
     <1>13, <1>14, <1>15, <1>16, <1>17, <1>18, <1>19, <1>20, <1>21, <1>22 DEF Call, CallStep

\* The invariant holds at first, and every step keeps it while the calls do not
\* overlap.
LEMMA InitMission == Init => MissionInv
<1> SUFFICES ASSUME Init PROVE MissionInv
  OBVIOUS
<1>1. TypeOK
  BY DEF Init, TypeOK
<1>2. Last = 0
  <2>1. Launched = {}
    BY DEF Init, Launched
  <2> QED BY <2>1, FS_EmptySet DEF Last
<1>3. \A m \in Missions : Still(m)
  BY OverIs DEF Init, Overs
<1>4. \A k \in Tokens : Over(k)
  BY <1>3, TokenIs DEF Still
<1>5. InOrder
  BY <1>2, <1>3 DEF Init, InOrder, Missions
<1>6. Known
  BY <1>2, <1>4 DEF Init, Known, MissionIsHeard
<1>7. ASSUME NEW c \in Callers PROVE OfCaller(c)
  BY <1>2 DEF Init, OfCaller, Starting
<1> QED BY <1>1, <1>5, <1>6, <1>7, InitHolds DEF MissionInv, StatusInv

LEMMA MissionStep ==
  ASSUME MissionInv, Serial, Serial', [Next]_vars
  PROVE  MissionInv'
<1>1. StatusLocked'
  <2>1. Places
    BY DEF MissionInv, TypeOK, Places, Labels
  <2> QED BY <2>1, NextKeeps DEF MissionInv, StatusInv
<1>2. ASSUME NEW m \in Missions, TokenStep(m) PROVE MissionInv'
  <2>1. TypeOK'
    BY <1>2, TokenTypes DEF MissionInv
  <2> QED
    BY <1>1, <1>2, <2>1, TokenDoes, TokenInOrder, TokenKnown,
       TokenOfCaller DEF MissionInv
<1>3. ASSUME NEW c \in Callers, Call(c) \/ CallStep(c) \/ Signal(c) PROVE MissionInv'
  <2>0. TypeOK'
    BY <1>3, CallTypes
  <2>1. CASE QuietCall(c)
    <3>1. CallEffect(c) /\ OfCaller(c)'
      BY <2>1, CallDoes, CallOfCaller
    <3>2. InOrder' /\ Known'
      BY <3>1, CallInOrder, CallKnown
    <3> QED BY <1>1, <2>0, <3>1, <3>2, OthersKept DEF MissionInv
  <2>2. CASE EmitMain(c)
    BY <1>1, <2>0, <2>2, EmitKeeps DEF MissionInv
  <2>3. CASE AssignMain(c)
    BY <1>1, <2>0, <2>3, AssignKeeps DEF MissionInv
  <2>4. CASE Destroy(c) \/ CleanupTokens(c)
    BY <1>1, <2>0, <2>4, DestroyErases, CleanupErases, EraseKeeps DEF MissionInv
  <2> QED BY <1>3, <2>1, <2>2, <2>3, <2>4 DEF Call, CallStep, QuietCall
<1>4. ASSUME UNCHANGED vars PROVE MissionInv'
  <2>1. UNCHANGED <<status, statusLock, listLock, listener, mainToken, tokens, main,
                    child, failed, at, back, target, swept, ok>>
    BY <1>4 DEF vars, tokenVars, callVars
  <2>2. Last' = Last
    BY <2>1, LastSame
  <2>3. TypeOK'
    BY <2>1 DEF MissionInv, TypeOK
  <2>4. \A m \in Missions : Still(m)' <=> Still(m)
    BY <2>1, OverIs
  <2>5. InOrder'
    BY <2>1, <2>2, <2>4 DEF MissionInv, InOrder
  <2>6. \A k \in Tokens : Over(k)' <=> Over(k)
    BY <2>1 DEF Over
  <2>7. Known'
    BY <2>1, <2>2, <2>6 DEF MissionInv, Known, MissionIsHeard
  <2>8. \A c \in Callers : OfCaller(c)'
    BY <2>1, <2>2 DEF MissionInv, OfCaller
  <2> QED BY <1>1, <2>3, <2>5, <2>7, <2>8 DEF MissionInv
<1> QED BY <1>2, <1>3, <1>4 DEF Next

THEOREM MissionInductive == Spec /\ []Serial => []MissionInv
BY InitMission, MissionStep, PTL DEF Spec

\* When a mission is launched no thread of an older one runs ("Active mission is
\* aborted before starting new mission"), for any number of callers that do not
\* start or abort at the same time, with signals and orphans.
THEOREM OldMissionGoneHolds == Spec /\ []Serial => []OldMissionGone
<1>1. MissionInv => OldMissionGone
  BY LastIs DEF MissionInv, InOrder, OldMissionGone, Missions
<1> QED BY <1>1, MissionInductive, PTL

\* The model listens until the main token of the mission in progress has ended
\* (Model::start, Model::token_termination_event_callback).
THEOREM MissionIsHeardHolds == Spec /\ []Serial => []MissionIsHeard
<1>1. MissionInv => MissionIsHeard
  BY DEF MissionInv, Known
<1> QED BY <1>1, MissionInductive, PTL

\* The outcome of a mission is that of its own main token, although the callback
\* compares the token and sets the status in two steps.
THEOREM OutcomeIsOwnHolds == Spec /\ []Serial => OutcomeIsOwn
<1>1. ASSUME MissionInv, Next, status = "IN_PROGRESS", status' \in {"SUCCESS", "FAILED"}
      PROVE  /\ mainToken # 0
             /\ main[mainToken] = "report" /\ main'[mainToken] = "detach"
             /\ status' = IF failed[mainToken] THEN "FAILED" ELSE "SUCCESS"
  <2>1. PICK m \in Missions : Report(m)
    BY <1>1 DEF Next, vars, TokenStep, MainStarts, MainEmits, ChildWorks, ChildEnds, MainEnds,
       Recognize, Detach, Call, CallStep, BeginStart, CheckLiftoff,
       InitializeFromXml, Validate, Launch, EmitMain, AssignMain, BeginAbort,
       SetAborted, LookUpMain, TerminateMain, FollowNull, JoinMain, Reset, Clear, Destroy,
       BeginWait, Poll, Scan, CleanupTokens, Signal, Suspend
  <2>2. main[m] = "report" /\ m = mainToken
    BY <1>1, <2>1 DEF MissionInv, Known, Report
  <2>3. main'[m] = "detach"
    BY <1>1, <2>1 DEF MissionInv, TypeOK, Report
  <2> QED BY <1>1, <2>1, <2>2, <2>3 DEF Report, Missions
<1>2. MissionInv /\ [Next]_vars =>
        [(status = "IN_PROGRESS" /\ status' \in {"SUCCESS", "FAILED"}) =>
           /\ mainToken # 0
           /\ main[mainToken] = "report" /\ main'[mainToken] = "detach"
           /\ status' = IF failed[mainToken] THEN "FAILED" ELSE "SUCCESS"]_vars
  BY <1>1 DEF vars
<1> QED BY <1>2, MissionInductive, PTL DEF Spec, OutcomeIsOwn

-----------------------------------------------------------------------------
(* The end of a wait.                                                      *)

LeaveFound(c) == "leave" \in {at[c], back[c]}

\* Nobody but a scan finds out that a wait is over.
LEMMA LeaveFrom ==
  ASSUME MissionInv, NEW c \in Callers, Call(c) \/ CallStep(c) \/ Signal(c), ~Scan(c),
         NEW d \in Callers, LeaveFound(d)'
  PROVE  LeaveFound(d)
<1>0. /\ at \in [Callers -> Labels]
      /\ back \in [Callers -> {"idle", "init"} \cup Waiting]
  BY DEF MissionInv, TypeOK, Labels, Mains
<1> USE <1>0 DEF Labels, LeaveFound, Starting, Aborting, Waiting, callVars, Goto
<1>1. CASE BeginStart(c)
  BY <1>1 DEF BeginStart
<1>2. CASE CheckLiftoff(c)
  BY <1>2 DEF CheckLiftoff
<1>3. CASE InitializeFromXml(c)
  BY <1>3 DEF InitializeFromXml, Return
<1>4. CASE Validate(c)
  BY <1>4 DEF Validate, Return
<1>5. CASE Launch(c)
  BY <1>5 DEF Launch, Return
<1>6. CASE BeginAbort(c)
  BY <1>6 DEF BeginAbort
<1>7. CASE SetAborted(c)
  BY <1>7 DEF SetAborted
<1>8. CASE LookUpMain(c)
  BY <1>8 DEF LookUpMain
<1>9. CASE TerminateMain(c)
  BY <1>9 DEF TerminateMain
<1>10. CASE JoinMain(c)
  BY <1>10 DEF JoinMain
<1>11. CASE Reset(c)
  BY <1>11 DEF Reset, Resume
<1>12. CASE Clear(c)
  BY <1>12 DEF Clear
<1>13. CASE BeginWait(c)
  BY <1>13 DEF BeginWait
<1>14. CASE Poll(c)
  BY <1>14 DEF Poll
<1>15. CASE Signal(c)
  BY <1>15 DEF Signal
<1>16. CASE Suspend(c)
  BY <1>16 DEF Suspend
<1>17. CASE EmitMain(c)
  BY <1>17 DEF EmitMain
<1>18. CASE AssignMain(c)
  BY <1>18 DEF AssignMain, Return
<1>19. CASE Destroy(c)
  BY <1>19 DEF Destroy, Resume
<1>20. CASE CleanupTokens(c)
  BY <1>20 DEF CleanupTokens
<1>21. CASE FollowNull(c)
  BY <1>21 DEF FollowNull
<1> QED
  BY <1>1, <1>2, <1>3, <1>4, <1>5, <1>6, <1>7, <1>8, <1>9, <1>10, <1>11, <1>12,
     <1>13, <1>14, <1>15, <1>16, <1>17, <1>18, <1>19, <1>20, <1>21 DEF Call, CallStep

LEMMA ScanStep ==
  ASSUME MissionInv, ScanHolds, Serial, NoStartInWait, [Next]_vars
  PROVE  ScanHolds'
<1>1. ASSUME NEW m \in Missions, TokenStep(m) PROVE ScanHolds'
  <2>1. TokenEffect(m)
    BY <1>1, TokenDoes
  <2>2. ~Still(m) /\ UNCHANGED <<at, back>>
    BY <2>1, OverIs DEF TokenEffect
  <2> QED BY <2>2 DEF ScanHolds
<1>2. ASSUME NEW c \in Callers, Call(c) \/ CallStep(c) \/ Signal(c) PROVE ScanHolds'
  <2>1. CASE EmitMain(c)
    <3>1. at[c] = "emit"
      BY <2>1 DEF EmitMain
    <3>2. ASSUME NEW d \in Callers, LeaveFound(d) PROVE FALSE
      <4>1. at[d] # "leave"
        BY <3>1 DEF NoStartInWait, Starting, Waiting
      <4>2. back[d] = "leave" /\ at[d] \in Aborting \cup {"suspend"}
        BY <3>2, <4>1 DEF LeaveFound, MissionInv, OfCaller
      <4>3. Active(d) /\ Active(c) /\ c # d
        BY <3>1, <4>2 DEF Active, Waiting, Aborting
      <4> QED BY <4>3 DEF Serial
    <3>3. \A d \in Callers : ~LeaveFound(d)'
      BY <1>2, <2>1, <3>1, <3>2, LeaveFrom DEF Scan
    <3> QED BY <3>3 DEF ScanHolds, LeaveFound
  <2>2. CASE Scan(c)
    <3>1. UNCHANGED <<main, child, back>> /\ at[c] = "scan"
      BY <2>2 DEF Scan, tokenVars, callVars
    <3>2. \A m \in Missions : Still(m)' <=> Still(m)
      BY <3>1, OverIs
    <3>3. CASE \A k \in tokens : Over(k)
      BY <3>2, <3>3, TokenIs DEF MissionInv, Known, Still, ScanHolds
    <3>4. CASE ~ \A k \in tokens : Over(k)
      <4>1. at' = [at EXCEPT ![c] = "cleanup"]
        BY <2>2, <3>4 DEF Scan, Goto
      <4>2. \A d \in Callers : LeaveFound(d)' => LeaveFound(d)
        BY <3>1, <4>1 DEF LeaveFound, MissionInv, TypeOK
      <4> QED BY <3>2, <4>2 DEF ScanHolds, LeaveFound
    <3> QED BY <3>3, <3>4
  <2>3. CASE ~EmitMain(c) /\ ~Scan(c)
    <3>1. UNCHANGED <<main, child>>
      BY <1>2, <2>3 DEF Call, CallStep, BeginStart, CheckLiftoff,
         InitializeFromXml, Validate, Launch, AssignMain, BeginAbort, SetAborted,
         LookUpMain, TerminateMain, FollowNull, JoinMain, Reset, Clear, Destroy, BeginWait,
         Poll, CleanupTokens, Signal, Suspend, tokenVars
    <3>2. \A m \in Missions : Still(m)' <=> Still(m)
      BY <3>1, OverIs
    <3>3. \A d \in Callers : LeaveFound(d)' => LeaveFound(d)
      BY <1>2, <2>3, LeaveFrom
    <3> QED BY <3>2, <3>3 DEF ScanHolds, LeaveFound
  <2> QED BY <2>1, <2>2, <2>3
<1>3. ASSUME UNCHANGED vars PROVE ScanHolds'
  <2>1. UNCHANGED <<main, child, at, back>>
    BY <1>3 DEF vars, tokenVars, callVars
  <2> QED BY <2>1, OverIs DEF ScanHolds
<1> QED BY <1>1, <1>2, <1>3 DEF Next

\* A wait returns from the erasure that finds nothing left, or that follows a
\* scan that did.
LEMMA WaitEnds ==
  ASSUME MissionInv, Next, NEW c \in Callers, at[c] \in Waiting, at'[c] = "idle"
  PROVE  CleanupTokens(c)
<1>1. ASSUME NEW m \in Missions, TokenStep(m) PROVE FALSE
  BY <1>1, TokenDoes DEF TokenEffect, Waiting
<1>2. PICK d \in Callers : Call(d) \/ CallStep(d) \/ Signal(d)
  BY <1>1 DEF Next, vars, Waiting
<1>3. d = c
  <2>1. at \in [Callers -> Labels]
    BY DEF MissionInv, TypeOK, Labels
  <2>2. \E l : at' = [at EXCEPT ![d] = l]
    BY <1>2 DEF Call, CallStep, BeginStart, CheckLiftoff, InitializeFromXml,
       Validate, Launch, EmitMain, AssignMain, BeginAbort, SetAborted, LookUpMain,
       TerminateMain, FollowNull, JoinMain, Reset, Clear, Destroy, BeginWait, Poll, Scan,
       CleanupTokens, Signal, Suspend, Goto, Return, Resume
  <2> QED BY <2>1, <2>2 DEF Waiting
<1> QED
  BY <1>2, <1>3 DEF Call, CallStep, BeginStart, CheckLiftoff, InitializeFromXml,
     Validate, Launch, EmitMain, AssignMain, BeginAbort, SetAborted, LookUpMain,
     TerminateMain, FollowNull, JoinMain, Reset, Clear, Destroy, BeginWait, Poll, Scan, Signal,
     Suspend, Goto, Return, Resume, Waiting, MissionInv, TypeOK

\* Nothing of the missions launched runs any more when a wait returns (Mission-
\* Control::wait), if none is launched meanwhile.
THEOREM WaitIsOverHolds == Spec /\ []Serial /\ []NoStartInWait => WaitIsOver
<1>1. Init => ScanHolds
  BY DEF Init, ScanHolds
<1>2. ASSUME MissionInv, ScanHolds, Next, NEW c \in Callers,
             at[c] \in Waiting, at'[c] = "idle"
      PROVE  \A m \in Launched : Still(m)
  <2>1. CleanupTokens(c)
    BY <1>2, WaitEnds
  <2>2. CASE at[c] = "leave"
    BY <1>2, <2>2 DEF ScanHolds, Launched
  <2>3. CASE at[c] # "leave"
    <3>1. tokens' = {}
      BY <1>2, <2>1, <2>3 DEF CleanupTokens, Goto, MissionInv, TypeOK
    <3>2. \A k \in Tokens : Over(k)
      BY <1>2, <2>1, <3>1 DEF CleanupTokens, MissionInv, Known
    <3> QED BY <3>2, TokenIs DEF Launched, Still
  <2> QED BY <2>2, <2>3
<1>3. MissionInv /\ ScanHolds /\ [Next]_vars =>
        [\A c \in Callers : (at[c] \in Waiting /\ at'[c] = "idle") =>
           \A m \in Launched : Still(m)]_vars
  BY <1>2 DEF vars
<1> QED BY <1>1, <1>3, ScanStep, MissionInductive, PTL DEF Spec, WaitIsOver

-----------------------------------------------------------------------------
(* A reset holds both mutexes while it waits for threads.                  *)

\* A step of a token's thread: the main process ends after its children, and its
\* outcome is set before it detaches.
LEMMA TokenReports ==
  ASSUME MissionInv, Reported, "orphan" \notin Disturbances,
         NEW m \in Missions, TokenStep(m)
  PROVE  Reported'
<1>0. /\ main \in [Missions -> Mains]
      /\ child \in [Missions -> {"none", "busy", "emit", "gone"}]
      /\ main[m] \in {"report", "detach"} => m = mainToken
      /\ status \notin {"UNINITIALIZED", "READY"} => mainToken \in Missions
      /\ TokenEffect(m)
  BY TokenDoes DEF MissionInv, TypeOK, Labels, Mains, Known
<1>1. \A n \in Missions : main'[n] \notin {"none", "new", "run"} => child'[n] = "gone"
  BY <1>0 DEF Reported, TokenStep, MainStarts, MainEmits, ChildWorks, ChildEnds, MainEnds, Recognize,
     Report, Detach
<1>2. status' \in {"SUCCESS", "FAILED"} => main'[mainToken'] \in {"detach", "gone"}
  BY <1>0 DEF Reported, TokenStep, MainStarts, MainEmits, ChildWorks, ChildEnds, MainEnds, Recognize,
     Report, Detach
<1>3. status' = "ABORTED" /\ (\A c \in Callers : at'[c] \notin Terminating)
        => main'[mainToken'] = "gone"
  BY <1>0 DEF Reported, TokenEffect, TokenStep, MainStarts, MainEmits, ChildWorks, ChildEnds, MainEnds,
     Recognize, Report, Detach
<1> QED
  BY <1>0, <1>1, <1>2, <1>3 DEF Reported, TokenEffect

\* What the steps of a caller do that are not about the termination of a mission.
AwayEffect(c) ==
  /\ UNCHANGED <<main, child, mainToken, target>>
  /\ status' = status \/ status' = "READY"
  /\ \A d \in Callers : at'[d] = at[d] \/ (at[d] = "terminate" /\ at'[d] = "join")
                        \/ {at[d], at'[d]} \cap Terminating = {}

LEMMA CallAway ==
  ASSUME MissionInv, NEW c \in Callers, QuietCall(c),
         ~SetAborted(c), ~LookUpMain(c), ~JoinMain(c), ~FollowNull(c)
  PROVE  AwayEffect(c)
<1>0. /\ at \in [Callers -> Labels]
      /\ back \in [Callers -> {"idle", "init"} \cup Waiting]
  BY DEF MissionInv, TypeOK, Labels, Mains
<1> USE <1>0 DEF Labels, AwayEffect, Terminating, Waiting, tokenVars, callVars, Goto
<1>1. CASE BeginStart(c)
  BY <1>1 DEF BeginStart
<1>2. CASE CheckLiftoff(c)
  BY <1>2 DEF CheckLiftoff
<1>3. CASE InitializeFromXml(c)
  BY <1>3 DEF InitializeFromXml, Return
<1>4. CASE Validate(c)
  BY <1>4 DEF Validate, Return
<1>5. CASE Launch(c)
  BY <1>5 DEF Launch, Return
<1>6. CASE BeginAbort(c)
  BY <1>6 DEF BeginAbort
<1>7. CASE TerminateMain(c)
  BY <1>7 DEF TerminateMain
<1>8. CASE Reset(c)
  BY <1>8 DEF Reset, Resume
<1>9. CASE Clear(c)
  BY <1>9 DEF Clear
<1>10. CASE BeginWait(c)
  BY <1>10 DEF BeginWait
<1>11. CASE Poll(c)
  BY <1>11 DEF Poll
<1>12. CASE Scan(c)
  BY <1>12 DEF Scan
<1>13. CASE Signal(c)
  BY <1>13 DEF Signal
<1>14. CASE Suspend(c)
  BY <1>14 DEF Suspend
<1> QED
  BY <1>1, <1>2, <1>3, <1>4, <1>5, <1>6, <1>7, <1>8, <1>9, <1>10, <1>11, <1>12,
     <1>13, <1>14 DEF QuietCall

\* An aborted mission has been waited for when the termination is over, as nobody
\* else starts or aborts meanwhile.
LEMMA CallReports ==
  ASSUME MissionInv, Reported, Serial, NEW c \in Callers,
         Call(c) \/ CallStep(c) \/ Signal(c)
  PROVE  Reported'
<1>0. /\ at \in [Callers -> Labels]
      /\ target \in [Callers -> Missions \cup {0}]
      /\ main \in [Missions -> Mains]
      /\ status \notin {"UNINITIALIZED", "READY"} => mainToken \in Missions /\ main[mainToken] # "none"
      /\ \A d \in Callers : at[d] \in {"emit", "assign"} => status = "READY"
  BY DEF MissionInv, TypeOK, Labels, Mains, Known, InOrder, StatusLocked
<1>1. CASE QuietCall(c) /\ ~SetAborted(c) /\ ~LookUpMain(c) /\ ~JoinMain(c)
           /\ ~FollowNull(c)
  BY <1>1, CallAway DEF Reported, AwayEffect, Terminating
<1>2. CASE SetAborted(c)
  <2>1. /\ UNCHANGED <<main, child, mainToken, target>>
        /\ \/ status = "IN_PROGRESS" /\ status' = "ABORTED" /\ at' = [at EXCEPT ![c] = "lookup"]
           \/ status' = status /\ at' = [at EXCEPT ![c] = "reset"] /\ at[c] = "abort"
    BY <1>2 DEF SetAborted, Goto, tokenVars, callVars
  <2> QED
    BY <1>0, <2>1 DEF Reported, Terminating
<1>3. CASE LookUpMain(c)
  <2>1. UNCHANGED <<status, main, child, mainToken>> /\ at[c] = "lookup"
    BY <1>3 DEF LookUpMain, tokenVars
  <2>2. CASE <<mainToken, "main">> \in tokens
    <3>1. target' = [target EXCEPT ![c] = mainToken] /\ at' = [at EXCEPT ![c] = "terminate"]
      BY <1>3, <2>2 DEF LookUpMain, Goto
    <3> QED
      BY <1>0, <2>1, <3>1 DEF Reported, Terminating
  <2>3. CASE <<mainToken, "main">> \notin tokens
    <3>1. target' = target /\ at' = [at EXCEPT ![c] = "reset"]
      BY <1>3, <2>3 DEF LookUpMain, Goto
    <3>2. status = "ABORTED" => main[mainToken] = "gone"
      <4> SUFFICES ASSUME status = "ABORTED" PROVE main[mainToken] = "gone"
        OBVIOUS
      <4>1. <<mainToken, "main">> \in Tokens
        BY <1>0, TokenIs
      <4>2. main[mainToken] \in Overs
        BY <2>3, <4>1, OverIs DEF MissionInv, Known
      <4> QED
        BY <1>0, <4>2 DEF Overs
    <3> QED
      BY <1>0, <2>1, <3>1, <3>2 DEF Reported, Terminating
  <2> QED
    BY <2>2, <2>3
<1>4. CASE JoinMain(c)
  <2>1. /\ UNCHANGED <<status, main, child, mainToken>> /\ at[c] = "join"
        /\ target' = [target EXCEPT ![c] = 0] /\ at' = [at EXCEPT ![c] = "reset"]
        /\ main[target[c]] \in Overs
    BY <1>4, OverIs DEF JoinMain, Goto, tokenVars
  <2>2. target[c] = mainToken
    BY <2>1 DEF Reported, Terminating
  <2>3. status = "ABORTED" => main[mainToken] = "gone"
    BY <1>0, <2>1, <2>2 DEF Overs
  <2>4. \A d \in Callers : at'[d] \in {"terminate", "join"} => target'[d] = mainToken'
    BY <1>0, <2>1 DEF Reported, Terminating
  <2> QED
    BY <2>1, <2>3, <2>4 DEF Reported, Terminating
<1>5. CASE EmitMain(c)
  <2>1. /\ at[c] = "emit" /\ at' = [at EXCEPT ![c] = "assign"]
        /\ main' = [main EXCEPT ![Last + 1] = "new"] /\ Last + 1 \in Missions
        /\ UNCHANGED <<status, mainToken, child, target>>
    BY <1>5, EmitKeeps DEF EmitMain, Goto, callVars, Last
  <2> QED
    BY <1>0, <2>1 DEF Reported, Terminating
<1>6. CASE AssignMain(c)
  <2>1. /\ UNCHANGED <<main, child, target>> /\ status' = "IN_PROGRESS"
        /\ at[c] = "assign" /\ at' = [at EXCEPT ![c] = "idle"]
    BY <1>6 DEF AssignMain, Return, Goto
  <2>2. ASSUME NEW d \in Callers PROVE at'[d] \notin {"terminate", "join"}
    BY <1>0, <2>1 DEF Serial, Active, Waiting
  <2> QED
    BY <2>1, <2>2 DEF Reported, Terminating
<1>7. CASE Destroy(c)
  <2>1. /\ UNCHANGED <<main, child, mainToken, target>> /\ status' = "UNINITIALIZED"
        /\ at[c] = "destroy" /\ at' = [at EXCEPT ![c] = back[c]]
    BY <1>7 DEF Destroy, Resume, Goto
  <2>2. back[c] \in {"idle", "init"} \cup Waiting
    BY DEF MissionInv, TypeOK
  <2> QED
    BY <1>0, <2>1, <2>2 DEF Reported, Terminating, Waiting
<1>8. CASE CleanupTokens(c)
  <2>1. /\ UNCHANGED <<main, child, mainToken, target, status>>
        /\ at[c] \in {"cleanup", "leave"}
        /\ \E l \in {"idle", "poll"} : at' = [at EXCEPT ![c] = l]
    BY <1>8 DEF CleanupTokens, Goto, callVars
  <2> QED
    BY <1>0, <2>1 DEF Reported, Terminating
<1>9. CASE FollowNull(c)
  <2>1. /\ UNCHANGED <<status, main, child, mainToken>>
        /\ at' = [at EXCEPT ![c] = "crashed"] /\ target' = [target EXCEPT ![c] = 0]
    BY <1>9 DEF FollowNull, Goto, tokenVars
  <2>2. at'[c] = "crashed" /\ \A d \in Callers \ {c} : at'[d] = at[d] /\ target'[d] = target[d]
    BY <1>0, <2>1
  <2> QED
    BY <2>1, <2>2 DEF Reported, Terminating
<1> QED
  BY <1>1, <1>2, <1>3, <1>4, <1>5, <1>6, <1>7, <1>8, <1>9 DEF Call, CallStep, QuietCall

\* Model::reset waits for the threads of the tokens it destroys with both mutexes
\* held (model.cpp:67): none of them needs a mutex any more, and it returns, if the
\* calls do not overlap and no process leaves children behind.
THEOREM ResetIsFreeHolds ==
  ASSUME "orphan" \notin Disturbances
  PROVE  Spec /\ []Serial => []ResetIsFree
<1>1. Init => Reported
  BY DEF Init, Reported
<1>2. ASSUME MissionInv, Reported, Serial, [Next]_vars PROVE Reported'
  <2>1. CASE UNCHANGED vars
    BY <1>2, <2>1 DEF vars, tokenVars, callVars, Reported
  <2> QED
    BY <1>2, <2>1, TokenReports, CallReports DEF Next
<1>3. ASSUME MissionInv, Reported, Serial PROVE ResetIsFree
  <2> SUFFICES ASSUME NEW c \in Callers, at[c] \in {"clear", "destroy"}, NEW m \in Missions
               PROVE  child[m] \in {"none", "gone"} /\ main[m] \in {"none", "detach", "gone"}
    BY DEF ResetIsFree
  <2>1. \A d \in Callers : at[d] \notin {"assign"} \cup Terminating
    BY <1>3 DEF Serial, Active, Waiting, Terminating
  <2>2. status # "IN_PROGRESS" /\ TypeOK
    BY <1>3 DEF MissionInv, StatusLocked
  <2>3. CASE Still(m)
    BY <2>3, OverIs DEF Overs
  <2>4. CASE ~Still(m)
    <3>1. m = Last /\ status \notin {"UNINITIALIZED", "READY"}
      BY <1>3, <2>1, <2>4 DEF MissionInv, InOrder
    <3>2. m = mainToken
      BY <1>3, <3>1 DEF MissionInv, Known
    <3>3. main[m] \in {"detach", "gone"}
      BY <1>3, <2>1, <2>2, <3>1, <3>2 DEF Reported, Terminating, TypeOK
    <3> QED
      BY <1>3, <3>3 DEF Reported, Terminating
  <2> QED
    BY <2>3, <2>4
<1> QED
  BY <1>1, <1>2, <1>3, MissionInductive, PTL DEF Spec

\* A single caller, such as the command line and its handler of SIGINT, needs no
\* care: all of it holds whatever it calls.
THEOREM OneCaller ==
  ASSUME \A c, d \in Callers : c = d
  PROVE  Spec => [](OldMissionGone /\ MissionIsHeard) /\ OutcomeIsOwn /\ WaitIsOver
<1>1. Serial
  BY DEF Serial
<1>2. NoStartInWait
  BY DEF NoStartInWait, Waiting, Starting
<1> QED
  BY <1>1, <1>2, OldMissionGoneHolds, MissionIsHeardHolds, OutcomeIsOwnHolds,
     WaitIsOverHolds, PTL
=============================================================================
