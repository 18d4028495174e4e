--------------------------- MODULE Resume_proofs ---------------------------
(***************************************************************************)
(* For any children: an inductive invariant of a mission, its snapshot and *)
(* the mission resumed from it, and that the join waits for every branch   *)
(* and nothing is skipped, unless the snapshot is torn.                    *)
(***************************************************************************)
EXTENDS Resume, TLAPS

USE ResumeAssumption DEF Tokens

LEMMA InitInv == Init => ResumeInv
<1> SUFFICES ASSUME Init PROVE ResumeInv
  OBVIOUS
<1>0. Nothing.at \in [{} -> {"branch", "join", "end", "main"}] /\ DOMAIN Nothing.at = {}
  BY DEF Nothing
<1>1. Nothing \in Snapshots
  <2>1. {} \in SUBSET Tokens
    OBVIOUS
  <2>2. Nothing.at \in UNION {[D -> {"branch", "join", "end", "main"}] : D \in SUBSET Tokens}
    BY <1>0, <2>1
  <2> QED
    BY <2>2 DEF Nothing, Snapshots
<1>2. TypeOK
  <2>1. snapshot \in Snapshots
    BY <1>1 DEF Init
  <2>2. finished \in BOOLEAN /\ atBegin \in BOOLEAN /\ torn \in BOOLEAN
    BY DEF Init
  <2>3. /\ place \in [Children -> {"branch", "join", "end"}]
        /\ stage \in [Children -> {"absent", "working", "moving", "inactive", "published",
                                   "terminated"}]
    BY DEF Init
  <2>4. /\ life \in 1..2 /\ inputs \subseteq Children /\ heard \subseteq Children
        /\ main \in {"absent", "starting", "watching", "over"}
        /\ taking \in {"idle", "reading", "saved"}
        /\ unread \subseteq Tokens /\ toEmit \subseteq Tokens
    BY DEF Init
  <2> QED
    BY <2>1, <2>2, <2>3, <2>4 DEF TypeOK
<1>3. Phases /\ Going /\ SnapshotInv
  BY DEF Init, Phases, Going, SnapshotInv, Reading, InBranch
<1>4. \A d \in Children : Placed(d) /\ Apart(d) /\ Seen(d)
  BY <1>0 DEF Init, Placed, Apart, Seen, Reading, Saved
<1> QED
  BY <1>2, <1>3, <1>4 DEF ResumeInv

\* What a token that is read adds to the snapshot.
LEMMA ReadFacts ==
  ASSUME ResumeInv, ReadToken
  PROVE  /\ Reading /\ life = 1 /\ toEmit = {} /\ toEmit' = {}
         /\ \A d \in Children : Saved(d)' <=> Saved(d) \/ d \in unread \ unread'
         /\ \A d \in Children :
              Saved(d)' => snapshot'.at[d] = IF d \in unread \ unread'
                                             THEN place[d] ELSE snapshot.at[d]
         /\ snapshot'.inputs = snapshot.inputs
BY DEF ResumeInv, TypeOK, Snapshots, Phases, Reading, Saved, ReadToken,
   tokenVars, mainVars

LEMMA TypeStep ==
  ASSUME ResumeInv, [Next]_vars
  PROVE  TypeOK'
<1> USE DEF tokenVars, mainVars, snapshotVars, TypeOK, Snapshots, Phases,
            Placed, Saved
<1>0. TypeOK /\ Phases /\ \A d \in Children : Placed(d)
  BY DEF ResumeInv
<1>1. CASE UNCHANGED vars
  BY <1>0, <1>1 DEF vars
<1>2. ASSUME NEW c \in Children, Child(c) \/ Erase(c)
      PROVE  TypeOK'
  <2>1. CASE LeaveBranch(c)
    BY <1>0, <2>1 DEF LeaveBranch, Reading
  <2>2. CASE PassJoin(c)
    BY <1>0, <2>2 DEF PassJoin, Fires
  <2>3. CASE StopAtJoin(c)
    BY <1>0, <2>3 DEF StopAtJoin
  <2>4. CASE SetCurrentNode(c)
    BY <1>0, <2>4 DEF SetCurrentNode, Reading
  <2>5. CASE ExecuteEnd(c)
    BY <1>0, <2>5 DEF ExecuteEnd, Reading
  <2>6. CASE Publish(c)
    BY <1>0, <2>6 DEF Publish, Tell, Hears
  <2>7. CASE Terminate(c)
    BY <1>0, <2>7 DEF Terminate
  <2>8. CASE Erase(c)
    BY <1>0, <2>8 DEF Erase, Reading
  <2> QED
    BY <1>2, <2>1, <2>2, <2>3, <2>4, <2>5, <2>6, <2>7, <2>8 DEF Child
<1>3. CASE Attach \/ ReadEndEvents
  BY <1>0, <1>3 DEF Attach, ReadEndEvents
<1>4. CASE Watch
  BY <1>0, <1>4 DEF Watch
<1>5. CASE BeginSnapshot
  BY <1>0, <1>5 DEF BeginSnapshot, Reading, Nothing
<1>6. CASE ReadToken
  BY <1>0, <1>6 DEF ReadToken
<1>7. CASE ReadInputs
  BY <1>0, <1>7 DEF ReadInputs, ActiveInputs, Reading
<1>8. CASE StartFromSnapshot
  BY <1>0, <1>8 DEF StartFromSnapshot, RestoreInputs
<1>9. CASE EmitToken
  BY <1>0, <1>9 DEF EmitToken
<1> QED
  BY <1>1, <1>2, <1>3, <1>4, <1>5, <1>6, <1>7, <1>8, <1>9 DEF Next

\* A snapshot is taken of the first mission only, the second emits what was saved.
LEMMA PhasesStep ==
  ASSUME ResumeInv, [Next]_vars
  PROVE  Phases'
<1> USE DEF tokenVars, mainVars, snapshotVars, Phases, Reading
<1>0. TypeOK /\ Phases
  BY DEF ResumeInv
<1>1. CASE UNCHANGED vars
  BY <1>0, <1>1 DEF vars
<1>2. ASSUME NEW c \in Children, Child(c) \/ Erase(c)
      PROVE  Phases'
  <2>1. CASE LeaveBranch(c)
    BY <1>0, <2>1 DEF LeaveBranch, Reading
  <2>2. CASE PassJoin(c)
    BY <1>0, <2>2 DEF PassJoin, Fires
  <2>3. CASE StopAtJoin(c)
    BY <1>0, <2>3 DEF StopAtJoin
  <2>4. CASE SetCurrentNode(c)
    BY <1>0, <2>4 DEF SetCurrentNode, Reading
  <2>5. CASE ExecuteEnd(c)
    BY <1>0, <2>5 DEF ExecuteEnd, Reading
  <2>6. CASE Publish(c)
    BY <1>0, <2>6 DEF Publish, Tell, Hears
  <2>7. CASE Terminate(c)
    BY <1>0, <2>7 DEF Terminate
  <2>8. CASE Erase(c)
    BY <1>0, <2>8 DEF Erase, Reading
  <2> QED
    BY <1>2, <2>1, <2>2, <2>3, <2>4, <2>5, <2>6, <2>7, <2>8 DEF Child
<1>3. CASE Attach \/ ReadEndEvents
  BY <1>0, <1>3 DEF Attach, ReadEndEvents
<1>4. CASE Watch
  BY <1>0, <1>4 DEF Watch
<1>5. CASE BeginSnapshot
  BY <1>0, <1>5 DEF BeginSnapshot, Reading, Nothing
<1>6. CASE ReadToken
  BY <1>0, <1>6 DEF ReadToken
<1>7. CASE ReadInputs
  BY <1>0, <1>7 DEF ReadInputs, ActiveInputs, Reading
<1>8. CASE StartFromSnapshot
  BY <1>0, <1>8 DEF StartFromSnapshot, RestoreInputs
<1>9. CASE EmitToken
  BY <1>0, <1>9 DEF EmitToken
<1> QED
  BY <1>1, <1>2, <1>3, <1>4, <1>5, <1>6, <1>7, <1>8, <1>9 DEF Next

\* A token is emitted once, and leaves its branch for the join and the join for the
\* end.
LEMMA PlacedStep ==
  ASSUME ResumeInv, [Next]_vars, NEW d \in Children
  PROVE  Placed(d)'
<1> USE DEF tokenVars, mainVars, snapshotVars, TypeOK, Phases, Placed, Seen, Saved
<1>0. TypeOK /\ Phases /\ Placed(d) /\ Seen(d)
  BY DEF ResumeInv
<1>1. CASE UNCHANGED vars
  BY <1>0, <1>1 DEF vars
<1>2. ASSUME NEW c \in Children, Child(c) \/ Erase(c)
      PROVE  Placed(d)'
  <2>1. CASE LeaveBranch(c)
    BY <1>0, <2>1 DEF LeaveBranch, Reading
  <2>2. CASE PassJoin(c)
    BY <1>0, <2>2 DEF PassJoin, Fires
  <2>3. CASE StopAtJoin(c)
    BY <1>0, <2>3 DEF StopAtJoin
  <2>4. CASE SetCurrentNode(c)
    BY <1>0, <2>4 DEF SetCurrentNode, Reading
  <2>5. CASE ExecuteEnd(c)
    BY <1>0, <2>5 DEF ExecuteEnd, Reading
  <2>6. CASE Publish(c)
    BY <1>0, <2>6 DEF Publish, Tell, Hears
  <2>7. CASE Terminate(c)
    BY <1>0, <2>7 DEF Terminate
  <2>8. CASE Erase(c)
    BY <1>0, <2>8 DEF Erase, Reading
  <2> QED
    BY <1>2, <2>1, <2>2, <2>3, <2>4, <2>5, <2>6, <2>7, <2>8 DEF Child
<1>3. CASE Attach \/ ReadEndEvents
  BY <1>0, <1>3 DEF Attach, ReadEndEvents
<1>4. CASE Watch
  BY <1>0, <1>4 DEF Watch
<1>5. CASE BeginSnapshot
  BY <1>0, <1>5 DEF BeginSnapshot, Reading, Nothing
<1>6. CASE ReadToken
  BY <1>0, <1>6 DEF ReadToken
<1>7. CASE ReadInputs
  BY <1>0, <1>7 DEF ReadInputs, ActiveInputs, Reading
<1>8. CASE StartFromSnapshot
  BY <1>0, <1>8 DEF StartFromSnapshot, RestoreInputs
<1>9. CASE EmitToken
  BY <1>0, <1>9 DEF EmitToken
<1> QED
  BY <1>1, <1>2, <1>3, <1>4, <1>5, <1>6, <1>7, <1>8, <1>9 DEF Next

\* A token turns its input on when it leaves its branch.
LEMMA ApartStep ==
  ASSUME ResumeInv, [Next]_vars, NEW d \in Children
  PROVE  Apart(d)'
<1> USE DEF tokenVars, mainVars, snapshotVars, TypeOK, Phases, SnapshotInv,
            Placed, Apart, InBranch, Emits, Saved
<1>0. TypeOK /\ Phases /\ SnapshotInv /\ Placed(d) /\ Apart(d)
  BY DEF ResumeInv
<1>1. CASE UNCHANGED vars
  BY <1>0, <1>1 DEF vars
<1>2. ASSUME NEW c \in Children, Child(c) \/ Erase(c)
      PROVE  Apart(d)'
  <2>1. CASE LeaveBranch(c)
    BY <1>0, <2>1 DEF LeaveBranch, Reading
  <2>2. CASE PassJoin(c)
    BY <1>0, <2>2 DEF PassJoin, Fires
  <2>3. CASE StopAtJoin(c)
    BY <1>0, <2>3 DEF StopAtJoin
  <2>4. CASE SetCurrentNode(c)
    BY <1>0, <2>4 DEF SetCurrentNode, Reading
  <2>5. CASE ExecuteEnd(c)
    BY <1>0, <2>5 DEF ExecuteEnd, Reading
  <2>6. CASE Publish(c)
    BY <1>0, <2>6 DEF Publish, Tell, Hears
  <2>7. CASE Terminate(c)
    BY <1>0, <2>7 DEF Terminate
  <2>8. CASE Erase(c)
    BY <1>0, <2>8 DEF Erase, Reading
  <2> QED
    BY <1>2, <2>1, <2>2, <2>3, <2>4, <2>5, <2>6, <2>7, <2>8 DEF Child
<1>3. CASE Attach \/ ReadEndEvents
  BY <1>0, <1>3 DEF Attach, ReadEndEvents
<1>4. CASE Watch
  BY <1>0, <1>4 DEF Watch
<1>5. CASE BeginSnapshot
  BY <1>0, <1>5 DEF BeginSnapshot, Reading, Nothing
<1>6. CASE ReadToken
  BY <1>0, <1>6, ReadFacts DEF ReadToken
<1>7. CASE ReadInputs
  BY <1>0, <1>7 DEF ReadInputs, ActiveInputs, Reading
<1>8. CASE StartFromSnapshot
  BY <1>0, <1>8 DEF StartFromSnapshot, RestoreInputs
<1>9. CASE EmitToken
  BY <1>0, <1>9 DEF EmitToken
<1> QED
  BY <1>1, <1>2, <1>3, <1>4, <1>5, <1>6, <1>7, <1>8, <1>9 DEF Next

\* What is read is where the token still is, unless the snapshot is torn.
LEMMA SeenStep ==
  ASSUME ResumeInv, [Next]_vars, NEW d \in Children
  PROVE  Seen(d)'
<1> USE DEF tokenVars, mainVars, snapshotVars, TypeOK, Phases, Placed, Seen,
            Saved, Reading
<1>0. TypeOK /\ Phases /\ Placed(d) /\ Seen(d)
  BY DEF ResumeInv
<1>1. CASE UNCHANGED vars
  BY <1>0, <1>1 DEF vars
<1>2. ASSUME NEW c \in Children, Child(c) \/ Erase(c)
      PROVE  Seen(d)'
  <2>1. CASE LeaveBranch(c)
    BY <1>0, <2>1 DEF LeaveBranch, Reading
  <2>2. CASE PassJoin(c)
    BY <1>0, <2>2 DEF PassJoin, Fires
  <2>3. CASE StopAtJoin(c)
    BY <1>0, <2>3 DEF StopAtJoin
  <2>4. CASE SetCurrentNode(c)
    BY <1>0, <2>4 DEF SetCurrentNode, Reading
  <2>5. CASE ExecuteEnd(c)
    BY <1>0, <2>5 DEF ExecuteEnd, Reading
  <2>6. CASE Publish(c)
    BY <1>0, <2>6 DEF Publish, Tell, Hears
  <2>7. CASE Terminate(c)
    BY <1>0, <2>7 DEF Terminate
  <2>8. CASE Erase(c)
    BY <1>0, <2>8 DEF Erase, Reading
  <2> QED
    BY <1>2, <2>1, <2>2, <2>3, <2>4, <2>5, <2>6, <2>7, <2>8 DEF Child
<1>3. CASE Attach \/ ReadEndEvents
  BY <1>0, <1>3 DEF Attach, ReadEndEvents
<1>4. CASE Watch
  BY <1>0, <1>4 DEF Watch
<1>5. CASE BeginSnapshot
  BY <1>0, <1>5 DEF BeginSnapshot, Reading, Nothing
<1>6. CASE ReadToken
  BY <1>0, <1>6, ReadFacts DEF ReadToken
<1>7. CASE ReadInputs
  BY <1>0, <1>7 DEF ReadInputs, ActiveInputs, Reading
<1>8. CASE StartFromSnapshot
  BY <1>0, <1>8 DEF StartFromSnapshot, RestoreInputs
<1>9. CASE EmitToken
  BY <1>0, <1>9 DEF EmitToken
<1> QED
  BY <1>1, <1>2, <1>3, <1>4, <1>5, <1>6, <1>7, <1>8, <1>9 DEF Next

\* Until the end event is executed, a token leaves the join, or the tokens that have
\* not left their branches will, and the last to arrive passes.
LEMMA GoingStep ==
  ASSUME ResumeInv, [Next]_vars
  PROVE  Going'
<1> USE DEF tokenVars, mainVars, snapshotVars, TypeOK, Phases, Going,
            SnapshotInv, Placed, Apart, InBranch, Arriving, Leaving, Emits,
            Saved
<1>0. TypeOK /\ Phases /\ Going /\ SnapshotInv
     /\ \A d \in Children : Placed(d) /\ Apart(d)
  BY DEF ResumeInv
<1>1. CASE UNCHANGED vars
  BY <1>0, <1>1 DEF vars
<1>2. ASSUME NEW c \in Children, Child(c) \/ Erase(c)
      PROVE  Going'
  <2>1. CASE LeaveBranch(c)
    BY <1>0, <2>1 DEF LeaveBranch, Reading
  <2>2. CASE PassJoin(c)
    BY <1>0, <2>2 DEF PassJoin, Fires
  <2>3. CASE StopAtJoin(c)
    BY <1>0, <2>3 DEF StopAtJoin
  <2>4. CASE SetCurrentNode(c)
    BY <1>0, <2>4 DEF SetCurrentNode, Reading
  <2>5. CASE ExecuteEnd(c)
    BY <1>0, <2>5 DEF ExecuteEnd, Reading
  <2>6. CASE Publish(c)
    BY <1>0, <2>6 DEF Publish, Tell, Hears
  <2>7. CASE Terminate(c)
    BY <1>0, <2>7 DEF Terminate
  <2>8. CASE Erase(c)
    BY <1>0, <2>8 DEF Erase, Reading
  <2> QED
    BY <1>2, <2>1, <2>2, <2>3, <2>4, <2>5, <2>6, <2>7, <2>8 DEF Child
<1>3. CASE Attach \/ ReadEndEvents
  BY <1>0, <1>3 DEF Attach, ReadEndEvents
<1>4. CASE Watch
  BY <1>0, <1>4 DEF Watch
<1>5. CASE BeginSnapshot
  BY <1>0, <1>5 DEF BeginSnapshot, Reading, Nothing
<1>6. CASE ReadToken
  BY <1>0, <1>6, ReadFacts DEF ReadToken
<1>7. CASE ReadInputs
  BY <1>0, <1>7 DEF ReadInputs, ActiveInputs, Reading
<1>8. CASE StartFromSnapshot
  BY <1>0, <1>8 DEF StartFromSnapshot, RestoreInputs
<1>9. CASE EmitToken
  BY <1>0, <1>9 DEF EmitToken
<1> QED
  BY <1>1, <1>2, <1>3, <1>4, <1>5, <1>6, <1>7, <1>8, <1>9 DEF Next

\* What is saved is a state that the mission was in.
LEMMA SnapshotStep ==
  ASSUME ResumeInv, [Next]_vars
  PROVE  SnapshotInv'
<1> USE DEF tokenVars, mainVars, snapshotVars, TypeOK, Phases, Going,
            SnapshotInv, Placed, Apart, Seen, InBranch, Arriving, Leaving,
            Emits, Saved, Reading
<1>0. TypeOK /\ Phases /\ Going /\ SnapshotInv
     /\ \A d \in Children : Placed(d) /\ Apart(d) /\ Seen(d)
  BY DEF ResumeInv
<1>1. CASE UNCHANGED vars
  BY <1>0, <1>1 DEF vars
<1>2. ASSUME NEW c \in Children, Child(c) \/ Erase(c)
      PROVE  SnapshotInv'
  <2>1. CASE LeaveBranch(c)
    BY <1>0, <2>1 DEF LeaveBranch, Reading
  <2>2. CASE PassJoin(c)
    BY <1>0, <2>2 DEF PassJoin, Fires
  <2>3. CASE StopAtJoin(c)
    BY <1>0, <2>3 DEF StopAtJoin
  <2>4. CASE SetCurrentNode(c)
    BY <1>0, <2>4 DEF SetCurrentNode, Reading
  <2>5. CASE ExecuteEnd(c)
    BY <1>0, <2>5 DEF ExecuteEnd, Reading
  <2>6. CASE Publish(c)
    BY <1>0, <2>6 DEF Publish, Tell, Hears
  <2>7. CASE Terminate(c)
    BY <1>0, <2>7 DEF Terminate
  <2>8. CASE Erase(c)
    BY <1>0, <2>8 DEF Erase, Reading
  <2> QED
    BY <1>2, <2>1, <2>2, <2>3, <2>4, <2>5, <2>6, <2>7, <2>8 DEF Child
<1>3. CASE Attach \/ ReadEndEvents
  BY <1>0, <1>3 DEF Attach, ReadEndEvents
<1>4. CASE Watch
  BY <1>0, <1>4 DEF Watch
<1>5. CASE BeginSnapshot
  BY <1>0, <1>5 DEF BeginSnapshot, Reading, Nothing
<1>6. CASE ReadToken
  BY <1>0, <1>6 DEF ReadToken
<1>7. CASE ReadInputs
  BY <1>0, <1>7 DEF ReadInputs, ActiveInputs, Reading
<1>8. CASE StartFromSnapshot
  BY <1>0, <1>8 DEF StartFromSnapshot, RestoreInputs
<1>9. CASE EmitToken
  BY <1>0, <1>9 DEF EmitToken
<1> QED
  BY <1>1, <1>2, <1>3, <1>4, <1>5, <1>6, <1>7, <1>8, <1>9 DEF Next

\* The invariant is inductive.
THEOREM Inductive == Spec => []ResumeInv
<1>1. ResumeInv /\ [Next]_vars => ResumeInv'
  <2> SUFFICES ASSUME ResumeInv, [Next]_vars PROVE ResumeInv'
    OBVIOUS
  <2>1. TypeOK' /\ Phases' /\ Going' /\ SnapshotInv'
    BY TypeStep, PhasesStep, GoingStep, SnapshotStep
  <2>2. \A d \in Children : Placed(d)' /\ Apart(d)' /\ Seen(d)'
    BY PlacedStep, ApartStep, SeenStep
  <2> QED
    BY <2>1, <2>2 DEF ResumeInv
<1> QED
  BY InitInv, <1>1, PTL DEF Spec

(* When the join lets a token pass every input is on, so no token is in    *)
(* its branch, and none will be emitted there.                             *)
LEMMA PassStep ==
  ASSUME ResumeInv, ~torn, NEW c \in Children, PassJoin(c)
  PROVE  /\ \A d \in Children : ~(place[d] = "branch" /\ stage[d] = "working")
         /\ \A d \in toEmit \ {Main} : snapshot.at[d] # "branch"
<1>1. \A d \in Children : ~InBranch(d)
  BY DEF ResumeInv, Apart, PassJoin, Fires
<1>2. toEmit \ {Main} \subseteq Children
  BY DEF ResumeInv, TypeOK
<1> QED
  BY <1>1, <1>2 DEF InBranch, Emits

(* The join waits for all tokens, those of the snapshot that are yet to be *)
(* emitted included: ProcessModelNode's inputs in the snapshot are those   *)
(* of the tokens that it has beyond their branches.                        *)
THEOREM JoinWaitsForAllHolds == Spec => JoinWaitsForAll
<1>1. ResumeInv => [~torn => \A c \in Children : PassJoin(c) =>
         /\ \A d \in Children : ~(place[d] = "branch" /\ stage[d] = "working")
         /\ \A d \in toEmit \ {Main} : snapshot.at[d] # "branch"]_vars
  BY PassStep
<1> QED
  BY Inductive, <1>1, PTL DEF JoinWaitsForAll

(* When the process finds its last token ended, none is in a branch, at    *)
(* the join or leaving it, so the end event has been executed.             *)
LEMMA OverStep ==
  ASSUME ResumeInv, [Next]_vars, main' = "over", main # "over", toEmit = {}, ~torn
  PROVE  finished
<1>1. main = "watching" /\ LastOne
  <2>1. CASE UNCHANGED vars
    BY <2>1 DEF vars, mainVars
  <2>2. ASSUME NEW c \in Children, Child(c) \/ Erase(c) PROVE FALSE
    BY <2>2 DEF Child, LeaveBranch, PassJoin, StopAtJoin, SetCurrentNode, ExecuteEnd,
                Publish, Terminate, Erase, mainVars
  <2>3. CASE Watch
    BY <2>3 DEF Watch
  <2>4. CASE \/ Attach \/ ReadEndEvents \/ BeginSnapshot \/ ReadToken \/ ReadInputs
             \/ StartFromSnapshot
    BY <2>4 DEF Attach, ReadEndEvents, BeginSnapshot, ReadToken, ReadInputs,
       StartFromSnapshot, mainVars
  <2>5. CASE EmitToken
    BY <2>5 DEF EmitToken
  <2> QED
    BY <2>1, <2>2, <2>3, <2>4, <2>5 DEF Next
<1>2. \A d \in Children : ~InBranch(d) /\ ~Arriving(d) /\ ~Leaving(d)
  BY <1>1 DEF LastOne, Active, InBranch, Arriving, Leaving, Emits
<1>3. TypeOK /\ Going
  BY DEF ResumeInv
<1> QED
  BY <1>2, <1>3 DEF TypeOK, Going

(* Process ends only after the end event of the mission has been executed. *)
THEOREM NothingSkippedHolds == Spec => NothingSkipped
<1>1. ResumeInv /\ [Next]_vars =>
        [main' = "over" /\ main # "over" /\ toEmit = {} /\ ~torn => finished]_vars
  BY OverStep
<1> QED
  BY Inductive, <1>1, PTL DEF NothingSkipped, Spec
=============================================================================
