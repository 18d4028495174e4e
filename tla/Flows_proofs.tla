---------------------------- MODULE Flows_proofs ----------------------------
(***************************************************************************)
(* What becomes of the flows of a file.  For any files: an inductive       *)
(* invariant of the parser, and that a model is the file it was loaded     *)
(* from, with its ports.  For any node, conditions, data and writes: an    *)
(* inductive invariant of the choice of flows, that the choice is one of   *)
(* Workflow's, and that what is followed was true.                         *)
(*                                                                         *)
(* Parser and Branching share no state; each has its own specification.    *)
(***************************************************************************)
EXTENDS Parser, Branching, SequenceTheorems, TLAPS

(* The parser.                                                             *)

\* The order of the phases, as far as the proofs look at it.
LEMMA PhasesAre ==
  /\ Len(Phases) = 11
  /\ Phases[8] = "subProcess" /\ Phases[10] = "boundaryEvent" /\ Phases[11] = "sequenceFlow"
  /\ \A i \in 1..11 : /\ Phases[i] = "subProcess" => i = 8
                      /\ Phases[i] = "boundaryEvent" => i = 10
                      /\ Phases[i] = "sequenceFlow" => i = 11
<1>1. Len(Phases) = 11
  BY DEF Phases
<1>2. /\ Phases[1] = "serviceTask" /\ Phases[2] = "userTask" /\ Phases[3] = "gateway"
      /\ Phases[4] = "startEvent" /\ Phases[5] = "endEvent" /\ Phases[6] = "throwEvent"
      /\ Phases[7] = "catchEvent" /\ Phases[8] = "subProcess" /\ Phases[9] = "callActivity"
      /\ Phases[10] = "boundaryEvent" /\ Phases[11] = "sequenceFlow"
  BY DEF Phases
<1>3. ASSUME NEW i \in 1..11
      PROVE  \/ i = 1 \/ i = 2 \/ i = 3 \/ i = 4 \/ i = 5 \/ i = 6 \/ i = 7 \/ i = 8
             \/ i = 9 \/ i = 10 \/ i = 11
  OBVIOUS
<1> QED
  BY <1>1, <1>2, <1>3

\* What a sequence is with an element before it,
LEMMA Pushed ==
  ASSUME NEW S, NEW s \in Seq(S), NEW x \in S, NEW t, t = <<x>> \o s
  PROVE  /\ t \in Seq(S) /\ t # <<>> /\ Len(t) = Len(s) + 1 /\ t[1] = x
         /\ \A i \in 2..Len(t) : t[i] = s[i - 1]
<1>1. <<x>> \in Seq(S) /\ Len(<<x>>) = 1 /\ <<x>>[1] = x
  OBVIOUS
<1>2. /\ t \in Seq(S) /\ Len(t) = 1 + Len(s)
      /\ \A i \in 1..(1 + Len(s)) : t[i] = IF i <= 1 THEN <<x>>[i] ELSE s[i - 1]
  BY <1>1, ConcatProperties
<1>3. Len(s) \in Nat
  OBVIOUS
<1> QED
  BY <1>1, <1>2, <1>3

\* with another first element,
LEMMA Replaced ==
  ASSUME NEW S, NEW s \in Seq(S), s # <<>>, NEW x \in S, NEW t, t = <<x>> \o Tail(s)
  PROVE  /\ t \in Seq(S) /\ t # <<>> /\ Len(t) = Len(s) /\ t[1] = x /\ Head(s) = s[1]
         /\ Head(s) \in S /\ Len(s) \in Nat \ {0}
         /\ \A i \in 2..Len(t) : t[i] = s[i]
<1>1. /\ Tail(s) \in Seq(S) /\ Len(Tail(s)) = Len(s) - 1 /\ Len(s) \in Nat \ {0}
      /\ \A i \in 1..Len(Tail(s)) : Tail(s)[i] = s[i + 1]
  BY HeadTailProperties
<1>2. /\ t \in Seq(S) /\ t # <<>> /\ Len(t) = Len(s) /\ t[1] = x
      /\ \A i \in 2..Len(t) : t[i] = Tail(s)[i - 1]
  BY <1>1, Pushed
<1> QED
  BY <1>1, <1>2

\* and without its first, with another second element.
LEMMA Popped ==
  ASSUME NEW S, NEW s \in Seq(S), Len(s) > 1, NEW x \in S, NEW t, t = <<x>> \o Tail(Tail(s))
  PROVE  /\ t \in Seq(S) /\ t # <<>> /\ Len(t) = Len(s) - 1 /\ t[1] = x
         /\ \A i \in 2..Len(t) : t[i] = s[i + 1]
<1>0. s # <<>>
  OBVIOUS
<1>1. /\ Tail(s) \in Seq(S) /\ Len(Tail(s)) = Len(s) - 1 /\ Len(s) \in Nat
      /\ \A i \in 1..Len(Tail(s)) : Tail(s)[i] = s[i + 1]
  BY <1>0, HeadTailProperties
<1>2. Tail(s) # <<>>
  <2>1. PICK u \in Seq(S) : u = Tail(s)
    BY <1>1
  <2>2. Len(u) > 0
    BY <1>1, <2>1
  <2>3. u # <<>>
    BY <2>2
  <2> QED
    BY <2>1, <2>3
<1>3. /\ t \in Seq(S) /\ t # <<>> /\ Len(t) = Len(Tail(s)) /\ t[1] = x
      /\ \A i \in 2..Len(t) : t[i] = Tail(s)[i]
  BY <1>1, <1>2, Replaced
<1> QED
  BY <1>1, <1>3

-----------------------------------------------------------------------------
\* What is inside p is the least set that p nests.
LEMMA InsideLeast ==
  ASSUME NEW f, NEW p, NEW D, Nests(f, D \cap Ids(Subprocesses(f)), p)
  PROVE  Inside(f, p) \subseteq D
BY DEF Inside, Within

\* It is such a set itself,
LEMMA InsideNests == ASSUME NEW f, NEW p PROVE Nests(f, Inside(f, p), p)
<1> SUFFICES ASSUME NEW e \in Subprocesses(f), e.in \in Inside(f, p) \cup {p},
                    NEW D \in SUBSET Ids(Subprocesses(f)), Nests(f, D, p)
             PROVE  e.id \in D
  BY DEF Nests, Inside, Within, Ids
<1>1. e.in \in D \cup {p}
  BY DEF Inside, Within
<1> QED
  BY <1>1 DEF Nests

\* and has what is inside its members.
LEMMA InsideTransitive ==
  ASSUME NEW f, NEW p, NEW q \in Inside(f, p)
  PROVE  Inside(f, q) \subseteq Inside(f, p)
<1>1. Nests(f, Inside(f, p), p)
  BY InsideNests
<1>2. Inside(f, p) \cap Ids(Subprocesses(f)) = Inside(f, p)
  BY DEF Inside
<1>3. Nests(f, Inside(f, p), q)
  BY <1>1 DEF Nests
<1> QED
  BY <1>2, <1>3, InsideLeast

\* What becomes of an element depends on the events only,
LEMMA VerdictKept ==
  ASSUME events' = events
  PROVE  \A e : Verdict(e)' = Verdict(e)
<1> SUFFICES ASSUME NEW e PROVE Verdict(e)' = Verdict(e)
  OBVIOUS
<1>1. Reference(e)' = Reference(e)
  BY DEF Reference
<1> QED
  BY <1>1 DEF Verdict, StartVerdict, EndVerdict, ThrowVerdict, CatchVerdict,
     BoundaryVerdict,
    TaskVerdict, TimerVerdict, TimerBoundaryVerdict, FlowVerdict, Incomplete

\* and so does what is found in a scope, and what it has in the end.
LEMMA FoundKept ==
  ASSUME events' = events, file' = file
  PROVE  /\ \A s, n : Found(file, s, n)' = Found(file, s, n)
         /\ \A s : Final(file, s)' = Final(file, s)
<1>1. \A s, n : Found(file, s, n)' = Found(file, s, n)
  BY VerdictKept DEF Found, Before
<1> QED
  BY <1>1 DEF Final, Inside, Within, Nests, Ids, Subprocesses

\* A phase adds what is accepted of its kind, if it adds nodes that way.
LEMMA FoundNext ==
  ASSUME NEW n \in 1..11, NEW s
  PROVE  /\ n \in {8, 11} => Found(file, s, n + 1) = Found(file, s, n)
         /\ n \notin {8, 11} =>
              Found(file, s, n + 1) = Found(file, s, n) \cup Accepted(Elements(file, Phases[n], s))
<1>1. 1..(n + 1 - 1) = 1..(n - 1) \cup {n}
  OBVIOUS
<1>2. Before(n + 1) = Before(n) \cup ({Phases[n]} \ {"subProcess", "sequenceFlow"})
  BY <1>1 DEF Before
<1>3. n \in {8, 11} => Before(n + 1) = Before(n)
  BY <1>2, PhasesAre
<1>4. n \notin {8, 11} => Before(n + 1) = Before(n) \cup {Phases[n]}
  BY <1>2, PhasesAre
<1> QED
  BY <1>3, <1>4 DEF Found, Accepted, Elements

\* Later phases find more.
LEMMA FoundGrows ==
  ASSUME NEW f, NEW s, NEW n \in 1..12
  PROVE  Found(f, s, n) \subseteq Found(f, s, 12)
<1>1. 1..(n - 1) \subseteq 1..(12 - 1)
  OBVIOUS
<1>2. Before(n) \subseteq Before(12)
  BY <1>1 DEF Before
<1> QED
  BY <1>2 DEF Found

\* What has been reached stays so while nodes and ports are only added.
LEMMA ReachedKept ==
  ASSUME events' = events, file' = file,
         NEW s, NEW n, Reached(file, s, n), nodes[s] \subseteq nodes'[s],
         attached \subseteq attached', DOMAIN outputs \subseteq DOMAIN outputs'
  PROVE  Reached(file, s, n)'
<1>1. Found(file, s, n)' = Found(file, s, n) /\ Found(file, s, 12)' = Found(file, s, 12)
      /\ Final(file, s)' = Final(file, s)
  BY FoundKept
<1>2. Inside(file, s)' = Inside(file, s) /\ Boundaries(file)' = Boundaries(file)
      /\ SequenceFlows(file)' = SequenceFlows(file)
  BY DEF Inside, Within, Nests, Ids, Subprocesses, Boundaries, SequenceFlows
<1>3. Attaches(file, s) => Attaches(file, s)'
  BY <1>1, <1>2 DEF Attaches
<1>4. Wires(file, s) => Wires(file, s)'
  BY <1>2 DEF Wires
<1> QED
  BY <1>1, <1>2, <1>3, <1>4 DEF Reached, Ids

\* What is in the model stays there.
LEMMA StoredKept ==
  ASSUME events' = events, file' = file,
         NEW s, Stored(file, s), s \in DOMAIN processes', processes'[s] = processes[s]
  PROVE  Stored(file, s)'
BY FoundKept DEF Stored

\* What a call has done stays done.
LEMMA FramedKept ==
  ASSUME events' = events, file' = file,
         NEW frame \in Frames(file), Framed(frame),
         \A s \in Scopes(file) : nodes[s] \subseteq nodes'[s],
         attached \subseteq attached', DOMAIN outputs \subseteq DOMAIN outputs'
  PROVE  Framed(frame)'
<1>1. /\ Inside(file, frame.scope)' = Inside(file, frame.scope)
      /\ Subprocesses(file)' = Subprocesses(file)
  BY DEF Inside, Within, Nests, Ids, Subprocesses
<1>2. Nests(file, frame.subprocesses, frame.scope) =>
        Nests(file, frame.subprocesses, frame.scope)'
  BY DEF Nests, Subprocesses
<1>3. \A s \in Scopes(file) : \A n : Reached(file, s, n) => Reached(file, s, n)'
  BY ReachedKept
<1>4. frame.scope \in Scopes(file) /\ frame.subprocesses \subseteq Scopes(file)
  BY DEF Frames, Scopes
<1> QED
  BY <1>1, <1>2, <1>3, <1>4 DEF Framed
-----------------------------------------------------------------------------
\* The innermost call goes on to its next phase.
LEMMA Advance ==
  ASSUME Parsing, ~Idle, stack # <<>>, Frame.phase <= Len(Phases), NextPhase,
         UNCHANGED <<modelVars, file, pending, dirty>>,
         nodes' \in [Scopes(file) -> SUBSET Ids(file.elements)],
         \A s \in Scopes(file) : nodes'[s] \subseteq Final(file, s),
         \A s \in Scopes(file) : nodes[s] \subseteq nodes'[s],
         attached \subseteq attached', DOMAIN outputs \subseteq DOMAIN outputs',
         PortsOf(file)',
         NEW fr, fr = Frame, fr.phase = 8 => Nests(file, fr.subprocesses, fr.scope),
         Reached(file, fr.scope, fr.phase + 1)'
  PROVE  Parsing'
<1> DEFINE F == Frames(file)
           top == [Frame EXCEPT !.phase = @ + 1]
<1> USE DEF modelVars
<1>0. /\ file \in Files /\ status = "UNINITIALIZED" /\ pending \subseteq file.processes
      /\ stack \in Seq(F) /\ Bottom \in file.processes
  BY DEF Parsing
<1>1. stack[1] \in F /\ Frame = stack[1] /\ Len(stack) \in Nat \ {0}
  BY <1>0 DEF Frame
<1>2. /\ top \in F /\ top.scope = Frame.scope /\ top.subprocesses = Frame.subprocesses
      /\ top.phase = Frame.phase + 1
  BY <1>1, PhasesAre DEF Frames
<1>3. /\ stack' \in Seq(F) /\ stack' # <<>> /\ Len(stack') = Len(stack) /\ stack'[1] = top
      /\ \A i \in 2..Len(stack) : stack'[i] = stack[i]
  <2>1. stack' = <<top>> \o Tail(stack)
    BY DEF NextPhase, Replace
  <2> HIDE DEF top, F
  <2> QED
    BY <1>0, <1>1, <1>2, <2>1, Replaced
<1> HIDE DEF top
<1>4. Bottom' = Bottom
  BY <1>1, <1>2, <1>3 DEF Bottom
<1>5. /\ Frames(file)' = F
      /\ Scopes(file)' = Scopes(file)
      /\ Ids(file.elements)' = Ids(file.elements)
      /\ Subprocesses(file)' = Subprocesses(file) /\ Defined(file)' = Defined(file)
  BY DEF Frames, Scopes, Ids, Subprocesses, Defined
<1>6. (\A i \in 1..Len(stack) : Framed(stack[i]))'
  <2> SUFFICES ASSUME NEW i \in 1..Len(stack') PROVE Framed(stack[i])'
    OBVIOUS
  <2>1. PICK g : g = stack[i]
    OBVIOUS
  <2>2. Framed(g) /\ g \in Frames(file)
    BY <1>0, <1>3, <2>1 DEF Parsing
  <2>3. Framed(g)'
    BY <2>2, FramedKept
  <2>4. CASE i # 1
    BY <1>1, <1>3, <2>1, <2>3, <2>4
  <2>5. CASE i = 1
    <3>1. g = fr
      BY <1>1, <2>1, <2>5
    <3>2. PICK ne : ne = top
      OBVIOUS
    <3>3. /\ ne.scope = fr.scope /\ ne.subprocesses = fr.subprocesses
          /\ ne.phase = fr.phase + 1 /\ fr.phase \in 1..12
      BY <1>1, <1>2, <3>2 DEF Frames
    <3>4. ne.phase > 8 => Nests(file, fr.subprocesses, fr.scope)
      BY <2>2, <3>1, <3>3 DEF Framed
    <3>5. Framed(ne)'
      BY <2>3, <3>1, <3>3, <3>4 DEF Framed, Nests, Subprocesses
    <3> QED
      BY <1>3, <2>5, <3>2, <3>5
  <2> QED
    BY <2>4, <2>5
<1>7. (\A i \in 1..(Len(stack) - 1) : Called(stack[i], stack[i + 1]))'
  <2> SUFFICES ASSUME NEW i \in 1..(Len(stack') - 1) PROVE Called(stack[i], stack[i + 1])'
    OBVIOUS
  <2>1. Called(stack[i], stack[i + 1])
    BY <1>3 DEF Parsing
  <2>2. stack'[i + 1] = stack[i + 1]
    BY <1>1, <1>3
  <2>3. stack'[i].scope = stack[i].scope
    BY <1>1, <1>2, <1>3
  <2> QED
    BY <1>5, <2>1, <2>2, <2>3 DEF Called
<1>8. (\A p \in Ended : \A s \in {p} \cup Inside(file, p) : Stored(file, s))'
  <2>1. Ended' = Ended
    BY <1>3, <1>4 DEF Ended
  <2>2. \A p : Inside(file, p)' = Inside(file, p)
    BY DEF Inside, Within, Nests, Ids, Subprocesses
  <2>3. ASSUME NEW p \in Ended, NEW s \in {p} \cup Inside(file, p) PROVE Stored(file, s)'
    <3>1. Stored(file, s)
      BY <2>3 DEF Parsing
    <3>2. s \in DOMAIN processes' /\ processes'[s] = processes[s]
      BY <3>1 DEF Stored
    <3> QED
      BY <3>1, <3>2, StoredKept
  <2> QED
    BY <2>1, <2>2, <2>3
<1>9. (\A s \in Scopes(file) : nodes[s] \subseteq Final(file, s))'
  BY <1>5, FoundKept
<1>10. (~dirty => /\ DOMAIN processes \subseteq Scopes(file)
                  /\ events = [x \in Defined(file) |-> file.events[x]])'
  BY <1>5 DEF Parsing
<1>11. (stack \in Seq(Frames(file)) /\ (stack # <<>> => Bottom \in file.processes))'
  BY <1>0, <1>3, <1>4, <1>5
<1>12. (nodes \in [Scopes(file) -> SUBSET Ids(file.elements)])'
  BY <1>5
<1> QED
  BY <1>0, <1>6, <1>7, <1>8, <1>9, <1>10, <1>11, <1>12 DEF Parsing

\* Nodes that a scope will have are added to it.
LEMMA AddNodes ==
  ASSUME Parsing, ~Idle, stack # <<>>, NEW ids, Add(ids),
         ids \subseteq Final(file, Frame.scope), ids \subseteq Ids(file.elements)
  PROVE  /\ nodes' \in [Scopes(file) -> SUBSET Ids(file.elements)]
         /\ \A s \in Scopes(file) : nodes'[s] \subseteq Final(file, s)
         /\ \A s \in Scopes(file) : nodes[s] \subseteq nodes'[s]
         /\ Frame.scope \in Scopes(file)
         /\ nodes'[Frame.scope] = nodes[Frame.scope] \cup ids
<1>1. Frame \in Frames(file)
  BY DEF Parsing, Frame
<1>2. Frame.scope \in Scopes(file)
  BY <1>1 DEF Frames
<1> QED
  BY <1>2 DEF Add, Parsing

\* The innermost call is one of those that the invariant speaks of.
LEMMA FrameIs ==
  ASSUME Parsing, ~Idle, stack # <<>>, NEW fr, fr = Frame
  PROVE  /\ fr \in Frames(file)
         /\ Framed(fr)
         /\ fr.scope \in Scopes(file)
         /\ fr.phase \in 1..12
<1>1. stack \in Seq(Frames(file)) /\ Len(stack) \in Nat \ {0} /\ Frame = stack[1]
  BY DEF Parsing, Frame
<1>2. fr = stack[1] /\ fr \in Frames(file)
  BY <1>1
<1>3. fr.scope \in Scopes(file) /\ fr.phase \in 1..12
  BY <1>2 DEF Frames
<1>4. Framed(stack[1])
  BY <1>1 DEF Parsing
<1> QED
  BY <1>2, <1>3, <1>4

\* The tasks, gateways, events and call activities.
LEMMA ExtractStep ==
  ASSUME Parsing, ~Idle, Extract
  PROVE  Parsing'
<1> USE DEF modelVars, portVars, Extract
<1>1. PICK fr : fr = Frame
  OBVIOUS
<1>2. fr \in Frames(file) /\ Framed(fr) /\ fr.scope \in Scopes(file) /\ fr.phase \in 1..11
  BY <1>1, FrameIs, PhasesAre
<1>3. fr.phase \notin {8, 10, 11} /\ Current = Elements(file, Phases[fr.phase], fr.scope)
  BY <1>1, PhasesAre DEF Tag, Current
<1>4. Found(file, fr.scope, fr.phase + 1) = Found(file, fr.scope, fr.phase) \cup Accepted(Current)
  BY <1>2, <1>3, FoundNext
<1>5. Found(file, fr.scope, fr.phase + 1) \subseteq Found(file, fr.scope, 12)
  BY <1>2, FoundGrows
<1>6. /\ Ids(Accepted(Current)) \subseteq Final(file, fr.scope)
      /\ Ids(Accepted(Current)) \subseteq Ids(file.elements)
  BY <1>4, <1>5 DEF Final, Ids, Accepted, Current, Elements
<1>7. /\ nodes' \in [Scopes(file) -> SUBSET Ids(file.elements)]
      /\ \A s \in Scopes(file) : nodes'[s] \subseteq Final(file, s)
      /\ \A s \in Scopes(file) : nodes[s] \subseteq nodes'[s]
      /\ nodes'[fr.scope] = nodes[fr.scope] \cup Ids(Accepted(Current))
  BY <1>1, <1>6, AddNodes
<1>8. Reached(file, fr.scope, fr.phase)'
  BY <1>2, <1>7, ReachedKept DEF Framed
<1>9. Reached(file, fr.scope, fr.phase + 1)'
  <2>1. Found(file, fr.scope, fr.phase + 1)' = Found(file, fr.scope, fr.phase) \cup Accepted(Current)
    BY <1>4, FoundKept
  <2>2. Ids(Found(file, fr.scope, fr.phase)) \subseteq nodes[fr.scope]
    BY <1>2 DEF Framed, Reached
  <2>3. (Ids(Found(file, fr.scope, fr.phase + 1)) \subseteq nodes[fr.scope])'
    BY <1>7, <2>1, <2>2 DEF Ids
  <2> QED
    BY <1>2, <1>3, <1>8, <2>3 DEF Reached
<1>10. PortsOf(file)'
  BY DEF PortsOf, Parsing, SequenceFlows, Boundaries
<1> QED
  BY <1>1, <1>2, <1>3, <1>7, <1>9, <1>10, Advance DEF parseVars

\* A phase that has extracted all subprocesses of a scope has all that are in it.
LEMMA CollectStep ==
  ASSUME Parsing, ~Idle, stack # <<>>, Tag = "subProcess", Frame.phase <= Len(Phases),
         Ids(Current) \ Frame.subprocesses = {}, Add(Frame.subprocesses), NextPhase,
         UNCHANGED <<modelVars, portVars, file, pending, dirty>>
  PROVE  Parsing'
<1> USE DEF modelVars, portVars
<1>1. PICK fr : fr = Frame
  OBVIOUS
<1>2. fr \in Frames(file) /\ Framed(fr) /\ fr.scope \in Scopes(file) /\ fr.phase \in 1..11
  BY <1>1, FrameIs, PhasesAre
<1>3. fr.phase = 8 /\ Current = {e \in Subprocesses(file) : e.in = fr.scope}
  BY <1>1, <1>2, PhasesAre DEF Tag, Current, Elements, Subprocesses
<1>4. Nests(file, fr.subprocesses, fr.scope)
  BY <1>1, <1>2, <1>3 DEF Framed, Nests, Ids
<1>5. Inside(file, fr.scope) \subseteq fr.subprocesses
  <2>1. fr.subprocesses \cap Ids(Subprocesses(file)) = fr.subprocesses
    BY <1>2 DEF Frames
  <2> QED
    BY <1>4, <2>1, InsideLeast
<1>6. /\ fr.subprocesses \subseteq Final(file, fr.scope)
      /\ fr.subprocesses \subseteq Ids(file.elements)
  BY <1>2 DEF Framed, Final, Frames, Ids, Subprocesses
<1>7. /\ nodes' \in [Scopes(file) -> SUBSET Ids(file.elements)]
      /\ \A s \in Scopes(file) : nodes'[s] \subseteq Final(file, s)
      /\ \A s \in Scopes(file) : nodes[s] \subseteq nodes'[s]
      /\ nodes'[fr.scope] = nodes[fr.scope] \cup fr.subprocesses
  BY <1>1, <1>6, AddNodes
<1>8. Reached(file, fr.scope, 8)'
  BY <1>2, <1>3, <1>7, ReachedKept DEF Framed
<1>9. Reached(file, fr.scope, fr.phase + 1)'
  <2>1. Found(file, fr.scope, 9)' = Found(file, fr.scope, 8)'
    <3>1. Found(file, fr.scope, 9) = Found(file, fr.scope, 8)
      <4>1. 8 \in 1..11 /\ 8 + 1 = 9 /\ 8 \in {8, 11}
        OBVIOUS
      <4> QED
        BY <4>1, FoundNext
    <3> QED
      BY <3>1, FoundKept
  <2>2. Inside(file, fr.scope)' = Inside(file, fr.scope)
    BY DEF Inside, Within, Nests, Ids, Subprocesses
  <2>3. fr.phase + 1 = 9
    BY <1>3
  <2>4. Reached(file, fr.scope, 9)'
    BY <1>5, <1>7, <1>8, <2>1, <2>2 DEF Reached
  <2> QED
    BY <2>3, <2>4
<1>10. PortsOf(file)'
  BY DEF PortsOf, Parsing, SequenceFlows, Boundaries
<1> QED
  BY <1>1, <1>4, <1>7, <1>9, <1>10, Advance

\* A boundary event finds the activity that it names, if its scope has it.
LEMMA HostFound ==
  ASSUME Parsing, ~Idle, stack # <<>>, Frame.phase = 10, NEW fr, fr = Frame,
         NEW b \in Boundaries(file), b.host \in Final(file, fr.scope)
  PROVE  b.host \in Activities(fr.scope)
<1>1. Framed(fr) /\ fr \in Frames(file) /\ file \in Files
  BY FrameIs DEF Parsing
<1>2. CASE b.host \in Inside(file, fr.scope)
  <2>1. fr.subprocesses \cap Ids(Subprocesses(file)) = fr.subprocesses
    BY <1>1 DEF Frames
  <2>2. Nests(file, fr.subprocesses, fr.scope)
    BY <1>1 DEF Framed
  <2>3. Inside(file, fr.scope) \subseteq fr.subprocesses
    BY <2>1, <2>2, InsideLeast
  <2> QED
    BY <1>2, <2>3 DEF Activities
<1>3. CASE b.host \in Ids(Found(file, fr.scope, 12))
  <2>1. PICK e \in file.elements :
          e.id = b.host /\ e.in = fr.scope /\ e.tag \in Before(12) /\ Verdict(e) = "node"
    BY <1>3 DEF Ids, Found
  <2>2. e.tag \in ActivityTags \ {"subProcess"}
    BY <1>1, <2>1, FilesAssumption DEF WellFormed, Before
  <2> QED
    BY <2>1, <2>2 DEF Activities, ActivityTags, Ids, Accepted, Elements
<1> QED
  BY <1>2, <1>3 DEF Final

\* The boundary events, with their attachments to activities.
LEMMA BoundaryStep ==
  ASSUME Parsing, ~Idle, ExtractBoundaryEvents
  PROVE  Parsing'
<1> USE DEF modelVars, ExtractBoundaryEvents
<1>1. PICK fr : fr = Frame
  OBVIOUS
<1>2. fr \in Frames(file) /\ Framed(fr) /\ fr.scope \in Scopes(file) /\ fr.phase \in 1..11
  BY <1>1, FrameIs, PhasesAre
<1>3. fr.phase = 10 /\ Current = Elements(file, Phases[10], fr.scope)
      /\ Current = {b \in Boundaries(file) : b.in = fr.scope}
  BY <1>1, <1>2, PhasesAre DEF Tag, Current, Elements, Boundaries
<1>4. Found(file, fr.scope, 11) = Found(file, fr.scope, 10) \cup Accepted(Current)
      /\ Found(file, fr.scope, 11) \subseteq Found(file, fr.scope, 12)
  <2>1. 10 \in 1..11 /\ 11 \in 1..12 /\ 10 + 1 = 11 /\ 10 \notin {8, 11}
    OBVIOUS
  <2> QED
    BY <1>3, <2>1, FoundNext, FoundGrows
<1>5. /\ Ids(Accepted(Current)) \subseteq Final(file, fr.scope)
      /\ Ids(Accepted(Current)) \subseteq Ids(file.elements)
  BY <1>4 DEF Final, Ids, Accepted, Current, Elements
<1>6. /\ nodes' \in [Scopes(file) -> SUBSET Ids(file.elements)]
      /\ \A s \in Scopes(file) : nodes'[s] \subseteq Final(file, s)
      /\ \A s \in Scopes(file) : nodes[s] \subseteq nodes'[s]
      /\ nodes'[fr.scope] = nodes[fr.scope] \cup Ids(Accepted(Current))
  BY <1>1, <1>5, AddNodes
<1>7. Reached(file, fr.scope, 10)'
  BY <1>2, <1>3, <1>6, ReachedKept DEF Framed
<1>8. Attaches(file, fr.scope)'
  <2>1. \A b \in Boundaries(file) :
          b \in Found(file, fr.scope, 12) /\ b.host \in Final(file, fr.scope)
            => <<b.host, b.id>> \in attached'
    <3> SUFFICES ASSUME NEW b \in Boundaries(file), b \in Found(file, fr.scope, 12),
                        b.host \in Final(file, fr.scope)
                 PROVE  <<b.host, b.id>> \in attached'
      OBVIOUS
    <3>1. b \in Accepted(Current)
      BY <1>3 DEF Found, Accepted
    <3>2. b.host \in Activities(fr.scope)
      BY <1>1, <1>3, HostFound
    <3> QED
      BY <1>1, <3>1, <3>2
  <2> QED
    BY <2>1, FoundKept DEF Attaches, Boundaries
<1>9. Reached(file, fr.scope, 11)'
  <2>1. Found(file, fr.scope, 11)' = Found(file, fr.scope, 10) \cup Accepted(Current)
    BY <1>4, FoundKept
  <2>2. Ids(Found(file, fr.scope, 10)) \subseteq nodes[fr.scope]
    BY <1>2, <1>3 DEF Framed, Reached
  <2>3. (Ids(Found(file, fr.scope, 11)) \subseteq nodes[fr.scope])'
    BY <1>6, <2>1, <2>2 DEF Ids
  <2> QED
    BY <1>7, <1>8, <2>3 DEF Reached
<1>10. Reached(file, fr.scope, fr.phase + 1)'
  <2>1. fr.phase + 1 = 11
    BY <1>3
  <2> QED
    BY <1>9, <2>1
<1>11. PortsOf(file)'
  <2>1. \A e \in Accepted(Current) : e \in Boundaries(file)
    BY <1>3 DEF Accepted
  <2>2. attached' \subseteq {<<b.host, b.id>> : b \in Boundaries(file)}
    BY <2>1 DEF PortsOf, Parsing
  <2> QED
    BY <2>2 DEF PortsOf, Parsing, SequenceFlows, Boundaries
<1> QED
  BY <1>1, <1>3, <1>6, <1>10, <1>11, Advance

\* The flows, with their ports.
LEMMA WireStep ==
  ASSUME Parsing, ~Idle, WireFlows
  PROVE  Parsing'
<1> USE DEF modelVars, WireFlows
<1>1. PICK fr : fr = Frame
  OBVIOUS
<1>2. fr \in Frames(file) /\ Framed(fr) /\ fr.scope \in Scopes(file) /\ fr.phase \in 1..11
  BY <1>1, FrameIs, PhasesAre
<1>3. fr.phase = 11 /\ Current = {e \in SequenceFlows(file) : e.in = fr.scope}
  BY <1>1, <1>2, PhasesAre DEF Tag, Current, Elements, SequenceFlows
<1>4. /\ DOMAIN outputs' = DOMAIN outputs \cup {<<e.source, e.target>> : e \in Current}
      /\ inputs' = inputs \cup {<<e.target, e.source>> : e \in Current}
      /\ nodes' = nodes /\ \A e \in Current : {e.source, e.target} \subseteq nodes[fr.scope]
  BY <1>1 DEF Wire, Connected
<1>5. Reached(file, fr.scope, 11)'
  BY <1>2, <1>3, <1>4, ReachedKept DEF Framed
<1>6. Wires(file, fr.scope)'
  BY <1>3, <1>4 DEF Wires, SequenceFlows
<1>7. Reached(file, fr.scope, fr.phase + 1)'
  <2>1. Found(file, fr.scope, 12)' = Found(file, fr.scope, 11)'
    <3>1. 11 \in 1..11 /\ 11 + 1 = 12 /\ 11 \in {8, 11}
      OBVIOUS
    <3>2. Found(file, fr.scope, 12) = Found(file, fr.scope, 11)
      BY <3>1, FoundNext
    <3> QED
      BY <3>2, FoundKept
  <2>2. Reached(file, fr.scope, 12)'
    BY <1>5, <1>6, <2>1 DEF Reached
  <2>3. fr.phase + 1 = 12
    BY <1>3
  <2> QED
    BY <2>2, <2>3
<1>8. PortsOf(file)'
  <2>1. ASSUME NEW x \in DOMAIN outputs'
        PROVE  \E e \in SequenceFlows(file) : outputs'[x] = e.id /\ x = <<e.source, e.target>>
    <3> DEFINE P(e) == <<e.source, e.target>> = x
    <3>1. outputs'[x] = IF \E e \in Current : P(e) THEN (CHOOSE e \in Current : P(e)).id ELSE outputs[x]
      BY <1>4 DEF Wire
    <3>2. CASE \E e \in Current : P(e)
      <4>1. PICK c : c = CHOOSE e \in Current : P(e)
        OBVIOUS
      <4>2. c \in Current /\ P(c)
        BY <3>2, <4>1
      <4> QED
        BY <1>3, <3>1, <3>2, <4>1, <4>2
    <3>3. CASE ~\E e \in Current : P(e)
      <4>1. x \in DOMAIN outputs
        BY <1>4, <3>3
      <4>2. \E e \in SequenceFlows(file) : outputs[x] = e.id /\ x = <<e.source, e.target>>
        BY <4>1 DEF Parsing, PortsOf
      <4> QED
        BY <3>1, <3>3, <4>2
    <3> QED
      BY <3>2, <3>3
  <2>2. inputs' = {<<e.target, e.source>> :
                    e \in {d \in SequenceFlows(file) : <<d.source, d.target>> \in DOMAIN outputs'}}
    <3>1. inputs = {<<e.target, e.source>> :
                     e \in {d \in SequenceFlows(file) : <<d.source, d.target>> \in DOMAIN outputs}}
      BY DEF Parsing, PortsOf
    <3>2. Current \subseteq SequenceFlows(file)
      BY <1>3
    <3>3. ASSUME NEW d \in SequenceFlows(file), <<d.source, d.target>> \in DOMAIN outputs'
          PROVE  <<d.target, d.source>> \in inputs'
      <4>1. CASE <<d.source, d.target>> \in DOMAIN outputs
        BY <1>4, <3>1, <3>3, <4>1
      <4>2. CASE <<d.source, d.target>> \notin DOMAIN outputs
        <5>1. PICK e \in Current : <<d.source, d.target>> = <<e.source, e.target>>
          BY <1>4, <3>3, <4>2
        <5> QED
          BY <1>4, <5>1
      <4> QED
        BY <4>1, <4>2
    <3>4. ASSUME NEW y \in inputs'
          PROVE  \E d \in SequenceFlows(file) :
                   <<d.source, d.target>> \in DOMAIN outputs' /\ y = <<d.target, d.source>>
      BY <1>4, <3>1, <3>2, <3>4
    <3> QED
      BY <3>3, <3>4
  <2>3. attached' \subseteq {<<b.host, b.id>> : b \in Boundaries(file)}
    BY DEF Parsing, PortsOf
  <2> QED
    BY <2>1, <2>2, <2>3 DEF PortsOf, SequenceFlows, Boundaries
<1>9. /\ nodes' \in [Scopes(file) -> SUBSET Ids(file.elements)]
      /\ \A s \in Scopes(file) : nodes'[s] \subseteq Final(file, s)
      /\ \A s \in Scopes(file) : nodes[s] \subseteq nodes'[s]
  BY DEF Parsing
<1> QED
  BY <1>1, <1>3, <1>4, <1>7, <1>8, <1>9, Advance

\* A call of createProcessDefinition begins with nothing.
LEMMA Begun ==
  ASSUME Parsing, ~Idle, NEW s \in Scopes(file), Enter(s),
         UNCHANGED <<modelVars, portVars, file, nodes, dirty>>,
         \/ /\ stack = <<>> /\ s \in file.processes /\ pending' = pending \ {s}
         \/ /\ stack # <<>> /\ Frame.phase = 8 /\ pending' = pending
            /\ \E e \in Subprocesses(file) : e.id = s /\ e.in = Frame.scope
  PROVE  Parsing'
<1> DEFINE F == Frames(file)
           new == [scope |-> s, phase |-> 1, subprocesses |-> {}]
<1> USE DEF modelVars, portVars
<1>0. /\ file \in Files /\ status = "UNINITIALIZED" /\ pending \subseteq file.processes
      /\ stack \in Seq(F) /\ (stack # <<>> => Bottom \in file.processes)
  BY DEF Parsing
<1>1. /\ new \in F
      /\ new.scope = s
      /\ new.phase = 1
      /\ new.subprocesses = {}
      /\ Len(stack) \in Nat
  BY <1>0 DEF Frames
<1>2. /\ stack' \in Seq(F) /\ stack' # <<>> /\ Len(stack') = Len(stack) + 1 /\ stack'[1] = new
      /\ \A i \in 2..Len(stack') : stack'[i] = stack[i - 1]
  <2>1. stack' = <<new>> \o stack
    BY DEF Enter
  <2> HIDE DEF new, F
  <2> QED
    BY <1>0, <1>1, <2>1, Pushed
<1> HIDE DEF new
<1>3. stack # <<>> => Bottom' = Bottom /\ Len(stack) # 0
  BY <1>0, <1>1, <1>2 DEF Bottom
<1>4. stack = <<>> => Bottom' = s /\ Len(stack) = 0
  BY <1>1, <1>2 DEF Bottom
<1>5. /\ Frames(file)' = F
      /\ Scopes(file)' = Scopes(file)
      /\ Ids(file.elements)' = Ids(file.elements)
      /\ Subprocesses(file)' = Subprocesses(file) /\ Defined(file)' = Defined(file)
  BY DEF Frames, Scopes, Ids, Subprocesses, Defined
<1>6. (\A i \in 1..Len(stack) : Framed(stack[i]))'
  <2> SUFFICES ASSUME NEW i \in 1..Len(stack') PROVE Framed(stack[i])'
    OBVIOUS
  <2>1. CASE i # 1
    <3>1. PICK g : g = stack[i - 1]
      OBVIOUS
    <3>2. Framed(g) /\ g \in Frames(file) /\ stack'[i] = g
      BY <1>0, <1>1, <1>2, <2>1, <3>1 DEF Parsing
    <3>3. Framed(g)'
      BY <3>2, FramedKept
    <3> QED
      BY <3>2, <3>3
  <2>2. CASE i = 1
    <3>1. PICK g : g = new
      OBVIOUS
    <3>2. Found(file, s, 1)' = {}
      BY DEF Found, Before
    <3>3. Reached(file, s, 1)'
      BY <3>2 DEF Reached, Ids
    <3>4. Framed(g)'
      BY <1>1, <3>1, <3>3 DEF Framed
    <3> QED
      BY <1>2, <2>2, <3>1, <3>4
  <2> QED
    BY <2>1, <2>2
<1>7. (\A i \in 1..(Len(stack) - 1) : Called(stack[i], stack[i + 1]))'
  <2> SUFFICES ASSUME NEW i \in 1..(Len(stack') - 1) PROVE Called(stack[i], stack[i + 1])'
    OBVIOUS
  <2>1. stack'[i + 1] = stack[i] /\ stack # <<>>
    BY <1>1, <1>2, <1>4
  <2>2. CASE i # 1
    <3>1. Called(stack[i - 1], stack[i])
      <4>1. i - 1 \in 1..(Len(stack) - 1) /\ (i - 1) + 1 = i
        BY <1>1, <1>2, <2>2
      <4> QED
        BY <4>1 DEF Parsing
    <3>2. stack'[i] = stack[i - 1]
      BY <1>1, <1>2, <2>2
    <3> QED
      BY <1>5, <2>1, <3>1, <3>2 DEF Called
  <2>3. CASE i = 1
    <3>1. Frame = stack[1] /\ stack'[1].scope = s
      BY <1>0, <1>1, <1>2 DEF Frame
    <3> QED
      BY <1>5, <2>1, <2>3, <3>1 DEF Called
  <2> QED
    BY <2>2, <2>3
<1>8. (\A p \in Ended : \A q \in {p} \cup Inside(file, p) : Stored(file, q))'
  <2>1. Ended' \subseteq Ended
    <3>1. CASE stack = <<>>
      BY <1>2, <1>4, <3>1 DEF Ended
    <3>2. CASE stack # <<>>
      BY <1>2, <1>3, <3>2 DEF Ended
    <3> QED
      BY <3>1, <3>2
  <2>2. \A p : Inside(file, p)' = Inside(file, p)
    BY DEF Inside, Within, Nests, Ids, Subprocesses
  <2>3. ASSUME NEW p \in Ended, NEW q \in {p} \cup Inside(file, p) PROVE Stored(file, q)'
    <3>1. Stored(file, q)
      BY <2>3 DEF Parsing
    <3>2. q \in DOMAIN processes' /\ processes'[q] = processes[q]
      BY <3>1 DEF Stored
    <3> QED
      BY <3>1, <3>2, StoredKept
  <2> QED
    BY <2>1, <2>2, <2>3
<1>9. (\A q \in Scopes(file) : nodes[q] \subseteq Final(file, q))'
  BY <1>5, FoundKept DEF Parsing
<1>10. (~dirty => /\ DOMAIN processes \subseteq Scopes(file)
                  /\ events = [x \in Defined(file) |-> file.events[x]])'
  BY <1>5 DEF Parsing
<1>11. (stack \in Seq(Frames(file)) /\ (stack # <<>> => Bottom \in file.processes))'
  BY <1>0, <1>2, <1>3, <1>4, <1>5
<1>12. (nodes \in [Scopes(file) -> SUBSET Ids(file.elements)] /\ PortsOf(file))'
  BY <1>5 DEF Parsing, PortsOf, SequenceFlows, Boundaries
<1>13. pending' \subseteq file.processes
  BY <1>0
<1> QED
  BY <1>0, <1>6, <1>7, <1>8, <1>9, <1>10, <1>11, <1>12, <1>13 DEF Parsing

\* A subprocess ends: the call above has it and all that is in it.
LEMMA LeaveSubprocess ==
  ASSUME Parsing, ~Idle, Leave, Len(stack) > 1
  PROVE  Parsing'
<1> DEFINE F == Frames(file)
<1> USE DEF modelVars, portVars
<1>00. /\ Frame.phase > Len(Phases)
       /\ UNCHANGED <<modelVars, portVars, file, pending, nodes, dirty>>
      /\ stack' = <<[stack[2] EXCEPT !.subprocesses = @ \cup {Frame.scope} \cup Returned(Frame)]>>
                    \o Tail(Tail(stack))
  BY DEF Leave
<1>0. /\ file \in Files /\ status = "UNINITIALIZED" /\ pending \subseteq file.processes
      /\ stack \in Seq(F) /\ Bottom \in file.processes
  BY DEF Parsing
<1>1. PICK fr : fr = Frame
  OBVIOUS
<1>2. PICK above : above = stack[2]
  OBVIOUS
<1>3. /\ fr = stack[1] /\ fr \in F /\ Framed(fr) /\ fr.phase = 12
      /\ above \in F /\ Framed(above) /\ Called(fr, above) /\ Len(stack) \in Nat
  <2>1. stack # <<>> /\ Len(stack) \in Nat /\ fr = stack[1] /\ above = stack[2]
    BY <1>0, <1>1, <1>2 DEF Frame
  <2>2. fr \in F /\ Framed(fr) /\ fr.phase \in 1..12 /\ fr.phase > 11
    BY <1>1, <1>00, <2>1, FrameIs, PhasesAre
  <2>3. above \in F
    BY <1>0, <2>1
  <2>4. Framed(stack[2]) /\ Called(stack[1], stack[2])
    <3>1. 2 \in 1..Len(stack) /\ 1 \in 1..(Len(stack) - 1) /\ 1 + 1 = 2
      BY <2>1
    <3> QED
      BY <3>1 DEF Parsing
  <2> QED
    BY <2>1, <2>2, <2>3, <2>4
<1> DEFINE new == [above EXCEPT !.subprocesses = @ \cup {fr.scope} \cup fr.subprocesses]
<1>4. PICK e \in Subprocesses(file) : e.id = fr.scope /\ e.in = above.scope
  BY <1>3 DEF Called
<1>5. /\ new \in F /\ new.scope = above.scope /\ new.phase = 8
      /\ new.subprocesses = above.subprocesses \cup {fr.scope} \cup fr.subprocesses
  BY <1>3, <1>4 DEF Called, Frames, Ids
<1>6. /\ stack' \in Seq(F) /\ stack' # <<>> /\ Len(stack') = Len(stack) - 1 /\ stack'[1] = new
      /\ \A i \in 2..Len(stack') : stack'[i] = stack[i + 1]
  <2>1. stack' = <<new>> \o Tail(Tail(stack))
    BY <1>1, <1>2, <1>00 DEF Returned
  <2>2. new \in F /\ stack \in Seq(F) /\ Len(stack) > 1
    BY <1>0, <1>5
  <2>3. PICK t : t = stack'
    OBVIOUS
  <2>4. PICK u \in Seq(F) : u = stack
    BY <2>2
  <2>5. Len(u) > 1 /\ t = <<new>> \o Tail(Tail(u))
    BY <2>1, <2>2, <2>3, <2>4
  <2> HIDE DEF new, F
  <2>6. t \in Seq(F) /\ t # <<>>
    BY <2>2, <2>5, Popped
  <2>7. Len(t) = Len(u) - 1
    <3>1. new \in F /\ u \in Seq(F) /\ Len(u) > 1 /\ t = <<new>> \o Tail(Tail(u))
      BY <2>2, <2>5
    <3> QED
      BY ONLY <3>1, Popped, SMTT(60)
  <2>8. t[1] = new
    BY <2>2, <2>5, Popped
  <2>9. \A i \in 2..Len(t) : t[i] = u[i + 1]
    BY <2>2, <2>5, Popped
  <2> QED
    BY <2>3, <2>4, <2>6, <2>7, <2>8, <2>9
<1> HIDE DEF new
<1>7. Bottom' = Bottom
  <2>1. CASE Len(stack) = 2
    BY <1>2, <1>5, <1>6, <2>1 DEF Bottom
  <2>2. CASE Len(stack) # 2
    <3>1. Len(stack') \in 2..Len(stack') /\ Len(stack') + 1 = Len(stack)
      BY <1>3, <1>6, <2>2
    <3> QED
      BY <1>6, <3>1 DEF Bottom
  <2> QED
    BY <2>1, <2>2
<1>8. /\ Frames(file)' = F
      /\ Scopes(file)' = Scopes(file)
      /\ Ids(file.elements)' = Ids(file.elements)
      /\ Subprocesses(file)' = Subprocesses(file) /\ Defined(file)' = Defined(file)
  BY <1>00 DEF Frames, Scopes, Ids, Subprocesses, Defined
<1>9. Framed(new)
  <2>1. fr.scope \in Inside(file, above.scope)
    BY <1>4, InsideNests DEF Nests
  <2>2. fr.subprocesses \subseteq Inside(file, above.scope)
    BY <1>3, <2>1, InsideTransitive DEF Framed
  <2>3. new.subprocesses \subseteq Inside(file, above.scope)
    BY <1>3, <1>5, <2>1, <2>2 DEF Framed
  <2>4. \A d \in Subprocesses(file) : d.in \in new.subprocesses => d.id \in new.subprocesses
    BY <1>3, <1>5 DEF Framed, Nests
  <2>5. \A s \in new.subprocesses : Reached(file, s, 12)
    BY <1>3, <1>5 DEF Framed
  <2>6. Reached(file, new.scope, new.phase)
    BY <1>3, <1>5 DEF Framed, Called
  <2> QED
    BY <1>5, <2>3, <2>4, <2>5, <2>6 DEF Framed
<1>10. (\A i \in 1..Len(stack) : Framed(stack[i]))'
  <2> SUFFICES ASSUME NEW i \in 1..Len(stack') PROVE Framed(stack[i])'
    OBVIOUS
  <2>1. PICK g : g = stack'[i]
    OBVIOUS
  <2>2. Framed(g) /\ g \in F
    <3>1. CASE i = 1
      BY <1>5, <1>6, <1>9, <2>1, <3>1
    <3>2. CASE i # 1
      <4>1. i + 1 \in 1..Len(stack) /\ g = stack[i + 1]
        BY <1>3, <1>6, <2>1, <3>2
      <4> QED
        BY <1>0, <4>1 DEF Parsing
    <3> QED
      BY <3>1, <3>2
  <2>3. Framed(g)'
    BY <1>00, <2>2, FramedKept
  <2> QED
    BY <2>1, <2>3
<1>11. (\A i \in 1..(Len(stack) - 1) : Called(stack[i], stack[i + 1]))'
  <2> SUFFICES ASSUME NEW i \in 1..(Len(stack') - 1) PROVE Called(stack[i], stack[i + 1])'
    OBVIOUS
  <2>1. i + 1 \in 1..(Len(stack) - 1) /\ (i + 1) + 1 = i + 2
    BY <1>3, <1>6
  <2>2. Called(stack[i + 1], stack[i + 2])
    BY <2>1 DEF Parsing
  <2>3. stack'[i + 1] = stack[i + 2]
    BY <1>3, <1>6
  <2>4. stack'[i].scope = stack[i + 1].scope
    BY <1>2, <1>3, <1>5, <1>6
  <2> QED
    BY <1>00, <1>8, <2>2, <2>3, <2>4 DEF Called
<1>12. (\A p \in Ended : \A s \in {p} \cup Inside(file, p) : Stored(file, s))'
  <2>1. Ended' = Ended
    BY <1>00, <1>6, <1>7, <1>3 DEF Ended
  <2>2. \A p : Inside(file, p)' = Inside(file, p)
    BY <1>00 DEF Inside, Within, Nests, Ids, Subprocesses
  <2>3. ASSUME NEW p \in Ended, NEW s \in {p} \cup Inside(file, p) PROVE Stored(file, s)'
    <3>1. Stored(file, s)
      BY <2>3 DEF Parsing
    <3>2. s \in DOMAIN processes' /\ processes'[s] = processes[s]
      BY <1>00, <3>1 DEF Stored
    <3> QED
      BY <1>00, <3>1, <3>2, StoredKept
  <2> QED
    BY <2>1, <2>2, <2>3
<1>13. (\A s \in Scopes(file) : nodes[s] \subseteq Final(file, s))'
  BY <1>00, <1>8, FoundKept DEF Parsing
<1>14. (~dirty => /\ DOMAIN processes \subseteq Scopes(file)
                  /\ events = [x \in Defined(file) |-> file.events[x]])'
  BY <1>00, <1>8 DEF Parsing
<1>15. (stack \in Seq(Frames(file)) /\ (stack # <<>> => Bottom \in file.processes))'
  BY <1>00, <1>0, <1>6, <1>7, <1>8
<1>16. (nodes \in [Scopes(file) -> SUBSET Ids(file.elements)] /\ PortsOf(file))'
  BY <1>00, <1>8 DEF Parsing, PortsOf, SequenceFlows, Boundaries
<1> QED
  BY <1>00, <1>0, <1>10, <1>11, <1>12, <1>13, <1>14, <1>15, <1>16 DEF Parsing

\* What a process takes into the model is what has been made of it.
LEMMA DefinitionIs ==
  \A p : Definition(p).file = file /\ Definition(p).nodes = nodes[p]
BY DEF Definition

\* A process ends with all that is in it stored in the model.
LEMMA LeaveProcess ==
  ASSUME Parsing, ~Idle, Leave, stack # <<>>, ~(Len(stack) > 1)
  PROVE  Parsing' /\ \E fr : /\ fr = Frame
                             /\ DOMAIN processes' = DOMAIN processes \cup {fr.scope} \cup fr.subprocesses
                             /\ fr.subprocesses = Inside(file, fr.scope)
                             /\ \A s \in {fr.scope} \cup fr.subprocesses :
                                  /\ processes'[s] = Definition(s)
                                  /\ nodes[s] = Final(file, s) /\ Reached(file, s, 12)
                             /\ \A s \in DOMAIN processes \ ({fr.scope} \cup fr.subprocesses) :
                                  processes'[s] = processes[s]
<1> USE DEF modelVars, portVars
<1>00. /\ Frame.phase > Len(Phases) /\ stack' = <<>>
       /\ UNCHANGED <<status, events, url, portVars, file, pending, nodes, dirty>>
       /\ LET new == {Frame.scope} \cup Returned(Frame) IN
            processes' = [p \in DOMAIN processes \cup new |->
                            IF p \in new THEN Definition(p) ELSE processes[p]]
  BY DEF Leave
<1>0. /\ file \in Files /\ status = "UNINITIALIZED" /\ pending \subseteq file.processes
      /\ stack \in Seq(Frames(file)) /\ Bottom \in file.processes
  BY DEF Parsing
<1>1. PICK fr : fr = Frame
  OBVIOUS
<1>2. /\ fr = stack[1] /\ fr \in Frames(file) /\ Framed(fr) /\ fr.phase = 12 /\ Len(stack) = 1
  <2>1. Len(stack) \in Nat \ {0} /\ fr = stack[1]
    BY <1>0, <1>1 DEF Frame
  <2>2. fr \in Frames(file) /\ Framed(fr) /\ fr.phase \in 1..12 /\ fr.phase > 11
    BY <1>00, <1>1, FrameIs, PhasesAre
  <2>3. fr.phase = 12
    BY <2>2
  <2>4. Len(stack) = 1
    <3>1. PICK n \in Nat \ {0} : n = Len(stack)
      BY <2>1
    <3>2. ~(n > 1)
      BY <3>1
    <3> QED
      BY <3>1, <3>2
  <2> QED
    BY <2>1, <2>2, <2>3, <2>4
<1> DEFINE new == {fr.scope} \cup fr.subprocesses
<1>3. Bottom = fr.scope
  BY <1>2 DEF Bottom
<1>4. fr.subprocesses = Inside(file, fr.scope)
  <2>1. fr.subprocesses \cap Ids(Subprocesses(file)) = fr.subprocesses
    BY <1>2 DEF Frames
  <2>2. Nests(file, fr.subprocesses, fr.scope)
    BY <1>2 DEF Framed
  <2>3. Inside(file, fr.scope) \subseteq fr.subprocesses
    BY <2>1, <2>2, InsideLeast
  <2> QED
    BY <1>2, <2>3 DEF Framed
<1>5. \A s \in new : Reached(file, s, 12) /\ s \in Scopes(file)
  BY <1>2 DEF Framed, Frames, Scopes
<1>6. \A s \in new : nodes[s] = Final(file, s)
  BY <1>5 DEF Reached, Final, Parsing
<1>7. /\ stack' = <<>> /\ DOMAIN processes' = DOMAIN processes \cup new
      /\ \A s \in new : processes'[s] = Definition(s)
      /\ \A s \in DOMAIN processes \ new : processes'[s] = processes[s]
  BY <1>00, <1>1 DEF Returned
<1>8. \A s \in new : processes'[s].file = file /\ processes'[s].nodes = Final(file, s)
  BY <1>6, <1>7, DefinitionIs
<1>9. Scopes(file)' = Scopes(file) /\ Ids(file.elements)' = Ids(file.elements)
      /\ Subprocesses(file)' = Subprocesses(file) /\ Defined(file)' = Defined(file)
  BY <1>00 DEF Scopes, Ids, Subprocesses, Defined
<1>10. \A p : Inside(file, p)' = Inside(file, p)
  BY <1>00 DEF Inside, Within, Nests, Ids, Subprocesses
<1>11. (\A p \in Ended : \A s \in {p} \cup Inside(file, p) : Stored(file, s))'
  <2> SUFFICES ASSUME NEW p \in Ended', NEW s \in {p} \cup Inside(file, p)
               PROVE  Stored(file, s)'
    BY <1>10
  <2>1. Final(file, s)' = Final(file, s)
    BY <1>00, FoundKept
  <2>2. CASE s \in new
    BY <1>00, <1>7, <1>8, <2>1, <2>2 DEF Stored
  <2>3. CASE s \notin new
    <3>1. p \in Ended
      BY <1>00, <1>3, <1>4, <2>3 DEF Ended
    <3>2. Stored(file, s)
      BY <3>1 DEF Parsing
    <3> QED
      BY <1>00, <1>7, <2>1, <2>3, <3>2 DEF Stored
  <2> QED
    BY <2>2, <2>3
<1>12. (\A s \in Scopes(file) : nodes[s] \subseteq Final(file, s))'
  BY <1>00, <1>9, FoundKept DEF Parsing
<1>13. (~dirty => /\ DOMAIN processes \subseteq Scopes(file)
                  /\ events = [x \in Defined(file) |-> file.events[x]])'
  BY <1>00, <1>5, <1>7, <1>9 DEF Parsing
<1>14. (stack \in Seq(Frames(file)) /\ Len(stack) = 0 /\ stack = <<>>)'
  BY <1>7
<1>15. (nodes \in [Scopes(file) -> SUBSET Ids(file.elements)] /\ PortsOf(file))'
  BY <1>00, <1>9 DEF Parsing, PortsOf, SequenceFlows, Boundaries
<1>16. Parsing'
  BY <1>00, <1>0, <1>11, <1>12, <1>13, <1>14, <1>15 DEF Parsing
<1> QED
  BY <1>1, <1>4, <1>5, <1>6, <1>7, <1>16
-----------------------------------------------------------------------------
\* With the file parsed and the next one not begun, there is nothing to parse.
LEMMA NotParsing ==
  ASSUME file' = NoFile
  PROVE  Parsing' /\ Idle'
BY DEF Parsing, Idle

\* A load begins with no port, and with the events that were there before.
LEMMA LoadStep ==
  ASSUME ParserInv, NEW f \in Files, Load(f), file' = f
  PROVE  Parsing'
<1> USE DEF ParserInv
<1>0. Idle /\ stack = <<>> /\ f # NoFile
  BY FilesAssumption DEF Load, AtRest
<1>1. /\ status = "UNINITIALIZED" /\ status' = status /\ processes' = processes
      /\ pending' = f.processes /\ nodes' = [p \in Scopes(f) |-> {}]
      /\ ExtractModelEvents(f, Defined(f)) /\ outputs' = Empty /\ inputs' = {} /\ attached' = {}
      /\ stack' = stack /\ dirty' = dirty
  BY <1>0 DEF Load, Idle, parseVars, portVars, AtRest
<1>2. stack' \in Seq(Frames(f)) /\ Len(stack') = 0
  BY <1>0, <1>1
<1>3. PortsOf(file)'
  BY <1>1 DEF PortsOf, Empty
<1>4. Ended' = {}
  BY <1>1 DEF Ended
<1>5. ~dirty' => /\ DOMAIN processes' \subseteq Scopes(f)
                 /\ events' = [x \in Defined(f) |-> f.events[x]]
  BY <1>0, <1>1 DEF AtRest, Empty, ExtractModelEvents
<1>6. nodes' \in [Scopes(f) -> SUBSET Ids(f.elements)]
      /\ \A s \in Scopes(f) : nodes'[s] \subseteq Final(f, s)'
  BY <1>1
<1>7. /\ Frames(file)' = Frames(f)
      /\ Scopes(file)' = Scopes(f)
      /\ Ids(file.elements)' = Ids(f.elements)
      /\ Defined(file)' = Defined(f) /\ \A s : Final(file, s)' = Final(f, s)'
  BY DEF Frames, Scopes, Ids, Subprocesses, Defined, Final, Found, Inside,
     Within, Nests
<1>8. (~dirty => /\ DOMAIN processes \subseteq Scopes(file)
                 /\ events = [x \in Defined(file) |-> file.events[x]])'
  BY <1>5, <1>7
<1> QED
  BY <1>0, <1>1, <1>2, <1>3, <1>4, <1>6, <1>7, <1>8 DEF Parsing

\* The parser's state is kept by whoever leaves it alone.
LEMMA ParsingStutters ==
  ASSUME Parsing, UNCHANGED <<modelVars, portVars, parseVars, dirty>>
  PROVE  Parsing'
<1> USE DEF modelVars, portVars, parseVars
<1>1. CASE Idle
  BY <1>1, NotParsing DEF Idle
<1>2. CASE ~Idle
  <2>1. /\ Frames(file)' = Frames(file) /\ Scopes(file)' = Scopes(file)
        /\ Ids(file.elements)' = Ids(file.elements) /\ Defined(file)' = Defined(file)
        /\ Subprocesses(file)' = Subprocesses(file) /\ Ended' = Ended /\ Bottom' = Bottom
        /\ PortsOf(file)' = PortsOf(file) /\ Idle' = Idle
        /\ \A p : Inside(file, p)' = Inside(file, p)
    BY DEF Frames, Scopes, Ids, Defined, Subprocesses, Ended, Bottom, PortsOf,
       SequenceFlows,
      Boundaries, Idle, Inside, Within, Nests
  <2>2. ASSUME NEW i \in 1..Len(stack) PROVE Framed(stack[i])'
    <3>1. PICK g : g = stack[i]
      OBVIOUS
    <3>2. Framed(g) /\ g \in Frames(file)
      BY <1>2, <3>1 DEF Parsing
    <3> QED
      BY <3>1, <3>2, FramedKept
  <2>3. ASSUME NEW i \in 1..(Len(stack) - 1) PROVE Called(stack[i], stack[i + 1])'
    BY <1>2, <2>1, <2>3 DEF Parsing, Called
  <2>4. ASSUME NEW p \in Ended, NEW s \in {p} \cup Inside(file, p) PROVE Stored(file, s)'
    <3>1. Stored(file, s)
      BY <1>2, <2>4 DEF Parsing
    <3> QED
      BY <3>1, StoredKept DEF Stored
  <2>5. \A s \in Scopes(file) : Final(file, s)' = Final(file, s)
    BY FoundKept
  <2> QED
    BY <1>2, <2>1, <2>2, <2>3, <2>4, <2>5 DEF Parsing
<1> QED
  BY <1>1, <1>2

\* Each step keeps what holds of a file that is being parsed.
LEMMA NextParsing ==
  ASSUME ParserInv, [ParserNext]_parserVars
  PROVE  Parsing'
<1> USE DEF modelVars, portVars, parseVars
<1>0. Parsing /\ AtRest
  BY DEF ParserInv
<1>2. ASSUME stack # <<>> PROVE ~Idle
  BY <1>0, <1>2 DEF AtRest
<1>3. CASE Parse
  <2>1. CASE BeginProcess
    <3>1. PICK p \in pending : Enter(p) /\ pending' = pending \ {p}
      BY <2>1 DEF BeginProcess
    <3>2. p \in Scopes(file) /\ p \in file.processes
      BY <1>0, <2>1, <3>1 DEF BeginProcess, Parsing, Scopes
    <3> QED
      BY <1>0, <2>1, <3>1, <3>2, Begun DEF BeginProcess
  <2>2. CASE Extract
    BY <1>0, <1>2, <2>2, ExtractStep DEF Extract
  <2>3. CASE Fail \/ FlowToNowhere \/ Finish
    BY <2>3, NotParsing DEF Fail, FlowToNowhere, Finish, GiveUp, Forget
  <2>4. CASE ExtractSubprocess
    <3>1. /\ stack # <<>> /\ ~Idle /\ Tag = "subProcess" /\ Frame.phase <= Len(Phases)
          /\ UNCHANGED <<modelVars, portVars, file, pending, dirty>>
      BY <1>2, <2>4 DEF ExtractSubprocess
    <3>2. CASE Ids(Current) \ Frame.subprocesses = {} /\ Add(Frame.subprocesses) /\ NextPhase
      BY <1>0, <3>1, <3>2, CollectStep
    <3>3. CASE \E s \in Ids(Current) \ Frame.subprocesses : Enter(s) /\ UNCHANGED nodes
      <4>1. PICK s \in Ids(Current) : Enter(s) /\ UNCHANGED nodes
        BY <3>3
      <4>2. PICK fr : fr = Frame
        OBVIOUS
      <4>3. fr.phase \in 1..12
        BY <1>0, <3>1, <4>2, FrameIs
      <4>4. Frame.phase = 8
        BY <3>1, <4>2, <4>3, PhasesAre DEF Tag
      <4>5. \E e \in Subprocesses(file) : e.id = s /\ e.in = Frame.scope
        BY <3>1 DEF Current, Elements, Ids, Subprocesses
      <4>6. s \in Scopes(file)
        BY <4>5 DEF Scopes, Ids
      <4> QED
        BY <1>0, <3>1, <4>1, <4>4, <4>5, <4>6, Begun
    <3> QED
      BY <2>4, <3>2, <3>3 DEF ExtractSubprocess
  <2>5. CASE ExtractBoundaryEvents
    BY <1>0, <1>2, <2>5, BoundaryStep DEF ExtractBoundaryEvents
  <2>6. CASE WireFlows
    BY <1>0, <1>2, <2>6, WireStep DEF WireFlows
  <2>7. CASE Leave
    <3>1. stack # <<>>
      BY <2>7 DEF Leave
    <3> QED
      BY <1>0, <1>2, <2>7, <3>1, LeaveSubprocess, LeaveProcess
  <2> QED
    BY <1>3, <2>1, <2>2, <2>3, <2>4, <2>5, <2>6, <2>7 DEF Parse
<1>4. CASE Validate
  BY <1>4, NotParsing DEF Validate, Idle
<1>5. CASE Reset
  BY <1>5, NotParsing DEF Reset, Idle
<1>6. CASE \E f \in Files : Load(f)
  <2>1. PICK f \in Files : Load(f)
    BY <1>6
  <2>2. CASE file' = f
    BY <2>1, <2>2, LoadStep
  <2>3. CASE file' # f
    <3>1. file' = file /\ Idle
      BY <2>1, <2>3 DEF Load
    <3> QED
      BY <3>1, NotParsing DEF Idle
  <2> QED
    BY <2>2, <2>3
<1>7. CASE UNCHANGED parserVars
  BY <1>0, <1>7, ParsingStutters DEF parserVars
<1> QED
  BY <1>3, <1>4, <1>5, <1>6, <1>7 DEF ParserNext
-----------------------------------------------------------------------------
\* The parser works on a model that is not READY.
LEMMA ParseIsBusy == ASSUME ParserInv, Parse PROVE ~Idle /\ ~Loaded
BY DEF ParserInv, AtRest, Parsing, Parse, BeginProcess, Extract, Fail,
   ExtractSubprocess,
  ExtractBoundaryEvents, WireFlows, FlowToNowhere, Leave, Finish, Loaded

\* Each step keeps what holds of a model that has nothing to parse.
LEMMA NextAtRest ==
  ASSUME ParserInv, [ParserNext]_parserVars
  PROVE  AtRest'
<1> USE DEF AtRest, modelVars, parseVars, portVars
<1>0. AtRest
  BY DEF ParserInv
<1>1. CASE Parse
  <2>1. CASE Fail \/ FlowToNowhere
    BY <2>1 DEF Fail, FlowToNowhere, GiveUp, Forget
  <2>2. CASE Finish
    BY <2>2 DEF Finish, Forget
  <2>3. CASE ~(Fail \/ FlowToNowhere \/ Finish)
    <3>1. file' = file
      BY <1>1, <2>3 DEF Parse, BeginProcess, Extract, ExtractSubprocess,
         ExtractBoundaryEvents,
        WireFlows, Leave
    <3> QED
      BY <1>1, <3>1, ParseIsBusy DEF Idle
  <2> QED
    BY <2>1, <2>2, <2>3
<1>2. CASE Validate
  BY <1>0, <1>2 DEF Validate, Idle
<1>3. CASE Reset
  BY <1>0, <1>3 DEF Reset, Clear, Idle
<1>4. ASSUME NEW f \in Files, Load(f) PROVE AtRest'
  BY <1>0, <1>4, FilesAssumption DEF Load, Idle
<1>5. CASE UNCHANGED parserVars
  BY <1>0, <1>5 DEF parserVars, Idle
<1> QED
  BY <1>1, <1>2, <1>3, <1>4, <1>5 DEF ParserNext

\* A READY model is kept by whoever leaves it alone.
LEMMA CompleteStutters ==
  ASSUME Complete, UNCHANGED <<modelVars, file, dirty>>
  PROVE  Complete'
<1> USE DEF modelVars
<1>1. \A s, n : Found(url, s, n)' = Found(url, s, n)
  BY VerdictKept DEF Found, Before
<1>2. \A s : Final(url, s)' = Final(url, s)
  BY <1>1 DEF Final, Inside, Within, Nests, Ids, Subprocesses
<1>3. \A s : Stored(url, s)' = Stored(url, s)
  BY <1>2 DEF Stored
<1>4. /\ Scopes(url)' = Scopes(url) /\ Defined(url)' = Defined(url)
      /\ Idle' = Idle /\ Loaded' = Loaded
  BY DEF Scopes, Ids, Subprocesses, Defined, Idle, Loaded
<1> QED
  BY <1>3, <1>4 DEF Complete

\* With the last process the model has all scopes of the file.
LEMMA FinishStep ==
  ASSUME ParserInv, Finish
  PROVE  Complete'
<1> USE DEF Finish, Forget
<1>0. Parsing /\ ~Idle /\ file \in Files /\ Ended = file.processes /\ Idle'
  BY DEF ParserInv, Parsing, Ended, Idle
<1>1. \A s \in Scopes(file) : Stored(file, s)
  <2> SUFFICES ASSUME NEW s \in Scopes(file) PROVE Stored(file, s)
    OBVIOUS
  <2>1. \E p \in file.processes : s \in {p} \cup Inside(file, p)
    BY <1>0, FilesAssumption DEF WellFormed, Scopes, Inside
  <2> QED
    BY <1>0, <2>1 DEF Parsing
<1>2. \A s : Stored(file, s) => Stored(url, s)'
  <2>1. \A s, n : Found(url, s, n)' = Found(file, s, n)
    BY VerdictKept DEF Found, Before
  <2>2. \A s : Final(url, s)' = Final(file, s)
    BY <2>1 DEF Final, Inside, Within, Nests, Ids, Subprocesses
  <2> QED
    BY <2>2 DEF Stored
<1>3. Scopes(url)' = Scopes(file) /\ Defined(url)' = Defined(file)
  BY DEF Scopes, Ids, Subprocesses, Defined
<1>4. ~dirty => /\ DOMAIN processes = Scopes(file)
                /\ events = [x \in Defined(file) |-> file.events[x]]
  BY <1>0, <1>1 DEF Parsing, Stored
<1> QED
  BY <1>0, <1>1, <1>2, <1>3, <1>4 DEF Complete

\* Each step keeps what holds of a READY model.
LEMMA NextComplete ==
  ASSUME ParserInv, [ParserNext]_parserVars
  PROVE  Complete'
<1> USE DEF modelVars, parseVars
<1>0. Complete
  BY DEF ParserInv
<1>1. CASE Parse
  <2>1. CASE Finish
    BY <2>1, FinishStep
  <2>2. CASE ~Finish
    <3>1. status' = status
      BY <1>1, <2>2 DEF Parse, BeginProcess, Extract, Fail, GiveUp,
         ExtractSubprocess,
        ExtractBoundaryEvents, WireFlows, FlowToNowhere, Leave
    <3> QED
      BY <1>1, <3>1, ParseIsBusy DEF Complete, Loaded
  <2> QED
    BY <2>1, <2>2
<1>2. CASE Validate
  BY <1>0, <1>2, CompleteStutters DEF Validate
<1>3. CASE Reset
  BY <1>3 DEF Reset, Complete, Loaded
<1>4. ASSUME NEW f \in Files, Load(f) PROVE Complete'
  <2>1. CASE Loaded
    <3>1. UNCHANGED <<modelVars, file, dirty>>
      BY <1>4, <2>1 DEF Load, Loaded
    <3> QED
      BY <1>0, <3>1, CompleteStutters
  <2>2. CASE ~Loaded
    BY <1>4, <2>2 DEF Load, Complete, Loaded
  <2> QED
    BY <2>1, <2>2
<1>5. CASE UNCHANGED parserVars
  BY <1>0, <1>5, CompleteStutters DEF parserVars
<1> QED
  BY <1>1, <1>2, <1>3, <1>4, <1>5 DEF ParserNext

\* The nodes of a scope that are subprocesses are those in it.
LEMMA FinalSubprocesses ==
  ASSUME NEW f \in Files, NEW p, NEW e \in Subprocesses(f), e.id \in Final(f, p)
  PROVE  e.id \in Inside(f, p)
<1> SUFFICES ASSUME e.id \in Ids(Found(f, p, 12)) PROVE FALSE
  BY DEF Final
<1>1. PICK d \in f.elements : d.id = e.id /\ d.tag \in Before(12)
  BY DEF Ids, Found
<1>2. d = e
  BY <1>1, FilesAssumption DEF WellFormed, Subprocesses
<1> QED
  BY <1>1, <1>2 DEF Before, Subprocesses

\* Each step keeps the subprocesses of all processes known.
LEMMA NextListed ==
  ASSUME ParserInv, [ParserNext]_parserVars
  PROVE  Listed'
<1> USE DEF modelVars
<1>0. Listed /\ Parsing
  BY DEF ParserInv
<1>1. ASSUME processes' = processes PROVE Listed'
  BY <1>0, <1>1 DEF Listed, Subprocesses
<1>2. CASE Leave
  <2>1. CASE Len(stack) > 1
    BY <1>1, <1>2, <2>1 DEF Leave
  <2>2. CASE ~(Len(stack) > 1)
    <3>1. ~Idle /\ stack # <<>> /\ file \in Files
      BY <1>2, ParseIsBusy DEF Parse, Leave, ParserInv, Parsing
    <3>2. PICK fr : /\ fr = Frame
                    /\ DOMAIN processes' = DOMAIN processes \cup {fr.scope} \cup fr.subprocesses
                    /\ fr.subprocesses = Inside(file, fr.scope)
                    /\ \A s \in {fr.scope} \cup fr.subprocesses :
                         processes'[s] = Definition(s) /\ nodes[s] = Final(file, s)
                    /\ \A s \in DOMAIN processes \ ({fr.scope} \cup fr.subprocesses) :
                         processes'[s] = processes[s]
      BY <1>0, <1>2, <2>2, <3>1, LeaveProcess
    <3>3. ASSUME NEW p \in DOMAIN processes', NEW s \in processes'[p].nodes,
                 \E e \in Subprocesses(processes'[p].file) : e.id = s
          PROVE  s \in DOMAIN processes'
      <4>1. CASE p \in {fr.scope} \cup fr.subprocesses
        <5>1. processes'[p].file = file /\ processes'[p].nodes = Final(file, p)
          BY <3>2, <4>1, DefinitionIs
        <5>2. s \in Inside(file, p)
          BY <3>1, <3>3, <5>1, FinalSubprocesses
        <5>3. s \in Inside(file, fr.scope)
          BY <3>2, <4>1, <5>2, InsideTransitive
        <5> QED
          BY <3>2, <5>3
      <4>2. CASE p \notin {fr.scope} \cup fr.subprocesses
        <5>1. p \in DOMAIN processes /\ processes'[p] = processes[p]
          BY <3>2, <4>2
        <5>2. s \in DOMAIN processes
          BY <1>0, <3>3, <5>1 DEF Listed
        <5> QED
          BY <3>2, <5>2
      <4> QED
        BY <4>1, <4>2
    <3> QED
      BY <3>3 DEF Listed, Subprocesses
  <2> QED
    BY <2>1, <2>2
<1>3. CASE Parse /\ ~Leave
  BY <1>1, <1>3 DEF Parse, BeginProcess, Extract, Fail, GiveUp, ExtractSubprocess,
        ExtractBoundaryEvents, WireFlows, FlowToNowhere, Finish
<1>4. CASE Validate
  BY <1>1, <1>4 DEF Validate
<1>5. CASE Reset
  BY <1>5 DEF Reset, Clear, Listed, Empty
<1>6. ASSUME NEW f \in Files, Load(f) PROVE Listed'
  BY <1>1, <1>6 DEF Load
<1>7. CASE UNCHANGED parserVars
  BY <1>1, <1>7 DEF parserVars
<1> QED
  BY <1>2, <1>3, <1>4, <1>5, <1>6, <1>7 DEF ParserNext

\* An element of one of the kinds has one of five verdicts.
LEMMA VerdictRange ==
  ASSUME NEW i \in 1..11, NEW e, e.tag = Phases[i]
  PROVE  Verdict(e) \in {"node", "skip", "error", "escapes", "crash"}
<1>1. Reference(e) \in {"none", "unknown", "mismatch", "known"}
  BY DEF Reference
<1>2. \/ e.tag = "serviceTask" \/ e.tag = "userTask" \/ e.tag = "startEvent" \/ e.tag = "endEvent"
      \/ e.tag = "throwEvent" \/ e.tag = "catchEvent" \/ e.tag = "boundaryEvent"
      \/ e.tag = "sequenceFlow" \/ e.tag \in Unchecked
  BY DEF Phases, Unchecked
<1> USE DEF Verdict
<1>3. CASE Incomplete(e)
  BY <1>3
<1>4. CASE ~Incomplete(e)
  <2>1. CASE e.tag = "startEvent"
    BY <1>1, <1>4, <2>1 DEF StartVerdict
  <2>2. CASE e.tag = "endEvent"
    BY <1>1, <1>4, <2>2 DEF EndVerdict
  <2>3. CASE e.tag = "throwEvent"
    BY <1>1, <1>4, <2>3 DEF ThrowVerdict
  <2>4. CASE e.tag = "catchEvent"
    BY <1>1, <1>4, <2>4 DEF CatchVerdict, TimerVerdict
  <2>5. CASE e.tag = "boundaryEvent"
    BY <1>1, <1>4, <2>5 DEF BoundaryVerdict, TimerBoundaryVerdict, TimerVerdict
  <2>6. CASE e.tag \in {"serviceTask", "userTask"}
    BY <1>4, <2>6 DEF TaskVerdict
  <2>7. CASE e.tag = "sequenceFlow"
    BY <1>4, <2>7 DEF FlowVerdict
  <2>8. CASE e.tag \in Unchecked
    BY <1>4, <2>8 DEF Unchecked
  <2> QED
    BY <1>2, <2>1, <2>2, <2>3, <2>4, <2>5, <2>6, <2>7, <2>8
<1> QED
  BY <1>3, <1>4

\* A task that no connector takes is among those that a validation looks at.
LEMMA TaskIsImplemented ==
  ASSUME Complete, Loaded, NEW e \in url.elements, e.form \in {"foreign", "unknown"}
  PROVE  e \in Implemented
<1>1. url \in Files /\ e.tag \in {"serviceTask", "userTask"} /\ e.in \in Scopes(url)
  BY FilesAssumption DEF Complete, WellFormed
<1>2. Verdict(e) = "node"
  BY <1>1 DEF Verdict, Incomplete, TaskVerdict
<1>3. e.tag \in Before(12)
  <2>1. e.tag = Phases[1] \/ e.tag = Phases[2]
    BY <1>1 DEF Phases
  <2>2. 1 \in 1..(12 - 1) /\ 2 \in 1..(12 - 1)
    OBVIOUS
  <2> QED
    BY <1>1, <2>1, <2>2 DEF Before
<1>4. e.id \in Final(url, e.in)
  BY <1>2, <1>3 DEF Final, Found, Ids
<1>5. Stored(url, e.in)
  BY <1>1 DEF Complete
<1> QED
  BY <1>1, <1>4, <1>5 DEF Stored, Implemented

\* Each step keeps what a result says of the model.
LEMMA NextChecked ==
  ASSUME ParserInv, [ParserNext]_parserVars
  PROVE  Checked'
<1> USE DEF modelVars
<1>0. Checked /\ Complete
  BY DEF ParserInv
<1>1. CASE Parse
  <2>0. ~Loaded /\ result \notin {"ok", "valid"}
    BY <1>0, <1>1, ParseIsBusy DEF Checked
  <2>1. CASE Fail
    <3>1. PICK e \in Current : GiveUp(Verdict(e))
      BY <2>1 DEF Fail
    <3>2. ~Idle /\ stack # <<>> /\ Frame.phase <= 11
      BY <1>1, <2>1, ParseIsBusy, PhasesAre DEF Fail
    <3>3. PICK fr : fr = Frame
      OBVIOUS
    <3>4. fr.phase \in 1..12
      BY <3>2, <3>3, FrameIs DEF ParserInv
    <3>5. fr.phase \in 1..11 /\ e.tag = Phases[fr.phase]
      BY <3>2, <3>3, <3>4 DEF Current, Elements, Tag
    <3>6. Verdict(e) \in {"node", "skip", "error", "escapes", "crash"}
      BY <3>5, VerdictRange
    <3> QED
      BY <1>0, <3>1, <3>6 DEF GiveUp, Checked
  <2>2. CASE Finish
    BY <1>0, <2>2 DEF Finish, Checked, Loaded
  <2>3. CASE ~Fail /\ ~Finish
    <3>1. status' = status /\ result' \in {result, "crash"}
      BY <1>1, <2>3 DEF Parse, BeginProcess, Extract, GiveUp, ExtractSubprocess,
        ExtractBoundaryEvents, WireFlows, FlowToNowhere, Leave
    <3> QED
      BY <1>0, <2>0, <3>1 DEF Checked
  <2> QED
    BY <2>1, <2>2, <2>3
<1>2. CASE Validate
  <2>1. Loaded /\ status' = status /\ url' = url /\ Loaded' = Loaded
    BY <1>0, <1>2 DEF Validate, Checked, Loaded
  <2>2. CASE result' = "valid"
    <3>1. \A t \in Implemented : t.form \notin {"foreign", "unknown"}
      BY <1>2, <2>2 DEF Validate
    <3>2. \A e \in url.elements : e.form \notin {"foreign", "unknown"}
      BY <1>0, <2>1, <3>1, TaskIsImplemented
    <3> QED
      BY <1>0, <2>1, <3>2 DEF Checked
  <2>3. CASE result' # "valid"
    BY <1>0, <2>1, <2>3 DEF Checked
  <2> QED
    BY <2>2, <2>3
<1>3. CASE Reset
  BY <1>3 DEF Reset, Checked
<1>4. ASSUME NEW f \in Files, Load(f) PROVE Checked'
  BY <1>0, <1>4 DEF Load, Checked
<1>5. CASE UNCHANGED parserVars
  BY <1>0, <1>5 DEF parserVars, Checked, Loaded
<1> QED
  BY <1>1, <1>2, <1>3, <1>4, <1>5 DEF ParserNext

\* What a process takes into the model has the ports of the file.
LEMMA DefinitionMatches ==
  ASSUME file \in Files, PortsOf(file), NEW p, nodes[p] = Final(file, p), Reached(file, p, 12),
         NEW q, q = Definition(p)
  PROVE  PortsMatch(p, q)
<1> DEFINE N == nodes[p]
<1>1. /\ q.file = file /\ q.nodes = N
      /\ q.outputs = [x \in DOMAIN outputs \cap (N \X N) |-> outputs[x]]
      /\ q.inputs = inputs \cap (N \X N) /\ q.attached = attached \cap (N \X N)
  BY DEF Definition
<1>2. DOMAIN q.outputs = DOMAIN outputs \cap (N \X N)
  BY <1>1
<1>3. Attaches(file, p) /\ Wires(file, p)
  BY DEF Reached
<1>4. ASSUME NEW e \in SequenceFlows(file), e.in = p
      PROVE  <<e.source, e.target>> \in DOMAIN q.outputs
  BY <1>2, <1>3, <1>4 DEF Wires
<1>5. ASSUME NEW x \in DOMAIN q.outputs
      PROVE  \E e \in SequenceFlows(file) : q.outputs[x] = e.id /\ x = <<e.source, e.target>>
  <2>1. q.outputs[x] = outputs[x] /\ x \in DOMAIN outputs
    BY <1>1, <1>2
  <2> QED
    BY <2>1 DEF PortsOf
<1>6. ASSUME NEW a \in N, NEW b \in N
      PROVE  <<a, b>> \in DOMAIN outputs <=> <<b, a>> \in inputs
  <2>1. ASSUME <<a, b>> \in DOMAIN outputs PROVE <<b, a>> \in inputs
    <3>1. PICK e \in SequenceFlows(file) : <<a, b>> = <<e.source, e.target>>
      BY <2>1 DEF PortsOf
    <3> QED
      BY <2>1, <3>1 DEF PortsOf
  <2>2. ASSUME <<b, a>> \in inputs PROVE <<a, b>> \in DOMAIN outputs
    <3>1. PICK e \in SequenceFlows(file) :
            <<e.source, e.target>> \in DOMAIN outputs /\ <<b, a>> = <<e.target, e.source>>
      BY <2>2 DEF PortsOf
    <3> QED
      BY <3>1
  <2> QED
    BY <2>1, <2>2
<1>7. ASSUME NEW a \in N, NEW b \in N \cap Ids(Boundaries(file))
      PROVE  <<a, b>> \in attached <=> \E e \in Boundaries(file) : e.id = b /\ e.host = a
  <2>1. PICK c \in Boundaries(file) : c.id = b
    BY DEF Ids
  <2>2. \A e \in file.elements : e.id = b => e = c
    BY <2>1, FilesAssumption DEF WellFormed, Boundaries
  <2>3. c \in Found(file, p, 12)
    <3>1. b \notin Inside(file, p)
      BY <2>1, <2>2 DEF Inside, Ids, Subprocesses, Boundaries
    <3>2. b \in Ids(Found(file, p, 12))
      BY <3>1 DEF Final
    <3> QED
      BY <2>2, <3>2 DEF Ids, Found
  <2>4. CASE c.host = a
    BY <1>3, <2>1, <2>3, <2>4 DEF Attaches
  <2>5. CASE c.host # a
    <3>1. ASSUME <<a, b>> \in attached PROVE FALSE
      <4>1. PICK d \in Boundaries(file) : <<a, b>> = <<d.host, d.id>>
        BY <3>1 DEF PortsOf
      <4> QED
        BY <2>2, <2>5, <4>1 DEF Boundaries
    <3> QED
      BY <2>2, <2>5, <3>1 DEF Boundaries
  <2> QED
    BY <2>4, <2>5
<1>8. \A a, b \in N : <<a, b>> \in DOMAIN q.outputs <=> <<b, a>> \in q.inputs
  BY <1>1, <1>2, <1>6
<1>9. \A a \in N, b \in N \cap Ids(Boundaries(file)) :
        <<a, b>> \in q.attached <=> \E e \in Boundaries(file) : e.id = b /\ e.host = a
  BY <1>1, <1>7
<1> HIDE DEF N
<1> QED
  BY <1>1, <1>4, <1>5, <1>8, <1>9 DEF PortsMatch

\* Each step keeps the ports of all processes.
LEMMA NextPorts ==
  ASSUME ParserInv, [ParserNext]_parserVars
  PROVE  PortsMatchFlows'
<1> USE DEF modelVars
<1>0. PortsMatchFlows /\ Parsing
  BY DEF ParserInv
<1>2. ASSUME processes' = processes PROVE PortsMatchFlows'
  BY <1>0, <1>2 DEF PortsMatchFlows, PortsMatch, SequenceFlows, Boundaries, Ids
<1>3. CASE Leave
  <2>1. CASE Len(stack) > 1
    BY <1>2, <1>3, <2>1 DEF Leave
  <2>2. CASE ~(Len(stack) > 1)
    <3>1. ~Idle /\ stack # <<>> /\ file \in Files /\ PortsOf(file)
      BY <1>3, ParseIsBusy DEF Parse, Leave, ParserInv, Parsing
    <3>2. PICK fr : /\ DOMAIN processes' = DOMAIN processes \cup {fr.scope} \cup fr.subprocesses
                    /\ \A s \in {fr.scope} \cup fr.subprocesses :
                         /\ processes'[s] = Definition(s)
                         /\ nodes[s] = Final(file, s) /\ Reached(file, s, 12)
                    /\ \A s \in DOMAIN processes \ ({fr.scope} \cup fr.subprocesses) :
                         processes'[s] = processes[s]
      BY <1>0, <1>3, <2>2, <3>1, LeaveProcess
    <3>3. ASSUME NEW p \in DOMAIN processes' PROVE PortsMatch(p, processes'[p])
      <4>1. CASE p \in {fr.scope} \cup fr.subprocesses
        BY <3>1, <3>2, <4>1, DefinitionMatches
      <4>2. CASE p \notin {fr.scope} \cup fr.subprocesses
        BY <1>0, <3>2, <4>2 DEF PortsMatchFlows
      <4> QED
        BY <4>1, <4>2
    <3> QED
      BY <3>3 DEF PortsMatchFlows, PortsMatch, SequenceFlows, Boundaries, Ids
  <2> QED
    BY <2>1, <2>2
<1>4. CASE Parse /\ ~Leave
  BY <1>2, <1>4 DEF Parse, BeginProcess, Extract, Fail, GiveUp, ExtractSubprocess,
     ExtractBoundaryEvents, WireFlows, FlowToNowhere, Finish
<1>5. CASE Validate
  BY <1>2, <1>5 DEF Validate
<1>6. CASE Reset
  BY <1>6 DEF Reset, Clear, PortsMatchFlows, Empty
<1>7. ASSUME NEW f \in Files, Load(f) PROVE PortsMatchFlows'
  BY <1>2, <1>7 DEF Load
<1>8. CASE UNCHANGED parserVars
  BY <1>2, <1>8 DEF parserVars
<1> QED
  BY <1>3, <1>4, <1>5, <1>6, <1>7, <1>8 DEF ParserNext

\* The invariant of the parser, for all files that are trees of elements with an id
\* each: what is parsed is part of the file, and as much as the phase says.
THEOREM ParserInductive == ParserSpec => []ParserInv
<1>1. ParserInit => ParserInv
  BY DEF ParserInit, ParserInv, Parsing, AtRest, Complete, Listed, Checked,
     Idle, Loaded, Empty, PortsMatchFlows
<1>2. ParserInv /\ [ParserNext]_parserVars => ParserInv'
  BY NextParsing, NextAtRest, NextComplete, NextListed, NextChecked, NextPorts DEF ParserInv
<1> QED
  BY <1>1, <1>2, PTL DEF ParserSpec

\* Whatever has failed before, a model that is READY is the file it was loaded from
\* (Parser.cpp:43), each scope with its subprocesses at every depth.
THEOREM ModelIsTheFileHolds == ParserSpec => []ModelIsTheFile
<1>1. ParserInv => ModelIsTheFile
  <2> SUFFICES ASSUME Complete, Loaded, NEW p \in Scopes(url)
               PROVE  /\ p \in DOMAIN processes /\ processes[p].file = url
                      /\ \A s \in Ids(Subprocesses(url)) :
                           Within(url, s, p) <=> s \in processes[p].nodes
    BY DEF ParserInv, ModelIsTheFile, Complete
  <2>1. url \in Files /\ p \in DOMAIN processes
    BY DEF Complete, Stored
  <2>2. processes[p].file = url /\ processes[p].nodes = Final(url, p)
    BY DEF Complete, Stored
  <2>3. \A s \in Ids(Subprocesses(url)) : s \in Final(url, p) => s \in Inside(url, p)
    BY <2>1, FinalSubprocesses DEF Ids
  <2> QED
    BY <2>1, <2>2, <2>3 DEF Final, Inside
<1> QED
  BY <1>1, ParserInductive, PTL

\* The ports and the boundary events of every process that the model has, also of
\* those that a failed load has left, are the ones that the flows and hosts of the
\* process's own file name (Parser.cpp:174), and no others.
THEOREM PortsMatchFlowsHolds == ParserSpec => []PortsMatchFlows
<1>1. ParserInv => PortsMatchFlows
  BY DEF ParserInv
<1> QED
  BY <1>1, ParserInductive, PTL

\* The subprocesses of all processes are processes of the model, and a model that is
\* valid has no task at any depth that a connector refuses (Process.cpp, validate).
THEOREM SubprocessesKnownHolds == ParserSpec => []SubprocessesKnown
<1>1. ParserInv => SubprocessesKnown
  BY DEF ParserInv, Listed, Checked, SubprocessesKnown
<1> QED
  BY <1>1, ParserInductive, PTL
-----------------------------------------------------------------------------
(* The choice of the flows to follow.                                      *)

USE BranchingAssumption

LEMMA InitInv == Init => BranchingInv
<1> SUFFICES ASSUME Init PROVE BranchingInv
  OBVIOUS
<1>1. TypeOK
  BY DEF Init, TypeOK, Flows, Holding, Failing
<1>2. Trying /\ Chosen /\ Recorded /\ Compared
  BY DEF Init, Trying, Chosen, Recorded, Compared, Busy, Evaluating, Tried, Taken
<1>3. Justified
  BY DEF Init, Justified, Busy, Evaluating, Tried, Taken
<1> QED
  BY <1>1, <1>2, <1>3 DEF BranchingInv

LEMMA ResolveType ==
  ASSUME TypeOK, NEW t \in Targets, expression[t] # None
  PROVE  Resolve(expression[t].rhs, db) \in Texts \cup {NoValue}
BY DEF TypeOK, Resolve

LEMMA FollowType ==
  ASSUME TypeOK, NEW t \in Targets, Follow(t)
  PROVE  /\ next' \in Targets \cup {NoTarget} /\ emitted' \subseteq Targets
         /\ pc' \in {"choosing", "done"}
BY DEF TypeOK, Follow

LEMMA NextType ==
  ASSUME BranchingInv, [Next]_vars
  PROVE  TypeOK'
<1> USE DEF TypeOK, model, choice, history
<1>0. TypeOK
  BY DEF BranchingInv
<1>1. CASE UNCHANGED vars
  BY <1>0, <1>1 DEF vars
<1>2. CASE TakeFlow
  <2>1. PICK t \in remaining : /\ remaining' = remaining \ {t} /\ current' = t
                               /\ \/ Follow(t)
                                  \/ pc' = "reading" /\ UNCHANGED <<next, emitted>>
    BY <1>2 DEF TakeFlow
  <2>2. UNCHANGED <<model, db, rhs, history>>
    BY <1>2 DEF TakeFlow
  <2>3. t \in Targets
    BY <1>0, <2>1
  <2>4. /\ next' \in Targets \cup {NoTarget} /\ emitted' \subseteq Targets
        /\ pc' \in {"choosing", "reading", "done"}
    BY <1>0, <2>1, <2>3, FollowType
  <2> QED
    BY <1>0, <2>1, <2>2, <2>3, <2>4
<1>3. CASE ReadRhs
  <2>1. current \in Targets /\ expression[current] # None
    BY <1>3 DEF BranchingInv, ReadRhs, Trying, Evaluating, Flows
  <2>2. rhs' \in Texts \cup {NoValue}
    BY <1>0, <1>3, <2>1, ResolveType DEF ReadRhs, Read
  <2> QED
    BY <1>0, <1>3, <2>2 DEF ReadRhs
<1>4. CASE ReadLhsAndCompare
  <2>1. current \in Targets
    BY <1>4 DEF BranchingInv, ReadLhsAndCompare, Trying, Evaluating, Flows
  <2> QED
    BY <1>0, <1>4, <2>1, FollowType DEF ReadLhsAndCompare
<1>5. CASE FollowDefault
  BY <1>0, <1>5 DEF FollowDefault
<1>6. CASE Write
  BY <1>0, <1>6 DEF Write, Holding, Failing, Flows
<1> QED
  BY <1>1, <1>2, <1>3, <1>4, <1>5, <1>6 DEF Next


LEMMA FollowTaken ==
  ASSUME TypeOK, NEW t \in Targets, Follow(t)
  PROVE  /\ Taken' = Taken \cup {t} /\ next' # NoTarget
         /\ pc' = IF kind = "exclusive" THEN "done" ELSE "choosing"
<1>1. t # NoTarget
  OBVIOUS
<1>2. CASE next = NoTarget
  BY <1>1, <1>2 DEF Follow, Taken
<1>3. CASE next # NoTarget
  BY <1>1, <1>3 DEF Follow, Taken
<1> QED
  BY <1>2, <1>3 DEF Follow

\* Which flows have been tried when the next one is, or when one is followed.
LEMMA TryingStep ==
  ASSUME BranchingInv, [Next]_vars
  PROVE  Trying'
<1> USE DEF Trying, Busy, Evaluating, Tried, model, Flows
<1>0. TypeOK /\ Trying
  BY DEF BranchingInv
<1>1. CASE UNCHANGED vars
  BY <1>0, <1>1 DEF vars, choice, Taken
<1>2. CASE TakeFlow
  <2>1. PICK t \in remaining : /\ remaining' = remaining \ {t} /\ current' = t
                               /\ IF expression[t] = None THEN Follow(t)
                                  ELSE pc' = "reading" /\ UNCHANGED <<next, emitted>>
    BY <1>2 DEF TakeFlow
  <2>2. t \in Flows /\ pc = "choosing" /\ UNCHANGED model
    BY <1>0, <1>2, <2>1 DEF TakeFlow
  <2>3. CASE expression[t] = None
    <3>1. /\ Taken' = Taken \cup {t} /\ next' # NoTarget
          /\ pc' = IF kind = "exclusive" THEN "done" ELSE "choosing"
      BY <1>0, <2>1, <2>2, <2>3, FollowTaken
    <3> QED
      BY <1>0, <2>1, <2>2, <3>1
  <2>4. CASE expression[t] # None
    <3>1. Taken' = Taken /\ pc' = "reading" /\ UNCHANGED <<next, emitted>>
      BY <2>1, <2>4 DEF Taken
    <3> QED
      BY <1>0, <2>1, <2>2, <2>4, <3>1
  <2> QED
    BY <2>3, <2>4
<1>3. CASE ReadRhs
  BY <1>0, <1>3 DEF ReadRhs, Taken
<1>4. CASE ReadLhsAndCompare
  <2>1. /\ current \in Flows \ remaining /\ expression[current] # None
        /\ pc = "comparing" /\ UNCHANGED <<model, remaining, current>>
    BY <1>0, <1>4 DEF ReadLhsAndCompare
  <2>2. CASE Follow(current)
    <3>1. /\ Taken' = Taken \cup {current} /\ next' # NoTarget
          /\ pc' = IF kind = "exclusive" THEN "done" ELSE "choosing"
      BY <1>0, <2>1, <2>2, FollowTaken
    <3> QED
      BY <1>0, <2>1, <3>1
  <2>3. CASE pc' \in {"choosing", "failed"} /\ UNCHANGED <<next, emitted>>
    BY <1>0, <2>1, <2>3 DEF Taken
  <2> QED
    BY <1>4, <2>2, <2>3 DEF ReadLhsAndCompare
<1>5. CASE FollowDefault
  BY <1>5 DEF FollowDefault
<1>6. CASE Write
  BY <1>0, <1>6 DEF Write, choice, Taken
<1> QED
  BY <1>1, <1>2, <1>3, <1>4, <1>5, <1>6 DEF Next

\* The choice is over when an exclusive gateway follows a flow, or when all
\* flows have been tried.
LEMMA ChosenStep ==
  ASSUME BranchingInv, [Next]_vars
  PROVE  Chosen'
<1> USE DEF Chosen, model, Flows
<1>0. TypeOK /\ Trying /\ Chosen
  BY DEF BranchingInv
<1>1. CASE UNCHANGED vars
  BY <1>0, <1>1 DEF vars, choice, Taken
<1>2. ASSUME NEW t \in Flows, Follow(t), UNCHANGED model, pc \in {"choosing", "comparing"}
      PROVE  Chosen'
  <2>1. /\ Taken' = Taken \cup {t}
        /\ pc' = IF kind = "exclusive" THEN "done" ELSE "choosing"
    BY <1>0, <1>2, FollowTaken
  <2>2. kind = "exclusive" => Taken = {}
    BY <1>0, <1>2 DEF Trying, Busy, Evaluating, Taken
  <2> QED
    BY <1>2, <2>1, <2>2
<1>3. CASE TakeFlow
  <2>1. PICK t \in remaining : Follow(t) \/ pc' = "reading"
    BY <1>3 DEF TakeFlow
  <2>2. t \in Flows /\ pc = "choosing" /\ UNCHANGED model
    BY <1>0, <1>3, <2>1 DEF TakeFlow, Trying, Busy
  <2> QED
    BY <1>2, <2>1, <2>2
<1>4. CASE ReadRhs
  BY <1>4 DEF ReadRhs
<1>5. CASE ReadLhsAndCompare
  <2>1. current \in Flows /\ pc = "comparing" /\ UNCHANGED model
    BY <1>0, <1>5 DEF ReadLhsAndCompare, Trying, Evaluating
  <2>2. Follow(current) \/ pc' \in {"choosing", "failed"}
    BY <1>5 DEF ReadLhsAndCompare
  <2> QED
    BY <1>2, <2>1, <2>2
<1>6. CASE FollowDefault
  <2>1. /\ pc = "choosing" /\ remaining = {} /\ UNCHANGED <<model, emitted>>
        /\ next' = IF next = NoTarget THEN default ELSE next
    BY <1>6 DEF FollowDefault
  <2>2. /\ Tried = Flows /\ Taken \subseteq Flows
        /\ \A t \in Flows : expression[t] = None => t \in Taken
    BY <1>0, <2>1 DEF Trying, Busy, Tried, Evaluating
  <2>3. CASE next = NoTarget
    <3>1. Taken = {} /\ emitted = {}
      BY <1>0, <2>1, <2>3 DEF Trying, Busy, Taken
    <3>2. Taken' = Targets \cap {default}
      BY <1>0, <2>1, <2>3, <3>1 DEF Taken, TypeOK
    <3> QED
      BY <2>1, <2>2, <3>1, <3>2
  <2>4. CASE next # NoTarget
    <3>1. Taken' = Taken /\ Taken # {} /\ kind # "exclusive"
      BY <1>0, <2>1, <2>4 DEF Taken, Trying, Busy
    <3> QED
      BY <2>1, <2>2, <3>1
  <2> QED
    BY <2>3, <2>4
<1>7. CASE Write
  BY <1>7 DEF Write, choice
<1> QED
  BY <1>1, <1>3, <1>4, <1>5, <1>6, <1>7 DEF Next

LEMMA Unwritten ==
  ASSUME BranchingInv, [Next]_vars
  PROVE  \/ db' = db /\ written' = written /\ wasTrue' = wasTrue /\ wasFalse' = wasFalse
         \/ Write
BY DEF Next, TakeFlow, ReadRhs, ReadLhsAndCompare, FollowDefault, vars, history

LEMMA SameModel ==
  ASSUME [Next]_vars
  PROVE  UNCHANGED model
BY DEF Next, TakeFlow, ReadRhs, ReadLhsAndCompare, FollowDefault, Write, vars, model

\* What holds, or does not, in the present data store is recorded.
LEMMA RecordedStep ==
  ASSUME BranchingInv, [Next]_vars
  PROVE  Recorded'
<1>1. UNCHANGED model
  BY SameModel
<1>2. Holding(db)' = Holding(db') /\ Failing(db)' = Failing(db')
  BY <1>1 DEF Holding, Failing, ValueIn, Flows, model
<1>3. CASE Write
  BY <1>2, <1>3 DEF Write, Recorded
<1>4. CASE db' = db /\ wasTrue' = wasTrue /\ wasFalse' = wasFalse
  BY <1>2, <1>4 DEF BranchingInv, Recorded
<1> QED
  BY <1>3, <1>4, Unwritten

\* The two reads of a comparison.
LEMMA ComparedStep ==
  ASSUME BranchingInv, [Next]_vars
  PROVE  Compared'
<1> USE DEF Compared, model
<1>0. TypeOK /\ Trying /\ Recorded /\ Compared /\ UNCHANGED model
  BY SameModel DEF BranchingInv
<1>1. CASE UNCHANGED vars
  BY <1>0, <1>1 DEF vars, choice, history
<1>2. CASE ReadRhs
  <2>1. /\ current' = current /\ db' = db /\ written' = written
        /\ wasTrue' = wasTrue /\ wasFalse' = wasFalse
        /\ rhs' = Resolve(expression[current].rhs, db)
    BY <1>2 DEF ReadRhs, Read, history
  <2>2. current \in Flows /\ expression[current] # None
    BY <1>0, <1>2 DEF ReadRhs, Trying, Evaluating
  <2>3. Result(expression[current], db[expression[current].lhs], rhs') = ValueIn(current, db)
    BY <2>1, <2>2 DEF ValueIn
  <2> QED
    BY <1>0, <2>1, <2>2, <2>3 DEF Recorded, Holding, Failing
<1>3. CASE Write
  <2>1. PICK k \in Keys, v \in Texts : /\ db' = [db EXCEPT ![k] = v]
                                       /\ written' = written \cup {k}
    BY <1>3 DEF Write
  <2>2. /\ pc' = pc /\ current' = current /\ rhs' = rhs
        /\ wasTrue \subseteq wasTrue' /\ wasFalse \subseteq wasFalse'
    BY <1>3 DEF Write, choice
  <2> SUFFICES ASSUME pc = "comparing" PROVE Compared'
    BY <2>2
  <2> DEFINE e == expression[current]
  <2>3. e \in Expressions \ {None}
    BY <1>0 DEF Trying, Evaluating, TypeOK, Flows
  <2>4. e.lhs \in Keys /\ e.rhs \in Keys \cup Texts
    BY <2>3
  <2>5. e.rhs \notin written' => Resolve(e.rhs, db') = Resolve(e.rhs, db)
    BY <2>1, <2>4 DEF Resolve, TypeOK
  <2>6. e.lhs \notin written' => db'[e.lhs] = db[e.lhs]
    BY <2>1, <2>4 DEF TypeOK
  <2> HIDE DEF e
  <2>7. /\ e.rhs \notin written => rhs = Resolve(e.rhs, db)
        /\ e.lhs \notin written =>
             /\ Result(e, db[e.lhs], rhs) = "true" => current \in wasTrue
             /\ Result(e, db[e.lhs], rhs) = "false" => current \in wasFalse
    BY <1>0 DEF e
  <2>8. /\ e.rhs \notin written' => rhs' = Resolve(e.rhs, db')
        /\ e.lhs \notin written' =>
             /\ Result(e, db'[e.lhs], rhs') = "true" => current' \in wasTrue'
             /\ Result(e, db'[e.lhs], rhs') = "false" => current' \in wasFalse'
    BY <2>1, <2>2, <2>5, <2>6, <2>7
  <2>9. expression'[current'] = e
    BY <1>0, <2>2 DEF e
  <2> QED
    BY <2>8, <2>9
<1>4. CASE TakeFlow \/ ReadLhsAndCompare \/ FollowDefault
  <2>1. pc' # "comparing"
    BY <1>4 DEF TakeFlow, ReadLhsAndCompare, FollowDefault, Follow
  <2> QED
    BY <2>1
<1> QED
  BY <1>1, <1>2, <1>3, <1>4 DEF Next

\* A comparison, after at most one key was written, is one that was so.
LEMMA ComparisonWasSo ==
  ASSUME BranchingInv, OneKey, pc = "comparing"
  PROVE  LET r == Result(expression[current], db[expression[current].lhs], rhs)
         IN /\ r = "true" => current \in wasTrue
            /\ r = "false" => current \in wasFalse
<1> DEFINE e == expression[current]
<1>1. /\ current \in Flows /\ e \in Expressions \ {None}
  BY DEF BranchingInv, Trying, Evaluating, TypeOK, Flows
<1>2. e.lhs # e.rhs
  BY <1>1
<1>3. CASE e.lhs \notin written
  BY <1>3 DEF BranchingInv, Compared
<1>4. CASE e.rhs \notin written
  <2>1. rhs = Resolve(e.rhs, db)
    BY <1>4 DEF BranchingInv, Compared
  <2>2. ValueIn(current, db) = Result(e, db[e.lhs], rhs)
    BY <1>1, <2>1 DEF ValueIn
  <2> QED
    BY <1>1, <2>2 DEF BranchingInv, Recorded, Holding, Failing
<1> QED
  BY <1>2, <1>3, <1>4 DEF OneKey

\* What is followed was true, and what is not was false.
LEMMA JustifiedStep ==
  ASSUME BranchingInv, [Next]_vars
  PROVE  Justified'
<1> USE DEF Justified, model, Flows
<1>0. TypeOK /\ Trying /\ Justified /\ UNCHANGED model
  BY SameModel DEF BranchingInv
<1>1. CASE UNCHANGED vars
  BY <1>0, <1>1 DEF vars, choice, history, Busy, Evaluating, Tried, Taken, OneKey
<1> SUFFICES ASSUME OneKey', ~UNCHANGED vars PROVE Justified'
  BY <1>1
<1>2. OneKey
  BY Unwritten DEF OneKey, Write
<1>3. ASSUME NEW t \in Flows, t \in wasTrue, Follow(t), pc \in {"choosing", "comparing"},
             written' = written, wasTrue' = wasTrue, wasFalse' = wasFalse,
             Tried' \subseteq Tried \cup {t}
      PROVE  Justified'
  <2>1. /\ Taken' = Taken \cup {t}
        /\ pc' = IF kind = "exclusive" THEN "done" ELSE "choosing"
    BY <1>0, <1>3, FollowTaken
  <2>2. Busy /\ default \notin Taken
    BY <1>0, <1>3 DEF Trying, Busy, Evaluating, Tried
  <2> QED
    BY <1>0, <1>2, <1>3, <2>1, <2>2 DEF Busy, Evaluating
<1>4. CASE TakeFlow
  <2>1. PICK t \in remaining : /\ remaining' = remaining \ {t} /\ current' = t
                               /\ IF expression[t] = None THEN Follow(t)
                                  ELSE pc' = "reading" /\ UNCHANGED <<next, emitted>>
    BY <1>4 DEF TakeFlow
  <2>2. t \in Flows /\ pc = "choosing" /\ UNCHANGED history
    BY <1>0, <1>4, <2>1 DEF TakeFlow, Trying, Busy
  <2>3. CASE expression[t] = None
    <3>1. t \in wasTrue
      BY <2>2, <2>3 DEF BranchingInv, Recorded, Holding, ValueIn
    <3>2. Tried' \subseteq Tried \cup {t}
      BY <1>0, <2>1, <2>2 DEF Tried, Evaluating
    <3> QED
      BY <1>3, <2>1, <2>2, <2>3, <3>1, <3>2 DEF history
  <2>4. CASE expression[t] # None
    <3>1. Taken' = Taken /\ pc' = "reading" /\ Tried' = Tried
      BY <1>0, <2>1, <2>2, <2>4 DEF Taken, Tried, Evaluating
    <3>2. default \notin Taken
      BY <1>0, <2>2 DEF Trying, Busy, Tried
    <3> QED
      BY <1>0, <1>2, <2>2, <3>1, <3>2 DEF history, Busy, Evaluating
  <2> QED
    BY <2>3, <2>4
<1>5. CASE ReadRhs
  BY <1>0, <1>2, <1>5 DEF ReadRhs, Trying, Busy, Evaluating, Tried, Taken, history
<1>6. CASE ReadLhsAndCompare
  <2>1. /\ current \in Flows \ remaining /\ pc = "comparing"
        /\ UNCHANGED <<remaining, current, history>>
    BY <1>0, <1>6 DEF ReadLhsAndCompare, Trying, Evaluating
  <2> DEFINE r == Result(expression[current], db[expression[current].lhs], rhs)
  <2>2. (r = "true" => current \in wasTrue) /\ (r = "false" => current \in wasFalse)
    BY <1>2, <2>1, ComparisonWasSo
  <2>3. \/ r = "true" /\ Follow(current)
        \/ r = "false" /\ pc' = "choosing" /\ UNCHANGED <<next, emitted>>
        \/ pc' = "failed" /\ UNCHANGED <<next, emitted>>
    BY <1>6 DEF ReadLhsAndCompare
  <2> HIDE DEF r
  <2>4. Tried' \subseteq Tried \cup {current}
    BY <1>0, <2>1 DEF Tried, Evaluating
  <2>5. CASE r = "true" /\ Follow(current)
    BY <1>3, <2>1, <2>2, <2>4, <2>5 DEF history
  <2>6. CASE /\ (r = "false" /\ pc' = "choosing") \/ pc' = "failed"
             /\ UNCHANGED <<next, emitted>>
    <3>1. Taken' = Taken
      BY <2>6 DEF Taken
    <3>2. default \notin Taken
      BY <1>0, <2>1 DEF Trying, Busy, Evaluating, Tried
    <3>3. pc' = "choosing" => current \in wasFalse
      BY <2>2, <2>6
    <3> QED
      BY <1>0, <1>2, <2>1, <2>4, <2>6, <3>1, <3>2, <3>3 DEF history, Busy, Evaluating
  <2> QED
    BY <2>3, <2>5, <2>6
<1>7. CASE FollowDefault
  <2>1. /\ pc = "choosing" /\ remaining = {} /\ emitted' = emitted /\ pc' = "done"
        /\ UNCHANGED <<written, wasTrue, wasFalse>>
        /\ next' = IF next = NoTarget THEN default ELSE next
    BY <1>7 DEF FollowDefault, history
  <2>2. /\ Tried = Flows /\ Taken \subseteq Flows /\ Busy
    BY <1>0, <2>1 DEF Trying, Busy, Tried, Evaluating
  <2>3. Taken \subseteq wasTrue /\ Flows \ Taken \subseteq wasFalse
    BY <1>0, <1>2, <2>2
  <2>4. CASE next = NoTarget
    <3>1. Taken = {} /\ emitted = {}
      BY <1>0, <2>1, <2>4 DEF Trying, Busy, Taken
    <3>2. Taken' = {default} \ {NoTarget}
      BY <2>1, <2>4, <3>1 DEF Taken
    <3> QED
      BY <1>0, <2>1, <2>3, <3>1, <3>2 DEF Busy, Evaluating
  <2>5. CASE next # NoTarget
    <3>1. Taken' = Taken /\ default \notin Taken
      BY <2>1, <2>2, <2>5 DEF Taken
    <3> QED
      BY <1>0, <2>1, <2>3, <3>1 DEF Busy, Evaluating
  <2> QED
    BY <2>4, <2>5
<1>8. CASE Write
  <2>1. /\ pc' = pc /\ Taken' = Taken /\ Tried' = Tried
        /\ wasTrue \subseteq wasTrue' /\ wasFalse \subseteq wasFalse'
    BY <1>0, <1>8 DEF Write, choice, Taken, Tried, Evaluating
  <2> QED
    BY <1>0, <1>2, <2>1 DEF Busy, Evaluating
<1> QED
  BY <1>4, <1>5, <1>6, <1>7, <1>8 DEF Next

\* The invariant holds in every reachable state.
THEOREM Inductive == Spec => []BranchingInv
<1>1. BranchingInv /\ [Next]_vars => BranchingInv'
  BY NextType, TryingStep, ChosenStep, RecordedStep, ComparedStep, JustifiedStep
     DEF BranchingInv
<1> QED
  BY <1>1, InitInv, PTL DEF Spec

\* The ways to choose (token.cpp, followOutputPorts()) are those of Workflow.
LEMMA AbstractChoice ==
  ASSUME TypeOK, Chosen, pc = "done"
  PROVE  {Flow(t) : t \in Taken} \in Abstract!Followed(Gate)
<1> DEFINE Out == {Flow(t) : t \in Targets}
           Def == {Flow(t) : t \in Targets \cap {default}}
           Con == {Flow(t) : t \in {u \in Targets : expression[u] # None}}
           Exc == IF kind = "exclusive" THEN {Gate} ELSE {}
           Choices == {T \in SUBSET (Out \ Def) : Out \ (Def \cup Con) \subseteq T}
           Option(T) == IF T = {} THEN {Out \cap Def}
                        ELSE IF Gate \in Exc THEN {{e} : e \in T}
                        ELSE {T}
<1>1. Abstract!OutputPorts(Gate) = Out
  BY DEF Abstract!OutputPorts, Flow
<1>2. Abstract!TrueFlows(Gate) = Choices
  BY <1>1 DEF Abstract!TrueFlows
<1>3. Abstract!Followed(Gate) = UNION {Option(T) : T \in Choices}
  BY <1>1, <1>2 DEF Abstract!Followed
<1>4. \A t, u \in Targets : Flow(t) = Flow(u) => t = u
  BY DEF Flow
<1>5. Out \ Def = {Flow(t) : t \in Flows}
  BY <1>4 DEF Flows
<1>6. Out \ (Def \cup Con) = {Flow(t) : t \in {u \in Flows : expression[u] = None}}
  BY <1>4 DEF Flows
<1> SUFFICES \E T \in Choices : {Flow(t) : t \in Taken} \in Option(T)
  BY <1>3
<1>7. CASE Taken = Targets \cap {default} /\ (\A t \in Flows : expression[t] # None)
  <2>1. {} \in Choices
    BY <1>6, <1>7
  <2>2. {Flow(t) : t \in Taken} = Out \cap Def
    BY <1>7
  <2> QED
    BY <2>1, <2>2
<1>8. CASE kind = "exclusive" /\ \E t \in Flows : Taken = {t}
  <2>1. Out \ Def \in Choices
    OBVIOUS
  <2>2. PICK t \in Flows : Taken = {t}
    BY <1>8
  <2>3. Flow(t) \in Out \ Def /\ {Flow(u) : u \in Taken} = {Flow(t)}
    BY <1>5, <2>2
  <2>4. {Flow(u) : u \in Taken} \in Option(Out \ Def)
    BY <1>8, <2>3
  <2> QED
    BY <2>1, <2>4
<1>9. CASE /\ kind # "exclusive" /\ Taken \subseteq Flows /\ Taken # {}
           /\ \A t \in Flows : expression[t] = None => t \in Taken
  <2> DEFINE T == {Flow(t) : t \in Taken}
  <2>1. T \subseteq Out \ Def
    BY <1>5, <1>9
  <2>2. Out \ (Def \cup Con) \subseteq T
    BY <1>6, <1>9
  <2>3. T \in Choices
    BY <2>1, <2>2
  <2>4. T \in Option(T)
    BY <1>9
  <2> QED
    BY <2>3, <2>4
<1> QED
  BY <1>7, <1>8, <1>9 DEF Chosen

\* With whatever expressions and data, a token leaves a node as Overwatch lets it.
THEOREM ChoiceIsAbstractHolds == Spec => []ChoiceIsAbstract
<1>1. BranchingInv => ChoiceIsAbstract
  BY AbstractChoice DEF BranchingInv, ChoiceIsAbstract
<1> QED
  BY <1>1, Inductive, PTL

\* The reads of evaluateExpression() (SequenceFlow.cpp) show what was so, after a
\* write to at most one key.
THEOREM FollowedWasTrueHolds == Spec => []FollowedWasTrue
<1>1. BranchingInv => FollowedWasTrue
  BY DEF BranchingInv, Justified, FollowedWasTrue
<1> QED
  BY <1>1, Inductive, PTL
=============================================================================
