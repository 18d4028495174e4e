------------------------------ MODULE MCEvents ------------------------------
(***************************************************************************)
(* One event, known to two catch events, of which one is resumed, an       *)
(* activity, a throw event and a call of emitSignal; and a timer.          *)
(***************************************************************************)
EXTENDS Events, TLC

CONSTANTS e, c1, c2, c3, h, t1, o

AllListen == [s \in Slots |-> e]
AllThrow == [t \in Callers |-> e]
=============================================================================
