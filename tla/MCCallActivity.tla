--------------------------- MODULE MCCallActivity ---------------------------
(***************************************************************************)
(* Two calls, of one process or of two.                                    *)
(***************************************************************************)
EXTENDS CallActivity, TLC

CONSTANTS c1, c2, p, q

OneOrTwo == {[c \in Calls |-> p], [c \in Calls |-> IF c = c1 THEN p ELSE q]}
=============================================================================
