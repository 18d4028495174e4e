-------------------------- MODULE MCBoundaryEvents --------------------------
(***************************************************************************)
(* An activity, executed by two tokens, with a timer that interrupts it    *)
(* and a signal that does not.                                             *)
(***************************************************************************)
EXTENDS BoundaryEvents, TLC

CONSTANTS h1, h2, t, s1
=============================================================================
