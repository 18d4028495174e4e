------------------------------ MODULE MCResume ------------------------------
(***************************************************************************)
(* A mission with three branches.                                          *)
(***************************************************************************)
EXTENDS Resume, TLC

CONSTANTS c1, c2, c3
=============================================================================
