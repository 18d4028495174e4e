------------------------------ MODULE MCMission ------------------------------
(***************************************************************************)
(* Instances of Mission for TLC.                                           *)
(***************************************************************************)
EXTENDS Mission, TLC

CONSTANTS c1, c2
=============================================================================
