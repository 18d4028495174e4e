---------------------------- MODULE MCBranching ----------------------------
(***************************************************************************)
(* Three flows; no condition, a comparison with a number, one of two keys, *)
(* an operator that is not supported and a type that is not known.         *)
(***************************************************************************)
EXTENDS Branching, TLC

CONSTANTS t1, t2, t3, k1, k2

SomeExpressions ==
  {None,
   [type |-> "int", operator |-> "<", lhs |-> k1, rhs |-> 2],
   [type |-> "string", operator |-> "==", lhs |-> k1, rhs |-> k2],
   [type |-> "int", operator |-> "!=", lhs |-> k2, rhs |-> k1],
   [type |-> "int", operator |-> "unsupported", lhs |-> k2, rhs |-> 1],
   [type |-> "other", operator |-> "==", lhs |-> k2, rhs |-> 1]}

TargetSymmetry == Permutations(Targets)
=============================================================================
