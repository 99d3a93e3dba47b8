------------------------------ MODULE MCStatusLog -------------------------------
(* StatusLog for TLC: nothing tells connections apart.                         *)
EXTENDS StatusLog, TLC

ConnSymmetry == Permutations(Conns)
===============================================================================
