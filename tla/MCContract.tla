------------------------------ MODULE MCContract ------------------------------
(* Three ContractState and three XEF slots.  Counters sit on both sides of *)
(* the uint16 bound, and one id is negative like a native contract's.     *)
EXTENDS Contract, TLC

CONSTANTS c1, c2, c3, x1, x2, x3, sA, sB, h1, h2

MCStateIds == {c1, c2, c3}
MCXefIds == {x1, x2, x3}
MCIds == {-1, 7}

MCSymmetry == Permutations(MCStateIds) \cup Permutations(MCXefIds)
=============================================================================
