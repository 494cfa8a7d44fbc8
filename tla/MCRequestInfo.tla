---------------------------- MODULE MCRequestInfo ----------------------------
(* RequestInfo for TLC: one height (heights share no state), three      *)
(* nodes, up to four flights per height (a first flight, a fan-out and   *)
(* two timeouts).                                                        *)
EXTENDS RequestInfo, TLC

CONSTANTS n1, n2, n3

MCNodes == {n1, n2, n3}
NodeSymmetry == Permutations(MCNodes)
=============================================================================
