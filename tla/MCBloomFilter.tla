---------------------------- MODULE MCBloomFilter ----------------------------
(* Three elements, k = 2.  The hash values exceed m, so the modulus      *)
(* matters: a filter of 5 bits, padded to a byte on the wire, is only    *)
(* right if the peer truncates the byte back to m.                       *)
EXTENDS BloomFilter, TLC

CONSTANTS e1, e2, e3

MCElements == {e1, e2, e3}

MCHash ==
  (e1 :> (0 :> 3 @@ 1 :> 9)) @@
  (e2 :> (0 :> 12 @@ 1 :> 6)) @@
  (e3 :> (0 :> 2 @@ 1 :> 7))
=============================================================================
