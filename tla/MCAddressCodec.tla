---------------------------- MODULE MCAddressCodec ----------------------------
(* Two node addresses: one lists its TcpServer capability first, one     *)
(* after a FullNode capability.                                           *)
(* Peer frames: a count beyond the entries, an entry cut after its        *)
(* timestamp, and an entry with too many capabilities.                   *)
EXTENDS AddressCodec, TLC

CONSTANTS a1, a2

Tcp(p) == [type |-> "TcpServer", port |-> p]
FullNode == [type |-> "FullNode", port |-> 0]

MCInitAddrs ==
  (a1 :> [host |-> "10.0.0.1", port |-> 20333, caps |-> <<Tcp(20333), FullNode>>, timestamp |-> 1]) @@
  (a2 :> [host |-> "10.0.0.2", port |-> 10333, caps |-> <<FullNode, Tcp(10333)>>, timestamp |-> 1])

Rec(host, caps, ts) ==
  [ts |-> ts, ip |-> host, ncaps |-> Len(caps), caps |-> caps, cut |-> FALSE]

MCPeerFrames ==
  {[count |-> 2, recs |-> <<Rec("10.0.0.9", <<Tcp(30333)>>, 2)>>],
   [count |-> 2^30, recs |-> <<Rec("10.0.0.9", << >>, 2)>>],
   [count |-> 2, recs |-> <<Rec("10.0.0.9", << >>, 2),
                           [Rec("10.0.0.8", << >>, 2) EXCEPT !.cut = TRUE]>>],
   [count |-> 1, recs |-> <<[Rec("10.0.0.8", << >>, 2) EXCEPT !.ncaps = 33]>>]}
=============================================================================
