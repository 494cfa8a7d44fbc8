------------------------------ MODULE MCMessage ------------------------------
(* Message envelope instantiated for TLC: two message objects, payloads *)
(* on both sides of the compression boundary, and two crafted frames.     *)
EXTENDS Message, TLC

CONSTANTS pEmpty, p128, pZip, pRand, pMax, pHuge, pGarbage, o1, o2

MCObjs == {o1, o2}
MCPayloads == {pEmpty, p128, pZip, pRand, pMax}
MCPeerPayloads == {pHuge}

(* Byte lengths: p128 sits on COMPRESSION_MIN_SIZE; pZip compresses by   *)
(* more than COMPRESSION_THRESHOLD, pRand does not; pMax is exactly       *)
(* PAYLOAD_MAX_SIZE and incompressible (its LZ4 block is longer), so it  *)
(* is sent raw and the receiver's size test meets a body of exactly the  *)
(* bound; pHuge is an LZ4 bomb of 2^30 bytes.                            *)
MCPLen ==
  (pEmpty :> 0) @@ (p128 :> 128) @@ (pZip :> 200) @@ (pRand :> 200)
  @@ (pMax :> PAYLOAD_MAX_SIZE) @@ (pHuge :> 2^30) @@ (pGarbage :> 50)

MCLz4Len ==
  (pEmpty :> 1) @@ (p128 :> 30) @@ (pZip :> 60) @@ (pRand :> 190)
  @@ (pMax :> PAYLOAD_MAX_SIZE + PAYLOAD_MAX_SIZE \div 255 + 16) @@ (pHuge :> 9000) @@ (pGarbage :> 51)

(* A type byte the MessageType enum does not have. *)
UNASSIGNED == \h02

MCWireTypes == {BLOCK, GETADDR, UNASSIGNED}
MCSendTypes == {BLOCK, GETADDR}

(* An LZ4 bomb declaring its own size (any u32 at least that large     *)
(* decodes alike; TLC integers stop at 2^31), and a frame of a          *)
(* newer protocol version with an unassigned type byte.                  *)
MCPeerFrames ==
  { [config |-> COMPRESSED, type |-> BLOCK, body |-> Lz4Body(pHuge, 2^30)],
    [config |-> NONE, type |-> UNASSIGNED, body |-> RawBody(pZip)] }
=============================================================================
