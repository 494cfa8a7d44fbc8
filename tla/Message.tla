------------------------------- MODULE Message -------------------------------
(***************************************************************************)
(* The P2P message envelope of src/epicchain/network/message.py.           *)
(*                                                                         *)
(* Message objects live in a small pool of object ids.  Serialize writes   *)
(* a frame (config byte, type byte, var_bytes body) to the wire, deciding  *)
(* on LZ4 compression and setting the COMPRESSED flag on the object        *)
(* itself; Deserialize reads a frame into a fresh object.  Any object can  *)
(* be serialized again, so a deserialized message can be relayed and a     *)
(* message can be sent to several peers.  Peers may also put crafted       *)
(* frames on the wire.                                                     *)
(*                                                                         *)
(* Payload bytes are abstracted to payload values with a byte length       *)
(* (PLen) and the length of their LZ4 block (Lz4Len).  A body is either    *)
(* the raw payload or [u32 size | lz4 block].                              *)
(***************************************************************************)
EXTENDS Integers, FiniteSets

CONSTANTS
  Objs,        \* ids of Message objects in memory
  Payloads,    \* payloads a node builds messages from
  PeerPayloads,\* payloads only found in crafted frames
  Garbage,     \* the payload parsed from bytes that were not what was sent
  PLen,        \* [Payloads \cup PeerPayloads \cup {Garbage} -> Nat]
  Lz4Len,      \* length of the LZ4 block of a payload
  WireTypes,   \* type bytes that occur on the wire (some not in the enum)
  SendTypes,   \* MessageType members a node builds messages with
  PeerFrames,  \* frames crafted by a remote peer
  NULL

AllPayloads == Payloads \cup PeerPayloads \cup {Garbage}

ASSUME Garbage \notin Payloads \cup PeerPayloads
ASSUME SendTypes \subseteq WireTypes

(* MessageType (lines 22-56): the type bytes the enum accepts. *)
VERSION == \h00
VERACK == \h01
GETADDR == \h10
ADDR == \h11
PING == \h18
PONG == \h19
GETHEADERS == \h20
HEADERS == \h21
GETBLOCKS == \h24
MEMPOOL == \h25
INV == \h27
GETDATA == \h28
GETBLOCKBYINDEX == \h29
NOTFOUND == \h2A
TRANSACTION == \h2B
BLOCK == \h2C
CONSENSUS == \h2D
EXTENSIBLE == \h2E
REJECT == \h2F
FILTERLOAD == \h30
FILTERADD == \h31
FILTERCLEAR == \h32
MERKLEBLOCK == \h38
ALERT == \h40
DEFAULT == \hFF

MessageType ==
  {VERSION, VERACK, GETADDR, ADDR, PING, PONG, GETHEADERS, HEADERS,
   GETBLOCKS, MEMPOOL, INV, GETDATA, GETBLOCKBYINDEX, NOTFOUND, TRANSACTION,
   BLOCK, CONSENSUS, EXTENSIBLE, REJECT, FILTERLOAD, FILTERADD, FILTERCLEAR,
   MERKLEBLOCK, ALERT, DEFAULT}

(* MessageConfig (lines 59-67). *)
NONE == 0
COMPRESSED == 1

(* Class constants of Message (lines 75-77). *)
PAYLOAD_MAX_SIZE == \h2000000
COMPRESSION_MIN_SIZE == 128
COMPRESSION_THRESHOLD == 64

(* The types _payload_from_data has a schema for (lines 160-179). *)
MappedTypes ==
  {INV, GETDATA, GETBLOCKBYINDEX, VERSION, VERACK, BLOCK, HEADERS,
   PING, PONG, ADDR, TRANSACTION, EXTENSIBLE}

(* The payload of a message built without one: EmptyPayload, length 0. *)
CONSTANT EmptyPayload
ASSUME EmptyPayload \in Payloads /\ PLen[EmptyPayload] = 0

Errors == {"type", "size", "decompress", "parse"}

RawBody(p) == [enc |-> "raw", p |-> p, size |-> 0]
Lz4Body(p, size) == [enc |-> "lz4", p |-> p, size |-> size]
BodyLen(b) == IF b.enc = "raw" THEN PLen[b.p] ELSE 4 + Lz4Len[b.p]

VARIABLES
  objs,     \* [Objs -> record of config, type, payload, or NULL]
  wire,     \* frames sent: [frame, sent (type and payload, or NULL), fresh]
  decoded   \* history: [rec, res] for every frame a node deserialized

vars == <<objs, wire, decoded>>

-----------------------------------------------------------------------------
(* The compression test of serialize (lines 114-120). *)
ShouldCompress(m) ==
  /\ PLen[m.p] > COMPRESSION_MIN_SIZE
  /\ m.config # COMPRESSED
  /\ 4 + Lz4Len[m.p] < PLen[m.p] - COMPRESSION_THRESHOLD

(* The body serialize writes: [u32 len(payload) | lz4 block] or raw. *)
SerializedBody(m) ==
  IF ShouldCompress(m) THEN Lz4Body(m.p, PLen[m.p]) ELSE RawBody(m.p)

(* Mutants of SerializedConfig: the or-ed flag dropped, or a wrong bit. *)
SerializedConfigNoFlag(m) == m.config
SerializedConfigBadFlag(m) == IF ShouldCompress(m) THEN 2 ELSE m.config

(* The config after serialize: COMPRESSED is or-ed into the object. *)
SerializedConfig(m) ==
  IF ShouldCompress(m) THEN COMPRESSED ELSE m.config

(* Message.__init__: payload is replaced by EmptyPayload when falsy. *)
NewMessage(o, t, p) ==
  /\ objs[o] = NULL
  /\ objs' = [objs EXCEPT ![o] = [config |-> NONE, type |-> t,
                                  p |-> IF PLen[p] = 0 THEN EmptyPayload
                                                       ELSE p]]
  /\ UNCHANGED <<wire, decoded>>

(* Message.serialize: mutates self.config, then writes the frame. *)
Serialize(o) ==
  LET m == objs[o]
      frame == [config |-> SerializedConfig(m), type |-> m.type,
                body |-> SerializedBody(m)]
  IN /\ m # NULL
     /\ objs' = [objs EXCEPT ![o].config = SerializedConfig(m)]
     /\ wire' = wire \cup {[frame |-> frame, sent |-> [type |-> m.type,
                                                       p |-> m.p],
                            fresh |-> m.config = NONE]}
     /\ UNCHANGED decoded

(* A remote peer puts a crafted frame on the wire. *)
PeerSend(f) ==
  /\ wire' = wire \cup {[frame |-> f, sent |-> NULL, fresh |-> FALSE]}
  /\ UNCHANGED <<objs, decoded>>

(* The bytes obtained from a non-empty body: the payload's own bytes (the *)
(* payload value), other bytes (Garbage), or an error.  lz4 decompress    *)
(* takes the declared size as an upper bound (lines 141-150); raw bytes   *)
(* read as an LZ4 block fail or yield other bytes.                        *)
Unpack(config, b) ==
  CASE config # COMPRESSED /\ b.enc = "raw" -> {b.p}
    [] config # COMPRESSED /\ b.enc = "lz4" -> {Garbage}
    [] b.enc = "lz4" -> IF PLen[b.p] <= b.size THEN {b.p} ELSE {"decompress"}
    [] OTHER -> {"decompress", Garbage}

(* _payload_from_data (lines 157-181): unmapped types give None, which   *)
(* deserialize replaces by EmptyPayload (lines 154-155).                 *)
PayloadFromData(t, data) ==
  CASE data \in Errors -> {data}
    [] t \notin MappedTypes -> {EmptyPayload}
    [] data = Garbage -> {"parse", Garbage}
    [] OTHER -> {data}

(* Message.deserialize (lines 128-155): every outcome of one frame. *)
DecodeResults(f) ==
  CASE f.type \notin MessageType -> {"type"}
    [] BodyLen(f.body) > PAYLOAD_MAX_SIZE -> {"size"}
    [] BodyLen(f.body) = 0 -> {EmptyPayload}
    [] OTHER -> UNION {PayloadFromData(f.type, d) : d \in Unpack(f.config, f.body)}

(* A node reads a frame from the wire; on success the message object,    *)
(* config byte included, may be kept in a free slot and relayed later.   *)
Deserialize(r) ==
  \E res \in DecodeResults(r.frame) :
    /\ decoded' = decoded \cup {[rec |-> r, res |-> res]}
    /\ \/ UNCHANGED objs
       \/ /\ res \notin Errors
          /\ \E o \in Objs :
               /\ objs[o] = NULL
               /\ objs' = [objs EXCEPT ![o] = [config |-> r.frame.config,
                                               type |-> r.frame.type,
                                               p |-> res]]
    /\ UNCHANGED wire

Init ==
  /\ objs = [o \in Objs |-> NULL]
  /\ wire = {}
  /\ decoded = {}

Next ==
  \/ \E o \in Objs, t \in SendTypes, p \in Payloads : NewMessage(o, t, p)
  \/ \E o \in Objs : Serialize(o)
  \/ \E f \in PeerFrames : PeerSend(f)
  \/ \E r \in wire : Deserialize(r)

Spec == Init /\ [][Next]_vars

-----------------------------------------------------------------------------
Frame == [config : {NONE, COMPRESSED}, type : WireTypes,
          body : [enc : {"raw"}, p : AllPayloads, size : {0}]
                 \cup [enc : {"lz4"}, p : AllPayloads, size : Nat]]

TypeOK ==
  /\ objs \in [Objs -> [config : {NONE, COMPRESSED}, type : WireTypes,
                        p : AllPayloads] \cup {NULL}]
  /\ \A r \in wire : r.frame \in Frame /\ r.fresh \in BOOLEAN
  /\ \A d \in decoded : d.res \in AllPayloads \cup Errors

(* What the receiver should obtain for a message of type t, payload p. *)
Expected(s) == IF s.type \in MappedTypes THEN s.p ELSE EmptyPayload

(* Round trip for a first serialization: a frame a node wrote from a     *)
(* message whose config was still NONE decodes, at any receiver, to the  *)
(* payload that was sent (EmptyPayload for a type without a schema).     *)
FreshRoundTrip ==
  \A d \in decoded :
    (d.rec.sent # NULL /\ d.rec.fresh) => d.res = Expected(d.rec.sent)

(* Round trip for every frame a node writes, spec section 8: also for a  *)
(* message serialized a second time (sent to a second peer) or relayed   *)
(* after it was deserialized.                                            *)
RoundTrip ==
  \A d \in decoded : d.rec.sent # NULL => d.res = Expected(d.rec.sent)

(* A payload is accepted only if it is at most PAYLOAD_MAX_SIZE bytes,   *)
(* after decompression too (spec section 3).                             *)
AcceptedPayloadBounded ==
  \A d \in decoded : d.res \notin Errors => PLen[d.res] <= PAYLOAD_MAX_SIZE

=============================================================================
