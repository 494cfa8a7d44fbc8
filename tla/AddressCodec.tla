----------------------------- MODULE AddressCodec -----------------------------
(***************************************************************************)
(* NetworkAddress and AddrPayload of                                       *)
(* src/epicchain/network/payloads/address.py.                              *)
(*                                                                         *)
(* A node keeps NetworkAddress objects (addrs), changes their state and    *)
(* re-creates them with a fresh timestamp, and sends AddrPayloads of them. *)
(* Peers may also send crafted ADDR frames.  A receiving node decodes      *)
(* frames into its AddrPayload object rx: into a fresh object              *)
(* (deserialize_from, which drops the object on an exception) or into the  *)
(* object it holds (payload.deserialize(reader)).                          *)
(*                                                                         *)
(* An address is [host, port]: the "host:port" string.  The wire form of   *)
(* one NetworkAddress is a record [ts, ip, ncaps, caps, cut]: the u32      *)
(* timestamp, the 16-byte IPv4-mapped IP (whose last four bytes give the   *)
(* host back), the capability count and records, and whether the bytes    *)
(* end inside the record after the timestamp.  Capabilities are records   *)
(* [type, port]; ServerCapability (outside this repository) has the types  *)
(* TcpServer and WsServer.                                                 *)
(***************************************************************************)
EXTENDS Integers, Sequences, FiniteSets, SequencesExt

CONSTANTS
  Ids,               \* the node's NetworkAddress objects
  InitAddrs,         \* [Ids -> [host, port, timestamp, caps]]
  Times,             \* timestamps utcnow() returns
  PeerFrames,        \* crafted ADDR frames: [count, recs]
  MAX_CAPABILITIES,  \* version.VersionPayload.MAX_CAPABILITIES
  MaxRx,             \* bound on the length of the receiver's list
  MaxWire,           \* bound on the frames in transit
  NULL

ServerTypes == {"TcpServer", "WsServer"}

-----------------------------------------------------------------------------
(* AddressState (lines 15-36). *)
NEW_STATE == 0   \* AddressState.NEW (NEW is a TLA+ keyword)
CONNECTED == 1
POOR == 2
DEAD == 3
AddressState == {NEW_STATE, CONNECTED, POOR, DEAD}

VARIABLES
  addrs,   \* [Ids -> NetworkAddress]: the node's objects
  wire,    \* ADDR frames in transit: [count, recs, sent]
  rx,      \* the receiver's AddrPayload.addresses
  lastOk   \* whether the receiver's last decode returned

vars == <<addrs, wire, rx, lastOk>>

(* NetworkAddress.__init__ (lines 59-78) for a given timestamp. *)
NewNetworkAddress(host, port, caps, ts) ==
  [host |-> host, port |-> port, caps |-> caps, timestamp |-> ts, state |-> NEW_STATE]

(* __eq__ (lines 90-94) compares the address string only; __hash__       *)
(* (lines 105-106) hashes (address, timestamp).                          *)
Eq(a, b) == a.host = b.host /\ a.port = b.port
Hash(a) == <<a.host, a.port, a.timestamp>>

(* serialize (lines 176-186): timestamp, IP, capability list. *)
Encode(a) ==
  [ts |-> a.timestamp, ip |-> a.host, ncaps |-> Len(a.caps), caps |-> a.caps,
   cut |-> FALSE]

(* Mutant of PortOf: only the first capability is looked at. *)
PortOfFirstCap(caps) ==
  IF caps # << >> /\ caps[1].type \in ServerTypes THEN caps[1].port ELSE 0

(* Mutant of PortOf: port is not initialised to 0 before the loop. *)
PortOfNoDefault(caps) ==
  LET i == SelectLastInSeq(caps, LAMBDA c : c.type \in ServerTypes)
  IN IF i = 0 THEN NULL ELSE caps[i].port

(* The port deserialize rebuilds (lines 200-210): the port of the last   *)
(* ServerCapability, 0 without one.                                       *)
PortOf(caps) ==
  LET i == SelectLastInSeq(caps, LAMBDA c : c.type \in ServerTypes)
  IN IF i = 0 THEN 0 ELSE caps[i].port

(* deserialize of one record (lines 188-210): reading fails at the cut, *)
(* or at a capability count above MAX_CAPABILITIES.                      *)
RecOk(r) == ~r.cut /\ r.ncaps <= MAX_CAPABILITIES
Decode(r) == NewNetworkAddress(r.ip, PortOf(r.caps), r.caps, r.ts)

(* Mutant of DecodeAddrs: nawt appended before it is deserialized, so a *)
(* failing record leaves NetworkAddress("0.0.0.0:0") with its timestamp. *)
DecodeAddrsAppendFirst(f) ==
  LET bad == SelectInSeq(f.recs, LAMBDA r : ~RecOk(r))
      n == IF bad = 0 THEN Len(f.recs) ELSE bad - 1
      zero(r) == NewNetworkAddress("0.0.0.0", 0, << >>, r.ts)
  IN IF n >= f.count THEN [ok |-> TRUE, addrs |-> [j \in 1 .. f.count |-> Decode(f.recs[j])]]
     ELSE [ok |-> FALSE,
           addrs |-> [j \in 1 .. n |-> Decode(f.recs[j])]
                     \o (IF bad = 0 THEN << >> ELSE <<zero(f.recs[bad])>>)]

(* AddrPayload.deserialize (lines 240-250): read_var_int() without a     *)
(* maximum, then one fresh NetworkAddress per entry, appended once it is *)
(* read.  The first failing entry, or the end of the bytes before count  *)
(* entries, raises; the entries read before it stay appended.            *)
DecodeAddrs(f) ==
  LET bad == SelectInSeq(f.recs, LAMBDA r : ~RecOk(r))
      n == IF bad = 0 THEN Len(f.recs) ELSE bad - 1
  IN IF n >= f.count THEN [ok |-> TRUE, addrs |-> [j \in 1 .. f.count |-> Decode(f.recs[j])]]
     ELSE [ok |-> FALSE, addrs |-> [j \in 1 .. n |-> Decode(f.recs[j])]]

-----------------------------------------------------------------------------
(* The set_state_* methods (lines 131-174). *)
SetState(i, s) ==
  /\ addrs' = [addrs EXCEPT ![i].state = s]
  /\ UNCHANGED <<wire, rx, lastOk>>

(* The node builds a new NetworkAddress for the same endpoint: the       *)
(* timestamp defaults to utcnow() (lines 67-68).                         *)
Renew(i, t) ==
  /\ t > addrs[i].timestamp
  /\ addrs' = [addrs EXCEPT ![i] = NewNetworkAddress(@.host, @.port, @.caps, t)]
  /\ UNCHANGED <<wire, rx, lastOk>>

(* AddrPayload(addresses).serialize (lines 228-237). *)
Send(s) ==
  /\ Cardinality(wire) < MaxWire
  /\ wire' = wire \cup {[count |-> Len(s), recs |-> [j \in DOMAIN s |-> Encode(addrs[s[j]])],
                         sent |-> [j \in DOMAIN s |-> [addrs[s[j]] EXCEPT !.state = NEW_STATE]]]}
  /\ UNCHANGED <<addrs, rx, lastOk>>

PeerSend(f) ==
  /\ Cardinality(wire) < MaxWire
  /\ wire' = wire \cup {[count |-> f.count, recs |-> f.recs, sent |-> NULL]}
  /\ UNCHANGED <<addrs, rx, lastOk>>

(* AddrPayload.deserialize_from: a fresh AddrPayload([]) (line 253);     *)
(* on an exception the caller keeps what it had.                         *)
ReceiveFresh(f) ==
  LET d == DecodeAddrs(f)
  IN /\ rx' = IF d.ok THEN d.addrs ELSE rx
     /\ lastOk' = d.ok
     /\ wire' = wire \ {f}
     /\ UNCHANGED addrs

(* payload.deserialize(reader) on the receiver's own object. *)
ReceiveInto(f) ==
  LET d == DecodeAddrs(f)
  IN /\ Len(rx) + Len(d.addrs) <= MaxRx
     /\ rx' = rx \o d.addrs
     /\ lastOk' = d.ok
     /\ wire' = wire \ {f}
     /\ UNCHANGED addrs

Init ==
  /\ addrs = [i \in Ids |-> NewNetworkAddress(InitAddrs[i].host, InitAddrs[i].port,
                                              InitAddrs[i].caps, InitAddrs[i].timestamp)]
  /\ wire = {}
  /\ rx = << >>
  /\ lastOk = TRUE

(* Payloads a node sends: up to two of its addresses. *)
Selections == {<< >>} \cup {<<i>> : i \in Ids} \cup {<<i, j>> : i, j \in Ids}

Next ==
  \/ \E i \in Ids, s \in AddressState : SetState(i, s)
  \/ \E i \in Ids, t \in Times : Renew(i, t)
  \/ \E s \in Selections : Send(s)
  \/ \E f \in PeerFrames : PeerSend(f)
  \/ \E f \in wire : ReceiveFresh(f) \/ ReceiveInto(f)

Spec == Init /\ [][Next]_vars

-----------------------------------------------------------------------------
Address == [host : STRING, port : 0 .. 65535, caps : Seq([type : STRING, port : 0 .. 65535]),
            timestamp : Nat, state : AddressState]

TypeOK ==
  /\ \A i \in Ids : addrs[i] \in Address
  /\ \A i \in DOMAIN rx : rx[i] \in Address
  /\ lastOk \in BOOLEAN

(* Every entry a frame can carry: those of the node's addresses at any   *)
(* timestamp, and those of the crafted frames.                           *)
WireRecs ==
  UNION {{Encode(NewNetworkAddress(InitAddrs[i].host, InitAddrs[i].port, InitAddrs[i].caps, t)) :
            t \in Times \cup {InitAddrs[i].timestamp}} : i \in Ids}
  \cup UNION {{f.recs[j] : j \in DOMAIN f.recs} : f \in PeerFrames}

(* Round trip (spec section 8): every AddrPayload a node sends decodes   *)
(* to its addresses, field by field: address string, timestamp and      *)
(* capabilities (state is not on the wire and comes back NEW).           *)
RoundTrip ==
  \A f \in wire :
    f.sent # NULL => DecodeAddrs(f) = [ok |-> TRUE, addrs |-> f.sent]

(* Only complete entries reach the receiver's list: every address it     *)
(* holds is the decoding of a whole entry some frame carried, however    *)
(* frames failed part-way.                                                *)
CompleteEntries ==
  \A i \in DOMAIN rx :
    \E r \in WireRecs : RecOk(r) /\ rx[i] = Decode(r)
=============================================================================
