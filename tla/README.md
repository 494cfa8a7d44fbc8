# TLA+ models of the EpicChain Python SDK

Model-checked TLA+ specifications of the parts of the SDK that hold state
or interact: the P2P message envelope, the network-address payloads, the
connection filter, the outstanding-request tracker, the Bloom filter, the
EssentialLib binary deserializer, the contract state container, and the
EpicChainExpress test harness of the examples.

## 1. The system and how its parts interact

| Part | Source | State | Operations |
|---|---|---|---|
| Message envelope | `network/message.py` | `config`, `type`, `payload` of each `Message` object; the frames on the wire | `__init__`, `serialize` (LZ4 decision, then sets `COMPRESSED` on the object), `deserialize` (type byte, size bound, decompression, `_payload_from_data` dispatch) |
| Payload codecs | `network/payloads/address.py` | `NetworkAddress` (address, capabilities, timestamp, state), `AddrPayload.addresses` | serialize / deserialize, `set_state_*` |
| IP filter | `network/ipfilter.py` | `_config`, a dict of two lists of network strings; the class attribute `default_config`; the global `ipfilter` | `is_allowed`, `blacklist_add/remove`, `whitelist_add/remove`, `load_config`, `reset` |
| Request tracker | `network/convenience/requestinfo.py` | `failed_nodes`, `failed_total`, `flights`, `last_used_node` of each `RequestInfo` | `__init__`, `add_new_flight`, `most_recent_flight`, `mark_failed_node` |
| Bloom filter | `core/cryptography/bloomfilter.py` | bit array, `k`, tweak | `add`, `check`, constructor from bits |
| Binary deserializer | `api/helpers/essentiallib.py` | work count, placeholder stack | `binary_deserialize` |
| Contract state | `contracts/contract.py` | `ContractState` fields; the `XEF` object it holds (script, checksum) | `__init__`, `script` getter and setter, `__eq__`, `__deepcopy__` (serialize then deserialize) |
| Express harness | `examples/shared/__init__.py` | `_ready`, `_stop`, the child process, reader thread | `run`, `stop`, the stdout reader |

How they interact: a node builds a payload, wraps it in a `Message` and
serializes it to every peer. It may serialize the same object more than once,
for example to broadcast it or to relay a message it received. Before a
connection is accepted, the node asks `is_allowed` of the global `ipfilter`.
The sync scheduler keeps one `RequestInfo` per requested height. It records a
`FlightInfo` for each request, and on a timeout it marks the node of the most
recent flight as failed and asks another node. The scheduler (`SyncManager`)
and `FlightInfo` are described in spec sections 4.3 and 5 but are not in this
repository, so they are modelled from the spec.

## 2. Modules

### Message (`Message.tla`, `MCMessage.tla`)

**State.**
- `objs`: a pool of `Message` objects. Each is a record of config, type and
  payload, or NULL.
- `wire`: the set of frames written. Each frame keeps the message it was
  written from (`sent`) and whether the object's config was still `NONE`
  (`fresh`).
- `decoded`: the history of deserialization results.

**Actions.** One per code path:
- `NewMessage`: `__init__`, where a falsy payload becomes `EmptyPayload`.
- `Serialize`: lines 108-126. It uses `ShouldCompress`, `SerializedBody` and
  `SerializedConfig`, and stores the mutated config back into the object.
- `Deserialize`: lines 128-155. `DecodeResults` applies the checks in the
  code's order: type byte, size bound, empty body, then `Unpack` and
  `PayloadFromData`. The decoded object may be kept in the pool and sent
  again, which is a relay.
- `PeerSend`: puts a crafted frame on the wire.

**Data abstraction.** A payload is a model value with a byte length (`PLen`)
and an LZ4-block length (`Lz4Len`). A body is either raw or
`[u32 size | lz4 block]`. Reading raw bytes as LZ4 is a nondeterministic
choice between a decompression error and other bytes (`Garbage`). Other bytes
may parse as something else or fail to parse.

**Constants and bounds in `MCMessage`.** Two objects. Seven payloads, each
sitting on an edge:
- empty;
- exactly 128 bytes (on the `>` boundary);
- compressible and incompressible 200-byte payloads;
- exactly `PAYLOAD_MAX_SIZE` and incompressible, so it is sent raw and the
  receiver's `>` at line 138 meets a body of exactly the bound;
- a 2^30-byte payload behind a tiny LZ4 block;
- garbage.

The type bytes are `BLOCK` (has a schema), `GETADDR` (no schema) and `0x02`
(not in the enum). Two peer-crafted frames are included: an LZ4 bomb, and a
frame with an unassigned type. Two objects are enough for a message to be
built, sent twice, received, stored and relayed.

### IPFilter (`IPFilter.tla`, `MCIPFilter.tla`)

Python dicts and lists are shared by reference, and `load_config` keeps the
caller's dict. The model therefore has a heap:
- `DictMap`: a constant map from dict objects to their keys' list objects.
- `lists`: the contents of every list object.
- `cfg`: the dict that `self._config` refers to.

`DefaultDict` is the class attribute `default_config`. `OwnDict` is the
`deepcopy` made by `__init__` and `reset`.

IPv4 is shrunk to W = 2 bits. An entry string denotes a network `Net[e]`.
`Valid` is `IPv4Network`'s strict host-bit check, and `Overlaps` is
`IPv4Network.overlaps`.

`is_allowed` is the two loops of lines 76-88 as recursive operators:
- `ScanBlacklist`, with its `break`;
- `ScanWhitelist`, which has no `break` and so parses every entry.

Each public method is one action. `outcome` records the last call: the
method's name, or `ValueError` when `load_config` raised.

**Bounds.** Lists hold at most 2 entries. The pass run uses three entries:
- `0.0.0.0/0`, which covers every host;
- a single host;
- a malformed string with host bits set.

The dicts offered to `load_config` are a trusted configuration and one that
lacks the `whitelist` key. The violation run instead offers
`IPFilter.default_config` itself. The heap also holds a `dict.fromkeys` dict
(`dShared`), whose two keys share one list.

### RequestInfo (`RequestInfo.tla`, `MCRequestInfo.tla`)

**State.**
- `info[h]`: the `RequestInfo` record for height `h`, or NULL once it is
  discarded.
- `issued`: the number of flights per height.
- `inflight`: requests not yet answered.
- `received`: heights whose data arrived.

The methods are pure record transformers: `NewRequestInfo`, `AddNewFlight`,
`MostRecentFlight` and `MarkFailedNode`. They are translated line by line.

The driver actions come from spec 4.3:
- `Request`: the first flight for a height.
- `FanOut`: another concurrent flight.
- `Timeout`: marks the node of the most recent flight as failed and sends a
  replacement.
- `Respond`: a tracked height completes; a late answer is dropped.
- `Lose`: a request or its answer is lost.

Each method is atomic. Spec section 5 requires callers to serialize tracker
mutations, and the SDK runs them on one asyncio loop.

**Bounds.** Three nodes under symmetry, one height, and four flights. Four
flights is enough for a fan-out, a timeout of a replaced flight, and a repeat
failure of the same node.

**Deadlock.** The run disables deadlock checking. Once the flight bound is
used up and every request is answered or lost, sync of that bounded height
is over, so stopping is the intended end.

### AddressCodec (`AddressCodec.tla`, `MCAddressCodec.tla`)

**State.**
- `addrs`: the node's `NetworkAddress` objects. Each is a record of host,
  port (the `"host:port"` string), capabilities, timestamp and state.
- `wire`: the ADDR frames in transit. A frame is the entry count, the
  encoded entries, and `sent`, the addresses it was serialized from (NULL
  for a peer-crafted frame).
- `rx`: the receiver's `AddrPayload.addresses`.
- `lastOk`: whether the receiver's last decode returned.

**Actions.**
- `SetState`: the `set_state_*` methods.
- `Renew`: a new `NetworkAddress` for the same endpoint with a later
  `utcnow()` timestamp.
- `Send`: `AddrPayload.serialize`. `PeerSend` puts a crafted frame on the wire.
- `ReceiveFresh`: `deserialize_from`, into a fresh object that the caller
  drops on an exception.
- `ReceiveInto`: `payload.deserialize(reader)` into the object the receiver
  holds.

`DecodeAddrs` translates `AddrPayload.deserialize`: no maximum on the count,
and each entry is appended once it is read. `PortOf` is the port taken from
the last `ServerCapability`, 0 without one.

**Bounds.** Two addresses: one lists `TcpServer` first, the other lists it
after `FullNode`. There are two timestamps, at most two frames in transit,
and at most two received entries. The crafted frames are:
- a count beyond the entries given;
- a count of 2^30;
- an entry cut after its timestamp;
- an entry with 33 capabilities.

### BloomFilter (`BloomFilter.tla`, `MCBloomFilter.tla`)

A node builds a filter (`Create`) and adds elements to it (`Add`). A peer
builds its copy from `get_bits()` with the node's m (`Load`, FILTERLOAD).
Later `FilterAdd` adds an element to both copies, and `Check` records the
peer's answer.

`Bytes` pads to whole bytes like `tobytes`. `FromBytes` truncates to m, which
is line 27. `mmh3_hash` with seed p is a constant table `Hash[e][p]`. The k
seeds `(p * 0xFBA4C795 + tweak) mod 2^32` are distinct, because the
multiplier is odd. m is 5 or 12: neither is a multiple of 8, so the padded
bytes are longer than m.

### EssentialLib (`EssentialLib.tla`, `MCEssentialLib.tla`)

`binary_deserialize`, one loop iteration per step:
- `ReadItem`, `ReadFails` and `EndRead` are the read loop, with the work
  counter `to_deserialize` and the placeholder list.
- `BuildItem` is the rebuild loop over the `temp` stack.
- `Return` is the final pop.

Python values are records. A dict is a sequence of pairs with Python's key
equality (`DictSet`), so `True == 1`. `Reference` is a recursive-descent
decoder over the same bytes. The streams are every stream of up to 3 bytes
over an alphabet of type codes and small numbers, every prefix of nested
encodings, and those encodings themselves. The encodings include
arrays/structs of arrays, maps with boolean, integer, bytes and array keys,
and counts beyond the data.

### Contract (`Contract.tla`, `MCContract.tla`)

`ContractState` holds a reference to the XEF object it is given. The model
therefore has a heap, as `IPFilter` does:
- `xefs`: every XEF object, as its script and checksum;
- `states`: every `ContractState` object, as its fields and a pointer to
  its XEF object.

The checksum is abstracted to the script it was computed over. It is stale
when the two differ, which is what the `script` setter (`SetScript`) leaves
behind.

`DeepCopy` is `__deepcopy__`:
- `Serializable`: `serialize` writes `update_counter` as uint16, and
  `struct.error` is raised outside 0..65535.
- `XefReadable`: `XEF.deserialize` raises `ValueError` on an empty script,
  then on a wrong checksum. This order is taken from `test_xef.py`.
- `ReadState` and `CopyXef`: a success allocates a new state and a new XEF
  object.

`XEF` and the binary writer are not in this repository. `NewXef` and
`XefReadable` are modelled from the tests and the struct formats. The
manifest round-trips unchanged and is left out.

**Bounds.** There are three state slots and three XEF slots. Scripts are
two non-empty values and `b""`. Ids are -1 (a native contract) and 7.
Counters are 65535 and 65536, one on each side of the uint16 bound. There
are two hashes. The slots are symmetric.

### ExpressHarness (`ExpressHarness.tla`, `MCExpressHarness.tla`)

There are three actors.
- **The main thread.**
  - `Batch`: `__enter__` runs the batch through `initialize_with`. With
    `check=True` a failing batch raises out of `__enter__`, so the chain is
    never started and `__exit__` is not called.
  - `Enter`: the start of `run()`.
  - `Wake`: the end of the busy wait on `_ready`.
  - `Stop` and `Kill`: the two steps of `stop()`.
- **The reader thread.** `ReadLine` and `ReadEOF` apply `LoopBody`, the
  body of `process_stdout`'s loop.
- **The chain process.** `ChildPrint` writes its next line into a bounded
  pipe. `ChildExit` makes it exit.

The pipe is in text mode, so `readline()` at end of file returns `""`. The
loop's sentinel is `b""`, so after EOF the loop keeps running: `ReadEOF` is
enabled forever, and it is a stuttering step until `_stop` is set.

**Bounds.** The chain prints LOG, READY, LOG, LOG into a two-line pipe. In
the pass run the chain may crash only after it announced readiness. The
violation run lets it exit earlier.

## 3. Runs

| Run | Cfg | Expect | What it shows |
|---|---|---|---|
| message | MCMessage.cfg | pass | `TypeOK`. `FreshRoundTrip`: a frame written from a message whose config is still `NONE` decodes, at any receiver, to what was sent. This includes a raw body of exactly `PAYLOAD_MAX_SIZE`, which a `>=` at line 138 would reject. |
| message_reuse | MCMessage_RoundTrip.cfg | violation | `RoundTrip` fails. A compressed message serialized a second time carries `COMPRESSED` with a raw body. |
| message_lz4_bomb | MCMessage_AcceptedPayloadBounded.cfg | violation | A 2^30-byte payload is accepted from a small frame. Decompression is bounded only by the size the peer declares. |
| ipfilter | MCIPFilter.cfg | pass | `IsAllowedMatchesPolicy`: in every configuration reachable with callers' own dicts, the two loops decide as the declarative policy. That includes which malformed entries raise. |
| ipfilter_default_alias | MCIPFilter_ResetClears.cfg | violation | After `load_config(IPFilter.default_config)` and `blacklist_add`, `reset` no longer clears the filter. |
| requestinfo | MCRequestInfo.cfg | pass | `TypeOK`: through fan-outs, replacements, and late or lost answers, every `RequestInfo` keeps its flights keyed by node id. |
| address | MCAddressCodec.cfg | pass | `RoundTrip`: every AddrPayload a node sends decodes to its addresses, field by field. `CompleteEntries`: whatever crafted frames arrive, by either receive path, every entry in the receiver's list is the decoding of a whole entry. |
| bloomfilter | MCBloomFilter.cfg | pass | `NoFalseNegatives`: every element added before FILTERLOAD or by FILTERADD checks True on the peer copy built from the padded bytes. |
| essentiallib | MCEssentialLib.cfg | pass | `DecodeMatchesReference`: on every stream the two loops return what recursive descent gives, or raise the same exception. |
| contract | MCContract.cfg | pass | `TypeOK`: every state points at a live XEF object, through shared XEFs, script writes, and every outcome of `deepcopy` (`struct.error`, both `ValueError`s, success). |
| harness | MCExpressHarness.cfg | pass | `RunReturns`: `run()` returns once the chain announces it runs. `ReaderEnds`: after `stop()` the reader thread ends, on a buffered line or on EOF, even if the chain crashed earlier. |
| harness_early_exit | MCExpressHarness_EarlyExit.cfg | violation | A chain that exits before its ready line leaves the reader spinning on EOF and `run()` waiting forever. |

Every property of a passing run has a mutant in `PROJECT.json`. A mutant is a
plausible bug in the mapped code (for example `>=` at the compression
boundary, a scan that skips the `break`, or a per-node count starting at 1),
and TLC finds the property violated when the mutant is in place.

## 4. Findings

- **`message.py:122`.** `serialize` mutates the message. Re-sending or
  relaying a compressed message produces an undecodable frame. This breaks
  spec 5 ("pure") and spec 8 (round trip).
- **`message.py:146`.** There is no post-decompression size check, so an LZ4
  bomb gets through (spec 3).
- **`message.py:136`.** An unknown type byte is fatal (spec 4.1).
- **`ipfilter.py:146`.** `load_config` keeps the caller's dict. The default
  configuration is then polluted, so `reset` fails. A `dict.fromkeys`
  configuration, whose two keys share one list, also makes `blacklist_add`
  whitelist the entry (no run kept for it).
- **`examples/shared/__init__.py:100`.** `iter(readline, b"")` never ends
  on a text-mode pipe. `run()` waits on `_ready` with no timeout, so a chain
  that fails to start hangs the script (run `harness_early_exit`).

Behaviour seen in the models and described here without a run of its own:
- **`address.py:106`.** `__eq__` compares the address only, but `__hash__`
  also hashes the timestamp. Equal addresses then hash differently, which
  breaks Python's eq/hash contract. Spec 2 describes this hashing as
  intended, so no property asserts the contract.
- **`contract.py:130`.** The `script` setter leaves the XEF checksum of the
  old script in place. After a write, `deepcopy` of the state, and of every
  state sharing that XEF, raises `ValueError` ("Invalid checksum"). A state
  built on `XEF()`, whose script is empty, can never be copied. The
  `contract` run reaches both failures.
- **`address.py:207`.** An address listing `TcpServer` and then `WsServer`
  comes back with the `WsServer` port (spec 8, round trip).
- **`address.py:250`.** `ReceiveInto` of a frame that fails part-way leaves
  the entries read before the failure in the payload (spec 4.2 and 7).
- **`bloomfilter.py:55`.** m = 0 is accepted, and `check` then raises
  `ZeroDivisionError` (spec 8 asks for defined behaviour).
- **`essentiallib.py:71`.** A map with keys Boolean true and Integer 1
  decodes to one entry. The docstring calls the function the equivalent of
  `EssentialLib.deserialize`, whose keys are distinct stack items.

## 5. Fairness

Only `ExpressHarness` has liveness properties. Its `Spec` assumes weak
fairness of the following:
- the main thread's steps (`Batch`, `Enter`, `Wake`, `Stop`, `Kill`);
- the reader thread's steps (`ReadLine`, `ReadEOF`). The OS schedules every
  runnable thread.
- the end of the script's with-body, which leads to `Stop`. The example
  scripts are finite sequences of awaited calls.
- `ChildPrint`: a running chain keeps writing its output.

`ChildExit` is not fair, because a crash is never forced. The request
tracker's progress depends on scheduler timers outside this repository, so
it has no liveness property.

## 6. Not modelled

- **The rest of `contracts/contract.py`.** The native contract hashes are
  constants. `Contract` is a constructor that computes a script hash.
  `__len__` and `can_call` read the manifest and its permissions, which are
  outside this repository.
- **Example scripts and `api/__init__.py`.** Straight-line awaited RPC calls
  against an external node, and re-exports.
- **Tests.** Not part of the system.
- **`EpicChainExpress.__init__`.** Loading the wallets and config, and
  looking up the executable, are I/O. `initialize_with` is modelled only as
  a batch that succeeds or raises.
- **Properties that would restate the code.**
  - `RequestInfo`'s two methods are single atomic assignments, so relations
    between their fields hold by construction. Only the type invariant is
    checked.
  - `ContractState`'s `deepcopy` reads back exactly what it wrote, and
    allocates a fresh XEF object. A property comparing a copy with its
    original, or about the copy's XEF, would hold by definition.
  - The compression decision is translated once (`ShouldCompress`), and no
    property restates it.
- **Refinement.** The code and the spec state no abstract behaviour that
  differs from the code's own operations. An abstract IP filter rule list
  would repeat `list.append` and `list.remove`, and its aliasing cases are
  not loadable in the pass run. `EssentialLib` and `is_allowed` are checked
  against independent reference operators instead.
