----------------------------- MODULE BloomFilter -----------------------------
(***************************************************************************)
(* The BloomFilter of src/epicchain/core/cryptography/bloomfilter.py, as   *)
(* used for light-client filtering.  A node builds a filter and adds       *)
(* elements to it.  A peer builds its copy from the node's get_bits()      *)
(* (FILTERLOAD, with the node's m, k and tweak), and later FILTERADDs      *)
(* apply add to both copies.  The peer answers check().                    *)
(*                                                                         *)
(* A bit array is a sequence of booleans; tobytes/frombytes pad to and     *)
(* read whole bytes.  mmh3_hash(element, seeds[p]) is the constant         *)
(* Hash[e][p]: the k seeds (p * 0xFBA4C795 + ntweak) mod 2^32 are distinct *)
(* for distinct p (0xFBA4C795 is odd), so each p names one hash function.  *)
(***************************************************************************)
EXTENDS Integers, Sequences, SequencesExt

CONSTANTS
  Ms,        \* values of m a node builds a filter with
  K,         \* k, the number of hash functions
  Elements,  \* elements added and checked
  Hash,      \* [Elements -> [0 .. K-1 -> Nat]]
  NULL

ASSUME K \in Nat /\ \A e \in Elements : Hash[e] \in [0 .. K - 1 -> Nat]

VARIABLES
  node,      \* the node's filter: [bits, k], or NULL
  peer,      \* the peer's filter built from the node's bytes, or NULL
  added,     \* elements added to the filters so far
  checks     \* history: [e, res, len, was_added] of every check on the peer

vars == <<node, peer, added, checks>>

ZeroDivisionError == "ZeroDivisionError"

-----------------------------------------------------------------------------
(* __init__ without elements (lines 21-31): m zero bits. *)
NewFilter(m) == [bits |-> [i \in 1 .. m |-> FALSE], k |-> K]

(* bitarray.tobytes(): padded with zero bits to whole bytes. *)
Bytes(bits) ==
  LET pad == (8 - (Len(bits) % 8)) % 8
  IN bits \o [i \in 1 .. pad |-> FALSE]

(* Mutant of FromBytes: the loaded bits are not truncated to m. *)
FromBytesUntruncated(m, b) == [bits |-> b, k |-> K]

(* __init__ with elements (lines 21-27, 31): frombytes, then [:m]. *)
FromBytes(m, b) ==
  [bits |-> SubSeq(b, 1, IF m < Len(b) THEN m ELSE Len(b)), k |-> K]

(* The bit index of hash function p (line 42 and 55): h % len(bits). *)
Index(f, e, p) == (Hash[e][p] % Len(f.bits)) + 1

(* Mutant of AddBits: only the first hash function sets its bit. *)
AddBitsFirstOnly(f, e) ==
  [f EXCEPT !.bits = [i \in DOMAIN @ |-> @[i] \/ (f.k > 0 /\ i = Index(f, e, 0))]]

(* add (lines 40-42): every seed's bit is set. *)
AddBits(f, e) ==
  [f EXCEPT !.bits = [i \in DOMAIN @ |-> @[i] \/ \E p \in 0 .. f.k - 1 : i = Index(f, e, p)]]

(* check (lines 53-57): False at the first unset bit, else True. *)
CheckBits(f, e) == \A p \in 0 .. f.k - 1 : f.bits[Index(f, e, p)]

(* h % 0 raises for every seed: add and check on a zero-length array. *)
Raises(f) == f.k > 0 /\ Len(f.bits) = 0

-----------------------------------------------------------------------------
(* The node creates its filter. *)
Create(m) ==
  /\ node = NULL
  /\ node' = NewFilter(m)
  /\ UNCHANGED <<peer, added, checks>>

(* The node adds an element before sending the filter. *)
Add(e) ==
  /\ node # NULL
  /\ peer = NULL
  /\ ~Raises(node)
  /\ node' = AddBits(node, e)
  /\ added' = added \cup {e}
  /\ UNCHANGED <<peer, checks>>

(* FILTERLOAD: the peer builds its filter from node.get_bits() (line 63). *)
Load ==
  /\ node # NULL
  /\ peer = NULL
  /\ peer' = FromBytes(Len(node.bits), Bytes(node.bits))
  /\ UNCHANGED <<node, added, checks>>

(* FILTERADD: the element is added to both copies. *)
FilterAdd(e) ==
  /\ peer # NULL
  /\ ~Raises(peer)
  /\ node' = AddBits(node, e)
  /\ peer' = AddBits(peer, e)
  /\ added' = added \cup {e}
  /\ UNCHANGED checks

(* The peer checks an element: "True", "False", or the exception. *)
Check(e) ==
  /\ peer # NULL
  /\ checks' = checks \cup
       {[e |-> e, len |-> Len(peer.bits), was_added |-> e \in added,
         res |-> CASE Raises(peer) -> ZeroDivisionError
                   [] CheckBits(peer, e) -> "True"
                   [] OTHER -> "False"]}
  /\ UNCHANGED <<node, peer, added>>

Init ==
  /\ node = NULL
  /\ peer = NULL
  /\ added = {}
  /\ checks = {}

Next ==
  \/ \E m \in Ms : Create(m)
  \/ \E e \in Elements : Add(e) \/ FilterAdd(e) \/ Check(e)
  \/ Load

Spec == Init /\ [][Next]_vars

-----------------------------------------------------------------------------
(* A filter, the node's or the peer's, has m bits for an m of the node. *)
Filter(f) == f.k = K /\ \E m \in Ms : f.bits \in [1 .. m -> BOOLEAN]

TypeOK ==
  /\ node = NULL \/ Filter(node)
  /\ peer = NULL \/ Filter(peer)
  /\ added \subseteq Elements

(* No false negatives (spec 4.5 and section 8): every element the node   *)
(* added, before the FILTERLOAD or by a FILTERADD, checks True on the    *)
(* peer's copy built from the node's bytes.                              *)
NoFalseNegatives ==
  \A c \in checks : (c.was_added /\ c.len > 0) => c.res = "True"

=============================================================================
