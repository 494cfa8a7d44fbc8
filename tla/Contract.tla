------------------------------- MODULE Contract -------------------------------
(***************************************************************************)
(* ContractState of src/epicchain/contracts/contract.py over a heap of XEF *)
(* objects.  The constructor keeps the caller's XEF object, so two states   *)
(* built on one XEF (as test_equals does) share it; the script setter      *)
(* writes into that XEF without recomputing its checksum; __deepcopy__ is  *)
(* a serialize/deserialize round trip that allocates a fresh XEF.          *)
(*                                                                         *)
(* XEF and the BinaryWriter/BinaryReader are outside this repository; they *)
(* are modelled by the behaviour test_xef.py and the writer's struct       *)
(* formats give them: an XEF computes its checksum when built, and its     *)
(* deserialize raises ValueError on an empty script before it compares the *)
(* checksum; write_uint16 raises struct.error outside 0..65535.  The       *)
(* checksum is abstracted to the script it was computed over, and the      *)
(* manifest, which round-trips unchanged, is left out.                     *)
(***************************************************************************)
EXTENDS Integers

CONSTANTS
  StateIds,     \* ContractState objects the program may allocate
  XefIds,       \* XEF objects the program may allocate
  Scripts,      \* non-empty scripts
  EMPTY,        \* the empty script b""
  Ids,          \* contract ids (int32; native contracts have negative ids)
  Counters,     \* update counters the caller may pass
  Hashes,       \* UInt160 contract hashes
  NoObj,        \* an unallocated heap slot
  ValueError, StructError

ScriptVals == Scripts \cup {EMPTY}

UInt16 == 0 .. 65535

VARIABLES
  xefs,     \* xefs[x]: the XEF object x, [script, sum], or NoObj
  states,   \* states[c]: the ContractState c, its fields, or NoObj
  outcome   \* the last call, or the exception it raised

vars == <<xefs, states, outcome>>

XefRec == [script : ScriptVals, sum : ScriptVals]
StateRec == [id : Ids, xef : XefIds, update_counter : Int, hash : Hashes]

Live(f) == {o \in DOMAIN f : f[o] # NoObj}
Free(f) == {o \in DOMAIN f : f[o] = NoObj}

(* ContractState.script, the property getter (lines 121-126). *)
Script(c) == xefs[states[c].xef].script

(* __eq__ (lines 109-116): two states are equal when their hashes are. *)
Equal(c, d) == states[c].hash = states[d].hash

-----------------------------------------------------------------------------
(* XEF(script=...) computes the checksum of what it is built with. *)
NewXef(x, v) ==
  /\ x \in Free(xefs)
  /\ xefs' = [xefs EXCEPT ![x] = [script |-> v, sum |-> v]]
  /\ outcome' = "xef"
  /\ UNCHANGED states

(* ContractState(id_, xef, manifest_, update_counter, hash_) keeps the    *)
(* XEF object it is given (lines 86-98).                                  *)
New(c, x, id, uc, h) ==
  /\ c \in Free(states)
  /\ x \in Live(xefs)
  /\ states' = [states EXCEPT ![c] =
                  [id |-> id, xef |-> x, update_counter |-> uc, hash |-> h]]
  /\ outcome' = "new"
  /\ UNCHANGED xefs

(* The script setter (lines 128-130) writes into the shared XEF; its       *)
(* checksum stays what it was.                                            *)
SetScript(c, v) ==
  /\ c \in Live(states)
  /\ xefs' = [xefs EXCEPT ![states[c].xef].script = v]
  /\ outcome' = "script"
  /\ UNCHANGED states

(* Mutant of CopyXef: the XEF read is dropped, leaving the field None. *)
CopyXefNone(c, x) == NoObj

(* deserialize (lines 139-144) into _serializable_init (lines 167-175):   *)
(* id, update_counter and hash read back as written, the XEF read into a  *)
(* new object.                                                             *)
ReadState(r, x) == [r EXCEPT !.xef = x]

(* read_serializable(xef.XEF) allocates the XEF object x. *)
CopyXef(c, x) == x

(* serialize (lines 132-137) writes id as int32 and update_counter as    *)
(* uint16; struct.pack raises struct.error for a counter outside 0..65535 *)
(* (the ids modelled are all int32).                                      *)
Serializable(r) == r.update_counter \in UInt16

(* XEF.deserialize raises ValueError when the script read is empty, and  *)
(* else when the checksum read differs from the one computed over it.    *)
XefReadable(e) == e.script # EMPTY /\ e.sum = e.script

(* __deepcopy__ (lines 118-119): to_array then deserialize_from_bytes.    *)
(* serialize raises struct.error on an unserializable state, deserialize *)
(* ValueError on an unreadable XEF.  A failure allocates nothing.        *)
DeepCopy(c, d, x) ==
  LET r == states[c]
      e == xefs[r.xef]
  IN /\ c \in Live(states)
     /\ d \in Free(states)
     /\ x \in Free(xefs)
     /\ \/ /\ ~Serializable(r)
           /\ outcome' = StructError
           /\ UNCHANGED <<xefs, states>>
        \/ /\ Serializable(r)
           /\ ~XefReadable(e)
           /\ outcome' = ValueError
           /\ UNCHANGED <<xefs, states>>
        \/ /\ Serializable(r)
           /\ XefReadable(e)
           /\ xefs' = [xefs EXCEPT ![x] = e]
           /\ states' = [states EXCEPT ![d] = ReadState(r, CopyXef(c, x))]
           /\ outcome' = "copy"

Init ==
  /\ xefs = [x \in XefIds |-> NoObj]
  /\ states = [c \in StateIds |-> NoObj]
  /\ outcome = "init"

Next ==
  \/ \E x \in XefIds, v \in ScriptVals : NewXef(x, v)
  \/ \E c \in StateIds, x \in XefIds, id \in Ids, uc \in Counters, h \in Hashes :
       New(c, x, id, uc, h)
  \/ \E c \in StateIds, v \in ScriptVals : SetScript(c, v)
  \/ \E c, d \in StateIds, x \in XefIds : DeepCopy(c, d, x)

Spec == Init /\ [][Next]_vars

-----------------------------------------------------------------------------
TypeOK ==
  /\ xefs \in [XefIds -> XefRec \cup {NoObj}]
  /\ states \in [StateIds -> StateRec \cup {NoObj}]
  /\ \A c \in Live(states) : states[c].xef \in Live(xefs)
  /\ outcome \in {"init", "xef", "new", "script", "copy", ValueError, StructError}

=============================================================================
