----------------------------- MODULE EssentialLib -----------------------------
(***************************************************************************)
(* binary_deserialize of src/epicchain/api/helpers/essentiallib.py, one    *)
(* loop iteration per step.                                                *)
(*                                                                         *)
(* The input is a byte sequence.  The first loop reads items in preorder   *)
(* into `deserialized`, pushing a PlaceHolder for every ARRAY, STRUCT and  *)
(* MAP and adding its item count to `to_deserialize`.  The second loop     *)
(* pops them and rebuilds containers on the `temp` stack.                  *)
(*                                                                         *)
(* Python values are records [k, v]: None, bool, int, bytes, list (a       *)
(* sequence) and dict (a sequence of <<key, value>> pairs in insertion     *)
(* order, with Python's key equality: True == 1 and False == 0).  An       *)
(* exception ends the call; the result is then a record with k = the       *)
(* exception's name.                                                       *)
(*                                                                         *)
(* The BinaryReader is outside this repository.  The model takes:          *)
(*   - read_byte and read_bytes raise ValueError when bytes run out;       *)
(*   - read_bool is any non-zero byte;                                     *)
(*   - read_var_int(max) raises ValueError above max.                      *)
(* Every var_int here is a single byte (below 0xFD).                       *)
(***************************************************************************)
EXTENDS Integers, Sequences, SequencesExt

CONSTANT Streams   \* the byte sequences passed to binary_deserialize

ASSUME \A s \in Streams : \A i \in DOMAIN s : s[i] \in 0 .. \hFC

(* vm.StackItemType *)
ANY == \h00
POINTER == \h10
BOOLEAN_ITEM == \h20   \* StackItemType.BOOLEAN (BOOLEAN is a TLA+ keyword)
INTEGER == \h21
BYTESTRING == \h28
BUFFER == \h30
ARRAY == \h40
STRUCT == \h41
MAP == \h48
INTEROP == \h60
StackItemType ==
  {ANY, POINTER, BOOLEAN_ITEM, INTEGER, BYTESTRING, BUFFER, ARRAY, STRUCT, MAP, INTEROP}

Py(kind, val) == [k |-> kind, v |-> val]
PyNone == Py("None", 0)
Raise(e) == Py(e, 0)
Exceptions == {"ValueError", "TypeError", "IndexError"}
PlaceHolder(t, count) == Py("ph", [type |-> t, count |-> count])

VARIABLES
  data,            \* the argument
  pos,             \* the reader's position (index of the next byte)
  deserialized,    \* the first loop's list
  to_deserialize,  \* items still to read
  temp,            \* the second loop's stack
  pc,              \* "start", "read", "build" or "done"
  result           \* the return value or the exception

vars == <<data, pos, deserialized, to_deserialize, temp, pc, result>>

-----------------------------------------------------------------------------
(* A read that raised, and one that returned item and moved to next. *)
Fail == [ok |-> FALSE]
Ok(item, next, more) == [ok |-> TRUE, item |-> item, next |-> next, more |-> more]

(* reader.read_var_int(max) at byte i. *)
ReadVarInt(s, i, max) ==
  IF i > Len(s) \/ s[i] > max THEN Fail ELSE Ok(s[i], i + 1, 0)

(* reader.read_var_bytes(max) at byte i. *)
ReadVarBytes(s, i, max) ==
  LET n == ReadVarInt(s, i, max)
  IN IF ~n.ok \/ n.next + n.item - 1 > Len(s) THEN Fail
     ELSE Ok(SubSeq(s, n.next, n.next + n.item - 1), n.next + n.item, 0)

(* int(types.BigInteger(b)): little-endian two's complement. *)
BigInt(b) ==
  LET u == FoldLeftDomain(LAMBDA acc, j : acc + b[j] * 2^(8 * (j - 1)), 0, b)
  IN IF b # << >> /\ b[Len(b)] >= 128 THEN u - 2^(8 * Len(b)) ELSE u

(* Mutant of Pending: a MAP's count taken once. *)
PendingMapOnce(t, count) == count

(* Mutant of Pending: an ARRAY or STRUCT is counted as one of its items. *)
PendingOffByOne(t, count) == IF t = MAP THEN count * 2 ELSE count - 1

(* Items a container adds to to_deserialize (lines 43 and 47). *)
Pending(t, count) == IF t = MAP THEN count * 2 ELSE count

(* One iteration of the first loop reads the item at byte i (lines 31-49). *)
ReadEntry(s, i) ==
  LET t == s[i]
      vb(max) == ReadVarBytes(s, i + 1, max)
      vi == ReadVarInt(s, i + 1, \hFFFF * 2)
  IN CASE i > Len(s) \/ t \notin StackItemType -> Fail
       [] t = ANY -> Ok(PyNone, i + 1, 0)
       [] t = BOOLEAN_ITEM ->
            IF i + 1 > Len(s) THEN Fail ELSE Ok(Py("bool", s[i + 1] # 0), i + 2, 0)
       [] t = INTEGER ->
            IF vb(32).ok THEN Ok(Py("int", BigInt(vb(32).item)), vb(32).next, 0)
            ELSE Fail
       [] t \in {BYTESTRING, BUFFER} ->
            IF vb(Len(s)).ok THEN Ok(Py("bytes", vb(Len(s)).item), vb(Len(s)).next, 0)
            ELSE Fail
       [] t \in {ARRAY, STRUCT, MAP} ->
            IF vi.ok THEN Ok(PlaceHolder(t, vi.item), vi.next, Pending(t, vi.item))
            ELSE Fail
       [] OTHER -> Fail

-----------------------------------------------------------------------------
(* Python's key equality: bool and int compare by number. *)
Num(x) == IF x.k = "bool" THEN (IF x.v THEN 1 ELSE 0) ELSE x.v
KeyEq(a, b) ==
  IF {a.k, b.k} \subseteq {"bool", "int"} THEN Num(a) = Num(b) ELSE a = b
Hashable(x) == x.k \in {"None", "bool", "int", "bytes"}

(* m[key] = val on a dict value: an equal key keeps its first object. *)
DictSet(d, key, val) ==
  LET i == SelectInSeq(d.v, LAMBDA p : KeyEq(p[1], key))
  IN IF i = 0 THEN Py("dict", Append(d.v, <<key, val>>))
     ELSE Py("dict", [d.v EXCEPT ![i][2] = val])

(* Mutant of MapFrom: the value popped before the key. *)
MapFromSwapped(popped) ==
  LET n == Len(popped) \div 2
  IN IF \E j \in 1 .. n : ~Hashable(popped[2 * j]) THEN Raise("TypeError")
     ELSE FoldLeft(LAMBDA d, j : DictSet(d, popped[2 * j], popped[2 * j - 1]),
                   Py("dict", << >>), [j \in 1 .. n |-> j])

(* The MAP branch of the second loop (lines 66-72): key, then value.     *)
MapFrom(popped) ==
  LET n == Len(popped) \div 2
  IN IF \E j \in 1 .. n : ~Hashable(popped[2 * j - 1]) THEN Raise("TypeError")
     ELSE FoldLeft(LAMBDA d, j : DictSet(d, popped[2 * j - 1], popped[2 * j]),
                   Py("dict", << >>), [j \in 1 .. n |-> j])

(* One iteration of the second loop on a PlaceHolder (lines 54-72): pops  *)
(* its items (count, or twice count for a MAP) and builds the container. *)
Rebuild(ph, tmp) ==
  LET n == IF ph.type = MAP THEN 2 * ph.count ELSE ph.count
      popped == [j \in 1 .. n |-> tmp[Len(tmp) - j + 1]]
  IN CASE n > Len(tmp) -> Raise("IndexError")
       [] ph.type = MAP -> MapFrom(popped)
       [] OTHER -> Py("list", popped)

-----------------------------------------------------------------------------
(* Lines 22-28: an empty argument raises, otherwise one item to read. *)
RejectEmpty ==
  /\ pc = "start"
  /\ data = << >>
  /\ pc' = "done"
  /\ result' = Raise("ValueError")
  /\ UNCHANGED <<data, pos, deserialized, to_deserialize, temp>>

Start ==
  /\ pc = "start"
  /\ data # << >>
  /\ pc' = "read"
  /\ to_deserialize' = 1
  /\ UNCHANGED <<data, pos, deserialized, temp, result>>

(* One iteration of the first loop (lines 29-49). *)
ReadItem ==
  LET r == ReadEntry(data, pos)
  IN /\ pc = "read"
     /\ to_deserialize # 0
     /\ r.ok
     /\ deserialized' = Append(deserialized, r.item)
     /\ pos' = r.next
     /\ to_deserialize' = to_deserialize - 1 + r.more
     /\ UNCHANGED <<data, temp, pc, result>>

(* A read of the first loop raises ValueError. *)
ReadFails ==
  /\ pc = "read"
  /\ to_deserialize # 0
  /\ ~ReadEntry(data, pos).ok
  /\ pc' = "done"
  /\ result' = Raise("ValueError")
  /\ UNCHANGED <<data, pos, deserialized, to_deserialize, temp>>

EndRead ==
  /\ pc = "read"
  /\ to_deserialize = 0
  /\ pc' = "build"
  /\ UNCHANGED <<data, pos, deserialized, to_deserialize, temp, result>>

(* One iteration of the second loop (lines 52-74). *)
BuildItem ==
  LET item == Last(deserialized)
      n == IF item.v.type = MAP THEN 2 * item.v.count ELSE item.v.count
      c == Rebuild(item.v, temp)
  IN /\ pc = "build"
     /\ deserialized # << >>
     /\ deserialized' = Front(deserialized)
     /\ \/ /\ item.k # "ph"
           /\ temp' = Append(temp, item)
           /\ UNCHANGED <<pc, result>>
        \/ /\ item.k = "ph"
           /\ c.k \notin Exceptions
           /\ temp' = Append(SubSeq(temp, 1, Len(temp) - n), c)
           /\ UNCHANGED <<pc, result>>
        \/ /\ item.k = "ph"
           /\ c.k \in Exceptions
           /\ pc' = "done"
           /\ result' = c
           /\ UNCHANGED temp
     /\ UNCHANGED <<data, pos, to_deserialize>>

(* Line 75: the value left on temp is returned. *)
Return ==
  /\ pc = "build"
  /\ deserialized = << >>
  /\ pc' = "done"
  /\ result' = Last(temp)
  /\ temp' = Front(temp)
  /\ UNCHANGED <<data, pos, deserialized, to_deserialize>>

Init ==
  /\ data \in Streams
  /\ pos = 1
  /\ deserialized = << >>
  /\ to_deserialize = 0
  /\ temp = << >>
  /\ pc = "start"
  /\ result = PyNone

Next ==
  \/ RejectEmpty \/ Start
  \/ ReadItem \/ ReadFails \/ EndRead
  \/ BuildItem \/ Return

Spec == Init /\ [][Next]_vars

-----------------------------------------------------------------------------
(* The reference: recursive descent over the same bytes.  A stream parses *)
(* to a tree (leaves are Python values, nodes [type, kids]) or fails, and *)
(* the tree is then turned into Python values, so read errors come before *)
(* unhashable keys as in the code.                                        *)
RECURSIVE ParseItem(_, _), ParseItems(_, _, _)
ParseItem(s, i) ==
  LET r == ReadEntry(s, i)
      c == ParseItems(s, r.next, r.more)
  IN CASE ~r.ok -> Fail
       [] r.item.k # "ph" -> [ok |-> TRUE, tree |-> r.item, next |-> r.next]
       [] ~c.ok -> Fail
       [] OTHER -> [ok |-> TRUE, next |-> c.next,
                    tree |-> Py("node", [type |-> r.item.v.type, kids |-> c.trees])]

ParseItems(s, i, n) ==
  LET h == ParseItem(s, i)
      t == ParseItems(s, h.next, n - 1)
  IN CASE n = 0 -> [ok |-> TRUE, trees |-> << >>, next |-> i]
       [] ~h.ok \/ ~t.ok -> Fail
       [] OTHER -> [ok |-> TRUE, trees |-> <<h.tree>> \o t.trees, next |-> t.next]

RECURSIVE ToPython(_)
ToPython(t) ==
  LET kids == [j \in DOMAIN t.v.kids |-> ToPython(t.v.kids[j])]
      m == Len(kids) \div 2
  IN CASE t.k # "node" -> t
       [] \E j \in DOMAIN kids : kids[j].k \in Exceptions -> Raise("TypeError")
       [] t.v.type # MAP -> Py("list", kids)
       [] \E j \in 1 .. m : ~Hashable(kids[2 * j - 1]) -> Raise("TypeError")
       [] OTHER -> FoldLeft(LAMBDA d, j : DictSet(d, kids[2 * j - 1], kids[2 * j]),
                            Py("dict", << >>), [j \in 1 .. m |-> j])

(* What the stream denotes: ValueError when empty or unparsable. *)
Reference(s) ==
  LET p == ParseItem(s, 1)
  IN IF s = << >> \/ ~p.ok THEN Raise("ValueError") ELSE ToPython(p.tree)

-----------------------------------------------------------------------------
TypeOK ==
  /\ pc \in {"start", "read", "build", "done"}
  /\ pos \in 1 .. Len(data) + 1
  /\ to_deserialize \in Nat
  /\ Len(temp) <= Len(data)
  /\ Len(deserialized) <= Len(data)

(* The two loops decode every stream, the malformed ones included, to    *)
(* what recursive descent gives: the placeholder counts, the pop order   *)
(* of the rebuild and the key/value order of maps agree with the         *)
(* preorder of the bytes, and the same exception is raised.              *)
DecodeMatchesReference ==
  pc = "done" => result = Reference(data)

=============================================================================
