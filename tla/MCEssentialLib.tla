---------------------------- MODULE MCEssentialLib ----------------------------
(* Streams for binary_deserialize: EssentialLib.serialize encodings of     *)
(* values up to two levels deep, every prefix of them (truncated input),   *)
(* and every short byte string over the type codes (malformed input).     *)
EXTENDS EssentialLib

(* Leaves: ANY, BOOLEAN true/false, INTEGER 1, 0 and -128, BYTESTRING      *)
(* b"\x01", an empty BUFFER.                                              *)
Leaves ==
  {<<ANY>>, <<BOOLEAN_ITEM, 1>>, <<BOOLEAN_ITEM, 0>>, <<INTEGER, 1, 1>>,
   <<INTEGER, 0>>, <<INTEGER, 1, \h80>>, <<BYTESTRING, 1, 1>>, <<BUFFER, 0>>}

(* Keys a map can have (primitive stack items) and some values. *)
Keys == {<<BOOLEAN_ITEM, 1>>, <<INTEGER, 1, 1>>, <<INTEGER, 0>>, <<BYTESTRING, 1, 1>>}
Values == {<<ANY>>, <<BOOLEAN_ITEM, 0>>}

Container(t, items) == <<t, Len(items)>> \o FlattenSeq(items)
MapOf(pairs) == <<MAP, Len(pairs)>> \o FlattenSeq([j \in DOMAIN pairs |-> pairs[j][1] \o pairs[j][2]])

Level1 ==
  {Container(ARRAY, s) : s \in BoundedSeq(Leaves, 2)}
  \cup {Container(STRUCT, <<l>>) : l \in Leaves}
  \cup {MapOf(s) : s \in BoundedSeq(Keys \X Values, 2)}

Level2 ==
  {Container(ARRAY, <<x>>) : x \in Level1}
  \cup {MapOf(<<<<<<INTEGER, 1, 1>>, x>>>>) : x \in Level1}
  \cup {MapOf(<<<<Container(ARRAY, << >>), <<ANY>>>>>>),
        Container(STRUCT, <<MapOf(<<<<<<BOOLEAN_ITEM, 1>>, <<ANY>>>>>>), <<ANY>>>>)}

Encodings == Leaves \cup Level1 \cup Level2

Alphabet == {ANY, 1, 2, POINTER, BOOLEAN_ITEM, INTEGER, ARRAY, MAP}

MCStreams ==
  UNION {Prefixes(e) : e \in Encodings} \cup Encodings \cup BoundedSeq(Alphabet, 3)
=============================================================================
