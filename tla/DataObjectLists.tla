--------------------------- MODULE DataObjectLists ---------------------------
(* DataObjectList (lib.rs:992): the list of tags and lengths by which a card   *)
(* names the data a command is to carry (PDOL, CDOL1, CDOL2, DDOL), and the    *)
(* bytes the terminal answers with.                                           *)
(*                                                                           *)
(* Here a tag is its bytes, and a store maps tags to the bytes of their values.*)
EXTENDS Conversions

Sequence == INSTANCE SequencesExt

(* A tag of one byte by ISO 7816, or the one EMV tag the code excepts.        *)
OneByteTag(byte) == byte % 32 # 31 \/ byte = 149
TwoByteTag(first, second) == first % 32 = 31 /\ second \in 1 .. 127

DataObject(tag, length) == [tag |-> tag, length |-> length]

(* A list that ends with it is the Err, or the panic, of the parser.          *)
Broken == DataObject(<<>>, 0)

(* The objects from byte i on.                                                *)
process_data_object_list(list) ==
    LET At(i) == i \in DOMAIN list
        objects[i \in 1 .. Len(list) + 3] ==
            CASE i > Len(list) /\ i > 1 -> <<>>
              [] At(i) /\ At(i + 1) /\ OneByteTag(list[i]) ->
                     <<DataObject(<<list[i]>>, list[i + 1])>> \o objects[i + 2]
              [] /\ At(i) /\ At(i + 1) /\ At(i + 2)
                 /\ ~OneByteTag(list[i]) /\ TwoByteTag(list[i], list[i + 1]) ->
                     <<DataObject(<<list[i], list[i + 1]>>, list[i + 2])>>
                         \o objects[i + 3]
              [] OTHER -> <<Broken>>
    IN  IF Len(list) = 1 THEN <<DataObject(list, 0)>> ELSE objects[1]

(* Mutant: an absent tag is left out. *)
ObjectValueSkipped(object, store) ==
    IF object.tag \in DOMAIN store THEN SubSeq(store[object.tag], 1, object.length)
    ELSE <<>>

(* The first bytes of the tag's value; zeros for a tag that is absent; the    *)
(* whole value for a length of 0; a slice out of bounds for a shorter value.  *)
ObjectValue(object, store) ==
    LET value == IF object.tag \in DOMAIN store THEN store[object.tag]
                 ELSE Fill(object.length, 0)
        length == IF object.length = 0 THEN Len(value) ELSE object.length
    IN  IF length > Len(value) THEN Panics ELSE SubSeq(value, 1, length)

(* The bytes of all objects, in the order of the list.                        *)
get_tag_list_tag_values(objects, store) ==
    LET values == [i \in DOMAIN objects |-> ObjectValue(objects[i], store)]
    IN  IF \E i \in DOMAIN objects : objects[i] = Broken \/ values[i] = Panics
        THEN Panics ELSE Sequence!FlattenSeq(values)
=============================================================================
