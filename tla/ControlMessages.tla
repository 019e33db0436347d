--------------------------- MODULE ControlMessages ---------------------------
(***************************************************************************)
(* The messages of a control stream as bytes: what proto.rs writes for a   *)
(* message (the serialize functions), and what it takes from the front of  *)
(* a buffer for one (the deserialize functions, src/moq/proto.rs).         *)
(*                                                                         *)
(* A message is its type, the bytes of its stream id, the length of its    *)
(* namespace and its remaining numbers (`tail`, bytes in network order).   *)
(* Fields a type does not have are empty.                                  *)
(***************************************************************************)
EXTENDS Naturals, Sequences

TYPE_SUBSCRIBE == 1
TYPE_UNSUBSCRIBE == 2
TYPE_CANCEL == 3
TYPE_REQUEST == 4
TYPE_TERMINATE == 5
TYPE_HEARTBEAT == 6
TYPE_SUBSCRIBE_OK == 8
TYPE_OBJECT == 16

Message(type, stream, ns, tail) ==
    [type |-> type, stream |-> stream, ns |-> ns, tail |-> tail]

Byte == 0..255

\* What there is to write: ids of 16 bytes, numbers of the width of their type, a
\* namespace whose length fits in two bytes.
Id == [1..16 -> Byte]
Numbers(n) == [1..n -> Byte]
Namespace == 0..65535

Of(types, ids, namespaces, tails) ==
    [type : types, stream : ids, ns : namespaces, tail : tails]

Messages ==
    Of({TYPE_SUBSCRIBE}, Id, Namespace, Numbers(13))
    \cup Of({TYPE_UNSUBSCRIBE}, Id, Namespace, {<<>>})
    \cup Of({TYPE_REQUEST}, Id, Namespace, Numbers(8))
    \cup Of({TYPE_CANCEL, TYPE_HEARTBEAT}, {<<>>}, {0}, Numbers(8))
    \cup Of({TYPE_TERMINATE}, {<<>>}, {0}, Numbers(1))
    \cup Of({TYPE_SUBSCRIBE_OK}, Id, {0}, {<<>>})

\* A number below 256 in n bytes; a length `as u16`; and the namespace: n bytes
\* of text, none of which is the code of a message.
Number(value, n) == [i \in 1..n |-> IF i = n THEN value ELSE 0]
put_u16(n) == <<(n \div 256) % 256, n % 256>>
Text(n) == [i \in 1..n |-> 47]

-----------------------------------------------------------------------------
serialize_subscribe(m) ==
    <<TYPE_SUBSCRIBE>> \o put_u16(m.ns) \o m.stream \o Text(m.ns) \o m.tail

\* UNSUBSCRIBE and REQUEST have the stream id first.
serialize_unsubscribe(m) ==
    <<TYPE_UNSUBSCRIBE>> \o m.stream \o put_u16(m.ns) \o Text(m.ns)

serialize_request(m) ==
    <<TYPE_REQUEST>> \o m.stream \o put_u16(m.ns) \o Text(m.ns) \o m.tail

serialize_cancel(m) == <<TYPE_CANCEL>> \o m.tail
serialize_terminate(m) == <<TYPE_TERMINATE>> \o m.tail
serialize_heartbeat(m) == <<TYPE_HEARTBEAT>> \o m.tail
serialize_subscribe_ok(m) == <<TYPE_SUBSCRIBE_OK>> \o m.stream

Serialized(m) ==
    CASE m.type = TYPE_SUBSCRIBE    -> serialize_subscribe(m)
      [] m.type = TYPE_UNSUBSCRIBE  -> serialize_unsubscribe(m)
      [] m.type = TYPE_REQUEST      -> serialize_request(m)
      [] m.type = TYPE_CANCEL       -> serialize_cancel(m)
      [] m.type = TYPE_TERMINATE    -> serialize_terminate(m)
      [] m.type = TYPE_HEARTBEAT    -> serialize_heartbeat(m)
      [] m.type = TYPE_SUBSCRIBE_OK -> serialize_subscribe_ok(m)

-----------------------------------------------------------------------------
(* A deserializer consumes bytes and returns a message or fails; what it   *)
(* has consumed when it fails stays consumed.                              *)

Fails(n) == [taken |-> n, messages |-> <<>>]
Takes(n, m) == [taken |-> n, messages |-> <<m>>]

Bytes(b, first, n) == SubSeq(b, first, first + n - 1)
get_u16(b, first) == b[first] * 256 + b[first + 1]

\* Mutant of deserialize_subscribe: the priority is left in the buffer.
SubscribeShort(b) ==
    LET ns == get_u16(b, 2)
    IN  Takes(31 + ns, Message(TYPE_SUBSCRIBE, Bytes(b, 4, 16), ns,
                               Bytes(b, 20 + ns, 12)))

deserialize_subscribe(b) ==
    IF Len(b) < 3 THEN Fails(0)
    ELSE LET ns == get_u16(b, 2)
         IN  IF Len(b) - 3 < 16 + ns + 13 THEN Fails(3)
             ELSE Takes(32 + ns, Message(TYPE_SUBSCRIBE, Bytes(b, 4, 16), ns,
                                         Bytes(b, 20 + ns, 13)))

deserialize_unsubscribe(b) ==
    IF Len(b) < 19 THEN Fails(0)
    ELSE LET ns == get_u16(b, 18)
         IN  IF Len(b) - 19 < ns THEN Fails(19)
             ELSE Takes(19 + ns, Message(TYPE_UNSUBSCRIBE, Bytes(b, 2, 16), ns, <<>>))

deserialize_request(b) ==
    IF Len(b) < 27 THEN Fails(0)
    ELSE LET ns == get_u16(b, 18)
         IN  IF Len(b) - 19 < ns + 8 THEN Fails(19)
             ELSE Takes(27 + ns, Message(TYPE_REQUEST, Bytes(b, 2, 16), ns,
                                         Bytes(b, 20 + ns, 8)))

deserialize_cancel(b) ==
    IF Len(b) < 9 THEN Fails(0) ELSE Takes(9, Message(TYPE_CANCEL, <<>>, 0, Bytes(b, 2, 8)))

deserialize_terminate(b) ==
    IF Len(b) < 2 THEN Fails(0) ELSE Takes(2, Message(TYPE_TERMINATE, <<>>, 0, Bytes(b, 2, 1)))

deserialize_heartbeat(b) ==
    IF Len(b) < 9 THEN Fails(0) ELSE Takes(9, Message(TYPE_HEARTBEAT, <<>>, 0, Bytes(b, 2, 8)))

deserialize_subscribe_ok(b) ==
    IF Len(b) < 17 THEN Fails(0) ELSE Takes(17, Message(TYPE_SUBSCRIBE_OK, Bytes(b, 2, 16), 0, <<>>))
=============================================================================
