----------------------------- MODULE DataFraming -----------------------------
(***************************************************************************)
(* A data stream between the publisher's send_object_to_stream             *)
(* (src/moq/engine.rs) and the subscriber's reading task with its          *)
(* deserialize_object (src/moq/subscriber.rs), byte by byte.               *)
(*                                                                         *)
(* An object is a length and a body of that length.  A byte is known by    *)
(* the object it belongs to and its place there, so that bytes taken for   *)
(* what they are not can be told.  A write that runs into its timeout      *)
(* leaves a part of the object behind, and the next object follows it.     *)
(* The reader asks for chunks in whatever order they arrive                *)
(* (`read_chunk(65535, false)`), and appends them to its buffer.           *)
(***************************************************************************)
EXTENDS Naturals, Sequences, FiniteSets

CONSTANTS
    BodySize,           \* the sizes of the objects' bodies, as they are published
    HeaderSize,         \* the size of the length
    Reordering,         \* packets may overtake one another
    MaxCuts,            \* bound: writes that time out
    Misread             \* the lengths that bytes of no header may say

ASSUME FramingAssumption ==
    /\ BodySize \in Seq(Nat \ {0})
    /\ HeaderSize \in Nat \ {0}
    /\ Reordering \in BOOLEAN
    /\ MaxCuts \in Nat /\ Misread \subseteq Nat /\ Misread # {}

Published == 1..Len(BodySize)

VARIABLES
    written,            \* the bytes on the stream
    count,              \* how many objects were written, wholly or in part
    cut,                \* those of which only a part was
    got,                \* positions in `written` that the reader has got
    buffer,
    reader,             \* reading (a chunk), parsing, done
    objects             \* what was handed to the actor; 0 for a mixture

framingVars == <<written, count, cut, got, buffer, reader, objects>>

FramingInit ==
    /\ written = <<>> /\ count = 0 /\ cut = {}
    /\ got = {} /\ buffer = <<>> /\ reader = "reading"
    /\ objects = <<>>

-----------------------------------------------------------------------------
(* The publisher.                                                          *)

serialize_object(i) ==
    [k \in 1..(HeaderSize + BodySize[i]) |-> [object |-> i, place |-> k]]

write_all ==
    /\ count < Len(BodySize)
    /\ count' = count + 1
    /\ written' = written \o serialize_object(count + 1)
    /\ UNCHANGED <<cut, got, buffer, reader, objects>>

\* The timeout drops the write: none or some of the bytes have gone.
write_timeout ==
    /\ count < Len(BodySize)
    /\ Cardinality(cut) < MaxCuts
    /\ count' = count + 1
    /\ cut' = cut \cup {count + 1}
    /\ \E k \in 0..(HeaderSize + BodySize[count + 1] - 1) :
         written' = written \o SubSeq(serialize_object(count + 1), 1, k)
    /\ UNCHANGED <<got, buffer, reader, objects>>

-----------------------------------------------------------------------------
(* The reading task.                                                       *)

\* A chunk from position a to position b.
Arrives(a, b) ==
    /\ a..b \cap got = {}
    /\ Reordering \/ 1..(a - 1) \subseteq got

read_chunk(a, b) ==
    /\ reader = "reading"
    /\ Arrives(a, b)
    /\ got' = got \cup a..b
    /\ buffer' = buffer \o SubSeq(written, a, b)
    /\ reader' = "parsing"
    /\ UNCHANGED <<written, count, cut, objects>>

Header == SubSeq(buffer, 1, HeaderSize)

\* The lengths that the first bytes of the buffer may say.
TotalLength ==
    LET intact == {i \in Published : Header = SubSeq(serialize_object(i), 1, HeaderSize)}
    IN  IF intact # {} THEN {BodySize[i] : i \in intact} ELSE Misread

Incomplete(length) == Len(buffer) < HeaderSize + length

\* Err(_): "Not enough data for a complete object, wait for more".
Wait ==
    /\ reader' = "reading"
    /\ UNCHANGED <<buffer, objects>>

\* What becomes of the bytes of one object, taken from the buffer: bytes that
\* do not belong together are an object with wrong data, or an error that is
\* taken for incomplete data, or, too short for their fields, a panic.
Parsed(bytes) ==
    \/ \E i \in Published :
         /\ bytes = serialize_object(i)
         /\ objects' = Append(objects, i)
         /\ reader' = "parsing"
    \/ /\ \A i \in Published : bytes # serialize_object(i)
       /\ \/ objects' = Append(objects, 0) /\ reader' = "parsing"
          \/ reader' \in {"reading", "done"} /\ UNCHANGED objects

\* Mutant of deserialize_object: the length is consumed before the body is
\* there, as by the function of the same name in proto.rs.
DeserializeConsuming ==
    /\ reader = "parsing"
    /\ IF Len(buffer) < HeaderSize
       THEN Wait
       ELSE \E length \in TotalLength :
              IF Incomplete(length)
              THEN /\ buffer' = SubSeq(buffer, HeaderSize + 1, Len(buffer))
                   /\ reader' = "reading"
                   /\ UNCHANGED objects
              ELSE /\ Parsed(SubSeq(buffer, 1, HeaderSize + length))
                   /\ buffer' = SubSeq(buffer, HeaderSize + length + 1, Len(buffer))
    /\ UNCHANGED <<written, count, cut, got>>

\* Mutant of deserialize_object: one object is taken of each chunk.
DeserializeOne ==
    /\ reader = "parsing"
    /\ IF Len(buffer) < HeaderSize
       THEN Wait
       ELSE \E length \in TotalLength :
              IF Incomplete(length)
              THEN Wait
              ELSE /\ objects' = Append(objects, buffer[1].object)
                   /\ reader' = "reading"
                   /\ buffer' = SubSeq(buffer, HeaderSize + length + 1, Len(buffer))
    /\ UNCHANGED <<written, count, cut, got>>

deserialize_object ==
    /\ reader = "parsing"
    /\ IF Len(buffer) < HeaderSize
       THEN Wait
       ELSE \E length \in TotalLength :
              IF Incomplete(length)
              THEN Wait
              ELSE /\ Parsed(SubSeq(buffer, 1, HeaderSize + length))
                   /\ buffer' = SubSeq(buffer, HeaderSize + length + 1, Len(buffer))
    /\ UNCHANGED <<written, count, cut, got>>

\* The stream or the connection ends, or the actor is gone.
read_end ==
    /\ reader # "done"
    /\ reader' = "done"
    /\ UNCHANGED <<written, count, cut, got, buffer, objects>>

-----------------------------------------------------------------------------
ReadChunk == \E a, b \in 1..Len(written) : a <= b /\ read_chunk(a, b)

FramingNext ==
    \/ write_all \/ write_timeout
    \/ ReadChunk
    \/ deserialize_object
    \/ read_end

\* The engine writes what is published; QUIC delivers what was written; the
\* reading task runs.  Nothing obliges a stream to end.
FramingSpec ==
    /\ FramingInit /\ [][FramingNext]_framingVars
    /\ WF_framingVars(write_all \/ write_timeout)
    /\ WF_framingVars(ReadChunk) /\ WF_framingVars(deserialize_object)

-----------------------------------------------------------------------------
(* Properties                                                              *)

FirstCut == IF cut = {} THEN Len(BodySize) + 1
            ELSE CHOOSE i \in cut : \A j \in cut : i <= j

\* The objects written before any write was cut short come out of the reader
\* intact, each once and in order, wherever the stream is split into chunks
\* (engine.rs:716-772, subscriber.rs:515-545, 807-915).
HandedOverInOrder ==
    \A i \in 1..Len(objects) : i < FirstCut => objects[i] = i

\* While the reader waits for a chunk it does not sit on a whole object: the
\* last object of a burst is handed over without waiting for the next one.
NoObjectLeftWaiting ==
    reader = "reading" /\ cut = {} /\ ~Reordering =>
        Len(objects) = Cardinality({i \in 1..count :
            \A p \in 1..Len(written) : written[p].object = i => p \in got})

\* All of these objects do come out, unless the stream ends.
AllHandedOver ==
    [](reader # "done") => <>(Len(objects) >= FirstCut - 1)
=============================================================================
