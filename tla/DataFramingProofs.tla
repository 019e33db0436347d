-------------------------- MODULE DataFramingProofs --------------------------
(***************************************************************************)
(* Proofs about the framing of a data stream: for every list of objects of *)
(* every size, every split of the stream into chunks, and every write cut  *)
(* short, as long as the chunks come in order.                             *)
(***************************************************************************)
EXTENDS DataFraming, SequenceTheorems, FiniteSetTheorems, TLAPS

Size(i) == HeaderSize + BodySize[i]

Bytes == [object : Published, place : Nat]

FramingTypes ==
    /\ written \in Seq(Bytes)
    /\ count \in 0..Len(BodySize) /\ cut \subseteq 1..count
    /\ buffer \in Seq(Bytes)
    /\ objects \in Seq(Nat)

\* Where the first n objects begin on the stream, and where the next would.
Offsets(start, n) ==
    /\ start \in [1..(n + 1) -> Nat] /\ start[1] = 0
    /\ \A i \in 1..n : start[i + 1] = start[i] + Size(i)
    /\ \A i, j \in 1..(n + 1) : i < j => start[i] < start[j]

\* The first n objects are those before the first cut, and lie whole on the
\* stream, one after the other.
Layout(start, n) ==
    /\ IF cut = {} THEN n = count /\ Len(written) = start[n + 1]
       ELSE n + 1 \in cut /\ \A j \in cut : n + 1 <= j
    /\ start[n + 1] <= Len(written)
    /\ \A i \in 1..n : \A k \in 1..Size(i) :
         written[start[i] + k] = [object |-> i, place |-> k]
    /\ \A p \in 1..start[n + 1] : \E i \in 1..n :
         start[i] < p /\ p <= start[i + 1] /\ written[p].object = i

\* The reader has got the first r bytes.  Until it comes to the cut its buffer
\* begins where an object does, and it only waits with less than an object.
ReadTo(start, n, r) ==
    /\ got = 1..r
    /\ \A i \in 1..Len(objects) : i <= n => objects[i] = i
    /\ cut = {} => Len(objects) <= n
    /\ Len(objects) < n \/ cut = {} =>
         /\ start[Len(objects) + 1] <= r
         /\ buffer = SubSeq(written, start[Len(objects) + 1] + 1, r)
    /\ reader = "reading" /\ Len(objects) < n => r < start[Len(objects) + 2]

Framed(start, n, r) == Offsets(start, n) /\ Layout(start, n) /\ ReadTo(start, n, r)

FramingInv ==
    /\ FramingTypes
    /\ \E n \in 0..count, r \in 0..Len(written) : \E start \in [1..(n + 1) -> Nat] :
         Framed(start, n, r)

-----------------------------------------------------------------------------
(* Sizes and pieces of the stream.                                         *)

LEMMA Sizes ==
  /\ Len(BodySize) \in Nat /\ HeaderSize \in Nat /\ HeaderSize >= 1
  /\ \A i \in Published : /\ BodySize[i] \in Nat /\ Size(i) \in Nat /\ HeaderSize < Size(i)
                          /\ Size(i) = HeaderSize + BodySize[i]
<1>1. \A i \in Published : BodySize[i] \in Nat \ {0}
  BY FramingAssumption DEF Published
<1> QED
  BY <1>1, FramingAssumption DEF Size

LEMMA Serialized ==
  ASSUME NEW i \in Published
  PROVE  /\ serialize_object(i) \in Seq(Bytes)
         /\ Len(serialize_object(i)) = Size(i)
         /\ \A k \in 1..Size(i) : serialize_object(i)[k] = [object |-> i, place |-> k]
<1>1. Size(i) \in Nat /\ HeaderSize + BodySize[i] = Size(i)
  BY Sizes
<1>2. serialize_object(i) = [k \in 1..Size(i) |-> [object |-> i, place |-> k]]
  BY <1>1 DEF serialize_object
<1>3. \A k \in 1..Size(i) : [object |-> i, place |-> k] \in Bytes
  BY <1>1 DEF Bytes
<1>4. serialize_object(i) \in [1..Size(i) -> Bytes]
  BY <1>2, <1>3
<1>5. serialize_object(i) \in Seq(Bytes)
  BY <1>1, <1>4
<1> QED
  BY <1>1, <1>2, <1>5

\* What is on a sequence stays in its place when it grows.
LEMMA Grown ==
  ASSUME NEW S, NEW w \in Seq(S), NEW t \in Seq(S)
  PROVE  /\ w \o t \in Seq(S) /\ Len(w \o t) = Len(w) + Len(t)
         /\ \A p \in 1..Len(w) : (w \o t)[p] = w[p]
         /\ \A k \in 1..Len(t) : (w \o t)[Len(w) + k] = t[k]
         /\ \A a, b \in Nat : a >= 1 /\ b <= Len(w) => SubSeq(w \o t, a, b) = SubSeq(w, a, b)
<1> DEFINE u == w \o t
<1>1. /\ u \in Seq(S) /\ Len(u) = Len(w) + Len(t) /\ Len(w) \in Nat /\ Len(t) \in Nat
      /\ \A p \in 1..Len(w) : u[p] = w[p]
      /\ \A k \in 1..Len(t) : u[Len(w) + k] = t[k]
  BY ConcatProperties, LenProperties
<1> HIDE DEF u
<1>2. ASSUME NEW a \in Nat, NEW b \in Nat, a >= 1, b <= Len(w)
      PROVE  SubSeq(u, a, b) = SubSeq(w, a, b)
  <2>1. a \in Int /\ b \in Int
    BY <1>2
  <2>2. \A i \in a..b : u[i] \in S /\ w[i] \in S /\ u[i] = w[i]
    <3>1. SUFFICES ASSUME NEW i \in a..b PROVE u[i] \in S /\ w[i] \in S /\ u[i] = w[i]
      OBVIOUS
    <3>2. i \in 1..Len(w)
      BY <1>1, <1>2, <3>1
    <3>3. w[i] \in S
      BY <3>2, ElementOfSeq
    <3> QED
      BY <1>1, <3>2, <3>3
  <2>3. /\ SubSeq(u, a, b) \in Seq(S) /\ SubSeq(w, a, b) \in Seq(S)
        /\ Len(SubSeq(u, a, b)) = IF a <= b THEN b - a + 1 ELSE 0
        /\ Len(SubSeq(w, a, b)) = IF a <= b THEN b - a + 1 ELSE 0
        /\ \A i \in 1..(b - a + 1) : SubSeq(u, a, b)[i] = u[a + i - 1]
        /\ \A i \in 1..(b - a + 1) : SubSeq(w, a, b)[i] = w[a + i - 1]
    BY <2>1, <2>2, SubSeqProperties
  <2>4. \A i \in 1..(b - a + 1) : a + i - 1 \in a..b
    BY <1>2
  <2>5. CASE a <= b
    <3>1. Len(SubSeq(u, a, b)) = Len(SubSeq(w, a, b)) /\ Len(SubSeq(w, a, b)) = b - a + 1
      BY <2>3, <2>5
    <3>2. \A i \in 1..Len(SubSeq(w, a, b)) : SubSeq(u, a, b)[i] = SubSeq(w, a, b)[i]
      BY <2>2, <2>3, <2>4, <3>1
    <3> QED
      BY <2>3, <3>1, <3>2, SeqEqual
  <2>6. CASE b < a
    BY <2>1, <2>6, SubSeqEmpty
  <2> QED
    BY <1>2, <2>5, <2>6
<1>3. \A a, b \in Nat : a >= 1 /\ b <= Len(w) => SubSeq(u, a, b) = SubSeq(w, a, b)
  BY <1>2
<1>4. /\ u \in Seq(S) /\ Len(u) = Len(w) + Len(t)
      /\ \A p \in 1..Len(w) : u[p] = w[p]
      /\ \A k \in 1..Len(t) : u[Len(w) + k] = t[k]
      /\ \A a, b \in Nat : a >= 1 /\ b <= Len(w) => SubSeq(u, a, b) = SubSeq(w, a, b)
  BY <1>1, <1>3
<1> QED
  BY <1>4 DEF u

LEMMA Piece ==
  ASSUME NEW S, NEW w \in Seq(S), NEW a \in Nat, NEW b \in Nat, a >= 1, b <= Len(w)
  PROVE  /\ SubSeq(w, a, b) \in Seq(S)
         /\ a <= b + 1 => Len(SubSeq(w, a, b)) = b + 1 - a
         /\ \A k \in 1..(b + 1 - a) : SubSeq(w, a, b)[k] = w[a + k - 1]
<1>1. a \in Int /\ b \in Int /\ Len(w) \in Nat
  BY LenProperties
<1>2. \A i \in a..b : w[i] \in S
  BY <1>1, ElementOfSeq
<1>3. /\ SubSeq(w, a, b) \in Seq(S)
      /\ Len(SubSeq(w, a, b)) = IF a <= b THEN b - a + 1 ELSE 0
      /\ \A i \in 1..(b - a + 1) : SubSeq(w, a, b)[i] = w[a + i - 1]
  BY <1>1, <1>2, SubSeqProperties
<1>4. b - a + 1 = b + 1 - a
  OBVIOUS
<1> QED
  BY <1>3, <1>4

\* A piece of a piece.
LEMMA PieceOfPiece ==
  ASSUME NEW S, NEW w \in Seq(S), NEW a \in Nat, NEW b \in Nat, a >= 1, a <= b + 1, b <= Len(w),
         NEW c \in Nat, NEW d \in Nat, c >= 1, d <= b + 1 - a
  PROVE  SubSeq(SubSeq(w, a, b), c, d) = SubSeq(w, a + c - 1, a + d - 1)
<1> DEFINE v == SubSeq(w, a, b)
<1>1. /\ v \in Seq(S) /\ Len(v) = b + 1 - a /\ Len(w) \in Nat
      /\ \A k \in 1..Len(v) : v[k] = w[a + k - 1]
  BY Piece, LenProperties
<1> HIDE DEF v
<1>2. CASE d < c
  <2>1. SubSeq(v, c, d) = <<>> /\ SubSeq(w, a + c - 1, a + d - 1) = <<>>
    BY <1>2, SubSeqEmpty
  <2> QED
    BY <2>1 DEF v
<1>3. CASE c <= d
  <2> DEFINE x == SubSeq(v, c, d)
             y == SubSeq(w, a + c - 1, a + d - 1)
  <2>1. /\ x \in Seq(S) /\ Len(x) = d + 1 - c
        /\ \A k \in 1..Len(x) : x[k] = v[c + k - 1]
    BY <1>1, <1>3, Piece
  <2>2. a + c - 1 \in Nat /\ a + d - 1 \in Nat /\ a + c - 1 >= 1 /\ a + d - 1 <= Len(w)
    BY <1>1, <1>3
  <2>3. /\ y \in Seq(S) /\ Len(y) = d + 1 - c
        /\ \A k \in 1..Len(y) : y[k] = w[(a + c - 1) + k - 1]
    <3>1. (a + d - 1) + 1 - (a + c - 1) = d + 1 - c /\ a + c - 1 <= (a + d - 1) + 1
      BY <1>3
    <3> QED
      BY <2>2, <3>1, Piece
  <2>4. ASSUME NEW k \in 1..Len(x) PROVE x[k] = y[k]
    <3>1. c + k - 1 \in 1..Len(v) /\ a + (c + k - 1) - 1 = (a + c - 1) + k - 1
      BY <1>1, <1>3, <2>1, <2>4
    <3> QED
      BY <1>1, <2>1, <2>3, <3>1
  <2> HIDE DEF x, y
  <2>5. x = y
    BY <2>1, <2>3, <2>4, SeqEqual
  <2> QED
    BY <2>5 DEF x, y, v
<1> QED
  BY <1>2, <1>3

-----------------------------------------------------------------------------
(* The publisher's steps.                                                  *)

LEMMA FramingInitInv == FramingInit => FramingInv
<1> SUFFICES ASSUME FramingInit PROVE FramingInv
  OBVIOUS
<1> USE DEF FramingInit
<1> DEFINE start == [i \in 1..(0 + 1) |-> 0]
<1>1. FramingTypes
  BY Sizes DEF FramingTypes
<1>2. start \in [1..(0 + 1) -> Nat] /\ start[1] = 0 /\ start[0 + 1] = 0
  OBVIOUS
<1> HIDE DEF start
<1>3. 1..0 = {} /\ \A i, j \in 1..(0 + 1) : ~(i < j)
  OBVIOUS
<1>4. Offsets(start, 0)
  BY <1>2, <1>3 DEF Offsets
<1>5. Layout(start, 0)
  BY <1>2, <1>3 DEF Layout
<1>6. SubSeq(written, 0 + 1, 0) = <<>> /\ Len(objects) = 0
  BY SubSeqEmpty
<1>7. ReadTo(start, 0, 0)
  BY <1>2, <1>3, <1>6 DEF ReadTo
<1> QED
  BY <1>1, <1>2, <1>4, <1>5, <1>7 DEF FramingInv, Framed

\* A write as the reader sees it: bytes appended, for the next object.
Writes(bytes) ==
    /\ count + 1 \in Published /\ count' = count + 1
    /\ written' = written \o bytes
    /\ UNCHANGED <<got, buffer, reader, objects>>

LEMMA WriteSteps ==
  ASSUME FramingTypes, write_all \/ write_timeout
  PROVE  \E bytes \in Seq(Bytes) :
           /\ Writes(bytes)
           /\ \/ bytes = serialize_object(count + 1) /\ cut' = cut
              \/ cut' = cut \cup {count + 1}
<1>1. count + 1 \in Published /\ count' = count + 1 /\ UNCHANGED <<got, buffer, reader, objects>>
  BY Sizes DEF write_all, write_timeout, Published, FramingTypes
<1>2. CASE write_all
  BY <1>1, <1>2, Serialized DEF write_all, Writes
<1>3. CASE write_timeout
  <2>1. PICK k \in 0..(HeaderSize + BodySize[count + 1] - 1) :
          written' = written \o SubSeq(serialize_object(count + 1), 1, k)
    BY <1>3 DEF write_timeout
  <2>2. k \in Nat /\ k <= Len(serialize_object(count + 1))
    BY <1>1, <2>1, Sizes, Serialized
  <2>3. SubSeq(serialize_object(count + 1), 1, k) \in Seq(Bytes)
    BY <1>1, <2>2, Serialized, Piece
  <2> QED
    BY <1>1, <1>3, <2>1, <2>3 DEF write_timeout, Writes
<1> QED
  BY <1>2, <1>3

LEMMA WriteTypes ==
  ASSUME FramingTypes, NEW bytes \in Seq(Bytes), Writes(bytes), cut' \subseteq cut \cup {count + 1}
  PROVE  FramingTypes'
<1>1. count' \in 0..Len(BodySize) /\ cut' \subseteq 1..count'
  BY Sizes DEF FramingTypes, Writes, Published
<1> QED
  BY <1>1, ConcatProperties DEF FramingTypes, Writes

\* What the reader has done is not disturbed by a write, as long as the number
\* of objects before the cut stays the same.
LEMMA WriteReadTo ==
  ASSUME FramingTypes, NEW bytes \in Seq(Bytes), Writes(bytes),
         NEW n \in 0..count, NEW r \in 0..Len(written), NEW start, Framed(start, n, r),
         cut' = {} => cut = {}
  PROVE  ReadTo(start, n, r)'
<1>1. written \in Seq(Bytes) /\ Len(written) \in Nat /\ Len(objects) \in Nat /\ n \in Nat
  BY LenProperties DEF FramingTypes
<1>2. \A a, b \in Nat : a >= 1 /\ b <= Len(written) => SubSeq(written', a, b) = SubSeq(written, a, b)
  BY <1>1, Grown DEF Writes
<1>3. ASSUME Len(objects) < n \/ cut = {} PROVE start[Len(objects) + 1] \in Nat
  <2>1. Len(objects) + 1 \in 1..(n + 1)
    BY <1>1, <1>3 DEF Framed, ReadTo
  <2> QED
    BY <2>1 DEF Framed, Offsets
<1>4. Len(objects) < n \/ cut = {} =>
        SubSeq(written', start[Len(objects) + 1] + 1, r)
          = SubSeq(written, start[Len(objects) + 1] + 1, r)
  <2>1. SUFFICES ASSUME Len(objects) < n \/ cut = {}
                 PROVE  SubSeq(written', start[Len(objects) + 1] + 1, r)
                          = SubSeq(written, start[Len(objects) + 1] + 1, r)
    OBVIOUS
  <2>2. start[Len(objects) + 1] + 1 \in Nat /\ start[Len(objects) + 1] + 1 >= 1
        /\ r \in Nat /\ r <= Len(written)
    BY <1>1, <1>3, <2>1
  <2> QED
    BY <1>2, <2>2
<1> QED
  BY <1>4 DEF Framed, ReadTo, Writes

\* A write after the first cut, or the first that is cut.
LEMMA WriteAfterCut ==
  ASSUME FramingInv, NEW bytes \in Seq(Bytes), Writes(bytes),
         cut' = cut \/ cut' = cut \cup {count + 1}, cut' # {}
  PROVE  FramingInv'
<1>1. FramingTypes /\ FramingTypes'
  BY WriteTypes DEF FramingInv
<1>2. PICK n \in 0..count, r \in 0..Len(written) : \E start \in [1..(n + 1) -> Nat] :
        Framed(start, n, r)
  BY DEF FramingInv
<1>3. PICK start \in [1..(n + 1) -> Nat] : Framed(start, n, r)
  BY <1>2
<1>4. /\ written \in Seq(Bytes) /\ Len(written) \in Nat /\ count \in Nat /\ n \in Nat
      /\ cut \subseteq 1..count
  BY <1>1, LenProperties DEF FramingTypes
<1>5. /\ Len(written') >= Len(written)
      /\ \A p \in 1..Len(written) : written'[p] = written[p]
  BY <1>4, Grown, LenProperties DEF Writes
<1>6. start[n + 1] \in Nat /\ start[n + 1] <= Len(written)
  BY <1>3, <1>4 DEF Framed, Offsets, Layout
<1>7. n + 1 \in cut' /\ \A j \in cut' : n + 1 <= j
  <2>1. CASE cut = {}
    BY <1>3, <1>4, <2>1 DEF Framed, Layout
  <2>2. CASE cut # {}
    <3>1. n + 1 \in cut /\ \A j \in cut : n + 1 <= j
      BY <1>3, <2>2 DEF Framed, Layout
    <3>2. n + 1 <= count + 1
      BY <1>4
    <3> QED
      BY <3>1, <3>2
  <2> QED
    BY <2>1, <2>2
<1>8. ASSUME NEW i \in 1..n, NEW k \in 1..Size(i)
      PROVE  start[i] + k \in 1..Len(written)
  <2>1. i \in 1..(n + 1) /\ i + 1 \in 1..(n + 1) /\ i \in Published
    BY <1>1, <1>4 DEF FramingTypes, Published
  <2>2. start[i] \in Nat /\ start[i + 1] \in Nat /\ start[i + 1] = start[i] + Size(i)
    BY <1>3, <2>1 DEF Framed, Offsets
  <2>3. start[i + 1] <= start[n + 1]
    <3>1. i + 1 < n + 1 \/ i + 1 = n + 1
      BY <1>4
    <3> QED
      BY <1>3, <1>4, <1>6, <2>1, <2>2, <3>1 DEF Framed, Offsets
  <2> QED
    BY <1>6, <2>1, <2>2, <2>3, Sizes
<1>9. Layout(start, n)'
  <2>1. \A i \in 1..n : \A k \in 1..Size(i) :
          written'[start[i] + k] = [object |-> i, place |-> k]
    BY <1>3, <1>5, <1>8 DEF Framed, Layout
  <2>2. \A p \in 1..start[n + 1] : \E i \in 1..n :
          start[i] < p /\ p <= start[i + 1] /\ written'[p].object = i
    <3>1. SUFFICES ASSUME NEW p \in 1..start[n + 1]
                   PROVE  \E i \in 1..n :
                            start[i] < p /\ p <= start[i + 1] /\ written'[p].object = i
      OBVIOUS
    <3>2. p \in 1..Len(written)
      BY <1>4, <1>6
    <3>3. written'[p] = written[p]
      BY <1>5, <3>2
    <3> QED
      BY <1>3, <3>3 DEF Framed, Layout
  <2>3. Len(written') \in Nat /\ start[n + 1] <= Len(written')
    BY <1>1, <1>4, <1>5, <1>6, LenProperties DEF FramingTypes
  <2> QED
    BY <1>7, <2>1, <2>2, <2>3 DEF Layout
<1>10. ReadTo(start, n, r)'
  BY <1>1, <1>3, WriteReadTo
<1>11. n \in 0..count' /\ r \in 0..Len(written')
  BY <1>1, <1>4, <1>5, LenProperties DEF Writes, FramingTypes
<1>12. Framed(start, n, r)'
  BY <1>3, <1>9, <1>10 DEF Framed, Offsets
<1> QED
  BY <1>1, <1>3, <1>11, <1>12 DEF FramingInv

\* A whole object after whole objects.
LEMMA WriteWhole ==
  ASSUME FramingInv, Writes(serialize_object(count + 1)), cut = {}, cut' = {}
  PROVE  FramingInv'
<1>0. PICK m : m = count + 1
  OBVIOUS
<1>b. PICK bytes : bytes = serialize_object(count + 1)
  OBVIOUS
<1>1. PICK n \in 0..count, r \in 0..Len(written) : \E start \in [1..(n + 1) -> Nat] :
        Framed(start, n, r)
  BY DEF FramingInv
<1>2. PICK start \in [1..(n + 1) -> Nat] : Framed(start, n, r)
  BY <1>1
<1>3. /\ m \in Published /\ count \in Nat /\ n = count /\ m = n + 1 /\ count' = m
      /\ Len(written) = start[m] /\ start[m] \in Nat /\ r <= start[m] /\ r \in Nat
  <2>1. count \in Nat /\ m \in Published /\ count' = m /\ n \in Nat
    BY <1>0, <1>1 DEF Writes, FramingInv, FramingTypes
  <2>2. n = count /\ Len(written) = start[n + 1]
    BY <1>2 DEF Framed, Layout
  <2>3. n + 1 \in 1..(n + 1)
    BY <2>1
  <2> QED
    BY <1>0, <1>1, <1>2, <2>1, <2>2, <2>3
<1>4. /\ bytes \in Seq(Bytes) /\ Len(bytes) = Size(m) /\ Size(m) \in Nat /\ Size(m) >= 1
      /\ \A k \in 1..Size(m) : bytes[k] = [object |-> m, place |-> k]
  BY <1>0, <1>3, <1>b, Serialized, Sizes
<1>5. FramingTypes /\ FramingTypes'
  BY <1>0, <1>4, <1>b, WriteTypes DEF FramingInv
<1>6. /\ written \in Seq(Bytes) /\ written' = written \o bytes
      /\ Len(written') = start[m] + Size(m)
      /\ \A p \in 1..start[m] : written'[p] = written[p]
      /\ \A k \in 1..Size(m) : written'[start[m] + k] = [object |-> m, place |-> k]
  <2>1. written \in Seq(Bytes) /\ written' = written \o bytes
    BY <1>5, <1>b DEF FramingTypes, Writes
  <2>2. /\ Len(written \o bytes) = Len(written) + Len(bytes)
        /\ \A p \in 1..Len(written) : (written \o bytes)[p] = written[p]
        /\ \A k \in 1..Len(bytes) : (written \o bytes)[Len(written) + k] = bytes[k]
    <3>1. bytes \in Seq(Bytes)
      BY <1>4
    <3> QED
      BY <2>1, <3>1, Grown
  <2>3. /\ Len(written') = Len(written) + Len(bytes)
        /\ \A p \in 1..Len(written) : written'[p] = written[p]
        /\ \A k \in 1..Len(bytes) : written'[Len(written) + k] = bytes[k]
    BY <2>1, <2>2
  <2> QED
    BY <1>3, <1>4, <2>1, <2>3
<1>s. PICK start2 : start2 =
        [i \in 1..(m + 1) |-> IF i = m + 1 THEN start[m] + Size(m) ELSE start[i]]
  OBVIOUS
<1>7. /\ start2 \in [1..(m + 1) -> Nat] /\ start2[m + 1] = start[m] + Size(m)
      /\ \A i \in 1..m : start2[i] = start[i] /\ start[i] \in Nat /\ i \in 1..(m + 1)
  <2>1. \A i \in 1..m : start[i] \in Nat /\ i # m + 1 /\ i \in 1..(m + 1)
    BY <1>2, <1>3
  <2>2. start[m] + Size(m) \in Nat /\ m + 1 \in 1..(m + 1)
    BY <1>3, <1>4
  <2>3. start2[m + 1] = start[m] + Size(m)
    BY <1>s, <2>2
  <2>4. \A i \in 1..m : start2[i] = start[i]
    BY <1>s, <2>1
  <2>5. start2 \in [1..(m + 1) -> Nat]
    BY <1>2, <1>3, <1>s, <2>1, <2>2
  <2> QED
    BY <2>1, <2>3, <2>4, <2>5
<1>8. \A i \in 1..(m + 1) : i \in 1..m \/ i = m + 1
  BY <1>3
<1>9. \A i \in 1..m : start[i] <= start[m]
  <2>1. SUFFICES ASSUME NEW i \in 1..m PROVE start[i] <= start[m]
    OBVIOUS
  <2>2. i < m \/ i = m
    BY <1>3
  <2>3. i < m => start[i] < start[m]
    BY <1>2, <1>3 DEF Framed, Offsets
  <2> QED
    BY <1>3, <1>7, <2>2, <2>3
<1>10. Offsets(start2, m)
  <2>1. 1 \in 1..m
    BY <1>3
  <2>2. start2[1] = 0
    BY <1>2, <1>7, <2>1 DEF Framed, Offsets
  <2>3. ASSUME NEW i \in 1..m PROVE start2[i + 1] = start2[i] + Size(i)
    <3>1. CASE i = m
      BY <1>7, <2>3, <3>1
    <3>2. CASE i # m
      <4>1. i \in 1..n /\ i + 1 \in 1..m
        BY <1>3, <2>3, <3>2
      <4>2. start[i + 1] = start[i] + Size(i)
        BY <1>2, <4>1 DEF Framed, Offsets
      <4> QED
        BY <1>7, <2>3, <4>1, <4>2
    <3> QED
      BY <3>1, <3>2
  <2>4. ASSUME NEW i \in 1..(m + 1), NEW j \in 1..(m + 1), i < j PROVE start2[i] < start2[j]
    <3>1. i \in 1..m
      BY <1>3, <2>4
    <3>2. CASE j = m + 1
      <4>1. start[i] <= start[m] /\ start[m] < start[m] + Size(m) /\ start[i] \in Nat
        BY <1>3, <1>4, <1>7, <1>9, <3>1
      <4> QED
        BY <1>3, <1>4, <1>7, <3>1, <3>2, <4>1
    <3>3. CASE j \in 1..m
      BY <1>2, <1>3, <1>7, <2>4, <3>1, <3>3 DEF Framed, Offsets
    <3> QED
      BY <1>8, <3>2, <3>3
  <2> QED
    BY <1>7, <2>2, <2>3, <2>4 DEF Offsets
<1>11. Layout(start2, m)'
  <2>1. ASSUME NEW i \in 1..m, NEW k \in 1..Size(i)
        PROVE  written'[start2[i] + k] = [object |-> i, place |-> k]
    <3>1. CASE i = m
      BY <1>6, <1>7, <2>1, <3>1
    <3>2. CASE i # m
      <4>1. i \in 1..n /\ i + 1 \in 1..m /\ i \in Published
        BY <1>3, <2>1, <3>2 DEF Published
      <4>2. written[start[i] + k] = [object |-> i, place |-> k]
        BY <1>2, <2>1, <4>1 DEF Framed, Layout
      <4>3. start[i + 1] = start[i] + Size(i) /\ start[i + 1] <= start[m]
        BY <1>2, <1>9, <4>1 DEF Framed, Offsets
      <4>4. start[i] + k \in 1..start[m]
        BY <1>3, <1>7, <2>1, <4>1, <4>3, Sizes
      <4> QED
        BY <1>6, <1>7, <4>2, <4>4
    <3> QED
      BY <3>1, <3>2
  <2>2. ASSUME NEW p \in 1..start2[m + 1]
        PROVE  \E i \in 1..m : start2[i] < p /\ p <= start2[i + 1] /\ written'[p].object = i
    <3>1. CASE p <= start[m]
      <4>1. p \in 1..start[n + 1]
        BY <1>3, <1>7, <2>2, <3>1
      <4>2. PICK i \in 1..n : start[i] < p /\ p <= start[i + 1] /\ written[p].object = i
        BY <1>2, <4>1 DEF Framed, Layout
      <4>3. i \in 1..m /\ i + 1 \in 1..m
        BY <1>3, <4>2
      <4>4. written'[p] = written[p]
        BY <1>3, <1>6, <4>1
      <4> QED
        BY <1>7, <4>2, <4>3, <4>4
    <3>2. CASE ~(p <= start[m])
      <4>0. p - start[m] \in 1..Size(m) /\ p = start[m] + (p - start[m])
        BY <1>3, <1>4, <1>7, <2>2, <3>2
      <4>1. PICK k \in 1..Size(m) : p = start[m] + k
        BY <4>0
      <4>2. written'[p].object = m
        <5>1. written'[start[m] + k] = [object |-> m, place |-> k]
          BY <1>6
        <5>2. [object |-> m, place |-> k].object = m
          OBVIOUS
        <5>3. written'[p] = [object |-> m, place |-> k]
          BY <4>1, <5>1
        <5> QED
          BY <5>2, <5>3
      <4>3. p <= start2[m + 1] /\ start[m] < p /\ m \in 1..m
        BY <1>3, <1>7, <2>2, <3>2
      <4> QED
        BY <1>7, <4>2, <4>3
    <3> QED
      BY <3>1, <3>2
  <2>3. count' = m /\ Len(written') = start2[m + 1] /\ start2[m + 1] <= Len(written')
    BY <1>3, <1>4, <1>6, <1>7
  <2> QED
    BY <2>1, <2>2, <2>3 DEF Layout
<1>12. ReadTo(start2, m, r)'
  <2>0. UNCHANGED <<got, buffer, reader, objects>>
    BY DEF Writes
  <2>1. ReadTo(start, n, r)'
    BY <1>2, <1>4, <1>5, WriteReadTo, <1>b
  <2> DEFINE l == Len(objects)
  <2>2. l \in Nat /\ l <= n
    BY <1>2, <1>5, LenProperties DEF Framed, ReadTo, FramingTypes
  <2>3. l + 1 \in 1..m /\ start2[l + 1] = start[l + 1] /\ l + 2 \in 1..(m + 1)
    BY <1>3, <1>7, <2>2
  <2>4. start[l + 1] <= r /\ buffer' = SubSeq(written', start[l + 1] + 1, r)
    BY <2>0, <2>1 DEF ReadTo
  <2>5. \A i \in 1..l : objects[i] = i
    BY <2>0, <2>1, <2>2 DEF ReadTo
  <2>6. ASSUME reader = "reading" PROVE r < start2[l + 2]
    <3>1. CASE l < n
      <4>1. r < start[l + 2]
        BY <2>0, <2>1, <2>6, <3>1 DEF ReadTo
      <4>2. l + 2 \in 1..m
        BY <1>3, <2>2, <3>1
      <4> QED
        BY <1>7, <4>1, <4>2
    <3>2. CASE l = n
      <4>1. l + 2 = m + 1
        BY <1>3, <3>2
      <4> QED
        BY <1>3, <1>4, <1>7, <4>1
    <3> QED
      BY <2>2, <3>1, <3>2
  <2>7. got' = 1..r
    BY <2>1 DEF ReadTo
  <2>8. l <= m
    BY <1>3, <2>2
  <2> HIDE DEF l
  <2>9. /\ Len(objects') = l /\ got' = 1..r /\ l <= m
        /\ \A i \in 1..l : objects'[i] = i
        /\ start2[l + 1] <= r /\ buffer' = SubSeq(written', start2[l + 1] + 1, r)
        /\ reader' = "reading" => r < start2[l + 2]
    BY <2>0, <2>3, <2>4, <2>5, <2>6, <2>7, <2>8 DEF l
  <2> QED
    BY <2>9 DEF ReadTo
<1>13. m \in 0..count' /\ r \in 0..Len(written')
  BY <1>3, <1>4, <1>6
<1>14. Framed(start2, m, r)'
  BY <1>10, <1>11, <1>12 DEF Framed, Offsets
<1> QED
  BY <1>5, <1>7, <1>13, <1>14 DEF FramingInv

LEMMA WriteInv == FramingInv /\ (write_all \/ write_timeout) => FramingInv'
<1> SUFFICES ASSUME FramingInv, write_all \/ write_timeout PROVE FramingInv'
  OBVIOUS
<1>1. PICK bytes \in Seq(Bytes) :
        /\ Writes(bytes)
        /\ \/ bytes = serialize_object(count + 1) /\ cut' = cut
           \/ cut' = cut \cup {count + 1}
  BY WriteSteps DEF FramingInv
<1>2. CASE cut' = {}
  <2>1. cut = {} /\ bytes = serialize_object(count + 1)
    BY <1>1, <1>2
  <2> QED
    BY <1>1, <1>2, <2>1, WriteWhole
<1>3. CASE cut' # {}
  BY <1>1, <1>3, WriteAfterCut
<1> QED
  BY <1>2, <1>3

-----------------------------------------------------------------------------
(* The reader's steps.                                                     *)

LEMMA Framed0 ==
  ASSUME FramingInv
  PROVE  \E n \in 0..count, r \in 0..Len(written) : \E start \in [1..(n + 1) -> Nat] :
           /\ Framed(start, n, r) /\ n \in Nat /\ r \in Nat /\ r <= Len(written)
           /\ \A i \in 1..n : i \in Published
<1>1. count \in 0..Len(BodySize) /\ Len(written) \in Nat /\ Len(BodySize) \in Nat
  BY Sizes, LenProperties DEF FramingInv, FramingTypes
<1>2. PICK n \in 0..count, r \in 0..Len(written) : \E start \in [1..(n + 1) -> Nat] :
        Framed(start, n, r)
  BY DEF FramingInv
<1>3. n \in Nat /\ r \in Nat /\ r <= Len(written) /\ \A i \in 1..n : i \in Published
  BY <1>1, <1>2 DEF Published
<1> QED
  BY <1>2, <1>3

\* A chunk continues where the last one ended.
LEMMA ReadChunkInv ==
  ASSUME ~Reordering, FramingInv, ReadChunk
  PROVE  FramingInv'
<1>1. PICK a \in 1..Len(written), b \in 1..Len(written) : a <= b /\ read_chunk(a, b)
  BY DEF ReadChunk
<1>2. PICK n \in 0..count, r \in 0..Len(written) : \E start \in [1..(n + 1) -> Nat] :
        /\ Framed(start, n, r) /\ n \in Nat /\ r \in Nat /\ r <= Len(written)
        /\ \A i \in 1..n : i \in Published
  BY Framed0
<1>3. PICK start \in [1..(n + 1) -> Nat] : Framed(start, n, r) /\ n \in Nat /\ r \in Nat
  BY <1>2
<1>4. /\ written \in Seq(Bytes) /\ Len(written) \in Nat /\ buffer \in Seq(Bytes)
      /\ got = 1..r /\ Len(objects) \in Nat
  BY <1>3, LenProperties DEF FramingInv, FramingTypes, Framed, ReadTo
<1>5. a = r + 1 /\ b \in Nat /\ r <= b /\ b <= Len(written)
  <2>1. a..b \cap 1..r = {} /\ 1..(a - 1) \subseteq 1..r
    BY <1>1, <1>4 DEF read_chunk, Arrives
  <2>2. a \in a..b
    BY <1>1
  <2>3. a > r
    BY <1>1, <1>3, <2>1, <2>2
  <2>4. a = 1 \/ a - 1 \in 1..(a - 1)
    BY <1>1
  <2>5. a - 1 <= r
    BY <1>1, <1>3, <2>1, <2>4
  <2> QED
    BY <1>1, <1>3, <1>4, <2>3, <2>5
<1>6. got' = 1..b
  <2>1. got' = 1..r \cup (r + 1)..b
    BY <1>1, <1>4, <1>5 DEF read_chunk
  <2> QED
    BY <1>3, <1>5, <2>1
<1>7. /\ UNCHANGED <<written, count, cut, objects>> /\ reader' = "parsing"
      /\ buffer' = buffer \o SubSeq(written, r + 1, b)
  BY <1>1, <1>5 DEF read_chunk
<1>8. SubSeq(written, r + 1, b) \in Seq(Bytes)
  BY <1>3, <1>4, <1>5, Piece
<1>9. FramingTypes'
  BY <1>4, <1>7, <1>8, ConcatProperties DEF FramingInv, FramingTypes
<1>10. ASSUME Len(objects) < n \/ cut = {}
       PROVE  /\ start[Len(objects) + 1] <= b
              /\ buffer' = SubSeq(written, start[Len(objects) + 1] + 1, b)
  <2> DEFINE s == start[Len(objects) + 1]
  <2>1. s <= r /\ buffer = SubSeq(written, s + 1, r)
    BY <1>3, <1>10 DEF Framed, ReadTo
  <2>2. Len(objects) + 1 \in 1..(n + 1)
    BY <1>3, <1>4, <1>10 DEF Framed, ReadTo
  <2>3. s \in Nat
    BY <1>3, <2>2
  <2> HIDE DEF s
  <2>4. /\ s + 1 \in 1..Len(written) + 1 /\ r \in ((s + 1) - 1)..Len(written)
        /\ b \in r..Len(written)
    BY <1>3, <1>4, <1>5, <2>1, <2>3
  <2>5. SubSeq(written, s + 1, r) \o SubSeq(written, r + 1, b) = SubSeq(written, s + 1, b)
    BY <1>4, <2>4, ConcatAdjacentSubSeq
  <2>6. s <= b /\ buffer' = SubSeq(written, s + 1, b)
    BY <1>3, <1>5, <1>7, <2>1, <2>3, <2>5
  <2> QED
    BY <2>6 DEF s
<1>11. ReadTo(start, n, b)'
  BY <1>3, <1>6, <1>7, <1>10 DEF Framed, ReadTo
<1>12. Layout(start, n)'
  BY <1>3, <1>7 DEF Framed, Layout
<1>13. Framed(start, n, b)'
  BY <1>3, <1>11, <1>12 DEF Framed, Offsets
<1>14. b \in 0..Len(written') /\ n \in 0..count'
  BY <1>2, <1>5, <1>7
<1> QED
  BY <1>3, <1>9, <1>13, <1>14 DEF FramingInv

\* Before the cut the buffer begins with the next object, as far as it has come.
LEMMA BufferBegins ==
  ASSUME FramingTypes, NEW n \in Nat, NEW r \in Nat, r <= Len(written),
         NEW start \in [1..(n + 1) -> Nat],
         Framed(start, n, r), Len(objects) < n, \A i \in 1..n : i \in Published
  PROVE  LET m == Len(objects) + 1
         IN  /\ m \in 1..n /\ m \in Published
             /\ start[m] \in Nat /\ start[m + 1] \in Nat /\ start[m + 1] = start[m] + Size(m)
             /\ Len(buffer) \in Nat /\ r = start[m] + Len(buffer)
             /\ \A k \in 1..Size(m) : k <= Len(buffer) => buffer[k] = [object |-> m, place |-> k]
<1>0. PICK m : m = Len(objects) + 1
  OBVIOUS
<1>1. /\ m \in 1..n /\ m \in 1..(n + 1) /\ m + 1 \in 1..(n + 1) /\ m \in Published
      /\ written \in Seq(Bytes) /\ Len(written) \in Nat
  BY <1>0, LenProperties DEF FramingTypes
<1>2. start[m] \in Nat /\ start[m + 1] \in Nat /\ start[m + 1] = start[m] + Size(m)
  BY <1>1 DEF Framed, Offsets
<1>3. start[m] <= r /\ buffer = SubSeq(written, start[m] + 1, r)
  BY <1>0 DEF Framed, ReadTo
<1>4. /\ Len(buffer) = r + 1 - (start[m] + 1)
      /\ \A k \in 1..(r + 1 - (start[m] + 1)) : buffer[k] = written[(start[m] + 1) + k - 1]
  <2>1. PICK a \in Nat : a = start[m] + 1
    BY <1>2
  <2>2. a >= 1 /\ a <= r + 1 /\ buffer = SubSeq(written, a, r)
    <3>1. buffer = SubSeq(written, a, r)
      BY <1>3, <2>1
    <3>2. start[m] \in Nat /\ start[m] <= r
      BY <1>2, <1>3
    <3>3. a >= 1 /\ a <= r + 1
      BY <2>1, <3>2
    <3> QED
      BY <3>1, <3>3
  <2>3. /\ Len(SubSeq(written, a, r)) = r + 1 - a
        /\ \A k \in 1..(r + 1 - a) : SubSeq(written, a, r)[k] = written[a + k - 1]
    BY <1>1, <2>2, Piece
  <2>4. Len(buffer) = r + 1 - a /\ \A k \in 1..(r + 1 - a) : buffer[k] = written[a + k - 1]
    BY <2>2, <2>3
  <2> QED
    BY <2>1, <2>4
<1>5. r + 1 - (start[m] + 1) = r - start[m] /\ r - start[m] \in Nat
  BY <1>2, <1>3
<1>6. ASSUME NEW k \in 1..Size(m), k <= Len(buffer)
      PROVE  buffer[k] = [object |-> m, place |-> k]
  <2>1. Size(m) \in Nat
    BY <1>1, Sizes
  <2>2. (start[m] + 1) + k - 1 = start[m] + k /\ k \in 1..(r + 1 - (start[m] + 1))
    BY <1>2, <1>4, <1>5, <1>6, <2>1
  <2>3. buffer[k] = written[start[m] + k]
    BY <1>4, <2>2
  <2>4. written[start[m] + k] = [object |-> m, place |-> k]
    BY <1>1 DEF Framed, Layout
  <2> QED
    BY <2>3, <2>4
<1>7. Len(buffer) \in Nat /\ r = start[m] + Len(buffer)
  BY <1>2, <1>4, <1>5
<1> QED
  BY <1>0, <1>1, <1>2, <1>6, <1>7

\* Then the length is read for what it is.
LEMMA LengthRead ==
  ASSUME NEW m \in Published, buffer \in Seq(Bytes), Len(buffer) >= HeaderSize,
         \A k \in 1..Size(m) : k <= Len(buffer) => buffer[k] = [object |-> m, place |-> k]
  PROVE  TotalLength = {BodySize[m]}
<1>1. /\ HeaderSize \in Nat /\ HeaderSize >= 1 /\ Len(buffer) \in Nat
      /\ \A i \in Published : Size(i) \in Nat /\ HeaderSize < Size(i)
  BY Sizes, LenProperties
<1>2. /\ Header \in Seq(Bytes) /\ Len(Header) = HeaderSize
      /\ \A k \in 1..HeaderSize : Header[k] = buffer[k]
  <2>1. HeaderSize + 1 - 1 = HeaderSize /\ \A k \in 1..HeaderSize : 1 + k - 1 = k
    BY <1>1
  <2> QED
    BY <1>1, <2>1, Piece DEF Header
<1>3. ASSUME NEW i \in Published
      PROVE  LET h == SubSeq(serialize_object(i), 1, HeaderSize)
             IN  /\ h \in Seq(Bytes) /\ Len(h) = HeaderSize
                 /\ \A k \in 1..HeaderSize : h[k] = [object |-> i, place |-> k]
  <2> DEFINE o == serialize_object(i)
             h == SubSeq(o, 1, HeaderSize)
  <2>1. /\ o \in Seq(Bytes) /\ Len(o) = Size(i)
        /\ \A k \in 1..Size(i) : o[k] = [object |-> i, place |-> k]
    BY <1>3, Serialized
  <2>2. HeaderSize + 1 - 1 = HeaderSize /\ \A k \in 1..HeaderSize : 1 + k - 1 = k /\ k \in 1..Size(i)
    BY <1>1, <1>3
  <2> HIDE DEF o
  <2>3. h \in Seq(Bytes) /\ Len(h) = HeaderSize /\ \A k \in 1..HeaderSize : h[k] = o[k]
    BY <1>1, <1>3, <2>1, <2>2, Piece
  <2>4. \A k \in 1..HeaderSize : h[k] = [object |-> i, place |-> k]
    BY <2>1, <2>2, <2>3
  <2> HIDE DEF h
  <2>5. /\ h \in Seq(Bytes) /\ Len(h) = HeaderSize
        /\ \A k \in 1..HeaderSize : h[k] = [object |-> i, place |-> k]
    BY <2>3, <2>4
  <2> QED
    BY <2>5 DEF h, o
<1>4. \A k \in 1..HeaderSize : Header[k] = [object |-> m, place |-> k]
  <2>1. \A k \in 1..HeaderSize : k \in 1..Size(m) /\ k <= Len(buffer)
    BY <1>1
  <2> QED
    BY <1>2, <2>1
<1>5. Header = SubSeq(serialize_object(m), 1, HeaderSize)
  <2>1. PICK h : h = SubSeq(serialize_object(m), 1, HeaderSize)
    OBVIOUS
  <2>2. /\ h \in Seq(Bytes) /\ Len(h) = HeaderSize
        /\ \A k \in 1..HeaderSize : h[k] = [object |-> m, place |-> k]
    BY <1>3, <2>1
  <2>3. Header = h
    BY <1>2, <1>4, <2>2, SeqEqual
  <2> QED
    BY <2>1, <2>3
<1>6. ASSUME NEW i \in Published, Header = SubSeq(serialize_object(i), 1, HeaderSize)
      PROVE  i = m
  <2>1. 1 \in 1..HeaderSize
    BY <1>1
  <2>2. Header[1] = [object |-> i, place |-> 1] /\ Header[1] = [object |-> m, place |-> 1]
    BY <1>3, <1>4, <1>6, <2>1
  <2>3. [object |-> i, place |-> 1].object = i /\ [object |-> m, place |-> 1].object = m
    OBVIOUS
  <2> QED
    BY <2>2, <2>3
<1>7. {i \in Published : Header = SubSeq(serialize_object(i), 1, HeaderSize)} = {m}
  BY <1>5, <1>6
<1> QED
  BY <1>7 DEF TotalLength

\* The first disjunct of deserialize_object that fits, seen from outside: it
\* waits, or takes one object of some length from the buffer.
TakesObject(length) ==
    /\ Len(buffer) >= HeaderSize /\ length \in TotalLength /\ ~Incomplete(length)
    /\ Parsed(SubSeq(buffer, 1, HeaderSize + length))
    /\ buffer' = SubSeq(buffer, HeaderSize + length + 1, Len(buffer))

Waits ==
    /\ Wait
    /\ Len(buffer) < HeaderSize \/ \E length \in TotalLength : Incomplete(length)

LEMMA DeserializeSteps ==
  ASSUME FramingTypes, deserialize_object
  PROVE  /\ Waits \/ \E length \in Nat : TakesObject(length)
         /\ UNCHANGED <<written, count, cut, got>>
<1>1. Len(buffer) \in Nat /\ HeaderSize \in Nat /\ \A i \in Published : BodySize[i] \in Nat
  BY Sizes, LenProperties DEF FramingTypes
<1>2. TotalLength \subseteq Nat
  <2> DEFINE intact == {i \in Published : Header = SubSeq(serialize_object(i), 1, HeaderSize)}
  <2>1. {BodySize[i] : i \in intact} \subseteq Nat
    BY <1>1
  <2>2. TotalLength = IF intact # {} THEN {BodySize[i] : i \in intact} ELSE Misread
    BY DEF TotalLength
  <2> QED
    BY <2>1, <2>2, FramingAssumption
<1>3. CASE Len(buffer) < HeaderSize
  BY <1>3 DEF deserialize_object, Waits
<1>4. CASE ~(Len(buffer) < HeaderSize)
  <2>1. PICK length \in TotalLength :
          IF Incomplete(length)
          THEN Wait
          ELSE /\ Parsed(SubSeq(buffer, 1, HeaderSize + length))
               /\ buffer' = SubSeq(buffer, HeaderSize + length + 1, Len(buffer))
    BY <1>4 DEF deserialize_object
  <2>2. CASE Incomplete(length)
    BY <2>1, <2>2 DEF deserialize_object, Waits
  <2>3. CASE ~Incomplete(length)
    <3>1. TakesObject(length) /\ length \in Nat
      BY <1>1, <1>2, <1>4, <2>1, <2>3 DEF TakesObject
    <3> QED
      BY <3>1 DEF deserialize_object
  <2> QED
    BY <2>2, <2>3
<1> QED
  BY <1>3, <1>4

LEMMA TakesTypes ==
  ASSUME FramingTypes, NEW length \in Nat, TakesObject(length)
  PROVE  /\ buffer' \in Seq(Bytes)
         /\ \/ objects' = objects
            \/ \E x \in Nat : objects' = Append(objects, x)
<1>1. Len(buffer) \in Nat /\ HeaderSize \in Nat /\ buffer \in Seq(Bytes)
  BY Sizes, LenProperties DEF FramingTypes
<1>2. buffer' \in Seq(Bytes)
  <2>1. PICK a \in Nat : a = HeaderSize + length + 1
    BY <1>1
  <2>2. a >= 1 /\ buffer' = SubSeq(buffer, a, Len(buffer))
    BY <1>1, <2>1 DEF TakesObject
  <2> QED
    BY <1>1, <2>2, Piece
<1>3. \A i \in Published : i \in Nat
  BY Sizes DEF Published
<1>4. objects' = objects \/ \E x \in Nat : objects' = Append(objects, x)
  BY <1>3 DEF TakesObject, Parsed
<1> QED
  BY <1>2, <1>4

LEMMA DeserializeTypes == FramingTypes /\ deserialize_object => FramingTypes'
<1> SUFFICES ASSUME FramingTypes, deserialize_object PROVE FramingTypes'
  OBVIOUS
<1>1. UNCHANGED <<written, count, cut, got>>
  BY DEF deserialize_object
<1>2. CASE Waits
  BY <1>1, <1>2 DEF Waits, Wait, FramingTypes
<1>3. CASE \E length \in Nat : TakesObject(length)
  <2>1. buffer' \in Seq(Bytes) /\ (objects' = objects \/ \E x \in Nat : objects' = Append(objects, x))
    BY <1>3, TakesTypes
  <2>2. objects \in Seq(Nat)
    BY DEF FramingTypes
  <2>3. \A x \in Nat : Append(objects, x) \in Seq(Nat)
    BY <2>2, AppendProperties
  <2> QED
    BY <1>1, <2>1, <2>2, <2>3 DEF FramingTypes
<1> QED
  BY <1>2, <1>3, DeserializeSteps

\* Before the cut the reader takes exactly the next object, once it is there.
LEMMA TakesNext ==
  ASSUME FramingTypes, NEW m \in Published, NEW length \in Nat, TakesObject(length),
         \A k \in 1..Size(m) : k <= Len(buffer) => buffer[k] = [object |-> m, place |-> k]
  PROVE  /\ Len(buffer) >= Size(m)
         /\ objects' = Append(objects, m) /\ reader' = "parsing"
         /\ buffer' = SubSeq(buffer, Size(m) + 1, Len(buffer))
<1>1. buffer \in Seq(Bytes) /\ Len(buffer) \in Nat /\ HeaderSize \in Nat /\ Size(m) \in Nat
  BY Sizes, LenProperties DEF FramingTypes
<1>2. length = BodySize[m] /\ HeaderSize + length = Size(m)
  BY <1>1, LengthRead, Sizes DEF TakesObject
<1>3. Len(buffer) >= Size(m)
  BY <1>1, <1>2 DEF TakesObject, Incomplete
<1>4. SubSeq(buffer, 1, Size(m)) = serialize_object(m)
  <2>1. PICK x : x = SubSeq(buffer, 1, Size(m))
    OBVIOUS
  <2>2. PICK y : y = serialize_object(m)
    OBVIOUS
  <2>3. Size(m) + 1 - 1 = Size(m) /\ \A k \in 1..Size(m) : 1 + k - 1 = k /\ k <= Len(buffer)
    BY <1>1, <1>3
  <2>4. x \in Seq(Bytes) /\ Len(x) = Size(m) /\ \A k \in 1..Size(m) : x[k] = buffer[k]
    BY <1>1, <1>3, <2>1, <2>3, Piece
  <2>5. /\ y \in Seq(Bytes) /\ Len(y) = Size(m)
        /\ \A k \in 1..Size(m) : y[k] = [object |-> m, place |-> k]
    BY <2>2, Serialized
  <2>6. \A k \in 1..Size(m) : x[k] = y[k]
    BY <2>3, <2>4, <2>5
  <2>7. x = y
    BY <2>4, <2>5, <2>6, SeqEqual
  <2> QED
    BY <2>1, <2>2, <2>7
<1>5. Parsed(serialize_object(m))
  BY <1>2, <1>4 DEF TakesObject
<1>6. ASSUME NEW i \in Published, serialize_object(m) = serialize_object(i) PROVE i = m
  <2>1. 1 \in 1..Size(i) /\ 1 \in 1..Size(m)
    BY Sizes
  <2>2. /\ serialize_object(i)[1] = [object |-> i, place |-> 1]
        /\ serialize_object(m)[1] = [object |-> m, place |-> 1]
    BY <1>6, <2>1, Serialized
  <2>3. [object |-> i, place |-> 1].object = i /\ [object |-> m, place |-> 1].object = m
    OBVIOUS
  <2> QED
    BY <1>6, <2>2, <2>3
<1>7. objects' = Append(objects, m) /\ reader' = "parsing"
  BY <1>5, <1>6 DEF Parsed
<1>8. buffer' = SubSeq(buffer, Size(m) + 1, Len(buffer))
  BY <1>2 DEF TakesObject
<1> QED
  BY <1>3, <1>7, <1>8

LEMMA DeserializeInv == FramingInv /\ deserialize_object => FramingInv'
<1> SUFFICES ASSUME FramingInv, deserialize_object PROVE FramingInv'
  OBVIOUS
<1>1. FramingTypes /\ FramingTypes'
  BY DeserializeTypes DEF FramingInv
<1>2. PICK n \in 0..count, r \in 0..Len(written) : \E start \in [1..(n + 1) -> Nat] :
        /\ Framed(start, n, r) /\ n \in Nat /\ r \in Nat /\ r <= Len(written)
        /\ \A i \in 1..n : i \in Published
  BY Framed0
<1>3. PICK start \in [1..(n + 1) -> Nat] :
        /\ Framed(start, n, r) /\ n \in Nat /\ r \in Nat /\ r <= Len(written)
        /\ \A i \in 1..n : i \in Published
  BY <1>2
<1>4. /\ UNCHANGED <<written, count, cut, got>>
      /\ Waits \/ \E length \in Nat : TakesObject(length)
  BY <1>1, DeserializeSteps
<1>5. SUFFICES ReadTo(start, n, r)'
  <2>1. Layout(start, n)'
    BY <1>3, <1>4 DEF Framed, Layout
  <2>2. n \in 0..count' /\ r \in 0..Len(written')
    BY <1>2, <1>4
  <2>3. ReadTo(start, n, r)' => Framed(start, n, r)'
    BY <1>3, <2>1 DEF Framed, Offsets
  <2> QED
    BY <1>1, <1>3, <2>2, <2>3, <1>5 DEF FramingInv
<1>6. PICK l \in Nat : l = Len(objects)
  BY <1>1, LenProperties DEF FramingTypes
<1>7. got' = 1..r /\ \A i \in 1..l : i <= n => objects[i] = i
  BY <1>3, <1>4, <1>6 DEF Framed, ReadTo
<1>8. CASE l < n
  <2>1. PICK m : m = l + 1
    OBVIOUS
  <2>2. /\ m \in 1..n /\ m \in Published
        /\ start[m] \in Nat /\ start[m + 1] \in Nat /\ start[m + 1] = start[m] + Size(m)
        /\ Len(buffer) \in Nat /\ r = start[m] + Len(buffer)
        /\ \A k \in 1..Size(m) : k <= Len(buffer) => buffer[k] = [object |-> m, place |-> k]
    BY <1>1, <1>3, <1>6, <1>8, <2>1, BufferBegins
  <2>3. buffer = SubSeq(written, start[m] + 1, r) /\ start[m] <= r
    BY <1>3, <1>6, <1>8, <2>1 DEF Framed, ReadTo
  <2>4. CASE Waits
    <3>1. objects' = objects /\ buffer' = buffer
      BY <2>4 DEF Waits, Wait
    <3>2. r < start[m + 1]
      <4>1. CASE Len(buffer) < HeaderSize
        BY <2>2, <4>1, Sizes
      <4>2. CASE ~(Len(buffer) < HeaderSize)
        <5>1. Len(buffer) >= HeaderSize /\ buffer \in Seq(Bytes)
          BY <1>1, <2>2, <4>2, Sizes DEF FramingTypes
        <5>2. TotalLength = {BodySize[m]}
          BY <2>2, <5>1, LengthRead
        <5>3. Incomplete(BodySize[m])
          BY <2>4, <4>2, <5>2 DEF Waits
        <5> QED
          BY <2>2, <5>3, Sizes DEF Incomplete
      <4> QED
        BY <4>1, <4>2
    <3>3. l + 1 = m /\ l + 2 = m + 1
      BY <2>1
    <3>4. cut = {} => l <= n
      BY <1>8, <1>3
    <3> QED
      BY <1>4, <1>6, <1>7, <2>3, <3>1, <3>2, <3>3, <3>4 DEF ReadTo
  <2>5. CASE \E length \in Nat : TakesObject(length)
    <3>1. /\ Len(buffer) >= Size(m)
          /\ objects' = Append(objects, m) /\ reader' = "parsing"
          /\ buffer' = SubSeq(buffer, Size(m) + 1, Len(buffer))
      BY <1>1, <2>2, <2>5, TakesNext
    <3>2. /\ Len(objects') = m /\ objects'[m] = m
          /\ \A i \in 1..m : i \in 1..l \/ i = m
          /\ \A i \in 1..l : objects'[i] = objects[i]
      BY <1>1, <1>6, <2>1, <3>1, AppendProperties DEF FramingTypes
    <3>3. \A i \in 1..m : i <= n => objects'[i] = i
      BY <1>7, <3>2
    <3>4. start[m + 1] <= r
      <4>1. Size(m) \in Nat
        BY <2>2, Sizes
      <4> QED
        BY <2>2, <3>1, <4>1
    <3>5. buffer' = SubSeq(written, start[m + 1] + 1, r)
      <4>0. PICK z \in Nat : z = Size(m)
        BY <2>2, Sizes
      <4>a. PICK a \in Nat : a = start[m] + 1
        BY <2>2
      <4>c. PICK c \in Nat : c = z + 1
        OBVIOUS
      <4>d. PICK d \in Nat : d = Len(buffer)
        BY <2>2
      <4>1. a = start[m] + 1 /\ c = Size(m) + 1 /\ d = Len(buffer)
        BY <4>0, <4>a, <4>c, <4>d
      <4>2. buffer = SubSeq(written, a, r) /\ buffer' = SubSeq(buffer, c, d)
        BY <2>3, <3>1, <4>1
      <4>3. a >= 1 /\ a <= r + 1 /\ c >= 1 /\ d <= r + 1 - a
        <5>1. r = start[m] + d /\ start[m] \in Nat
          BY <2>2, <4>d
        <5> QED
          BY <4>a, <4>c, <5>1
      <4>4. written \in Seq(Bytes)
        BY <1>1 DEF FramingTypes
      <4>5. SubSeq(SubSeq(written, a, r), c, d) = SubSeq(written, a + c - 1, a + d - 1)
        BY <1>3, <4>3, <4>4, PieceOfPiece
      <4>6. a + c - 1 = start[m + 1] + 1 /\ a + d - 1 = r
        <5>1. PICK x \in Nat : x = start[m]
          BY <2>2
        <5>2. r = x + d /\ start[m + 1] = x + z /\ a = x + 1
          BY <2>2, <4>0, <4>a, <4>d, <5>1
        <5>3. a + c - 1 = x + z + 1 /\ a + d - 1 = x + d
          BY <4>c, <5>2
        <5> QED
          BY <5>2, <5>3
      <4> QED
        BY <4>2, <4>5, <4>6
    <3>6. m <= n
      BY <2>2
    <3> QED
      BY <1>4, <1>7, <3>1, <3>2, <3>3, <3>4, <3>5, <3>6 DEF ReadTo
  <2> QED
    BY <1>4, <2>4, <2>5
<1>9. CASE ~(l < n) /\ cut = {}
  <2>1. l = n
    BY <1>3, <1>6, <1>9 DEF Framed, ReadTo
  <2>2. start[n + 1] <= r /\ buffer = SubSeq(written, start[n + 1] + 1, r)
        /\ Len(written) = start[n + 1] /\ start[n + 1] \in Nat
    <3>1. n + 1 \in 1..(n + 1)
      BY <1>3
    <3> QED
      BY <1>3, <1>6, <1>9, <2>1, <3>1 DEF Framed, ReadTo, Layout
  <2>3. r < start[n + 1] + 1
    BY <1>3, <2>2
  <2>4. buffer = <<>>
    <3>1. PICK a \in Nat : a = start[n + 1] + 1
      BY <2>2
    <3>2. SubSeq(written, a, r) = <<>>
      BY <1>3, <2>3, <3>1, SubSeqEmpty
    <3> QED
      BY <2>2, <3>1, <3>2
  <2>5. Len(buffer) = 0
    BY <2>4
  <2>6. Waits
    BY <1>4, <2>5, Sizes DEF TakesObject
  <2>7. objects' = objects /\ buffer' = buffer
    BY <2>6 DEF Waits, Wait
  <2>8. Len(objects') = l /\ l <= n /\ ~(l < n) /\ l + 1 = n + 1
    <3>1. Len(objects') = l
      BY <1>6, <2>7
    <3>2. n \in Nat
      BY <1>3
    <3> QED
      BY <2>1, <3>1, <3>2
  <2>9. /\ start[l + 1] <= r /\ buffer' = SubSeq(written', start[l + 1] + 1, r)
        /\ \A i \in 1..l : i <= n => objects'[i] = i
    BY <1>4, <1>7, <2>1, <2>2, <2>7
  <2> QED
    BY <1>7, <2>8, <2>9 DEF ReadTo
<1>10. CASE ~(l < n) /\ cut # {}
  <2>1. objects' = objects \/ \E x \in Nat : objects' = Append(objects, x)
    BY <1>1, <1>4, TakesTypes DEF Waits, Wait
  <2>2. /\ Len(objects') \in Nat /\ Len(objects') >= l
        /\ \A i \in 1..l : objects'[i] = objects[i]
    <3>1. objects \in Seq(Nat)
      BY <1>1 DEF FramingTypes
    <3>2. \A x \in Nat : /\ Len(Append(objects, x)) = l + 1
                         /\ \A i \in 1..l : Append(objects, x)[i] = objects[i]
      BY <1>6, <3>1, AppendProperties
    <3> QED
      BY <1>6, <2>1, <3>2
  <2>3. \A i \in 1..Len(objects') : i <= n => objects'[i] = i
    <3>1. SUFFICES ASSUME NEW i \in 1..Len(objects'), i <= n PROVE objects'[i] = i
      OBVIOUS
    <3>2. i \in 1..l
      BY <1>3, <1>6, <1>10, <2>2, <3>1
    <3> QED
      BY <1>7, <2>2, <3>1, <3>2
  <2>4. ~(Len(objects') < n)
    BY <1>3, <1>6, <1>10, <2>2
  <2> QED
    BY <1>4, <1>7, <1>10, <2>3, <2>4 DEF ReadTo
<1> QED
  BY <1>8, <1>9, <1>10

LEMMA FramingNextInv == ~Reordering => (FramingInv /\ [FramingNext]_framingVars => FramingInv')
<1> SUFFICES ASSUME ~Reordering, FramingInv, [FramingNext]_framingVars PROVE FramingInv'
  OBVIOUS
<1>1. CASE write_all \/ write_timeout
  BY <1>1, WriteInv
<1>2. CASE ReadChunk
  BY <1>2, ReadChunkInv
<1>3. CASE deserialize_object
  BY <1>3, DeserializeInv
<1>4. CASE read_end \/ UNCHANGED framingVars
  <2>1. /\ UNCHANGED <<written, count, cut, got, buffer, objects>>
        /\ reader' = reader \/ reader' = "done"
    BY <1>4 DEF read_end, framingVars
  <2>2. PICK n \in 0..count, r \in 0..Len(written) : \E start \in [1..(n + 1) -> Nat] :
          Framed(start, n, r)
    BY DEF FramingInv
  <2>3. PICK start \in [1..(n + 1) -> Nat] : Framed(start, n, r)
    BY <2>2
  <2>4. Layout(start, n)' /\ FramingTypes'
    BY <2>1, <2>3 DEF Framed, Layout, FramingInv, FramingTypes
  <2>5. reader' = "reading" => reader = "reading"
    BY <2>1
  <2>6. ReadTo(start, n, r)'
    BY <2>1, <2>3, <2>5 DEF Framed, ReadTo
  <2>7. Framed(start, n, r)' /\ n \in 0..count' /\ r \in 0..Len(written')
    BY <2>1, <2>3, <2>4, <2>6 DEF Framed, Offsets
  <2> QED
    BY <2>3, <2>4, <2>7 DEF FramingInv
<1> QED
  BY <1>1, <1>2, <1>3, <1>4 DEF FramingNext

-----------------------------------------------------------------------------
(* What comes out.                                                         *)

\* If chunks come in order, the objects written before any write was cut short
\* come out of the reader intact, each once and in order, wherever the stream
\* is split (engine.rs:716-772, subscriber.rs:515-545, 807-915).
THEOREM HandedOverAlwaysInOrder ==
  ~Reordering => (FramingSpec => []HandedOverInOrder)
<1> SUFFICES ASSUME ~Reordering PROVE FramingSpec => []HandedOverInOrder
  OBVIOUS
<1>1. FramingInv => HandedOverInOrder
  <2>1. SUFFICES ASSUME FramingInv, NEW i \in 1..Len(objects), i < FirstCut PROVE objects[i] = i
    BY DEF HandedOverInOrder
  <2>2. PICK n \in 0..count, r \in 0..Len(written) : \E start \in [1..(n + 1) -> Nat] :
          /\ Framed(start, n, r) /\ n \in Nat /\ r \in Nat /\ r <= Len(written)
          /\ \A j \in 1..n : j \in Published
    BY <2>1, Framed0
  <2>3. PICK start \in [1..(n + 1) -> Nat] : Framed(start, n, r)
    BY <2>2
  <2>4. i \in Nat /\ i <= Len(objects) /\ Len(objects) \in Nat /\ n \in Nat /\ count \in Nat
    BY <2>1, <2>2, LenProperties DEF FramingInv, FramingTypes
  <2>5. i <= n
    <3>1. CASE cut = {}
      BY <2>3, <2>4, <3>1 DEF Framed, ReadTo
    <3>2. CASE cut # {}
      <4>1. n + 1 \in cut /\ \A j \in cut : n + 1 <= j
        BY <2>3, <3>2 DEF Framed, Layout
      <4>2. FirstCut \in cut /\ FirstCut <= n + 1
        BY <3>2, <4>1 DEF FirstCut
      <4>3. FirstCut \in Nat
        BY <2>1, <4>2 DEF FramingInv, FramingTypes
      <4> QED
        BY <2>1, <2>4, <4>2, <4>3
    <3> QED
      BY <3>1, <3>2
  <2> QED
    BY <2>1, <2>3, <2>5 DEF Framed, ReadTo
<1>2. FramingInv /\ [FramingNext]_framingVars => FramingInv'
  BY FramingNextInv
<1> QED
  BY <1>1, <1>2, FramingInitInv, PTL DEF FramingSpec

\* Once an object has come wholly, the reader does not wait for another chunk
\* before it hands the object over (subscriber.rs:515-545).
THEOREM NoObjectEverLeftWaiting == FramingSpec => []NoObjectLeftWaiting
<1>1. CASE Reordering
  <2>1. NoObjectLeftWaiting
    BY <1>1 DEF NoObjectLeftWaiting
  <2> QED
    BY <2>1, PTL
<1>2. CASE ~Reordering
  <2>1. FramingInv => NoObjectLeftWaiting
    <3>1. SUFFICES ASSUME FramingInv, reader = "reading", cut = {}
                   PROVE  Len(objects) = Cardinality({i \in 1..count :
                            \A p \in 1..Len(written) : written[p].object = i => p \in got})
      BY DEF NoObjectLeftWaiting
    <3>2. PICK n \in 0..count, r \in 0..Len(written) : \E start \in [1..(n + 1) -> Nat] :
            /\ Framed(start, n, r) /\ n \in Nat /\ r \in Nat /\ r <= Len(written)
            /\ \A j \in 1..n : j \in Published
      BY <3>1, Framed0
    <3>3. PICK start \in [1..(n + 1) -> Nat] : Framed(start, n, r) /\ \A j \in 1..n : j \in Published
      BY <3>2
    <3>4. PICK l \in Nat : l = Len(objects)
      BY <3>1, LenProperties DEF FramingInv, FramingTypes
    <3>5. /\ n \in Nat /\ r \in Nat /\ l <= n /\ n = count /\ got = 1..r
          /\ Len(written) = start[n + 1] /\ start[l + 1] <= r
          /\ l < n => r < start[l + 2]
      BY <3>1, <3>2, <3>3, <3>4 DEF Framed, Layout, ReadTo
    <3>6. \A i, j \in 1..(n + 1) : /\ start[i] \in Nat
                                   /\ i < j => start[i] < start[j]
                                   /\ i <= j => start[i] <= start[j]
      <4>1. SUFFICES ASSUME NEW i \in 1..(n + 1), NEW j \in 1..(n + 1)
                     PROVE  /\ start[i] \in Nat
                            /\ i < j => start[i] < start[j]
                            /\ i <= j => start[i] <= start[j]
        OBVIOUS
      <4>2. start[i] \in Nat /\ start[j] \in Nat /\ (i < j => start[i] < start[j])
        BY <3>3 DEF Framed, Offsets
      <4>3. i <= j => i < j \/ i = j
        BY <3>5
      <4> QED
        BY <4>2, <4>3
    <3> DEFINE whole == {i \in 1..count :
                           \A p \in 1..Len(written) : written[p].object = i => p \in got}
    <3>7. ASSUME NEW i \in 1..n, i <= l PROVE i \in whole
      <4>1. SUFFICES ASSUME NEW p \in 1..Len(written), written[p].object = i PROVE p \in 1..r
        BY <3>5
      <4>2. PICK j \in 1..n : start[j] < p /\ p <= start[j + 1] /\ written[p].object = j
        BY <3>3, <3>5, <4>1 DEF Framed, Layout
      <4>3. p <= start[i + 1]
        BY <4>1, <4>2
      <4>4. i + 1 \in 1..(n + 1) /\ l + 1 \in 1..(n + 1) /\ i + 1 <= l + 1
        BY <3>5, <3>7
      <4>5. start[i + 1] <= start[l + 1] /\ start[i + 1] \in Nat /\ start[l + 1] \in Nat
        BY <3>6, <4>4
      <4> QED
        BY <3>5, <4>1, <4>3, <4>5
    <3>8. ASSUME NEW i \in whole PROVE i <= l
      <4>1. SUFFICES ASSUME ~(i <= l) PROVE FALSE
        OBVIOUS
      <4>2. i \in 1..n /\ i \in Published /\ l < n
        BY <3>3, <3>5, <4>1
      <4>3. i \in 1..(n + 1) /\ i + 1 \in 1..(n + 1) /\ n + 1 \in 1..(n + 1)
            /\ l + 2 \in 1..(n + 1) /\ l + 2 <= i + 1 /\ i + 1 <= n + 1
        BY <3>5, <4>1, <4>2
      <4>4. PICK p \in Nat : p = start[i + 1]
        BY <3>6, <4>3
      <4>5. Size(i) \in Nat /\ Size(i) \in 1..Size(i)
        BY <4>2, Sizes
      <4>6. p = start[i] + Size(i) /\ start[i] \in Nat
        BY <3>3, <3>6, <4>2, <4>3, <4>4 DEF Framed, Offsets
      <4>7. written[p] = [object |-> i, place |-> Size(i)]
        BY <3>3, <4>2, <4>5, <4>6 DEF Framed, Layout
      <4>8. written[p].object = i
        BY <4>7
      <4>9. start[l + 2] <= p /\ p <= start[n + 1] /\ start[l + 2] \in Nat
        BY <3>6, <4>3, <4>4
      <4>10. p \in 1..Len(written) /\ r < p
        BY <3>5, <4>2, <4>5, <4>6, <4>9
      <4>11. p \in got
        BY <4>8, <4>10
      <4> QED
        BY <3>5, <4>10, <4>11
    <3>9. whole = 1..l
      <4>1. \A i \in whole : i \in 1..l
        BY <3>5, <3>8
      <4>2. \A i \in 1..l : i \in 1..n /\ i <= l
        BY <3>5
      <4> QED
        BY <3>7, <4>1, <4>2
    <3>10. Cardinality(1..l) = l
      BY FS_Interval
    <3> QED
      BY <3>4, <3>9, <3>10
  <2> QED
    BY <1>2, <2>1, FramingInitInv, FramingNextInv, PTL DEF FramingSpec
<1> QED
  BY <1>1, <1>2
=============================================================================
