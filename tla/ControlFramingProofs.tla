------------------------- MODULE ControlFramingProofs -------------------------
(***************************************************************************)
(* Theorems about ControlFraming, for every stream of messages and every   *)
(* way to cut it, and the answers to it, into chunks.                      *)
(***************************************************************************)
EXTENDS ControlFraming, Integers, SequenceTheorems, FiniteSetTheorems,
        WellFoundedInduction, TLAPS

-----------------------------------------------------------------------------
(* Induction, for a set of numbers; and functions defined by recursion.    *)

LEMMA Induction ==
    ASSUME NEW S, 0 \in S, \A n \in Nat : n \in S => n + 1 \in S
    PROVE  \A n \in Nat : n \in S
<1> DEFINE wrong == {n \in Nat : n \notin S}
<1> SUFFICES ASSUME wrong # {} PROVE FALSE
  OBVIOUS
<1>1. IsWellFoundedOn(OpToRel(<, Nat), Nat)
  BY NatLessThanWellFounded
<1>2. PICK x \in wrong : \A y \in wrong : ~(<<y, x>> \in OpToRel(<, Nat))
  BY <1>1, WFMin
<1>3. x \in Nat /\ x \notin S /\ x # 0
  OBVIOUS
<1>4. x - 1 \in Nat /\ (x - 1) + 1 = x
  BY <1>3
<1>5. x - 1 \in wrong
  BY <1>3, <1>4
<1>6. <<x - 1, x>> \in OpToRel(<, Nat)
  <2>1. <<x - 1, x>> \in Nat \X Nat /\ <<x - 1, x>>[1] = x - 1 /\ <<x - 1, x>>[2] = x
    BY <1>3, <1>4
  <2>2. x - 1 < x
    BY <1>3
  <2> QED
    BY <2>1, <2>2 DEF OpToRel
<1> QED
  BY <1>2, <1>5, <1>6

Follows(f, base, N, step) ==
    f[0] = base /\ \A n \in 1..N : f[n] = step[<<f[n - 1], n>>]

LEMMA RecursionExists ==
    ASSUME NEW T, NEW base \in T, NEW N \in Nat, NEW step \in [T \X (1..N) -> T]
    PROVE  \E f \in [0..N -> T] : Follows(f, base, N, step)
<1> DEFINE Upto(k) == \E f \in [0..k -> T] : /\ f[0] = base
                                             /\ \A n \in 1..k : f[n] = step[<<f[n - 1], n>>]
           S == {k \in Nat : k <= N => Upto(k)}
<1>1. 0 \in S
  <2>1. PICK f \in [0..0 -> T] : f[0] = base
    <3>1. [i \in 0..0 |-> base] \in [0..0 -> T] /\ [i \in 0..0 |-> base][0] = base
      OBVIOUS
    <3> QED
      BY <3>1
  <2>2. Upto(0)
    BY <2>1
  <2> HIDE DEF Upto
  <2> QED
    BY <2>2
<1>2. ASSUME NEW k \in Nat, k \in S PROVE k + 1 \in S
  <2> SUFFICES ASSUME k + 1 <= N PROVE Upto(k + 1)
    OBVIOUS
  <2>1. PICK f \in [0..k -> T] : f[0] = base /\ \A n \in 1..k : f[n] = step[<<f[n - 1], n>>]
    BY <1>2
  <2> DEFINE g == [i \in 0..(k + 1) |-> IF i = k + 1 THEN step[<<f[k], k + 1>>] ELSE f[i]]
  <2>2. /\ g[k + 1] = step[<<f[k], k + 1>>]
        /\ \A i \in 0..k : g[i] = f[i]
    OBVIOUS
  <2>3. g \in [0..(k + 1) -> T]
    <3>1. f[k] \in T /\ k + 1 \in 1..N
      BY <2>1
    <3>2. step[<<f[k], k + 1>>] \in T
      BY <3>1
    <3>3. \A i \in 0..(k + 1) : i # k + 1 => i \in 0..k
      OBVIOUS
    <3> QED
      BY <3>2, <3>3
  <2> HIDE DEF g
  <2>4. ASSUME NEW n \in 1..(k + 1) PROVE g[n] = step[<<g[n - 1], n>>]
    <3>1. CASE n = k + 1
      BY <2>2, <3>1
    <3>2. CASE n # k + 1
      <4>1. n \in 1..k /\ n \in 0..k /\ n - 1 \in 0..k
        BY <3>2
      <4> QED
        BY <2>1, <2>2, <4>1
    <3> QED
      BY <3>1, <3>2
  <2>5. g[0] = base
    BY <2>1, <2>2
  <2> QED
    BY <2>3, <2>4, <2>5
<1>3. \A k \in Nat : k \in S
  <2> HIDE DEF S
  <2> QED
    BY <1>1, <1>2, Induction
<1>4. N \in S
  <2> HIDE DEF S
  <2> QED
    BY <1>3
<1> QED
  BY <1>4 DEF Follows

-----------------------------------------------------------------------------
(* Messages and their bytes.                                               *)

\* A message, by its type.
IsMessage(m) ==
    /\ m = [type |-> m.type, stream |-> m.stream, ns |-> m.ns, tail |-> m.tail]
    /\ \/ m.type = TYPE_SUBSCRIBE /\ m.stream \in Id /\ m.ns \in Namespace /\ m.tail \in Numbers(13)
       \/ m.type = TYPE_UNSUBSCRIBE /\ m.stream \in Id /\ m.ns \in Namespace /\ m.tail = <<>>
       \/ m.type = TYPE_REQUEST /\ m.stream \in Id /\ m.ns \in Namespace /\ m.tail \in Numbers(8)
       \/ /\ m.type \in {TYPE_CANCEL, TYPE_HEARTBEAT}
          /\ m.stream = <<>> /\ m.ns = 0 /\ m.tail \in Numbers(8)
       \/ m.type = TYPE_TERMINATE /\ m.stream = <<>> /\ m.ns = 0 /\ m.tail \in Numbers(1)
       \/ m.type = TYPE_SUBSCRIBE_OK /\ m.stream \in Id /\ m.ns = 0 /\ m.tail = <<>>

LEMMA MessageByType == ASSUME NEW m \in Messages PROVE IsMessage(m)
<1>1. ASSUME NEW A, NEW B, NEW C, NEW D, m \in Of(A, B, C, D)
      PROVE  /\ m = [type |-> m.type, stream |-> m.stream, ns |-> m.ns, tail |-> m.tail]
             /\ m.type \in A /\ m.stream \in B /\ m.ns \in C /\ m.tail \in D
  BY <1>1 DEF Of
<1>2. CASE m \in Of({TYPE_SUBSCRIBE}, Id, Namespace, Numbers(13))
  <2>1. /\ m = [type |-> m.type, stream |-> m.stream, ns |-> m.ns, tail |-> m.tail]
        /\ m.type \in {TYPE_SUBSCRIBE} /\ m.stream \in Id /\ m.ns \in Namespace
        /\ m.tail \in Numbers(13)
    BY <1>1, <1>2
  <2> QED
    BY <2>1 DEF IsMessage
<1>3. CASE m \in Of({TYPE_UNSUBSCRIBE}, Id, Namespace, {<<>>})
  <2>1. /\ m = [type |-> m.type, stream |-> m.stream, ns |-> m.ns, tail |-> m.tail]
        /\ m.type \in {TYPE_UNSUBSCRIBE} /\ m.stream \in Id /\ m.ns \in Namespace
        /\ m.tail \in {<<>>}
    BY <1>1, <1>3
  <2> QED
    BY <2>1 DEF IsMessage
<1>4. CASE m \in Of({TYPE_REQUEST}, Id, Namespace, Numbers(8))
  <2>1. /\ m = [type |-> m.type, stream |-> m.stream, ns |-> m.ns, tail |-> m.tail]
        /\ m.type \in {TYPE_REQUEST} /\ m.stream \in Id /\ m.ns \in Namespace
        /\ m.tail \in Numbers(8)
    BY <1>1, <1>4
  <2> QED
    BY <2>1 DEF IsMessage
<1>5. CASE m \in Of({TYPE_CANCEL, TYPE_HEARTBEAT}, {<<>>}, {0}, Numbers(8))
  <2>1. /\ m = [type |-> m.type, stream |-> m.stream, ns |-> m.ns, tail |-> m.tail]
        /\ m.type \in {TYPE_CANCEL, TYPE_HEARTBEAT} /\ m.stream \in {<<>>} /\ m.ns \in {0}
        /\ m.tail \in Numbers(8)
    BY <1>1, <1>5
  <2> QED
    BY <2>1 DEF IsMessage
<1>6. CASE m \in Of({TYPE_TERMINATE}, {<<>>}, {0}, Numbers(1))
  <2>1. /\ m = [type |-> m.type, stream |-> m.stream, ns |-> m.ns, tail |-> m.tail]
        /\ m.type \in {TYPE_TERMINATE} /\ m.stream \in {<<>>} /\ m.ns \in {0}
        /\ m.tail \in Numbers(1)
    BY <1>1, <1>6
  <2> QED
    BY <2>1 DEF IsMessage
<1>7. CASE m \in Of({TYPE_SUBSCRIBE_OK}, Id, {0}, {<<>>})
  <2>1. /\ m = [type |-> m.type, stream |-> m.stream, ns |-> m.ns, tail |-> m.tail]
        /\ m.type \in {TYPE_SUBSCRIBE_OK} /\ m.stream \in Id /\ m.ns \in {0}
        /\ m.tail \in {<<>>}
    BY <1>1, <1>7
  <2> QED
    BY <2>1 DEF IsMessage
<1> QED
  BY <1>2, <1>3, <1>4, <1>5, <1>6, <1>7, Zenon DEF Messages

LEMMA Types ==
    /\ Known \subseteq Byte
    /\ TYPE_SUBSCRIBE \in Byte /\ TYPE_UNSUBSCRIBE \in Byte /\ TYPE_CANCEL \in Byte
    /\ TYPE_REQUEST \in Byte /\ TYPE_TERMINATE \in Byte /\ TYPE_HEARTBEAT \in Byte
    /\ TYPE_SUBSCRIBE_OK \in Byte
  BY DEF Known, Byte, TYPE_SUBSCRIBE, TYPE_UNSUBSCRIBE, TYPE_CANCEL, TYPE_REQUEST,
     TYPE_TERMINATE, TYPE_HEARTBEAT, TYPE_SUBSCRIBE_OK

\* A sequence in two parts.
LEMMA TwoParts ==
    ASSUME NEW S, NEW a \in Seq(S), NEW b \in Seq(S)
    PROVE  /\ a \o b \in Seq(S) /\ Len(a \o b) = Len(a) + Len(b)
           /\ Len(a) \in Nat /\ Len(b) \in Nat /\ Len(a \o b) \in Nat
           /\ \A i \in 1..Len(a) : (a \o b)[i] = a[i]
           /\ \A i \in 1..Len(b) : (a \o b)[Len(a) + i] = b[i]
<1>1. Len(a) \in Nat /\ Len(b) \in Nat
  BY LenProperties
<1>2. /\ a \o b \in Seq(S) /\ Len(a \o b) = Len(a) + Len(b)
      /\ \A i \in 1..(Len(a) + Len(b)) :
            (a \o b)[i] = IF i <= Len(a) THEN a[i] ELSE b[i - Len(a)]
  BY ConcatProperties
<1>3. ASSUME NEW i \in 1..Len(a) PROVE (a \o b)[i] = a[i]
  <2>1. i \in 1..(Len(a) + Len(b)) /\ i <= Len(a)
    BY <1>1
  <2> QED
    BY <1>2, <2>1
<1>4. ASSUME NEW i \in 1..Len(b) PROVE (a \o b)[Len(a) + i] = b[i]
  <2>1. /\ Len(a) + i \in 1..(Len(a) + Len(b)) /\ ~(Len(a) + i <= Len(a))
        /\ (Len(a) + i) - Len(a) = i
    BY <1>1
  <2> QED
    BY <1>2, <2>1
<1> QED
  BY <1>1, <1>2, <1>3, <1>4

Parts(s, a, b) ==
    /\ s = a \o b /\ Len(s) = Len(a) + Len(b)
    /\ Len(a) \in Nat /\ Len(b) \in Nat /\ Len(s) \in Nat
    /\ \A i \in 1..Len(a) : s[i] = a[i]
    /\ \A i \in 1..Len(b) : s[Len(a) + i] = b[i]

LEMMA PartsExist ==
    ASSUME NEW a \in Seq(Byte), NEW b \in Seq(Byte)
    PROVE  \E s \in Seq(Byte) : Parts(s, a, b)
<1>1. a \o b \in Seq(Byte) /\ Parts(a \o b, a, b)
  BY TwoParts DEF Parts
<1> QED
  BY <1>1

\* The parts of SUBSCRIBE and REQUEST: first byte, two parts of fixed length, the
\* namespace, and the numbers.
InParts(s, nb, nd, a, b, c, d, e) ==
    /\ s = a \o b \o c \o d \o e
    /\ nb = Len(a) + Len(b) /\ nd = nb + Len(c) + Len(d) /\ Len(s) = nd + Len(e)
    /\ \A i \in 1..Len(a) : s[i] = a[i]
    /\ \A i \in 1..Len(b) : s[Len(a) + i] = b[i]
    /\ \A i \in 1..Len(c) : s[nb + i] = c[i]
    /\ \A i \in 1..Len(e) : s[nd + i] = e[i]

LEMMA FiveParts ==
    ASSUME NEW a \in Seq(Byte), NEW b \in Seq(Byte), NEW c \in Seq(Byte), NEW d \in Seq(Byte),
           NEW e \in Seq(Byte)
    PROVE  \E s \in Seq(Byte), nb \in Nat, nd \in Nat : InParts(s, nb, nd, a, b, c, d, e)
<1>1. PICK ab \in Seq(Byte) : Parts(ab, a, b)
  BY PartsExist
<1>2. PICK abc \in Seq(Byte) : Parts(abc, ab, c)
  BY PartsExist
<1>3. PICK abcd \in Seq(Byte) : Parts(abcd, abc, d)
  BY PartsExist
<1>4. PICK s \in Seq(Byte) : Parts(s, abcd, e)
  BY PartsExist
<1>5. s = a \o b \o c \o d \o e
  BY <1>1, <1>2, <1>3, <1>4, Zenon DEF Parts
<1> USE DEF Parts
<1>6. \A i \in 1..Len(abc) : s[i] = abc[i]
  <2> SUFFICES ASSUME NEW i \in 1..Len(abc) PROVE s[i] = abc[i]
    OBVIOUS
  <2>1. i \in 1..Len(abcd)
    BY <1>2, <1>3
  <2> QED
    BY <1>3, <1>4, <2>1
<1>7. \A i \in 1..Len(ab) : s[i] = ab[i]
  <2> SUFFICES ASSUME NEW i \in 1..Len(ab) PROVE s[i] = ab[i]
    OBVIOUS
  <2>1. i \in 1..Len(abc)
    BY <1>1, <1>2
  <2> QED
    BY <1>2, <1>6, <2>1
<1>8. \A i \in 1..Len(a) : s[i] = a[i]
  <2> SUFFICES ASSUME NEW i \in 1..Len(a) PROVE s[i] = a[i]
    OBVIOUS
  <2>1. i \in 1..Len(ab)
    BY <1>1
  <2> QED
    BY <1>1, <1>7, <2>1
<1>9. \A i \in 1..Len(b) : s[Len(a) + i] = b[i]
  <2> SUFFICES ASSUME NEW i \in 1..Len(b) PROVE s[Len(a) + i] = b[i]
    OBVIOUS
  <2>1. Len(a) + i \in 1..Len(ab)
    BY <1>1
  <2> QED
    BY <1>1, <1>7, <2>1
<1>10. \A i \in 1..Len(c) : s[Len(ab) + i] = c[i]
  <2> SUFFICES ASSUME NEW i \in 1..Len(c) PROVE s[Len(ab) + i] = c[i]
    OBVIOUS
  <2>1. Len(ab) + i \in 1..Len(abc)
    BY <1>1, <1>2
  <2> QED
    BY <1>2, <1>6, <2>1
<1>11. Len(abcd) = Len(ab) + Len(c) + Len(d)
  BY <1>2, <1>3
<1> QED
  <2> WITNESS s \in Seq(Byte), Len(ab) \in Nat, Len(abcd) \in Nat
  <2> QED
    BY <1>1, <1>4, <1>5, <1>8, <1>9, <1>10, <1>11, Zenon DEF InParts

LEMMA U16 ==
    ASSUME NEW n \in Namespace
    PROVE  /\ put_u16(n) \in Seq(Byte) /\ Len(put_u16(n)) = 2
           /\ put_u16(n)[1] * 256 + put_u16(n)[2] = n
<1>1. /\ n \in Nat /\ n < 65536
  BY DEF Namespace
<1>2. /\ n \div 256 \in 0..255 /\ n % 256 \in 0..255
      /\ n = 256 * (n \div 256) + (n % 256)
  BY <1>1
<1>3. (n \div 256) % 256 = n \div 256
  <2>1. PICK q \in 0..255 : q = n \div 256
    BY <1>2
  <2>2. q % 256 = q
    OBVIOUS
  <2> QED
    BY <2>1, <2>2
<1>4. PICK q \in 0..255, t \in 0..255 : q = (n \div 256) % 256 /\ t = n % 256 /\ n = 256 * q + t
  BY <1>2, <1>3
<1>5. put_u16(n) = <<q, t>>
  BY <1>4 DEF put_u16
<1>6. <<q, t>> \in Seq(Byte) /\ Len(<<q, t>>) = 2 /\ <<q, t>>[1] = q /\ <<q, t>>[2] = t
  BY DEF Byte
<1>7. q * 256 + t = n
  BY <1>4
<1> QED
  BY <1>5, <1>6, <1>7

LEMMA TextIsBytes ==
    ASSUME NEW n \in Nat PROVE Text(n) \in Seq(Byte) /\ Len(Text(n)) = n
<1>1. [i \in 1..n |-> 47] \in [1..n -> Byte]
  BY DEF Byte
<1>2. ASSUME NEW t \in [1..n -> Byte] PROVE t \in Seq(Byte) /\ Len(t) = n
  OBVIOUS
<1> QED
  BY <1>1, <1>2 DEF Text

LEMMA Sequences16 ==
    /\ \A s \in Id : s \in Seq(Byte) /\ Len(s) = 16
    /\ \A s \in Numbers(13) : s \in Seq(Byte) /\ Len(s) = 13
    /\ \A s \in Numbers(8) : s \in Seq(Byte) /\ Len(s) = 8
    /\ \A s \in Numbers(1) : s \in Seq(Byte) /\ Len(s) = 1
    /\ \A n \in Namespace : n \in Nat
    /\ \A t \in Byte : <<t>> \in Seq(Byte) /\ Len(<<t>>) = 1 /\ <<t>>[1] = t
<1>1. ASSUME NEW n \in Nat, NEW s \in [1..n -> Byte] PROVE s \in Seq(Byte) /\ Len(s) = n
  OBVIOUS
<1>2. \A t \in Byte : <<t>> \in Seq(Byte) /\ Len(<<t>>) = 1 /\ <<t>>[1] = t
  OBVIOUS
<1>3. 16 \in Nat /\ 13 \in Nat /\ 8 \in Nat /\ 1 \in Nat /\ \A n \in Namespace : n \in Nat
  BY DEF Namespace
<1>4. \A s \in Id : s \in Seq(Byte) /\ Len(s) = 16
  BY <1>1, <1>3, Zenon DEF Id
<1>5. \A s \in Numbers(13) : s \in Seq(Byte) /\ Len(s) = 13
  BY <1>1, <1>3, Zenon DEF Numbers
<1>6. \A s \in Numbers(8) : s \in Seq(Byte) /\ Len(s) = 8
  BY <1>1, <1>3, Zenon DEF Numbers
<1>7. \A s \in Numbers(1) : s \in Seq(Byte) /\ Len(s) = 1
  BY <1>1, <1>3, Zenon DEF Numbers
<1> QED
  BY <1>2, <1>3, <1>4, <1>5, <1>6, <1>7, Zenon

LEMMA SubscribeFields ==
    ASSUME NEW m \in Messages, m.type = TYPE_SUBSCRIBE
    PROVE  /\ m.stream \in Id /\ m.ns \in Namespace /\ m.tail \in Numbers(13)
           /\ Serialized(m) = serialize_subscribe(m)
<1>1. IsMessage(m)
  BY MessageByType
<1> QED
  BY <1>1 DEF IsMessage, Serialized, TYPE_SUBSCRIBE, TYPE_UNSUBSCRIBE, TYPE_CANCEL, TYPE_REQUEST,
     TYPE_TERMINATE, TYPE_HEARTBEAT, TYPE_SUBSCRIBE_OK

LEMMA RequestFields ==
    ASSUME NEW m \in Messages, m.type = TYPE_REQUEST
    PROVE  /\ m.stream \in Id /\ m.ns \in Namespace /\ m.tail \in Numbers(8)
           /\ Serialized(m) = serialize_request(m)
<1>1. IsMessage(m)
  BY MessageByType
<1> QED
  BY <1>1 DEF IsMessage, Serialized, TYPE_SUBSCRIBE, TYPE_UNSUBSCRIBE, TYPE_CANCEL, TYPE_REQUEST,
     TYPE_TERMINATE, TYPE_HEARTBEAT, TYPE_SUBSCRIBE_OK

LEMMA UnsubscribeFields ==
    ASSUME NEW m \in Messages, m.type = TYPE_UNSUBSCRIBE
    PROVE  /\ m.stream \in Id /\ m.ns \in Namespace
           /\ Serialized(m) = serialize_unsubscribe(m)
<1>1. IsMessage(m)
  BY MessageByType
<1> QED
  BY <1>1 DEF IsMessage, Serialized, TYPE_SUBSCRIBE, TYPE_UNSUBSCRIBE, TYPE_CANCEL, TYPE_REQUEST,
     TYPE_TERMINATE, TYPE_HEARTBEAT, TYPE_SUBSCRIBE_OK

\* The messages that are their type and one field.
ShortTypes == {TYPE_CANCEL, TYPE_TERMINATE, TYPE_HEARTBEAT, TYPE_SUBSCRIBE_OK}
Field(m) == IF m.type = TYPE_SUBSCRIBE_OK THEN m.stream ELSE m.tail

LEMMA ShortFields ==
    ASSUME NEW m \in Messages, m.type \in ShortTypes
    PROVE  /\ Field(m) \in Seq(Byte)
           /\ m.type \in {TYPE_CANCEL, TYPE_HEARTBEAT} => Len(Field(m)) = 8
           /\ m.type = TYPE_TERMINATE => Len(Field(m)) = 1
           /\ m.type = TYPE_SUBSCRIBE_OK => Len(Field(m)) = 16
           /\ m = IF m.type = TYPE_SUBSCRIBE_OK THEN Message(m.type, Field(m), 0, <<>>)
                                                ELSE Message(m.type, <<>>, 0, Field(m))
           /\ Serialized(m) = <<m.type>> \o Field(m)
<1>1. IsMessage(m)
  BY MessageByType
<1> USE DEF TYPE_SUBSCRIBE, TYPE_UNSUBSCRIBE, TYPE_CANCEL, TYPE_REQUEST, TYPE_TERMINATE,
            TYPE_HEARTBEAT, TYPE_SUBSCRIBE_OK
<1>2. \/ m.type \in {TYPE_CANCEL, TYPE_HEARTBEAT} /\ m.stream = <<>> /\ m.ns = 0 /\ m.tail \in Numbers(8)
      \/ m.type = TYPE_TERMINATE /\ m.stream = <<>> /\ m.ns = 0 /\ m.tail \in Numbers(1)
      \/ m.type = TYPE_SUBSCRIBE_OK /\ m.stream \in Id /\ m.ns = 0 /\ m.tail = <<>>
  BY <1>1 DEF IsMessage, ShortTypes
<1>3. m = Message(m.type, m.stream, m.ns, m.tail)
  BY <1>1 DEF IsMessage, Message
<1>4. Serialized(m) = <<m.type>> \o Field(m)
  BY <1>2 DEF Serialized, Field, serialize_cancel, serialize_terminate, serialize_heartbeat,
     serialize_subscribe_ok
<1>5. CASE m.type \in {TYPE_CANCEL, TYPE_HEARTBEAT}
  BY <1>2, <1>3, <1>4, <1>5, Sequences16 DEF Field
<1>6. CASE m.type = TYPE_TERMINATE
  BY <1>2, <1>3, <1>4, <1>6, Sequences16 DEF Field
<1>7. CASE m.type = TYPE_SUBSCRIBE_OK
  BY <1>2, <1>3, <1>4, <1>7, Sequences16 DEF Field
<1> QED
  BY <1>2, <1>5, <1>6, <1>7

\* Where the fields of a message stand.
LEMMA SubscribeBytes ==
    ASSUME NEW m \in Messages, m.type = TYPE_SUBSCRIBE
    PROVE  \E s \in Seq(Byte) :
              /\ s = Serialized(m) /\ m.ns \in Nat /\ Len(s) = 32 + m.ns
              /\ s[1] = TYPE_SUBSCRIBE /\ s[2] * 256 + s[3] = m.ns
              /\ \A i \in 1..16 : s[3 + i] = m.stream[i]
              /\ \A i \in 1..13 : s[19 + m.ns + i] = m.tail[i]
<1>1. /\ m.stream \in Id /\ m.ns \in Namespace /\ m.tail \in Numbers(13)
      /\ Serialized(m) = serialize_subscribe(m)
  BY SubscribeFields
<1>2. PICK n \in Nat : n = m.ns
  BY <1>1, Sequences16
<1>3. PICK a \in Seq(Byte) : a = <<TYPE_SUBSCRIBE>> /\ Len(a) = 1 /\ a[1] = TYPE_SUBSCRIBE
  BY Sequences16, Types
<1>4. PICK b \in Seq(Byte) : b = put_u16(m.ns) /\ Len(b) = 2 /\ b[1] * 256 + b[2] = n
  BY <1>1, <1>2, U16
<1>5. PICK c \in Seq(Byte) : c = m.stream /\ Len(c) = 16
  BY <1>1, Sequences16
<1>6. PICK d \in Seq(Byte) : d = Text(m.ns) /\ Len(d) = n
  BY <1>2, TextIsBytes
<1>7. PICK e \in Seq(Byte) : e = m.tail /\ Len(e) = 13
  BY <1>1, Sequences16
<1>8. PICK s \in Seq(Byte), nb \in Nat, nd \in Nat : InParts(s, nb, nd, a, b, c, d, e)
  BY FiveParts
<1>9. s = Serialized(m)
  BY <1>1, <1>3, <1>4, <1>5, <1>6, <1>7, <1>8, Zenon DEF serialize_subscribe, InParts
<1>10. nb = 3 /\ nd = 19 + n
  <2>1. nb = Len(a) + Len(b) /\ nd = nb + Len(c) + Len(d)
    BY <1>8 DEF InParts
  <2> QED
    BY <1>2, <1>3, <1>4, <1>5, <1>6, <2>1
<1>11. Len(s) = 32 + n
  BY <1>7, <1>8, <1>10 DEF InParts
<1>12. s[1] = TYPE_SUBSCRIBE
  BY <1>3, <1>8 DEF InParts
<1>13. s[2] = b[1] /\ s[3] = b[2]
  <2>1. s[1 + 1] = b[1] /\ s[1 + 2] = b[2]
    BY <1>3, <1>4, <1>8 DEF InParts
  <2> QED
    BY <2>1
<1>14. (\A i \in 1..16 : s[3 + i] = c[i]) /\ (\A i \in 1..13 : s[19 + n + i] = e[i])
  <2>1. /\ \A i \in 1..Len(c) : s[nb + i] = c[i]
        /\ \A i \in 1..Len(e) : s[nd + i] = e[i]
    BY <1>8 DEF InParts
  <2>2. \A i \in 1..16 : s[3 + i] = c[i]
    BY <1>5, <1>10, <2>1
  <2>3. \A i \in 1..13 : s[19 + n + i] = e[i]
    BY <1>7, <1>10, <2>1
  <2> QED
    BY <2>2, <2>3
<1> WITNESS s \in Seq(Byte)
<1> QED
  BY <1>2, <1>4, <1>5, <1>7, <1>9, <1>11, <1>12, <1>13, <1>14

LEMMA RequestBytes ==
    ASSUME NEW m \in Messages, m.type = TYPE_REQUEST
    PROVE  \E s \in Seq(Byte) :
              /\ s = Serialized(m) /\ m.ns \in Nat /\ Len(s) = 27 + m.ns
              /\ s[1] = TYPE_REQUEST /\ s[18] * 256 + s[19] = m.ns
              /\ \A i \in 1..16 : s[1 + i] = m.stream[i]
              /\ \A i \in 1..8 : s[19 + m.ns + i] = m.tail[i]
<1>1. /\ m.stream \in Id /\ m.ns \in Namespace /\ m.tail \in Numbers(8)
      /\ Serialized(m) = serialize_request(m)
  BY RequestFields
<1>2. PICK n \in Nat : n = m.ns
  BY <1>1, Sequences16
<1>3. PICK a \in Seq(Byte) : a = <<TYPE_REQUEST>> /\ Len(a) = 1 /\ a[1] = TYPE_REQUEST
  BY Sequences16, Types
<1>4. PICK c \in Seq(Byte) : c = put_u16(m.ns) /\ Len(c) = 2 /\ c[1] * 256 + c[2] = n
  BY <1>1, <1>2, U16
<1>5. PICK b \in Seq(Byte) : b = m.stream /\ Len(b) = 16
  BY <1>1, Sequences16
<1>6. PICK d \in Seq(Byte) : d = Text(m.ns) /\ Len(d) = n
  BY <1>2, TextIsBytes
<1>7. PICK e \in Seq(Byte) : e = m.tail /\ Len(e) = 8
  BY <1>1, Sequences16
<1>8. PICK s \in Seq(Byte), nb \in Nat, nd \in Nat : InParts(s, nb, nd, a, b, c, d, e)
  BY FiveParts
<1>9. s = Serialized(m)
  BY <1>1, <1>3, <1>4, <1>5, <1>6, <1>7, <1>8, Zenon DEF serialize_request, InParts
<1>10. nb = 17 /\ nd = 19 + n
  <2>1. nb = Len(a) + Len(b) /\ nd = nb + Len(c) + Len(d)
    BY <1>8 DEF InParts
  <2> QED
    BY <1>2, <1>3, <1>4, <1>5, <1>6, <2>1
<1>11. Len(s) = 27 + n
  BY <1>7, <1>8, <1>10 DEF InParts
<1>12. s[1] = TYPE_REQUEST
  BY <1>3, <1>8 DEF InParts
<1>13. s[18] = c[1] /\ s[19] = c[2]
  <2>1. s[17 + 1] = c[1] /\ s[17 + 2] = c[2]
    BY <1>4, <1>8, <1>10 DEF InParts
  <2> QED
    BY <2>1
<1>14. (\A i \in 1..16 : s[1 + i] = b[i]) /\ (\A i \in 1..8 : s[19 + n + i] = e[i])
  <2>1. /\ \A i \in 1..Len(b) : s[Len(a) + i] = b[i]
        /\ \A i \in 1..Len(e) : s[nd + i] = e[i]
    BY <1>8 DEF InParts
  <2>2. \A i \in 1..16 : s[1 + i] = b[i]
    BY <1>3, <1>5, <2>1
  <2>3. \A i \in 1..8 : s[19 + n + i] = e[i]
    BY <1>7, <1>10, <2>1
  <2> QED
    BY <2>2, <2>3
<1>15. s[18] * 256 + s[19] = m.ns
  BY <1>2, <1>4, <1>13
<1>16. \A i \in 1..16 : s[1 + i] = m.stream[i]
  BY <1>5, <1>14
<1>17. Len(s) = 27 + m.ns /\ \A i \in 1..8 : s[19 + m.ns + i] = m.tail[i]
  BY <1>2, <1>7, <1>11, <1>14
<1>18. m.ns \in Nat
  BY <1>2
<1> WITNESS s \in Seq(Byte)
<1> QED
  BY <1>9, <1>12, <1>15, <1>16, <1>17, <1>18

LEMMA ShortBytes ==
    ASSUME NEW m \in Messages, m.type \in ShortTypes
    PROVE  \E s \in Seq(Byte) :
              /\ s = Serialized(m) /\ Len(Field(m)) \in Nat /\ Len(s) = 1 + Len(Field(m))
              /\ s[1] = m.type
              /\ \A i \in 1..Len(Field(m)) : s[1 + i] = Field(m)[i]
<1>1. PICK f \in Seq(Byte) : f = Field(m) /\ Serialized(m) = <<m.type>> \o f
  BY ShortFields
<1>2. PICK a \in Seq(Byte) : a = <<m.type>> /\ Len(a) = 1 /\ a[1] = m.type
  BY Sequences16, Types DEF ShortTypes
<1>3. PICK s \in Seq(Byte) : Parts(s, a, f)
  BY PartsExist
<1>4. s = Serialized(m)
  BY <1>1, <1>2, <1>3 DEF Parts
<1>5. /\ Len(f) \in Nat /\ Len(s) = 1 + Len(f) /\ s[1] = m.type
      /\ \A i \in 1..Len(f) : s[1 + i] = f[i]
  BY <1>2, <1>3 DEF Parts
<1> WITNESS s \in Seq(Byte)
<1> QED
  BY <1>1, <1>4, <1>5

LEMMA MessageBytes ==
    ASSUME NEW m \in Messages
    PROVE  /\ Serialized(m) \in Seq(Byte) /\ Len(Serialized(m)) \in Nat \ {0}
           /\ Serialized(m)[1] = m.type /\ m.type \in Known
<1>1. m.type \in {TYPE_SUBSCRIBE, TYPE_REQUEST, TYPE_UNSUBSCRIBE} \cup ShortTypes
  <2>1. IsMessage(m)
    BY MessageByType
  <2> QED
    BY <2>1 DEF IsMessage, ShortTypes
<1>2. m.type \in Known
  BY <1>1 DEF Known, ShortTypes
<1>3. CASE m.type = TYPE_SUBSCRIBE
  <2>1. PICK s \in Seq(Byte) :
           s = Serialized(m) /\ m.ns \in Nat /\ Len(s) = 32 + m.ns /\ s[1] = TYPE_SUBSCRIBE
    BY <1>3, SubscribeBytes, Zenon
  <2>2. Len(s) \in Nat \ {0}
    BY <2>1
  <2> QED
    BY <1>2, <1>3, <2>1, <2>2
<1>4. CASE m.type = TYPE_REQUEST
  <2>1. PICK s \in Seq(Byte) :
           s = Serialized(m) /\ m.ns \in Nat /\ Len(s) = 27 + m.ns /\ s[1] = TYPE_REQUEST
    BY <1>4, RequestBytes, Zenon
  <2>2. Len(s) \in Nat \ {0}
    BY <2>1
  <2> QED
    BY <1>2, <1>4, <2>1, <2>2
<1>5. CASE m.type \in ShortTypes
  BY <1>2, <1>5, ShortBytes
<1>6. CASE m.type = TYPE_UNSUBSCRIBE
  <2>1. /\ m.stream \in Id /\ m.ns \in Namespace
        /\ Serialized(m) = <<TYPE_UNSUBSCRIBE>> \o m.stream \o put_u16(m.ns) \o Text(m.ns)
    BY <1>6, UnsubscribeFields DEF serialize_unsubscribe
  <2>2. PICK a \in Seq(Byte) : a = <<TYPE_UNSUBSCRIBE>> /\ Len(a) = 1 /\ a[1] = TYPE_UNSUBSCRIBE
    BY Sequences16, Types
  <2>3. PICK b \in Seq(Byte) : b = m.stream
    BY <2>1, Sequences16
  <2>4. PICK c \in Seq(Byte) : c = put_u16(m.ns)
    BY <2>1, U16
  <2>5. PICK d \in Seq(Byte) : d = Text(m.ns)
    BY <2>1, Sequences16, TextIsBytes
  <2>6. PICK ab \in Seq(Byte) : Parts(ab, a, b)
    BY PartsExist
  <2>7. PICK abc \in Seq(Byte) : Parts(abc, ab, c)
    BY PartsExist
  <2>8. PICK s \in Seq(Byte) : Parts(s, abc, d)
    BY PartsExist
  <2>9. s = Serialized(m)
    BY <2>1, <2>2, <2>3, <2>4, <2>5, <2>6, <2>7, <2>8, Zenon DEF Parts
  <2>10. ab[1] = a[1] /\ Len(ab) >= 1 /\ Len(ab) \in Nat
    BY <2>2, <2>6 DEF Parts
  <2>11. abc[1] = a[1] /\ Len(abc) >= 1 /\ Len(abc) \in Nat
    BY <2>7, <2>10 DEF Parts
  <2>12. s[1] = a[1] /\ Len(s) >= 1 /\ Len(s) \in Nat
    BY <2>8, <2>11 DEF Parts
  <2> QED
    BY <1>2, <1>6, <2>2, <2>9, <2>12
<1> QED
  BY <1>1, <1>3, <1>4, <1>5, <1>6

-----------------------------------------------------------------------------
(* What a reader makes of a buffer that begins with a message.             *)

Begins(b, s) == \A k \in 1..Len(s) : k <= Len(b) => b[k] = s[k]

LEMMA FieldRead ==
    ASSUME NEW b \in Seq(Byte), NEW skip \in Nat, NEW n \in Nat, skip + n <= Len(b),
           NEW f \in Seq(Byte), Len(f) = n, \A i \in 1..n : b[skip + i] = f[i]
    PROVE  Bytes(b, skip + 1, n) = f
<1>1. PICK first \in Int, last \in Int : first = skip + 1 /\ last = skip + n
  OBVIOUS
<1>2. \A i \in first..last : b[i] \in Byte
  <2> SUFFICES ASSUME NEW i \in first..last PROVE b[i] \in Byte
    OBVIOUS
  <2>1. i \in 1..Len(b)
    BY <1>1, LenProperties
  <2> QED
    BY <2>1, ElementOfSeq
<1>3. /\ SubSeq(b, first, last) \in Seq(Byte)
      /\ Len(SubSeq(b, first, last)) = IF first <= last THEN last - first + 1 ELSE 0
      /\ \A i \in 1..(last - first + 1) : SubSeq(b, first, last)[i] = b[first + i - 1]
  BY <1>2, SubSeqProperties
<1>4. PICK t \in Seq(Byte) :
         /\ t = SubSeq(b, first, last)
         /\ Len(t) = n /\ \A i \in 1..n : t[i] = b[first + i - 1]
  BY <1>1, <1>3
<1>5. ASSUME NEW i \in 1..n PROVE t[i] = f[i]
  <2>1. first + i - 1 = skip + i
    BY <1>1
  <2> QED
    BY <1>4, <2>1
<1>6. t = f
  BY <1>4, <1>5, SeqEqual
<1>7. Bytes(b, skip + 1, n) = SubSeq(b, first, last)
  <2>1. skip + 1 = first /\ skip + 1 + n - 1 = last
    BY <1>1
  <2> QED
    BY <2>1 DEF Bytes
<1> QED
  BY <1>4, <1>6, <1>7

LEMMA CompleteByType ==
    ASSUME NEW b
    PROVE  /\ b[1] = TYPE_SUBSCRIBE =>
                (Complete(b) <=> Len(b) >= 3 /\ Len(b) >= 3 + get_u16(b, 2) + 29)
           /\ b[1] = TYPE_REQUEST => (Complete(b) <=> Len(b) >= 25)
           /\ b[1] \in {TYPE_HEARTBEAT, TYPE_CANCEL} => (Complete(b) <=> Len(b) >= 9)
           /\ b[1] = TYPE_TERMINATE => (Complete(b) <=> Len(b) >= 2)
           /\ b[1] = TYPE_SUBSCRIBE_OK => (Complete(b) <=> Len(b) >= 17)
<1> USE DEF TYPE_SUBSCRIBE, TYPE_UNSUBSCRIBE, TYPE_CANCEL, TYPE_REQUEST, TYPE_TERMINATE,
            TYPE_HEARTBEAT, TYPE_SUBSCRIBE_OK, Complete
<1>1. CASE b[1] = TYPE_SUBSCRIBE
  BY <1>1
<1>2. CASE b[1] = TYPE_REQUEST
  BY <1>2
<1>3. CASE b[1] = TYPE_HEARTBEAT
  BY <1>3
<1>4. CASE b[1] = TYPE_CANCEL
  BY <1>4
<1>5. CASE b[1] = TYPE_TERMINATE
  BY <1>5
<1>6. CASE b[1] = TYPE_SUBSCRIBE_OK
  BY <1>6
<1> QED
  BY <1>1, <1>2, <1>3, <1>4, <1>5, <1>6

LEMMA FirstByte ==
    ASSUME NEW m \in Messages, NEW b \in Seq(Byte), b # <<>>, Begins(b, Serialized(m))
    PROVE  b[1] = m.type
<1>1. Len(b) \in Nat \ {0}
  BY EmptySeq
<1>2. 1 \in 1..Len(Serialized(m)) /\ 1 <= Len(b)
  BY <1>1, MessageBytes
<1> QED
  BY <1>2, MessageBytes DEF Begins

LEMMA SubscribeRead ==
    ASSUME NEW m \in Messages, m.type = TYPE_SUBSCRIBE, NEW b \in Seq(Byte), b # <<>>,
           Begins(b, Serialized(m))
    PROVE  /\ Complete(b) <=> Len(Serialized(m)) <= Len(b)
           /\ Complete(b) => deserialize_subscribe(b) = Takes(Len(Serialized(m)), m)
<1>1. PICK s \in Seq(Byte) :
         /\ s = Serialized(m) /\ m.ns \in Nat /\ Len(s) = 32 + m.ns
         /\ s[1] = TYPE_SUBSCRIBE /\ s[2] * 256 + s[3] = m.ns
         /\ \A i \in 1..16 : s[3 + i] = m.stream[i]
         /\ \A i \in 1..13 : s[19 + m.ns + i] = m.tail[i]
  BY SubscribeBytes, Zenon
<1>2. PICK n \in Nat : n = m.ns
  BY <1>1
<1>3. b[1] = TYPE_SUBSCRIBE /\ Len(b) \in Nat
  BY FirstByte, LenProperties
<1>4. Len(s) = 32 + n
  BY <1>1, <1>2
<1>5. \A k \in 1..(32 + n) : k <= Len(b) => b[k] = s[k]
  BY <1>1, <1>4 DEF Begins
<1>6. ASSUME Len(b) >= 3 PROVE get_u16(b, 2) = n
  <2>1. b[2] = s[2] /\ b[3] = s[3]
    BY <1>3, <1>5, <1>6
  <2>2. get_u16(b, 2) = s[2] * 256 + s[3]
    BY <2>1 DEF get_u16
  <2> QED
    BY <1>1, <1>2, <2>2
<1>7. Complete(b) <=> 32 + n <= Len(b)
  <2>1. Complete(b) <=> Len(b) >= 3 /\ Len(b) >= 3 + get_u16(b, 2) + 29
    BY <1>3, CompleteByType
  <2> QED
    BY <1>3, <1>6, <2>1
<1>8. ASSUME 32 + n <= Len(b) PROVE deserialize_subscribe(b) = Takes(32 + n, m)
  <2>1. get_u16(b, 2) = n /\ ~(Len(b) < 3) /\ ~(Len(b) - 3 < 16 + n + 13)
    BY <1>3, <1>6, <1>8
  <2>2. m.stream \in Seq(Byte) /\ Len(m.stream) = 16 /\ m.tail \in Seq(Byte) /\ Len(m.tail) = 13
    BY SubscribeFields, Sequences16
  <2>3. Bytes(b, 4, 16) = m.stream
    <3>1. \A i \in 1..16 : b[3 + i] = m.stream[i]
      <4> SUFFICES ASSUME NEW i \in 1..16 PROVE b[3 + i] = m.stream[i]
        OBVIOUS
      <4>1. 3 + i \in 1..(32 + n) /\ 3 + i <= Len(b)
        BY <1>3, <1>8
      <4> QED
        BY <1>1, <1>5, <4>1
    <3>2. 3 \in Nat /\ 16 \in Nat /\ 3 + 16 <= Len(b)
      BY <1>3, <1>8
    <3>3. Bytes(b, 3 + 1, 16) = m.stream
      BY <3>1, <3>2, <2>2, FieldRead, Zenon
    <3> QED
      BY <3>3 DEF Bytes
  <2>4. Bytes(b, 20 + n, 13) = m.tail
    <3>1. \A i \in 1..13 : b[19 + n + i] = m.tail[i]
      <4> SUFFICES ASSUME NEW i \in 1..13 PROVE b[19 + n + i] = m.tail[i]
        OBVIOUS
      <4>1. 19 + n + i \in 1..(32 + n) /\ 19 + n + i <= Len(b)
        BY <1>3, <1>8
      <4> QED
        BY <1>1, <1>2, <1>5, <4>1
    <3>2. 19 + n \in Nat /\ 13 \in Nat /\ 19 + n + 13 <= Len(b)
      BY <1>3, <1>8
    <3>3. Bytes(b, 19 + n + 1, 13) = m.tail
      BY <3>1, <3>2, <2>2, FieldRead, Zenon
    <3> QED
      BY <3>3 DEF Bytes
  <2>5. m = Message(TYPE_SUBSCRIBE, m.stream, n, m.tail)
    BY <1>2, MessageByType DEF IsMessage, Message
  <2>6. deserialize_subscribe(b)
        = Takes(32 + n, Message(TYPE_SUBSCRIBE, Bytes(b, 4, 16), n, Bytes(b, 20 + n, 13)))
    BY <2>1 DEF deserialize_subscribe
  <2> QED
    BY <2>3, <2>4, <2>5, <2>6
<1> QED
  BY <1>1, <1>4, <1>7, <1>8

\* A REQUEST may be taken for complete too early.
LEMMA RequestRead ==
    ASSUME NEW m \in Messages, m.type = TYPE_REQUEST, NEW b \in Seq(Byte), b # <<>>,
           Begins(b, Serialized(m))
    PROVE  /\ Len(Serialized(m)) <= Len(b) =>
                Complete(b) /\ deserialize_request(b) = Takes(Len(Serialized(m)), m)
           /\ Complete(b) => 25 <= Len(b)
<1>1. PICK s \in Seq(Byte) :
         /\ s = Serialized(m) /\ m.ns \in Nat /\ Len(s) = 27 + m.ns
         /\ s[1] = TYPE_REQUEST /\ s[18] * 256 + s[19] = m.ns
         /\ \A i \in 1..16 : s[1 + i] = m.stream[i]
         /\ \A i \in 1..8 : s[19 + m.ns + i] = m.tail[i]
  BY RequestBytes, Zenon
<1>2. PICK n \in Nat : n = m.ns
  BY <1>1
<1>3. b[1] = TYPE_REQUEST /\ Len(b) \in Nat
  BY FirstByte, LenProperties
<1>4. Len(s) = 27 + n
  BY <1>1, <1>2
<1>5. \A k \in 1..(27 + n) : k <= Len(b) => b[k] = s[k]
  BY <1>1, <1>4 DEF Begins
<1>6. Complete(b) <=> 25 <= Len(b)
  BY <1>3, CompleteByType
<1>7. ASSUME 27 + n <= Len(b) PROVE deserialize_request(b) = Takes(27 + n, m)
  <2>1. get_u16(b, 18) = n
    <3>1. b[18] = s[18] /\ b[19] = s[19]
      BY <1>3, <1>5, <1>7
    <3>2. get_u16(b, 18) = s[18] * 256 + s[19]
      BY <3>1 DEF get_u16
    <3> QED
      BY <1>1, <1>2, <3>2
  <2>2. ~(Len(b) < 27) /\ ~(Len(b) - 19 < n + 8)
    BY <1>3, <1>7
  <2>3. m.stream \in Seq(Byte) /\ Len(m.stream) = 16 /\ m.tail \in Seq(Byte) /\ Len(m.tail) = 8
    BY RequestFields, Sequences16
  <2>4. Bytes(b, 2, 16) = m.stream
    <3>1. \A i \in 1..16 : b[1 + i] = m.stream[i]
      <4> SUFFICES ASSUME NEW i \in 1..16 PROVE b[1 + i] = m.stream[i]
        OBVIOUS
      <4>1. 1 + i \in 1..(27 + n) /\ 1 + i <= Len(b)
        BY <1>3, <1>7
      <4> QED
        BY <1>1, <1>5, <4>1
    <3>2. 1 \in Nat /\ 16 \in Nat /\ 1 + 16 <= Len(b)
      BY <1>3, <1>7
    <3>3. Bytes(b, 1 + 1, 16) = m.stream
      BY <3>1, <3>2, <2>3, FieldRead, Zenon
    <3> QED
      BY <3>3 DEF Bytes
  <2>5. Bytes(b, 20 + n, 8) = m.tail
    <3>1. \A i \in 1..8 : b[19 + n + i] = m.tail[i]
      <4> SUFFICES ASSUME NEW i \in 1..8 PROVE b[19 + n + i] = m.tail[i]
        OBVIOUS
      <4>1. 19 + n + i \in 1..(27 + n) /\ 19 + n + i <= Len(b)
        BY <1>3, <1>7
      <4> QED
        BY <1>1, <1>2, <1>5, <4>1
    <3>2. 19 + n \in Nat /\ 8 \in Nat /\ 19 + n + 8 <= Len(b)
      BY <1>3, <1>7
    <3>3. Bytes(b, 19 + n + 1, 8) = m.tail
      BY <3>1, <3>2, <2>3, FieldRead, Zenon
    <3> QED
      BY <3>3 DEF Bytes
  <2>6. m = Message(TYPE_REQUEST, m.stream, n, m.tail)
    BY <1>2, MessageByType DEF IsMessage, Message
  <2>7. deserialize_request(b)
        = Takes(27 + n, Message(TYPE_REQUEST, Bytes(b, 2, 16), n, Bytes(b, 20 + n, 8)))
    BY <2>1, <2>2 DEF deserialize_request
  <2> QED
    BY <2>4, <2>5, <2>6, <2>7
<1>8. Len(s) <= Len(b) => Complete(b) /\ 27 + n <= Len(b)
  BY <1>3, <1>4, <1>6
<1> QED
  BY <1>1, <1>4, <1>6, <1>7, <1>8

\* What the deserializer of a type returns.
Deserialized(type, b) ==
    CASE type = TYPE_CANCEL       -> deserialize_cancel(b)
      [] type = TYPE_TERMINATE    -> deserialize_terminate(b)
      [] type = TYPE_HEARTBEAT    -> deserialize_heartbeat(b)
      [] type = TYPE_SUBSCRIBE_OK -> deserialize_subscribe_ok(b)

LEMMA ShortRead ==
    ASSUME NEW m \in Messages, m.type \in ShortTypes, NEW b \in Seq(Byte), b # <<>>,
           Begins(b, Serialized(m))
    PROVE  /\ Complete(b) <=> Len(Serialized(m)) <= Len(b)
           /\ Complete(b) => Deserialized(m.type, b) = Takes(Len(Serialized(m)), m)
<1>1. PICK s \in Seq(Byte) :
         /\ s = Serialized(m) /\ Len(Field(m)) \in Nat /\ Len(s) = 1 + Len(Field(m))
         /\ s[1] = m.type
         /\ \A i \in 1..Len(Field(m)) : s[1 + i] = Field(m)[i]
  BY ShortBytes, Zenon
<1>2. PICK n \in Nat : n = Len(Field(m))
  BY <1>1
<1>3. b[1] = m.type /\ Len(b) \in Nat
  BY FirstByte, LenProperties
<1>4. Len(s) = 1 + n
  BY <1>1, <1>2
<1>5. \A k \in 1..(1 + n) : k <= Len(b) => b[k] = s[k]
  BY <1>1, <1>4 DEF Begins
<1>6. PICK f \in Seq(Byte) : f = Field(m) /\ Len(f) = n
  BY <1>2, ShortFields
<1>7. /\ m.type \in {TYPE_CANCEL, TYPE_HEARTBEAT} => n = 8
      /\ m.type = TYPE_TERMINATE => n = 1
      /\ m.type = TYPE_SUBSCRIBE_OK => n = 16
      /\ m = IF m.type = TYPE_SUBSCRIBE_OK THEN Message(m.type, f, 0, <<>>)
                                           ELSE Message(m.type, <<>>, 0, f)
  BY <1>2, <1>6, ShortFields
<1>8. m.type \in {TYPE_CANCEL, TYPE_HEARTBEAT, TYPE_TERMINATE, TYPE_SUBSCRIBE_OK}
  BY DEF ShortTypes
<1>9. Complete(b) <=> 1 + n <= Len(b)
  BY <1>3, <1>7, <1>8, CompleteByType
<1>10. ASSUME 1 + n <= Len(b) PROVE Bytes(b, 2, n) = f
  <2>1. \A i \in 1..n : b[1 + i] = f[i]
    <3> SUFFICES ASSUME NEW i \in 1..n PROVE b[1 + i] = f[i]
      OBVIOUS
    <3>1. 1 + i \in 1..(1 + n) /\ 1 + i <= Len(b)
      BY <1>3, <1>10
    <3> QED
      BY <1>1, <1>2, <1>5, <1>6, <3>1
  <2>2. 1 \in Nat /\ 1 + n <= Len(b) /\ Len(f) = n
    BY <1>6, <1>10
  <2>3. Bytes(b, 1 + 1, n) = f
    BY <2>1, <2>2, FieldRead, Zenon
  <2> QED
    BY <2>3 DEF Bytes
<1>11. ASSUME 1 + n <= Len(b) PROVE Deserialized(m.type, b) = Takes(1 + n, m)
  <2>1. Bytes(b, 2, n) = f
    BY <1>10, <1>11
  <2> USE DEF Deserialized, TYPE_CANCEL, TYPE_TERMINATE, TYPE_HEARTBEAT, TYPE_SUBSCRIBE_OK
  <2>2. CASE m.type = TYPE_CANCEL
    BY <1>3, <1>7, <1>11, <2>1, <2>2 DEF deserialize_cancel
  <2>3. CASE m.type = TYPE_HEARTBEAT
    BY <1>3, <1>7, <1>11, <2>1, <2>3 DEF deserialize_heartbeat
  <2>4. CASE m.type = TYPE_TERMINATE
    BY <1>3, <1>7, <1>11, <2>1, <2>4 DEF deserialize_terminate
  <2>5. CASE m.type = TYPE_SUBSCRIBE_OK
    BY <1>3, <1>7, <1>11, <2>1, <2>5 DEF deserialize_subscribe_ok
  <2> QED
    BY <1>8, <2>2, <2>3, <2>4, <2>5
<1> QED
  BY <1>1, <1>4, <1>9, <1>11

-----------------------------------------------------------------------------
(* Where the messages stand in their stream.                               *)

LEMMA EndsAddUp ==
    ASSUME NEW ps \in Seq(Seq(Byte)), NEW N \in Nat, N = Len(ps)
    PROVE  /\ Ends(ps) \in [0..N -> Nat] /\ Ends(ps)[0] = 0
           /\ \A n \in 1..N : Ends(ps)[n] = Ends(ps)[n - 1] + Len(ps[n])
<1> DEFINE step == [p \in Nat \X (1..N) |-> p[1] + Len(ps[p[2]])]
           Solves(g) == g = [n \in 0..N |-> IF n = 0 THEN 0 ELSE g[n - 1] + Len(ps[n])]
<1>1. \A n \in 1..N : ps[n] \in Seq(Byte) /\ Len(ps[n]) \in Nat
  <2> SUFFICES ASSUME NEW n \in 1..N
               PROVE  ps[n] \in Seq(Byte) /\ Len(ps[n]) \in Nat
    OBVIOUS
  <2>1. ps[n] \in Seq(Byte)
    BY ElementOfSeq
  <2> QED
    BY <2>1, LenProperties
<1>2. \A t \in Nat, n \in 1..N : t + Len(ps[n]) \in Nat
  BY <1>1
<1>3. step \in [Nat \X (1..N) -> Nat] /\ \A t \in Nat, n \in 1..N : step[<<t, n>>] = t + Len(ps[n])
  BY <1>2
<1> HIDE DEF step
<1>4. PICK f \in [0..N -> Nat] : f[0] = 0 /\ \A n \in 1..N : f[n] = step[<<f[n - 1], n>>]
  <2>1. 0 \in Nat
    BY EmptySeq
  <2>2. PICK f \in [0..N -> Nat] : Follows(f, 0, N, step)
    BY <1>3, <2>1, RecursionExists
  <2> QED
    BY <2>2 DEF Follows
<1>5. ASSUME NEW n \in 1..N PROVE f[n] = f[n - 1] + Len(ps[n])
  <2>1. f[n - 1] \in Nat
    <3>1. n - 1 \in 0..N
      OBVIOUS
    <3> QED
      BY <3>1
  <2> QED
    BY <1>3, <1>4, <2>1
<1>6. Solves(f)
  <2> DEFINE h == [n \in 0..N |-> IF n = 0 THEN 0 ELSE f[n - 1] + Len(ps[n])]
  <2>1. ASSUME NEW n \in 0..N PROVE h[n] = f[n]
    <3>1. CASE n = 0
      BY <1>4, <3>1
    <3>2. CASE n # 0
      <4>1. n \in 1..N
        BY <3>2
      <4> QED
        BY <1>5, <3>2, <4>1
    <3> QED
      BY <3>1, <3>2
  <2>2. f = [n \in 0..N |-> f[n]] /\ h = [n \in 0..N |-> h[n]]
    OBVIOUS
  <2> HIDE DEF h
  <2>3. f = h
    BY <2>1, <2>2
  <2> QED
    BY <2>3 DEF h
<1> DEFINE g == CHOOSE x : Solves(x)
<1>7. Ends(ps) = g
  BY DEF Ends
<1>8. Solves(g)
  <2> HIDE DEF Solves
  <2> QED
    BY <1>6
<1> HIDE DEF g
\* Two solutions are equal, by induction.
<1>9. \A n \in 0..N : g[n] = f[n]
  <2> DEFINE S == {n \in Nat : n <= N => g[n] = f[n]}
  <2>1. 0 \in S
    <3>1. g[0] = 0
      BY <1>8
    <3> QED
      BY <1>4, <3>1
  <2>2. ASSUME NEW n \in Nat, n \in S PROVE n + 1 \in S
    <3> SUFFICES ASSUME n + 1 <= N PROVE g[n + 1] = f[n + 1]
      OBVIOUS
    <3>1. n + 1 \in 1..N /\ n + 1 \in 0..N /\ n + 1 # 0 /\ (n + 1) - 1 = n
      OBVIOUS
    <3>2. g[n] = f[n]
      BY <2>2
    <3>3. g[n + 1] = g[n] + Len(ps[n + 1])
      BY <1>8, <3>1
    <3>4. f[n + 1] = f[n] + Len(ps[n + 1])
      BY <1>5, <3>1
    <3> QED
      BY <3>2, <3>3, <3>4
  <2>3. \A n \in Nat : n \in S
    <3> HIDE DEF S
    <3> QED
      BY <2>1, <2>2, Induction
  <2> SUFFICES ASSUME NEW n \in 0..N PROVE g[n] = f[n]
    OBVIOUS
  <2>4. n \in S
    <3>1. n \in Nat
      OBVIOUS
    <3> HIDE DEF S
    <3> QED
      BY <2>3, <3>1
  <2> QED
    BY <2>4
<1>10. g = f
  <2>1. DOMAIN g = 0..N /\ g = [n \in 0..N |-> g[n]]
    BY <1>8
  <2>2. f = [n \in 0..N |-> f[n]]
    OBVIOUS
  <2> HIDE DEF Solves
  <2> QED
    BY <1>9, <2>1, <2>2
<1> QED
  BY <1>4, <1>5, <1>7, <1>10

LEMMA JoinedAddUp ==
    ASSUME NEW ps \in Seq(Seq(Byte)), NEW N \in Nat, N = Len(ps)
    PROVE  /\ Joined(ps) \in [0..N -> Seq(Byte)] /\ Joined(ps)[0] = <<>>
           /\ \A n \in 1..N : Joined(ps)[n] = Joined(ps)[n - 1] \o ps[n]
<1> DEFINE step == [p \in Seq(Byte) \X (1..N) |-> p[1] \o ps[p[2]]]
           Solves(g) == g = [n \in 0..N |-> IF n = 0 THEN <<>> ELSE g[n - 1] \o ps[n]]
<1>1. \A n \in 1..N : ps[n] \in Seq(Byte) /\ Len(ps[n]) \in Nat
  <2> SUFFICES ASSUME NEW n \in 1..N
               PROVE  ps[n] \in Seq(Byte) /\ Len(ps[n]) \in Nat
    OBVIOUS
  <2>1. ps[n] \in Seq(Byte)
    BY ElementOfSeq
  <2> QED
    BY <2>1, LenProperties
<1>2. \A t \in Seq(Byte), n \in 1..N : t \o ps[n] \in Seq(Byte)
  BY <1>1, ConcatProperties
<1>3. step \in [Seq(Byte) \X (1..N) -> Seq(Byte)] /\ \A t \in Seq(Byte), n \in 1..N : step[<<t, n>>] = t \o ps[n]
  BY <1>2
<1> HIDE DEF step
<1>4. PICK f \in [0..N -> Seq(Byte)] : f[0] = <<>> /\ \A n \in 1..N : f[n] = step[<<f[n - 1], n>>]
  <2>1. <<>> \in Seq(Byte)
    BY EmptySeq
  <2>2. PICK f \in [0..N -> Seq(Byte)] : Follows(f, <<>>, N, step)
    BY <1>3, <2>1, RecursionExists
  <2> QED
    BY <2>2 DEF Follows
<1>5. ASSUME NEW n \in 1..N PROVE f[n] = f[n - 1] \o ps[n]
  <2>1. f[n - 1] \in Seq(Byte)
    <3>1. n - 1 \in 0..N
      OBVIOUS
    <3> QED
      BY <3>1
  <2> QED
    BY <1>3, <1>4, <2>1
<1>6. Solves(f)
  <2> DEFINE h == [n \in 0..N |-> IF n = 0 THEN <<>> ELSE f[n - 1] \o ps[n]]
  <2>1. ASSUME NEW n \in 0..N PROVE h[n] = f[n]
    <3>1. CASE n = 0
      BY <1>4, <3>1
    <3>2. CASE n # 0
      <4>1. n \in 1..N
        BY <3>2
      <4> QED
        BY <1>5, <3>2, <4>1
    <3> QED
      BY <3>1, <3>2
  <2>2. f = [n \in 0..N |-> f[n]] /\ h = [n \in 0..N |-> h[n]]
    OBVIOUS
  <2> HIDE DEF h
  <2>3. f = h
    BY <2>1, <2>2
  <2> QED
    BY <2>3 DEF h
<1> DEFINE g == CHOOSE x : Solves(x)
<1>7. Joined(ps) = g
  BY DEF Joined
<1>8. Solves(g)
  <2> HIDE DEF Solves
  <2> QED
    BY <1>6
<1> HIDE DEF g
\* Two solutions are equal, by induction.
<1>9. \A n \in 0..N : g[n] = f[n]
  <2> DEFINE S == {n \in Nat : n <= N => g[n] = f[n]}
  <2>1. 0 \in S
    <3>1. g[0] = <<>>
      BY <1>8
    <3> QED
      BY <1>4, <3>1
  <2>2. ASSUME NEW n \in Nat, n \in S PROVE n + 1 \in S
    <3> SUFFICES ASSUME n + 1 <= N PROVE g[n + 1] = f[n + 1]
      OBVIOUS
    <3>1. n + 1 \in 1..N /\ n + 1 \in 0..N /\ n + 1 # 0 /\ (n + 1) - 1 = n
      OBVIOUS
    <3>2. g[n] = f[n]
      BY <2>2
    <3>3. g[n + 1] = g[n] \o ps[n + 1]
      BY <1>8, <3>1
    <3>4. f[n + 1] = f[n] \o ps[n + 1]
      BY <1>5, <3>1
    <3> QED
      BY <3>2, <3>3, <3>4
  <2>3. \A n \in Nat : n \in S
    <3> HIDE DEF S
    <3> QED
      BY <2>1, <2>2, Induction
  <2> SUFFICES ASSUME NEW n \in 0..N PROVE g[n] = f[n]
    OBVIOUS
  <2>4. n \in S
    <3>1. n \in Nat
      OBVIOUS
    <3> HIDE DEF S
    <3> QED
      BY <2>3, <3>1
  <2> QED
    BY <2>4
<1>10. g = f
  <2>1. DOMAIN g = 0..N /\ g = [n \in 0..N |-> g[n]]
    BY <1>8
  <2>2. f = [n \in 0..N |-> f[n]]
    OBVIOUS
  <2> HIDE DEF Solves
  <2> QED
    BY <1>9, <2>1, <2>2
<1> QED
  BY <1>4, <1>5, <1>7, <1>10

\* E: where the parts end; W: the bytes of the whole.
Spread(ps, E, W) ==
    /\ W \in Seq(Byte) /\ Len(W) = E[Len(ps)]
    /\ E \in [0..Len(ps) -> Nat] /\ E[0] = 0
    /\ \A i, j \in 0..Len(ps) : i <= j => E[i] <= E[j]
    /\ \A i \in 1..Len(ps) : E[i] = E[i - 1] + Len(ps[i])
    /\ \A i \in 1..Len(ps) : \A k \in 1..Len(ps[i]) :
          W[E[i - 1] + k] = ps[i][k]

LEMMA SpreadOut ==
    ASSUME NEW ps \in Seq(Seq(Byte))
    PROVE  Spread(ps, Ends(ps), Joined(ps)[Len(ps)])
<1>1. PICK N \in Nat : N = Len(ps)
  BY LenProperties
<1>2. PICK E \in [0..N -> Nat] :
         /\ E = Ends(ps) /\ E[0] = 0
         /\ \A n \in 1..N : E[n] = E[n - 1] + Len(ps[n])
  BY <1>1, EndsAddUp
<1>3. PICK J \in [0..N -> Seq(Byte)] :
         /\ J = Joined(ps) /\ J[0] = <<>>
         /\ \A n \in 1..N : J[n] = J[n - 1] \o ps[n]
  BY <1>1, JoinedAddUp
<1>4. \A n \in 1..N : ps[n] \in Seq(Byte) /\ Len(ps[n]) \in Nat
  <2> SUFFICES ASSUME NEW n \in 1..N
               PROVE  ps[n] \in Seq(Byte) /\ Len(ps[n]) \in Nat
    OBVIOUS
  <2>1. ps[n] \in Seq(Byte)
    BY <1>1, ElementOfSeq
  <2> QED
    BY <2>1, LenProperties
<1> DEFINE P(n) == /\ Len(J[n]) = E[n]
                   /\ \A i \in 0..n : E[i] <= E[n]
                   /\ \A i \in 0..n : \A j \in i..n : E[i] <= E[j]
                   /\ \A i \in 1..n : \A k \in 1..Len(ps[i]) :
                         J[n][E[i - 1] + k] = ps[i][k]
           S == {n \in Nat : n <= N => P(n)}
<1>5. 0 \in S
  <2>1. Len(J[0]) = 0 /\ J[0] \in Seq(Byte)
    BY <1>3, EmptySeq
  <2>2. \A i \in 0..0 : i = 0 /\ E[i] <= E[0]
    BY <1>2
  <2>3. P(0)
    BY <1>2, <2>1, <2>2
  <2> QED
    BY <2>3
<1>6. ASSUME NEW n \in Nat, n \in S PROVE n + 1 \in S
  <2> SUFFICES ASSUME n + 1 <= N PROVE P(n + 1)
    OBVIOUS
  <2>1. /\ n + 1 \in 1..N /\ n \in 0..N /\ n + 1 \in 0..N /\ (n + 1) - 1 = n
        /\ \A i \in 1..n : i \in 1..N /\ i - 1 \in 0..n /\ i \in 0..n /\ i - 1 \in 0..N /\ i \in 0..N
        /\ \A i \in 0..n : i \in 0..N
    BY <1>1
  <2>2. P(n)
    BY <1>6
  <2>3. PICK s \in Seq(Byte) : s = ps[n + 1] /\ Len(s) \in Nat
    BY <1>4, <2>1
  <2>4. PICK a \in Seq(Byte) : a = J[n] /\ Len(a) = E[n]
    BY <2>1, <2>2
  <2>5. PICK b \in Seq(Byte) : Parts(b, a, s)
    BY PartsExist
  <2>6. J[n + 1] = b
    BY <1>3, <2>1, <2>3, <2>4, <2>5 DEF Parts
  <2>7. E[n + 1] = E[n] + Len(s) /\ E[n] \in Nat /\ E[n + 1] \in Nat
    BY <1>2, <2>1, <2>3
  <2>8. Len(J[n + 1]) = E[n + 1]
    BY <2>4, <2>5, <2>6, <2>7 DEF Parts
  <2>9. ASSUME NEW i \in 0..(n + 1) PROVE E[i] <= E[n + 1]
    <3>1. CASE i \in 0..n
      <4>1. E[i] <= E[n] /\ E[i] \in Nat
        BY <2>1, <2>2, <3>1
      <4>2. PICK x \in Nat, y \in Nat, z \in Nat, l \in Nat :
               x = E[i] /\ y = E[n] /\ z = E[n + 1] /\ l = Len(s)
        BY <2>3, <2>7, <4>1
      <4>3. x <= y /\ z = y + l
        BY <2>7, <4>1, <4>2
      <4>4. x <= z
        BY <4>3
      <4> QED
        BY <4>2, <4>4
    <3>2. CASE i = n + 1
      <4>1. PICK x \in Nat : x = E[n + 1]
        BY <2>7
      <4> QED
        BY <3>2, <4>1
    <3> QED
      BY <3>1, <3>2
  <2>10. ASSUME NEW i \in 0..(n + 1), NEW j \in i..(n + 1) PROVE E[i] <= E[j]
    <3>1. CASE j = n + 1
      BY <2>9, <3>1
    <3>2. CASE j # n + 1
      <4>1. i \in 0..n /\ j \in i..n
        BY <3>2
      <4> QED
        BY <2>2, <4>1
    <3> QED
      BY <3>1, <3>2
  <2>11. ASSUME NEW i \in 1..(n + 1), NEW k \in 1..Len(ps[i])
         PROVE  b[E[i - 1] + k] = ps[i][k]
    <3>1. CASE i = n + 1
      <4>1. k \in 1..Len(s) /\ E[i - 1] = Len(a) /\ ps[i][k] = s[k]
        BY <2>1, <2>3, <2>4, <3>1
      <4> QED
        BY <2>5, <4>1 DEF Parts
    <3>2. CASE i # n + 1
      <4>1. i \in 1..n
        BY <3>2
      <4>2. E[i] = E[i - 1] + Len(ps[i]) /\ E[i] <= E[n]
        BY <1>2, <2>1, <2>2, <4>1
      <4>3. E[i - 1] \in Nat /\ Len(ps[i]) \in Nat
        BY <1>4, <2>1, <4>1
      <4>4. E[i - 1] + k \in 1..Len(a)
        <5>1. PICK x \in Nat, l \in Nat, y \in Nat :
                 x = E[i - 1] /\ l = Len(ps[i]) /\ y = E[n]
          BY <2>7, <4>3
        <5>2. x + l <= y /\ Len(a) = y /\ k \in 1..l
          BY <2>4, <4>2, <5>1
        <5>3. x + k \in 1..y
          BY <5>2
        <5> QED
          BY <5>1, <5>2, <5>3
      <4>5. b[E[i - 1] + k] = a[E[i - 1] + k]
        BY <2>5, <4>4 DEF Parts
      <4> QED
        BY <2>2, <2>4, <4>1, <4>5
    <3> QED
      BY <3>1, <3>2
  <2> QED
    BY <2>6, <2>8, <2>9, <2>10, <2>11
<1>7. P(N)
  <2>1. \A n \in Nat : n \in S
    <3> HIDE DEF S
    <3> QED
      BY <1>5, <1>6, Induction
  <2>2. N \in S
    <3> HIDE DEF S
    <3> QED
      BY <2>1
  <2> QED
    BY <2>2
<1> DEFINE W == J[N]
<1>8. W \in Seq(Byte) /\ Len(W) = E[N] /\ E[0] = 0
  BY <1>2, <1>7
<1>9. \A i, j \in 0..N : i <= j => E[i] <= E[j]
  <2> SUFFICES ASSUME NEW i \in 0..N, NEW j \in 0..N, i <= j PROVE E[i] <= E[j]
    OBVIOUS
  <2>1. j \in i..N
    OBVIOUS
  <2> QED
    BY <1>7, <2>1
<1>10. \A i \in 1..N : \A k \in 1..Len(ps[i]) : W[E[i - 1] + k] = ps[i][k]
  BY <1>7
<1> HIDE DEF W
<1>11. Spread(ps, E, W)
  BY <1>1, <1>2, <1>8, <1>9, <1>10 DEF Spread
<1> QED
  BY <1>1, <1>2, <1>3, <1>11 DEF W

\* E: where the messages end; W: the bytes of the whole stream.
Laid(ms, E, W) ==
    /\ W \in Seq(Byte) /\ Len(W) = E[Len(ms)]
    /\ E \in [0..Len(ms) -> Nat] /\ E[0] = 0
    /\ \A i, j \in 0..Len(ms) : i <= j => E[i] <= E[j]
    /\ \A i \in 1..Len(ms) : E[i] = E[i - 1] + Len(Serialized(ms[i]))
    /\ \A i \in 1..Len(ms) : \A k \in 1..Len(Serialized(ms[i])) :
          W[E[i - 1] + k] = Serialized(ms[i])[k]

LEMMA Layout ==
    ASSUME messages \in Seq(Messages)
    PROVE  Laid(messages, EndOf, Written[Len(messages)])
<1>1. PICK N \in Nat : N = Len(messages)
  BY LenProperties
<1>2. \A i \in 1..N : Serialized(messages[i]) \in Seq(Byte)
  <2> SUFFICES ASSUME NEW i \in 1..N PROVE Serialized(messages[i]) \in Seq(Byte)
    OBVIOUS
  <2>1. messages[i] \in Messages
    BY <1>1, ElementOfSeq
  <2> QED
    BY <2>1, MessageBytes
<1>3. /\ Sent \in Seq(Seq(Byte)) /\ Len(Sent) = N
      /\ \A i \in 1..N : Sent[i] = Serialized(messages[i])
  BY <1>1, <1>2 DEF Sent
<1>4. Spread(Sent, EndOf, Written[N])
  BY <1>3, SpreadOut DEF EndOf, Written
<1> DEFINE E == EndOf
           W == Written[N]
<1>5. /\ W \in Seq(Byte) /\ Len(W) = E[N]
      /\ E \in [0..N -> Nat] /\ E[0] = 0
      /\ \A i, j \in 0..N : i <= j => E[i] <= E[j]
      /\ \A i \in 1..N : E[i] = E[i - 1] + Len(Sent[i])
      /\ \A i \in 1..N : \A k \in 1..Len(Sent[i]) : W[E[i - 1] + k] = Sent[i][k]
  BY <1>3, <1>4 DEF Spread
<1> HIDE DEF E, W
<1>6. /\ \A i \in 1..N : E[i] = E[i - 1] + Len(Serialized(messages[i]))
      /\ \A i \in 1..N : \A k \in 1..Len(Serialized(messages[i])) :
            W[E[i - 1] + k] = Serialized(messages[i])[k]
  BY <1>3, <1>5
<1>7. Laid(messages, E, W)
  BY <1>1, <1>5, <1>6 DEF Laid
<1> QED
  BY <1>1, <1>7 DEF E, W

-----------------------------------------------------------------------------
(* What is in the buffer: of a bytes of the stream, those behind its first *)
(* h messages.                                                             *)

Cut(ms, E, W, h, a, b) ==
    /\ Laid(ms, E, W)
    /\ h \in 0..Len(ms) /\ a \in 0..E[Len(ms)] /\ E[h] <= a
    /\ b = SubSeq(W, E[h] + 1, a)

\* A part of a sequence.
IsPart(b, W, x, y) ==
    /\ b = SubSeq(W, x + 1, y) /\ Len(b) = y - x
    /\ \A i \in 1..(y - x) : b[i] = W[x + i]

LEMMA PartOf ==
    ASSUME NEW S, NEW W \in Seq(S), NEW x \in Nat, NEW y \in Nat, x <= y, y <= Len(W)
    PROVE  \E b \in Seq(S) : IsPart(b, W, x, y)
<1>1. PICK first \in Int : first = x + 1
  OBVIOUS
<1>2. \A i \in first..y : W[i] \in S
  <2> SUFFICES ASSUME NEW i \in first..y PROVE W[i] \in S
    OBVIOUS
  <2>1. i \in 1..Len(W)
    BY <1>1, LenProperties
  <2> QED
    BY <2>1, ElementOfSeq
<1>3. /\ SubSeq(W, first, y) \in Seq(S)
      /\ Len(SubSeq(W, first, y)) = IF first <= y THEN y - first + 1 ELSE 0
      /\ \A i \in 1..(y - first + 1) : SubSeq(W, first, y)[i] = W[first + i - 1]
  BY <1>2, SubSeqProperties
<1>4. PICK b \in Seq(S) :
         /\ b = SubSeq(W, first, y)
         /\ Len(b) = IF first <= y THEN y - first + 1 ELSE 0
         /\ \A i \in 1..(y - first + 1) : b[i] = W[first + i - 1]
  BY <1>3
<1>5. Len(b) = y - x
  BY <1>1, <1>4
<1>6. ASSUME NEW i \in 1..(y - x) PROVE b[i] = W[x + i]
  <2>1. i \in 1..(y - first + 1) /\ first + i - 1 = x + i
    BY <1>1
  <2> QED
    BY <1>4, <2>1
<1> QED
  BY <1>1, <1>4, <1>5, <1>6 DEF IsPart

LEMMA CutBytes ==
    ASSUME NEW ms \in Seq(Messages), NEW E, NEW W, NEW h, NEW a, NEW b, Cut(ms, E, W, h, a, b)
    PROVE  /\ E[h] \in Nat /\ a \in Nat /\ E[h] <= a /\ a <= Len(W) /\ Len(W) \in Nat
           /\ b \in Seq(Byte) /\ Len(b) = a - E[h]
           /\ \A i \in 1..(a - E[h]) : b[i] = W[E[h] + i]
<1>1. /\ W \in Seq(Byte) /\ Len(W) = E[Len(ms)] /\ E \in [0..Len(ms) -> Nat]
      /\ h \in 0..Len(ms) /\ a \in 0..E[Len(ms)] /\ E[h] <= a /\ b = SubSeq(W, E[h] + 1, a)
  BY DEF Cut, Laid
<1>2. PICK x \in Nat, l \in Nat : x = E[h] /\ l = Len(W)
  BY <1>1, LenProperties
<1>3. a \in 0..l
  BY <1>1, <1>2
<1>4. a \in Nat /\ x <= a /\ a <= l
  BY <1>1, <1>2, <1>3
<1>5. PICK c \in Seq(Byte) : IsPart(c, W, x, a)
  BY <1>1, <1>2, <1>4, PartOf
<1> QED
  BY <1>1, <1>2, <1>4, <1>5 DEF IsPart

\* A buffer that is not empty begins with the next message, or a part of it.
LEMMA NextInCut ==
    ASSUME NEW ms \in Seq(Messages), NEW E, NEW W, NEW h, NEW a, NEW b,
           Cut(ms, E, W, h, a, b), b # <<>>
    PROVE  /\ h \in Nat /\ h + 1 \in 1..Len(ms) /\ (h + 1) - 1 = h
           /\ ms[h + 1] \in Messages /\ b \in Seq(Byte)
           /\ Begins(b, Serialized(ms[h + 1]))
           /\ E[h + 1] = E[h] + Len(Serialized(ms[h + 1])) /\ E[h] \in Nat /\ a \in Nat
           /\ Len(b) = a - E[h] /\ Len(Serialized(ms[h + 1])) \in Nat
           /\ Len(Serialized(ms[h + 1])) <= Len(b) <=> E[h + 1] <= a
<1>1. /\ E[h] \in Nat /\ a \in Nat /\ E[h] <= a /\ a <= Len(W) /\ Len(W) \in Nat
      /\ b \in Seq(Byte) /\ Len(b) = a - E[h]
      /\ \A i \in 1..(a - E[h]) : b[i] = W[E[h] + i]
  BY CutBytes
<1>2. PICK x \in Nat : x = E[h]
  BY <1>1
<1>3. Len(b) \in Nat \ {0} /\ Len(b) = a - x
  BY <1>1, <1>2, EmptySeq
<1>4. PICK N \in Nat : N = Len(ms) /\ h \in 0..N
  BY LenProperties DEF Cut
<1>5. h \in Nat /\ h + 1 \in 1..N /\ (h + 1) - 1 = h
  <2>1. h # N
    <3>1. SUFFICES ASSUME h = N PROVE FALSE
      OBVIOUS
    <3>2. a \in 0..x
      BY <1>2, <1>4, <3>1 DEF Cut
    <3> QED
      BY <1>3, <3>2
  <2> QED
    BY <1>4, <2>1
<1>6. ms[h + 1] \in Messages
  BY <1>4, <1>5, ElementOfSeq
<1>7. PICK l \in Nat : l = Len(Serialized(ms[h + 1]))
  BY <1>6, MessageBytes
<1>8. /\ E[h + 1] = x + l
      /\ \A k \in 1..l : W[x + k] = Serialized(ms[h + 1])[k]
  BY <1>2, <1>4, <1>5, <1>7 DEF Cut, Laid
<1>9. Begins(b, Serialized(ms[h + 1]))
  <2> SUFFICES ASSUME NEW k \in 1..l, k <= Len(b) PROVE b[k] = Serialized(ms[h + 1])[k]
    BY <1>7 DEF Begins
  <2>1. k \in 1..(a - x)
    BY <1>3
  <2> QED
    BY <1>1, <1>2, <1>8, <2>1
<1>10. l <= Len(b) <=> x + l <= a
  BY <1>1, <1>3
<1> QED
  BY <1>1, <1>2, <1>4, <1>5, <1>6, <1>7, <1>8, <1>9, <1>10

\* Taking that message.
LEMMA DropCut ==
    ASSUME NEW ms \in Seq(Messages), NEW E, NEW W, NEW h, NEW a, NEW b,
           Cut(ms, E, W, h, a, b), b # <<>>, Len(Serialized(ms[h + 1])) <= Len(b)
    PROVE  Cut(ms, E, W, h + 1, a, DropBytes(b, Len(Serialized(ms[h + 1]))))
<1>1. /\ E[h] \in Nat /\ a \in Nat /\ E[h] <= a /\ a <= Len(W) /\ Len(W) \in Nat
      /\ b \in Seq(Byte) /\ Len(b) = a - E[h]
      /\ \A i \in 1..(a - E[h]) : b[i] = W[E[h] + i]
  BY CutBytes
<1>2. /\ h \in Nat /\ h + 1 \in 1..Len(ms)
      /\ E[h + 1] = E[h] + Len(Serialized(ms[h + 1])) /\ E[h + 1] <= a
  BY NextInCut
<1>3. PICK x \in Nat, l \in Nat, z \in Nat :
         /\ x = E[h] /\ l = Len(Serialized(ms[h + 1])) /\ z = E[h + 1]
         /\ z = x + l /\ z <= a /\ Len(b) = a - x
  <2>1. Len(Serialized(ms[h + 1])) \in Nat
    BY NextInCut
  <2>2. PICK x \in Nat, l \in Nat : x = E[h] /\ l = Len(Serialized(ms[h + 1]))
    BY <1>1, <2>1
  <2> QED
    BY <1>1, <1>2, <2>2
<1>4. PICK d \in Seq(Byte) : IsPart(d, b, l, a - x)
  <2>1. a - x \in Nat /\ l <= a - x /\ a - x <= Len(b)
    BY <1>1, <1>3
  <2> QED
    BY <1>1, <2>1, PartOf
<1>5. W \in Seq(Byte)
  BY DEF Cut, Laid
<1>6. PICK c \in Seq(Byte) : IsPart(c, W, z, a)
  BY <1>1, <1>3, <1>5, PartOf
<1>7. Len(c) = Len(d) /\ Len(c) = a - z /\ (a - x) - l = a - z
  <2>1. a \in Nat /\ z = x + l
    BY <1>1, <1>3
  <2>2. (a - x) - l = a - z
    BY <2>1
  <2>3. Len(d) = (a - x) - l /\ Len(c) = a - z
    BY <1>4, <1>6 DEF IsPart
  <2> QED
    BY <2>2, <2>3
<1>8. ASSUME NEW i \in 1..Len(c) PROVE c[i] = d[i]
  <2>1. i \in 1..(a - z) /\ i \in 1..((a - x) - l)
    BY <1>7
  <2>2. l + i \in 1..(a - x) /\ x + (l + i) = z + i
    <3>1. a \in Nat /\ z = x + l
      BY <1>1, <1>3
    <3> QED
      BY <2>1, <3>1
  <2>3. c[i] = W[z + i] /\ d[i] = b[l + i]
    BY <1>4, <1>6, <2>1 DEF IsPart
  <2>4. b[l + i] = W[x + (l + i)]
    BY <1>1, <1>3, <2>2
  <2> QED
    BY <2>2, <2>3, <2>4
<1>9. c = d
  BY <1>7, <1>8, SeqEqual
<1>10. DropBytes(b, l) = c
  BY <1>3, <1>4, <1>6, <1>9 DEF DropBytes, IsPart
<1>11. h + 1 \in 0..Len(ms)
  BY <1>2, LenProperties
<1> QED
  BY <1>3, <1>6, <1>10, <1>11 DEF Cut, IsPart

\* A chunk.
LEMMA ExtendCut ==
    ASSUME NEW ms \in Seq(Messages), NEW E, NEW W, NEW h, NEW a, NEW b,
           Cut(ms, E, W, h, a, b), NEW k \in Nat, a + k <= E[Len(ms)]
    PROVE  Cut(ms, E, W, h, a + k, b \o SubSeq(W, a + 1, a + k))
<1>1. /\ E[h] \in Nat /\ a \in Nat /\ E[h] <= a /\ a <= Len(W) /\ Len(W) \in Nat
  BY CutBytes
<1>2. W \in Seq(Byte) /\ Len(W) = E[Len(ms)]
  BY DEF Cut, Laid
<1>3. PICK x \in Nat, l \in Nat : x = E[h] /\ l = Len(W) /\ l = E[Len(ms)]
  BY <1>1, <1>2
<1>4. /\ x + 1 \in 1..(l + 1) /\ a \in ((x + 1) - 1)..l /\ a + k \in a..l
      /\ a + k \in 0..l /\ x <= a + k
  BY <1>1, <1>3
<1>5. SubSeq(W, x + 1, a) \o SubSeq(W, a + 1, a + k) = SubSeq(W, x + 1, a + k)
  <2> DEFINE m == x + 1
             n == a + k
  <2>1. m \in 1..(Len(W) + 1) /\ a \in (m - 1)..Len(W) /\ n \in a..Len(W)
    BY <1>3, <1>4
  <2> HIDE DEF m, n
  <2>2. SubSeq(W, m, a) \o SubSeq(W, a + 1, n) = SubSeq(W, m, n)
    BY <1>2, <2>1, ConcatAdjacentSubSeq
  <2> QED
    BY <2>2 DEF m, n
<1> QED
  BY <1>3, <1>4, <1>5 DEF Cut

LEMMA OneMore ==
    ASSUME NEW S, NEW ms \in Seq(S), NEW h \in Nat, h + 1 \in 1..Len(ms)
    PROVE  SubSeq(ms, 1, h) \o <<ms[h + 1]>> = SubSeq(ms, 1, h + 1)
<1>1. PICK n \in Nat : n = h + 1 /\ n <= Len(ms) /\ h = n - 1
  BY LenProperties
<1>2. PICK v \in S : v = ms[n]
  BY <1>1, ElementOfSeq
<1>3. PICK a \in Seq(S) : IsPart(a, ms, 0, h)
  <2>1. h \in Nat /\ 0 \in Nat /\ 0 <= h /\ h <= Len(ms)
    BY <1>1
  <2> QED
    BY <2>1, PartOf
<1>4. PICK c \in Seq(S) : IsPart(c, ms, 0, n)
  <2>1. 0 \in Nat /\ 0 <= n
    OBVIOUS
  <2> QED
    BY <1>1, <2>1, PartOf
<1>5. PICK e \in Seq(S) : e = <<v>> /\ Len(e) = 1 /\ e[1] = v
  <2>1. <<v>> \in Seq(S)
    OBVIOUS
  <2>2. Len(<<v>>) = 1 /\ <<v>>[1] = v
    OBVIOUS
  <2> QED
    BY <2>1, <2>2
<1>6. PICK d \in Seq(S) : Parts(d, a, e)
  <2>1. a \o e \in Seq(S) /\ Parts(a \o e, a, e)
    BY TwoParts DEF Parts
  <2> QED
    BY <2>1
<1>7. /\ a = SubSeq(ms, 1, h) /\ Len(a) = h /\ \A i \in 1..h : a[i] = ms[i]
      /\ c = SubSeq(ms, 1, n) /\ Len(c) = n /\ \A i \in 1..n : c[i] = ms[i]
  BY <1>3, <1>4 DEF IsPart
<1>8. d = a \o e /\ Len(d) = n
  BY <1>1, <1>5, <1>6, <1>7 DEF Parts
<1>9. ASSUME NEW i \in 1..n PROVE d[i] = c[i]
  <2>1. CASE i = n
    <3>1. 1 \in 1..Len(e) /\ Len(a) + 1 = n
      BY <1>1, <1>5, <1>7
    <3>2. d[n] = e[1]
      BY <1>6, <3>1 DEF Parts
    <3> QED
      BY <1>2, <1>5, <1>7, <2>1, <3>2
  <2>2. CASE i # n
    <3>1. i \in 1..h
      BY <1>1, <2>2
    <3>2. d[i] = a[i]
      BY <1>6, <1>7, <3>1 DEF Parts
    <3> QED
      BY <1>7, <3>1, <3>2
  <2> QED
    BY <2>1, <2>2
<1>10. d = c
  BY <1>7, <1>8, <1>9, SeqEqual
<1> QED
  BY <1>1, <1>2, <1>5, <1>7, <1>8, <1>10

-----------------------------------------------------------------------------
(* The invariant.  While no chunk has ended where the reader misjudges it, *)
(* its state is that of a reader who has handled h whole messages, and     *)
(* holds in the buffer all that has arrived behind them.                   *)

OnTrack(h) ==
    /\ Cut(messages, EndOf, Written[Len(messages)], h, arrived, buffer)
    /\ handled = SubSeq(messages, 1, h)

CaughtUp(h) == \A i \in 1..Len(messages) : EndOf[i] <= arrived => i <= h

ControlInv ==
    /\ messages \in Seq(Messages)
    /\ ~exposed =>
          /\ reader # "failed"
          /\ arrived = 0 \/ ~Misjudged(arrived)
          /\ \E h \in 0..Len(messages) :
                OnTrack(h) /\ (reader \in {"reading", "closed"} => CaughtUp(h))

LEMMA InitOnTrack == ControlInit => ControlInv
<1> SUFFICES ASSUME ControlInit PROVE ControlInv
  OBVIOUS
<1>1. messages \in Seq(Messages)
  BY StreamsAssumption DEF ControlInit
<1>2. Laid(messages, EndOf, Written[Len(messages)])
  BY <1>1, Layout
<1>3. PICK N \in Nat : N = Len(messages) /\ 0 \in 0..N
  BY <1>1, LenProperties
<1>4. PICK E \in [0..N -> Nat] :
         /\ E = EndOf /\ E[0] = 0
         /\ \A i \in 1..N : E[i] = E[i - 1] + Len(Serialized(messages[i]))
         /\ \A i, j \in 0..N : i <= j => E[i] <= E[j]
  BY <1>2, <1>3 DEF Laid
<1>5. OnTrack(0)
  <2>1. 0 \in 0..E[N] /\ E[0] <= 0
    BY <1>3, <1>4
  <2>2. SubSeq(Written[N], 0 + 1, 0) = <<>> /\ SubSeq(messages, 1, 0) = <<>>
    BY SubSeqEmpty
  <2> QED
    BY <1>2, <1>3, <1>4, <2>1, <2>2 DEF OnTrack, Cut, ControlInit
<1>6. CaughtUp(0)
  <2> SUFFICES ASSUME NEW i \in 1..N, E[i] <= 0 PROVE FALSE
    BY <1>3, <1>4 DEF CaughtUp, ControlInit
  <2>1. messages[i] \in Messages
    BY <1>1, <1>3, ElementOfSeq
  <2>2. PICK l \in Nat \ {0} : l = Len(Serialized(messages[i]))
    BY <2>1, MessageBytes
  <2>3. i - 1 \in 0..N
    BY <1>3
  <2>4. PICK x \in Nat, y \in Nat : x = E[i - 1] /\ y = E[i] /\ y = x + l
    BY <1>4, <2>2, <2>3
  <2> QED
    BY <2>4
<1> QED
  BY <1>1, <1>3, <1>5, <1>6 DEF ControlInv, ControlInit

-----------------------------------------------------------------------------
\* What the reader finds at the front of its buffer.
Front(h, m) ==
    /\ h \in Nat /\ h + 1 \in 1..Len(messages) /\ m = messages[h + 1] /\ m \in Messages
    /\ m.type \in Known /\ m.type # TYPE_UNSUBSCRIBE
    /\ buffer \in Seq(Byte) /\ Begins(buffer, Serialized(m)) /\ buffer[1] = m.type
    /\ Complete(buffer) <=> EndOf[h + 1] <= arrived
    /\ Complete(buffer) <=> Len(Serialized(m)) <= Len(buffer)

LEMMA FrontOfBuffer ==
    ASSUME ControlInv, ~exposed, NEW h, OnTrack(h), buffer # <<>>
    PROVE  Front(h, messages[h + 1])
<1> DEFINE m == messages[h + 1]
<1>1. messages \in Seq(Messages)
  BY DEF ControlInv
<1>2. /\ h \in Nat /\ h + 1 \in 1..Len(messages) /\ (h + 1) - 1 = h
      /\ m \in Messages /\ buffer \in Seq(Byte) /\ Begins(buffer, Serialized(m))
      /\ EndOf[h + 1] = EndOf[h] + Len(Serialized(m)) /\ EndOf[h] \in Nat /\ arrived \in Nat
      /\ Len(buffer) = arrived - EndOf[h] /\ Len(Serialized(m)) \in Nat
      /\ Len(Serialized(m)) <= Len(buffer) <=> EndOf[h + 1] <= arrived
  BY <1>1, NextInCut DEF OnTrack
<1> HIDE DEF m
<1>3. buffer[1] = m.type /\ m.type \in Known
  BY <1>2, FirstByte, MessageBytes
<1>4. PICK x \in Nat, l \in Nat, a \in Nat :
         /\ x = EndOf[h] /\ l = Len(Serialized(m)) /\ a = arrived
         /\ EndOf[h + 1] = x + l /\ Len(buffer) = a - x
  BY <1>2
<1>5. a # 0
  <2>1. Len(buffer) \in Nat \ {0}
    BY <1>2, EmptySeq
  <2> QED
    BY <1>4, <2>1
<1>6. ~Misjudged(arrived)
  BY <1>4, <1>5 DEF ControlInv
<1>7. /\ m.type # TYPE_UNSUBSCRIBE
      /\ m.type = TYPE_REQUEST => ~(x + 25 <= a /\ a < x + l)
  BY <1>2, <1>4, <1>6 DEF Misjudged, m
<1>8. Complete(buffer) <=> l <= Len(buffer)
  <2>1. CASE m.type = TYPE_SUBSCRIBE
    BY <1>2, <1>4, <2>1, SubscribeRead
  <2>2. CASE m.type = TYPE_REQUEST
    <3>1. /\ l <= Len(buffer) => Complete(buffer)
          /\ Complete(buffer) => 25 <= Len(buffer)
      BY <1>2, <1>4, <2>2, RequestRead
    <3>2. 25 <= Len(buffer) => l <= Len(buffer)
      BY <1>4, <1>7, <2>2
    <3> QED
      BY <3>1, <3>2
  <2>3. CASE m.type \in ShortTypes
    BY <1>2, <1>4, <2>3, ShortRead
  <2> QED
    BY <1>3, <1>7, <2>1, <2>2, <2>3 DEF Known, ShortTypes
<1> QED
  BY <1>2, <1>3, <1>4, <1>7, <1>8 DEF Front, m

\* A handler that takes that message, and no less or more, stays on track.
LEMMA Handled ==
    ASSUME ControlInv, ~exposed, NEW h, OnTrack(h), NEW m, Front(h, m),
           NEW type, NEW result, Take(type, result),
           result = Takes(Len(Serialized(m)), m), reader' \in {"processing", "lost"}
    PROVE  ControlInv'
<1>1. /\ messages \in Seq(Messages)
      /\ arrived = 0 \/ ~Misjudged(arrived)
      /\ messages' = messages /\ arrived' = arrived /\ exposed' = exposed
      /\ buffer # <<>> /\ Complete(buffer)
      /\ buffer' = DropBytes(buffer, Len(Serialized(m))) /\ handled' = handled \o <<m>>
  BY DEF ControlInv, Take, Takes
<1>2. /\ h \in Nat /\ h + 1 \in 1..Len(messages) /\ m = messages[h + 1]
      /\ Len(Serialized(m)) <= Len(buffer)
  BY <1>1 DEF Front
<1>3. OnTrack(h + 1)'
  <2>1. Cut(messages, EndOf, Written[Len(messages)], h + 1, arrived, buffer')
    <3>1. Cut(messages, EndOf, Written[Len(messages)], h, arrived, buffer)
      BY DEF OnTrack
    <3>2. Cut(messages, EndOf, Written[Len(messages)], h + 1, arrived,
              DropBytes(buffer, Len(Serialized(messages[h + 1]))))
      BY <1>1, <1>2, <3>1, DropCut, Zenon
    <3> QED
      BY <1>1, <1>2, <3>2
  <2>2. handled' = SubSeq(messages, 1, h + 1)
    BY <1>1, <1>2, OneMore DEF OnTrack
  <2> QED
    BY <1>1, <2>1, <2>2 DEF OnTrack, EndOf, Written, Sent
<1>4. h + 1 \in 0..Len(messages')
  BY <1>1, <1>2, LenProperties
<1>5. Misjudged(arrived)' <=> Misjudged(arrived)
  BY <1>1 DEF Misjudged, EndOf, Sent
<1> QED
  BY <1>1, <1>3, <1>4, <1>5 DEF ControlInv

LEMMA ChunkKeeps == ASSUME ControlInv, NEW k \in 1..StreamLen, read_chunk(k) PROVE ControlInv'
<1> SUFFICES ASSUME ~exposed' PROVE /\ reader' # "failed"
                                    /\ ~Misjudged(arrived)'
                                    /\ \E h \in 0..Len(messages') :
                                          OnTrack(h)' /\ reader' \notin {"reading", "closed"}
  BY DEF ControlInv, read_chunk
<1>1. /\ messages' = messages /\ ~exposed /\ ~Misjudged(arrived + k) /\ arrived' = arrived + k
      /\ buffer' = buffer \o SubSeq(Written[Len(messages)], arrived + 1, arrived + k)
      /\ handled' = handled /\ reader' = "processing" /\ arrived + k <= StreamLen
  BY DEF read_chunk
<1>2. ~Misjudged(arrived)'
  BY <1>1 DEF Misjudged, EndOf, Sent
<1>3. PICK h \in 0..Len(messages) : OnTrack(h)
  BY <1>1 DEF ControlInv
<1>4. messages \in Seq(Messages)
  BY DEF ControlInv
<1>5. k \in Nat
  <2>1. Laid(messages, EndOf, Written[Len(messages)])
    BY <1>4, Layout
  <2>2. Len(messages) \in 0..Len(messages)
    BY <1>4, LenProperties
  <2>3. StreamLen \in Nat
    BY <2>1, <2>2 DEF Laid, StreamLen
  <2> QED
    BY <2>3
<1>6. Cut(messages, EndOf, Written[Len(messages)], h, arrived + k, buffer')
  BY <1>1, <1>3, <1>4, <1>5, ExtendCut DEF OnTrack, StreamLen
<1>7. OnTrack(h)'
  BY <1>1, <1>3, <1>6 DEF OnTrack, EndOf, Written, Sent
<1> QED
  BY <1>1, <1>2, <1>7

\* Steps that touch neither the stream nor the buffer.
LEMMA WaitingKeeps ==
    ASSUME ControlInv, UNCHANGED <<messages, arrived, buffer, handled, exposed>>,
           ~exposed => reader' # "failed",
           ASSUME NEW h, ~exposed, OnTrack(h), reader' \in {"reading", "closed"},
                  reader \in {"reading", "closed"} => CaughtUp(h)
           PROVE  CaughtUp(h)
    PROVE  ControlInv'
<1> SUFFICES ASSUME ~exposed
             PROVE  /\ reader' # "failed"
                    /\ arrived = 0 \/ ~Misjudged(arrived)'
                    /\ \E h \in 0..Len(messages') :
                          OnTrack(h)' /\ (reader' \in {"reading", "closed"} => CaughtUp(h)')
  BY DEF ControlInv
<1>1. PICK h \in 0..Len(messages) :
         OnTrack(h) /\ (reader \in {"reading", "closed"} => CaughtUp(h))
  BY DEF ControlInv
<1>2. OnTrack(h)' /\ (CaughtUp(h)' <=> CaughtUp(h))
  BY <1>1 DEF OnTrack, CaughtUp, EndOf, Written, Sent
<1>3. Misjudged(arrived)' <=> Misjudged(arrived)
  BY DEF Misjudged, EndOf, Sent
<1>4. reader' \in {"reading", "closed"} => CaughtUp(h)
  BY <1>1
<1> QED
  BY <1>1, <1>2, <1>3, <1>4 DEF ControlInv

\* The loop stops at a message that is not whole.
LEMMA BreakKeeps == ASSUME ControlInv, process_break PROVE ControlInv'
<1>1. /\ UNCHANGED <<messages, arrived, buffer, handled, exposed>> /\ reader' = "reading"
      /\ buffer # <<>> => ~Complete(buffer)
  BY DEF process_break
<1>2. ASSUME NEW h, ~exposed, OnTrack(h) PROVE CaughtUp(h)
  <2>1. messages \in Seq(Messages)
    BY DEF ControlInv
  <2>2. PICK N \in Nat : N = Len(messages) /\ h \in 0..N
    BY <1>2, <2>1, LenProperties DEF OnTrack, Cut
  <2>3. PICK E \in [0..N -> Nat] :
           /\ E = EndOf /\ \A i, j \in 0..N : i <= j => E[i] <= E[j]
           /\ \A i \in 1..N : E[i] = E[i - 1] + Len(Serialized(messages[i]))
    BY <1>2, <2>2 DEF OnTrack, Cut, Laid
  <2>4. PICK a \in Nat, x \in Nat : a = arrived /\ x = E[h] /\ Len(buffer) = a - x
    <3>1. /\ EndOf[h] \in Nat /\ arrived \in Nat
          /\ Len(buffer) = arrived - EndOf[h]
      BY <1>2, <2>1, CutBytes DEF OnTrack
    <3> QED
      BY <2>3, <3>1
  <2>5. h + 1 <= N => a < E[h + 1]
    <3>1. CASE buffer = <<>>
      <4>1. SUFFICES ASSUME h + 1 <= N PROVE a < E[h + 1]
        OBVIOUS
      <4>2. a = x
        <5>1. Len(buffer) = 0
          BY <3>1, EmptySeq
        <5> QED
          BY <2>4, <5>1
      <4>3. h + 1 \in 1..N /\ (h + 1) - 1 = h
        BY <2>2, <4>1
      <4>4. messages[h + 1] \in Messages
        BY <2>1, <2>2, <4>3, ElementOfSeq
      <4>5. PICK l \in Nat \ {0} : l = Len(Serialized(messages[h + 1]))
        BY <4>4, MessageBytes
      <4>6. E[h + 1] = x + l
        BY <2>3, <2>4, <4>3, <4>5
      <4> QED
        BY <4>2, <4>6
    <3>2. CASE buffer # <<>>
      <4>1. ~(E[h + 1] <= a)
        BY <1>1, <1>2, <2>3, <2>4, <3>2, FrontOfBuffer DEF Front
      <4>2. h + 1 <= N => h + 1 \in 0..N
        BY <2>2
      <4>3. h + 1 <= N => E[h + 1] \in Nat
        BY <2>3, <4>2
      <4> QED
        BY <4>1, <4>3
    <3> QED
      BY <3>1, <3>2
  <2> SUFFICES ASSUME NEW i \in 1..N, E[i] <= a PROVE i <= h
    BY <2>2, <2>3, <2>4 DEF CaughtUp
  <2>6. SUFFICES ASSUME ~(i <= h) PROVE FALSE
    OBVIOUS
  <2>7. h + 1 \in 0..N /\ h + 1 <= i /\ i \in 0..N
    BY <2>2, <2>6
  <2>8. PICK y \in Nat, z \in Nat : y = E[h + 1] /\ z = E[i] /\ y <= z
    BY <2>3, <2>7
  <2> QED
    BY <2>5, <2>7, <2>8
<1> QED
  BY <1>1, <1>2, WaitingKeeps

\* The bytes of an unknown type, none of which is written.
LEMMA SkipKeeps == ASSUME ControlInv, process_skip PROVE ControlInv'
<1>1. exposed
  <2> SUFFICES ASSUME ~exposed PROVE FALSE
    OBVIOUS
  <2>1. PICK h \in 0..Len(messages) : OnTrack(h)
    BY DEF ControlInv
  <2>2. Front(h, messages[h + 1])
    BY <2>1, FrontOfBuffer DEF process_skip
  <2> QED
    BY <2>2 DEF Front, process_skip
<1> QED
  BY <1>1 DEF ControlInv, process_skip

LEMMA ReadEndKeeps == ASSUME ControlInv, read_end PROVE ControlInv'
<1>1. /\ UNCHANGED <<messages, arrived, buffer, handled, exposed>>
      /\ reader = "reading" /\ reader' \in {"closed", "lost"}
  BY DEF read_end
<1> QED
  BY <1>1, WaitingKeeps

LEMMA SameKeeps == ASSUME ControlInv, UNCHANGED requestVars PROVE ControlInv'
<1>1. UNCHANGED <<messages, arrived, buffer, handled, exposed>> /\ reader' = reader
  BY DEF requestVars
<1>2. ~exposed => reader' # "failed"
  BY <1>1 DEF ControlInv
<1> QED
  BY <1>1, <1>2, WaitingKeeps

-----------------------------------------------------------------------------
(* The handlers.  Each finds the message its type says, whole.             *)

LEMMA WholeInFront ==
    ASSUME ControlInv, ~exposed, NEW type, NEW result, Take(type, result)
    PROVE  \E h \in 0..Len(messages), m \in Messages :
              OnTrack(h) /\ Front(h, m) /\ m.type = type
<1>1. PICK h \in 0..Len(messages) : OnTrack(h)
  BY DEF ControlInv
<1>2. Front(h, messages[h + 1])
  BY <1>1, FrontOfBuffer DEF Take
<1> QED
  BY <1>1, <1>2 DEF Front, Take

\* Its deserializer takes that message, no less and no more.
Reads(type, result) ==
    \/ type = TYPE_SUBSCRIBE /\ result = deserialize_subscribe(buffer)
    \/ type = TYPE_REQUEST /\ result = deserialize_request(buffer)
    \/ type \in ShortTypes /\ result = Deserialized(type, buffer)

LEMMA WholeTaken ==
    ASSUME ControlInv, ~exposed, NEW type, NEW result, Take(type, result), Reads(type, result)
    PROVE  \E h \in 0..Len(messages), m \in Messages :
              /\ OnTrack(h) /\ Front(h, m) /\ m.type = type
              /\ result = Takes(Len(Serialized(m)), m) /\ result.messages = <<m>>
<1>1. PICK h \in 0..Len(messages), m \in Messages : OnTrack(h) /\ Front(h, m) /\ m.type = type
  BY WholeInFront
<1>2. Len(Serialized(m)) <= Len(buffer) /\ Complete(buffer) /\ buffer # <<>>
  BY <1>1 DEF Front, Take
<1>3. result = Takes(Len(Serialized(m)), m)
  <2>1. CASE type = TYPE_SUBSCRIBE /\ result = deserialize_subscribe(buffer)
    BY <1>1, <1>2, <2>1, SubscribeRead DEF Front
  <2>2. CASE type = TYPE_REQUEST /\ result = deserialize_request(buffer)
    BY <1>1, <1>2, <2>2, RequestRead DEF Front
  <2>3. CASE type \in ShortTypes /\ result = Deserialized(type, buffer)
    BY <1>1, <1>2, <2>3, ShortRead DEF Front
  <2> QED
    BY <2>1, <2>2, <2>3 DEF Reads
<1>4. result.messages = <<m>>
  BY <1>3 DEF Takes
<1> QED
  BY <1>1, <1>3, <1>4

LEMMA HandlerKeeps ==
    ASSUME ControlInv, NEW type, NEW result, Take(type, result), Reads(type, result),
           result.messages # <<>> => reader' \in {"processing", "lost"}
    PROVE  ControlInv'
<1>1. CASE exposed
  BY <1>1 DEF ControlInv, Take
<1>2. CASE ~exposed
  <2>1. PICK h \in 0..Len(messages), m \in Messages :
           /\ OnTrack(h) /\ Front(h, m) /\ m.type = type
           /\ result = Takes(Len(Serialized(m)), m) /\ result.messages = <<m>>
    BY <1>2, WholeTaken
  <2>2. reader' \in {"processing", "lost"}
    BY <2>1
  <2> QED
    BY <1>2, <2>1, <2>2, Handled
<1> QED
  BY <1>1, <1>2

\* A reader that leaves its loop only for a lost connection.
LEMMA AnswersStay ==
    ASSUME NEW bytes, Answers(bytes) PROVE reader' \in {"processing", "lost"}
BY DEF Answers

LEMMA SubscribeKeeps == ASSUME ControlInv, handle_subscribe_message PROVE ControlInv'
<1> DEFINE result == deserialize_subscribe(buffer)
<1>1. Take(TYPE_SUBSCRIBE, result) /\ Reads(TYPE_SUBSCRIBE, result)
  BY DEF handle_subscribe_message, Reads
<1>2. result.messages # <<>> => reader' \in {"processing", "lost"}
  BY AnswersStay DEF handle_subscribe_message
<1> HIDE DEF result
<1> QED
  BY <1>1, <1>2, HandlerKeeps

LEMMA HeartbeatKeeps == ASSUME ControlInv, handle_heartbeat_message PROVE ControlInv'
<1> DEFINE result == deserialize_heartbeat(buffer)
<1>1. Take(TYPE_HEARTBEAT, result)
  BY DEF handle_heartbeat_message
<1>2. Reads(TYPE_HEARTBEAT, result)
  BY DEF Reads, ShortTypes, Deserialized, TYPE_CANCEL, TYPE_TERMINATE, TYPE_HEARTBEAT,
     TYPE_SUBSCRIBE_OK
<1>3. result.messages # <<>> => reader' \in {"processing", "lost"}
  BY AnswersStay DEF handle_heartbeat_message
<1> HIDE DEF result
<1> QED
  BY <1>1, <1>2, <1>3, HandlerKeeps

LEMMA RequestKeeps == ASSUME ControlInv, handle_request_message PROVE ControlInv'
<1> DEFINE result == deserialize_request(buffer)
<1>1. Take(TYPE_REQUEST, result) /\ Reads(TYPE_REQUEST, result) /\ reader' = "processing"
  BY DEF handle_request_message, Take, Reads
<1> HIDE DEF result
<1> QED
  BY <1>1, HandlerKeeps

\* Its completeness test is the one that may find a message too early, or too
\* late: a stream with an UNSUBSCRIBE is exposed from its first chunk.
LEMMA UnsubscribeKeeps == ASSUME ControlInv, handle_unsubscribe_message PROVE ControlInv'
<1> DEFINE result == deserialize_unsubscribe(buffer)
<1>1. Take(TYPE_UNSUBSCRIBE, result)
  BY DEF handle_unsubscribe_message
<1> HIDE DEF result
<1>2. exposed
  <2> SUFFICES ASSUME ~exposed PROVE FALSE
    OBVIOUS
  <2>1. PICK h \in 0..Len(messages), m \in Messages :
           OnTrack(h) /\ Front(h, m) /\ m.type = TYPE_UNSUBSCRIBE
    BY <1>1, WholeInFront
  <2> QED
    BY <2>1 DEF Front
<1> QED
  BY <1>1, <1>2 DEF ControlInv, Take

LEMMA ShortHandlersKeep ==
    ASSUME ControlInv,
           handle_cancel_message \/ handle_terminate_message \/ handle_subscribe_ok_message
    PROVE  ControlInv'
<1>1. /\ Reads(TYPE_CANCEL, deserialize_cancel(buffer))
      /\ Reads(TYPE_TERMINATE, deserialize_terminate(buffer))
      /\ Reads(TYPE_SUBSCRIBE_OK, deserialize_subscribe_ok(buffer))
  BY DEF Reads, ShortTypes, Deserialized, TYPE_CANCEL, TYPE_TERMINATE, TYPE_HEARTBEAT,
     TYPE_SUBSCRIBE_OK
<1>2. CASE handle_cancel_message
  <2>1. Take(TYPE_CANCEL, deserialize_cancel(buffer)) /\ reader' = "processing"
    BY <1>2 DEF handle_cancel_message, Take
  <2> QED
    BY <1>1, <2>1, HandlerKeeps
<1>3. CASE handle_terminate_message
  <2>1. Take(TYPE_TERMINATE, deserialize_terminate(buffer)) /\ reader' = "processing"
    BY <1>3 DEF handle_terminate_message, Take
  <2> QED
    BY <1>1, <2>1, HandlerKeeps
<1>4. CASE handle_subscribe_ok_message
  <2>1. Take(TYPE_SUBSCRIBE_OK, deserialize_subscribe_ok(buffer)) /\ reader' = "processing"
    BY <1>4 DEF handle_subscribe_ok_message, Take
  <2> QED
    BY <1>1, <2>1, HandlerKeeps
<1> QED
  BY <1>2, <1>3, <1>4

LEMMA StepOnTrack == ControlInv /\ [ControlNext]_controlVars => ControlInv'
<1> SUFFICES ASSUME ControlInv, [ControlNext]_controlVars PROVE ControlInv'
  OBVIOUS
<1>1. CASE ReadChunk
  BY <1>1, ChunkKeeps DEF ReadChunk
<1>2. CASE read_end
  BY <1>2, ReadEndKeeps
<1>3. CASE process_break
  BY <1>3, BreakKeeps
<1>4. CASE process_skip
  BY <1>4, SkipKeeps
<1>5. CASE handle_subscribe_message
  BY <1>5, SubscribeKeeps
<1>6. CASE handle_heartbeat_message
  BY <1>6, HeartbeatKeeps
<1>7. CASE handle_request_message
  BY <1>7, RequestKeeps
<1>8. CASE handle_unsubscribe_message
  BY <1>8, UnsubscribeKeeps
<1>9. CASE handle_cancel_message \/ handle_terminate_message \/ handle_subscribe_ok_message
  BY <1>9, ShortHandlersKeep
<1>10. CASE ReadAnswer \/ process_answer
  <2>1. UNCHANGED requestVars
    BY <1>10 DEF ReadAnswer, read_answer, process_answer
  <2> QED
    BY <2>1, SameKeeps
<1>11. CASE UNCHANGED controlVars
  <2>1. UNCHANGED requestVars
    BY <1>11 DEF controlVars, requestVars
  <2> QED
    BY <2>1, SameKeeps
<1> QED
  BY <1>1, <1>2, <1>3, <1>4, <1>5, <1>6, <1>7, <1>8, <1>9, <1>10, <1>11
     DEF ControlNext, process_control_messages

-----------------------------------------------------------------------------
LEMMA OnTrackHandled == ControlInv => HandledAsSent
<1> SUFFICES ASSUME ControlInv, ~exposed
             PROVE  /\ handled = SubSeq(messages, 1, Len(handled))
                    /\ reader \in {"reading", "closed"} =>
                          Len(handled) = Cardinality(WholeMessages)
  BY DEF HandledAsSent
<1>1. messages \in Seq(Messages)
  BY DEF ControlInv
<1>2. PICK h \in 0..Len(messages) :
         OnTrack(h) /\ (reader \in {"reading", "closed"} => CaughtUp(h))
  BY DEF ControlInv
<1>3. PICK N \in Nat : N = Len(messages) /\ h \in 0..N
  BY <1>1, LenProperties
<1>4. handled = SubSeq(messages, 1, h) /\ Len(handled) = h
  <2>1. h \in Nat /\ 0 <= h /\ h <= N
    BY <1>3
  <2>2. PICK b \in Seq(Messages) : IsPart(b, messages, 0, h)
    BY <1>1, <1>3, <2>1, PartOf
  <2> QED
    BY <1>2, <2>1, <2>2 DEF OnTrack, IsPart
<1>5. ASSUME CaughtUp(h) PROVE h = Cardinality(WholeMessages)
  <2>1. PICK E \in [0..N -> Nat] :
           /\ E = EndOf /\ \A i, j \in 0..N : i <= j => E[i] <= E[j]
           /\ arrived \in 0..E[N] /\ E[h] <= arrived
    BY <1>2, <1>3 DEF OnTrack, Cut, Laid
  <2>2. PICK a \in Nat, x \in Nat : a = arrived /\ x = E[h] /\ x <= a
    BY <1>3, <2>1
  <2>3. ASSUME NEW i \in 1..N PROVE E[i] <= a <=> i <= h
    <3>1. E[i] <= a => i <= h
      BY <1>3, <1>5, <2>1, <2>2 DEF CaughtUp
    <3>2. ASSUME i <= h PROVE E[i] <= a
      <4>1. i \in 0..N
        OBVIOUS
      <4>2. PICK z \in Nat : z = E[i] /\ z <= x
        BY <1>3, <2>1, <2>2, <3>2, <4>1
      <4> QED
        BY <2>2, <4>2
    <3> QED
      BY <3>1, <3>2
  <2>4. WholeMessages = 1..h
    BY <1>3, <2>1, <2>2, <2>3 DEF WholeMessages
  <2>5. Cardinality(1..h) = h
    <3>1. 1 \in Int /\ h \in Int
      BY <1>3
    <3>2. Cardinality(1..h) = IF 1 > h THEN 0 ELSE h - 1 + 1
      BY <3>1, FS_Interval
    <3> QED
      BY <1>3, <3>2
  <2> QED
    BY <2>4, <2>5
<1> QED
  BY <1>2, <1>4, <1>5

\* For every stream of messages of the protocol, cut into chunks anywhere: the
\* handlers get the messages that were sent, each once, in order, with their own
\* fields, and a reader that waits sits on no whole message - as long as no chunk
\* has ended where the two wrong completeness tests matter (protocol.rs:587-685,
\* proto.rs:237-380).
THEOREM AlwaysHandledAsSent == ControlSpec => []HandledAsSent
<1>1. ControlInit => ControlInv
  BY InitOnTrack
<1>2. ControlInv /\ [ControlNext]_controlVars => ControlInv'
  BY StepOnTrack
<1>3. ControlInv => HandledAsSent
  BY OnTrackHandled
<1> QED
  BY <1>1, <1>2, <1>3, PTL DEF ControlSpec

-----------------------------------------------------------------------------
(* The answers, and their reader.                                          *)

AnswerBytes == Joined(Replies)[Len(messages)]

Subscribes(i) == messages[i].type = TYPE_SUBSCRIBE

\* The answers that end among the first p bytes; and a place that is not inside
\* of a SUBSCRIBE_OK.
AnswersBefore(p) == {i \in 1..Len(messages) : Subscribes(i) /\ AnswerEnd[i] <= p}

Outside(p) ==
    \A i \in 1..Len(messages) : Subscribes(i) => p <= AnswerEnd[i - 1] + 4 \/ AnswerEnd[i] <= p

\* What is written back is what is due for the messages handled, or less if the
\* connection was lost; and the subscriber's reader has dealt with p bytes of
\* it and has the rest of what it got in its buffer.
WrittenBack ==
    /\ Len(handled) \in 0..Len(messages)
    /\ \E n \in 0..AnswerEnd[Len(handled)] :
          /\ answer = SubSeq(AnswerBytes, 1, n)
          /\ reader # "lost" => n = AnswerEnd[Len(handled)]

ReadBack(p) ==
    /\ ok_buffer = SubSeq(AnswerBytes, p + 1, answer_got)
    /\ subscribe_ok = Cardinality(AnswersBefore(p))
    /\ Outside(p)
    /\ ok_reader = "reading" => AnswersBefore(answer_got) = AnswersBefore(p)

AnswerInv ==
    ~exposed =>
        /\ WrittenBack
        /\ answer_got \in 0..Len(answer)
        /\ Legible => \E p \in 0..answer_got : ReadBack(p)

\* A message whose answer does not contain that code.
Quiet(m) ==
    /\ m.type # TYPE_SUBSCRIBE
    /\ m.type = TYPE_HEARTBEAT => \A k \in 1..8 : m.tail[k] # TYPE_SUBSCRIBE_OK

\* The bytes of an answer: the first code of SUBSCRIBE_OK in the answer to a
\* SUBSCRIBE is that of the message itself, behind its length.
LEMMA ReplyBytes ==
    ASSUME NEW m \in Messages
    PROVE  \E s \in Seq(Byte) :
              /\ s = AnswerTo(m) /\ Len(s) \in Nat
              /\ m.type = TYPE_SUBSCRIBE =>
                    /\ Len(s) = 21 /\ s[5] = TYPE_SUBSCRIBE_OK
                    /\ \A k \in 1..4 : s[k] # TYPE_SUBSCRIBE_OK
              /\ Quiet(m) => \A k \in 1..Len(s) : s[k] # TYPE_SUBSCRIBE_OK
<1>1. CASE m.type = TYPE_SUBSCRIBE
  <2>1. m.stream \in Seq(Byte) /\ Len(m.stream) = 16
    BY <1>1, SubscribeFields, Sequences16
  <2>2. PICK a \in Seq(Byte) : a = <<TYPE_SUBSCRIBE_OK>> /\ Len(a) = 1 /\ a[1] = TYPE_SUBSCRIBE_OK
    BY Types, Sequences16
  <2>3. PICK r \in Seq(Byte) : Parts(r, a, m.stream)
    BY <2>1, PartsExist
  <2>4. Len(r) = 17 /\ r[1] = TYPE_SUBSCRIBE_OK
    <3>1. 1 \in 1..Len(a)
      BY <2>2
    <3> QED
      BY <2>1, <2>2, <2>3, <3>1 DEF Parts
  <2>5. PICK l \in Seq(Byte) : l = Number(17, 4) /\ Len(l) = 4 /\ \A k \in 1..4 : l[k] \in {0, 17}
    <3>1. /\ [i \in 1..4 |-> IF i = 4 THEN 17 ELSE 0] \in [1..4 -> Byte]
          /\ \A k \in 1..4 : [i \in 1..4 |-> IF i = 4 THEN 17 ELSE 0][k] \in {0, 17}
      BY DEF Byte
    <3>2. ASSUME NEW n \in Nat, NEW t \in [1..n -> Byte] PROVE t \in Seq(Byte) /\ Len(t) = n
      OBVIOUS
    <3>3. PICK t \in [1..4 -> Byte] : t = Number(17, 4) /\ \A k \in 1..4 : t[k] \in {0, 17}
      BY <3>1 DEF Number
    <3>4. t \in Seq(Byte) /\ Len(t) = 4
      BY <3>2, <3>3
    <3> QED
      BY <3>3, <3>4
  <2>6. PICK s \in Seq(Byte) : Parts(s, l, r)
    BY PartsExist
  <2>7. s = AnswerTo(m)
    <3>1. serialize_subscribe_ok(Message(TYPE_SUBSCRIBE_OK, m.stream, 0, <<>>)) = r
      BY <2>2, <2>3 DEF serialize_subscribe_ok, Message, Parts
    <3>2. subscribe_answer(m) = l \o r
      BY <2>4, <2>5, <3>1 DEF subscribe_answer
    <3> QED
      BY <1>1, <2>6, <3>2 DEF AnswerTo, Parts, TYPE_SUBSCRIBE, TYPE_HEARTBEAT
  <2>8. Len(s) = 21 /\ s[5] = TYPE_SUBSCRIBE_OK /\ \A k \in 1..4 : s[k] \in {0, 17}
    <3>0. Len(l) = 4 /\ Len(r) = 17
      BY <2>4, <2>5
    <3>1. Len(s) = 21 /\ \A k \in 1..4 : s[k] = l[k]
      <4>1. Len(s) = Len(l) + Len(r) /\ \A k \in 1..Len(l) : s[k] = l[k]
        BY <2>6, Zenon DEF Parts
      <4> QED
        BY <3>0, <4>1
    <3>2. 1 \in 1..Len(r) /\ Len(l) + 1 = 5
      BY <3>0
    <3>3. s[5] = r[1]
      BY <2>6, <3>2 DEF Parts
    <3> QED
      BY <2>4, <2>5, <3>1, <3>3
  <2> QED
    BY <1>1, <2>7, <2>8 DEF Quiet, TYPE_SUBSCRIBE_OK
<1>2. CASE m.type = TYPE_HEARTBEAT
  <2>1. /\ m.tail \in Seq(Byte) /\ Len(m.tail) = 8
    <3>1. m.type \in ShortTypes /\ m.type # TYPE_SUBSCRIBE_OK
      BY <1>2 DEF ShortTypes, TYPE_HEARTBEAT, TYPE_SUBSCRIBE_OK
    <3>2. Field(m) = m.tail
      BY <3>1 DEF Field
    <3>3. Field(m) \in Seq(Byte) /\ Len(Field(m)) = 8
      BY <1>2, <3>1, ShortFields
    <3> QED
      BY <3>2, <3>3
  <2>2. PICK a \in Seq(Byte) : a = <<TYPE_HEARTBEAT>> /\ Len(a) = 1 /\ a[1] = TYPE_HEARTBEAT
    BY Types, Sequences16
  <2>3. PICK s \in Seq(Byte) : Parts(s, a, m.tail)
    BY <2>1, PartsExist
  <2>4. s = AnswerTo(m)
    BY <1>2, <2>2, <2>3 DEF AnswerTo, Parts, serialize_heartbeat, TYPE_SUBSCRIBE, TYPE_HEARTBEAT
  <2>5. Len(s) = 9 /\ s[1] = TYPE_HEARTBEAT /\ \A k \in 1..8 : s[1 + k] = m.tail[k]
    <3>1. 1 \in 1..Len(a)
      BY <2>2
    <3> QED
      BY <2>1, <2>2, <2>3, <3>1 DEF Parts
  <2>6. ASSUME \A k \in 1..8 : m.tail[k] # TYPE_SUBSCRIBE_OK, NEW k \in 1..9
        PROVE  s[k] # TYPE_SUBSCRIBE_OK
    <3>1. CASE k = 1
      BY <2>5, <3>1 DEF TYPE_HEARTBEAT, TYPE_SUBSCRIBE_OK
    <3>2. CASE k # 1
      <4>1. PICK j \in 1..8 : k = 1 + j
        <5>1. k - 1 \in 1..8 /\ k = 1 + (k - 1)
          BY <3>2
        <5> QED
          BY <5>1
      <4> QED
        BY <2>5, <2>6, <4>1
    <3> QED
      BY <3>1, <3>2
  <2> QED
    BY <1>2, <2>4, <2>5, <2>6 DEF Quiet, TYPE_SUBSCRIBE, TYPE_HEARTBEAT
<1>3. CASE m.type \notin {TYPE_SUBSCRIBE, TYPE_HEARTBEAT}
  <2>1. AnswerTo(m) = <<>>
    BY <1>3 DEF AnswerTo
  <2>2. PICK s \in Seq(Byte) : s = AnswerTo(m) /\ Len(s) = 0
    BY <2>1, EmptySeq
  <2>3. \A k \in 1..Len(s) : FALSE
    BY <2>2
  <2>4. m.type # TYPE_SUBSCRIBE
    BY <1>3
  <2>5. Len(s) \in Nat
    BY <2>2
  <2> QED
    BY <2>2, <2>3, <2>4, <2>5, Zenon
<1> QED
  BY <1>1, <1>2, <1>3

\* E: where the answers to the N messages end; A: their bytes.
Answered(N, E, A) ==
    /\ N = Len(messages) /\ E = AnswerEnd /\ A = AnswerBytes
    /\ E[0] = 0 /\ Len(A) = E[N]
    /\ \A i, j \in 0..N : i <= j => E[i] <= E[j]
    /\ \A i \in 1..N : E[i] = E[i - 1] + Len(AnswerTo(messages[i]))
    /\ \A i \in 1..N : \A k \in 1..Len(AnswerTo(messages[i])) :
          A[E[i - 1] + k] = AnswerTo(messages[i])[k]

\* Where the code of SUBSCRIBE_OK stands in them.
Coded(N, E, A) ==
    /\ \A i \in 1..N : Subscribes(i) =>
          /\ E[i] = E[i - 1] + 21 /\ A[E[i - 1] + 5] = TYPE_SUBSCRIBE_OK
          /\ \A k \in 1..4 : A[E[i - 1] + k] # TYPE_SUBSCRIBE_OK
    /\ Legible => \A i \in 1..N : ~Subscribes(i) =>
          \A k \in 1..(E[i] - E[i - 1]) : A[E[i - 1] + k] # TYPE_SUBSCRIBE_OK

LEMMA AnswersLaid ==
    ASSUME messages \in Seq(Messages)
    PROVE  \E N \in Nat : \E E \in [0..N -> Nat], A \in Seq(Byte) :
              Answered(N, E, A) /\ Coded(N, E, A)
<1>1. PICK N \in Nat : N = Len(messages)
  BY LenProperties
<1>2. \A i \in 1..N : messages[i] \in Messages
  BY <1>1, ElementOfSeq
<1>3. \A i \in 1..N : AnswerTo(messages[i]) \in Seq(Byte)
  BY <1>2, ReplyBytes
<1>4. /\ Replies \in Seq(Seq(Byte)) /\ Len(Replies) = N
      /\ \A i \in 1..N : Replies[i] = AnswerTo(messages[i])
  BY <1>1, <1>3 DEF Replies
<1>5. Spread(Replies, AnswerEnd, AnswerBytes)
  BY <1>1, <1>4, SpreadOut DEF AnswerEnd, AnswerBytes
<1>6. PICK E \in [0..N -> Nat], A \in Seq(Byte) :
         /\ E = AnswerEnd /\ A = AnswerBytes /\ E[0] = 0 /\ Len(A) = E[N]
         /\ \A i, j \in 0..N : i <= j => E[i] <= E[j]
         /\ \A i \in 1..N : E[i] = E[i - 1] + Len(Replies[i])
         /\ \A i \in 1..N : \A k \in 1..Len(Replies[i]) : A[E[i - 1] + k] = Replies[i][k]
  BY <1>4, <1>5 DEF Spread
<1>7. ASSUME NEW i \in 1..N, Subscribes(i)
      PROVE  /\ E[i] = E[i - 1] + 21 /\ A[E[i - 1] + 5] = TYPE_SUBSCRIBE_OK
             /\ \A k \in 1..4 : A[E[i - 1] + k] # TYPE_SUBSCRIBE_OK
  <2>1. /\ Len(Replies[i]) = 21 /\ Replies[i][5] = TYPE_SUBSCRIBE_OK
        /\ \A k \in 1..4 : Replies[i][k] # TYPE_SUBSCRIBE_OK
    <3>1. messages[i] \in Messages /\ messages[i].type = TYPE_SUBSCRIBE
      BY <1>2, <1>7 DEF Subscribes
    <3>2. Replies[i] = AnswerTo(messages[i])
      BY <1>4
    <3> QED
      BY <3>1, <3>2, ReplyBytes, Zenon
  <2>2. 5 \in 1..Len(Replies[i]) /\ \A k \in 1..4 : k \in 1..Len(Replies[i])
    BY <2>1
  <2>3. E[i] = E[i - 1] + Len(Replies[i])
    BY <1>6
  <2>4. \A k \in 1..Len(Replies[i]) : A[E[i - 1] + k] = Replies[i][k]
    BY <1>6
  <2>5. A[E[i - 1] + 5] = Replies[i][5] /\ \A k \in 1..4 : A[E[i - 1] + k] = Replies[i][k]
    BY <2>2, <2>4, Zenon
  <2> QED
    BY <2>1, <2>3, <2>5
<1>8. ASSUME Legible, NEW i \in 1..N, ~Subscribes(i), NEW k \in 1..(E[i] - E[i - 1])
      PROVE  A[E[i - 1] + k] # TYPE_SUBSCRIBE_OK
  <2>1. PICK s \in Seq(Byte) :
           /\ s = Replies[i] /\ Len(s) \in Nat /\ \A j \in 1..Len(s) : s[j] # TYPE_SUBSCRIBE_OK
    <3>1. messages[i] \in Messages /\ Quiet(messages[i])
      BY <1>1, <1>2, <1>8 DEF Subscribes, Legible, Quiet
    <3>2. Replies[i] = AnswerTo(messages[i])
      BY <1>4
    <3> QED
      BY <3>1, <3>2, ReplyBytes, Zenon
  <2>2. PICK x \in Nat, l \in Nat : x = E[i - 1] /\ l = Len(s) /\ E[i] = x + l
    <3>1. i - 1 \in 0..N
      BY <1>1
    <3> QED
      BY <1>6, <2>1, <3>1
  <2>3. k \in 1..l
    BY <2>2
  <2> QED
    BY <1>6, <2>1, <2>2, <2>3
<1>9. Answered(N, E, A)
  BY <1>1, <1>4, <1>6 DEF Answered
<1>10. Coded(N, E, A)
  BY <1>7, <1>8 DEF Coded
<1> QED
  BY <1>9, <1>10

\* Each place in the answers is in one of them.
LEMMA AnswerAt ==
    ASSUME NEW N \in Nat, NEW E \in [0..N -> Nat], E[0] = 0, NEW p \in Nat, p < E[N]
    PROVE  \E i \in 1..N : E[i - 1] <= p /\ p < E[i]
<1> DEFINE S == {n \in Nat : n <= N => E[n] <= p}
<1>1. SUFFICES ASSUME \A i \in 1..N : ~(E[i - 1] <= p /\ p < E[i]) PROVE FALSE
  OBVIOUS
<1>2. 0 \in S
  OBVIOUS
<1>3. ASSUME NEW n \in Nat, n \in S PROVE n + 1 \in S
  <2> SUFFICES ASSUME n + 1 <= N PROVE E[n + 1] <= p
    OBVIOUS
  <2>1. n + 1 \in 1..N /\ (n + 1) - 1 = n /\ n \in 0..N /\ n + 1 \in 0..N
    OBVIOUS
  <2>2. PICK x \in Nat, y \in Nat : x = E[n] /\ y = E[n + 1]
    BY <2>1
  <2>3. x <= p /\ ~(x <= p /\ p < y)
    BY <1>1, <1>3, <2>1, <2>2
  <2> QED
    BY <2>2, <2>3
<1>4. N \in S
  <2> HIDE DEF S
  <2> QED
    BY <1>2, <1>3, Induction
<1>5. PICK z \in Nat : z = E[N]
  BY <1>4
<1> QED
  BY <1>4, <1>5

\* A byte that is not the code of SUBSCRIBE_OK is no first byte of one.
LEMMA PastPlain ==
    ASSUME messages \in Seq(Messages), NEW p \in Nat, p < AnswerEnd[Len(messages)],
           AnswerBytes[p + 1] # TYPE_SUBSCRIBE_OK, Outside(p)
    PROVE  Outside(p + 1) /\ AnswersBefore(p + 1) = AnswersBefore(p)
<1>1. PICK N \in Nat : \E E \in [0..N -> Nat], A \in Seq(Byte) :
         Answered(N, E, A) /\ Coded(N, E, A)
  BY AnswersLaid
<1>2. PICK E \in [0..N -> Nat], A \in Seq(Byte) : Answered(N, E, A) /\ Coded(N, E, A)
  BY <1>1
<1>3. ASSUME NEW i \in 1..N, Subscribes(i)
      PROVE  \/ E[i] <= p
             \/ p + 1 <= E[i - 1] + 4 /\ ~(E[i] <= p + 1)
  <2>1. i - 1 \in 0..N /\ i \in 0..N
    OBVIOUS
  <2>2. PICK x \in Nat, y \in Nat : x = E[i - 1] /\ y = E[i]
    BY <2>1
  <2>3. y = x + 21 /\ A[x + 5] = TYPE_SUBSCRIBE_OK
    BY <1>2, <1>3, <2>2 DEF Coded
  <2>4. p <= x + 4 \/ y <= p
    BY <1>2, <1>3, <2>2 DEF Outside, Answered
  <2>5. p # x + 4
    <3>1. SUFFICES ASSUME p = x + 4 PROVE FALSE
      OBVIOUS
    <3>2. p + 1 = x + 5
      BY <3>1
    <3> QED
      BY <1>2, <2>3, <3>2 DEF Answered
  <2>6. y <= p \/ (p + 1 <= x + 4 /\ ~(y <= p + 1))
    BY <2>3, <2>4, <2>5
  <2> QED
    BY <2>2, <2>6
<1>4. Outside(p + 1)
  <2> SUFFICES ASSUME NEW i \in 1..N, Subscribes(i)
               PROVE  p + 1 <= E[i - 1] + 4 \/ E[i] <= p + 1
    BY <1>2 DEF Outside, Answered
  <2>1. i \in 0..N
    OBVIOUS
  <2>2. PICK y \in Nat : y = E[i]
    BY <2>1
  <2>3. y <= p => y <= p + 1
    OBVIOUS
  <2> QED
    BY <1>3, <2>2, <2>3
<1>5. ASSUME NEW i \in 1..N, Subscribes(i) PROVE E[i] <= p + 1 <=> E[i] <= p
  <2>1. i \in 0..N
    OBVIOUS
  <2>2. PICK y \in Nat : y = E[i]
    BY <2>1
  <2>3. y <= p => y <= p + 1
    OBVIOUS
  <2> QED
    BY <1>3, <1>5, <2>2, <2>3
<1> QED
  BY <1>2, <1>4, <1>5 DEF AnswersBefore, Answered

\* That code, outside of a SUBSCRIBE_OK, is the first byte of one; and this one
\* answer is complete when its 17 bytes are there.
Starts(i, p) ==
    /\ i \in 1..Len(messages) /\ Subscribes(i) /\ i \notin AnswersBefore(p)
    /\ Outside(p + 17)
    /\ AnswersBefore(p + 17) = AnswersBefore(p) \cup {i}
    /\ \A q \in Nat : p <= q /\ q < p + 17 => AnswersBefore(q) = AnswersBefore(p)

LEMMA AtCode ==
    ASSUME messages \in Seq(Messages), Legible, NEW p \in Nat, p < AnswerEnd[Len(messages)],
           AnswerBytes[p + 1] = TYPE_SUBSCRIBE_OK, Outside(p)
    PROVE  \E i : Starts(i, p)
<1>1. PICK N \in Nat : \E E \in [0..N -> Nat], A \in Seq(Byte) :
         Answered(N, E, A) /\ Coded(N, E, A)
  BY AnswersLaid
<1>2. PICK E \in [0..N -> Nat], A \in Seq(Byte) : Answered(N, E, A) /\ Coded(N, E, A)
  BY <1>1
<1>3. /\ N = Len(messages) /\ E = AnswerEnd /\ A = AnswerBytes /\ E[0] = 0
      /\ \A i, j \in 0..N : i <= j => E[i] <= E[j]
  BY <1>2 DEF Answered
<1>4. PICK i \in 1..N : E[i - 1] <= p /\ p < E[i]
  BY <1>3, AnswerAt
<1>5. i - 1 \in 0..N /\ i \in 0..N
  OBVIOUS
<1>6. PICK x \in Nat, y \in Nat : x = E[i - 1] /\ y = E[i] /\ x <= p /\ p < y
  BY <1>4, <1>5
<1>7. PICK k \in Nat : k = p + 1 - x /\ k \in 1..(y - x) /\ p + 1 = x + k
  <2>1. p + 1 - x \in Nat /\ p + 1 - x \in 1..(y - x) /\ p + 1 = x + (p + 1 - x)
    BY <1>6
  <2> QED
    BY <2>1
<1>8. A[x + k] = TYPE_SUBSCRIBE_OK
  BY <1>3, <1>7
<1>9. Subscribes(i)
  BY <1>2, <1>6, <1>7, <1>8 DEF Coded
<1>10. y = x + 21 /\ ~(k \in 1..4)
  BY <1>2, <1>6, <1>8, <1>9 DEF Coded
<1>11. p <= x + 4
  <2>1. p <= x + 4 \/ y <= p
    BY <1>3, <1>6, <1>9 DEF Outside
  <2> QED
    BY <1>6, <2>1
<1>12. p = x + 4 /\ p + 17 = y
  <2>1. 5 <= k
    BY <1>7, <1>10
  <2>2. p + 1 = x + k
    BY <1>7
  <2>3. p = x + 4
    BY <1>11, <2>1, <2>2
  <2> QED
    BY <1>10, <2>3
\* The other answers end before this one, or begin behind it.
<1>13. ASSUME NEW j \in 1..N, Subscribes(j), j # i
       PROVE  E[j] <= x \/ (y <= E[j - 1] /\ y < E[j])
  <2>1. j - 1 \in 0..N /\ j \in 0..N
    OBVIOUS
  <2>2. PICK u \in Nat, v \in Nat : u = E[j - 1] /\ v = E[j]
    BY <2>1
  <2>3. v = u + 21
    BY <1>2, <1>13, <2>2 DEF Coded
  <2>4. j <= i - 1 \/ i <= j - 1
    BY <1>13
  <2>5. v <= x \/ y <= u
    BY <1>3, <1>5, <1>6, <2>1, <2>2, <2>4
  <2>6. v <= x \/ (y <= u /\ y < v)
    BY <2>3, <2>5
  <2> QED
    BY <2>2, <2>6
<1>14. ASSUME NEW j \in 1..N, Subscribes(j), j # i, NEW q \in Nat, p <= q, q <= y
       PROVE  E[j] <= q <=> E[j] <= p
  <2>1. j \in 0..N /\ j - 1 \in 0..N
    OBVIOUS
  <2>2. PICK u \in Nat, v \in Nat : u = E[j - 1] /\ v = E[j]
    BY <2>1
  <2>3. v <= x \/ y < v
    BY <1>13, <1>14, <2>2
  <2>4. v <= q <=> v <= p
    BY <1>6, <1>14, <2>3
  <2> QED
    BY <2>2, <2>4
<1>15. i \notin AnswersBefore(p)
  BY <1>3, <1>6 DEF AnswersBefore
<1>16. Outside(p + 17)
  <2> SUFFICES ASSUME NEW j \in 1..N, Subscribes(j)
               PROVE  y <= E[j - 1] + 4 \/ E[j] <= y
    BY <1>3, <1>12 DEF Outside
  <2>1. CASE j = i
    BY <1>6, <2>1
  <2>2. CASE j # i
    <3>1. j \in 0..N /\ j - 1 \in 0..N
      OBVIOUS
    <3>2. PICK u \in Nat, v \in Nat : u = E[j - 1] /\ v = E[j]
      BY <3>1
    <3>3. v <= x \/ y <= u
      BY <1>13, <2>2, <3>2
    <3>4. y <= u + 4 \/ v <= y
      BY <1>6, <3>3
    <3> QED
      BY <3>2, <3>4
  <2> QED
    BY <2>1, <2>2
<1>17. AnswersBefore(p + 17) = AnswersBefore(p) \cup {i}
  <2>1. p <= y /\ y \in Nat /\ y <= y
    BY <1>6
  <2>2. \A j \in 1..N : Subscribes(j) => (E[j] <= y <=> j = i \/ E[j] <= p)
    <3> SUFFICES ASSUME NEW j \in 1..N, Subscribes(j)
                 PROVE  E[j] <= y <=> j = i \/ E[j] <= p
      OBVIOUS
    <3>1. CASE j = i
      BY <1>6, <3>1
    <3>2. CASE j # i
      BY <1>14, <2>1, <3>2
    <3> QED
      BY <3>1, <3>2
  <2> QED
    BY <1>3, <1>9, <1>12, <2>2 DEF AnswersBefore
<1>18. ASSUME NEW q \in Nat, p <= q, q < y PROVE AnswersBefore(q) = AnswersBefore(p)
  <2>1. \A j \in 1..N : Subscribes(j) => (E[j] <= q <=> E[j] <= p)
    <3> SUFFICES ASSUME NEW j \in 1..N, Subscribes(j) PROVE E[j] <= q <=> E[j] <= p
      OBVIOUS
    <3>1. CASE j = i
      <4>1. ~(y <= q) /\ ~(y <= p)
        BY <1>6, <1>18
      <4> QED
        BY <1>6, <3>1, <4>1
    <3>2. CASE j # i
      <4>1. q <= y
        BY <1>18
      <4> QED
        BY <1>14, <1>18, <3>2, <4>1
    <3> QED
      BY <3>1, <3>2
  <2> QED
    BY <1>3, <2>1 DEF AnswersBefore
<1>19. Starts(i, p)
  BY <1>3, <1>9, <1>12, <1>15, <1>16, <1>17, <1>18 DEF Starts
<1> QED
  BY <1>19

LEMMA FiniteAnswers ==
    ASSUME messages \in Seq(Messages), NEW p
    PROVE  IsFiniteSet(AnswersBefore(p)) /\ Cardinality(AnswersBefore(p)) \in Nat
<1>1. 1 \in Int /\ Len(messages) \in Int
  BY LenProperties
<1>2. IsFiniteSet(1..Len(messages))
  BY <1>1, FS_Interval
<1>3. AnswersBefore(p) \in SUBSET (1..Len(messages))
  BY DEF AnswersBefore
<1>4. IsFiniteSet(AnswersBefore(p))
  BY <1>2, <1>3, FS_Subset
<1> QED
  BY <1>4, FS_CardinalityType

\* What is written back for the next message, all of it or its first k bytes.
LEMMA NextReply ==
    ASSUME messages \in Seq(Messages), NEW h \in Nat, h + 1 \in 1..Len(messages),
           NEW k \in 0..Len(AnswerTo(messages[h + 1]))
    PROVE  /\ AnswerEnd[h] \in Nat /\ k \in Nat
           /\ AnswerEnd[h] + k \in 0..AnswerEnd[h + 1]
           /\ AnswerEnd[h + 1] = AnswerEnd[h] + Len(AnswerTo(messages[h + 1]))
           /\ SubSeq(AnswerBytes, 1, AnswerEnd[h]) \o SubSeq(AnswerTo(messages[h + 1]), 1, k)
              = SubSeq(AnswerBytes, 1, AnswerEnd[h] + k)
<1>1. PICK N \in Nat : \E E \in [0..N -> Nat], A \in Seq(Byte) :
         Answered(N, E, A) /\ Coded(N, E, A)
  BY AnswersLaid
<1>2. PICK E \in [0..N -> Nat], A \in Seq(Byte) : Answered(N, E, A)
  BY <1>1
<1>3. /\ N = Len(messages) /\ E = AnswerEnd /\ A = AnswerBytes /\ Len(A) = E[N]
      /\ \A i, j \in 0..N : i <= j => E[i] <= E[j]
  BY <1>2 DEF Answered
<1>4. h \in 0..N /\ h + 1 \in 0..N /\ (h + 1) - 1 = h /\ h + 1 <= N /\ N \in 0..N
  BY <1>3
<1>5. messages[h + 1] \in Messages
  BY ElementOfSeq
<1>6. PICK s \in Seq(Byte) : s = AnswerTo(messages[h + 1]) /\ Len(s) \in Nat
  BY <1>5, ReplyBytes
<1>7. PICK x \in Nat, y \in Nat, l \in Nat :
         x = E[h] /\ y = E[h + 1] /\ l = Len(s) /\ y <= Len(A)
  BY <1>3, <1>4, <1>6
<1>8. y = x + l /\ \A i \in 1..l : A[x + i] = s[i]
  BY <1>2, <1>3, <1>4, <1>6, <1>7 DEF Answered
<1>9. k \in 0..l /\ k \in Nat
  BY <1>6, <1>7
<1>10. x + k \in Nat /\ x <= x + k /\ x <= Len(A) /\ x + k <= Len(A) /\ x + k <= y
  <2>1. PICK z \in Nat : z = Len(A) /\ y <= z
    BY <1>7, LenProperties
  <2>2. y = x + l
    BY <1>8
  <2> QED
    BY <1>9, <2>1, <2>2
<1>11. PICK b \in Seq(Byte) : IsPart(b, A, x, x + k)
  BY <1>10, PartOf
<1>12. PICK c \in Seq(Byte) : IsPart(c, s, 0, k)
  <2>1. 0 \in Nat /\ 0 <= k /\ k <= Len(s)
    BY <1>7, <1>9
  <2> QED
    BY <1>9, <2>1, PartOf
<1>13. Len(b) = k /\ Len(c) = k
  BY <1>9, <1>11, <1>12 DEF IsPart
<1>14. ASSUME NEW i \in 1..k PROVE b[i] = c[i]
  <2>1. b[i] = A[x + i]
    <3>1. i \in 1..((x + k) - x)
      BY <1>9
    <3> QED
      BY <1>11, <3>1 DEF IsPart
  <2>2. c[i] = s[i]
    <3>1. i \in 1..(k - 0) /\ 0 + i = i
      BY <1>9
    <3> QED
      BY <1>12, <3>1 DEF IsPart
  <2>3. i \in 1..l
    BY <1>9
  <2> QED
    BY <1>8, <2>1, <2>2, <2>3
<1>15. b = c
  BY <1>13, <1>14, SeqEqual
<1>16. SubSeq(A, 1, x) \o SubSeq(A, x + 1, x + k) = SubSeq(A, 1, x + k)
  <2> DEFINE n == x + k
  <2>1. 1 \in 1..(Len(A) + 1) /\ x \in (1 - 1)..Len(A) /\ n \in x..Len(A)
    <3>1. Len(A) \in Nat
      BY LenProperties
    <3> QED
      BY <1>10, <3>1
  <2> HIDE DEF n
  <2>2. SubSeq(A, 1, x) \o SubSeq(A, x + 1, n) = SubSeq(A, 1, n)
    BY <2>1, ConcatAdjacentSubSeq
  <2> QED
    BY <2>2 DEF n
<1>17. SubSeq(A, x + 1, x + k) = SubSeq(s, 1, k)
  BY <1>11, <1>12, <1>15 DEF IsPart
<1>18. x + k \in 0..y
  BY <1>10
<1> QED
  BY <1>3, <1>6, <1>7, <1>8, <1>9, <1>16, <1>17, <1>18

\* A chunk of them, behind the first a of n.
Extended(A, p, a, k, n) ==
    SubSeq(A, p + 1, a) \o SubSeq(SubSeq(A, 1, n), a + 1, a + k) = SubSeq(A, p + 1, a + k)

LEMMA MoreAnswers ==
    ASSUME NEW A \in Seq(Byte), NEW p \in Nat, NEW a \in Nat, NEW k \in Nat, NEW n \in Nat,
           p <= a, a + k <= n, n <= Len(A)
    PROVE  Extended(A, p, a, k, n)
<1>1. PICK l \in Nat : l = Len(A)
  BY LenProperties
<1>2. PICK b \in Seq(Byte) : IsPart(b, A, 0, n)
  <2>1. 0 \in Nat /\ 0 <= n
    OBVIOUS
  <2> QED
    BY <2>1, PartOf
<1>3. b = SubSeq(A, 1, n) /\ Len(b) = n /\ \A i \in 1..n : b[i] = A[i]
  BY <1>2 DEF IsPart
<1>4. a + k \in Nat /\ a <= a + k /\ a + k <= l
  BY <1>1
<1>5. PICK c \in Seq(Byte) : IsPart(c, b, a, a + k)
  BY <1>3, <1>4, PartOf
<1>6. PICK d \in Seq(Byte) : IsPart(d, A, a, a + k)
  BY <1>1, <1>4, PartOf
<1>7. Len(c) = k /\ Len(d) = k
  <2>1. Len(c) = (a + k) - a
    BY <1>5 DEF IsPart
  <2>2. Len(d) = (a + k) - a
    BY <1>6 DEF IsPart
  <2>3. (a + k) - a = k
    OBVIOUS
  <2> QED
    BY <2>1, <2>2, <2>3
<1>8. ASSUME NEW i \in 1..k PROVE c[i] = d[i]
  <2>1. i \in 1..((a + k) - a)
    OBVIOUS
  <2>2. c[i] = b[a + i] /\ d[i] = A[a + i]
    BY <1>5, <1>6, <2>1 DEF IsPart
  <2>3. a + i \in 1..n
    OBVIOUS
  <2> QED
    BY <1>3, <2>2, <2>3
<1>9. c = d
  BY <1>7, <1>8, SeqEqual
<1>10. SubSeq(A, p + 1, a) \o SubSeq(A, a + 1, a + k) = SubSeq(A, p + 1, a + k)
  <2> DEFINE m == p + 1
             j == a + k
  <2>1. m \in 1..(Len(A) + 1) /\ a \in (m - 1)..Len(A) /\ j \in a..Len(A)
    BY <1>1
  <2> HIDE DEF m, j
  <2>2. SubSeq(A, m, a) \o SubSeq(A, a + 1, j) = SubSeq(A, m, j)
    BY <2>1, ConcatAdjacentSubSeq
  <2> QED
    BY <2>2 DEF m, j
<1> QED
  BY <1>3, <1>5, <1>6, <1>9, <1>10 DEF IsPart, Extended

\* A reader that holds the bytes between p and a.
Holds(b, A, p, a) ==
    /\ b \in Seq(Byte) /\ Len(b) = a - p
    /\ b # <<>> => p < a /\ b[1] = A[p + 1]
    /\ b = <<>> => p = a
    /\ \A k \in Nat : k <= a - p => DropBytes(b, k) = SubSeq(A, p + k + 1, a)

LEMMA HeldAnswers ==
    ASSUME NEW A \in Seq(Byte), NEW p \in Nat, NEW a \in Nat, p <= a, a <= Len(A),
           NEW b, b = SubSeq(A, p + 1, a)
    PROVE  Holds(b, A, p, a)
<1>1. PICK c \in Seq(Byte) : IsPart(c, A, p, a)
  BY PartOf
<1>2. c = b /\ Len(b) = a - p /\ \A i \in 1..(a - p) : b[i] = A[p + i]
  BY <1>1 DEF IsPart
<1>3. b = <<>> => p = a
  BY <1>1, <1>2, EmptySeq
<1>4. b # <<>> => p < a /\ b[1] = A[p + 1]
  <2> SUFFICES ASSUME b # <<>> PROVE p < a /\ b[1] = A[p + 1]
    OBVIOUS
  <2>1. Len(b) # 0
    BY <1>1, <1>2, EmptySeq
  <2>2. p < a /\ 1 \in 1..(a - p)
    BY <1>2, <2>1
  <2> QED
    BY <1>2, <2>2
<1>5. ASSUME NEW k \in Nat, k <= a - p PROVE DropBytes(b, k) = SubSeq(A, p + k + 1, a)
  <2>1. PICK q \in Nat : q = p + k /\ q <= a
    BY <1>5
  <2>2. PICK d \in Seq(Byte) : IsPart(d, A, q, a)
    BY <2>1, PartOf
  <2>3. PICK e \in Seq(Byte) : IsPart(e, b, k, a - p)
    <3>1. a - p \in Nat /\ a - p <= Len(b) /\ b \in Seq(Byte)
      BY <1>1, <1>2
    <3> QED
      BY <1>5, <3>1, PartOf
  <2>4. Len(d) = a - q /\ Len(e) = a - q
    <3>1. (a - p) - k = a - q
      BY <2>1
    <3> QED
      BY <2>2, <2>3, <3>1 DEF IsPart
  <2>5. ASSUME NEW i \in 1..(a - q) PROVE d[i] = e[i]
    <3>1. i \in 1..((a - p) - k) /\ k + i \in 1..(a - p) /\ p + (k + i) = q + i
      BY <2>1
    <3>2. d[i] = A[q + i] /\ e[i] = b[k + i]
      BY <2>2, <2>3, <3>1 DEF IsPart
    <3>3. b[k + i] = A[p + (k + i)]
      BY <1>2, <3>1
    <3> QED
      BY <3>1, <3>2, <3>3
  <2>6. d = e
    BY <2>4, <2>5, SeqEqual
  <2> QED
    BY <1>2, <2>1, <2>2, <2>3, <2>6 DEF IsPart, DropBytes
<1> QED
  BY <1>1, <1>2, <1>3, <1>4, <1>5 DEF Holds

-----------------------------------------------------------------------------
(* The steps of the node that accepted the stream.                         *)

LEMMA HandledLen ==
    ASSUME messages \in Seq(Messages), NEW h, OnTrack(h)
    PROVE  /\ h \in 0..Len(messages) /\ h \in Nat /\ Len(handled) = h
           /\ \A m \in Messages : Len(handled \o <<m>>) = h + 1
<1>1. PICK N \in Nat : N = Len(messages) /\ h \in 0..N
  BY LenProperties DEF OnTrack, Cut
<1>2. PICK b \in Seq(Messages) : IsPart(b, messages, 0, h)
  <2>1. h \in Nat /\ 0 \in Nat /\ 0 <= h /\ h <= N
    BY <1>1
  <2> QED
    BY <1>1, <2>1, PartOf
<1>3. handled \in Seq(Messages) /\ Len(handled) = h
  <2>1. handled = b
    BY <1>2 DEF OnTrack, IsPart
  <2>2. Len(b) = h - 0
    BY <1>2 DEF IsPart
  <2> QED
    BY <1>1, <2>1, <2>2
<1>4. ASSUME NEW m \in Messages PROVE Len(handled \o <<m>>) = h + 1
  <2>1. <<m>> \in Seq(Messages) /\ Len(<<m>>) = 1
    OBVIOUS
  <2> QED
    BY <1>3, <2>1, ConcatProperties
<1> QED
  BY <1>1, <1>3, <1>4

\* The reader of the answers sees no more of such a step than that answers
\* were added.
LEMMA NodeKeeps ==
    ASSUME AnswerInv, UNCHANGED messages, UNCHANGED answerVars, exposed => exposed',
           ~exposed' => WrittenBack' /\ Len(answer) \in Nat /\ Len(answer') \in Nat
                        /\ Len(answer) <= Len(answer')
    PROVE  AnswerInv'
<1> SUFFICES ASSUME ~exposed'
             PROVE  /\ WrittenBack' /\ answer_got' \in 0..Len(answer')
                    /\ Legible' => \E p \in 0..answer_got' : ReadBack(p)'
  BY DEF AnswerInv
<1>1. /\ answer_got' = answer_got /\ ok_buffer' = ok_buffer /\ ok_reader' = ok_reader
      /\ subscribe_ok' = subscribe_ok
  BY DEF answerVars
<1>2. /\ answer_got \in 0..Len(answer)
      /\ Legible => \E p \in 0..answer_got : ReadBack(p)
  BY DEF AnswerInv
<1>3. answer_got' \in 0..Len(answer')
  BY <1>1, <1>2
<1>4. Legible' <=> Legible
  BY DEF Legible
<1>5. \A p : ReadBack(p)' <=> ReadBack(p)
  BY <1>1 DEF ReadBack, AnswersBefore, Outside, Subscribes, AnswerBytes, AnswerEnd, Replies
<1> QED
  BY <1>1, <1>2, <1>3, <1>4, <1>5

\* What has been written back.
LEMMA AnswerSoFar ==
    ASSUME messages \in Seq(Messages), WrittenBack
    PROVE  \E n \in Nat :
              /\ n <= Len(AnswerBytes) /\ n <= AnswerEnd[Len(messages)]
              /\ answer = SubSeq(AnswerBytes, 1, n) /\ Len(answer) = n
              /\ n <= AnswerEnd[Len(handled)] /\ AnswerEnd[Len(handled)] \in Nat
              /\ reader # "lost" => n = AnswerEnd[Len(handled)]
<1>1. PICK N \in Nat : \E E \in [0..N -> Nat], A \in Seq(Byte) :
         Answered(N, E, A) /\ Coded(N, E, A)
  BY AnswersLaid
<1>2. PICK E \in [0..N -> Nat], A \in Seq(Byte) : Answered(N, E, A)
  BY <1>1
<1>3. PICK h \in 0..N :
         /\ h = Len(handled)
         /\ \E n \in 0..E[h] : answer = SubSeq(A, 1, n) /\ (reader # "lost" => n = E[h])
  BY <1>2 DEF WrittenBack, Answered
<1>4. PICK n \in 0..E[h] : answer = SubSeq(A, 1, n) /\ (reader # "lost" => n = E[h])
  BY <1>3
<1>5. PICK z \in Nat, y \in Nat : z = E[h] /\ y = Len(A) /\ y = E[N] /\ z <= y
  <2>1. h \in 0..N /\ N \in 0..N /\ h <= N
    OBVIOUS
  <2> QED
    BY <1>2, <2>1 DEF Answered
<1>6. n \in Nat /\ 0 \in Nat /\ 0 <= n /\ n <= Len(A) /\ n <= E[N] /\ n <= z
  BY <1>5
<1>7. PICK b \in Seq(Byte) : IsPart(b, A, 0, n)
  BY <1>6, PartOf
<1>8. answer = b /\ Len(answer) = n
  <2>1. answer = b
    BY <1>4, <1>7 DEF IsPart
  <2>2. Len(b) = n - 0
    BY <1>7 DEF IsPart
  <2> QED
    BY <1>6, <2>1, <2>2
<1> QED
  BY <1>2, <1>3, <1>4, <1>5, <1>6, <1>8 DEF Answered

\* Nothing is written.
LEMMA SilentKeeps ==
    ASSUME AnswerInv, ControlInv, UNCHANGED <<messages, answer>>, UNCHANGED answerVars,
           exposed => exposed',
           ~exposed' => /\ Len(handled') \in 0..Len(messages)
                        /\ AnswerEnd[Len(handled')] = AnswerEnd[Len(handled)]
                        /\ reader # "lost" \/ reader' = "lost"
    PROVE  AnswerInv'
<1>1. ASSUME ~exposed' PROVE WrittenBack'
  <2>1. WrittenBack /\ ~exposed
    BY <1>1 DEF AnswerInv
  <2>2. AnswerEnd' = AnswerEnd /\ AnswerBytes' = AnswerBytes
    BY DEF AnswerEnd, AnswerBytes, Replies
  <2> QED
    BY <1>1, <2>1, <2>2 DEF WrittenBack
<1>2. ASSUME ~exposed PROVE Len(answer) \in Nat
  BY <1>2, AnswerSoFar DEF AnswerInv, ControlInv
<1>3. Len(answer') = Len(answer)
  OBVIOUS
<1>4. ~exposed' => Len(answer) \in Nat /\ Len(answer') \in Nat /\ Len(answer) <= Len(answer')
  BY <1>2, <1>3
<1> QED
  BY <1>1, <1>4, NodeKeeps

\* A message is taken and k bytes of what is due for it are written: less than
\* all only when the connection is lost.
LEMMA ReplyKeeps ==
    ASSUME AnswerInv, ControlInv, ~exposed, NEW h, OnTrack(h), NEW m, Front(h, m),
           UNCHANGED messages, UNCHANGED answerVars, reader = "processing",
           handled' = handled \o <<m>>, NEW k \in 0..Len(AnswerTo(m)),
           answer' = answer \o SubSeq(AnswerTo(m), 1, k),
           reader' # "lost" => k = Len(AnswerTo(m))
    PROVE  AnswerInv'
<1>1. messages \in Seq(Messages) /\ WrittenBack
  BY DEF ControlInv, AnswerInv
<1>2. /\ h \in Nat /\ h + 1 \in 1..Len(messages) /\ m = messages[h + 1] /\ m \in Messages
  BY DEF Front
<1>3. Len(handled) = h /\ Len(handled') = h + 1
  BY <1>1, <1>2, HandledLen
<1>4. PICK n \in Nat :
         /\ n <= Len(AnswerBytes) /\ n = AnswerEnd[h]
         /\ answer = SubSeq(AnswerBytes, 1, n) /\ Len(answer) = n
  BY <1>1, <1>3, AnswerSoFar
<1>5. /\ k \in Nat /\ n + k \in 0..AnswerEnd[h + 1]
      /\ AnswerEnd[h + 1] = n + Len(AnswerTo(m))
      /\ answer' = SubSeq(AnswerBytes, 1, n + k)
  BY <1>1, <1>2, <1>4, NextReply
<1>6. AnswerEnd' = AnswerEnd /\ AnswerBytes' = AnswerBytes
  BY DEF AnswerEnd, AnswerBytes, Replies
<1>7. WrittenBack'
  <2>1. h + 1 \in 0..Len(messages)
    BY <1>2
  <2>2. reader' # "lost" => n + k = AnswerEnd[h + 1]
    BY <1>5
  <2> QED
    BY <1>3, <1>5, <1>6, <2>1, <2>2 DEF WrittenBack
<1>8. Len(answer') \in Nat /\ n <= Len(answer')
  <2>1. PICK A \in Seq(Byte) : A = AnswerBytes /\ n + k <= Len(A)
    <3>1. PICK N \in Nat : \E E \in [0..N -> Nat], A \in Seq(Byte) :
             Answered(N, E, A) /\ Coded(N, E, A)
      BY <1>1, AnswersLaid
    <3>2. PICK E \in [0..N -> Nat], A \in Seq(Byte) : Answered(N, E, A)
      BY <3>1
    <3>3. h + 1 \in 0..N /\ N \in 0..N /\ h + 1 <= N
      BY <1>2, <3>2 DEF Answered
    <3>4. PICK y \in Nat, z \in Nat : y = E[h + 1] /\ z = Len(A) /\ y <= z
      BY <3>2, <3>3 DEF Answered
    <3>5. n + k \in 0..y
      BY <1>5, <3>2, <3>4 DEF Answered
    <3> QED
      BY <3>2, <3>4, <3>5 DEF Answered
  <2>2. PICK y \in Nat : y = n + k /\ 0 \in Nat /\ 0 <= y /\ n <= y
    BY <1>5
  <2>3. PICK b \in Seq(Byte) : IsPart(b, A, 0, y)
    BY <2>1, <2>2, PartOf
  <2>4. b = SubSeq(A, 1, y) /\ Len(b) = y
    BY <2>3 DEF IsPart
  <2>5. answer' = b
    BY <1>5, <2>1, <2>2, <2>4
  <2> QED
    BY <2>2, <2>4, <2>5
<1>9. ~exposed' => WrittenBack' /\ Len(answer) \in Nat /\ Len(answer') \in Nat
                   /\ Len(answer) <= Len(answer')
  BY <1>4, <1>7, <1>8
<1> QED
  BY <1>9, NodeKeeps

\* A handler and what it writes back.
LEMMA TakenKeeps ==
    ASSUME AnswerInv, ControlInv, NEW type, NEW result, Take(type, result), Reads(type, result),
           ~exposed => /\ result.messages # <<>>
                       /\ \/ Answers(AnswerTo(result.messages[1]))
                          \/ AnswerTo(result.messages[1]) = <<>> /\ UNCHANGED <<reader, answer>>
    PROVE  AnswerInv'
<1>1. CASE exposed
  BY <1>1 DEF AnswerInv, Take
<1>2. CASE ~exposed
  <2>1. PICK h \in 0..Len(messages), m \in Messages :
           /\ OnTrack(h) /\ Front(h, m) /\ m.type = type
           /\ result = Takes(Len(Serialized(m)), m) /\ result.messages = <<m>>
    BY <1>2, WholeTaken
  <2>2. /\ UNCHANGED messages /\ UNCHANGED answerVars /\ reader = "processing"
        /\ handled' = handled \o <<m>>
    BY <2>1 DEF Take
  <2>3. AnswerTo(m) \in Seq(Byte) /\ Len(AnswerTo(m)) \in Nat
    BY ReplyBytes
  <2>4. result.messages[1] = m
    BY <2>1
  <2>5. SubSeq(AnswerTo(m), 1, Len(AnswerTo(m))) = AnswerTo(m)
    BY <2>3, SubSeqFull
  <2>6. CASE Answers(AnswerTo(m))
    <3>1. \E k \in 0..Len(AnswerTo(m)) :
             /\ answer' = answer \o SubSeq(AnswerTo(m), 1, k)
             /\ reader' # "lost" => k = Len(AnswerTo(m))
      <4>1. CASE answer' = answer \o AnswerTo(m)
        <5>1. Len(AnswerTo(m)) \in 0..Len(AnswerTo(m))
          BY <2>3
        <5> QED
          BY <2>5, <4>1, <5>1
      <4>2. CASE /\ \E k \in 0..(Len(AnswerTo(m)) - 1) :
                       answer' = answer \o SubSeq(AnswerTo(m), 1, k)
                 /\ reader' = "lost"
        <5>1. \A k \in 0..(Len(AnswerTo(m)) - 1) : k \in 0..Len(AnswerTo(m))
          BY <2>3
        <5> QED
          BY <4>2, <5>1
      <4> QED
        BY <2>6, <4>1, <4>2 DEF Answers
    <3> QED
      BY <1>2, <2>1, <2>2, <3>1, ReplyKeeps
  <2>7. CASE AnswerTo(m) = <<>> /\ UNCHANGED <<reader, answer>>
    <3>1. messages \in Seq(Messages) /\ WrittenBack
      BY <1>2 DEF ControlInv, AnswerInv
    <3>2. /\ h \in Nat /\ h + 1 \in 1..Len(messages) /\ m = messages[h + 1]
      BY <2>1 DEF Front
    <3>3. Len(handled) = h /\ Len(handled') = h + 1
      BY <2>1, <2>2, <3>1, HandledLen
    <3>4. Len(AnswerTo(m)) = 0 /\ 0 \in 0..Len(AnswerTo(m))
      BY <2>7, EmptySeq
    <3>5. AnswerEnd[h + 1] = AnswerEnd[h] + 0 /\ AnswerEnd[h] \in Nat
      BY <3>1, <3>2, <3>4, NextReply
    <3>6. AnswerEnd[h + 1] = AnswerEnd[h] /\ h + 1 \in 0..Len(messages)
      BY <3>2, <3>5
    <3>7. exposed' = exposed
      BY DEF Take
    <3> QED
      BY <2>2, <2>7, <3>3, <3>6, <3>7, SilentKeeps
  <2> QED
    BY <1>2, <2>4, <2>6, <2>7
<1> QED
  BY <1>1, <1>2

\* The steps that take no message.
LEMMA OthersKeep ==
    ASSUME AnswerInv, ControlInv,
           ReadChunk \/ read_end \/ process_break \/ process_skip
    PROVE  AnswerInv'
<1>1. UNCHANGED <<messages, answer, handled>> /\ UNCHANGED answerVars /\ (exposed => exposed')
      /\ reader # "lost"
  <2>1. CASE ReadChunk
    BY <2>1 DEF ReadChunk, read_chunk
  <2>2. CASE read_end
    BY <2>2 DEF read_end
  <2>3. CASE process_break
    BY <2>3 DEF process_break
  <2>4. CASE process_skip
    BY <2>4 DEF process_skip
  <2> QED
    BY <2>1, <2>2, <2>3, <2>4
<1>2. ~exposed => Len(handled) \in 0..Len(messages)
  BY DEF AnswerInv, WrittenBack
<1> QED
  BY <1>1, <1>2, SilentKeeps

LEMMA HandlersKeep ==
    ASSUME AnswerInv, ControlInv,
           \/ handle_subscribe_message \/ handle_heartbeat_message
           \/ handle_request_message \/ handle_unsubscribe_message
           \/ handle_cancel_message \/ handle_terminate_message
           \/ handle_subscribe_ok_message
    PROVE  AnswerInv'
<1>1. ASSUME NEW type, NEW result, Take(type, result), Reads(type, result), ~exposed
      PROVE  /\ result.messages # <<>> /\ result.messages[1].type = type
             /\ type \notin {TYPE_SUBSCRIBE, TYPE_HEARTBEAT} =>
                   AnswerTo(result.messages[1]) = <<>>
             /\ type = TYPE_SUBSCRIBE =>
                   AnswerTo(result.messages[1]) = subscribe_answer(result.messages[1])
             /\ type = TYPE_HEARTBEAT =>
                   AnswerTo(result.messages[1]) = serialize_heartbeat(result.messages[1])
  <2>1. PICK m \in Messages : m.type = type /\ result.messages = <<m>>
    BY <1>1, WholeTaken
  <2>2. result.messages # <<>> /\ result.messages[1] = m
    BY <2>1
  <2> QED
    BY <2>1, <2>2 DEF AnswerTo, TYPE_SUBSCRIBE, TYPE_HEARTBEAT
<1>2. /\ TYPE_REQUEST \notin {TYPE_SUBSCRIBE, TYPE_HEARTBEAT}
      /\ TYPE_CANCEL \notin {TYPE_SUBSCRIBE, TYPE_HEARTBEAT}
      /\ TYPE_TERMINATE \notin {TYPE_SUBSCRIBE, TYPE_HEARTBEAT}
      /\ TYPE_SUBSCRIBE_OK \notin {TYPE_SUBSCRIBE, TYPE_HEARTBEAT}
  BY DEF TYPE_SUBSCRIBE, TYPE_HEARTBEAT, TYPE_REQUEST, TYPE_CANCEL, TYPE_TERMINATE,
     TYPE_SUBSCRIBE_OK
<1>3. ASSUME NEW type, NEW result, Take(type, result), Reads(type, result),
             type \notin {TYPE_SUBSCRIBE, TYPE_HEARTBEAT}, UNCHANGED <<reader, answer>>
      PROVE  AnswerInv'
  BY <1>1, <1>3, TakenKeeps
<1>4. CASE handle_subscribe_message
  <2> DEFINE result == deserialize_subscribe(buffer)
  <2>1. Take(TYPE_SUBSCRIBE, result) /\ Reads(TYPE_SUBSCRIBE, result)
    BY <1>4 DEF handle_subscribe_message, Reads
  <2>2. result.messages # <<>> => Answers(subscribe_answer(result.messages[1]))
    BY <1>4 DEF handle_subscribe_message
  <2> HIDE DEF result
  <2>3. ~exposed => result.messages # <<>> /\ Answers(AnswerTo(result.messages[1]))
    BY <1>1, <2>1, <2>2
  <2> QED
    BY <2>1, <2>3, TakenKeeps
<1>5. CASE handle_heartbeat_message
  <2> DEFINE result == deserialize_heartbeat(buffer)
  <2>1. Take(TYPE_HEARTBEAT, result)
    BY <1>5 DEF handle_heartbeat_message
  <2>2. Reads(TYPE_HEARTBEAT, result)
    BY DEF Reads, ShortTypes, Deserialized, TYPE_CANCEL, TYPE_TERMINATE, TYPE_HEARTBEAT,
       TYPE_SUBSCRIBE_OK
  <2>3. result.messages # <<>> => Answers(serialize_heartbeat(result.messages[1]))
    BY <1>5 DEF handle_heartbeat_message
  <2> HIDE DEF result
  <2>4. ~exposed => result.messages # <<>> /\ Answers(AnswerTo(result.messages[1]))
    BY <1>1, <2>1, <2>2, <2>3
  <2> QED
    BY <2>1, <2>2, <2>4, TakenKeeps
<1>6. CASE handle_request_message
  <2>1. /\ Take(TYPE_REQUEST, deserialize_request(buffer)) /\ UNCHANGED <<reader, answer>>
        /\ Reads(TYPE_REQUEST, deserialize_request(buffer))
    BY <1>6 DEF handle_request_message, Reads
  <2> QED
    BY <1>2, <1>3, <2>1
\* A stream with an UNSUBSCRIBE is exposed from its first chunk.
<1>7. CASE handle_unsubscribe_message
  <2>1. Take(TYPE_UNSUBSCRIBE, deserialize_unsubscribe(buffer))
    BY <1>7 DEF handle_unsubscribe_message
  <2>2. exposed
    BY <2>1, WholeInFront DEF Front
  <2> QED
    BY <2>1, <2>2 DEF AnswerInv, Take
<1>8. /\ Reads(TYPE_CANCEL, deserialize_cancel(buffer))
      /\ Reads(TYPE_TERMINATE, deserialize_terminate(buffer))
      /\ Reads(TYPE_SUBSCRIBE_OK, deserialize_subscribe_ok(buffer))
  BY DEF Reads, ShortTypes, Deserialized, TYPE_CANCEL, TYPE_TERMINATE, TYPE_HEARTBEAT,
     TYPE_SUBSCRIBE_OK
<1>9. CASE handle_cancel_message
  <2>1. Take(TYPE_CANCEL, deserialize_cancel(buffer)) /\ UNCHANGED <<reader, answer>>
    BY <1>9 DEF handle_cancel_message
  <2> QED
    BY <1>2, <1>3, <1>8, <2>1
<1>10. CASE handle_terminate_message
  <2>1. Take(TYPE_TERMINATE, deserialize_terminate(buffer)) /\ UNCHANGED <<reader, answer>>
    BY <1>10 DEF handle_terminate_message
  <2> QED
    BY <1>2, <1>3, <1>8, <2>1
<1>11. CASE handle_subscribe_ok_message
  <2>1. /\ Take(TYPE_SUBSCRIBE_OK, deserialize_subscribe_ok(buffer))
        /\ UNCHANGED <<reader, answer>>
    BY <1>11 DEF handle_subscribe_ok_message
  <2> QED
    BY <1>2, <1>3, <1>8, <2>1
<1> QED
  BY <1>4, <1>5, <1>6, <1>7, <1>9, <1>10, <1>11

-----------------------------------------------------------------------------
(* The steps of the reader of the answers.                                 *)

\* What a step of the reader may do: p bytes dealt with become q.
LEMMA ReaderKeeps ==
    ASSUME AnswerInv, UNCHANGED requestVars,
           ASSUME ~exposed, WrittenBack, answer_got \in 0..Len(answer)
           PROVE  answer_got' \in 0..Len(answer),
           ASSUME NEW p \in 0..answer_got, ~exposed, Legible, WrittenBack,
                  answer_got \in 0..Len(answer), ReadBack(p)
           PROVE  \E q \in 0..answer_got' :
                     /\ ok_buffer' = SubSeq(AnswerBytes, q + 1, answer_got')
                     /\ subscribe_ok' = Cardinality(AnswersBefore(q)) /\ Outside(q)
                     /\ ok_reader' = "reading" =>
                           AnswersBefore(answer_got') = AnswersBefore(q)
    PROVE  AnswerInv'
<1> SUFFICES ASSUME ~exposed
             PROVE  /\ WrittenBack' /\ answer_got' \in 0..Len(answer)
                    /\ Legible' => \E q \in 0..answer_got' : ReadBack(q)'
  BY DEF AnswerInv, requestVars
<1>1. UNCHANGED <<messages, handled, reader, answer>>
  BY DEF requestVars
<1>2. WrittenBack /\ answer_got \in 0..Len(answer)
  BY DEF AnswerInv
<1>3. WrittenBack'
  BY <1>1, <1>2 DEF WrittenBack, AnswerBytes, AnswerEnd, Replies
<1>4. ASSUME Legible' PROVE \E q \in 0..answer_got' : ReadBack(q)'
  <2>1. Legible
    BY <1>1, <1>4 DEF Legible
  <2>2. PICK p \in 0..answer_got : ReadBack(p)
    BY <2>1 DEF AnswerInv
  <2>3. PICK q \in 0..answer_got' :
           /\ ok_buffer' = SubSeq(AnswerBytes, q + 1, answer_got')
           /\ subscribe_ok' = Cardinality(AnswersBefore(q)) /\ Outside(q)
           /\ ok_reader' = "reading" => AnswersBefore(answer_got') = AnswersBefore(q)
    BY <1>2, <2>1, <2>2
  <2>4. ReadBack(q)'
    BY <1>1, <2>3 DEF ReadBack, AnswersBefore, Outside, Subscribes, AnswerBytes, AnswerEnd, Replies
  <2> QED
    BY <2>4
<1> QED
  BY <1>2, <1>3, <1>4

LEMMA ReadAnswerKeeps ==
    ASSUME AnswerInv, ControlInv, NEW k \in 1..Len(answer), read_answer(k) PROVE AnswerInv'
<1>1. /\ answer_got + k <= Len(answer) /\ answer_got' = answer_got + k
      /\ ok_buffer' = ok_buffer \o SubSeq(answer, answer_got + 1, answer_got + k)
      /\ ok_reader' = "processing" /\ UNCHANGED requestVars /\ subscribe_ok' = subscribe_ok
  BY DEF read_answer
<1>2. messages \in Seq(Messages)
  BY DEF ControlInv
<1>3. ASSUME WrittenBack, answer_got \in 0..Len(answer)
      PROVE  \E a \in Nat, n \in Nat, c \in Nat :
                /\ a = answer_got /\ n = Len(answer) /\ c = k
                /\ answer = SubSeq(AnswerBytes, 1, n) /\ n <= Len(AnswerBytes)
                /\ AnswerBytes \in Seq(Byte) /\ a + c <= n
  <2>1. PICK n \in Nat :
           /\ n <= Len(AnswerBytes) /\ answer = SubSeq(AnswerBytes, 1, n) /\ Len(answer) = n
    BY <1>2, <1>3, AnswerSoFar
  <2>2. PICK c \in Nat : c = k
    BY <2>1
  <2>3. PICK a \in Nat : a = answer_got /\ a + c <= n
    BY <1>1, <1>3, <2>1, <2>2
  <2>4. AnswerBytes \in Seq(Byte)
    <3>1. PICK N \in Nat : \E E \in [0..N -> Nat], A \in Seq(Byte) :
             Answered(N, E, A) /\ Coded(N, E, A)
      BY <1>2, AnswersLaid
    <3> QED
      BY <3>1 DEF Answered
  <2> QED
    BY <2>1, <2>2, <2>3, <2>4
<1>4. ASSUME ~exposed, WrittenBack, answer_got \in 0..Len(answer)
      PROVE  answer_got' \in 0..Len(answer)
  <2>1. PICK a \in Nat, n \in Nat, c \in Nat :
           a = answer_got /\ n = Len(answer) /\ c = k /\ a + c <= n
    BY <1>3, <1>4
  <2> QED
    BY <1>1, <2>1
<1>5. ASSUME NEW p \in 0..answer_got, ~exposed, Legible, WrittenBack,
             answer_got \in 0..Len(answer), ReadBack(p)
      PROVE  \E q \in 0..answer_got' :
                /\ ok_buffer' = SubSeq(AnswerBytes, q + 1, answer_got')
                /\ subscribe_ok' = Cardinality(AnswersBefore(q)) /\ Outside(q)
                /\ ok_reader' = "reading" => AnswersBefore(answer_got') = AnswersBefore(q)
  <2>1. PICK a \in Nat, n \in Nat, c \in Nat :
           /\ a = answer_got /\ n = Len(answer) /\ c = k
           /\ answer = SubSeq(AnswerBytes, 1, n) /\ n <= Len(AnswerBytes)
           /\ AnswerBytes \in Seq(Byte) /\ a + c <= n
    BY <1>3, <1>5
  <2>2. p \in Nat /\ p <= a /\ p \in 0..(a + c)
    BY <2>1
  <2>3. ok_buffer = SubSeq(AnswerBytes, p + 1, a)
    BY <1>5, <2>1 DEF ReadBack
  <2>4. Extended(AnswerBytes, p, a, c, n)
    BY <2>1, <2>2, MoreAnswers
  <2>5. ok_buffer' = SubSeq(AnswerBytes, p + 1, a + c) /\ answer_got' = a + c
    BY <1>1, <2>1, <2>3, <2>4 DEF Extended
  <2> QED
    BY <1>1, <1>5, <2>2, <2>5 DEF ReadBack
<1> QED
  BY <1>1, <1>4, <1>5, ReaderKeeps

\* The loop over the buffer: a byte is skipped, a SUBSCRIBE_OK taken, or it
\* waits for the rest of one.
LEMMA ProcessAnswerKeeps ==
    ASSUME AnswerInv, ControlInv, process_answer PROVE AnswerInv'
<1>1. UNCHANGED requestVars /\ answer_got' = answer_got
  BY DEF process_answer
<1>2. messages \in Seq(Messages)
  BY DEF ControlInv
<1>3. ASSUME NEW p \in 0..answer_got, ~exposed, Legible, WrittenBack,
             answer_got \in 0..Len(answer), ReadBack(p)
      PROVE  \E q \in 0..answer_got' :
                /\ ok_buffer' = SubSeq(AnswerBytes, q + 1, answer_got')
                /\ subscribe_ok' = Cardinality(AnswersBefore(q)) /\ Outside(q)
                /\ ok_reader' = "reading" => AnswersBefore(answer_got') = AnswersBefore(q)
  <2>1. PICK n \in Nat :
           n <= Len(AnswerBytes) /\ n <= AnswerEnd[Len(messages)] /\ Len(answer) = n
    BY <1>2, <1>3, AnswerSoFar
  <2>2. PICK A \in Seq(Byte), l \in Nat :
           /\ A = AnswerBytes /\ l = AnswerEnd[Len(messages)] /\ l = Len(A) /\ n <= l
    <3>1. PICK N \in Nat : \E E \in [0..N -> Nat], A \in Seq(Byte) :
             Answered(N, E, A) /\ Coded(N, E, A)
      BY <1>2, AnswersLaid
    <3>2. PICK E \in [0..N -> Nat], A \in Seq(Byte) : Answered(N, E, A)
      BY <3>1
    <3>3. Len(A) \in Nat
      BY LenProperties
    <3> QED
      BY <2>1, <3>2, <3>3 DEF Answered
  <2>3. PICK a \in Nat : a = answer_got /\ a <= n /\ p \in 0..a /\ p \in Nat /\ p <= a
    BY <1>3, <2>1
  <2>4. /\ ok_buffer = SubSeq(A, p + 1, a) /\ subscribe_ok = Cardinality(AnswersBefore(p))
        /\ Outside(p)
    BY <1>3, <2>2, <2>3 DEF ReadBack
  <2>5. a <= Len(A)
    BY <2>2, <2>3
  <2>6. /\ ok_buffer \in Seq(Byte) /\ Len(ok_buffer) = a - p
        /\ ok_buffer # <<>> => p < a /\ ok_buffer[1] = A[p + 1]
        /\ ok_buffer = <<>> => p = a
        /\ \A k \in Nat : k <= a - p => DropBytes(ok_buffer, k) = SubSeq(A, p + k + 1, a)
    <3>1. Holds(ok_buffer, A, p, a)
      BY <2>3, <2>4, <2>5, HeldAnswers
    <3> QED
      BY <3>1 DEF Holds
  <2>7. p < a => p < AnswerEnd[Len(messages)]
    BY <2>2, <2>3
  <2>8. CASE ok_buffer = <<>> /\ ok_reader' = "reading" /\ UNCHANGED <<ok_buffer, subscribe_ok>>
    <3>1. p = a
      BY <2>6, <2>8
    <3> QED
      BY <1>1, <2>2, <2>3, <2>4, <2>8, <3>1
  <2>9. CASE /\ ok_buffer # <<>> /\ ok_buffer[1] = TYPE_SUBSCRIBE_OK
    <3>1. p < a /\ A[p + 1] = TYPE_SUBSCRIBE_OK
      BY <2>6, <2>9
    <3>2. PICK i : Starts(i, p)
      BY <1>2, <1>3, <2>2, <2>3, <2>4, <2>7, <3>1, AtCode
    <3>3. CASE /\ Len(ok_buffer) < 17 /\ ok_reader' = "reading"
               /\ UNCHANGED <<ok_buffer, subscribe_ok>>
      <4>1. a < p + 17
        BY <2>3, <2>6, <3>3
      <4>2. AnswersBefore(a) = AnswersBefore(p)
        BY <2>3, <3>2, <4>1 DEF Starts
      <4> QED
        BY <1>1, <2>2, <2>3, <2>4, <3>3, <4>2
    <3>4. CASE /\ Len(ok_buffer) >= 17 /\ ok_buffer' = DropBytes(ok_buffer, 17)
               /\ subscribe_ok' = subscribe_ok + 1 /\ ok_reader' = ok_reader
      <4>1. 17 \in Nat /\ 17 <= a - p /\ p + 17 \in 0..a
        BY <2>3, <2>6, <3>4
      <4>2. ok_buffer' = SubSeq(A, p + 17 + 1, a)
        BY <2>6, <3>4, <4>1
      <4>3. Cardinality(AnswersBefore(p + 17)) = Cardinality(AnswersBefore(p)) + 1
        <5>1. IsFiniteSet(AnswersBefore(p))
          BY <1>2, FiniteAnswers
        <5>2. i \notin AnswersBefore(p) /\ AnswersBefore(p + 17) = AnswersBefore(p) \cup {i}
          BY <3>2 DEF Starts
        <5> QED
          BY <5>1, <5>2, FS_AddElement
      <4>4. Outside(p + 17)
        BY <3>2 DEF Starts
      <4>5. ok_reader' # "reading"
        BY <3>4 DEF process_answer
      <4> QED
        BY <1>1, <2>2, <2>3, <2>4, <3>4, <4>1, <4>2, <4>3, <4>4, <4>5
    <3> QED
      BY <2>9, <3>3, <3>4 DEF process_answer
  <2>10. CASE /\ ok_buffer # <<>> /\ ok_buffer[1] # TYPE_SUBSCRIBE_OK
    <3>1. p < a /\ A[p + 1] # TYPE_SUBSCRIBE_OK
      BY <2>6, <2>10
    <3>2. Outside(p + 1) /\ AnswersBefore(p + 1) = AnswersBefore(p)
      BY <1>2, <2>2, <2>3, <2>4, <2>7, <3>1, PastPlain
    <3>3. /\ ok_buffer' = DropBytes(ok_buffer, 1) /\ subscribe_ok' = subscribe_ok
          /\ ok_reader' = "processing"
      BY <2>10 DEF process_answer
    <3>4. 1 \in Nat /\ 1 <= a - p /\ p + 1 \in 0..a
      BY <2>3, <3>1
    <3>5. ok_buffer' = SubSeq(A, p + 1 + 1, a)
      BY <2>6, <3>3, <3>4
    <3> QED
      BY <1>1, <2>2, <2>3, <2>4, <3>2, <3>3, <3>4, <3>5
  <2> QED
    BY <2>8, <2>9, <2>10 DEF process_answer
<1> QED
  BY <1>1, <1>3, ReaderKeeps

LEMMA InitAnswers == ControlInit => AnswerInv
<1> SUFFICES ASSUME ControlInit PROVE AnswerInv
  OBVIOUS
<1>1. messages \in Seq(Messages)
  BY StreamsAssumption DEF ControlInit
<1>2. PICK N \in Nat : \E E \in [0..N -> Nat], A \in Seq(Byte) :
         Answered(N, E, A) /\ Coded(N, E, A)
  BY <1>1, AnswersLaid
<1>3. PICK E \in [0..N -> Nat], A \in Seq(Byte) : Answered(N, E, A) /\ Coded(N, E, A)
  BY <1>2
<1>4. N = Len(messages) /\ E = AnswerEnd /\ A = AnswerBytes /\ E[0] = 0
  BY <1>3 DEF Answered
<1>5. /\ handled = <<>> /\ answer = <<>> /\ answer_got = 0 /\ ok_buffer = <<>>
      /\ subscribe_ok = 0
  BY DEF ControlInit
<1>6. Len(handled) = 0 /\ Len(answer) = 0 /\ SubSeq(A, 1, 0) = <<>>
  BY <1>5, EmptySeq, SubSeqEmpty
<1>7. WrittenBack
  <2>1. 0 \in 0..N /\ 0 \in 0..E[0]
    BY <1>4
  <2> QED
    BY <1>4, <1>5, <1>6, <2>1 DEF WrittenBack
<1>8. AnswersBefore(0) = {}
  <2> SUFFICES ASSUME NEW i \in 1..N, Subscribes(i), E[i] <= 0 PROVE FALSE
    BY <1>4 DEF AnswersBefore
  <2>1. i - 1 \in 0..N
    OBVIOUS
  <2>2. PICK x \in Nat : x = E[i - 1]
    BY <2>1
  <2> QED
    BY <1>3, <2>2 DEF Coded
<1>9. Outside(0)
  <2> SUFFICES ASSUME NEW i \in 1..N PROVE 0 <= E[i - 1] + 4
    BY <1>4 DEF Outside
  <2>1. i - 1 \in 0..N
    OBVIOUS
  <2> QED
    BY <2>1
<1>10. ReadBack(0)
  <2>1. Cardinality(AnswersBefore(0)) = 0
    BY <1>8, FS_EmptySet
  <2> QED
    BY <1>4, <1>5, <1>6, <1>9, <2>1 DEF ReadBack
<1> QED
  BY <1>5, <1>6, <1>7, <1>10 DEF AnswerInv

LEMMA StepAnswers == AnswerInv /\ ControlInv /\ [ControlNext]_controlVars => AnswerInv'
<1> SUFFICES ASSUME AnswerInv, ControlInv, [ControlNext]_controlVars PROVE AnswerInv'
  OBVIOUS
<1>1. CASE ReadChunk \/ read_end \/ process_break \/ process_skip
  BY <1>1, OthersKeep
<1>2. CASE \/ handle_subscribe_message \/ handle_heartbeat_message
           \/ handle_request_message \/ handle_unsubscribe_message
           \/ handle_cancel_message \/ handle_terminate_message
           \/ handle_subscribe_ok_message
  BY <1>2, HandlersKeep
<1>3. CASE ReadAnswer
  BY <1>3, ReadAnswerKeeps DEF ReadAnswer
<1>4. CASE process_answer
  BY <1>4, ProcessAnswerKeeps
<1>5. CASE UNCHANGED controlVars
  BY <1>5 DEF controlVars, AnswerInv, WrittenBack, ReadBack, Legible, AnswersBefore, Outside,
     Subscribes, AnswerBytes, AnswerEnd, Replies
<1> QED
  BY <1>1, <1>2, <1>3, <1>4, <1>5 DEF ControlNext, process_control_messages

\* For every stream of messages, however it and the answers to it are cut into
\* chunks: when the subscriber's reader waits, it has sent one command for each
\* SUBSCRIBE_OK that has reached it whole, and no other - as long as no heartbeat
\* carries the code of SUBSCRIBE_OK in its time (subscriber.rs:296-328).
THEOREM AlwaysOkCounted == ControlSpec => []OkCounted
<1>1. ControlInit => ControlInv /\ AnswerInv
  BY InitOnTrack, InitAnswers
<1>2. ControlInv /\ AnswerInv /\ [ControlNext]_controlVars => (ControlInv /\ AnswerInv)'
  BY StepOnTrack, StepAnswers
<1>3. AnswerInv => OkCounted
  <2> SUFFICES ASSUME AnswerInv, ok_reader = "reading", ~exposed, Legible
               PROVE  subscribe_ok = Cardinality(AnswersComplete)
    BY DEF OkCounted
  <2>1. PICK p \in 0..answer_got : ReadBack(p)
    BY DEF AnswerInv
  <2>2. AnswersComplete = AnswersBefore(answer_got)
    BY DEF AnswersComplete, AnswersBefore, Subscribes
  <2> QED
    BY <2>1, <2>2 DEF ReadBack
<1> QED
  BY <1>1, <1>2, <1>3, PTL DEF ControlSpec
=============================================================================
