--------------------- MODULE RetransmissionBufferProofs ---------------------
(***************************************************************************)
(* Proofs about RetransmissionBuffer, for every set of objects and every   *)
(* configuration.                                                          *)
(***************************************************************************)
EXTENDS RetransmissionBuffer, SequenceTheorems, FiniteSetTheorems,
        WellFoundedInduction, TLAPS

USE DEF Stored

-----------------------------------------------------------------------------
(* Lists without repetitions                                               *)

\* Dropping the last element of a list (Vec::pop).
LEMMA PopLast ==
    ASSUME NEW S, NEW s \in Seq(S), s # <<>>
    PROVE  LET rest == SubSeq(s, 1, Len(s) - 1)
           IN  /\ rest \in Seq(S)
               /\ Len(rest) = Len(s) - 1
               /\ \A i \in 1..Len(rest) : rest[i] = s[i]
<1>1. Len(s) \in Nat \ {0}
  BY EmptySeq, LenProperties
<1>2. \A i \in 1..(Len(s) - 1) : s[i] \in S
  BY <1>1, ElementOfSeq
<1> DEFINE rest == SubSeq(s, 1, Len(s) - 1)
<1>3. 1 \in Int /\ Len(s) - 1 \in Int
  BY <1>1
<1>4. /\ rest \in Seq(S)
      /\ Len(rest) = IF 1 <= Len(s) - 1 THEN (Len(s) - 1) - 1 + 1 ELSE 0
      /\ \A i \in 1..((Len(s) - 1) - 1 + 1) : rest[i] = s[1 + i - 1]
  BY <1>2, <1>3, SubSeqProperties
<1> HIDE DEF rest
<1>5. Len(rest) = Len(s) - 1
  <2> DEFINE n == Len(s)
  <2>1. n \in Nat /\ n # 0 /\ Len(rest) = IF 1 <= n - 1 THEN (n - 1) - 1 + 1 ELSE 0
    BY <1>1, <1>4
  <2> HIDE DEF n
  <2>2. Len(rest) = n - 1
    BY <2>1
  <2> QED
    BY <2>2 DEF n
<1>6. \A i \in 1..Len(rest) : rest[i] = s[i]
  BY <1>1, <1>4, <1>5
<1> QED
  BY <1>4, <1>5, <1>6 DEF rest

\* What VecDeque::retain leaves of a list that holds x once.
LEMMA RetainProperties ==
    ASSUME NEW S, NEW s \in Seq(S), NoRepeats(s), NEW x
    PROVE  /\ Retain(s, x) \in Seq(S)
           /\ Elements(Retain(s, x)) = Elements(s) \ {x}
           /\ NoRepeats(Retain(s, x))
<1>1. CASE x \notin Elements(s)
  BY <1>1 DEF Retain
<1>2. CASE x \in Elements(s)
  <2> DEFINE at == CHOOSE i \in 1..Len(s) : s[i] = x
             r == [i \in 1..(Len(s) - 1) |-> IF i < at THEN s[i] ELSE s[i + 1]]
  <2>1. at \in 1..Len(s) /\ s[at] = x
    BY <1>2 DEF Elements
  <2>2. Retain(s, x) = r
    BY <1>2 DEF Retain
  <2> HIDE DEF at
  <2>3. Len(s) \in Nat /\ Len(s) - 1 \in Nat
    BY <2>1, LenProperties
  <2>4. \A i \in 1..(Len(s) - 1) : r[i] \in S
    BY <2>1, <2>3, ElementOfSeq
  <2>5. r \in Seq(S) /\ Len(r) = Len(s) - 1
    <3> HIDE DEF r
    <3>1. r \in [1..(Len(s) - 1) -> S]
      BY <2>3, <2>4 DEF r
    <3> QED
      BY <3>1, <2>3, SeqDef, LenProperties
  <2>6. \A i \in 1..Len(s) : s[i] = x => i = at
    BY <2>1 DEF NoRepeats
  <2>7. Elements(r) = Elements(s) \ {x}
    <3>1. ASSUME NEW y \in Elements(r) PROVE y \in Elements(s) \ {x}
      <4>1. PICK i \in 1..(Len(s) - 1) : y = r[i]
        BY <3>1, <2>5 DEF Elements
      <4>2. CASE i < at
        <5>1. y = s[i] /\ i \in 1..Len(s) /\ i # at
          BY <4>1, <4>2, <2>1, <2>3
        <5> QED
          BY <5>1, <2>6 DEF Elements
      <4>3. CASE ~(i < at)
        <5>1. y = s[i + 1] /\ i + 1 \in 1..Len(s) /\ i + 1 # at
          BY <4>1, <4>3, <2>1, <2>3
        <5> QED
          BY <5>1, <2>6 DEF Elements
      <4> QED
        BY <4>2, <4>3
    <3>2. ASSUME NEW y \in Elements(s) \ {x} PROVE y \in Elements(r)
      <4>1. PICK j \in 1..Len(s) : y = s[j]
        BY <3>2 DEF Elements
      <4>2. j # at
        BY <4>1, <2>1
      <4>3. CASE j < at
        <5>1. j \in 1..(Len(s) - 1) /\ r[j] = y
          BY <4>1, <4>3, <2>1, <2>3
        <5> QED
          BY <5>1, <2>5 DEF Elements
      <4>4. CASE j > at
        <5>1. j - 1 \in 1..(Len(s) - 1) /\ r[j - 1] = y
          BY <4>1, <4>4, <2>1, <2>3
        <5> QED
          BY <5>1, <2>5 DEF Elements
      <4> QED
        BY <4>2, <4>3, <4>4, <2>1, <2>3
    <3> QED
      BY <3>1, <3>2
  <2>8. NoRepeats(r)
    <3> SUFFICES ASSUME NEW i \in 1..(Len(s) - 1), NEW j \in 1..(Len(s) - 1), r[i] = r[j]
                 PROVE  i = j
      BY <2>5 DEF NoRepeats
    <3> DEFINE up(k) == IF k < at THEN k ELSE k + 1
    <3>1. up(i) \in 1..Len(s) /\ up(j) \in 1..Len(s)
      BY <2>1, <2>3
    <3>2. s[up(i)] = s[up(j)]
      BY <2>1, <2>3
    <3>3. up(i) = up(j)
      BY <3>1, <3>2 DEF NoRepeats
    <3> QED
      BY <3>3, <2>1, <2>3
  <2> QED
    BY <2>2, <2>5, <2>7, <2>8
<1> QED
  BY <1>1, <1>2

-----------------------------------------------------------------------------
(* The lowest priority                                                     *)

\* Every non-empty set of priorities has a lowest one.
LEMMA LowestProperties ==
    ASSUME NEW S \in SUBSET Nat, S # {}
    PROVE  Lowest(S) \in S /\ \A y \in S : Lowest(S) <= y
<1>1. IsWellFoundedOn(OpToRel(<, Nat), Nat)
  BY NatLessThanWellFounded
<1>2. PICK x \in S : \A y \in S : ~(<<y, x>> \in OpToRel(<, Nat))
  BY <1>1, WFMin
<1>3. ASSUME NEW y \in S PROVE x <= y
  <2>1. <<y, x>> \in Nat \X Nat /\ <<y, x>>[1] = y /\ <<y, x>>[2] = x
    OBVIOUS
  <2>2. ~(y < x)
    BY <1>2, <2>1 DEF OpToRel
  <2> QED
    BY <2>2
<1> QED
  BY <1>3 DEF Lowest

\* Dropping the last element of a list without repetitions (Vec::pop).
LEMMA PopLastNoRepeats ==
    ASSUME NEW S, NEW s \in Seq(S), s # <<>>, NoRepeats(s)
    PROVE  LET rest == SubSeq(s, 1, Len(s) - 1)
           IN  /\ rest \in Seq(S)
               /\ Elements(rest) = Elements(s) \ {s[Len(s)]}
               /\ NoRepeats(rest)
<1> DEFINE rest == SubSeq(s, 1, Len(s) - 1)
           n == Len(s)
<1>1. n \in Nat /\ n # 0
  BY EmptySeq, LenProperties
<1>2. rest \in Seq(S) /\ Len(rest) = n - 1 /\ \A i \in 1..Len(rest) : rest[i] = s[i]
  BY PopLast
<1> HIDE DEF rest
<1>3. Elements(rest) = {s[i] : i \in 1..(n - 1)}
  BY <1>1, <1>2 DEF Elements
<1>4. \A i \in 1..n : s[i] = s[n] => i = n
  BY <1>1 DEF NoRepeats
<1>5. Elements(rest) = Elements(s) \ {s[n]}
  <2> HIDE DEF n
  <2>1. 1..n = (1..(n - 1)) \cup {n} /\ n \notin 1..(n - 1)
    BY <1>1
  <2>2. Elements(s) = {s[i] : i \in 1..n}
    BY DEF Elements, n
  <2> QED
    BY <1>1, <1>3, <1>4, <2>1, <2>2
<1>6. NoRepeats(rest)
  <2> SUFFICES ASSUME NEW i \in 1..(n - 1), NEW j \in 1..(n - 1), rest[i] = rest[j]
               PROVE  i = j
    BY <1>2 DEF NoRepeats
  <2>1. s[i] = s[j] /\ i \in 1..n /\ j \in 1..n
    BY <1>1, <1>2
  <2> QED
    BY <2>1 DEF NoRepeats
<1> QED
  BY <1>2, <1>5, <1>6 DEF rest

\* VecDeque::pop_front on a list without repetitions.
LEMMA PopFrontNoRepeats ==
    ASSUME NEW S, NEW s \in Seq(S), s # <<>>, NoRepeats(s)
    PROVE  /\ Head(s) \in Elements(s)
           /\ Tail(s) \in Seq(S)
           /\ Elements(Tail(s)) = Elements(s) \ {Head(s)}
           /\ NoRepeats(Tail(s))
<1> DEFINE n == Len(s)
           t == Tail(s)
<1>1. n \in Nat /\ n # 0
  BY EmptySeq, LenProperties
<1>2. t \in Seq(S) /\ Len(t) = n - 1 /\ \A i \in 1..(n - 1) : t[i] = s[i + 1]
  BY HeadTailProperties
<1>3. Head(s) = s[1]
  OBVIOUS
<1> HIDE DEF t
<1>4. Head(s) \in Elements(s)
  BY <1>1, <1>3 DEF Elements
<1>5. Elements(t) = Elements(s) \ {s[1]}
  <2>1. ASSUME NEW x \in Elements(t) PROVE x \in Elements(s) \ {s[1]}
    <3>1. PICK i \in 1..(n - 1) : x = s[i + 1]
      BY <1>2 DEF Elements
    <3>2. i + 1 \in 1..n /\ i + 1 # 1
      BY <1>1
    <3> QED
      BY <1>1, <3>1, <3>2 DEF Elements, NoRepeats
  <2>2. ASSUME NEW x \in Elements(s) \ {s[1]} PROVE x \in Elements(t)
    <3>1. PICK j \in 1..n : x = s[j]
      BY <2>2 DEF Elements
    <3>2. j - 1 \in 1..(n - 1) /\ (j - 1) + 1 = j
      BY <1>1, <2>2, <3>1
    <3>3. t[j - 1] = x
      BY <1>2, <3>1, <3>2
    <3> QED
      BY <1>2, <3>2, <3>3 DEF Elements
  <2> QED
    BY <2>1, <2>2
<1>6. NoRepeats(t)
  <2> SUFFICES ASSUME NEW i \in 1..(n - 1), NEW j \in 1..(n - 1), t[i] = t[j]
               PROVE  i = j
    BY <1>2 DEF NoRepeats
  <2>1. s[i + 1] = s[j + 1] /\ i + 1 \in 1..n /\ j + 1 \in 1..n
    BY <1>1, <1>2
  <2>2. i + 1 = j + 1
    BY <2>1 DEF NoRepeats
  <2> QED
    BY <1>1, <2>2
<1> QED
  BY <1>2, <1>3, <1>4, <1>5, <1>6 DEF t

\* push_back of a new element.
LEMMA PushBackNoRepeats ==
    ASSUME NEW S, NEW s \in Seq(S), NEW x \in S, x \notin Elements(s), NoRepeats(s)
    PROVE  /\ Append(s, x) \in Seq(S)
           /\ Append(s, x) # <<>>
           /\ Elements(Append(s, x)) = Elements(s) \cup {x}
           /\ NoRepeats(Append(s, x))
<1> DEFINE n == Len(s)
           a == Append(s, x)
<1>1. n \in Nat
  BY LenProperties
<1>2. /\ a \in Seq(S) /\ a # <<>> /\ Len(a) = n + 1
      /\ \A i \in 1..n : a[i] = s[i]
      /\ a[n + 1] = x
  BY AppendProperties
<1> HIDE DEF a, n
<1>3. 1..(n + 1) = (1..n) \cup {n + 1}
  BY <1>1
<1>4. Elements(s) = {s[i] : i \in 1..n} /\ Elements(a) = {a[i] : i \in 1..(n + 1)}
  BY <1>2 DEF Elements, n
<1>5. Elements(a) = Elements(s) \cup {x}
  BY <1>2, <1>3, <1>4
<1>6. \A i, j \in 1..n : s[i] = s[j] => i = j
  BY DEF NoRepeats, n
<1>7. NoRepeats(a)
  BY <1>1, <1>2, <1>3, <1>4, <1>6 DEF NoRepeats
<1> QED
  BY <1>2, <1>5, <1>7 DEF a

-----------------------------------------------------------------------------
(* The indexes agree                                                       *)

\* The type invariant alone is not inductive: remove_object finds the object
\* of the sequence it is given only because the indexes agree.
IndexInv == TypeOK /\ IndexesAgree

\* The stored sequences are the elements of a list.
LEMMA FiniteStored == IndexInv => IsFiniteSet(Stored)
<1> SUFFICES ASSUME IndexInv PROVE IsFiniteSet(Stored)
  OBVIOUS
<1> DEFINE n == Len(insertion_order)
<1>1. /\ insertion_order \in Seq(SequenceNumbers)
      /\ Stored = {insertion_order[i] : i \in 1..n}
  BY DEF IndexInv, TypeOK, IndexesAgree, InsertionOrderAgrees, Elements
<1>2. n \in Nat /\ insertion_order \in [1..n -> Stored]
  BY <1>1, LenProperties
<1>3. insertion_order \in Surjection(1..n, Stored)
  BY <1>1, <1>2 DEF Surjection
<1>4. IsFiniteSet(1..n)
  BY <1>2, FS_Interval
<1> QED
  BY <1>3, <1>4, FS_Surjection

LEMMA InitIndexInv == Init => IndexInv
<1> SUFFICES ASSUME Init PROVE IndexInv
  OBVIOUS
<1> USE DEF Init, NewBuffer, EmptyMap
<1>1. TypeOK
  BY EmptySeq DEF TypeOK
<1>2. IndexesAgree
  BY EmptySeq DEF IndexesAgree, InsertionOrderAgrees, PriorityIndexAgrees,
                  Elements, NoRepeats
<1> QED
  BY <1>1, <1>2 DEF IndexInv

LEMMA ClearIndexInv == IndexInv /\ Clear => IndexInv'
<1> SUFFICES ASSUME IndexInv, Clear PROVE IndexInv'
  OBVIOUS
<1> USE DEF Clear, EmptyMap
<1>1. TypeOK'
  BY EmptySeq DEF TypeOK, IndexInv
<1>2. IndexesAgree'
  BY EmptySeq DEF IndexesAgree, InsertionOrderAgrees, PriorityIndexAgrees,
                  Elements, NoRepeats
<1> QED
  BY <1>1, <1>2 DEF IndexInv

LEMMA BeginAddIndexInv == IndexInv /\ (\E o \in Objects : BeginAdd(o)) => IndexInv'
<1> SUFFICES ASSUME IndexInv, NEW o \in Objects, BeginAdd(o) PROVE IndexInv'
  OBVIOUS
<1>1. UNCHANGED <<sequence_index, insertion_order, priority_index>>
  BY DEF BeginAdd, AddInitSegment, AddDuplicate, StartEviction, bufferVars
<1>2. TypeOK'
  BY <1>1, ObjectsAssumption
     DEF IndexInv, TypeOK, BeginAdd, AddInitSegment, AddDuplicate, StartEviction, bufferVars
<1>3. IndexesAgree'
  BY <1>1 DEF IndexInv, IndexesAgree, InsertionOrderAgrees, PriorityIndexAgrees
<1> QED
  BY <1>2, <1>3 DEF IndexInv

LEMMA InsertIndexInv == IndexInv /\ Insert => IndexInv'
<1> SUFFICES ASSUME IndexInv, Insert PROVE IndexInv'
  OBVIOUS
<1> DEFINE seq == adding.sequence
           p == adding.priority
<1>1. /\ adding \in Objects
      /\ seq \in SequenceNumbers /\ seq \notin Stored
      /\ p \in Priorities
      /\ adding.size \in Nat
  BY ObjectsAssumption DEF Insert, IndexInv, TypeOK, SequenceNumbers, Priorities
<1>2. /\ Stored' = Stored \cup {seq}
      /\ sequence_index'[seq] = adding
      /\ \A s \in Stored : sequence_index'[s] = sequence_index[s]
  BY <1>1 DEF Insert
<1>3. sequence_index' \in [Stored' -> Objects]
  BY <1>1, <1>2 DEF Insert, IndexInv, TypeOK
<1>4. /\ insertion_order' \in Seq(SequenceNumbers)
      /\ Elements(insertion_order') = Stored'
      /\ NoRepeats(insertion_order')
  <2>1. insertion_order' = Append(insertion_order, seq)
    BY DEF Insert
  <2>2. /\ insertion_order \in Seq(SequenceNumbers)
        /\ Elements(insertion_order) = Stored
        /\ NoRepeats(insertion_order)
    BY DEF IndexInv, TypeOK, IndexesAgree, InsertionOrderAgrees
  <2> QED
    BY <1>1, <1>2, <2>1, <2>2, PushBackNoRepeats
<1>5. Listed(p) \in Seq(SequenceNumbers)
  BY EmptySeq DEF Listed, IndexInv, TypeOK
<1>6. /\ DOMAIN priority_index' = DOMAIN priority_index \cup {p}
      /\ priority_index'[p] = Append(Listed(p), seq)
      /\ \A k \in DOMAIN priority_index \ {p} : priority_index'[k] = priority_index[k]
  BY DEF Insert
<1>7. Append(Listed(p), seq) \in Seq(SequenceNumbers)
  BY <1>1, <1>5, AppendProperties
<1>8. priority_index' \in [DOMAIN priority_index' -> Seq(SequenceNumbers)]
  BY <1>6, <1>7 DEF Insert, IndexInv, TypeOK
<1>9. Cardinality(Stored) \in Nat
  <2>1. IsFiniteSet(Stored)
    BY FiniteStored
  <2> QED
    BY <2>1, FS_CardinalityType
<1>10. TypeOK'
  BY <1>1, <1>2, <1>3, <1>4, <1>6, <1>8, <1>9 DEF Insert, IndexInv, TypeOK
<1>11. \A s \in Stored' : sequence_index'[s].sequence = s
  BY <1>2 DEF IndexInv, IndexesAgree
<1>12. ASSUME priority_eviction PROVE PriorityIndexAgrees'
  <2>1. PriorityIndexAgrees
    BY <1>12 DEF IndexInv, IndexesAgree
  <2>2. /\ NoRepeats(Listed(p))
        /\ \A s \in Elements(Listed(p)) : s \in Stored /\ sequence_index[s].priority = p
    <3>1. CASE p \in DOMAIN priority_index
      BY <2>1, <3>1 DEF Listed, PriorityIndexAgrees
    <3>2. CASE p \notin DOMAIN priority_index
      BY <3>2, EmptySeq DEF Listed, NoRepeats, Elements
    <3> QED
      BY <3>1, <3>2
  <2>3. seq \notin Elements(Listed(p))
    BY <1>1, <2>2
  <2>4. /\ priority_index'[p] # <<>>
        /\ Elements(priority_index'[p]) = Elements(Listed(p)) \cup {seq}
        /\ NoRepeats(priority_index'[p])
    BY <1>1, <1>5, <1>6, <2>2, <2>3, PushBackNoRepeats
  <2>5. ASSUME NEW k \in DOMAIN priority_index'
        PROVE  /\ priority_index'[k] # <<>>
               /\ NoRepeats(priority_index'[k])
               /\ \A s \in Elements(priority_index'[k]) :
                     s \in Stored' /\ sequence_index'[s].priority = k
    <3>1. CASE k = p
      BY <1>2, <2>2, <2>4, <3>1
    <3>2. CASE k # p
      BY <1>2, <1>6, <2>1, <3>2 DEF PriorityIndexAgrees
    <3> QED
      BY <3>1, <3>2
  <2>6. ASSUME NEW s \in Stored'
        PROVE  /\ sequence_index'[s].priority \in DOMAIN priority_index'
               /\ s \in Elements(priority_index'[sequence_index'[s].priority])
    <3>1. CASE s = seq
      BY <1>2, <1>6, <2>4, <3>1
    <3>2. CASE s # seq
      <4>1. /\ s \in Stored
            /\ sequence_index'[s] = sequence_index[s]
            /\ sequence_index[s].priority \in DOMAIN priority_index
            /\ s \in Elements(priority_index[sequence_index[s].priority])
        BY <1>2, <2>1, <3>2 DEF PriorityIndexAgrees
      <4> QED
        BY <1>6, <2>4, <4>1 DEF Listed
    <3> QED
      BY <3>1, <3>2
  <2> QED
    BY <2>5, <2>6 DEF PriorityIndexAgrees
<1> QED
  BY <1>4, <1>10, <1>11, <1>12 DEF IndexInv, IndexesAgree, InsertionOrderAgrees

\* What a step that removes the stored sequence `victim` does to the state.
LEMMA RemoveObjectProperties ==
    ASSUME TypeOK, NEW victim \in Stored, RemoveObject(victim)
    PROVE  /\ Stored' = Stored \ {victim}
           /\ \A s \in Stored' : sequence_index'[s] = sequence_index[s]
           /\ sequence_index' \in [Stored' -> Objects]
           /\ total_bytes' \in Nat
<1>1. sequence_index[victim].size \in Nat
  BY ObjectsAssumption DEF TypeOK
<1>2. /\ Stored' = Stored \ {victim}
      /\ \A s \in Stored' : sequence_index'[s] = sequence_index[s]
  BY DEF RemoveObject
<1>3. sequence_index' \in [Stored' -> Objects]
  BY <1>2 DEF RemoveObject, TypeOK
<1>4. total_bytes' \in Nat
  BY <1>1 DEF RemoveObject, TypeOK
<1> QED
  BY <1>2, <1>3, <1>4

LEMMA EvictOldestIndexInv ==
    ASSUME IndexInv, EvictOldest, UNCHANGED <<total_objects, init_segment, adding>>,
           priority_eviction => DOMAIN priority_index = {}
    PROVE  IndexInv'
<1> DEFINE victim == Head(insertion_order)
<1>1. /\ insertion_order \in Seq(SequenceNumbers)
      /\ insertion_order # <<>>
      /\ Elements(insertion_order) = Stored
      /\ NoRepeats(insertion_order)
  BY DEF EvictOldest, IndexInv, TypeOK, IndexesAgree, InsertionOrderAgrees
<1>2. /\ victim \in Stored
      /\ insertion_order' \in Seq(SequenceNumbers)
      /\ Elements(insertion_order') = Stored \ {victim}
      /\ NoRepeats(insertion_order')
  BY <1>1, PopFrontNoRepeats DEF EvictOldest
<1>3. ~priority_eviction
  BY <1>2 DEF IndexInv, IndexesAgree, PriorityIndexAgrees
<1>4. /\ Stored' = Stored \ {victim}
      /\ \A s \in Stored' : sequence_index'[s] = sequence_index[s]
      /\ sequence_index' \in [Stored' -> Objects]
      /\ total_bytes' \in Nat
  BY <1>2, RemoveObjectProperties DEF EvictOldest, IndexInv
<1>5. TypeOK'
  BY <1>2, <1>4 DEF EvictOldest, IndexInv, TypeOK
<1> QED
  BY <1>2, <1>3, <1>4, <1>5 DEF IndexInv, IndexesAgree, InsertionOrderAgrees

LEMMA EvictLowestPriorityIndexInv ==
    ASSUME IndexInv, EvictLowestPriority, UNCHANGED <<total_objects, init_segment, adding>>,
           priority_eviction, DOMAIN priority_index # {}
    PROVE  IndexInv'
<1> DEFINE p == Lowest(DOMAIN priority_index)
           seqs == priority_index[p]
           victim == seqs[Len(seqs)]
           rest == SubSeq(seqs, 1, Len(seqs) - 1)
<1>1. p \in DOMAIN priority_index
  <2>1. Priorities \subseteq Nat
    BY ObjectsAssumption DEF Priorities
  <2>2. DOMAIN priority_index \in SUBSET Nat
    BY <2>1 DEF IndexInv, TypeOK
  <2> QED
    BY <2>2, LowestProperties
<1>2. PriorityIndexAgrees
  BY DEF IndexInv, IndexesAgree
<1> HIDE DEF p
<1>3. seqs \in Seq(SequenceNumbers) /\ seqs # <<>> /\ NoRepeats(seqs)
  BY <1>1, <1>2 DEF IndexInv, TypeOK, PriorityIndexAgrees
<1>4. victim \in Elements(seqs)
  <2>1. Len(seqs) \in Nat /\ Len(seqs) # 0
    BY <1>3, EmptySeq, LenProperties
  <2> QED
    BY <2>1 DEF Elements
<1>5. victim \in Stored /\ sequence_index[victim].priority = p
  BY <1>1, <1>2, <1>4 DEF PriorityIndexAgrees
<1>6. /\ rest \in Seq(SequenceNumbers)
      /\ Elements(rest) = Elements(seqs) \ {victim}
      /\ NoRepeats(rest)
  BY <1>3, PopLastNoRepeats
<1>7. /\ insertion_order' = Retain(insertion_order, victim)
      /\ RemoveObject(victim)
      /\ DOMAIN priority_index' = IF rest = <<>> THEN DOMAIN priority_index \ {p}
                                                 ELSE DOMAIN priority_index
      /\ \A k \in DOMAIN priority_index' :
            priority_index'[k] = IF k = p THEN rest ELSE priority_index[k]
  BY DEF EvictLowestPriority, p
<1> HIDE DEF rest, victim, seqs
<1>8. /\ Stored' = Stored \ {victim}
      /\ \A s \in Stored' : sequence_index'[s] = sequence_index[s]
      /\ sequence_index' \in [Stored' -> Objects]
      /\ total_bytes' \in Nat
  BY <1>5, <1>7, RemoveObjectProperties DEF IndexInv
<1>9. /\ insertion_order' \in Seq(SequenceNumbers)
      /\ Elements(insertion_order') = Stored'
      /\ NoRepeats(insertion_order')
  BY <1>7, <1>8, RetainProperties
     DEF IndexInv, TypeOK, IndexesAgree, InsertionOrderAgrees
<1>10. TypeOK'
  <2>1. DOMAIN priority_index' \subseteq Priorities
    BY <1>7 DEF IndexInv, TypeOK
  <2>2. priority_index' \in [DOMAIN priority_index' -> Seq(SequenceNumbers)]
    <3>1. \A k \in DOMAIN priority_index' : priority_index'[k] \in Seq(SequenceNumbers)
      BY <1>6, <1>7 DEF IndexInv, TypeOK
    <3>2. priority_index' = [k \in DOMAIN priority_index' |-> priority_index'[k]]
      BY DEF EvictLowestPriority
    <3> QED
      BY <3>1, <3>2
  <2> QED
    BY <1>8, <1>9, <2>1, <2>2 DEF IndexInv, TypeOK
<1>11. PriorityIndexAgrees'
  <2>1. ASSUME NEW k \in DOMAIN priority_index'
        PROVE  /\ priority_index'[k] # <<>>
               /\ NoRepeats(priority_index'[k])
               /\ \A s \in Elements(priority_index'[k]) :
                     s \in Stored' /\ sequence_index'[s].priority = k
    <3>1. CASE k = p
      <4>1. priority_index'[k] = rest /\ rest # <<>>
        BY <1>7, <3>1
      <4>2. \A s \in Elements(rest) : s \in Stored /\ s # victim /\ sequence_index[s].priority = p
        BY <1>1, <1>2, <1>6 DEF PriorityIndexAgrees, seqs
      <4> QED
        BY <1>6, <1>8, <3>1, <4>1, <4>2
    <3>2. CASE k # p
      <4>1. priority_index'[k] = priority_index[k] /\ k \in DOMAIN priority_index
        BY <1>7, <3>2
      <4>2. /\ priority_index[k] # <<>>
            /\ NoRepeats(priority_index[k])
            /\ \A s \in Elements(priority_index[k]) :
                  s \in Stored /\ sequence_index[s].priority = k
        BY <1>2, <4>1 DEF PriorityIndexAgrees
      <4> QED
        BY <1>5, <1>8, <3>2, <4>1, <4>2
    <3> QED
      BY <3>1, <3>2
  <2>2. ASSUME NEW s \in Stored'
        PROVE  /\ sequence_index'[s].priority \in DOMAIN priority_index'
               /\ s \in Elements(priority_index'[sequence_index'[s].priority])
    <3> DEFINE k == sequence_index[s].priority
    <3>1. /\ s \in Stored /\ s # victim /\ sequence_index'[s].priority = k
          /\ k \in DOMAIN priority_index
          /\ s \in Elements(priority_index[k])
      BY <1>2, <1>8 DEF PriorityIndexAgrees
    <3>2. CASE k = p
      <4>1. s \in Elements(rest)
        BY <1>6, <3>1, <3>2 DEF seqs
      <4>2. rest # <<>>
        BY <4>1, EmptySeq DEF Elements
      <4> QED
        BY <1>7, <3>1, <3>2, <4>1, <4>2
    <3>3. CASE k # p
      BY <1>7, <3>1, <3>3
    <3> QED
      BY <3>2, <3>3
  <2> QED
    BY <2>1, <2>2 DEF PriorityIndexAgrees
<1>12. \A s \in Stored' : sequence_index'[s].sequence = s
  BY <1>8 DEF IndexInv, IndexesAgree
<1> QED
  BY <1>9, <1>10, <1>11, <1>12 DEF IndexInv, IndexesAgree, InsertionOrderAgrees

LEMMA NextIndexInv == IndexInv /\ [Next]_bufferVars => IndexInv'
<1> SUFFICES ASSUME IndexInv, [Next]_bufferVars PROVE IndexInv'
  OBVIOUS
<1>1. CASE \E o \in Objects : BeginAdd(o)
  BY <1>1, BeginAddIndexInv
<1>2. CASE Evict
  <2>1. CASE priority_eviction /\ DOMAIN priority_index # {}
    BY <1>2, <2>1, EvictLowestPriorityIndexInv DEF Evict
  <2>2. CASE ~(priority_eviction /\ DOMAIN priority_index # {})
    BY <1>2, <2>2, EvictOldestIndexInv, ConfigAssumption DEF Evict
  <2> QED
    BY <2>1, <2>2
<1>3. CASE Insert
  BY <1>3, InsertIndexInv
<1>4. CASE Clear
  BY <1>4, ClearIndexInv
<1>5. CASE UNCHANGED bufferVars
  BY <1>5 DEF bufferVars, IndexInv, TypeOK, IndexesAgree, InsertionOrderAgrees,
              PriorityIndexAgrees
<1> QED
  BY <1>1, <1>2, <1>3, <1>4, <1>5 DEF Next

\* The buffer's fields keep their types.
THEOREM TypeCorrect == Spec => []TypeOK
<1>1. IndexInv => TypeOK
  BY DEF IndexInv
<1> QED
  BY <1>1, InitIndexInv, NextIndexInv, PTL DEF Spec

\* After every iteration of the eviction loops the three indexes list the same
\* objects, so evict_lowest_priority always finds a victim that is stored.
THEOREM IndexesAlwaysAgree == Spec => []IndexesAgree
<1>1. IndexInv => IndexesAgree
  BY DEF IndexInv
<1> QED
  BY <1>1, InitIndexInv, NextIndexInv, PTL DEF Spec

-----------------------------------------------------------------------------
(* Capacity                                                                *)

\* total_bytes is the sum of the stored sizes.  A recursive sum would need an
\* induction the provers cannot do, so the sum is given by its partial sums
\* along insertion_order: acc[i] is the size of the i oldest objects.
PartialSums(acc) ==
    /\ acc \in [0..Len(insertion_order) -> Nat]
    /\ acc[0] = 0
    /\ \A i \in 1..Len(insertion_order) :
          acc[i] = acc[i - 1] + sequence_index[insertion_order[i]].size
    /\ \A i, j \in 0..Len(insertion_order) : i <= j => acc[i] <= acc[j]
    /\ acc[Len(insertion_order)] = total_bytes

BytesAccounted == \E acc : PartialSums(acc)

\* Why the limits hold: an eviction frees exactly what the object occupied, so
\* the bytes are back at 0 when the last object goes.
CapacityInv == IndexInv /\ BytesAccounted /\ CapacityRespected

\* Removing one object keeps the account balanced, wherever it stood in
\* insertion_order.
LEMMA RemovalAccounted ==
    ASSUME IndexInv, BytesAccounted,
           NEW at \in 1..Len(insertion_order),
           RemoveObject(insertion_order[at]),
           insertion_order' \in Seq(SequenceNumbers),
           Len(insertion_order') = Len(insertion_order) - 1,
           \A i \in 1..(Len(insertion_order) - 1) : insertion_order'[i] =
              IF i < at THEN insertion_order[i] ELSE insertion_order[i + 1]
    PROVE  BytesAccounted' /\ total_bytes' <= total_bytes
<1> DEFINE n == Len(insertion_order)
           victim == insertion_order[at]
           freed == sequence_index[victim].size
<1>1. n \in Nat /\ insertion_order \in Seq(SequenceNumbers)
  BY LenProperties DEF IndexInv, TypeOK
<1>2. \A i \in 1..n : insertion_order[i] \in Stored
  BY DEF IndexInv, IndexesAgree, InsertionOrderAgrees, Elements
<1>3. \A s \in Stored : sequence_index[s].size \in Nat
  BY ObjectsAssumption DEF IndexInv, TypeOK
<1>4. PICK acc : PartialSums(acc)
  BY DEF BytesAccounted
<1> HIDE DEF n, victim, freed
<1>5. /\ acc \in [0..n -> Nat] /\ acc[0] = 0 /\ acc[n] = total_bytes
      /\ \A i \in 1..n : acc[i] = acc[i - 1] + sequence_index[insertion_order[i]].size
      /\ \A i, j \in 0..n : i <= j => acc[i] <= acc[j]
  BY <1>4 DEF PartialSums, n
<1>6. at \in 1..n /\ victim \in Stored /\ freed \in Nat /\ acc[at] = acc[at - 1] + freed
  BY <1>2, <1>3, <1>5 DEF n, victim, freed
<1>7. freed <= total_bytes /\ total_bytes' = total_bytes - freed
  <2>1. /\ at - 1 \in 0..n /\ acc[at - 1] \in Nat
        /\ acc[at] \in Nat /\ acc[n] \in Nat
        /\ acc[at] <= acc[n]
    BY <1>1, <1>5, <1>6
  <2>2. freed <= total_bytes
    BY <1>5, <1>6, <2>1
  <2> QED
    BY <1>6, <2>2 DEF RemoveObject, victim, freed
<1> DEFINE acc2 == [i \in 0..(n - 1) |-> IF i < at THEN acc[i] ELSE acc[i + 1] - freed]
<1>8. \A i \in 0..(n - 1) : /\ acc[i] \in Nat /\ acc[i + 1] \in Nat
                            /\ i >= at => acc[i + 1] >= acc[at]
  BY <1>1, <1>5, <1>6
<1>9. acc[at] >= freed /\ acc[at - 1] \in Nat
  BY <1>1, <1>5, <1>6
<1>10. acc2 \in [0..(n - 1) -> Nat]
  <2>1. \A i \in 0..(n - 1) : acc2[i] \in Nat
    BY <1>5, <1>6, <1>8, <1>9
  <2> QED
    BY <2>1
<1>11. acc2[0] = 0
  BY <1>1, <1>5, <1>6
<1>12. acc2[n - 1] = total_bytes'
  <2>1. n - 1 \in 0..(n - 1) /\ n - 1 + 1 = n
    BY <1>1, <1>6
  <2>2. CASE n - 1 < at
    <3>1. at = n
      BY <1>1, <1>6, <2>2
    <3> QED
      BY <1>5, <1>6, <1>7, <1>9, <2>1, <2>2, <3>1
  <2>3. CASE ~(n - 1 < at)
    BY <1>5, <1>7, <2>1, <2>3
  <2> QED
    BY <2>2, <2>3
<1>13. ASSUME NEW i \in 1..(n - 1)
       PROVE  acc2[i] = acc2[i - 1] + sequence_index'[insertion_order'[i]].size
  <2>1. i \in 1..n /\ i + 1 \in 1..n /\ i - 1 \in 0..(n - 1) /\ i \in 0..(n - 1)
    BY <1>1
  <2>2. \A j \in 1..n : j # at => insertion_order[j] # victim
    BY <1>6 DEF IndexInv, IndexesAgree, InsertionOrderAgrees, NoRepeats, victim, n
  <2>3. \A s \in Stored : s # victim => sequence_index'[s] = sequence_index[s]
    BY DEF RemoveObject, victim
  <2>4. CASE i < at
    <3>1. insertion_order'[i] = insertion_order[i] /\ insertion_order[i] # victim
      BY <1>6, <2>1, <2>2, <2>4 DEF n
    <3>2. sequence_index'[insertion_order'[i]].size = sequence_index[insertion_order[i]].size
      BY <1>2, <2>1, <2>3, <3>1 DEF n
    <3>3. acc2[i] = acc[i] /\ acc2[i - 1] = acc[i - 1]
      BY <1>6, <2>1, <2>4
    <3> QED
      BY <1>5, <2>1, <3>2, <3>3
  <2>5. CASE ~(i < at)
    <3>1. i + 1 # at
      BY <1>6, <2>1, <2>5
    <3>2. insertion_order'[i] = insertion_order[i + 1] /\ insertion_order[i + 1] # victim
      BY <2>1, <2>2, <2>5, <3>1 DEF n
    <3>3. sequence_index'[insertion_order'[i]].size = sequence_index[insertion_order[i + 1]].size
      BY <1>2, <2>1, <2>3, <3>2 DEF n
    <3>4. acc[i + 1] = acc[i] + sequence_index[insertion_order[i + 1]].size
      <4>1. (i + 1) - 1 = i
        BY <2>1
      <4> QED
        BY <1>5, <2>1, <4>1
    <3>5. acc2[i - 1] = acc[i] - freed
      <4>1. CASE i = at
        BY <1>6, <1>9, <2>1, <4>1
      <4>2. CASE i # at
        <5>1. ~(i - 1 < at)
          BY <1>6, <2>1, <2>5, <4>2
        <5> QED
          BY <1>1, <2>1, <5>1
      <4> QED
        BY <4>1, <4>2
    <3>6. acc2[i] = acc[i + 1] - freed
      BY <2>1, <2>5
    <3>7. sequence_index[insertion_order[i + 1]].size \in Nat
      BY <1>2, <1>3, <2>1 DEF n
    <3>8. acc[i] \in Nat /\ acc[i + 1] \in Nat
      BY <1>8, <2>1
    <3> QED
      BY <1>6, <3>3, <3>4, <3>5, <3>6, <3>7, <3>8
  <2> QED
    BY <2>4, <2>5
<1>14. ASSUME NEW i \in 0..(n - 1), NEW j \in 0..(n - 1), i <= j
       PROVE  acc2[i] <= acc2[j]
  <2>1. i \in 0..n /\ j \in 0..n /\ i + 1 \in 0..n /\ j + 1 \in 0..n /\ at - 1 \in 0..n /\ at \in 0..n
    BY <1>1, <1>6
  <2>2. /\ acc[i] \in Nat /\ acc[j] \in Nat /\ acc[i + 1] \in Nat /\ acc[j + 1] \in Nat
        /\ acc[i] <= acc[j] /\ acc[i + 1] <= acc[j + 1]
    <3>1. i + 1 <= j + 1
      BY <1>14
    <3> QED
      BY <1>5, <1>14, <2>1, <3>1
  <2>3. CASE i < at /\ ~(j < at)
    <3>1. acc[i] <= acc[at - 1] /\ acc[at] <= acc[j + 1]
      BY <1>5, <1>6, <2>1, <2>3
    <3>2. /\ acc[i] \in Nat /\ acc[j + 1] \in Nat /\ freed \in Nat
          /\ acc[at] \in Nat /\ acc[at - 1] \in Nat
      BY <1>5, <1>6, <2>1, <2>2
    <3>3. acc[at] = acc[at - 1] + freed
      BY <1>6
    <3>4. acc[i] <= acc[j + 1] - freed
      BY <3>1, <3>2, <3>3
    <3> QED
      BY <2>3, <3>4
  <2>4. CASE i < at /\ j < at
    BY <2>2, <2>4
  <2>5. CASE ~(i < at) /\ ~(j < at)
    BY <1>6, <2>2, <2>5
  <2>6. CASE ~(i < at) /\ j < at
    BY <1>6, <1>14, <2>1, <2>6
  <2> QED
    BY <2>3, <2>4, <2>5, <2>6
<1> HIDE DEF acc2
<1>15. PICK b : b = acc2
  OBVIOUS
<1>16. PartialSums(b)'
  <2>1. Len(insertion_order') = n - 1
    BY DEF n
  <2> QED
    BY <1>10, <1>11, <1>12, <1>13, <1>14, <1>15, <2>1 DEF PartialSums
<1> QED
  BY <1>5, <1>6, <1>7, <1>16, <1>1 DEF BytesAccounted, IndexInv, TypeOK

\* Where the elements of a list stand once retain has dropped x.
LEMMA RetainPositions ==
    ASSUME NEW S, NEW s \in Seq(S), NEW x \in Elements(s)
    PROVE  \E at \in 1..Len(s) :
             /\ s[at] = x
             /\ Len(Retain(s, x)) = Len(s) - 1
             /\ \A i \in 1..(Len(s) - 1) :
                   Retain(s, x)[i] = IF i < at THEN s[i] ELSE s[i + 1]
<1> DEFINE n == Len(s)
           at == CHOOSE i \in 1..n : s[i] = x
           r == [i \in 1..(n - 1) |-> IF i < at THEN s[i] ELSE s[i + 1]]
<1>1. at \in 1..n /\ s[at] = x
  BY DEF Elements
<1>2. Retain(s, x) = r
  BY DEF Retain
<1> HIDE DEF at
<1>3. n \in Nat /\ n - 1 \in Nat
  BY <1>1, LenProperties
<1>4. \A i \in 1..(n - 1) : r[i] \in S
  BY <1>1, <1>3, ElementOfSeq
<1>5. Len(r) = n - 1
  <2> HIDE DEF r
  <2>1. r \in [1..(n - 1) -> S]
    BY <1>3, <1>4 DEF r
  <2> QED
    BY <1>3, <2>1, SeqDef, LenProperties
<1> QED
  BY <1>1, <1>2, <1>5

\* What an eviction does to insertion_order and to the objects.
RemovedAt(at) ==
    /\ RemoveObject(insertion_order[at])
    /\ Len(insertion_order') = Len(insertion_order) - 1
    /\ \A i \in 1..(Len(insertion_order) - 1) : insertion_order'[i] =
          IF i < at THEN insertion_order[i] ELSE insertion_order[i + 1]

\* pop_front takes the first entry of insertion_order.
LEMMA EvictOldestAt ==
    ASSUME IndexInv, EvictOldest
    PROVE  1 \in 1..Len(insertion_order) /\ RemovedAt(1)
<1>1. insertion_order \in Seq(SequenceNumbers) /\ insertion_order # <<>>
  BY DEF IndexInv, TypeOK, EvictOldest
<1>2. Len(insertion_order) \in Nat /\ Len(insertion_order) # 0
  BY <1>1, EmptySeq, LenProperties
<1>3. /\ Len(Tail(insertion_order)) = Len(insertion_order) - 1
      /\ \A i \in 1..Len(Tail(insertion_order)) :
            Tail(insertion_order)[i] = insertion_order[i + 1]
  BY <1>1, HeadTailProperties
<1>4. 1 \in 1..Len(insertion_order) /\ Head(insertion_order) = insertion_order[1]
  BY <1>2
<1>5. \A i \in 1..(Len(insertion_order) - 1) : ~(i < 1)
  BY <1>2
<1> QED
  BY <1>3, <1>4, <1>5 DEF EvictOldest, RemovedAt

\* evict_lowest_priority takes the entry of insertion_order that is the last of
\* the lowest priority's list.
LEMMA EvictLowestPriorityAt ==
    ASSUME IndexInv, EvictLowestPriority, priority_eviction, DOMAIN priority_index # {}
    PROVE  \E at \in 1..Len(insertion_order), p \in DOMAIN priority_index :
             /\ RemovedAt(at)
             /\ \A q \in DOMAIN priority_index : p <= q
             /\ priority_index[p] # <<>>
             /\ insertion_order[at] = priority_index[p][Len(priority_index[p])]
             /\ \A k \in DOMAIN priority_index' :
                  /\ k \in DOMAIN priority_index
                  /\ priority_index'[k] =
                        IF k = p THEN SubSeq(priority_index[p], 1, Len(priority_index[p]) - 1)
                                 ELSE priority_index[k]
<1> DEFINE p == Lowest(DOMAIN priority_index)
           seqs == priority_index[p]
           victim == seqs[Len(seqs)]
<1>1. p \in DOMAIN priority_index /\ \A q \in DOMAIN priority_index : p <= q
  <2>1. Priorities \subseteq Nat
    BY ObjectsAssumption DEF Priorities
  <2>2. DOMAIN priority_index \in SUBSET Nat
    BY <2>1 DEF IndexInv, TypeOK
  <2> QED
    BY <2>2, LowestProperties
<1>2. /\ insertion_order' = Retain(insertion_order, victim) /\ RemoveObject(victim)
      /\ \A k \in DOMAIN priority_index' :
            /\ k \in DOMAIN priority_index \cup {p}
            /\ priority_index'[k] = IF k = p THEN SubSeq(seqs, 1, Len(seqs) - 1)
                                             ELSE priority_index[k]
  BY DEF EvictLowestPriority
<1> HIDE DEF p
<1>3. seqs # <<>> /\ Len(seqs) \in Nat /\ Len(seqs) # 0
  BY <1>1, EmptySeq, LenProperties
     DEF IndexInv, TypeOK, IndexesAgree, PriorityIndexAgrees
<1>4. victim \in Elements(seqs)
  BY <1>3 DEF Elements
<1>5. victim \in Elements(insertion_order) /\ insertion_order \in Seq(SequenceNumbers)
  BY <1>1, <1>4
     DEF IndexInv, TypeOK, IndexesAgree, InsertionOrderAgrees, PriorityIndexAgrees
<1>6. PICK v : v = victim
  OBVIOUS
<1>7. PICK at \in 1..Len(insertion_order) :
        /\ insertion_order[at] = v
        /\ Len(Retain(insertion_order, v)) = Len(insertion_order) - 1
        /\ \A i \in 1..(Len(insertion_order) - 1) : Retain(insertion_order, v)[i] =
              IF i < at THEN insertion_order[i] ELSE insertion_order[i + 1]
  BY <1>5, <1>6, RetainPositions
<1>8. RemovedAt(at)
  BY <1>2, <1>6, <1>7 DEF RemovedAt
<1> QED
  BY <1>1, <1>2, <1>3, <1>6, <1>7, <1>8

\* Whatever the policy, an eviction removes one entry of insertion_order.
LEMMA EvictRemoves ==
    IndexInv /\ Evict => \E at \in 1..Len(insertion_order) : RemovedAt(at)
<1> SUFFICES ASSUME IndexInv, Evict PROVE \E at \in 1..Len(insertion_order) : RemovedAt(at)
  OBVIOUS
<1>1. CASE priority_eviction /\ DOMAIN priority_index # {}
  BY <1>1, EvictLowestPriorityAt DEF Evict
<1>2. CASE ~(priority_eviction /\ DOMAIN priority_index # {})
  BY <1>2, EvictOldestAt DEF Evict
<1> QED
  BY <1>1, <1>2

LEMMA EvictCapacityInv == CapacityInv /\ Evict => CapacityInv'
<1> SUFFICES ASSUME CapacityInv, Evict PROVE CapacityInv'
  OBVIOUS
<1>1. IndexInv /\ BytesAccounted /\ CapacityRespected
  BY DEF CapacityInv
<1>2. IndexInv'
  BY <1>1, NextIndexInv DEF Next
<1>3. PICK at \in 1..Len(insertion_order) :
        /\ RemoveObject(insertion_order[at])
        /\ Len(insertion_order') = Len(insertion_order) - 1
        /\ \A i \in 1..(Len(insertion_order) - 1) : insertion_order'[i] =
              IF i < at THEN insertion_order[i] ELSE insertion_order[i + 1]
  BY <1>1, EvictRemoves DEF RemovedAt
<1>4. insertion_order' \in Seq(SequenceNumbers)
  BY <1>2 DEF IndexInv, TypeOK
<1>5. BytesAccounted' /\ total_bytes' <= total_bytes
  BY <1>1, <1>3, <1>4, RemovalAccounted
<1>6. /\ Cardinality(Stored) \in Nat
      /\ Cardinality(Stored') = Cardinality(Stored) - 1
      /\ IsFiniteSet(Stored')
  <2>1. IsFiniteSet(Stored)
    BY <1>1, FiniteStored
  <2>2. insertion_order[at] \in Stored /\ Stored' = Stored \ {insertion_order[at]}
    BY <1>1, <1>3
       DEF IndexInv, IndexesAgree, InsertionOrderAgrees, Elements, RemoveObject
  <2> QED
    BY <2>1, <2>2, FS_RemoveElement, FS_CardinalityType
<1>7. Stored' = {} => total_bytes' = 0
  <2> SUFFICES ASSUME Stored' = {} PROVE total_bytes' = 0
    OBVIOUS
  <2>1. Len(insertion_order') = 0
    <3>1. Elements(insertion_order') = {} /\ Len(insertion_order') \in Nat
      BY <1>2, <1>4, LenProperties DEF IndexInv, IndexesAgree, InsertionOrderAgrees
    <3> DEFINE n == Len(insertion_order')
    <3>2. 1..n = {}
      BY <3>1 DEF Elements
    <3>3. n \in Nat
      BY <3>1
    <3> HIDE DEF n
    <3>4. n = 0
      BY <3>2, <3>3
    <3> QED
      BY <3>4 DEF n
  <2> QED
    BY <1>5, <2>1 DEF BytesAccounted, PartialSums
<1>8. CapacityRespected'
  <2>1. total_bytes \in Nat /\ total_bytes' \in Nat /\ max_bytes \in Nat /\ max_objects \in Nat
    BY <1>1, <1>2, ConfigAssumption DEF IndexInv, TypeOK
  <2>2. Cardinality(Stored') <= max_objects
    BY <1>1, <1>6, <2>1 DEF CapacityRespected
  <2>3. ASSUME total_bytes' > max_bytes PROVE FALSE
    <3>1. Cardinality(Stored) = 1
      BY <1>1, <1>5, <2>1, <2>3 DEF CapacityRespected
    <3>2. Cardinality(Stored') = 0
      BY <1>6, <3>1
    <3>3. IsFiniteSet(Stored')
      BY <1>6
    <3>4. Stored' = {}
      BY <3>2, <3>3, FS_EmptySet
    <3> QED
      BY <1>7, <2>1, <2>3, <3>4
  <2> QED
    BY <2>2, <2>3 DEF CapacityRespected
<1> QED
  BY <1>2, <1>5, <1>8 DEF CapacityInv

LEMMA InsertCapacityInv == CapacityInv /\ Insert => CapacityInv'
<1> SUFFICES ASSUME CapacityInv, Insert PROVE CapacityInv'
  OBVIOUS
<1>1. IndexInv /\ BytesAccounted /\ CapacityRespected
  BY DEF CapacityInv
<1>2. IndexInv'
  BY <1>1, InsertIndexInv
<1> DEFINE seq == adding.sequence
           n == Len(insertion_order)
<1>3. /\ adding \in Objects /\ adding.size \in Nat
      /\ seq \in SequenceNumbers /\ seq \notin Stored
      /\ total_bytes \in Nat
      /\ insertion_order \in Seq(SequenceNumbers) /\ n \in Nat
  BY <1>1, ObjectsAssumption, LenProperties DEF Insert, IndexInv, TypeOK, SequenceNumbers
<1>4. /\ Stored' = Stored \cup {seq}
      /\ sequence_index'[seq] = adding
      /\ \A s \in Stored : sequence_index'[s] = sequence_index[s]
      /\ total_bytes' = total_bytes + adding.size
  BY <1>3 DEF Insert
<1>5. /\ Len(insertion_order') = n + 1
      /\ \A i \in 1..n : insertion_order'[i] = insertion_order[i]
      /\ insertion_order'[n + 1] = seq
  BY <1>3, AppendProperties DEF Insert
<1>6. BytesAccounted'
  <2>1. PICK acc : PartialSums(acc)
    BY <1>1 DEF BytesAccounted
  <2>2. \A i \in 1..n : insertion_order[i] \in Stored
    BY <1>1 DEF IndexInv, IndexesAgree, InsertionOrderAgrees, Elements
  <2> HIDE DEF n, seq
  <2>3. /\ acc \in [0..n -> Nat] /\ acc[0] = 0 /\ acc[n] = total_bytes
        /\ \A i \in 1..n : acc[i] = acc[i - 1] + sequence_index[insertion_order[i]].size
        /\ \A i, j \in 0..n : i <= j => acc[i] <= acc[j]
    BY <2>1 DEF PartialSums, n
  <2> DEFINE acc2 == [i \in 0..(n + 1) |-> IF i = n + 1 THEN total_bytes' ELSE acc[i]]
  <2>4. \A i \in 0..n : acc2[i] = acc[i] /\ acc[i] \in Nat
    BY <1>3, <2>3
  <2>5. acc2[n + 1] = total_bytes' /\ total_bytes' \in Nat
    BY <1>3, <1>4
  <2>6. 0..(n + 1) = (0..n) \cup {n + 1} /\ n + 1 \notin 0..n
    BY <1>3
  <2>7. acc2 \in [0..(n + 1) -> Nat]
    BY <2>4, <2>5, <2>6
  <2>8. acc2[0] = 0
    BY <1>3, <2>3, <2>4
  <2> HIDE DEF acc2
  <2>9. ASSUME NEW i \in 1..(n + 1)
        PROVE  acc2[i] = acc2[i - 1] + sequence_index'[insertion_order'[i]].size
    <3>1. CASE i \in 1..n
      <4>1. i \in 0..n /\ i - 1 \in 0..n
        BY <1>3, <3>1
      <4>2. insertion_order'[i] = insertion_order[i] /\ insertion_order[i] \in Stored
        BY <1>5, <2>2, <3>1
      <4> QED
        BY <1>4, <2>3, <2>4, <3>1, <4>1, <4>2
    <3>2. CASE i = n + 1
      <4>1. n \in 0..n /\ i - 1 = n
        BY <1>3, <3>2
      <4> QED
        BY <1>4, <1>5, <2>3, <2>4, <2>5, <3>2, <4>1
    <3> QED
      BY <1>3, <3>1, <3>2
  <2>10. ASSUME NEW i \in 0..(n + 1), NEW j \in 0..(n + 1), i <= j
         PROVE  acc2[i] <= acc2[j]
    <3>1. CASE j \in 0..n
      <4>1. i \in 0..n
        BY <1>3, <2>10, <3>1
      <4> QED
        BY <2>3, <2>4, <2>10, <3>1, <4>1
    <3>2. CASE j = n + 1 /\ i \in 0..n
      <4>1. acc[i] <= acc[n]
        BY <1>3, <2>3, <3>2
      <4> QED
        BY <1>3, <1>4, <2>3, <2>4, <2>5, <3>2, <4>1
    <3>3. CASE j = n + 1 /\ i = n + 1
      BY <2>5, <3>3
    <3> QED
      BY <2>6, <3>1, <3>2, <3>3
  <2>11. PICK b : b = acc2
    OBVIOUS
  <2>12. PartialSums(b)'
    <3>1. Len(insertion_order') = n + 1
      BY <1>5
    <3> QED
      BY <2>5, <2>7, <2>8, <2>9, <2>10, <2>11, <3>1 DEF PartialSums
  <2> QED
    BY <2>12 DEF BytesAccounted
<1>7. CapacityRespected'
  <2>1. IsFiniteSet(Stored)
    BY <1>1, FiniteStored
  <2>2. Cardinality(Stored) \in Nat /\ Cardinality(Stored') = Cardinality(Stored) + 1
    BY <1>3, <1>4, <2>1, FS_AddElement, FS_CardinalityType
  <2>3. Stored = {} => Cardinality(Stored) = 0
    BY FS_EmptySet
  <2>4. HasRoom(adding)
    BY DEF Insert
  <2> QED
    BY <1>3, <1>4, <2>2, <2>3, <2>4, ConfigAssumption DEF CapacityRespected, HasRoom
<1> QED
  BY <1>2, <1>6, <1>7 DEF CapacityInv

LEMMA InitCapacityInv == Init => CapacityInv
<1> SUFFICES ASSUME Init PROVE CapacityInv
  OBVIOUS
<1>1. IndexInv
  BY InitIndexInv
<1> USE DEF Init, NewBuffer, EmptyMap
<1>2. BytesAccounted
  <2> DEFINE acc == [i \in 0..0 |-> 0]
  <2>1. Len(insertion_order) = 0
    BY EmptySeq
  <2>2. PartialSums(acc)
    BY <2>1 DEF PartialSums
  <2> QED
    BY <2>2 DEF BytesAccounted
<1>3. CapacityRespected
  BY FS_EmptySet, ConfigAssumption DEF CapacityRespected
<1> QED
  BY <1>1, <1>2, <1>3 DEF CapacityInv

LEMMA ClearCapacityInv == CapacityInv /\ Clear => CapacityInv'
<1> SUFFICES ASSUME CapacityInv, Clear PROVE CapacityInv'
  OBVIOUS
<1>1. IndexInv'
  BY ClearIndexInv DEF CapacityInv
<1> USE DEF Clear, EmptyMap
<1>2. BytesAccounted'
  <2>1. PICK acc : acc = [i \in 0..0 |-> 0]
    OBVIOUS
  <2>2. Len(insertion_order') = 0 /\ total_bytes' = 0
    BY EmptySeq
  <2>3. PartialSums(acc)'
    BY <2>1, <2>2 DEF PartialSums
  <2> QED
    BY <2>3 DEF BytesAccounted
<1>3. CapacityRespected'
  BY FS_EmptySet, ConfigAssumption DEF CapacityRespected
<1> QED
  BY <1>1, <1>2, <1>3 DEF CapacityInv

LEMMA NextCapacityInv == CapacityInv /\ [Next]_bufferVars => CapacityInv'
<1> SUFFICES ASSUME CapacityInv, [Next]_bufferVars PROVE CapacityInv'
  OBVIOUS
<1>1. CASE Evict
  BY <1>1, EvictCapacityInv
<1>2. CASE Insert
  BY <1>2, InsertCapacityInv
<1>3. CASE Clear
  BY <1>3, ClearCapacityInv
<1>4. CASE (\E o \in Objects : BeginAdd(o)) \/ UNCHANGED bufferVars
  <2>1. UNCHANGED <<sequence_index, insertion_order, total_bytes>>
    BY <1>4 DEF BeginAdd, AddInitSegment, AddDuplicate, StartEviction, bufferVars
  <2>2. BytesAccounted'
    BY <2>1 DEF CapacityInv, BytesAccounted, PartialSums
  <2>3. CapacityRespected'
    BY <2>1 DEF CapacityInv, CapacityRespected
  <2>4. IndexInv'
    BY NextIndexInv DEF CapacityInv
  <2> QED
    BY <2>2, <2>3, <2>4 DEF CapacityInv
<1> QED
  BY <1>1, <1>2, <1>3, <1>4 DEF Next

\* The buffer never holds more than max_objects objects, and exceeds max_bytes
\* only while it holds a single object, whatever the objects' sizes.
THEOREM CapacityAlwaysRespected == Spec => []CapacityRespected
<1>1. CapacityInv => CapacityRespected
  BY DEF CapacityInv
<1> QED
  BY <1>1, InitCapacityInv, NextCapacityInv, PTL DEF Spec

-----------------------------------------------------------------------------
(* Why the eviction loops end                                              *)

\* While `add` has no room the buffer holds something to evict, in the index
\* that the configured policy looks at.  max_objects = 0 is the exception: the
\* code then loops over an empty buffer.
VictimExists ==
    max_objects # 0 /\ adding # NoObject /\ ~HasRoom(adding) =>
        /\ insertion_order # <<>>
        /\ priority_eviction => /\ DOMAIN priority_index # {}
                                /\ \A p \in DOMAIN priority_index : priority_index[p] # <<>>

\* One turn of a loop takes one object out of the buffer, and lets `add` go on
\* with the object it makes room for.
EvictsOne == Evict => Cardinality(Stored') = Cardinality(Stored) - 1 /\ adding' = adding

LEMMA VictimExistsInv == IndexInv => VictimExists
<1> SUFFICES ASSUME IndexInv, max_objects # 0, adding # NoObject, ~HasRoom(adding)
             PROVE  /\ insertion_order # <<>>
                    /\ priority_eviction =>
                         /\ DOMAIN priority_index # {}
                         /\ \A p \in DOMAIN priority_index : priority_index[p] # <<>>
  BY DEF VictimExists
<1>1. Stored # {}
  <2>1. 0 < max_objects
    BY ConfigAssumption
  <2>2. SUFFICES ASSUME Stored = {} PROVE FALSE
    OBVIOUS
  <2>3. Cardinality(Stored) = 0
    BY <2>2, FS_EmptySet
  <2> QED
    BY <2>1, <2>2, <2>3 DEF HasRoom
<1>2. insertion_order # <<>>
  BY <1>1 DEF IndexInv, IndexesAgree, InsertionOrderAgrees, Elements
<1>3. ASSUME priority_eviction
      PROVE  /\ DOMAIN priority_index # {}
             /\ \A p \in DOMAIN priority_index : priority_index[p] # <<>>
  BY <1>1, <1>3 DEF IndexInv, IndexesAgree, PriorityIndexAgrees
<1> QED
  BY <1>2, <1>3

LEMMA EvictionFrees == IndexInv /\ [Next]_bufferVars => EvictsOne
<1> SUFFICES ASSUME IndexInv, Evict
             PROVE  Cardinality(Stored') = Cardinality(Stored) - 1 /\ adding' = adding
  BY DEF EvictsOne
<1>1. PICK at \in 1..Len(insertion_order) : RemovedAt(at)
  BY EvictRemoves
<1>2. insertion_order[at] \in Stored /\ Stored' = Stored \ {insertion_order[at]}
  BY <1>1 DEF RemovedAt, RemoveObject, Stored, IndexInv, IndexesAgree,
              InsertionOrderAgrees, Elements
<1>3. Cardinality(Stored') = Cardinality(Stored) - 1
  BY <1>2, FiniteStored, FS_RemoveElement
<1> QED
  BY <1>3 DEF Evict

\* What AddTerminates rests on, besides fairness: as long as the loops of
\* evict_for_space run there is a victim, and each turn brings the number of
\* stored objects down by one (retransmission_buffer.rs:172-187).
THEOREM EvictionMakesProgress == Spec => []VictimExists /\ [][EvictsOne]_bufferVars
<1> QED
  BY InitIndexInv, NextIndexInv, VictimExistsInv, EvictionFrees, PTL DEF Spec

-----------------------------------------------------------------------------
(* The refinement of ArrivalStore                                          *)

\* The sum that Bytes defines by recursion is the last of the partial sums.
LEMMA BytesOfSums ==
    ASSUME NEW s, NEW n \in Nat, Len(s) = n, NEW acc \in [0..n -> Nat], acc[0] = 0,
           \A i \in 1..n : acc[i] = acc[i - 1] + s[i].size
    PROVE  Store!Bytes(s) = acc[n]
<1> DEFINE Sums(g) == g = [i \in 0..n |-> IF i = 0 THEN 0 ELSE g[i - 1] + s[i].size]
           f == CHOOSE g : Sums(g)
<1>1. Store!Bytes(s) = f[n]
  BY DEF Store!Bytes
<1>2. Sums(acc)
  <2> DEFINE h == [i \in 0..n |-> IF i = 0 THEN 0 ELSE acc[i - 1] + s[i].size]
  <2>1. \A i \in 0..n : h[i] = acc[i]
    <3> SUFFICES ASSUME NEW i \in 0..n PROVE h[i] = acc[i]
      OBVIOUS
    <3>1. CASE i = 0
      BY <3>1
    <3>2. CASE i # 0
      <4>1. i \in 1..n
        BY <3>2
      <4> QED
        BY <3>2, <4>1
    <3> QED
      BY <3>1, <3>2
  <2>2. acc = [i \in 0..n |-> acc[i]] /\ h = [i \in 0..n |-> h[i]]
    OBVIOUS
  <2> HIDE DEF h
  <2>3. acc = h
    BY <2>1, <2>2
  <2> QED
    BY <2>3 DEF h
<1>3. Sums(f)
  <2> HIDE DEF Sums
  <2> QED
    BY <1>2
<1> HIDE DEF f
<1>4. \A i \in 0..n : f[i] = acc[i]
  <2> DEFINE wrong == {i \in 0..n : f[i] # acc[i]}
  <2> SUFFICES ASSUME wrong # {} PROVE FALSE
    OBVIOUS
  <2>1. wrong \in SUBSET Nat
    OBVIOUS
  <2>2. PICK k \in wrong : \A j \in wrong : k <= j
    <3> HIDE DEF wrong
    <3>1. Lowest(wrong) \in wrong /\ \A y \in wrong : Lowest(wrong) <= y
      BY <2>1, LowestProperties
    <3> QED
      BY <3>1
  <2>3. k \in 0..n /\ f[k] # acc[k]
    BY <2>2
  <2>4. CASE k = 0
    <3>1. f[0] = 0
      BY <1>3
    <3> QED
      BY <2>3, <2>4, <3>1
  <2>5. CASE k # 0
    <3>1. k \in 1..n /\ k - 1 \in 0..n /\ ~(k <= k - 1)
      BY <2>3, <2>5
    <3>2. f[k - 1] = acc[k - 1]
      BY <2>2, <3>1
    <3>3. f[k] = f[k - 1] + s[k].size
      BY <1>3, <2>3, <2>5
    <3> QED
      BY <2>3, <3>1, <3>2, <3>3
  <2> QED
    BY <2>4, <2>5
<1> QED
  BY <1>1, <1>4

\* What remains of a list when the element at one place is taken out.
LEMMA RemoveAtProperties ==
    ASSUME NEW S, NEW s \in Seq(S), NEW at \in 1..Len(s)
    PROVE  /\ Store!RemoveAt(s, at) \in Seq(S)
           /\ Len(Store!RemoveAt(s, at)) = Len(s) - 1
           /\ \A i \in 1..(Len(s) - 1) :
                Store!RemoveAt(s, at)[i] = IF i < at THEN s[i] ELSE s[i + 1]
<1>1. PICK n \in Nat : n = Len(s)
  BY LenProperties
<1>2. at \in Nat /\ 1 <= at /\ at <= n
  BY <1>1
<1>3. \A i \in 1..n : s[i] \in S
  BY <1>1, ElementOfSeq
<1>4. PICK u : u = SubSeq(s, 1, at - 1)
  OBVIOUS
<1>5. PICK v : v = SubSeq(s, at + 1, n)
  OBVIOUS
<1>6. u \in Seq(S) /\ Len(u) = at - 1 /\ \A i \in 1..(at - 1) : u[i] = s[i]
  <2>1. \A i \in 1..(at - 1) : s[i] \in S
    BY <1>2, <1>3
  <2>2. 1 \in Int /\ at - 1 \in Int
    BY <1>2
  <2>3. /\ u \in Seq(S)
        /\ Len(u) = IF 1 <= at - 1 THEN (at - 1) - 1 + 1 ELSE 0
        /\ \A i \in 1..((at - 1) - 1 + 1) : u[i] = s[1 + i - 1]
    BY <1>4, <2>1, <2>2, SubSeqProperties
  <2> QED
    BY <1>2, <2>3
<1>7. v \in Seq(S) /\ Len(v) = n - at /\ \A i \in 1..(n - at) : v[i] = s[at + i]
  <2>1. \A i \in (at + 1)..n : s[i] \in S
    BY <1>2, <1>3
  <2>2. at + 1 \in Int /\ n \in Int
    BY <1>2
  <2>3. /\ v \in Seq(S)
        /\ Len(v) = IF at + 1 <= n THEN n - (at + 1) + 1 ELSE 0
        /\ \A i \in 1..(n - (at + 1) + 1) : v[i] = s[(at + 1) + i - 1]
    BY <1>5, <2>1, <2>2, SubSeqProperties
  <2> QED
    BY <1>2, <2>3
<1>8. Store!RemoveAt(s, at) = u \o v
  BY <1>1, <1>4, <1>5 DEF Store!RemoveAt
<1>9. PICK r : r = u \o v
  OBVIOUS
<1>10. /\ r \in Seq(S) /\ Len(r) = n - 1
       /\ \A i \in 1..(n - 1) : r[i] = IF i <= at - 1 THEN u[i] ELSE v[i - (at - 1)]
  <2>1. /\ r \in Seq(S)
        /\ Len(r) = Len(u) + Len(v)
        /\ \A i \in 1..(Len(u) + Len(v)) : r[i] = IF i <= Len(u) THEN u[i] ELSE v[i - Len(u)]
    BY <1>6, <1>7, <1>9, ConcatProperties
  <2> QED
    BY <1>2, <1>6, <1>7, <2>1
<1>11. ASSUME NEW i \in 1..(n - 1) PROVE r[i] = IF i < at THEN s[i] ELSE s[i + 1]
  <2>1. CASE i < at
    <3>1. i <= at - 1 /\ i \in 1..(at - 1)
      BY <1>2, <2>1
    <3> QED
      BY <1>6, <1>10, <2>1, <3>1
  <2>2. CASE ~(i < at)
    <3>1. ~(i <= at - 1) /\ i - (at - 1) \in 1..(n - at) /\ at + (i - (at - 1)) = i + 1
      BY <1>2, <2>2
    <3> QED
      BY <1>7, <1>10, <2>2, <3>1
  <2> QED
    BY <2>1, <2>2
<1> QED
  BY <1>1, <1>8, <1>9, <1>10, <1>11

\* The abstract list has one object for each entry of insertion_order.
LEMMA ArrivalProperties ==
    ASSUME IndexInv
    PROVE  /\ insertion_order \in Seq(SequenceNumbers)
           /\ ArrivalOrder \in Seq(Objects)
           /\ Len(ArrivalOrder) = Len(insertion_order)
           /\ DOMAIN ArrivalOrder = 1..Len(insertion_order)
           /\ \A i \in 1..Len(insertion_order) :
                /\ insertion_order[i] \in Stored
                /\ ArrivalOrder[i] = sequence_index[insertion_order[i]]
                /\ ArrivalOrder[i].sequence = insertion_order[i]
<1>1. insertion_order \in Seq(SequenceNumbers) /\ sequence_index \in [Stored -> Objects]
  BY DEF IndexInv, TypeOK
<1>2. PICK n \in Nat : n = Len(insertion_order)
  BY <1>1, LenProperties
<1>3. \A i \in 1..n : /\ insertion_order[i] \in Stored
                      /\ sequence_index[insertion_order[i]].sequence = insertion_order[i]
  BY <1>2 DEF IndexInv, IndexesAgree, InsertionOrderAgrees, Elements
<1>4. PICK s : s = ArrivalOrder
  OBVIOUS
<1>5. s = [i \in 1..n |-> sequence_index[insertion_order[i]]]
  BY <1>2, <1>4 DEF ArrivalOrder
<1>6. s \in [1..n -> Objects]
  BY <1>1, <1>3, <1>5
<1>7. s \in Seq(Objects) /\ Len(s) = n /\ DOMAIN s = 1..n
  BY <1>6, SeqDef, LenProperties
<1> QED
  BY <1>1, <1>2, <1>3, <1>4, <1>5, <1>7

\* As many objects are stored as insertion_order lists.
LEMMA StoredCount ==
    ASSUME IndexInv
    PROVE  /\ Len(insertion_order) \in Nat
           /\ Cardinality(Stored) = Len(insertion_order)
           /\ Stored = {} <=> Len(insertion_order) = 0
<1>1. insertion_order \in Seq(SequenceNumbers)
  BY DEF IndexInv, TypeOK
<1>2. PICK n \in Nat : n = Len(insertion_order)
  BY <1>1, LenProperties
<1>3. /\ \A i \in 1..n : insertion_order[i] \in Stored
      /\ \A s \in Stored : \E i \in 1..n : insertion_order[i] = s
      /\ \A i, j \in 1..n : insertion_order[i] = insertion_order[j] => i = j
  BY <1>2 DEF IndexInv, IndexesAgree, InsertionOrderAgrees, Elements, NoRepeats
<1>4. PICK f : f = [i \in 1..n |-> insertion_order[i]]
  OBVIOUS
<1>5. f \in Bijection(1..n, Stored)
  <2>1. f \in [1..n -> Stored]
    BY <1>3, <1>4
  <2>2. \A i, j \in 1..n : f[i] = f[j] => i = j
    BY <1>3, <1>4
  <2>3. \A s \in Stored : \E i \in 1..n : f[i] = s
    BY <1>3, <1>4
  <2> QED
    BY <2>1, <2>2, <2>3 DEF Bijection, Injection, Surjection, IsInjective
<1>6. IsFiniteSet(1..n) /\ Cardinality(1..n) = n
  <2>1. 1 \in Int /\ n \in Int
    OBVIOUS
  <2>2. Cardinality(1..n) = IF 1 > n THEN 0 ELSE n - 1 + 1
    BY <2>1, FS_Interval
  <2>3. IsFiniteSet(1..n)
    BY <2>1, FS_Interval
  <2> QED
    BY <2>2, <2>3
<1>7. Cardinality(Stored) = n
  <2>1. ExistsBijection(1..n, Stored)
    BY <1>5 DEF ExistsBijection
  <2> QED
    BY <1>6, <2>1, FS_Bijection
<1>8. Stored = {} <=> n = 0
  <2>1. n = 0 => Stored = {}
    BY <1>3
  <2>2. n # 0 => 1 \in 1..n
    OBVIOUS
  <2> QED
    BY <1>3, <2>1, <2>2
<1> QED
  BY <1>2, <1>7, <1>8

\* The running byte count says what the sum over the list says.
LEMMA RoomAgrees ==
    ASSUME CapacityInv, NEW o PROVE Store!Room(o) <=> HasRoom(o)
<1>1. IndexInv /\ BytesAccounted
  BY DEF CapacityInv
<1>2. PICK n \in Nat : n = Len(insertion_order)
  BY <1>1, StoredCount
<1>3. PICK s : s = ArrivalOrder
  OBVIOUS
<1>4. /\ s \in Seq(Objects) /\ Len(s) = n
      /\ \A i \in 1..n : s[i] = sequence_index[insertion_order[i]]
  BY <1>1, <1>2, <1>3, ArrivalProperties
<1>5. PICK acc : PartialSums(acc)
  BY <1>1 DEF BytesAccounted
<1>6. /\ acc \in [0..n -> Nat] /\ acc[0] = 0 /\ acc[n] = total_bytes
      /\ \A i \in 1..n : acc[i] = acc[i - 1] + s[i].size
  BY <1>2, <1>4, <1>5 DEF PartialSums
<1>7. Store!Bytes(s) = total_bytes
  BY <1>2, <1>4, <1>6, BytesOfSums
<1>8. s = <<>> <=> n = 0
  BY <1>4, EmptySeq
<1>9. Cardinality(Stored) = n /\ (Stored = {} <=> n = 0)
  BY <1>1, <1>2, StoredCount
<1>10. Store!Room(o) <=> /\ Len(s) < max_objects
                         /\ Store!Bytes(s) + o.size <= max_bytes \/ s = <<>>
  BY <1>3 DEF Store!Room
<1> QED
  BY <1>4, <1>7, <1>8, <1>9, <1>10 DEF HasRoom

\* The indexes choose one of the victims that a scan of the list gives.
LEMMA VictimAgrees ==
    ASSUME IndexInv, Evict
    PROVE  \E at \in 1..Len(insertion_order) : RemovedAt(at) /\ at \in Store!Victims
<1>1. CASE ~priority_eviction
  <2>1. EvictOldest
    BY <1>1 DEF Evict
  <2>2. Store!Victims = {1}
    BY <1>1 DEF Store!Victims
  <2> QED
    BY <2>1, <2>2, EvictOldestAt
<1>2. CASE priority_eviction /\ DOMAIN priority_index # {}
  <2>1. PICK at \in 1..Len(insertion_order), p \in DOMAIN priority_index :
             /\ RemovedAt(at)
             /\ \A q \in DOMAIN priority_index : p <= q
             /\ priority_index[p] # <<>>
             /\ insertion_order[at] = priority_index[p][Len(priority_index[p])]
    BY <1>2, EvictLowestPriorityAt DEF Evict
  <2>2. PICK n \in Nat : n = Len(insertion_order)
    BY StoredCount
  <2>3. PICK s : s = ArrivalOrder
    OBVIOUS
  <2>4. /\ DOMAIN s = 1..n
        /\ \A i \in 1..n : insertion_order[i] \in Stored
                           /\ s[i] = sequence_index[insertion_order[i]]
    BY <2>2, <2>3, ArrivalProperties
  <2>5. PICK seqs : seqs = priority_index[p]
    OBVIOUS
  <2>6. PICK m \in Nat : m = Len(seqs) /\ m # 0
    BY <2>1, <2>5, EmptySeq, LenProperties DEF IndexInv, TypeOK
  <2>7. PriorityIndexAgrees
    BY <1>2 DEF IndexInv, IndexesAgree
  <2>8. \A i \in 1..m : sequence_index[seqs[i]].priority = p
    BY <2>5, <2>6, <2>7 DEF PriorityIndexAgrees, Elements
  <2>9. \A i \in 1..n : /\ s[i].priority \in DOMAIN priority_index /\ p <= s[i].priority
                        /\ s[i].priority = p => \E j \in 1..m : insertion_order[i] = seqs[j]
    <3> SUFFICES ASSUME NEW i \in 1..n
                 PROVE  /\ s[i].priority \in DOMAIN priority_index /\ p <= s[i].priority
                        /\ s[i].priority = p => \E j \in 1..m : insertion_order[i] = seqs[j]
      OBVIOUS
    <3>1. insertion_order[i] \in Stored /\ s[i] = sequence_index[insertion_order[i]]
      BY <2>4
    <3>2. /\ s[i].priority \in DOMAIN priority_index
          /\ insertion_order[i] \in Elements(priority_index[s[i].priority])
      BY <2>7, <3>1 DEF PriorityIndexAgrees
    <3> QED
      BY <2>1, <2>5, <2>6, <3>2 DEF Elements
  <2>10. at \in 1..n /\ s[at].priority = p
    BY <2>1, <2>2, <2>4, <2>5, <2>6, <2>8
  <2>11. DOMAIN priority_index \subseteq Nat
    <3>1. DOMAIN priority_index \subseteq Priorities
      BY DEF IndexInv, TypeOK
    <3> QED
      BY <3>1, ObjectsAssumption DEF Priorities
  <2>12. p \in Nat /\ \A i \in 1..n : s[i].priority \in Nat
    BY <2>9, <2>11
  <2>13. Store!Least = {i \in 1..n : s[i].priority = p}
    <3>1. Store!Least = {i \in 1..n : \A j \in 1..n : s[i].priority <= s[j].priority}
      BY <2>3, <2>4 DEF Store!Least
    <3>2. ASSUME NEW i \in 1..n
          PROVE (\A j \in 1..n : s[i].priority <= s[j].priority) <=> s[i].priority = p
      BY <2>9, <2>10, <2>12
    <3> QED
      BY <3>1, <3>2
  <2>14. at \in Store!Victims
    BY <1>2, <2>10, <2>13 DEF Store!Victims
  <2> QED
    BY <2>1, <2>14
<1>3. CASE priority_eviction /\ DOMAIN priority_index = {}
  <2>1. Stored = {}
    BY <1>3 DEF IndexInv, IndexesAgree, PriorityIndexAgrees
  <2>2. Len(insertion_order) = 0
    BY <2>1, StoredCount
  <2>3. 1 \in 1..Len(insertion_order)
    BY <1>3, EvictOldestAt DEF Evict
  <2> QED
    BY <2>2, <2>3
<1> QED
  BY <1>1, <1>2, <1>3, ConfigAssumption

-----------------------------------------------------------------------------
(* Every step of the buffer is one of the store, or none.                  *)

\* The same, of the next state.
LEMMA ArrivalPropertiesNext ==
    ASSUME IndexInv'
    PROVE  /\ ArrivalOrder' \in Seq(Objects)
           /\ Len(ArrivalOrder') = Len(insertion_order')
           /\ \A i \in 1..Len(insertion_order') :
                ArrivalOrder'[i] = sequence_index'[insertion_order'[i]]
<1>1. insertion_order' \in Seq(SequenceNumbers) /\ sequence_index' \in [Stored' -> Objects]
  BY DEF IndexInv, TypeOK
<1>2. PICK n \in Nat : n = Len(insertion_order')
  BY <1>1, LenProperties
<1>3. \A i \in 1..n : insertion_order'[i] \in Stored'
  BY <1>2 DEF IndexInv, IndexesAgree, InsertionOrderAgrees, Elements
<1>4. PICK s : s = ArrivalOrder'
  OBVIOUS
<1>5. s = [i \in 1..n |-> sequence_index'[insertion_order'[i]]]
  BY <1>2, <1>4 DEF ArrivalOrder
<1>6. s \in [1..n -> Objects]
  BY <1>1, <1>3, <1>5
<1>7. s \in Seq(Objects) /\ Len(s) = n
  BY <1>6, SeqDef, LenProperties
<1> QED
  BY <1>2, <1>4, <1>5, <1>7

LEMMA EvictDrops ==
    ASSUME CapacityInv, CapacityInv', Evict PROVE Store!Drop
<1>1. CapacityInv /\ IndexInv /\ IndexInv'
  BY DEF CapacityInv
<1>2. PICK at \in 1..Len(insertion_order) : RemovedAt(at) /\ at \in Store!Victims
  BY <1>1, VictimAgrees
<1>3. PICK n \in Nat : n = Len(insertion_order) /\ n # 0
  BY <1>1, <1>2, StoredCount
<1>4. PICK s : s = ArrivalOrder
  OBVIOUS
<1>5. PICK t : t = ArrivalOrder'
  OBVIOUS
<1>6. /\ s \in Seq(Objects) /\ Len(s) = n
      /\ \A i \in 1..n : insertion_order[i] \in Stored
                         /\ s[i] = sequence_index[insertion_order[i]]
  BY <1>1, <1>3, <1>4, ArrivalProperties
<1>7. Len(insertion_order') = n - 1
  BY <1>2, <1>3 DEF RemovedAt
<1>8. /\ t \in Seq(Objects) /\ Len(t) = n - 1
      /\ \A i \in 1..(n - 1) : t[i] = sequence_index'[insertion_order'[i]]
  <2>1. /\ ArrivalOrder' \in Seq(Objects)
        /\ Len(ArrivalOrder') = Len(insertion_order')
        /\ \A i \in 1..Len(insertion_order') :
             ArrivalOrder'[i] = sequence_index'[insertion_order'[i]]
    BY <1>1, ArrivalPropertiesNext
  <2> QED
    BY <1>5, <1>7, <2>1
<1>9. at \in 1..n
  BY <1>2, <1>3
<1>10. ASSUME NEW i \in 1..(n - 1) PROVE t[i] = IF i < at THEN s[i] ELSE s[i + 1]
  <2>1. PICK u \in 1..n : u = (IF i < at THEN i ELSE i + 1) /\ u # at
    BY <1>9
  <2>2. insertion_order'[i] = insertion_order[u]
    BY <1>2, <1>3, <2>1 DEF RemovedAt
  <2>3. insertion_order[u] # insertion_order[at]
    BY <1>1, <1>3, <1>9, <2>1
       DEF IndexInv, IndexesAgree, InsertionOrderAgrees, NoRepeats
  <2>4. sequence_index'[insertion_order[u]] = sequence_index[insertion_order[u]]
    BY <1>2, <1>6, <2>1, <2>3 DEF RemovedAt, RemoveObject
  <2> QED
    BY <1>6, <1>8, <2>1, <2>2, <2>4
<1>11. t = Store!RemoveAt(s, at)
  <2>1. PICK r : r = Store!RemoveAt(s, at)
    OBVIOUS
  <2>2. /\ r \in Seq(Objects) /\ Len(r) = n - 1
        /\ \A i \in 1..(n - 1) : r[i] = IF i < at THEN s[i] ELSE s[i + 1]
    BY <1>6, <1>9, <2>1, RemoveAtProperties
  <2>3. \A i \in 1..Len(t) : t[i] = r[i]
    BY <1>8, <1>10, <2>2
  <2>4. t = r
    BY <1>8, <2>2, <2>3, SeqEqual
  <2> QED
    BY <2>1, <2>4
<1>12. adding # NoObject /\ ~HasRoom(adding) /\ UNCHANGED <<init_segment, adding>>
  BY DEF Evict
<1>13. ~Store!Room(adding)
  BY <1>1, <1>12, RoomAgrees
<1>14. ArrivalOrder # <<>>
  BY <1>3, <1>4, <1>6, EmptySeq
<1> QED
  BY <1>2, <1>4, <1>5, <1>11, <1>12, <1>13, <1>14 DEF Store!Drop

LEMMA InsertArrives ==
    ASSUME CapacityInv, CapacityInv', Insert PROVE Store!Arrive
<1>1. CapacityInv /\ IndexInv /\ IndexInv'
  BY DEF CapacityInv
<1>2. PICK n \in Nat : n = Len(insertion_order)
  BY <1>1, StoredCount
<1>3. PICK s : s = ArrivalOrder
  OBVIOUS
<1>4. PICK t : t = ArrivalOrder'
  OBVIOUS
<1>5. PICK o : o = adding
  OBVIOUS
<1>6. /\ o \in Objects /\ o.sequence \notin Stored /\ o.sequence \in SequenceNumbers
      /\ insertion_order \in Seq(SequenceNumbers)
  BY <1>1, <1>5 DEF Insert, IndexInv, TypeOK, SequenceNumbers
<1>7. /\ s \in Seq(Objects) /\ Len(s) = n
      /\ \A i \in 1..n : insertion_order[i] \in Stored
                         /\ s[i] = sequence_index[insertion_order[i]]
  BY <1>1, <1>2, <1>3, ArrivalProperties
<1>8. /\ Len(insertion_order') = n + 1
      /\ \A i \in 1..n : insertion_order'[i] = insertion_order[i]
      /\ insertion_order'[n + 1] = o.sequence
  BY <1>2, <1>5, <1>6, AppendProperties DEF Insert
<1>9. /\ t \in Seq(Objects) /\ Len(t) = n + 1
      /\ \A i \in 1..(n + 1) : t[i] = sequence_index'[insertion_order'[i]]
  <2>1. /\ ArrivalOrder' \in Seq(Objects)
        /\ Len(ArrivalOrder') = Len(insertion_order')
        /\ \A i \in 1..Len(insertion_order') :
             ArrivalOrder'[i] = sequence_index'[insertion_order'[i]]
    BY <1>1, ArrivalPropertiesNext
  <2> QED
    BY <1>4, <1>8, <2>1
<1>10. /\ sequence_index'[o.sequence] = o
       /\ \A q \in Stored : sequence_index'[q] = sequence_index[q]
  BY <1>5, <1>6 DEF Insert
<1>11. t = Append(s, o)
  <2>1. PICK r : r = Append(s, o)
    OBVIOUS
  <2>2. r \in Seq(Objects) /\ Len(r) = n + 1 /\ r[n + 1] = o /\ \A i \in 1..n : r[i] = s[i]
    BY <1>6, <1>7, <2>1, AppendProperties
  <2>3. \A i \in 1..Len(t) : t[i] = r[i]
    BY <1>7, <1>8, <1>9, <1>10, <2>2
  <2>4. t = r
    BY <1>9, <2>2, <2>3, SeqEqual
  <2> QED
    BY <2>1, <2>4
<1>12. adding # NoObject /\ HasRoom(adding) /\ adding' = NoObject /\ UNCHANGED init_segment
  BY DEF Insert
<1>13. Store!Room(adding)
  BY <1>1, <1>12, RoomAgrees
<1> QED
  BY <1>3, <1>4, <1>5, <1>11, <1>12, <1>13 DEF Store!Arrive

LEMMA BeginAddOffers ==
    ASSUME CapacityInv, NEW o \in Objects, BeginAdd(o)
    PROVE  Store!SetInit(o) \/ Store!Offer(o) \/ UNCHANGED Store!storeVars
<1>1. IndexInv
  BY DEF CapacityInv
<1>2. ArrivalOrder' = ArrivalOrder
  BY DEF BeginAdd, AddInitSegment, AddDuplicate, StartEviction, bufferVars, ArrivalOrder
<1>3. Store!MEDIA_TYPE_INIT = MEDIA_TYPE_INIT
  BY DEF Store!MEDIA_TYPE_INIT, MEDIA_TYPE_INIT
<1>4. adding = NoObject
  BY DEF BeginAdd
<1>5. CASE AddInitSegment(o)
  BY <1>2, <1>3, <1>4, <1>5 DEF AddInitSegment, Store!SetInit
<1>6. CASE AddDuplicate(o)
  BY <1>2, <1>6 DEF AddDuplicate, bufferVars, Store!storeVars
<1>7. CASE StartEviction(o)
  <2>1. \A i \in DOMAIN ArrivalOrder : ArrivalOrder[i].sequence # o.sequence
    BY <1>1, <1>7, ArrivalProperties DEF StartEviction
  <2> QED
    BY <1>2, <1>3, <1>4, <1>7, <2>1 DEF StartEviction, Store!Offer
<1> QED
  BY <1>5, <1>6, <1>7 DEF BeginAdd

LEMMA ClearForgets == Clear => Store!Forget
<1> SUFFICES ASSUME Clear PROVE Store!Forget
  OBVIOUS
<1>1. ArrivalOrder' = <<>>
  BY EmptySeq DEF Clear, ArrivalOrder
<1> QED
  BY <1>1 DEF Clear, Store!Forget

LEMMA StoreSteps ==
    CapacityInv /\ CapacityInv' /\ [Next]_bufferVars => [Store!StoreNext]_Store!storeVars
<1> SUFFICES ASSUME CapacityInv, CapacityInv', [Next]_bufferVars
             PROVE  [Store!StoreNext]_Store!storeVars
  OBVIOUS
<1>1. CASE \E o \in Objects : BeginAdd(o)
  BY <1>1, BeginAddOffers DEF Store!StoreNext
<1>2. CASE Evict
  BY <1>2, EvictDrops DEF Store!StoreNext
<1>3. CASE Insert
  BY <1>3, InsertArrives DEF Store!StoreNext
<1>4. CASE Clear
  BY <1>4, ClearForgets DEF Store!StoreNext
<1>5. CASE UNCHANGED bufferVars
  BY <1>5 DEF bufferVars, ArrivalOrder, Store!storeVars
<1> QED
  BY <1>1, <1>2, <1>3, <1>4, <1>5 DEF Next

\* Evicting by the indexes and counting bytes as they come and go is what
\* scanning one list of arrivals would give: the victim is the oldest arrival
\* or one of the lowest priority, and nothing goes without need
\* (retransmission_buffer.rs:76-119, 159-248).
THEOREM AlwaysImplementsArrivalStore == Spec => ImplementsArrivalStore
<1>1. Init => Store!StoreInit
  BY EmptySeq DEF Init, NewBuffer, Store!StoreInit, ArrivalOrder
<1> QED
  BY <1>1, InitCapacityInv, NextCapacityInv, StoreSteps, PTL
     DEF Spec, ImplementsArrivalStore, Store!StoreSpec
=============================================================================
