------------------------ MODULE RetransmissionBuffer ------------------------
(***************************************************************************)
(* The retransmission buffer of src/moq/retransmission_buffer.rs.          *)
(*                                                                         *)
(* An object is stored under its sequence number in sequence_index; two    *)
(* further indexes, insertion_order and priority_index, say what to evict  *)
(* next, and total_bytes says how full the buffer is.  The four must agree *)
(* through every loop iteration, so `add` is not atomic here: BeginAdd     *)
(* passes the early returns, each Evict is one iteration of                *)
(* evict_for_space, and Insert is what follows the loops.                  *)
(*                                                                         *)
(* An object is [sequence, group_id, priority, size]; its payload and name *)
(* only matter through their size (calculate_object_size).                 *)
(***************************************************************************)
EXTENDS Proto, Sequences, FiniteSets

CONSTANTS
    Objects,            \* the objects that may be added
    NoObject,           \* Option::None
    max_objects,        \* RetransmissionBufferConfig
    max_bytes,
    priority_eviction

ASSUME ObjectsAssumption ==
    /\ NoObject \notin Objects
    /\ \A o \in Objects : /\ o.sequence \in Nat
                          /\ o.group_id \in MediaTypes
                          /\ o.priority \in Nat
                          /\ o.size \in Nat \ {0}

ASSUME ConfigAssumption ==
    /\ max_objects \in Nat
    /\ max_bytes \in Nat
    /\ priority_eviction \in BOOLEAN

VARIABLES
    sequence_index,     \* sequence -> object
    insertion_order,    \* sequences, oldest first
    priority_index,     \* priority -> sequences, oldest first
    total_bytes,
    total_objects,      \* stats.total_objects
    init_segment,       \* kept outside the indexes
    adding              \* the object `add` is making room for, or NoObject

bufferVars == <<sequence_index, insertion_order, priority_index, total_bytes,
                total_objects, init_segment, adding>>

SequenceNumbers == {o.sequence : o \in Objects}
Priorities == {o.priority : o \in Objects}

Stored == DOMAIN sequence_index
Elements(s) == {s[i] : i \in 1..Len(s)}

EmptyMap == [k \in {} |-> {}]

NewBuffer ==
    /\ sequence_index = EmptyMap
    /\ insertion_order = <<>>
    /\ priority_index = EmptyMap
    /\ total_bytes = 0
    /\ total_objects = 0
    /\ init_segment = NoObject
    /\ adding = NoObject

-----------------------------------------------------------------------------
(* Lookups.                                                                *)

\* get: the init segment answers for its own sequence number first.
Get(sequence) ==
    IF init_segment # NoObject /\ init_segment.sequence = sequence
    THEN init_segment
    ELSE IF sequence \in Stored THEN sequence_index[sequence] ELSE NoObject

\* get_range: the stored objects of these sequences in order of sequence; never
\* the init segment.
GetRange(seqs) ==
    LET rank(s) == Cardinality({t \in seqs : t <= s})
    IN  [i \in 1..Cardinality(seqs) |->
            sequence_index[CHOOSE s \in seqs : rank(s) = i]]

-----------------------------------------------------------------------------
(* add                                                                     *)

\* Mutants of HasRoom: one object too many; no end of the second loop for an
\* object that is larger than the whole buffer.
HasRoomForOneMore(o) ==
    /\ Cardinality(Stored) <= max_objects
    /\ total_bytes + o.size <= max_bytes \/ Stored = {}

HasRoomInBytes(o) ==
    /\ Cardinality(Stored) < max_objects
    /\ total_bytes + o.size <= max_bytes

\* Neither loop of evict_for_space would run again.
HasRoom(o) ==
    /\ Cardinality(Stored) < max_objects
    /\ total_bytes + o.size <= max_bytes \/ Stored = {}

AddInitSegment(o) ==
    /\ o.group_id = MEDIA_TYPE_INIT
    /\ init_segment' = o
    /\ UNCHANGED <<sequence_index, insertion_order, priority_index,
                   total_bytes, total_objects, adding>>

AddDuplicate(o) ==
    /\ o.group_id # MEDIA_TYPE_INIT
    /\ o.sequence \in Stored
    /\ UNCHANGED bufferVars

\* Mutants of StartEviction: an early return of `add` is missing.
StartEvictionOfDuplicate(o) ==
    /\ o.group_id # MEDIA_TYPE_INIT
    /\ adding' = o
    /\ UNCHANGED <<sequence_index, insertion_order, priority_index,
                   total_bytes, total_objects, init_segment>>

StartEvictionForInit(o) ==
    /\ o.sequence \notin Stored
    /\ adding' = o
    /\ UNCHANGED <<sequence_index, insertion_order, priority_index,
                   total_bytes, total_objects, init_segment>>

StartEviction(o) ==
    /\ o.group_id # MEDIA_TYPE_INIT
    /\ o.sequence \notin Stored
    /\ adding' = o
    /\ UNCHANGED <<sequence_index, insertion_order, priority_index,
                   total_bytes, total_objects, init_segment>>

BeginAdd(o) ==
    /\ adding = NoObject
    /\ \/ AddInitSegment(o)
       \/ AddDuplicate(o)
       \/ StartEviction(o)

\* Mutant of Lowest: the wrong end of the BTreeMap.
Highest(S) == CHOOSE x \in S : \A y \in S : y <= x

Lowest(S) == CHOOSE x \in S : \A y \in S : x <= y

\* Mutant of Retain: the victim stays in insertion_order.
RetainAll(s, x) == s

\* VecDeque::retain(|s| s != x), for a list that holds x at most once.
Retain(s, x) ==
    IF x \notin Elements(s) THEN s
    ELSE LET at == CHOOSE i \in 1..Len(s) : s[i] = x
         IN  [i \in 1..(Len(s) - 1) |-> IF i < at THEN s[i] ELSE s[i + 1]]

\* remove_object: the sequence index and the byte count, nothing else.
RemoveObject(sequence) ==
    /\ sequence_index' = [s \in Stored \ {sequence} |-> sequence_index[s]]
    /\ LET freed == IF sequence \in Stored THEN sequence_index[sequence].size ELSE 0
       IN  total_bytes' = IF freed <= total_bytes THEN total_bytes - freed ELSE 0

EvictOldest ==
    /\ insertion_order # <<>>
    /\ insertion_order' = Tail(insertion_order)
    /\ RemoveObject(Head(insertion_order))
    /\ UNCHANGED priority_index

\* The newest of the lowest priority goes: Vec::pop on that priority's list.
EvictLowestPriority ==
    LET p == Lowest(DOMAIN priority_index)
        seqs == priority_index[p]
        victim == seqs[Len(seqs)]
        rest == SubSeq(seqs, 1, Len(seqs) - 1)
        keys == IF rest = <<>> THEN DOMAIN priority_index \ {p}
                               ELSE DOMAIN priority_index
    IN  /\ seqs # <<>>
        /\ insertion_order' = Retain(insertion_order, victim)
        /\ priority_index' =
             [k \in keys |-> IF k = p THEN rest ELSE priority_index[k]]
        /\ RemoveObject(victim)

Evict ==
    /\ adding # NoObject
    /\ ~HasRoom(adding)
    /\ IF priority_eviction /\ DOMAIN priority_index # {}
       THEN EvictLowestPriority
       ELSE EvictOldest
    /\ UNCHANGED <<total_objects, init_segment, adding>>

\* The list `priority_index` has for priority p, `or_insert_with(Vec::new)`.
Listed(p) == IF p \in DOMAIN priority_index THEN priority_index[p] ELSE <<>>

Insert ==
    /\ adding # NoObject
    /\ HasRoom(adding)
    /\ LET seq == adding.sequence
           p == adding.priority
       IN  /\ sequence_index' = [s \in Stored \cup {seq} |->
                 IF s = seq THEN adding ELSE sequence_index[s]]
           /\ insertion_order' = Append(insertion_order, seq)
           /\ priority_index' = [k \in DOMAIN priority_index \cup {p} |->
                 IF k = p THEN Append(Listed(p), seq) ELSE priority_index[k]]
    /\ total_bytes' = total_bytes + adding.size
    /\ total_objects' = Cardinality(Stored) + 1
    /\ adding' = NoObject
    /\ UNCHANGED init_segment

\* clear keeps the init segment.
Clear ==
    /\ adding = NoObject
    /\ sequence_index' = EmptyMap
    /\ insertion_order' = <<>>
    /\ priority_index' = EmptyMap
    /\ total_bytes' = 0
    /\ total_objects' = 0
    /\ UNCHANGED <<init_segment, adding>>

-----------------------------------------------------------------------------
Init == NewBuffer

Next ==
    \/ \E o \in Objects : BeginAdd(o)
    \/ Evict
    \/ Insert
    \/ Clear

\* `add` is a synchronous call: once begun it runs to its end.
Spec == Init /\ [][Next]_bufferVars /\ WF_bufferVars(Evict) /\ WF_bufferVars(Insert)
-----------------------------------------------------------------------------
(* Properties                                                              *)

\* Every field of RetransmissionBuffer has its Rust type, and the object
\* being added is one that passed the early returns of `add`.
TypeOK ==
    /\ Stored \subseteq SequenceNumbers
    /\ sequence_index \in [Stored -> Objects]
    /\ insertion_order \in Seq(SequenceNumbers)
    /\ DOMAIN priority_index \subseteq Priorities
    /\ priority_index \in [DOMAIN priority_index -> Seq(SequenceNumbers)]
    /\ total_bytes \in Nat
    /\ total_objects \in Nat
    /\ init_segment \in Objects \cup {NoObject}
    /\ adding \in Objects \cup {NoObject}
    /\ adding # NoObject => adding.sequence \notin Stored

NoRepeats(s) == \A i, j \in 1..Len(s) : s[i] = s[j] => i = j

\* insertion_order lists exactly the stored sequences, each once.
InsertionOrderAgrees ==
    /\ Elements(insertion_order) = Stored
    /\ NoRepeats(insertion_order)

\* Each priority's list holds exactly the stored sequences of that priority,
\* each once, and a priority without objects has no entry: an entry left
\* behind empty would make evict_lowest_priority spin without evicting.
PriorityIndexAgrees ==
    /\ \A p \in DOMAIN priority_index :
         /\ priority_index[p] # <<>>
         /\ NoRepeats(priority_index[p])
         /\ \A s \in Elements(priority_index[p]) :
                s \in Stored /\ sequence_index[s].priority = p
    /\ \A s \in Stored : /\ sequence_index[s].priority \in DOMAIN priority_index
                          /\ s \in Elements(priority_index[sequence_index[s].priority])

\* The indexes agree after every iteration of the eviction loops
\* (retransmission_buffer.rs:45-49), whichever eviction policy is configured
\* for insertion_order, with priority eviction for priority_index.
IndexesAgree ==
    /\ \A s \in Stored : sequence_index[s].sequence = s
    /\ InsertionOrderAgrees
    /\ priority_eviction => PriorityIndexAgrees

\* What the limits of RetransmissionBufferConfig come to
\* (retransmission_buffer.rs:170-188): never more than max_objects objects,
\* and more than max_bytes only while a single object is stored.
CapacityRespected ==
    /\ Cardinality(Stored) <= max_objects
    /\ total_bytes > max_bytes => Cardinality(Stored) = 1

\* The eviction loops of `add` end (retransmission_buffer.rs:172-187).
AddTerminates == adding # NoObject ~> adding = NoObject

\* The objects in order of arrival.
ArrivalOrder ==
    [i \in 1..Len(insertion_order) |-> sequence_index[insertion_order[i]]]

Store == INSTANCE ArrivalStore WITH arrivals <- ArrivalOrder

\* The indexed buffer implements the plain list of arrivals: what the indexes
\* choose to evict, and the running byte count, are what a scan of the whole
\* list would allow (retransmission_buffer.rs:76-119, 159-248).
ImplementsArrivalStore == Store!StoreSpec

\* Among the objects of one priority it is the older ones that are evicted, as
\* a sliding window of the stream keeps the "recent objects" that a new
\* subscriber is sent (engine.rs:18 and 541): the code takes the newest, so
\* that a full buffer replaces the newest by the one that arrives.
RecentObjectsKept ==
    [][\A i, j \in 1..Len(insertion_order) :
          /\ i < j /\ insertion_order[j] \notin Stored' /\ adding # NoObject
          /\ ArrivalOrder[i].priority = ArrivalOrder[j].priority
          => insertion_order[i] \notin Stored']_bufferVars
=============================================================================
