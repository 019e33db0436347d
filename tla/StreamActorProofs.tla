-------------------------- MODULE StreamActorProofs --------------------------
(***************************************************************************)
(* Proofs about the stream actor: for every number of subscribers and      *)
(* nodes, every stream of objects, every size of the queue and of the      *)
(* buffer, and every interleaving.                                         *)
(*                                                                         *)
(* The invariants come in layers, each proved with the help of those       *)
(* before it: types; who owns a data stream; who is registered; what was   *)
(* sent of what is buffered; in which order.                               *)
(***************************************************************************)
EXTENDS StreamActor, RetransmissionBufferProofs

\* The parameters of the commands in the queue, by operation.
Queued(op) == {i \in 1..Len(cmd_rx) : cmd_rx[i].op = op}

TypeInv == IndexInv /\ ActorTypeOK

-----------------------------------------------------------------------------
(* Owners of data streams.                                                 *)

Used(s) == InUse(s) \/ (handling.task = "replay" /\ handling.stream = s)

\* Before a session has opened its data stream nothing knows of the stream.
UnopenedUnknown ==
    \A s \in Subscriptions : session[s] \in {"new", "subscribed"} =>
        /\ stream[s] = "unopened" /\ wire[s] = <<>> /\ ~Used(s)
        /\ \A i \in Queued("SetDataStream") : cmd_rx[i].stream # s

\* A data stream waiting in the queue is not in use, and waits only once.
QueuedOnce ==
    /\ \A i \in Queued("SetDataStream") :
         /\ cmd_rx[i].node_id = NodeOf[cmd_rx[i].stream]
         /\ wire[cmd_rx[i].stream] = <<>> /\ ~Used(cmd_rx[i].stream)
    /\ \A i, j \in Queued("SetDataStream") : cmd_rx[i].stream = cmd_rx[j].stream => i = j

\* A stream in use is that of its own node.
OwnStream ==
    /\ \A n \in DOMAIN subscribers :
         subscribers[n].stream # NoStream => NodeOf[subscribers[n].stream] = n
    /\ handling.task = "replay" => handling.node = NodeOf[handling.stream]

OwnersInv == UnopenedUnknown /\ QueuedOnce /\ OwnStream

-----------------------------------------------------------------------------
(* Registration.                                                           *)

\* A Subscribe command of node n is in the queue before position k.
SubscribesBefore(n, k) ==
    \E i \in Queued("Subscribe") : i < k /\ cmd_rx[i].node_id = n

RegisteredInv ==
    /\ \A i \in Queued("Unsubscribe") : cmd_rx[i].node_id \in unsubscribed
    /\ \A s \in Subscriptions : session[s] # "new" =>
         \/ NodeOf[s] \in unsubscribed \cup DOMAIN subscribers
         \/ SubscribesBefore(NodeOf[s], Len(cmd_rx) + 1)
    /\ \A i \in Queued("SetDataStream") :
         \/ cmd_rx[i].node_id \in unsubscribed \cup DOMAIN subscribers
         \/ SubscribesBefore(cmd_rx[i].node_id, i)

-----------------------------------------------------------------------------
(* The handover.                                                           *)

\* Only the init segment is kept outside the indexes; the counter that the
\* replay looks at is not 0 while anything is stored.
BufferInv ==
    /\ total_objects = 0 => Stored = {}
    /\ \A seq \in Stored : sequence_index[seq].group_id # MEDIA_TYPE_INIT
    /\ init_segment # NoObject => init_segment.group_id = MEDIA_TYPE_INIT
    /\ adding # NoObject => adding.group_id # MEDIA_TYPE_INIT

Healthy(s) == stream[s] = "open" /\ s \notin failed

\* What is buffered for group g.
Due(g) == {o \in Buffered : GroupMatches(g, o.group_id)}

\* Stream s serves node n, which asked for group g; s is being prepared for g.
Serves(n, g, s) ==
    n \in DOMAIN subscribers /\ subscribers[n].group_id = g /\ subscribers[n].stream = s
ReplaysTo(g, s) ==
    /\ handling.task = "replay" /\ handling.stream = s
    /\ subscribers[handling.node].group_id = g

\* While an object is being published, it is the only one a subscriber may
\* lack of what is buffered for it, and then its turn in the loop is still to
\* come; while the buffer is replayed, what is missing is still to be replayed.
HandedOver(n, g, s) ==
    IF handling.task = "publish"
    THEN /\ Due(g) \subseteq Sent(s) \cup {handling.object}
         /\ GroupMatches(g, handling.object.group_id) =>
              n \in handling.todo \/ handling.object \in Sent(s)
    ELSE Due(g) \subseteq Sent(s)

HandoverInv ==
    \A s \in Subscriptions, g \in MediaTypes : Healthy(s) =>
        /\ \A n \in Nodes : Serves(n, g, s) => HandedOver(n, g, s)
        /\ ReplaysTo(g, s) => Due(g) \subseteq Sent(s) \cup Elements(handling.todo)

-----------------------------------------------------------------------------
(* Order.                                                                  *)

IsPublished(o) ==
    /\ o.sequence + 1 \in 1..published
    /\ Published[o.sequence + 1] = o

\* An object that was taken from the queue.
Taken(o) ==
    /\ IsPublished(o)
    /\ \A i \in Queued("PublishObject") : o.sequence < cmd_rx[i].object.sequence

Carried(s) == {wire[s][i].object : i \in 1..Len(wire[s])}

\* An object that the actor holds, is about to send, or has written.
Held(o) ==
    \/ o \in Buffered
    \/ \E s \in Subscriptions : o \in Carried(s)
    \/ handling.task = "publish" /\ o = handling.object
    \/ handling.task = "replay" /\ o \in Elements(handling.todo)

NumberedInv ==
    /\ \A i \in Queued("PublishObject") : IsPublished(cmd_rx[i].object)
    /\ \A i, j \in Queued("PublishObject") :
         i < j => cmd_rx[i].object.sequence < cmd_rx[j].object.sequence
    /\ \A o \in Objects : Held(o) => Taken(o)

\* What is to be written to a stream, now and later in the handler, is newer
\* than all it carries.
AboutToSendInv ==
    /\ \A s \in Subscriptions : \A o \in Carried(s) :
         /\ handling.task = "publish" => \A n \in handling.todo :
              subscribers[n].stream = s => o.sequence < handling.object.sequence
         /\ handling.task = "replay" /\ handling.stream = s =>
              \A a \in 1..Len(handling.todo) : o.sequence < handling.todo[a].sequence
    /\ handling.task = "replay" => \A a, b \in 1..Len(handling.todo) :
         a < b => handling.todo[a].sequence < handling.todo[b].sequence

RequestsInv == requests = 0 => Queued("RequestRetransmission") = {}

\* A stream on which nothing failed carries whole objects; what it carries for
\* the first time is newer than all before, and only a retransmission repeats.
Whole(s) == \A i \in 1..Len(wire[s]) : wire[s][i].whole
InOrder(s) ==
    \A j \in 1..Len(wire[s]) :
        LET sent == wire[s][j].object
            before == {wire[s][i].object : i \in 1..(j - 1)}
        IN  sent \in before \/ \A o \in before : o.sequence < sent.sequence
Increasing(s) ==
    \A i, j \in 1..Len(wire[s]) :
        i < j => wire[s][i].object.sequence < wire[s][j].object.sequence

OrderInv ==
    \A s \in Subscriptions \ failed :
        Whole(s) /\ InOrder(s) /\ (requests = 0 => Increasing(s))

-----------------------------------------------------------------------------
(* get_range and the replay.                                               *)

\* The rank of a number in a finite set of numbers: from 1 to the size of the
\* set, each rank once, growing with the numbers.
LEMMA Ranks ==
    ASSUME NEW S \in SUBSET Nat, IsFiniteSet(S)
    PROVE  LET rank(s) == Cardinality({t \in S : t <= s})
           IN  /\ Cardinality(S) \in Nat
               /\ \A s \in S : rank(s) \in 1..Cardinality(S)
               /\ \A s, t \in S : s < t => rank(s) < rank(t)
               /\ \A i \in 1..Cardinality(S) : \E s \in S : rank(s) = i
<1> DEFINE upto(s) == {t \in S : t <= s}
           rank(s) == Cardinality(upto(s))
           n == Cardinality(S)
<1>1. n \in Nat
  BY FS_CardinalityType
<1>2. ASSUME NEW s \in S
      PROVE  /\ IsFiniteSet(upto(s)) /\ rank(s) \in 1..n
  <2>1. upto(s) \in SUBSET S /\ s \in upto(s)
    OBVIOUS
  <2>2. IsFiniteSet(upto(s)) /\ rank(s) <= n
    BY <2>1, FS_Subset
  <2>3. rank(s) \in Nat
    BY <2>2, FS_CardinalityType
  <2>4. rank(s) # 0
    BY <2>1, <2>2, FS_EmptySet
  <2> QED
    BY <1>1, <2>2, <2>3, <2>4
<1>3. ASSUME NEW s \in S, NEW t \in S, s < t
      PROVE  rank(s) < rank(t)
  <2>1. ASSUME NEW u \in S, u <= s PROVE u <= t
    <3>1. u \in Nat /\ s \in Nat /\ t \in Nat
      OBVIOUS
    <3> QED
      BY <1>3, <2>1, <3>1
  <2>2. /\ upto(s) \in SUBSET upto(t)
        /\ t \in upto(t)
        /\ t \notin upto(s)
    <3>1. upto(s) \in SUBSET upto(t)
      BY <2>1
    <3>2. t <= t /\ ~(t <= s)
      BY <1>3
    <3> QED
      BY <3>1, <3>2
  <2>3. rank(s) <= rank(t) /\ rank(s) # rank(t)
    BY <1>2, <2>2, FS_Subset
  <2> QED
    BY <1>2, <2>3
<1>4. ASSUME NEW i \in 1..n PROVE \E s \in S : rank(s) = i
  <2> DEFINE f == [s \in S |-> rank(s)]
  <2>1. f \in [S -> 1..n]
    BY <1>2
  <2>2. \A s, t \in S : rank(s) = rank(t) => s = t
    <3>1. \A s, t \in S : s \in Nat /\ t \in Nat /\ rank(s) \in Nat /\ rank(t) \in Nat
      BY <1>2
    <3> QED
      BY <1>3, <3>1
  <2>3. f \in Injection(S, 1..n)
    BY <2>1, <2>2 DEF Injection, IsInjective
  <2>4. IsFiniteSet(1..n) /\ Cardinality(1..n) = n
    BY <1>1, FS_Interval
  <2>5. f \in Surjection(S, 1..n)
    BY <2>3, <2>4, FS_Injection
  <2> QED
    BY <2>5 DEF Surjection
<1> QED
  BY <1>1, <1>2, <1>3, <1>4

\* get_range gives the objects of the sequences asked for, each once, in order
\* of sequence (retransmission_buffer.rs:146-151).
LEMMA GetRangeProperties ==
    ASSUME IndexInv, NEW S \in SUBSET Stored
    PROVE  LET r == GetRange(S)
           IN  /\ r \in Seq(Objects)
               /\ Elements(r) = {sequence_index[s] : s \in S}
               /\ \A i, j \in 1..Len(r) : i < j => r[i].sequence < r[j].sequence
<1> DEFINE rank(s) == Cardinality({t \in S : t <= s})
           n == Cardinality(S)
           at(i) == CHOOSE s \in S : rank(s) = i
           r == [i \in 1..n |-> sequence_index[at(i)]]
<1>1. S \in SUBSET Nat
  BY ObjectsAssumption DEF IndexInv, TypeOK, SequenceNumbers
<1>2. IsFiniteSet(S)
  BY FiniteStored, FS_Subset
<1>3. /\ n \in Nat
      /\ \A s \in S : rank(s) \in 1..n
      /\ \A s, t \in S : s < t => rank(s) < rank(t)
      /\ \A i \in 1..n : \E s \in S : rank(s) = i
  BY <1>1, <1>2, Ranks
<1>4. GetRange(S) = r
  BY DEF GetRange
<1>5. ASSUME NEW i \in 1..n PROVE at(i) \in S /\ rank(at(i)) = i
  BY <1>3
<1>6. \A s \in S : sequence_index[s] \in Objects /\ sequence_index[s].sequence = s
  BY DEF IndexInv, TypeOK, IndexesAgree
<1> HIDE DEF at, rank
<1>7. r \in [1..n -> Objects]
  BY <1>5, <1>6
<1>8. r \in Seq(Objects) /\ Len(r) = n
  BY <1>3, <1>7
<1>9. Elements(r) = {sequence_index[s] : s \in S}
  <2>1. ASSUME NEW s \in S PROVE \E i \in 1..n : at(i) = s
    <3>1. rank(s) \in 1..n /\ at(rank(s)) \in S /\ rank(at(rank(s))) = rank(s)
      BY <1>3, <1>5
    <3>2. at(rank(s)) \in Nat /\ s \in Nat
      BY <1>1, <3>1
    <3>3. at(rank(s)) = s
      BY <1>3, <3>1, <3>2
    <3> QED
      BY <3>1, <3>3
  <2> QED
    BY <1>5, <1>8, <2>1 DEF Elements
<1>10. ASSUME NEW i \in 1..n, NEW j \in 1..n, i < j
       PROVE  r[i].sequence < r[j].sequence
  <2>1. at(i) \in S /\ at(j) \in S /\ at(i) \in Nat /\ at(j) \in Nat
    BY <1>1, <1>5
  <2>2. at(i) # at(j) /\ ~(at(j) < at(i))
    BY <1>3, <1>5, <1>10, <2>1
  <2> QED
    BY <1>6, <2>1, <2>2
<1> QED
  BY <1>4, <1>8, <1>9, <1>10

-----------------------------------------------------------------------------
(* Types.                                                                  *)

\* The parts of ActorTypeOK.
QueueOK == cmd_rx \in Seq(Commands) /\ Len(cmd_rx) <= channel_size

SubscribersOK ==
    /\ DOMAIN subscribers \subseteq Nodes
    /\ \A n \in DOMAIN subscribers :
         subscribers[n] \in [group_id : MediaTypes, stream : Subscriptions \cup {NoStream}]

HandlingOK ==
    /\ \/ handling = Idle
       \/ /\ handling \in [task : {"publish"}, object : Objects, todo : SUBSET Nodes]
          /\ handling.todo \subseteq Matching(handling.object)
       \/ /\ handling \in [task : {"replay"}, node : Nodes, stream : Subscriptions,
                           todo : Seq(Objects)]
          /\ handling.node \in DOMAIN subscribers
    /\ adding # NoObject => handling.task = "publish" /\ handling.object = adding

WireOK ==
    /\ stream \in [Subscriptions -> {"unopened", "open", "stopped", "finished"}]
    /\ wire \in [Subscriptions -> Seq([object : Objects, whole : BOOLEAN])]
    /\ failed \subseteq Subscriptions
    /\ timeouts \in 0..MaxTimeouts

PeersOK ==
    /\ session \in [Subscriptions -> {"new", "subscribed", "streaming", "left"}]
    /\ published \in 0..Len(Published)
    /\ unsubscribed \subseteq UnsubscribeNodes
    /\ requests \in 0..MaxRequests /\ stops \in 0..MaxStops

LEMMA TypeParts ==
    TypeInv <=> IndexInv /\ QueueOK /\ SubscribersOK /\ HandlingOK /\ WireOK /\ PeersOK
BY DEF TypeInv, IndexInv, ActorTypeOK, QueueOK, SubscribersOK, HandlingOK, WireOK, PeersOK

LEMMA TypePartsNext ==
    TypeInv' <=> IndexInv' /\ QueueOK' /\ SubscribersOK' /\ HandlingOK' /\ WireOK' /\ PeersOK'
BY DEF TypeInv, IndexInv, ActorTypeOK, QueueOK, SubscribersOK, HandlingOK, WireOK, PeersOK

\* What a command of each kind carries.
LEMMA CommandFields ==
    ASSUME NEW cmd \in Commands
    PROVE  /\ cmd.op \in {"PublishObject", "Subscribe", "SetDataStream", "Unsubscribe",
                          "RequestRetransmission"}
           /\ cmd.op = "PublishObject" => cmd.object \in Objects
           /\ cmd.op # "PublishObject" => cmd.node_id \in Nodes
           /\ cmd.op = "Subscribe" => cmd.group_id \in MediaTypes
           /\ cmd.op = "SetDataStream" => cmd.stream \in Subscriptions
<1>1. CASE cmd \in {PublishObject(o) : o \in Objects}
  BY <1>1 DEF PublishObject
<1>2. CASE cmd \in {Subscribe(n, g) : n \in Nodes, g \in MediaTypes}
  BY <1>2 DEF Subscribe
<1>3. CASE cmd \in {SetDataStream(n, s) : n \in Nodes, s \in Subscriptions}
  BY <1>3 DEF SetDataStream
<1>4. CASE cmd \in {Unsubscribe(n) : n \in Nodes}
  BY <1>4 DEF Unsubscribe
<1>5. CASE cmd \in {RequestRetransmission(n, seq) : n \in Nodes, seq \in SequenceNumbers}
  BY <1>5 DEF RequestRetransmission
<1> QED
  BY <1>1, <1>2, <1>3, <1>4, <1>5 DEF Commands

\* A command is added at the end of the queue.
LEMMA EnqueueProperties ==
    ASSUME QueueOK, NEW cmd \in Commands, Enqueue(cmd)
    PROVE  /\ QueueOK'
           /\ Len(cmd_rx) \in Nat /\ Len(cmd_rx') = Len(cmd_rx) + 1
           /\ \A i \in 1..Len(cmd_rx) : cmd_rx'[i] = cmd_rx[i]
           /\ cmd_rx'[Len(cmd_rx) + 1] = cmd
<1>1. cmd_rx \in Seq(Commands) /\ Len(cmd_rx) < channel_size /\ cmd_rx' = Append(cmd_rx, cmd)
  BY DEF QueueOK, Enqueue
<1>2. Len(cmd_rx) \in Nat /\ channel_size \in Nat
  BY <1>1, LenProperties, ActorAssumption
<1>3. /\ cmd_rx' \in Seq(Commands) /\ Len(cmd_rx') = Len(cmd_rx) + 1
      /\ \A i \in 1..Len(cmd_rx) : cmd_rx'[i] = cmd_rx[i]
      /\ cmd_rx'[Len(cmd_rx) + 1] = cmd
  BY <1>1, AppendProperties
<1> QED
  BY <1>1, <1>2, <1>3 DEF QueueOK

\* A command is taken from its front.
LEMMA RecvProperties ==
    ASSUME QueueOK, NEW cmd, Recv(cmd)
    PROVE  /\ QueueOK'
           /\ handling = Idle
           /\ Len(cmd_rx) \in Nat \ {0} /\ Len(cmd_rx') = Len(cmd_rx) - 1
           /\ \A i \in 1..Len(cmd_rx') : cmd_rx'[i] = cmd_rx[i + 1]
           /\ cmd = cmd_rx[1] /\ cmd \in Commands
<1>1. /\ cmd_rx \in Seq(Commands) /\ cmd_rx # <<>> /\ Len(cmd_rx) <= channel_size
      /\ cmd = Head(cmd_rx) /\ cmd_rx' = Tail(cmd_rx) /\ handling = Idle
  BY DEF QueueOK, Recv
<1>2. Len(cmd_rx) \in Nat \ {0} /\ channel_size \in Nat
  BY <1>1, EmptySeq, ActorAssumption
<1>3. /\ Head(cmd_rx) \in Commands /\ Tail(cmd_rx) \in Seq(Commands)
      /\ Len(Tail(cmd_rx)) = Len(cmd_rx) - 1
      /\ \A i \in 1..Len(Tail(cmd_rx)) : Tail(cmd_rx)[i] = cmd_rx[i + 1]
  BY <1>1, HeadTailProperties
<1>4. Head(cmd_rx) = cmd_rx[1]
  BY <1>1
<1> QED
  BY <1>1, <1>2, <1>3, <1>4 DEF QueueOK

\* A write appends to one stream, or marks it failed.
LEMMA SendProperties ==
    ASSUME WireOK, NEW s \in Subscriptions, NEW o \in Objects,
           SendOk(s, o) \/ SendErr(s, o)
    PROVE  /\ WireOK'
           /\ stream' = stream /\ failed \subseteq failed'
           /\ \A t \in Subscriptions \ {s} : wire'[t] = wire[t]
           /\ Len(wire[s]) \in Nat
           /\ \/ /\ Len(wire'[s]) = Len(wire[s]) + 1
                 /\ \A i \in 1..Len(wire[s]) : wire'[s][i] = wire[s][i]
                 /\ wire'[s][Len(wire[s]) + 1].object = o
                 /\ wire'[s][Len(wire[s]) + 1].whole \/ s \in failed'
              \/ wire'[s] = wire[s] /\ s \in failed'
<1> DEFINE Entries == [object : Objects, whole : BOOLEAN]
<1>1. wire[s] \in Seq(Entries) /\ Len(wire[s]) \in Nat
  BY LenProperties DEF WireOK
<1>2. MaxTimeouts \in Nat
  BY ActorAssumption
<1>3. ASSUME NEW whole \in BOOLEAN, Written(s, o, whole)
      PROVE  /\ wire' \in [Subscriptions -> Seq(Entries)]
             /\ \A t \in Subscriptions \ {s} : wire'[t] = wire[t]
             /\ Len(wire'[s]) = Len(wire[s]) + 1
             /\ \A i \in 1..Len(wire[s]) : wire'[s][i] = wire[s][i]
             /\ wire'[s][Len(wire[s]) + 1].object = o
             /\ wire'[s][Len(wire[s]) + 1].whole = whole
  <2> DEFINE entry == [object |-> o, whole |-> whole]
  <2>1. entry \in Entries /\ entry.object = o /\ entry.whole = whole
    OBVIOUS
  <2>2. wire' = [wire EXCEPT ![s] = Append(wire[s], entry)]
    BY <1>3 DEF Written
  <2>3. wire'[s] = Append(wire[s], entry)
    BY <2>2 DEF WireOK
  <2> HIDE DEF entry
  <2>4. /\ Append(wire[s], entry) \in Seq(Entries)
        /\ Len(Append(wire[s], entry)) = Len(wire[s]) + 1
        /\ \A i \in 1..Len(wire[s]) : Append(wire[s], entry)[i] = wire[s][i]
        /\ Append(wire[s], entry)[Len(wire[s]) + 1] = entry
    BY <1>1, <2>1, AppendProperties
  <2>5. wire' \in [Subscriptions -> Seq(Entries)]
    BY <2>2, <2>4 DEF WireOK
  <2> QED
    BY <2>1, <2>2, <2>3, <2>4, <2>5 DEF WireOK
<1> DEFINE Appended ==
             /\ Len(wire'[s]) = Len(wire[s]) + 1
             /\ \A i \in 1..Len(wire[s]) : wire'[s][i] = wire[s][i]
             /\ wire'[s][Len(wire[s]) + 1].object = o
<1>4. CASE SendOk(s, o)
  <2>1. UNCHANGED <<stream, failed, timeouts>> /\ Written(s, o, TRUE)
    BY <1>4 DEF SendOk
  <2>2. Appended /\ wire'[s][Len(wire[s]) + 1].whole
    BY <1>3, <2>1
  <2>3. WireOK' /\ \A t \in Subscriptions \ {s} : wire'[t] = wire[t]
    BY <1>3, <2>1 DEF WireOK
  <2> QED
    BY <1>1, <2>1, <2>2, <2>3
<1>5. CASE SendErr(s, o)
  <2>1. stream' = stream /\ failed' = failed \cup {s}
    BY <1>5 DEF SendErr
  <2>2. timeouts' \in 0..MaxTimeouts
    <3>1. timeouts \in 0..MaxTimeouts
      BY DEF WireOK
    <3>2. timeouts' = timeouts \/ (timeouts < MaxTimeouts /\ timeouts' = timeouts + 1)
      BY <1>5 DEF SendErr
    <3> QED
      BY <1>2, <3>1, <3>2
  <2>3. CASE UNCHANGED wire
    BY <1>1, <2>1, <2>2, <2>3 DEF WireOK
  <2>4. CASE Written(s, o, FALSE)
    <3>1. Appended
      BY <1>3, <2>4
    <3>2. WireOK' /\ \A t \in Subscriptions \ {s} : wire'[t] = wire[t]
      BY <1>3, <2>1, <2>2, <2>4 DEF WireOK
    <3> QED
      BY <1>1, <2>1, <3>1, <3>2
  <2> QED
    BY <1>5, <2>3, <2>4 DEF SendErr
<1> QED
  BY <1>4, <1>5

LEMMA DropProperties ==
    ASSUME WireOK, NEW S, Drop(S), UNCHANGED <<wire, failed, timeouts>>
    PROVE  /\ WireOK'
           /\ \A s \in Subscriptions : stream'[s] = "open" => stream[s] = "open"
           /\ \A s \in Subscriptions : stream[s] = "unopened" => stream'[s] = "unopened"
BY DEF Drop, WireOK

LEMMA SubscriberProperties ==
    ASSUME SubscribersOK, NEW n \in Nodes, NEW g \in MediaTypes,
           NEW s \in Subscriptions \cup {NoStream}, Subscriber(n, g, s)
    PROVE  /\ SubscribersOK'
           /\ DOMAIN subscribers' = DOMAIN subscribers \cup {n}
           /\ subscribers'[n].group_id = g /\ subscribers'[n].stream = s
           /\ \A m \in DOMAIN subscribers \ {n} : subscribers'[m] = subscribers[m]
BY DEF Subscriber, SubscribersOK

LEMMA GetProperties ==
    ASSUME IndexInv, NEW seq, Get(seq) # NoObject
    PROVE  Get(seq) \in Buffered /\ Get(seq) \in Objects
BY DEF IndexInv, TypeOK, Get, Buffered

\* What is replayed is in the buffer.
LEMMA ReplayProperties ==
    ASSUME IndexInv, NEW g \in MediaTypes
    PROVE  Replay(g) \in Seq(Objects) /\ Elements(Replay(g)) \subseteq Buffered
<1> DEFINE init == Get(0)
           first == IF init # NoObject /\ init.group_id = MEDIA_TYPE_INIT
                       /\ GroupMatches(g, init.group_id) THEN <<init>> ELSE <<>>
           wanted == {seq \in Stored : GroupMatches(g, sequence_index[seq].group_id)}
           rest == IF total_objects = 0 THEN <<>> ELSE GetRange(wanted)
<1>1. Replay(g) = first \o rest
  BY DEF Replay
<1>2. first \in Seq(Objects) /\ Elements(first) \subseteq Buffered
  <2>1. CASE first = <<>>
    BY <2>1, EmptySeq DEF Elements
  <2>2. CASE first # <<>>
    <3>1. first = <<init>> /\ init # NoObject
      BY <2>2
    <3>2. init \in Objects /\ init \in Buffered
      BY <3>1, GetProperties
    <3> HIDE DEF first, init
    <3> QED
      BY <3>1, <3>2 DEF Elements
  <2> QED
    BY <2>1, <2>2
<1>3. rest \in Seq(Objects) /\ Elements(rest) \subseteq Buffered
  <2>1. CASE total_objects = 0
    BY <2>1, EmptySeq DEF Elements
  <2>2. CASE total_objects # 0
    <3>1. wanted \in SUBSET Stored
      OBVIOUS
    <3>2. GetRange(wanted) \in Seq(Objects)
          /\ Elements(GetRange(wanted)) = {sequence_index[s] : s \in wanted}
      BY <3>1, GetRangeProperties
    <3> QED
      BY <2>2, <3>2 DEF Buffered
  <2> QED
    BY <2>1, <2>2
<1> HIDE DEF first, rest
<1>4. /\ first \o rest \in Seq(Objects)
      /\ Len(first) \in Nat /\ Len(rest) \in Nat
      /\ Len(first \o rest) = Len(first) + Len(rest)
      /\ \A i \in 1..(Len(first) + Len(rest)) : (first \o rest)[i] =
            IF i <= Len(first) THEN first[i] ELSE rest[i - Len(first)]
  BY <1>2, <1>3, ConcatProperties, LenProperties
<1>5. ASSUME NEW i \in 1..(Len(first) + Len(rest)) PROVE (first \o rest)[i] \in Buffered
  <2>1. CASE i <= Len(first)
    BY <1>2, <1>4, <2>1 DEF Elements
  <2>2. CASE ~(i <= Len(first))
    <3>1. i - Len(first) \in 1..Len(rest)
      BY <1>4, <2>2
    <3> QED
      BY <1>3, <1>4, <2>2, <3>1 DEF Elements
  <2> QED
    BY <2>1, <2>2
<1> QED
  BY <1>1, <1>4, <1>5 DEF Elements

LEMMA HandlingKept == HandlingOK /\ UNCHANGED <<handling, subscribers, adding>> => HandlingOK'
BY DEF HandlingOK, Matching

LEMMA BufferKept == IndexInv /\ UNCHANGED bufferVars => IndexInv'
BY NextIndexInv

\* What an Idle actor may begin, and a busy one go on with.
LEMMA Tasks ==
    ASSUME HandlingOK
    PROVE  /\ handling = Idle => handling.task = "recv" /\ adding = NoObject
           /\ handling.task = "recv" => handling = Idle
           /\ handling.task = "publish" =>
                /\ handling \in [task : {"publish"}, object : Objects, todo : SUBSET Nodes]
                /\ handling.todo \subseteq Matching(handling.object)
           /\ handling.task = "replay" =>
                /\ handling \in [task : {"replay"}, node : Nodes, stream : Subscriptions,
                                 todo : Seq(Objects)]
                /\ handling.node \in DOMAIN subscribers
                /\ adding = NoObject
           /\ handling.task \in {"recv", "publish", "replay"}
<1>1. handling = Idle => handling.task = "recv"
  BY DEF Idle
<1>2. handling.task = "recv" => handling = Idle
  BY DEF HandlingOK
<1> QED
  BY <1>1, <1>2 DEF HandlingOK

\* The step of another task that puts a command into the queue.
Queueing(cmd) ==
    /\ cmd \in Commands /\ Enqueue(cmd)
    /\ \/ /\ UNCHANGED stream
       \/ \E s \in Subscriptions : stream' = [stream EXCEPT ![s] = "open"]
    /\ PeersOK'

LEMMA QueueingType == ASSUME TypeInv, NEW cmd, Queueing(cmd) PROVE TypeInv'
<1>1. IndexInv'
  BY BufferKept, TypeParts DEF Queueing, Enqueue
<1>2. QueueOK'
  BY EnqueueProperties, TypeParts DEF Queueing
<1>3. SubscribersOK'
  BY TypeParts DEF Queueing, Enqueue, SubscribersOK
<1>4. HandlingOK'
  BY HandlingKept, TypeParts DEF Queueing, Enqueue, bufferVars
<1>5. WireOK'
  BY TypeParts DEF Queueing, Enqueue, WireOK
<1> QED
  BY <1>1, <1>2, <1>3, <1>4, <1>5, TypePartsNext DEF Queueing

LEMMA ForwardQueueing ==
    ASSUME TypeInv, forward_object
    PROVE  /\ Queueing(PublishObject(Published[published + 1]))
           /\ published + 1 \in 1..Len(Published) /\ published \in Nat
<1>1. published \in 0..Len(Published) /\ published < Len(Published) /\ Len(Published) \in Nat
  BY TypeParts, LenProperties, ActorAssumption DEF forward_object, PeersOK
<1>2. Published[published + 1] \in Objects
  BY <1>1, ActorAssumption, ElementOfSeq
<1>3. PublishObject(Published[published + 1]) \in Commands
  BY <1>2 DEF Commands
<1>4. PeersOK'
  BY <1>1, TypeParts DEF forward_object, PeersOK
<1> QED
  BY <1>1, <1>3, <1>4 DEF forward_object, Queueing

LEMMA SubscribeQueueing ==
    ASSUME TypeInv, NEW s \in Subscriptions, handle_subscribe_message(s)
    PROVE  Queueing(Subscribe(NodeOf[s], GroupOf[s]))
<1>1. NodeOf[s] \in Nodes /\ GroupOf[s] \in MediaTypes
  BY ActorAssumption DEF Nodes
<1>2. Subscribe(NodeOf[s], GroupOf[s]) \in Commands
  BY <1>1 DEF Commands
<1>3. PeersOK'
  BY TypeParts DEF handle_subscribe_message, PeersOK
<1> QED
  BY <1>2, <1>3 DEF handle_subscribe_message, Queueing

LEMMA DataStreamQueueing ==
    ASSUME TypeInv, NEW s \in Subscriptions, handle_data_stream(s)
    PROVE  Queueing(SetDataStream(NodeOf[s], s))
<1>1. NodeOf[s] \in Nodes
  BY ActorAssumption DEF Nodes
<1>2. SetDataStream(NodeOf[s], s) \in Commands
  BY <1>1 DEF Commands
<1>3. PeersOK'
  BY TypeParts DEF handle_data_stream, PeersOK
<1> QED
  BY <1>2, <1>3 DEF handle_data_stream, Queueing

LEMMA RequestQueueing ==
    ASSUME TypeInv, NEW s \in Requesters, NEW seq \in SequenceNumbers,
           handle_request_message(s, seq)
    PROVE  Queueing(RequestRetransmission(NodeOf[s], seq))
<1>1. NodeOf[s] \in Nodes
  BY ActorAssumption DEF Nodes
<1>2. RequestRetransmission(NodeOf[s], seq) \in Commands
  BY <1>1 DEF Commands
<1>3. PeersOK'
  <2>1. requests' = requests + 1 /\ requests < MaxRequests /\ MaxRequests \in Nat
    BY ActorAssumption DEF handle_request_message
  <2> QED
    BY <2>1, TypeParts DEF handle_request_message, PeersOK
<1> QED
  BY <1>2, <1>3 DEF handle_request_message, Queueing

LEMMA UnsubscribeQueueing ==
    ASSUME TypeInv, NEW n \in UnsubscribeNodes, unsubscribe(n)
    PROVE  Queueing(Unsubscribe(n))
<1>1. Unsubscribe(n) \in Commands
  BY ActorAssumption DEF Commands
<1>2. PeersOK'
  BY TypeParts DEF unsubscribe, PeersOK
<1> QED
  BY <1>1, <1>2 DEF unsubscribe, Queueing

\* A subscriber leaves, or stops its stream.
PeerLeaves(s) == handle_unsubscribe_message(s) \/ peer_stops(s)

LEMMA PeerLeavesType ==
    ASSUME TypeInv, NEW s \in Subscriptions, PeerLeaves(s)
    PROVE  TypeInv'
<1>1. UNCHANGED <<bufferVars, cmd_rx, subscribers, handling, wire, failed, timeouts>>
  BY DEF PeerLeaves, handle_unsubscribe_message, peer_stops, streamVars
<1>2. IndexInv' /\ QueueOK' /\ SubscribersOK' /\ HandlingOK'
  BY <1>1, BufferKept, HandlingKept, TypeParts DEF QueueOK, SubscribersOK, bufferVars
<1>3. WireOK'
  BY <1>1, TypeParts DEF PeerLeaves, handle_unsubscribe_message, peer_stops, streamVars, WireOK
<1>4. PeersOK'
  <2>1. CASE handle_unsubscribe_message(s)
    BY <2>1, TypeParts DEF handle_unsubscribe_message, PeersOK
  <2>2. CASE peer_stops(s)
    <3>1. stops \in 0..MaxStops /\ stops < MaxStops /\ stops' = stops + 1 /\ MaxStops \in Nat
      BY <2>2, TypeParts, ActorAssumption DEF peer_stops, PeersOK
    <3> QED
      BY <2>2, <3>1, TypeParts DEF peer_stops, PeersOK
  <2> QED
    BY <2>1, <2>2 DEF PeerLeaves
<1> QED
  BY <1>2, <1>3, <1>4, TypePartsNext

-----------------------------------------------------------------------------
(* Types: the actor.                                                       *)

LEMMA PublishObjectType ==
    ASSUME TypeInv, NEW o \in Objects, handle_publish_object(o) PROVE TypeInv'
<1>1. QueueOK' /\ handling = Idle /\ adding = NoObject
  BY RecvProperties, Tasks, TypeParts DEF handle_publish_object
<1>2. IndexInv'
  BY BeginAddIndexInv, TypeParts DEF handle_publish_object
<1>3. SubscribersOK' /\ WireOK' /\ PeersOK'
  BY TypeParts DEF handle_publish_object, streamVars, peerVars, SubscribersOK, WireOK, PeersOK
<1>4. adding' \in {o, NoObject}
  BY <1>1 DEF handle_publish_object, BeginAdd, AddInitSegment, AddDuplicate, StartEviction,
              bufferVars
<1>5. Matching(o) \in SUBSET Nodes /\ Matching(o)' = Matching(o)
  BY TypeParts DEF Matching, SubscribersOK, handle_publish_object
<1>6. handling' = [task |-> "publish", object |-> o, todo |-> Matching(o)]
  BY DEF handle_publish_object, Publishing
<1>7. HandlingOK'
  BY <1>4, <1>5, <1>6 DEF HandlingOK, Matching
<1> QED
  BY <1>1, <1>2, <1>3, <1>7, TypePartsNext

LEMMA AddStepType == ASSUME TypeInv, AddStep PROVE TypeInv'
<1>1. IndexInv'
  BY NextIndexInv, TypeParts DEF AddStep, Next
<1>2. QueueOK' /\ SubscribersOK' /\ WireOK' /\ PeersOK'
  BY TypeParts DEF AddStep, streamVars, peerVars, QueueOK, SubscribersOK, WireOK, PeersOK
<1>3. adding' \in {adding, NoObject} /\ UNCHANGED <<handling, subscribers>>
  BY DEF AddStep, Evict, Insert
<1>4. HandlingOK'
  BY <1>3, TypeParts DEF HandlingOK, Matching
<1> QED
  BY <1>1, <1>2, <1>4, TypePartsNext

\* The stream of a turn of the loop, and the rest of the loop.
LEMMA FanOutProperties ==
    ASSUME TypeInv, NEW n \in Nodes, FanOut(n)
    PROVE  LET s == subscribers[n].stream
           IN  /\ handling.task = "publish" /\ adding = NoObject
               /\ n \in DOMAIN subscribers /\ n \in handling.todo
               /\ GroupMatches(subscribers[n].group_id, handling.object.group_id)
               /\ s \in Subscriptions /\ handling.object \in Objects
               /\ SendOk(s, handling.object) \/ SendErr(s, handling.object)
               /\ handling' = [task |-> "publish", object |-> handling.object,
                               todo |-> handling.todo \ {n}]
<1>1. /\ handling.task = "publish" /\ adding = NoObject /\ n \in handling.todo
      /\ handling' = [handling EXCEPT !.todo = handling.todo \ {n}]
  BY DEF FanOut
<1>2. /\ handling \in [task : {"publish"}, object : Objects, todo : SUBSET Nodes]
      /\ n \in Matching(handling.object)
  BY <1>1, Tasks, TypeParts
<1>3. handling' = [task |-> "publish", object |-> handling.object, todo |-> handling.todo \ {n}]
  BY <1>1, <1>2
<1>4. subscribers[n].stream \in Subscriptions
  BY <1>2, TypeParts DEF Matching, SubscribersOK
<1> QED
  BY <1>1, <1>2, <1>3, <1>4 DEF Matching, FanOut

LEMMA FanOutType == ASSUME TypeInv, NEW n \in Nodes, FanOut(n) PROVE TypeInv'
<1>1. /\ WireOK'
  BY FanOutProperties, SendProperties, TypeParts
<1>2. IndexInv' /\ QueueOK' /\ SubscribersOK' /\ PeersOK'
  BY BufferKept, TypeParts DEF FanOut, peerVars, QueueOK, SubscribersOK, PeersOK
<1>3. HandlingOK'
  <2>1. UNCHANGED <<subscribers, adding>>
    BY DEF FanOut, bufferVars
  <2>2. Matching(handling.object)' = Matching(handling.object)'
    OBVIOUS
  <2>3. handling.todo \subseteq Matching(handling.object) /\ handling.todo \subseteq Nodes
    BY FanOutProperties, Tasks, TypeParts
  <2> QED
    BY <2>1, <2>3, FanOutProperties, TypeParts DEF HandlingOK, Matching
<1> QED
  BY <1>1, <1>2, <1>3, TypePartsNext

LEMMA EndPublishType == ASSUME TypeInv, EndPublish PROVE TypeInv'
<1>1. IndexInv' /\ QueueOK' /\ SubscribersOK' /\ WireOK' /\ PeersOK'
  BY BufferKept, TypeParts
     DEF EndPublish, streamVars, peerVars, QueueOK, SubscribersOK, WireOK, PeersOK
<1>2. HandlingOK'
  BY DEF EndPublish, HandlingOK, bufferVars
<1> QED
  BY <1>1, <1>2, TypePartsNext

LEMMA SubscribeType ==
    ASSUME TypeInv, NEW n \in Nodes, NEW g \in MediaTypes, handle_subscribe(n, g)
    PROVE  TypeInv'
<1>1. QueueOK' /\ handling = Idle /\ adding = NoObject
  BY RecvProperties, Tasks, TypeParts DEF handle_subscribe
<1>2. IndexInv' /\ PeersOK'
  BY BufferKept, TypeParts DEF handle_subscribe, peerVars, PeersOK
<1>3. SubscribersOK'
  BY SubscriberProperties, TypeParts DEF handle_subscribe
<1>4. WireOK'
  BY DropProperties, TypeParts DEF handle_subscribe
<1>5. HandlingOK'
  BY <1>1 DEF HandlingOK, handle_subscribe, bufferVars
<1> QED
  BY <1>1, <1>2, <1>3, <1>4, <1>5, TypePartsNext

LEMMA SetDataStreamType ==
    ASSUME TypeInv, NEW s \in Subscriptions, handle_set_data_stream(NodeOf[s], s)
    PROVE  TypeInv'
<1> DEFINE n == NodeOf[s]
<1>1. QueueOK' /\ handling = Idle /\ adding = NoObject
  BY RecvProperties, Tasks, TypeParts DEF handle_set_data_stream
<1>2. IndexInv' /\ PeersOK' /\ SubscribersOK'
  BY BufferKept, TypeParts DEF handle_set_data_stream, peerVars, PeersOK, SubscribersOK
<1>3. CASE n \in DOMAIN subscribers
  <2>1. WireOK'
    BY <1>3, TypeParts DEF handle_set_data_stream, WireOK
  <2>2. subscribers[n].group_id \in MediaTypes /\ n \in Nodes
    BY <1>3, TypeParts DEF SubscribersOK
  <2>3. Replay(subscribers[n].group_id) \in Seq(Objects)
    BY <2>2, ReplayProperties, TypeParts
  <2>4. handling' = [task |-> "replay", node |-> n, stream |-> s,
                     todo |-> Replay(subscribers[n].group_id)]
    BY <1>3 DEF handle_set_data_stream, Replaying
  <2>5. HandlingOK'
    BY <1>1, <1>3, <2>2, <2>3, <2>4 DEF HandlingOK, handle_set_data_stream, bufferVars
  <2> QED
    BY <1>1, <1>2, <2>1, <2>5, TypePartsNext
<1>4. CASE n \notin DOMAIN subscribers
  <2>1. WireOK'
    BY <1>4, DropProperties, TypeParts DEF handle_set_data_stream
  <2>2. HandlingOK'
    BY <1>1, <1>4 DEF HandlingOK, handle_set_data_stream, bufferVars
  <2> QED
    BY <1>1, <1>2, <2>1, <2>2, TypePartsNext
<1> QED
  BY <1>3, <1>4

\* The object replayed next, and the rest of the replay.
LEMMA ReplayNextProperties ==
    ASSUME TypeInv, ReplayNext
    PROVE  LET s == handling.stream
               todo == handling.todo
               o == todo[1]
           IN  /\ handling.task = "replay" /\ adding = NoObject
               /\ s \in Subscriptions /\ o \in Objects
               /\ todo \in Seq(Objects) /\ Len(todo) \in Nat \ {0}
               /\ SendOk(s, o) \/ SendErr(s, o)
               /\ handling'.task = "replay" /\ handling'.stream = s
               /\ handling'.node = handling.node
               /\ handling' \in [task : {"replay"}, node : Nodes, stream : Subscriptions,
                                 todo : Seq(Objects)]
               /\ \/ /\ Len(handling'.todo) = Len(todo) - 1
                     /\ \A i \in 1..(Len(todo) - 1) : handling'.todo[i] = todo[i + 1]
                  \/ handling'.todo = <<>> /\ s \in failed'
<1> DEFINE todo == handling.todo
           o == Head(todo)
           Shape == [task : {"replay"}, node : Nodes, stream : Subscriptions,
                     todo : Seq(Objects)]
<1>1. /\ handling.task = "replay" /\ adding = NoObject /\ handling \in Shape /\ todo # <<>>
  BY Tasks, TypeParts DEF ReplayNext
<1>2. /\ todo \in Seq(Objects) /\ Len(todo) \in Nat \ {0}
      /\ o \in Objects /\ o = todo[1]
      /\ Tail(todo) \in Seq(Objects) /\ Len(Tail(todo)) = Len(todo) - 1
      /\ \A i \in 1..(Len(todo) - 1) : Tail(todo)[i] = todo[i + 1]
  <2>1. todo \in Seq(Objects)
    BY <1>1
  <2>2. Head(todo) = todo[1]
    BY <1>1, <2>1
  <2> HIDE DEF todo
  <2> QED
    BY <1>1, <2>1, <2>2, EmptySeq, HeadTailProperties
<1>3. ASSUME NEW rest \in Seq(Objects), handling' = [handling EXCEPT !.todo = rest]
      PROVE  /\ handling' \in Shape /\ handling'.task = "replay" /\ handling'.todo = rest
             /\ handling'.stream = handling.stream /\ handling'.node = handling.node
  BY <1>1, <1>3
<1>4. CASE SendOk(handling.stream, o) /\ handling' = [handling EXCEPT !.todo = Tail(todo)]
  BY <1>1, <1>2, <1>3, <1>4
<1>5. CASE /\ SendErr(handling.stream, o)
           /\ handling' = [handling EXCEPT !.todo =
                             IF o.group_id = MEDIA_TYPE_INIT THEN Tail(todo) ELSE <<>>]
  <2>1. handling.stream \in failed'
    BY <1>5 DEF SendErr
  <2>2. CASE o.group_id = MEDIA_TYPE_INIT
    BY <1>1, <1>2, <1>3, <1>5, <2>2
  <2>3. CASE o.group_id # MEDIA_TYPE_INIT
    <3>1. <<>> \in Seq(Objects)
      BY EmptySeq
    <3> QED
      BY <1>1, <1>2, <1>3, <1>5, <2>1, <2>3, <3>1
  <2> QED
    BY <2>2, <2>3
<1> QED
  BY <1>4, <1>5 DEF ReplayNext

LEMMA ReplayNextType == ASSUME TypeInv, ReplayNext PROVE TypeInv'
<1>1. WireOK'
  BY ReplayNextProperties, SendProperties, TypeParts
<1>2. IndexInv' /\ QueueOK' /\ SubscribersOK' /\ PeersOK'
  BY BufferKept, TypeParts DEF ReplayNext, peerVars, QueueOK, SubscribersOK, PeersOK
<1>3. handling.node \in DOMAIN subscribers
  BY ReplayNextProperties, Tasks, TypeParts
<1>4. HandlingOK'
  BY <1>3, ReplayNextProperties DEF HandlingOK, ReplayNext, bufferVars
<1> QED
  BY <1>1, <1>2, <1>4, TypePartsNext

\* The stream that is stored, and for whom.
LEMMA StoreStreamProperties ==
    ASSUME TypeInv, StoreStream
    PROVE  LET n == handling.node
           IN  /\ handling.task = "replay" /\ handling.todo = <<>> /\ adding = NoObject
               /\ n \in DOMAIN subscribers /\ n \in Nodes /\ handling.stream \in Subscriptions
               /\ subscribers[n].group_id \in MediaTypes
               /\ Subscriber(n, subscribers[n].group_id, handling.stream)
               /\ Drop(StreamOf(n))
               /\ handling' = Idle
<1>1. /\ handling \in [task : {"replay"}, node : Nodes, stream : Subscriptions,
                       todo : Seq(Objects)]
      /\ handling.node \in DOMAIN subscribers /\ adding = NoObject
  BY Tasks, TypeParts DEF StoreStream
<1>2. subscribers[handling.node].group_id \in MediaTypes
  BY <1>1, TypeParts DEF SubscribersOK
<1> QED
  BY <1>1, <1>2 DEF StoreStream

LEMMA StoreStreamType == ASSUME TypeInv, StoreStream PROVE TypeInv'
<1>1. IndexInv' /\ QueueOK' /\ PeersOK'
  BY BufferKept, TypeParts DEF StoreStream, peerVars, QueueOK, PeersOK
<1>2. SubscribersOK'
  BY StoreStreamProperties, SubscriberProperties, TypeParts
<1>3. WireOK'
  BY StoreStreamProperties, DropProperties, TypeParts DEF StoreStream
<1>4. HandlingOK'
  BY StoreStreamProperties DEF HandlingOK, StoreStream, bufferVars
<1> QED
  BY <1>1, <1>2, <1>3, <1>4, TypePartsNext

LEMMA UnsubscribeType ==
    ASSUME TypeInv, NEW n \in Nodes, handle_unsubscribe(n) PROVE TypeInv'
<1>1. QueueOK' /\ handling = Idle /\ adding = NoObject
  BY RecvProperties, Tasks, TypeParts DEF handle_unsubscribe
<1>2. IndexInv' /\ PeersOK'
  BY BufferKept, TypeParts DEF handle_unsubscribe, peerVars, PeersOK
<1>3. SubscribersOK'
  BY TypeParts DEF handle_unsubscribe, SubscribersOK
<1>4. WireOK'
  BY DropProperties, TypeParts DEF handle_unsubscribe
<1>5. HandlingOK'
  BY <1>1 DEF HandlingOK, handle_unsubscribe, bufferVars
<1> QED
  BY <1>1, <1>2, <1>3, <1>4, <1>5, TypePartsNext

\* A retransmission writes to the stream of a subscriber, or nothing.
LEMMA RetransmissionProperties ==
    ASSUME TypeInv, NEW n \in Nodes, NEW seq, handle_retransmission_request(n, seq)
    PROVE  /\ handling = Idle /\ UNCHANGED <<bufferVars, subscribers, handling, peerVars>>
           /\ \/ UNCHANGED streamVars
              \/ LET s == subscribers[n].stream
                 IN  /\ n \in DOMAIN subscribers /\ s \in Subscriptions
                     /\ Get(seq) \in Objects /\ Get(seq) \in Due(subscribers[n].group_id)
                     /\ SendOk(s, Get(seq)) \/ SendErr(s, Get(seq))
<1>1. handling = Idle /\ UNCHANGED <<bufferVars, subscribers, handling, peerVars>>
  BY DEF handle_retransmission_request, Recv
<1>2. CASE Retransmittable(n, seq)
  <2>1. n \in DOMAIN subscribers /\ subscribers[n].stream \in Subscriptions
    BY <1>2, TypeParts DEF Retransmittable, SubscribersOK
  <2>2. Get(seq) \in Objects /\ Get(seq) \in Due(subscribers[n].group_id)
    BY <1>2, GetProperties, TypeParts DEF Retransmittable, Due
  <2> QED
    BY <1>1, <1>2, <2>1, <2>2 DEF handle_retransmission_request
<1>3. CASE ~Retransmittable(n, seq)
  BY <1>1, <1>3 DEF handle_retransmission_request
<1> QED
  BY <1>2, <1>3

LEMMA RetransmissionType ==
    ASSUME TypeInv, NEW n \in Nodes, NEW seq, handle_retransmission_request(n, seq)
    PROVE  TypeInv'
<1>1. QueueOK' /\ handling = Idle /\ adding = NoObject
  BY RecvProperties, Tasks, TypeParts DEF handle_retransmission_request
<1>2. IndexInv' /\ PeersOK' /\ SubscribersOK'
  BY BufferKept, TypeParts DEF handle_retransmission_request, peerVars, PeersOK, SubscribersOK
<1>3. WireOK'
  <2>1. CASE UNCHANGED streamVars
    BY <2>1, TypeParts DEF streamVars, WireOK
  <2>2. CASE ~UNCHANGED streamVars
    BY <2>2, RetransmissionProperties, SendProperties, TypeParts
  <2> QED
    BY <2>1, <2>2
<1>4. HandlingOK'
  BY <1>1 DEF HandlingOK, handle_retransmission_request, bufferVars
<1> QED
  BY <1>1, <1>2, <1>3, <1>4, TypePartsNext

LEMMA ActorInitType == ActorInit => TypeInv
<1> SUFFICES ASSUME ActorInit PROVE TypeInv
  OBVIOUS
<1>1. IndexInv
  BY InitIndexInv DEF ActorInit, Init
<1>2. QueueOK
  BY EmptySeq, ActorAssumption DEF ActorInit, QueueOK
<1>3. SubscribersOK /\ HandlingOK
  BY DEF ActorInit, NewBuffer, EmptyMap, SubscribersOK, HandlingOK
<1>4. WireOK /\ PeersOK
  <2>1. Len(Published) \in Nat /\ MaxRequests \in Nat /\ MaxTimeouts \in Nat /\ MaxStops \in Nat
    BY ActorAssumption, LenProperties
  <2> QED
    BY <2>1, EmptySeq DEF ActorInit, WireOK, PeersOK
<1> QED
  BY <1>1, <1>2, <1>3, <1>4, TypeParts

LEMMA ActorNextType == TypeInv /\ [ActorNext]_actorVars => TypeInv'
<1> SUFFICES ASSUME TypeInv, [ActorNext]_actorVars PROVE TypeInv'
  OBVIOUS
<1>1. CASE ActorStep
  BY <1>1, PublishObjectType, AddStepType, FanOutType, EndPublishType, SubscribeType,
     SetDataStreamType, ReplayNextType, StoreStreamType, UnsubscribeType,
     RetransmissionType DEF ActorStep
<1>2. CASE forward_object
  BY <1>2, ForwardQueueing, QueueingType
<1>3. CASE \E s \in Subscriptions : handle_subscribe_message(s)
  BY <1>3, SubscribeQueueing, QueueingType
<1>4. CASE \E s \in Subscriptions : handle_data_stream(s)
  BY <1>4, DataStreamQueueing, QueueingType
<1>5. CASE \E s \in Subscriptions : PeerLeaves(s)
  BY <1>5, PeerLeavesType
<1>6. CASE \E s \in Requesters, seq \in SequenceNumbers : handle_request_message(s, seq)
  BY <1>6, RequestQueueing, QueueingType
<1>7. CASE \E n \in UnsubscribeNodes : unsubscribe(n)
  BY <1>7, UnsubscribeQueueing, QueueingType
<1>8. CASE UNCHANGED actorVars
  <2>1. IndexInv'
    BY <1>8, BufferKept, TypeParts DEF actorVars
  <2>2. HandlingOK'
    BY <1>8, HandlingKept, TypeParts DEF actorVars, bufferVars
  <2>3. QueueOK' /\ SubscribersOK' /\ WireOK' /\ PeersOK'
    BY <1>8, TypeParts DEF actorVars, streamVars, peerVars, QueueOK, SubscribersOK, WireOK, PeersOK
  <2> QED
    BY <2>1, <2>2, <2>3, TypePartsNext
<1> QED
  BY <1>1, <1>2, <1>3, <1>4, <1>5, <1>6, <1>7, <1>8 DEF ActorNext, PeerLeaves

\* Every value of the actor and of its queue keeps its type, a handler only
\* works for a registered subscriber, and the actor's buffer stays consistent
\* while its objects are published and replayed (engine.rs:395-576).
THEOREM ActorTypeCorrect == ActorSpec => [](ActorTypeOK /\ IndexesAgree)
<1>1. TypeInv => ActorTypeOK /\ IndexesAgree
  BY DEF TypeInv, IndexInv
<1> QED
  BY <1>1, ActorInitType, ActorNextType, PTL DEF ActorSpec

-----------------------------------------------------------------------------
(* Positions in the queue after a step.                                    *)

LEMMA QueuedAfterRecv ==
    ASSUME QueueOK, NEW cmd, Recv(cmd), NEW op
    PROVE  /\ \A i \in Queued(op)' : /\ i \in Nat /\ i + 1 \in Queued(op)
                                     /\ cmd_rx'[i] = cmd_rx[i + 1]
           /\ \A i \in Queued(op) : /\ i \in Nat
                                    /\ i = 1 => cmd = cmd_rx[i] /\ cmd.op = op
                                    /\ i # 1 => i - 1 \in Queued(op)'
                                                /\ cmd_rx'[i - 1] = cmd_rx[i]
<1>1. /\ Len(cmd_rx) \in Nat \ {0} /\ Len(cmd_rx') = Len(cmd_rx) - 1
      /\ \A i \in 1..Len(cmd_rx') : cmd_rx'[i] = cmd_rx[i + 1]
      /\ cmd = cmd_rx[1]
  BY RecvProperties
<1> QED
  BY <1>1 DEF Queued

LEMMA QueuedAfterEnqueue ==
    ASSUME QueueOK, NEW cmd \in Commands, Enqueue(cmd), NEW op
    PROVE  /\ Len(cmd_rx) \in Nat /\ Len(cmd_rx') = Len(cmd_rx) + 1
           /\ \A i \in Queued(op)' :
                /\ i \in Nat
                /\ \/ i \in Queued(op) /\ cmd_rx'[i] = cmd_rx[i] /\ i <= Len(cmd_rx)
                   \/ i = Len(cmd_rx) + 1 /\ cmd_rx'[i] = cmd /\ cmd.op = op
           /\ \A i \in Queued(op) : /\ i \in Queued(op)' /\ i \in Nat /\ i <= Len(cmd_rx)
                                    /\ cmd_rx'[i] = cmd_rx[i]
           /\ cmd.op = op => /\ Len(cmd_rx) + 1 \in Queued(op)'
                             /\ cmd_rx'[Len(cmd_rx) + 1] = cmd
<1>1. /\ Len(cmd_rx) \in Nat /\ Len(cmd_rx') = Len(cmd_rx) + 1
      /\ \A i \in 1..Len(cmd_rx) : cmd_rx'[i] = cmd_rx[i]
      /\ cmd_rx'[Len(cmd_rx) + 1] = cmd
  BY EnqueueProperties
<1> QED
  BY <1>1 DEF Queued

\* What a queued command of each kind carries.
LEMMA QueuedFields ==
    ASSUME QueueOK
    PROVE  /\ \A i \in Queued("PublishObject") : cmd_rx[i].object \in Objects
           /\ \A i \in Queued("SetDataStream") : cmd_rx[i].stream \in Subscriptions
<1>1. \A op : \A i \in Queued(op) : cmd_rx[i] \in Commands /\ cmd_rx[i].op = op
  BY ElementOfSeq DEF QueueOK, Queued
<1> QED
  BY <1>1, CommandFields

\* A step of the actor takes one command, or is in the middle of one.
LEMMA ActorStepQueue ==
    ASSUME ActorStep
    PROVE  UNCHANGED cmd_rx \/ \E cmd : Recv(cmd)
BY DEF ActorStep, handle_publish_object, AddStep, FanOut, EndPublish, handle_subscribe,
       handle_set_data_stream, ReplayNext, StoreStream, handle_unsubscribe,
       handle_retransmission_request

LEMMA ActorStepPeers == ASSUME ActorStep PROVE UNCHANGED peerVars
BY DEF ActorStep, handle_publish_object, AddStep, FanOut, EndPublish, handle_subscribe,
       handle_set_data_stream, ReplayNext, StoreStream, handle_unsubscribe,
       handle_retransmission_request

-----------------------------------------------------------------------------
(* Owners of data streams.                                                 *)

\* A step that takes at most one command keeps OwnersInv if it uses no new
\* stream but the one of that command, and writes to streams in use only.
LEMMA OwnersKept ==
    ASSUME TypeInv, OwnersInv, UNCHANGED session, OwnStream',
           UNCHANGED cmd_rx \/ \E cmd : Recv(cmd),
           \A s \in Subscriptions : stream[s] = "unopened" => stream'[s] = "unopened",
           \A s \in Subscriptions : wire'[s] = wire[s] \/ Used(s),
           \A s \in Subscriptions : Used(s)' =>
              Used(s) \/ \E cmd : Recv(cmd) /\ cmd.op = "SetDataStream" /\ cmd.stream = s
    PROVE  OwnersInv'
<1>1. ASSUME NEW s \in Subscriptions, Used(s)', ~Used(s)
      PROVE  /\ 1 \in Queued("SetDataStream") /\ cmd_rx[1].stream = s
             /\ Len(cmd_rx) \in Nat /\ Len(cmd_rx') = Len(cmd_rx) - 1
  <2>1. PICK cmd : Recv(cmd) /\ cmd.op = "SetDataStream" /\ cmd.stream = s
    BY <1>1
  <2>2. QueueOK
    BY TypeParts
  <2>3. cmd = cmd_rx[1] /\ Len(cmd_rx) \in Nat \ {0} /\ Len(cmd_rx') = Len(cmd_rx) - 1
    BY <2>1, <2>2, RecvProperties
  <2> QED
    BY <2>1, <2>3 DEF Queued
\* The commands that are left were further back in the queue.
<1> DEFINE before(i) == IF UNCHANGED cmd_rx THEN i ELSE i + 1
<1>2. ASSUME NEW i \in Queued("SetDataStream")'
      PROVE  /\ i \in Nat /\ before(i) \in Queued("SetDataStream")
             /\ i >= 1 /\ cmd_rx'[i] = cmd_rx[before(i)]
  <2>1. CASE UNCHANGED cmd_rx
    BY <2>1 DEF Queued
  <2>2. CASE ~UNCHANGED cmd_rx
    <3>1. PICK cmd : Recv(cmd)
      BY <2>2
    <3>2. QueueOK
      BY TypeParts
    <3>3. i >= 1
      BY DEF Queued
    <3> QED
      BY <2>2, <3>1, <3>2, <3>3, QueuedAfterRecv
  <2> QED
    BY <2>1, <2>2
<1>3. ASSUME NEW i \in Queued("SetDataStream")', NEW s, s = cmd_rx'[i].stream
      PROVE  /\ s \in Subscriptions /\ cmd_rx'[i].node_id = NodeOf[s]
             /\ wire'[s] = <<>> /\ ~Used(s) /\ ~Used(s)'
  <2>1. before(i) \in Queued("SetDataStream") /\ cmd_rx[before(i)] = cmd_rx'[i] /\ i \in Nat
        /\ i >= 1
    BY <1>2
  <2> HIDE DEF before
  <2>2. s \in Subscriptions
    BY <1>3, <2>1, QueuedFields, TypeParts
  <2>3. cmd_rx'[i].node_id = NodeOf[s] /\ wire[s] = <<>> /\ ~Used(s)
    BY <1>3, <2>1 DEF OwnersInv, QueuedOnce
  <2>4. ASSUME Used(s)' PROVE FALSE
    <3>1. /\ 1 \in Queued("SetDataStream") /\ cmd_rx[1].stream = s
          /\ Len(cmd_rx) \in Nat /\ Len(cmd_rx') = Len(cmd_rx) - 1
      BY <1>1, <2>2, <2>3, <2>4
    <3>2. before(i) = 1
      BY <1>3, <2>1, <3>1 DEF OwnersInv, QueuedOnce
    <3>3. cmd_rx' # cmd_rx
      BY <3>1
    <3>4. before(i) = i + 1
      BY <3>3 DEF before
    <3> QED
      BY <2>1, <3>2, <3>4
  <2> QED
    BY <2>2, <2>3, <2>4
<1>4. ASSUME NEW i \in Queued("SetDataStream")', NEW j \in Queued("SetDataStream")',
             cmd_rx'[i].stream = cmd_rx'[j].stream
      PROVE  i = j
  <2>1. /\ before(i) \in Queued("SetDataStream") /\ before(j) \in Queued("SetDataStream")
        /\ cmd_rx[before(i)].stream = cmd_rx[before(j)].stream /\ i \in Nat /\ j \in Nat
    BY <1>2, <1>4
  <2>2. before(i) = before(j) => i = j
    BY <2>1
  <2> HIDE DEF before
  <2> QED
    BY <2>1, <2>2 DEF OwnersInv, QueuedOnce
<1>5. UnopenedUnknown'
  <2>1. SUFFICES ASSUME NEW s \in Subscriptions, session[s] \in {"new", "subscribed"}
                 PROVE  /\ stream'[s] = "unopened" /\ wire'[s] = <<>> /\ ~Used(s)'
                        /\ \A i \in Queued("SetDataStream")' : cmd_rx'[i].stream # s
    BY DEF UnopenedUnknown
  <2>2. /\ stream[s] = "unopened" /\ wire[s] = <<>> /\ ~Used(s)
        /\ \A i \in Queued("SetDataStream") : cmd_rx[i].stream # s
    BY <2>1 DEF OwnersInv, UnopenedUnknown
  <2>3. \A i \in Queued("SetDataStream")' : cmd_rx'[i].stream # s
    BY <1>2, <2>2
  <2>4. ~Used(s)'
    BY <1>1, <2>2
  <2> QED
    BY <2>2, <2>3, <2>4
<1>6. QueuedOnce'
  <2>1. ASSUME NEW i \in Queued("SetDataStream")'
        PROVE  /\ cmd_rx'[i].node_id = NodeOf[cmd_rx'[i].stream]
               /\ wire'[cmd_rx'[i].stream] = <<>> /\ ~Used(cmd_rx[i].stream)'
    BY <1>3 DEF Used, InUse
  <2>2. \A i, j \in Queued("SetDataStream")' : cmd_rx'[i].stream = cmd_rx'[j].stream => i = j
    BY <1>4
  <2> QED
    BY <2>1, <2>2 DEF QueuedOnce
<1> QED
  BY <1>5, <1>6 DEF OwnersInv

LEMMA QueueingOwners ==
    ASSUME TypeInv, OwnersInv, NEW cmd, Queueing(cmd), cmd.op # "SetDataStream",
           UNCHANGED stream,
           \A s \in Subscriptions : session'[s] \in {"new", "subscribed"} =>
                                    session[s] \in {"new", "subscribed"}
    PROVE  OwnersInv'
<1>1. UNCHANGED <<subscribers, handling, wire, stream>>
  BY DEF Queueing, Enqueue
<1>2. \A s : Used(s)' = Used(s)
  BY <1>1 DEF Used, InUse
<1>3. \A i \in Queued("SetDataStream")' :
         i \in Queued("SetDataStream") /\ cmd_rx'[i] = cmd_rx[i]
  BY QueuedAfterEnqueue, TypeParts DEF Queueing
<1>4. UnopenedUnknown'
  BY <1>1, <1>2, <1>3 DEF OwnersInv, UnopenedUnknown
<1>5. QueuedOnce'
  BY <1>1, <1>2, <1>3 DEF OwnersInv, QueuedOnce
<1>6. OwnStream'
  BY <1>1 DEF OwnersInv, OwnStream
<1> QED
  BY <1>4, <1>5, <1>6 DEF OwnersInv

LEMMA DataStreamOwners ==
    ASSUME TypeInv, OwnersInv, NEW s \in Subscriptions, handle_data_stream(s)
    PROVE  OwnersInv'
<1> DEFINE cmd == SetDataStream(NodeOf[s], s)
<1>1. UNCHANGED <<subscribers, handling, wire>>
  BY DEF handle_data_stream, Enqueue
<1>2. \A t : Used(t)' = Used(t)
  BY <1>1 DEF Used, InUse
<1>3. /\ stream[s] = "unopened" /\ wire[s] = <<>> /\ ~Used(s)
      /\ \A i \in Queued("SetDataStream") : cmd_rx[i].stream # s
  BY DEF handle_data_stream, OwnersInv, UnopenedUnknown
<1>4. cmd.op = "SetDataStream" /\ cmd.node_id = NodeOf[s] /\ cmd.stream = s
  BY DEF SetDataStream
<1>5. cmd \in Commands /\ Enqueue(cmd) /\ QueueOK
  BY DataStreamQueueing, TypeParts DEF Queueing
<1> HIDE DEF cmd
<1>6. \A i \in Queued("SetDataStream")' :
         \/ i \in Queued("SetDataStream") /\ cmd_rx'[i] = cmd_rx[i]
         \/ i = Len(cmd_rx) + 1 /\ cmd_rx'[i] = cmd
  BY <1>5, QueuedAfterEnqueue
<1>7. \A t \in Subscriptions : session'[t] \in {"new", "subscribed"} =>
         session[t] \in {"new", "subscribed"} /\ t # s /\ stream'[t] = stream[t]
  BY TypeParts DEF handle_data_stream, PeersOK, WireOK
<1>8. UnopenedUnknown'
  BY <1>1, <1>2, <1>4, <1>6, <1>7 DEF OwnersInv, UnopenedUnknown
<1>9. QueuedOnce'
  BY <1>1, <1>2, <1>3, <1>4, <1>6 DEF OwnersInv, QueuedOnce
<1>10. OwnStream'
  BY <1>1 DEF OwnersInv, OwnStream
<1> QED
  BY <1>8, <1>9, <1>10 DEF OwnersInv

LEMMA PeerLeavesOwners ==
    ASSUME TypeInv, OwnersInv, NEW s \in Subscriptions, PeerLeaves(s)
    PROVE  OwnersInv'
<1>1. UNCHANGED <<cmd_rx, subscribers, handling, wire>>
  BY DEF PeerLeaves, handle_unsubscribe_message, peer_stops, streamVars
<1>2. \A t : Used(t)' = Used(t)
  BY <1>1 DEF Used, InUse
<1>3. \A t \in Subscriptions : session'[t] \in {"new", "subscribed"} =>
         session[t] \in {"new", "subscribed"}
  BY TypeParts DEF PeerLeaves, handle_unsubscribe_message, peer_stops, PeersOK
<1>4. \A t \in Subscriptions : stream[t] = "unopened" => stream'[t] = "unopened"
  BY TypeParts DEF PeerLeaves, handle_unsubscribe_message, peer_stops, streamVars, WireOK
<1>5. Queued("SetDataStream")' = Queued("SetDataStream")
  BY <1>1 DEF Queued
<1>6. UnopenedUnknown'
  BY <1>1, <1>2, <1>3, <1>4, <1>5 DEF OwnersInv, UnopenedUnknown
<1>7. QueuedOnce' /\ OwnStream'
  BY <1>1, <1>2, <1>5 DEF OwnersInv, QueuedOnce, OwnStream
<1> QED
  BY <1>6, <1>7 DEF OwnersInv

LEMMA ActorStepOwners == ASSUME TypeInv, OwnersInv, ActorStep PROVE OwnersInv'
<1>1. UNCHANGED session /\ (UNCHANGED cmd_rx \/ \E cmd : Recv(cmd))
  BY ActorStepQueue, ActorStepPeers DEF peerVars
<1> DEFINE NewlyUsed(s) == \E cmd : Recv(cmd) /\ cmd.op = "SetDataStream" /\ cmd.stream = s
           Conditions ==
             /\ OwnStream'
             /\ \A s \in Subscriptions : stream[s] = "unopened" => stream'[s] = "unopened"
             /\ \A s \in Subscriptions : wire'[s] = wire[s] \/ Used(s)
             /\ \A s \in Subscriptions : Used(s)' => Used(s) \/ NewlyUsed(s)
<1> SUFFICES Conditions
  BY <1>1, OwnersKept
<1>2. ASSUME NEW s \in Subscriptions, NEW o \in Objects, Used(s),
             SendOk(s, o) \/ SendErr(s, o)
      PROVE  /\ stream' = stream
             /\ \A t \in Subscriptions : wire'[t] = wire[t] \/ Used(t)
  BY <1>2, SendProperties, TypeParts
<1>3. CASE \E o \in Objects : handle_publish_object(o)
  <2>1. UNCHANGED <<subscribers, streamVars>> /\ handling'.task = "publish"
    BY <1>3 DEF handle_publish_object, Publishing
  <2> QED
    BY <2>1 DEF streamVars, OwnersInv, OwnStream, Used, InUse
<1>4. CASE AddStep
  BY <1>4 DEF AddStep, streamVars, OwnersInv, OwnStream, Used, InUse
<1>5. CASE \E n \in Nodes : FanOut(n)
  <2>1. PICK n \in Nodes : FanOut(n)
    BY <1>5
  <2> DEFINE s == subscribers[n].stream
  <2>2. /\ s \in Subscriptions /\ n \in DOMAIN subscribers /\ handling.object \in Objects
        /\ SendOk(s, handling.object) \/ SendErr(s, handling.object)
        /\ handling'.task = "publish"
    BY <2>1, FanOutProperties
  <2>3. Used(s)
    BY <2>2 DEF Used, InUse
  <2>4. /\ stream' = stream
        /\ \A t \in Subscriptions : wire'[t] = wire[t] \/ Used(t)
    BY <1>2, <2>2, <2>3
  <2>5. UNCHANGED subscribers
    BY <2>1 DEF FanOut
  <2> QED
    BY <2>2, <2>4, <2>5 DEF OwnersInv, OwnStream, Used, InUse
<1>6. CASE EndPublish
  BY <1>6 DEF EndPublish, Idle, streamVars, OwnersInv, OwnStream, Used, InUse
<1>7. CASE \E n \in Nodes, g \in MediaTypes : handle_subscribe(n, g)
  <2>1. PICK n \in Nodes, g \in MediaTypes : handle_subscribe(n, g)
    BY <1>7
  <2>2. /\ DOMAIN subscribers' = DOMAIN subscribers \cup {n}
        /\ subscribers'[n].stream = NoStream
        /\ \A m \in DOMAIN subscribers \ {n} : subscribers'[m] = subscribers[m]
    BY <2>1, SubscriberProperties, TypeParts DEF handle_subscribe
  <2>3. UNCHANGED <<handling, wire>>
    BY <2>1 DEF handle_subscribe
  <2>4. \A s \in Subscriptions : stream[s] = "unopened" => stream'[s] = "unopened"
    BY <2>1, DropProperties, TypeParts DEF handle_subscribe
  <2>5. OwnStream'
    BY <2>2, <2>3 DEF OwnersInv, OwnStream
  <2>6. \A s \in Subscriptions : Used(s)' => Used(s)
    BY <2>2, <2>3, ActorAssumption DEF Used, InUse
  <2> QED
    BY <2>3, <2>4, <2>5, <2>6
<1>8. CASE \E s \in Subscriptions : handle_set_data_stream(NodeOf[s], s)
  <2>1. PICK s \in Subscriptions : handle_set_data_stream(NodeOf[s], s)
    BY <1>8
  <2>2. UNCHANGED <<subscribers, wire>> /\ Recv(SetDataStream(NodeOf[s], s))
    BY <2>1 DEF handle_set_data_stream
  <2>3. NewlyUsed(s)
    BY <2>2 DEF SetDataStream
  <2>4. \A t \in Subscriptions : stream[t] = "unopened" => stream'[t] = "unopened"
    BY <2>1, DropProperties, TypeParts DEF handle_set_data_stream
  <2>5. \/ handling' = handling
        \/ handling'.task = "replay" /\ handling'.node = NodeOf[s] /\ handling'.stream = s
    BY <2>1 DEF handle_set_data_stream, Replaying
  <2>6. OwnStream'
    BY <2>2, <2>5 DEF OwnersInv, OwnStream
  <2>7. \A t \in Subscriptions : Used(t)' => Used(t) \/ NewlyUsed(t)
    BY <2>2, <2>3, <2>5 DEF Used, InUse
  <2> QED
    BY <2>2, <2>4, <2>6, <2>7
<1>9. CASE ReplayNext
  <2> DEFINE s == handling.stream
  <2>1. /\ handling.task = "replay" /\ s \in Subscriptions /\ handling.todo[1] \in Objects
        /\ SendOk(s, handling.todo[1]) \/ SendErr(s, handling.todo[1])
        /\ handling'.task = "replay" /\ handling'.stream = s /\ handling'.node = handling.node
    BY <1>9, ReplayNextProperties
  <2>2. Used(s)
    BY <2>1 DEF Used
  <2>3. /\ stream' = stream
        /\ \A t \in Subscriptions : wire'[t] = wire[t] \/ Used(t)
    BY <1>2, <2>1, <2>2
  <2>4. UNCHANGED subscribers
    BY <1>9 DEF ReplayNext
  <2>5. OwnStream'
    BY <2>1, <2>4 DEF OwnersInv, OwnStream
  <2>6. \A t \in Subscriptions : Used(t)' => Used(t)
    BY <2>1, <2>4 DEF Used, InUse
  <2> QED
    BY <2>3, <2>5, <2>6
<1>10. CASE StoreStream
  <2> DEFINE n == handling.node
  <2>1. /\ handling.task = "replay" /\ handling'.task # "replay"
        /\ n \in DOMAIN subscribers /\ n \in Nodes
        /\ handling.stream \in Subscriptions
        /\ Subscriber(n, subscribers[n].group_id, handling.stream)
        /\ subscribers[n].group_id \in MediaTypes
    BY <1>10, StoreStreamProperties DEF Idle
  <2>2. /\ DOMAIN subscribers' = DOMAIN subscribers \cup {n}
        /\ subscribers'[n].stream = handling.stream
        /\ \A m \in DOMAIN subscribers \ {n} : subscribers'[m] = subscribers[m]
    BY <2>1, SubscriberProperties, TypeParts
  <2>3. UNCHANGED wire
    BY <1>10 DEF StoreStream
  <2>4. \A s \in Subscriptions : stream[s] = "unopened" => stream'[s] = "unopened"
    BY <1>10, DropProperties, TypeParts DEF StoreStream
  <2>5. OwnStream'
    BY <2>1, <2>2 DEF OwnersInv, OwnStream
  <2>6. \A s \in Subscriptions : Used(s)' => Used(s)
    BY <2>1, <2>2 DEF Used, InUse
  <2> QED
    BY <2>3, <2>4, <2>5, <2>6
<1>11. CASE \E n \in Nodes : handle_unsubscribe(n)
  <2>1. PICK n \in Nodes : handle_unsubscribe(n)
    BY <1>11
  <2>2. /\ DOMAIN subscribers' = DOMAIN subscribers \ {n}
        /\ \A m \in DOMAIN subscribers \ {n} : subscribers'[m] = subscribers[m]
        /\ UNCHANGED <<handling, wire>>
    BY <2>1 DEF handle_unsubscribe
  <2>3. \A s \in Subscriptions : stream[s] = "unopened" => stream'[s] = "unopened"
    BY <2>1, DropProperties, TypeParts DEF handle_unsubscribe
  <2> QED
    BY <2>2, <2>3 DEF OwnersInv, OwnStream, Used, InUse
<1>12. CASE \E n \in Nodes, seq \in SequenceNumbers : handle_retransmission_request(n, seq)
  <2>1. PICK n \in Nodes, seq \in SequenceNumbers : handle_retransmission_request(n, seq)
    BY <1>12
  <2>2. UNCHANGED <<subscribers, handling>>
    BY <2>1, RetransmissionProperties
  <2>3. CASE UNCHANGED streamVars
    BY <2>2, <2>3 DEF streamVars, OwnersInv, OwnStream, Used, InUse
  <2>4. CASE ~UNCHANGED streamVars
    <3> DEFINE s == subscribers[n].stream
    <3>1. /\ n \in DOMAIN subscribers /\ s \in Subscriptions /\ Get(seq) \in Objects
          /\ SendOk(s, Get(seq)) \/ SendErr(s, Get(seq))
      BY <2>1, <2>4, RetransmissionProperties
    <3>2. Used(s)
      BY <3>1 DEF Used, InUse
    <3>3. /\ stream' = stream
          /\ \A t \in Subscriptions : wire'[t] = wire[t] \/ Used(t)
      BY <1>2, <3>1, <3>2
    <3> QED
      BY <2>2, <3>3 DEF OwnersInv, OwnStream, Used, InUse
  <2> QED
    BY <2>3, <2>4
<1> QED
  BY <1>3, <1>4, <1>5, <1>6, <1>7, <1>8, <1>9, <1>10, <1>11, <1>12 DEF ActorStep

LEMMA ActorInitOwners == ActorInit => OwnersInv
BY DEF ActorInit, EmptyMap, Idle, OwnersInv, UnopenedUnknown, QueuedOnce, OwnStream, Used,
       InUse, Queued

\* The kinds of steps of ActorNext, with what the peers' steps have in common.
LEMMA ActorNextOwners == TypeInv /\ OwnersInv /\ [ActorNext]_actorVars => OwnersInv'
<1> SUFFICES ASSUME TypeInv, OwnersInv, [ActorNext]_actorVars PROVE OwnersInv'
  OBVIOUS
<1>1. CASE forward_object
  <2>1. PublishObject(Published[published + 1]).op # "SetDataStream"
    BY DEF PublishObject
  <2> QED
    BY <1>1, <2>1, ForwardQueueing, QueueingOwners DEF forward_object
<1>2. CASE \E s \in Subscriptions : handle_subscribe_message(s)
  <2>1. PICK s \in Subscriptions : handle_subscribe_message(s)
    BY <1>2
  <2>2. Subscribe(NodeOf[s], GroupOf[s]).op # "SetDataStream"
    BY DEF Subscribe
  <2>3. \A t \in Subscriptions : session'[t] \in {"new", "subscribed"} =>
           session[t] \in {"new", "subscribed"}
    BY <2>1, TypeParts DEF handle_subscribe_message, PeersOK
  <2> QED
    BY <2>1, <2>2, <2>3, SubscribeQueueing, QueueingOwners DEF handle_subscribe_message
<1>3. CASE \E s \in Requesters, seq \in SequenceNumbers : handle_request_message(s, seq)
  <2>1. PICK s \in Requesters, seq \in SequenceNumbers : handle_request_message(s, seq)
    BY <1>3
  <2>2. RequestRetransmission(NodeOf[s], seq).op # "SetDataStream"
    BY DEF RequestRetransmission
  <2> QED
    BY <2>1, <2>2, RequestQueueing, QueueingOwners DEF handle_request_message
<1>4. CASE \E n \in UnsubscribeNodes : unsubscribe(n)
  <2>1. PICK n \in UnsubscribeNodes : unsubscribe(n)
    BY <1>4
  <2>2. Unsubscribe(n).op # "SetDataStream"
    BY DEF Unsubscribe
  <2> QED
    BY <2>1, <2>2, UnsubscribeQueueing, QueueingOwners DEF unsubscribe
<1>5. CASE UNCHANGED actorVars
  BY <1>5 DEF actorVars, streamVars, peerVars, OwnersInv, UnopenedUnknown, QueuedOnce,
              OwnStream, Used, InUse, Queued
<1> QED
  BY <1>1, <1>2, <1>3, <1>4, <1>5, ActorStepOwners, DataStreamOwners, PeerLeavesOwners
     DEF ActorNext, PeerLeaves

-----------------------------------------------------------------------------
(* Registration.                                                           *)

\* Only Subscribe registers a node, and only Unsubscribe removes one.
LEMMA ActorStepRegisters ==
    ASSUME TypeInv, ActorStep
    PROVE  \/ UNCHANGED cmd_rx /\ DOMAIN subscribers \subseteq DOMAIN subscribers'
           \/ \E cmd : /\ Recv(cmd)
                       /\ cmd.op = "Subscribe" => cmd.node_id \in DOMAIN subscribers'
                       /\ \A n \in DOMAIN subscribers : n \notin DOMAIN subscribers' =>
                             cmd.op = "Unsubscribe" /\ cmd.node_id = n
<1>1. CASE \E o \in Objects : handle_publish_object(o)
  BY <1>1 DEF handle_publish_object, PublishObject
<1>2. CASE AddStep \/ (\E n \in Nodes : FanOut(n)) \/ EndPublish \/ ReplayNext
  BY <1>2 DEF AddStep, FanOut, EndPublish, ReplayNext
<1>3. CASE \E n \in Nodes, g \in MediaTypes : handle_subscribe(n, g)
  <2>1. PICK n \in Nodes, g \in MediaTypes : handle_subscribe(n, g)
    BY <1>3
  <2>2. DOMAIN subscribers' = DOMAIN subscribers \cup {n}
    BY <2>1 DEF handle_subscribe, Subscriber
  <2> QED
    BY <2>1, <2>2 DEF handle_subscribe, Subscribe
<1>4. CASE \E s \in Subscriptions : handle_set_data_stream(NodeOf[s], s)
  BY <1>4 DEF handle_set_data_stream, SetDataStream
<1>5. CASE StoreStream
  <2>1. DOMAIN subscribers \subseteq DOMAIN subscribers'
    BY <1>5 DEF StoreStream, Subscriber
  <2> QED
    BY <1>5, <2>1 DEF StoreStream
<1>6. CASE \E n \in Nodes : handle_unsubscribe(n)
  <2>1. PICK n \in Nodes : handle_unsubscribe(n)
    BY <1>6
  <2>2. DOMAIN subscribers' = DOMAIN subscribers \ {n}
    BY <2>1 DEF handle_unsubscribe
  <2> QED
    BY <2>1, <2>2 DEF handle_unsubscribe, Unsubscribe
<1>7. CASE \E n \in Nodes, seq \in SequenceNumbers : handle_retransmission_request(n, seq)
  BY <1>7 DEF handle_retransmission_request, RequestRetransmission
<1> QED
  BY <1>1, <1>2, <1>3, <1>4, <1>5, <1>6, <1>7 DEF ActorStep

LEMMA ActorStepRegistered ==
    ASSUME TypeInv, RegisteredInv, ActorStep
    PROVE  RegisteredInv'
<1> DEFINE Known(n) == n \in unsubscribed \cup DOMAIN subscribers
<1>1. UNCHANGED <<session, unsubscribed>>
  BY ActorStepPeers DEF peerVars
<1>2. QueueOK
  BY TypeParts
<1>3. CASE UNCHANGED cmd_rx /\ DOMAIN subscribers \subseteq DOMAIN subscribers'
  BY <1>1, <1>3 DEF RegisteredInv, Queued, SubscribesBefore
<1>4. CASE \E cmd : /\ Recv(cmd)
                    /\ cmd.op = "Subscribe" => cmd.node_id \in DOMAIN subscribers'
                    /\ \A n \in DOMAIN subscribers : n \notin DOMAIN subscribers' =>
                          cmd.op = "Unsubscribe" /\ cmd.node_id = n
  <2>1. PICK cmd : /\ Recv(cmd)
                   /\ cmd.op = "Subscribe" => cmd.node_id \in DOMAIN subscribers'
                   /\ \A n \in DOMAIN subscribers : n \notin DOMAIN subscribers' =>
                          cmd.op = "Unsubscribe" /\ cmd.node_id = n
    BY <1>4
  <2>2. /\ Len(cmd_rx) \in Nat \ {0} /\ Len(cmd_rx') = Len(cmd_rx) - 1 /\ cmd = cmd_rx[1]
    BY <1>2, <2>1, RecvProperties
  <2>3. /\ \A op : \A i \in Queued(op)' : /\ i \in Nat /\ i + 1 \in Queued(op)
                                          /\ cmd_rx'[i] = cmd_rx[i + 1]
        /\ \A i \in Queued("Subscribe") :
              /\ i \in Nat
              /\ i # 1 => i - 1 \in Queued("Subscribe")' /\ cmd_rx'[i - 1] = cmd_rx[i]
              /\ i = 1 => cmd = cmd_rx[i] /\ cmd.op = "Subscribe"
    BY <1>2, <2>1, QueuedAfterRecv
  <2>4. ASSUME NEW n, Known(n) PROVE n \in unsubscribed \cup DOMAIN subscribers'
    <3>1. CASE n \in DOMAIN subscribers /\ n \notin DOMAIN subscribers'
      <4>1. 1 \in Queued("Unsubscribe") /\ cmd_rx[1].node_id = n
        BY <2>1, <2>2, <3>1 DEF Queued
      <4> QED
        BY <4>1 DEF RegisteredInv
    <3> QED
      BY <2>4, <3>1
  <2>5. ASSUME NEW n, NEW k \in Nat, SubscribesBefore(n, k + 1)
        PROVE  n \in DOMAIN subscribers' \/ SubscribesBefore(n, k)'
    <3>1. PICK i \in Queued("Subscribe") : i < k + 1 /\ cmd_rx[i].node_id = n
      BY <2>5 DEF SubscribesBefore
    <3>2. CASE i = 1
      BY <2>1, <2>3, <3>1, <3>2
    <3>3. CASE i # 1
      <4>1. i - 1 \in Queued("Subscribe")' /\ cmd_rx'[i - 1] = cmd_rx[i] /\ i - 1 < k
        BY <2>3, <3>1, <3>3
      <4> QED
        BY <3>1, <4>1 DEF SubscribesBefore
    <3> QED
      BY <3>2, <3>3
  <2>6. \A i \in Queued("Unsubscribe")' : cmd_rx'[i].node_id \in unsubscribed'
    BY <1>1, <2>3 DEF RegisteredInv
  <2>7. ASSUME NEW s \in Subscriptions, session'[s] # "new"
        PROVE  \/ NodeOf[s] \in unsubscribed' \cup DOMAIN subscribers'
               \/ SubscribesBefore(NodeOf[s], Len(cmd_rx) + 1)'
    <3>1. Known(NodeOf[s]) \/ SubscribesBefore(NodeOf[s], Len(cmd_rx) + 1)
      BY <1>1, <2>7 DEF RegisteredInv
    <3>2. CASE Known(NodeOf[s])
      BY <1>1, <2>4, <3>2
    <3>3. CASE SubscribesBefore(NodeOf[s], Len(cmd_rx) + 1)
      <4>1. PICK k \in Nat : k = Len(cmd_rx)
        BY <2>2
      <4>2. NodeOf[s] \in DOMAIN subscribers' \/ SubscribesBefore(NodeOf[s], k)'
        BY <2>5, <3>3, <4>1
      <4>3. Len(cmd_rx') + 1 = k
        BY <2>2, <4>1
      <4> QED
        BY <4>2, <4>3 DEF SubscribesBefore
    <3> QED
      BY <3>1, <3>2, <3>3
  <2>8. ASSUME NEW i \in Queued("SetDataStream")'
        PROVE  \/ cmd_rx'[i].node_id \in unsubscribed' \cup DOMAIN subscribers'
               \/ \E j \in Queued("Subscribe")' : j < i /\ cmd_rx'[j].node_id = cmd_rx'[i].node_id
    <3>1. /\ i \in Nat /\ i + 1 \in Queued("SetDataStream") /\ cmd_rx'[i] = cmd_rx[i + 1]
      BY <2>3
    <3>2. PICK n : n = cmd_rx[i + 1].node_id
      OBVIOUS
    <3>3. Known(n) \/ SubscribesBefore(n, i + 1)
      BY <3>1, <3>2 DEF RegisteredInv
    <3>4. n \in unsubscribed \cup DOMAIN subscribers' \/ SubscribesBefore(n, i)'
      BY <2>4, <2>5, <3>1, <3>3
    <3> QED
      BY <1>1, <3>1, <3>2, <3>4 DEF SubscribesBefore
  <2> QED
    BY <2>6, <2>7, <2>8 DEF RegisteredInv, SubscribesBefore
<1> QED
  BY <1>3, <1>4, ActorStepRegisters

\* A command may only be queued for a node that has a reason for it.
LEMMA QueueingRegistered ==
    ASSUME TypeInv, RegisteredInv, NEW cmd, Queueing(cmd),
           unsubscribed \subseteq unsubscribed',
           cmd.op = "Unsubscribe" => cmd.node_id \in unsubscribed',
           cmd.op = "SetDataStream" =>
              \E s \in Subscriptions : session[s] # "new" /\ cmd.node_id = NodeOf[s],
           \A s \in Subscriptions : session'[s] # "new" =>
              session[s] # "new" \/ (cmd.op = "Subscribe" /\ cmd.node_id = NodeOf[s])
    PROVE  RegisteredInv'
<1>1. UNCHANGED subscribers /\ QueueOK /\ cmd \in Commands /\ Enqueue(cmd)
  BY TypeParts DEF Queueing, Enqueue
<1>2. /\ Len(cmd_rx) \in Nat /\ Len(cmd_rx') = Len(cmd_rx) + 1
      /\ \A op : \A i \in Queued(op)' :
            /\ i \in Nat
            /\ \/ i \in Queued(op) /\ cmd_rx'[i] = cmd_rx[i]
               \/ i = Len(cmd_rx) + 1 /\ cmd_rx'[i] = cmd /\ cmd.op = op
      /\ \A i \in Queued("Subscribe") :
            i \in Queued("Subscribe")' /\ i \in Nat /\ i <= Len(cmd_rx) /\ cmd_rx'[i] = cmd_rx[i]
      /\ cmd.op = "Subscribe" => Len(cmd_rx) + 1 \in Queued("Subscribe")'
                                 /\ cmd_rx'[Len(cmd_rx) + 1] = cmd
  <2>1. \A op : \A i \in Queued(op)' :
            /\ i \in Nat
            /\ \/ i \in Queued(op) /\ cmd_rx'[i] = cmd_rx[i]
               \/ i = Len(cmd_rx) + 1 /\ cmd_rx'[i] = cmd /\ cmd.op = op
    BY <1>1, QueuedAfterEnqueue
  <2> QED
    BY <1>1, <2>1, QueuedAfterEnqueue
<1>3. ASSUME NEW n, NEW k, SubscribesBefore(n, k) PROVE SubscribesBefore(n, k)'
  BY <1>2, <1>3 DEF SubscribesBefore
<1>4. \A i \in Queued("Unsubscribe")' : cmd_rx'[i].node_id \in unsubscribed'
  BY <1>2 DEF RegisteredInv
<1>5. ASSUME NEW s \in Subscriptions, session[s] # "new"
      PROVE  \/ NodeOf[s] \in unsubscribed \cup DOMAIN subscribers
             \/ \E i \in Queued("Subscribe")' : /\ i < Len(cmd_rx) + 1
                                                /\ cmd_rx'[i].node_id = NodeOf[s]
  BY <1>2, <1>5 DEF RegisteredInv, SubscribesBefore
<1>6. ASSUME NEW s \in Subscriptions, session'[s] # "new"
      PROVE  \/ NodeOf[s] \in unsubscribed' \cup DOMAIN subscribers'
             \/ \E i \in Queued("Subscribe")' : /\ i < Len(cmd_rx') + 1
                                                /\ cmd_rx'[i].node_id = NodeOf[s]
  <2>1. CASE session[s] # "new"
    BY <1>1, <1>2, <1>5, <2>1
  <2>2. CASE cmd.op = "Subscribe" /\ cmd.node_id = NodeOf[s]
    BY <1>2, <2>2
  <2> QED
    BY <1>6, <2>1, <2>2
<1>7. ASSUME NEW i \in Queued("SetDataStream")'
      PROVE  \/ cmd_rx'[i].node_id \in unsubscribed' \cup DOMAIN subscribers'
             \/ \E j \in Queued("Subscribe")' : j < i /\ cmd_rx'[j].node_id = cmd_rx'[i].node_id
  <2>1. CASE i \in Queued("SetDataStream") /\ cmd_rx'[i] = cmd_rx[i]
    <3>1. PICK n : n = cmd_rx[i].node_id
      OBVIOUS
    <3>2. n \in unsubscribed \cup DOMAIN subscribers \/ SubscribesBefore(n, i)
      BY <2>1, <3>1 DEF RegisteredInv
    <3>3. SubscribesBefore(n, i) => SubscribesBefore(n, i)'
      BY <1>3
    <3> QED
      BY <1>1, <2>1, <3>1, <3>2, <3>3 DEF SubscribesBefore
  <2>2. CASE i = Len(cmd_rx) + 1 /\ cmd_rx'[i] = cmd /\ cmd.op = "SetDataStream"
    BY <1>1, <1>5, <2>2
  <2> QED
    BY <1>2, <2>1, <2>2
<1> QED
  BY <1>4, <1>6, <1>7 DEF RegisteredInv, SubscribesBefore

LEMMA ActorInitRegistered == ActorInit => RegisteredInv
BY DEF ActorInit, RegisteredInv, Queued

LEMMA ActorNextRegistered ==
    TypeInv /\ RegisteredInv /\ [ActorNext]_actorVars => RegisteredInv'
<1> SUFFICES ASSUME TypeInv, RegisteredInv, [ActorNext]_actorVars PROVE RegisteredInv'
  OBVIOUS
<1>1. CASE forward_object
  <2>1. PublishObject(Published[published + 1]).op = "PublishObject"
    BY DEF PublishObject
  <2> QED
    BY <1>1, <2>1, ForwardQueueing, QueueingRegistered DEF forward_object
<1>2. CASE \E s \in Subscriptions : handle_subscribe_message(s)
  <2>1. PICK s \in Subscriptions : handle_subscribe_message(s)
    BY <1>2
  <2> DEFINE cmd == Subscribe(NodeOf[s], GroupOf[s])
  <2>2. cmd.op = "Subscribe" /\ cmd.node_id = NodeOf[s]
    BY DEF Subscribe
  <2>3. \A t \in Subscriptions : session'[t] # "new" => session[t] # "new" \/ t = s
    BY <2>1, TypeParts DEF handle_subscribe_message, PeersOK
  <2>4. Queueing(cmd) /\ unsubscribed' = unsubscribed
    BY <2>1, SubscribeQueueing DEF handle_subscribe_message
  <2> HIDE DEF cmd
  <2> QED
    BY <2>2, <2>3, <2>4, QueueingRegistered
<1>3. CASE \E s \in Subscriptions : handle_data_stream(s)
  <2>1. PICK s \in Subscriptions : handle_data_stream(s)
    BY <1>3
  <2> DEFINE cmd == SetDataStream(NodeOf[s], s)
  <2>2. cmd.op = "SetDataStream" /\ cmd.node_id = NodeOf[s]
    BY DEF SetDataStream
  <2>3. session[s] # "new" /\ \A t \in Subscriptions : session'[t] # "new" => session[t] # "new"
    BY <2>1, TypeParts DEF handle_data_stream, PeersOK
  <2>4. Queueing(cmd) /\ unsubscribed' = unsubscribed
    BY <2>1, DataStreamQueueing DEF handle_data_stream
  <2> HIDE DEF cmd
  <2> QED
    BY <2>2, <2>3, <2>4, QueueingRegistered
<1>4. CASE \E s \in Subscriptions : PeerLeaves(s)
  <2>1. PICK s \in Subscriptions : PeerLeaves(s)
    BY <1>4
  <2>2. UNCHANGED <<cmd_rx, subscribers, unsubscribed>>
    BY <2>1 DEF PeerLeaves, handle_unsubscribe_message, peer_stops
  <2>3. \A t \in Subscriptions : session'[t] # "new" => session[t] # "new"
    BY <2>1, TypeParts DEF PeerLeaves, handle_unsubscribe_message, peer_stops, PeersOK
  <2> QED
    BY <2>2, <2>3 DEF RegisteredInv, Queued, SubscribesBefore
<1>5. CASE \E s \in Requesters, seq \in SequenceNumbers : handle_request_message(s, seq)
  <2>1. PICK s \in Requesters, seq \in SequenceNumbers : handle_request_message(s, seq)
    BY <1>5
  <2>2. RequestRetransmission(NodeOf[s], seq).op = "RequestRetransmission"
    BY DEF RequestRetransmission
  <2> QED
    BY <2>1, <2>2, RequestQueueing, QueueingRegistered DEF handle_request_message
<1>6. CASE \E n \in UnsubscribeNodes : unsubscribe(n)
  <2>1. PICK n \in UnsubscribeNodes : unsubscribe(n)
    BY <1>6
  <2>2. Unsubscribe(n).op = "Unsubscribe" /\ Unsubscribe(n).node_id = n
    BY DEF Unsubscribe
  <2>3. unsubscribed' = unsubscribed \cup {n} /\ session' = session
    BY <2>1 DEF unsubscribe
  <2> QED
    BY <2>1, <2>2, <2>3, UnsubscribeQueueing, QueueingRegistered
<1>7. CASE UNCHANGED actorVars
  BY <1>7 DEF actorVars, peerVars, RegisteredInv, Queued, SubscribesBefore
<1> QED
  BY <1>1, <1>2, <1>3, <1>4, <1>5, <1>6, <1>7, ActorStepRegistered DEF ActorNext, PeerLeaves

\* However the tasks that queue Subscribe and SetDataStream interleave, a data
\* stream finds its subscriber registered unless the application unsubscribed
\* the node in between (engine.rs:564-571).
THEOREM DataStreamFindsSubscriber == ActorSpec => []SetDataStreamFindsSubscriber
<1>1. ASSUME TypeInv, RegisteredInv PROVE SetDataStreamFindsSubscriber
  <2>1. SUFFICES ASSUME NEW s \in Subscriptions,
                        cmd_rx # <<>>, Head(cmd_rx) = SetDataStream(NodeOf[s], s),
                        NodeOf[s] \notin unsubscribed
                 PROVE  NodeOf[s] \in DOMAIN subscribers
    BY DEF SetDataStreamFindsSubscriber
  <2>2. cmd_rx \in Seq(Commands)
    BY <1>1, TypeParts DEF QueueOK
  <2>3. Len(cmd_rx) \in Nat \ {0} /\ Head(cmd_rx) = cmd_rx[1]
    BY <2>1, <2>2, EmptySeq
  <2>4. 1 \in Queued("SetDataStream") /\ cmd_rx[1].node_id = NodeOf[s]
    BY <2>1, <2>3 DEF Queued, SetDataStream
  <2>5. ~SubscribesBefore(cmd_rx[1].node_id, 1)
    BY <2>3 DEF SubscribesBefore, Queued
  <2> QED
    BY <1>1, <2>1, <2>4, <2>5 DEF RegisteredInv
<1>2. TypeInv /\ RegisteredInv => SetDataStreamFindsSubscriber
  BY <1>1
<1> QED
  BY <1>2, ActorInitType, ActorNextType, ActorInitRegistered, ActorNextRegistered, PTL
     DEF ActorSpec

-----------------------------------------------------------------------------
(* What the buffer holds after a step.                                     *)

LEMMA BeginAddBuffered ==
    ASSUME NEW o \in Objects, BufferInv, BeginAdd(o)
    PROVE  Buffered' \subseteq Buffered \cup {o} /\ BufferInv'
<1>1. CASE AddInitSegment(o)
  BY <1>1, ObjectsAssumption DEF AddInitSegment, Buffered, BufferInv, BeginAdd, Stored
<1>2. CASE AddDuplicate(o)
  BY <1>2 DEF AddDuplicate, Buffered, BufferInv, bufferVars, Stored
<1>3. CASE StartEviction(o)
  BY <1>3 DEF StartEviction, Buffered, BufferInv, Stored
<1> QED
  BY <1>1, <1>2, <1>3 DEF BeginAdd

LEMMA EvictBuffered ==
    ASSUME BufferInv, Evict
    PROVE  Buffered' \subseteq Buffered /\ BufferInv'
<1>1. /\ Stored' \subseteq Stored /\ \A s \in Stored' : sequence_index'[s] = sequence_index[s]
      /\ UNCHANGED <<total_objects, init_segment, adding>>
  <2>1. PICK victim : RemoveObject(victim)
    BY DEF Evict, EvictOldest, EvictLowestPriority
  <2> QED
    BY <2>1 DEF Evict, RemoveObject, Stored
<1> QED
  BY <1>1 DEF Buffered, BufferInv

LEMMA InsertBuffered ==
    ASSUME IndexInv, BufferInv, Insert
    PROVE  Buffered' \subseteq Buffered \cup {adding} /\ BufferInv'
<1> DEFINE seq == adding.sequence
<1>1. /\ Stored' = Stored \cup {seq} /\ sequence_index'[seq] = adding
      /\ \A s \in Stored' \ {seq} : s \in Stored /\ sequence_index'[s] = sequence_index[s]
      /\ adding # NoObject /\ adding' = NoObject /\ UNCHANGED init_segment
  BY DEF Insert, Stored
<1>2. total_objects' # 0
  BY FiniteStored, FS_CardinalityType DEF Insert
<1> QED
  BY <1>1, <1>2 DEF Buffered, BufferInv

\* Objects enter the buffer one at a time, from the command that publishes them.
LEMMA ActorStepBuffered ==
    ASSUME TypeInv, BufferInv, ActorStep
    PROVE  /\ BufferInv'
           /\ \/ UNCHANGED bufferVars
              \/ \E o \in Objects : handle_publish_object(o) /\ Buffered' \subseteq Buffered \cup {o}
              \/ AddStep /\ handling.task = "publish"
                 /\ Buffered' \subseteq Buffered \cup {handling.object}
<1>1. CASE \E o \in Objects : handle_publish_object(o)
  BY <1>1, BeginAddBuffered DEF handle_publish_object
<1>2. CASE AddStep
  <2>1. adding # NoObject
    BY <1>2 DEF AddStep, Evict, Insert
  <2>2. handling.task = "publish" /\ handling.object = adding /\ IndexInv
    BY <2>1, TypeParts DEF HandlingOK
  <2> QED
    BY <1>2, <2>2, EvictBuffered, InsertBuffered DEF AddStep
<1>3. CASE UNCHANGED bufferVars
  BY <1>3 DEF bufferVars, BufferInv, Stored
<1> QED
  BY <1>1, <1>2, <1>3
     DEF ActorStep, FanOut, EndPublish, handle_subscribe, handle_set_data_stream, ReplayNext,
         StoreStream, handle_unsubscribe, handle_retransmission_request

LEMMA ActorInitBuffer == ActorInit => BufferInv
BY DEF ActorInit, NewBuffer, EmptyMap, BufferInv, Stored

LEMMA PeersStepBuffer ==
    ASSUME [ActorNext]_actorVars, ~ActorStep
    PROVE  UNCHANGED <<bufferVars, subscribers, handling, wire, failed, timeouts>>
BY DEF ActorNext, forward_object, handle_subscribe_message, handle_data_stream,
       handle_unsubscribe_message, peer_stops, handle_request_message, unsubscribe, Enqueue,
       actorVars, streamVars

LEMMA ActorNextBuffer == TypeInv /\ BufferInv /\ [ActorNext]_actorVars => BufferInv'
<1>1. BufferInv /\ UNCHANGED bufferVars => BufferInv'
  BY DEF bufferVars, BufferInv, Stored
<1> QED
  BY <1>1, ActorStepBuffered, PeersStepBuffer

-----------------------------------------------------------------------------
(* Numbers.                                                                *)

\* Objects are queued in the order of their numbers, and what was taken from
\* the queue stays older than what is in it.
LEMMA ForwardNumbered ==
    ASSUME TypeInv, NumberedInv, forward_object
    PROVE  /\ \A o : IsPublished(o) => IsPublished(o)'
           /\ \A o \in Objects : Taken(o) => Taken(o)'
           /\ \A i \in Queued("PublishObject")' : IsPublished(cmd_rx[i].object)'
           /\ \A i, j \in Queued("PublishObject")' :
                i < j => cmd_rx'[i].object.sequence < cmd_rx'[j].object.sequence
<1> DEFINE new == Published[published + 1]
           cmd == PublishObject(new)
<1>1. /\ Queueing(cmd) /\ published + 1 \in 1..Len(Published) /\ published \in Nat
      /\ published' = published + 1
  BY ForwardQueueing DEF forward_object
<1>2. new.sequence = published
  BY <1>1, PublishedAssumption
<1>3. cmd.object = new
  BY DEF PublishObject
<1>4. /\ Len(cmd_rx) \in Nat
      /\ \A i \in Queued("PublishObject")' :
            /\ i \in Nat
            /\ \/ i \in Queued("PublishObject") /\ cmd_rx'[i] = cmd_rx[i] /\ i <= Len(cmd_rx)
               \/ i = Len(cmd_rx) + 1 /\ cmd_rx'[i] = cmd
  BY <1>1, QueuedAfterEnqueue, TypeParts DEF Queueing
<1>5. ASSUME NEW o, IsPublished(o)
      PROVE  IsPublished(o)' /\ o.sequence < published
  <2>1. o.sequence + 1 \in 1..published /\ Published[o.sequence + 1] = o
    BY <1>5 DEF IsPublished
  <2>2. published \in Nat /\ published \in 0..Len(Published) /\ Len(Published) \in Nat
    BY <1>1, TypeParts, ActorAssumption, LenProperties DEF PeersOK
  <2>3. o.sequence + 1 \in 1..Len(Published)
    BY <2>1, <2>2
  <2>4. o.sequence \in Nat
    BY <2>1, <2>3, ActorAssumption, ElementOfSeq, ObjectsAssumption
  <2> QED
    BY <1>1, <2>1, <2>4 DEF IsPublished
<1>6. \A o \in Objects : o.sequence \in Nat
  BY ObjectsAssumption
<1> HIDE DEF cmd, new
<1>7. ASSUME NEW o \in Objects, Taken(o) PROVE Taken(o)'
  <2>1. IsPublished(o)' /\ o.sequence < new.sequence
    BY <1>2, <1>5, <1>7 DEF Taken
  <2>2. \A i \in Queued("PublishObject")' : o.sequence < cmd_rx'[i].object.sequence
    BY <1>3, <1>4, <1>7, <2>1 DEF Taken
  <2> QED
    BY <2>1, <2>2 DEF Taken
<1>8. ASSUME NEW i \in Queued("PublishObject")'
      PROVE  IsPublished(cmd_rx[i].object)'
  <2>1. CASE i \in Queued("PublishObject") /\ cmd_rx'[i] = cmd_rx[i]
    <3>1. PICK o : o = cmd_rx[i].object
      OBVIOUS
    <3>2. IsPublished(o)
      BY <2>1, <3>1 DEF NumberedInv
    <3>3. IsPublished(o)'
      BY <1>5, <3>2
    <3> QED
      BY <2>1, <3>1, <3>3 DEF IsPublished
  <2>2. CASE i = Len(cmd_rx) + 1 /\ cmd_rx'[i] = cmd
    BY <1>1, <1>2, <1>3, <2>2 DEF IsPublished, new
  <2> QED
    BY <1>4, <2>1, <2>2
<1>9. ASSUME NEW i \in Queued("PublishObject")', NEW j \in Queued("PublishObject")', i < j
      PROVE  cmd_rx'[i].object.sequence < cmd_rx'[j].object.sequence
  <2>1. /\ i \in Nat /\ j \in Nat
        /\ i \in Queued("PublishObject") /\ cmd_rx'[i] = cmd_rx[i]
    BY <1>4, <1>9
  <2>2. CASE j \in Queued("PublishObject") /\ cmd_rx'[j] = cmd_rx[j]
    BY <1>9, <2>1, <2>2 DEF NumberedInv
  <2>3. CASE j = Len(cmd_rx) + 1 /\ cmd_rx'[j] = cmd
    <3>1. IsPublished(cmd_rx[i].object)
      BY <2>1 DEF NumberedInv
    <3>2. cmd_rx[i].object.sequence < published
      BY <1>5, <3>1
    <3> QED
      BY <1>2, <1>3, <2>1, <2>3, <3>2
  <2> QED
    BY <1>4, <2>2, <2>3
<1> QED
  BY <1>5, <1>7, <1>8, <1>9

\* Every other step leaves the queued objects as they are, or takes the first.
LEMMA QueueKeepsNumbers ==
    ASSUME TypeInv, NumberedInv, UNCHANGED published,
           \/ UNCHANGED cmd_rx
           \/ \E cmd : Recv(cmd)
           \/ \E cmd : Queueing(cmd) /\ cmd.op # "PublishObject"
    PROVE  /\ \A o : Taken(o) => Taken(o)'
           /\ \A i \in Queued("PublishObject")' : IsPublished(cmd_rx[i].object)'
           /\ \A i, j \in Queued("PublishObject")' :
                i < j => cmd_rx'[i].object.sequence < cmd_rx'[j].object.sequence
           /\ \A o \in Objects : Recv(PublishObject(o)) => Taken(o)'
<1>1. QueueOK
  BY TypeParts
<1>2. CASE UNCHANGED cmd_rx
  <2>1. \A cmd : Recv(cmd) => FALSE
    BY <1>1, <1>2, RecvProperties
  <2> QED
    BY <1>2, <2>1 DEF Queued, NumberedInv, Taken, IsPublished
<1>3. CASE \E cmd : Recv(cmd)
  <2>1. PICK cmd : Recv(cmd)
    BY <1>3
  <2>2. /\ \A i \in Queued("PublishObject")' : /\ i \in Nat /\ i + 1 \in Queued("PublishObject")
                                               /\ cmd_rx'[i] = cmd_rx[i + 1]
        /\ cmd = cmd_rx[1] /\ Len(cmd_rx) \in Nat \ {0}
    BY <1>1, <2>1, QueuedAfterRecv, RecvProperties
  <2>3. \A o : Taken(o) => Taken(o)'
    BY <2>2 DEF Taken, IsPublished
  <2>4. \A i \in Queued("PublishObject")' : IsPublished(cmd_rx[i].object)'
    BY <2>2 DEF NumberedInv, IsPublished
  <2>5. \A i, j \in Queued("PublishObject")' :
           i < j => cmd_rx'[i].object.sequence < cmd_rx'[j].object.sequence
    BY <2>2 DEF NumberedInv
  <2>6. ASSUME NEW o \in Objects, Recv(PublishObject(o)) PROVE Taken(o)'
    <3>1. PublishObject(o) = cmd_rx[1]
      BY <1>1, <2>6, RecvProperties
    <3>2. 1 \in Queued("PublishObject") /\ cmd_rx[1].object = o
      BY <2>2, <3>1 DEF Queued, PublishObject
    <3>3. IsPublished(o)
      BY <3>2 DEF NumberedInv
    <3>4. \A i \in Queued("PublishObject")' : i + 1 > 1
      BY <2>2 DEF Queued
    <3>5. \A i \in Queued("PublishObject")' : o.sequence < cmd_rx'[i].object.sequence
      BY <2>2, <3>2, <3>4 DEF NumberedInv
    <3> QED
      BY <3>3, <3>5 DEF Taken, IsPublished
  <2> QED
    BY <2>3, <2>4, <2>5, <2>6
<1>4. CASE \E cmd : Queueing(cmd) /\ cmd.op # "PublishObject"
  <2>1. PICK cmd : Queueing(cmd) /\ cmd.op # "PublishObject"
    BY <1>4
  <2>2. /\ \A i \in Queued("PublishObject")' :
              i \in Queued("PublishObject") /\ cmd_rx'[i] = cmd_rx[i]
        /\ Len(cmd_rx) \in Nat /\ Len(cmd_rx') = Len(cmd_rx) + 1
    BY <1>1, <2>1, QueuedAfterEnqueue DEF Queueing
  <2>3. \A o : Recv(PublishObject(o)) => FALSE
    BY <1>1, <2>2, RecvProperties
  <2> QED
    BY <2>2, <2>3 DEF NumberedInv, Taken, IsPublished
<1> QED
  BY <1>2, <1>3, <1>4

\* What the peers' tasks do besides forwarding an object.
LEMMA PeersStepQueue ==
    ASSUME TypeInv, [ActorNext]_actorVars, ~ActorStep, ~forward_object
    PROVE  /\ UNCHANGED published
           /\ UNCHANGED cmd_rx \/ \E cmd : Queueing(cmd) /\ cmd.op # "PublishObject"
<1>1. CASE \E s \in Subscriptions : handle_subscribe_message(s)
  <2>1. \A n, g : Subscribe(n, g).op # "PublishObject"
    BY DEF Subscribe
  <2> QED
    BY <1>1, <2>1, SubscribeQueueing DEF handle_subscribe_message
<1>2. CASE \E s \in Subscriptions : handle_data_stream(s)
  <2>1. PICK s \in Subscriptions : handle_data_stream(s)
    BY <1>2
  <2>2. SetDataStream(NodeOf[s], s).op # "PublishObject"
    BY DEF SetDataStream
  <2>3. published' = published
    BY <2>1 DEF handle_data_stream
  <2> QED
    BY <2>1, <2>2, <2>3, DataStreamQueueing
<1>3. CASE \E s \in Subscriptions : handle_unsubscribe_message(s) \/ peer_stops(s)
  BY <1>3 DEF handle_unsubscribe_message, peer_stops
<1>4. CASE \E s \in Requesters, seq \in SequenceNumbers : handle_request_message(s, seq)
  <2>1. \A n, seq : RequestRetransmission(n, seq).op # "PublishObject"
    BY DEF RequestRetransmission
  <2> QED
    BY <1>4, <2>1, RequestQueueing DEF handle_request_message
<1>5. CASE \E n \in UnsubscribeNodes : unsubscribe(n)
  BY <1>5, UnsubscribeQueueing DEF unsubscribe, Unsubscribe
<1>6. CASE UNCHANGED actorVars
  BY <1>6 DEF actorVars, peerVars
<1> QED
  BY <1>1, <1>2, <1>3, <1>4, <1>5, <1>6 DEF ActorNext

\* A write adds the object to one stream.
LEMMA WriteCarried ==
    ASSUME TypeInv, NEW s \in Subscriptions, NEW o \in Objects, SendOk(s, o) \/ SendErr(s, o)
    PROVE  /\ Carried(s)' \subseteq Carried(s) \cup {o} /\ Carried(s) \subseteq Carried(s)'
           /\ \A t \in Subscriptions \ {s} : Carried(t)' = Carried(t)
           /\ \A t \in Subscriptions : Sent(t) \subseteq Sent(t)'
           /\ \/ s \in failed'
              \/ stream[s] = "open" /\ o \in Sent(s)'
           /\ failed \subseteq failed' /\ stream' = stream
<1>1. /\ \A t \in Subscriptions \ {s} : wire'[t] = wire[t]
      /\ Len(wire[s]) \in Nat /\ failed \subseteq failed' /\ stream' = stream
      /\ \/ /\ Len(wire'[s]) = Len(wire[s]) + 1
            /\ \A i \in 1..Len(wire[s]) : wire'[s][i] = wire[s][i]
            /\ wire'[s][Len(wire[s]) + 1].object = o
            /\ wire'[s][Len(wire[s]) + 1].whole \/ s \in failed'
         \/ wire'[s] = wire[s] /\ s \in failed'
  BY SendProperties, TypeParts
<1>2. \A t \in Subscriptions \ {s} : Carried(t)' = Carried(t) /\ Sent(t)' = Sent(t)
  BY <1>1 DEF Carried, Sent
<1>3. CASE wire'[s] = wire[s] /\ s \in failed'
  BY <1>1, <1>2, <1>3 DEF Carried, Sent
<1>4. CASE /\ Len(wire'[s]) = Len(wire[s]) + 1
           /\ \A i \in 1..Len(wire[s]) : wire'[s][i] = wire[s][i]
           /\ wire'[s][Len(wire[s]) + 1].object = o
           /\ wire'[s][Len(wire[s]) + 1].whole \/ s \in failed'
  <2> DEFINE n == Len(wire[s])
  <2>1. n \in Nat /\ \A i \in 1..(n + 1) : i \in 1..n \/ i = n + 1
    BY <1>1
  <2>2. Carried(s)' \subseteq Carried(s) \cup {o}
    BY <1>4, <2>1 DEF Carried
  <2>3. Carried(s) \subseteq Carried(s)'
    BY <1>4, <2>1 DEF Carried
  <2>4. Sent(s) \subseteq Sent(s)'
    BY <1>4, <2>1 DEF Sent
  <2>5. s \in failed' \/ o \in Sent(s)'
    <3>1. n + 1 \in 1..Len(wire'[s])
      BY <1>4, <2>1
    <3> QED
      BY <1>4, <3>1 DEF Sent
  <2>6. stream[s] = "open" \/ s \in failed'
    BY DEF SendOk, SendErr
  <2> QED
    BY <1>1, <1>2, <2>2, <2>3, <2>4, <2>5, <2>6
<1> QED
  BY <1>1, <1>3, <1>4

\* What the actor holds it held before, or has just taken from the queue.
LEMMA ActorStepHolds ==
    ASSUME TypeInv, BufferInv, ActorStep, NEW o \in Objects, Held(o)'
    PROVE  Held(o) \/ Recv(PublishObject(o))
<1>1. CASE \E p \in Objects : handle_publish_object(p)
  <2>1. PICK p \in Objects : handle_publish_object(p) /\ Buffered' \subseteq Buffered \cup {p}
    BY <1>1, BeginAddBuffered DEF handle_publish_object
  <2>2. /\ Recv(PublishObject(p)) /\ UNCHANGED wire
        /\ handling'.task = "publish" /\ handling'.object = p
    BY <2>1 DEF handle_publish_object, streamVars, Publishing
  <2>3. o \in Buffered' \/ (\E s \in Subscriptions : o \in Carried(s)') \/ o = p
    BY <2>2 DEF Held
  <2> QED
    BY <2>1, <2>2, <2>3 DEF Held, Carried
<1>2. CASE AddStep
  <2>1. /\ handling.task = "publish" /\ UNCHANGED <<handling, wire>>
        /\ Buffered' \subseteq Buffered \cup {handling.object}
    <3>1. handling.task = "publish"
      BY <1>2, TypeParts DEF AddStep, Evict, Insert, HandlingOK
    <3>2. handling.object = adding /\ IndexInv
      BY <1>2, TypeParts DEF AddStep, Evict, Insert, HandlingOK
    <3> QED
      BY <1>2, <3>1, <3>2, EvictBuffered, InsertBuffered DEF AddStep, streamVars
  <2> QED
    BY <2>1 DEF Held, Carried
\* The rest leaves the buffer alone.
<1>3. ASSUME UNCHANGED bufferVars PROVE Buffered' = Buffered
  BY <1>3 DEF bufferVars, Buffered, Stored
<1>4. CASE \E n \in Nodes : FanOut(n)
  <2>1. PICK n \in Nodes : FanOut(n)
    BY <1>4
  <2>0. PICK s : s = subscribers[n].stream
    OBVIOUS
  <2>2. /\ handling.task = "publish" /\ s \in Subscriptions /\ handling.object \in Objects
        /\ SendOk(s, handling.object) \/ SendErr(s, handling.object)
        /\ handling'.task = "publish" /\ handling'.object = handling.object
    BY <2>0, <2>1, FanOutProperties
  <2>3. /\ Carried(s)' \subseteq Carried(s) \cup {handling.object}
        /\ \A t \in Subscriptions \ {s} : Carried(t)' = Carried(t)
    BY <2>2, WriteCarried
  <2>4. Buffered' = Buffered
    BY <1>3, <2>1 DEF FanOut
  <2> QED
    BY <2>2, <2>3, <2>4 DEF Held
<1>5. CASE EndPublish
  BY <1>3, <1>5 DEF EndPublish, streamVars, Idle, Held, Carried
<1>6. CASE \E n \in Nodes, g \in MediaTypes : handle_subscribe(n, g)
  BY <1>3, <1>6 DEF handle_subscribe, Held, Carried
<1>7. CASE \E s \in Subscriptions : handle_set_data_stream(NodeOf[s], s)
  <2>1. PICK s \in Subscriptions : handle_set_data_stream(NodeOf[s], s)
    BY <1>7
  <2> DEFINE n == NodeOf[s]
             g == subscribers[n].group_id
  <2>2. UNCHANGED <<bufferVars, wire>>
    BY <2>1 DEF handle_set_data_stream
  <2>3. CASE n \in DOMAIN subscribers
    <3>1. handling'.task = "replay" /\ handling'.todo = Replay(g)
      BY <2>1, <2>3 DEF handle_set_data_stream, Replaying
    <3>2. Elements(Replay(g)) \subseteq Buffered
      <4>1. g \in MediaTypes /\ IndexInv
        BY <2>3, TypeParts DEF SubscribersOK
      <4> QED
        BY <4>1, ReplayProperties
    <3> QED
      BY <1>3, <2>2, <3>1, <3>2 DEF Held, Carried
  <2>4. CASE n \notin DOMAIN subscribers
    BY <1>3, <2>1, <2>2, <2>4 DEF handle_set_data_stream, Held, Carried
  <2> QED
    BY <2>3, <2>4
<1>8. CASE ReplayNext
  <2>0. PICK s, todo : s = handling.stream /\ todo = handling.todo
    OBVIOUS
  <2>1. /\ handling.task = "replay" /\ s \in Subscriptions /\ todo[1] \in Objects
        /\ SendOk(s, todo[1]) \/ SendErr(s, todo[1])
        /\ Len(todo) \in Nat \ {0}
        /\ handling'.task = "replay"
        /\ \/ /\ Len(handling'.todo) = Len(todo) - 1
              /\ \A i \in 1..(Len(todo) - 1) : handling'.todo[i] = todo[i + 1]
           \/ handling'.todo = <<>>
    BY <1>8, <2>0, ReplayNextProperties
  <2>2. /\ {handling'.todo[i] : i \in 1..Len(handling'.todo)} \subseteq Elements(todo)
        /\ todo[1] \in Elements(todo)
    <3>1. CASE handling'.todo = <<>>
      BY <2>1, <3>1 DEF Elements
    <3>2. CASE /\ Len(handling'.todo) = Len(todo) - 1
               /\ \A i \in 1..(Len(todo) - 1) : handling'.todo[i] = todo[i + 1]
      <4>1. \A i \in 1..(Len(todo) - 1) : i + 1 \in 1..Len(todo)
        BY <2>1
      <4> QED
        BY <2>1, <3>2, <4>1 DEF Elements
    <3> QED
      BY <2>1, <3>1, <3>2
  <2>3. /\ Carried(s)' \subseteq Carried(s) \cup {todo[1]}
        /\ \A t \in Subscriptions \ {s} : Carried(t)' = Carried(t)
    BY <2>1, WriteCarried
  <2>4. Buffered' = Buffered
    BY <1>3, <1>8 DEF ReplayNext
  <2>5. o \in Elements(todo) => Held(o)
    BY <2>0, <2>1 DEF Held
  <2>6. CASE o \in {handling'.todo[i] : i \in 1..Len(handling'.todo)}
    BY <2>2, <2>5, <2>6
  <2>7. CASE \E t \in Subscriptions : o \in Carried(t)'
    BY <2>1, <2>2, <2>3, <2>5, <2>7 DEF Held
  <2>8. CASE o \in Buffered'
    BY <2>4, <2>8 DEF Held
  <2> QED
    BY <2>1, <2>6, <2>7, <2>8 DEF Held, Elements
<1>9. CASE StoreStream
  BY <1>3, <1>9 DEF StoreStream, Idle, Held, Carried
<1>10. CASE \E n \in Nodes : handle_unsubscribe(n)
  BY <1>3, <1>10 DEF handle_unsubscribe, Held, Carried
<1>11. CASE \E n \in Nodes, seq \in SequenceNumbers : handle_retransmission_request(n, seq)
  <2>1. PICK n \in Nodes, seq \in SequenceNumbers : handle_retransmission_request(n, seq)
    BY <1>11
  <2>2. UNCHANGED <<bufferVars, handling>>
    BY <2>1, RetransmissionProperties
  <2>3. CASE UNCHANGED streamVars
    BY <1>3, <2>2, <2>3 DEF streamVars, Held, Carried
  <2>4. CASE ~UNCHANGED streamVars
    <3>0. PICK s, p : s = subscribers[n].stream /\ p = Get(seq)
      OBVIOUS
    <3>1. s \in Subscriptions /\ p \in Objects /\ p \in Buffered /\ (SendOk(s, p) \/ SendErr(s, p))
      BY <2>1, <2>4, <3>0, RetransmissionProperties DEF Due
    <3>2. /\ Carried(s)' \subseteq Carried(s) \cup {p}
          /\ \A t \in Subscriptions \ {s} : Carried(t)' = Carried(t)
      BY <3>1, WriteCarried
    <3> QED
      BY <1>3, <2>2, <3>1, <3>2 DEF Held
  <2> QED
    BY <2>3, <2>4
<1> QED
  BY <1>1, <1>2, <1>4, <1>5, <1>6, <1>7, <1>8, <1>9, <1>10, <1>11 DEF ActorStep

LEMMA ActorInitNumbered == ActorInit => NumberedInv
<1> SUFFICES ASSUME ActorInit PROVE NumberedInv
  OBVIOUS
<1>1. \A op : Queued(op) = {}
  BY DEF ActorInit, Queued
<1>2. Buffered = {}
  BY DEF ActorInit, NewBuffer, EmptyMap, Stored, Buffered
<1>3. \A s \in Subscriptions : Carried(s) = {}
  BY DEF ActorInit, Carried
<1> QED
  BY <1>1, <1>2, <1>3 DEF ActorInit, Idle, Held, NumberedInv

LEMMA ActorNextNumbered ==
    TypeInv /\ BufferInv /\ NumberedInv /\ [ActorNext]_actorVars => NumberedInv'
<1> SUFFICES ASSUME TypeInv, BufferInv, NumberedInv, [ActorNext]_actorVars PROVE NumberedInv'
  OBVIOUS
<1>1. CASE ActorStep
  <2>1. UNCHANGED published /\ (UNCHANGED cmd_rx \/ \E cmd : Recv(cmd))
    BY <1>1, ActorStepQueue, ActorStepPeers DEF peerVars
  <2>2. /\ \A o : Taken(o) => Taken(o)'
        /\ \A i \in Queued("PublishObject")' : IsPublished(cmd_rx[i].object)'
        /\ \A i, j \in Queued("PublishObject")' :
             i < j => cmd_rx'[i].object.sequence < cmd_rx'[j].object.sequence
        /\ \A o \in Objects : Recv(PublishObject(o)) => Taken(o)'
    BY <2>1, QueueKeepsNumbers
  <2>3. \A o \in Objects : Held(o)' => Taken(o)'
    BY <1>1, <2>2, ActorStepHolds DEF NumberedInv
  <2> QED
    BY <2>2, <2>3 DEF NumberedInv
<1>2. CASE ~ActorStep
  <2>1. UNCHANGED <<bufferVars, handling, wire>>
    BY <1>2, PeersStepBuffer
  <2>2. \A o : Held(o)' <=> Held(o)
    BY <2>1 DEF bufferVars, Held, Buffered, Stored, Carried
  <2>3. /\ \A o \in Objects : Taken(o) => Taken(o)'
        /\ \A i \in Queued("PublishObject")' : IsPublished(cmd_rx[i].object)'
        /\ \A i, j \in Queued("PublishObject")' :
             i < j => cmd_rx'[i].object.sequence < cmd_rx'[j].object.sequence
    BY <1>2, PeersStepQueue, QueueKeepsNumbers, ForwardNumbered
  <2> QED
    BY <2>2, <2>3 DEF NumberedInv
<1> QED
  BY <1>1, <1>2

-----------------------------------------------------------------------------
(* The handover.                                                           *)

\* The init segment is the first object that was published, and no other has
\* its number.
LEMMA InitIsFirst ==
    ASSUME TypeInv, BufferInv, NumberedInv, init_segment # NoObject
    PROVE  init_segment.sequence = 0 /\ 0 \notin Stored
<1>1. /\ published \in Nat /\ 1..published \subseteq 1..Len(Published)
      /\ init_segment \in Objects
  BY TypeParts, ActorAssumption, LenProperties DEF PeersOK, IndexInv, TypeOK
<1>2. init_segment \in Buffered /\ init_segment.group_id = MEDIA_TYPE_INIT
  BY DEF Buffered, BufferInv
<1>3. IsPublished(init_segment)
  BY <1>1, <1>2 DEF NumberedInv, Held, Taken
<1>4. init_segment.sequence = 0
  <2>1. init_segment.sequence + 1 = 1
    BY <1>1, <1>2, <1>3, PublishedAssumption DEF IsPublished
  <2> QED
    BY <1>1, <2>1, ObjectsAssumption
<1>5. ASSUME 0 \in Stored PROVE FALSE
  <2> DEFINE o == sequence_index[0]
  <2>1. o \in Objects /\ o \in Buffered /\ o.sequence = 0 /\ o.group_id # MEDIA_TYPE_INIT
    BY <1>5, TypeParts DEF IndexInv, TypeOK, IndexesAgree, Buffered, BufferInv
  <2> HIDE DEF o
  <2>2. IsPublished(o)
    BY <2>1 DEF NumberedInv, Held, Taken
  <2>3. o = Published[1] /\ init_segment = Published[1]
    BY <1>3, <1>4, <2>1, <2>2 DEF IsPublished
  <2> QED
    BY <1>2, <2>1, <2>3
<1> QED
  BY <1>4, <1>5

\* The replay covers all that is buffered for the group, in order of sequence
\* with the init segment first (engine.rs:464-576).
LEMMA ReplayComplete ==
    ASSUME TypeInv, BufferInv, NumberedInv, NEW g \in MediaTypes
    PROVE  /\ Due(g) \subseteq Elements(Replay(g))
           /\ \A i, j \in 1..Len(Replay(g)) :
                i < j => Replay(g)[i].sequence < Replay(g)[j].sequence
<1> DEFINE init == Get(0)
           first == IF init # NoObject /\ init.group_id = MEDIA_TYPE_INIT
                       /\ GroupMatches(g, init.group_id) THEN <<init>> ELSE <<>>
           wanted == {seq \in Stored : GroupMatches(g, sequence_index[seq].group_id)}
           rest == IF total_objects = 0 THEN <<>> ELSE GetRange(wanted)
<1>1. Replay(g) = first \o rest
  BY DEF Replay
<1>2. IndexInv /\ Stored \subseteq Nat
  BY TypeParts, ObjectsAssumption DEF IndexInv, TypeOK, SequenceNumbers
\* First the init segment, if it is wanted.
<1>3. \/ first = <<>> /\ (init_segment # NoObject => ~GroupMatches(g, init_segment.group_id))
      \/ first = <<init_segment>> /\ init_segment # NoObject
  <2>1. CASE init_segment # NoObject
    BY <2>1, InitIsFirst DEF Get, BufferInv
  <2>2. CASE init_segment = NoObject
    <3>1. init # NoObject => init.group_id # MEDIA_TYPE_INIT
      BY <2>2 DEF Get, BufferInv
    <3> QED
      BY <2>2, <3>1
  <2> QED
    BY <2>1, <2>2
<1> HIDE DEF first
<1>4. init_segment \in Objects \cup {NoObject}
  BY <1>2 DEF IndexInv, TypeOK
<1>5. /\ first \in Seq(Objects) /\ Len(first) \in {0, 1}
      /\ init_segment # NoObject /\ GroupMatches(g, init_segment.group_id) =>
            init_segment \in Elements(first)
      /\ Len(first) = 1 => first[1].sequence = 0 /\ init_segment # NoObject
  <2>1. CASE first = <<>>
    BY <1>3, <2>1, EmptySeq
  <2>2. CASE first = <<init_segment>> /\ init_segment # NoObject
    BY <1>4, <2>2, InitIsFirst DEF Elements
  <2> QED
    BY <1>3, <2>1, <2>2
\* Then the stored objects.
<1>6. /\ rest \in Seq(Objects)
      /\ Elements(rest) = {sequence_index[seq] : seq \in wanted}
      /\ \A i, j \in 1..Len(rest) : i < j => rest[i].sequence < rest[j].sequence
  <2>1. wanted \in SUBSET Stored
    OBVIOUS
  <2>2. CASE total_objects = 0
    <3>1. rest = <<>> /\ wanted = {}
      BY <2>2 DEF BufferInv
    <3>2. <<>> \in Seq(Objects) /\ Len(<<>>) = 0
      BY EmptySeq
    <3> HIDE DEF rest, wanted
    <3> QED
      BY <3>1, <3>2 DEF Elements
  <2>3. CASE total_objects # 0
    <3>1. rest = GetRange(wanted)
      BY <2>3
    <3> HIDE DEF rest, wanted
    <3> QED
      BY <1>2, <2>1, <3>1, GetRangeProperties
  <2> QED
    BY <2>2, <2>3
<1>7. ASSUME Len(first) = 1, NEW i \in 1..Len(rest) PROVE 0 < rest[i].sequence
  <2>1. PICK seq \in Stored : rest[i] = sequence_index[seq]
    BY <1>6, <1>7 DEF Elements
  <2>2. 0 \notin Stored
    BY <1>5, <1>7, InitIsFirst
  <2>3. rest[i].sequence = seq /\ seq \in Nat
    BY <1>2, <2>1 DEF IndexInv, IndexesAgree
  <2> QED
    BY <2>1, <2>2, <2>3
<1> DEFINE r == first \o rest
<1>8. Due(g) \subseteq Elements(first) \cup Elements(rest)
  BY <1>5, <1>6 DEF Due, Buffered
<1> HIDE DEF rest, wanted
<1>9. /\ Len(first) \in Nat /\ Len(rest) \in Nat
      /\ Len(r) = Len(first) + Len(rest)
      /\ \A i \in 1..(Len(first) + Len(rest)) : r[i] =
            IF i <= Len(first) THEN first[i] ELSE rest[i - Len(first)]
  BY <1>5, <1>6, ConcatProperties, LenProperties
<1> HIDE DEF r
<1>10. Elements(first) \cup Elements(rest) \subseteq Elements(r)
  <2>1. ASSUME NEW i \in 1..Len(first) PROVE first[i] \in Elements(r)
    BY <1>9 DEF Elements
  <2>2. ASSUME NEW i \in 1..Len(rest) PROVE rest[i] \in Elements(r)
    <3>1. /\ i + Len(first) \in 1..Len(r) /\ ~(i + Len(first) <= Len(first))
          /\ (i + Len(first)) - Len(first) = i
      BY <1>9
    <3>2. r[i + Len(first)] = rest[i]
      BY <1>9, <3>1
    <3> QED
      BY <3>1, <3>2 DEF Elements
  <2> QED
    BY <2>1, <2>2 DEF Elements
<1>11. ASSUME NEW i \in 1..Len(r), NEW j \in 1..Len(r), i < j
       PROVE  r[i].sequence < r[j].sequence
  <2>1. CASE Len(first) = 0
    <3>1. r[i] = rest[i] /\ r[j] = rest[j] /\ i \in 1..Len(rest) /\ j \in 1..Len(rest)
      BY <1>9, <2>1
    <3> QED
      BY <1>6, <1>11, <3>1
  <2>2. CASE Len(first) = 1
    <3>1. r[j] = rest[j - 1] /\ j - 1 \in 1..Len(rest)
      BY <1>9, <1>11, <2>2
    <3>2. CASE i = 1
      BY <1>5, <1>7, <1>9, <2>2, <3>1, <3>2
    <3>3. CASE i # 1
      <4>1. r[i] = rest[i - 1] /\ i - 1 \in 1..Len(rest) /\ i - 1 < j - 1
        BY <1>9, <1>11, <2>2, <3>3
      <4> QED
        BY <1>6, <3>1, <4>1
    <3> QED
      BY <3>2, <3>3
  <2> QED
    BY <1>5, <2>1, <2>2
<1> QED
  BY <1>1, <1>8, <1>10, <1>11 DEF r

LEMMA DueKept == UNCHANGED bufferVars => \A g : Due(g)' = Due(g)
BY DEF bufferVars, Due, Buffered, Stored

\* A step that neither touches the buffer nor goes on with a handler keeps
\* what was handed over.
LEMMA HandedOverKept ==
    ASSUME HandoverInv, NEW s \in Subscriptions, NEW g \in MediaTypes, Healthy(s),
           UNCHANGED <<bufferVars, handling>>, Sent(s) \subseteq Sent(s)',
           \A n \in Nodes : Serves(n, g, s)' => Serves(n, g, s),
           ReplaysTo(g, s)' => ReplaysTo(g, s)
    PROVE  /\ \A n \in Nodes : Serves(n, g, s)' => HandedOver(n, g, s)'
           /\ ReplaysTo(g, s)' => (Due(g) \subseteq Sent(s) \cup Elements(handling.todo))'
<1>1. Due(g)' = Due(g)
  BY DueKept
<1>2. \A n \in Nodes : HandedOver(n, g, s) => HandedOver(n, g, s)'
  BY <1>1 DEF HandedOver
<1> QED
  BY <1>1, <1>2 DEF HandoverInv

LEMMA ActorStepHandover ==
    ASSUME TypeInv, OwnersInv, BufferInv, NumberedInv, HandoverInv, ActorStep
    PROVE  HandoverInv'
<1> SUFFICES ASSUME NEW s \in Subscriptions, NEW g \in MediaTypes, Healthy(s)'
             PROVE  /\ \A n \in Nodes : Serves(n, g, s)' => HandedOver(n, g, s)'
                    /\ ReplaysTo(g, s)' => (Due(g) \subseteq Sent(s) \cup Elements(handling.todo))'
  BY DEF HandoverInv
<1>1. CASE \E o \in Objects : handle_publish_object(o)
  <2>1. PICK o \in Objects : handle_publish_object(o) /\ Buffered' \subseteq Buffered \cup {o}
    BY <1>1, BeginAddBuffered DEF handle_publish_object
  <2>2. /\ UNCHANGED <<subscribers, wire, stream, failed>> /\ handling = Idle
        /\ handling' = Publishing(o, Matching(o))
    BY <2>1 DEF handle_publish_object, streamVars, Recv
  <2>3. /\ handling'.task = "publish" /\ handling'.object = o /\ handling'.todo = Matching(o)
        /\ handling.task = "recv"
    BY <2>2 DEF Publishing, Idle
  <2>4. Healthy(s) /\ Sent(s)' = Sent(s) /\ \A n : Serves(n, g, s)' = Serves(n, g, s)
    BY <2>2 DEF Healthy, Sent, Serves
  <2>5. Due(g)' \subseteq Due(g) \cup {o}
    BY <2>1 DEF Due
  <2>6. ASSUME NEW n \in Nodes, Serves(n, g, s)' PROVE HandedOver(n, g, s)'
    <3>1. Due(g) \subseteq Sent(s)
      BY <2>3, <2>4, <2>6 DEF HandoverInv, HandedOver
    <3>2. GroupMatches(g, o.group_id) => n \in Matching(o)
      BY <2>4, <2>6, ActorAssumption DEF Serves, Matching
    <3> QED
      BY <2>3, <2>4, <2>5, <3>1, <3>2 DEF HandedOver
  <2> QED
    BY <2>3, <2>6 DEF ReplaysTo
<1>2. CASE AddStep
  <2>1. /\ UNCHANGED <<subscribers, wire, stream, failed, handling>>
        /\ handling.task = "publish" /\ Buffered' \subseteq Buffered \cup {handling.object}
    <3>1. handling.task = "publish" /\ handling.object = adding /\ IndexInv
      BY <1>2, TypeParts DEF AddStep, Evict, Insert, HandlingOK
    <3> QED
      BY <1>2, <3>1, EvictBuffered, InsertBuffered DEF AddStep, streamVars
  <2>2. Healthy(s) /\ Sent(s)' = Sent(s) /\ \A n : Serves(n, g, s)' = Serves(n, g, s)
    BY <2>1 DEF Healthy, Sent, Serves
  <2>3. Due(g)' \subseteq Due(g) \cup {handling.object}
    BY <2>1 DEF Due
  <2>4. ASSUME NEW n \in Nodes, Serves(n, g, s)' PROVE HandedOver(n, g, s)'
    BY <2>1, <2>2, <2>3, <2>4 DEF HandoverInv, HandedOver
  <2> QED
    BY <2>1, <2>4 DEF ReplaysTo
<1>3. CASE \E n \in Nodes : FanOut(n)
  <2>1. PICK m \in Nodes : FanOut(m)
    BY <1>3
  <2>2. PICK t, o : t = subscribers[m].stream /\ o = handling.object
    OBVIOUS
  <2>3. /\ handling.task = "publish" /\ m \in DOMAIN subscribers
        /\ t \in Subscriptions /\ o \in Objects
        /\ SendOk(t, o) \/ SendErr(t, o)
        /\ handling'.task = "publish" /\ handling'.object = o
        /\ handling'.todo = handling.todo \ {m}
        /\ UNCHANGED <<bufferVars, subscribers>>
    BY <2>1, <2>2, FanOutProperties DEF FanOut
  <2>4. /\ \A u \in Subscriptions : Sent(u) \subseteq Sent(u)'
        /\ t \in failed' \/ o \in Sent(t)'
        /\ failed \subseteq failed' /\ stream' = stream
    BY <2>3, WriteCarried
  <2>5. Healthy(s) /\ Sent(s) \subseteq Sent(s)' /\ Due(g)' = Due(g)
    BY <2>3, <2>4, DueKept DEF Healthy
  <2>6. ASSUME NEW n \in Nodes, Serves(n, g, s)' PROVE HandedOver(n, g, s)'
    <3>1. Serves(n, g, s)
      BY <2>3, <2>6 DEF Serves
    <3>2. /\ Due(g) \subseteq Sent(s) \cup {o}
          /\ GroupMatches(g, o.group_id) => n \in handling.todo \/ o \in Sent(s)
      BY <2>2, <2>3, <2>5, <3>1 DEF HandoverInv, HandedOver
    <3>3. n = m => o \in Sent(s)'
      BY <2>2, <2>4, <3>1 DEF Serves, Healthy
    <3> QED
      BY <2>3, <2>5, <3>2, <3>3 DEF HandedOver
  <2> QED
    BY <2>3, <2>6 DEF ReplaysTo
<1>4. CASE EndPublish
  <2>1. /\ handling.task = "publish" /\ handling.todo = {} /\ handling'.task = "recv"
        /\ UNCHANGED <<bufferVars, subscribers, stream, wire, failed>>
    BY <1>4 DEF EndPublish, streamVars, Idle
  <2>2. Healthy(s) /\ Sent(s)' = Sent(s) /\ \A n : Serves(n, g, s)' = Serves(n, g, s)
    BY <2>1 DEF Healthy, Sent, Serves
  <2>3. Due(g)' = Due(g)
    BY <2>1, DueKept
  <2>4. ASSUME NEW n \in Nodes, Serves(n, g, s)' PROVE HandedOver(n, g, s)'
    <3>1. /\ Due(g) \subseteq Sent(s) \cup {handling.object}
          /\ GroupMatches(g, handling.object.group_id) => handling.object \in Sent(s)
      BY <2>1, <2>2, <2>4 DEF HandoverInv, HandedOver
    <3>2. Due(g) \subseteq Sent(s)
      BY <3>1 DEF Due
    <3> QED
      BY <2>1, <2>2, <2>3, <3>2 DEF HandedOver
  <2> QED
    BY <2>1, <2>4 DEF ReplaysTo
\* The handlers that begin and end with an idle actor, and drop or write.
<1>5. ASSUME handling = Idle, UNCHANGED <<bufferVars, handling>>,
             Healthy(s), Sent(s) \subseteq Sent(s)',
             \A n \in Nodes : Serves(n, g, s)' => Serves(n, g, s)
      PROVE  /\ \A n \in Nodes : Serves(n, g, s)' => HandedOver(n, g, s)'
             /\ ReplaysTo(g, s)' => (Due(g) \subseteq Sent(s) \cup Elements(handling.todo))'
  <2>1. ~ReplaysTo(g, s)'
    BY <1>5 DEF Idle, ReplaysTo
  <2> QED
    BY <1>5, <2>1, HandedOverKept
<1>6. ASSUME NEW S, Drop(S), UNCHANGED <<wire, failed, timeouts>>
      PROVE  Healthy(s) /\ Sent(s)' = Sent(s)
  BY <1>6, DropProperties, TypeParts DEF Healthy, Sent
<1>7. CASE \E n \in Nodes, h \in MediaTypes : handle_subscribe(n, h)
  <2>1. PICK m \in Nodes, h \in MediaTypes : handle_subscribe(m, h)
    BY <1>7
  <2>2. /\ subscribers'[m].stream = NoStream
        /\ DOMAIN subscribers' = DOMAIN subscribers \cup {m}
        /\ \A n \in DOMAIN subscribers \ {m} : subscribers'[n] = subscribers[n]
    BY <2>1, SubscriberProperties, TypeParts DEF handle_subscribe
  <2>3. \A n \in Nodes : Serves(n, g, s)' => Serves(n, g, s)
    BY <2>2, ActorAssumption DEF Serves
  <2>4. Healthy(s) /\ Sent(s)' = Sent(s)
    BY <2>1, <1>6 DEF handle_subscribe
  <2> QED
    BY <1>5, <2>1, <2>3, <2>4 DEF handle_subscribe, Recv
<1>8. CASE \E t \in Subscriptions : handle_set_data_stream(NodeOf[t], t)
  <2>1. PICK t \in Subscriptions : handle_set_data_stream(NodeOf[t], t)
    BY <1>8
  <2>2. PICK m : m = NodeOf[t]
    OBVIOUS
  <2>3. UNCHANGED <<bufferVars, subscribers, wire, failed, timeouts>> /\ handling = Idle
    BY <2>1 DEF handle_set_data_stream, Recv
  <2>4. \A n \in Nodes : Serves(n, g, s)' => Serves(n, g, s)
    BY <2>3 DEF Serves
  <2>5. CASE m \in DOMAIN subscribers
    <3>1. /\ UNCHANGED stream
          /\ handling' = Replaying(m, t, Replay(subscribers[m].group_id))
      BY <2>1, <2>2, <2>5 DEF handle_set_data_stream
    <3>2. /\ handling'.task = "replay" /\ handling'.node = m
          /\ handling'.todo = Replay(subscribers[m].group_id) /\ handling.task = "recv"
      BY <2>3, <3>1 DEF Replaying, Idle
    <3>3. Healthy(s) /\ Sent(s)' = Sent(s) /\ Due(g)' = Due(g)
      BY <2>3, <3>1, DueKept DEF Healthy, Sent
    <3>4. ASSUME NEW n \in Nodes, Serves(n, g, s)' PROVE HandedOver(n, g, s)'
      BY <2>4, <3>2, <3>3, <3>4 DEF HandoverInv, HandedOver
    <3>5. ASSUME ReplaysTo(g, s)'
          PROVE  (Due(g) \subseteq Sent(s) \cup Elements(handling.todo))'
      <4>1. subscribers[m].group_id = g
        BY <2>3, <3>2, <3>5 DEF ReplaysTo
      <4>2. Due(g) \subseteq Elements(Replay(g))
        BY ReplayComplete
      <4>3. handling'.todo = Replay(g)
        BY <3>2, <4>1
      <4> QED
        BY <3>3, <4>2, <4>3 DEF Elements
    <3> QED
      BY <3>4, <3>5
  <2>6. CASE m \notin DOMAIN subscribers
    <3>1. Drop({t}) /\ UNCHANGED handling
      BY <2>1, <2>2, <2>6 DEF handle_set_data_stream
    <3> QED
      BY <1>5, <1>6, <2>3, <2>4, <3>1
  <2> QED
    BY <2>5, <2>6
<1>9. CASE ReplayNext
  <2>1. PICK t, todo : t = handling.stream /\ todo = handling.todo
    OBVIOUS
  <2>2. /\ handling.task = "replay" /\ t \in Subscriptions /\ todo[1] \in Objects
        /\ Len(todo) \in Nat \ {0}
        /\ SendOk(t, todo[1]) \/ SendErr(t, todo[1])
        /\ handling'.task = "replay" /\ handling'.stream = t /\ handling'.node = handling.node
        /\ \/ /\ Len(handling'.todo) = Len(todo) - 1
              /\ \A i \in 1..(Len(todo) - 1) : handling'.todo[i] = todo[i + 1]
           \/ t \in failed'
        /\ UNCHANGED <<bufferVars, subscribers>>
    BY <1>9, <2>1, ReplayNextProperties DEF ReplayNext
  <2>3. /\ \A u \in Subscriptions : Sent(u) \subseteq Sent(u)'
        /\ t \in failed' \/ todo[1] \in Sent(t)'
        /\ failed \subseteq failed' /\ stream' = stream
    BY <2>2, WriteCarried
  <2>4. Healthy(s) /\ Sent(s) \subseteq Sent(s)' /\ Due(g)' = Due(g)
    BY <2>2, <2>3, DueKept DEF Healthy
  <2>5. ASSUME NEW n \in Nodes, Serves(n, g, s)' PROVE HandedOver(n, g, s)'
    <3>1. Serves(n, g, s)
      BY <2>2, <2>5 DEF Serves
    <3> QED
      BY <2>2, <2>4, <3>1 DEF HandoverInv, HandedOver
  <2>6. ASSUME ReplaysTo(g, s)'
        PROVE  (Due(g) \subseteq Sent(s) \cup Elements(handling.todo))'
    <3>1. ReplaysTo(g, s) /\ s = t
      BY <2>1, <2>2, <2>6 DEF ReplaysTo
    <3>2. Due(g) \subseteq Sent(s) \cup Elements(todo)
      BY <2>1, <2>4, <3>1 DEF HandoverInv
    <3>3. ASSUME NEW x \in Elements(todo)
          PROVE  x \in Sent(s)' \cup {handling'.todo[i] : i \in 1..Len(handling'.todo)}
      <4>1. PICK i \in 1..Len(todo) : x = todo[i]
        BY <3>3 DEF Elements
      <4>2. t \notin failed'
        BY <3>1 DEF Healthy
      <4>3. CASE i = 1
        BY <2>3, <3>1, <4>1, <4>2, <4>3
      <4>4. CASE i # 1
        <5>1. i - 1 \in 1..(Len(todo) - 1) /\ (i - 1) + 1 = i
          BY <2>2, <4>4
        <5> QED
          BY <2>2, <4>1, <4>2, <5>1
      <4> QED
        BY <4>3, <4>4
    <3> QED
      BY <2>4, <3>2, <3>3 DEF Elements
  <2> QED
    BY <2>5, <2>6
<1>10. CASE StoreStream
  <2>1. PICK m, t : m = handling.node /\ t = handling.stream
    OBVIOUS
  <2>2. /\ handling.task = "replay" /\ handling.todo = <<>> /\ handling'.task = "recv"
        /\ m \in DOMAIN subscribers /\ m \in Nodes
        /\ subscribers'[m].group_id = subscribers[m].group_id /\ subscribers'[m].stream = t
        /\ DOMAIN subscribers' = DOMAIN subscribers \cup {m}
        /\ \A n \in DOMAIN subscribers \ {m} : subscribers'[n] = subscribers[n]
    <3>1. /\ handling.task = "replay" /\ handling.todo = <<>> /\ handling' = Idle
          /\ m \in DOMAIN subscribers /\ m \in Nodes /\ t \in Subscriptions
          /\ subscribers[m].group_id \in MediaTypes
          /\ Subscriber(m, subscribers[m].group_id, t)
      BY <1>10, <2>1, StoreStreamProperties
    <3>2. SubscribersOK
      BY TypeParts
    <3> QED
      BY <3>1, <3>2, SubscriberProperties DEF Idle
  <2>3. UNCHANGED <<bufferVars, wire, failed, timeouts>> /\ Drop(StreamOf(m))
    BY <1>10, <2>1 DEF StoreStream
  <2>4. Healthy(s) /\ Sent(s)' = Sent(s) /\ Due(g)' = Due(g)
    BY <1>6, <2>3, DueKept
  <2>5. ASSUME NEW n \in Nodes, Serves(n, g, s)' PROVE HandedOver(n, g, s)'
    <3>1. CASE n = m
      <4>1. ReplaysTo(g, s)
        BY <2>1, <2>2, <2>5, <3>1 DEF Serves, ReplaysTo
      <4>2. Due(g) \subseteq Sent(s) \cup Elements(handling.todo)
        BY <2>4, <4>1 DEF HandoverInv
      <4>3. Due(g) \subseteq Sent(s)
        BY <2>2, <4>2 DEF Elements
      <4> QED
        BY <2>2, <2>4, <4>3 DEF HandedOver
    <3>2. CASE n # m
      <4>1. Serves(n, g, s)
        BY <2>2, <2>5, <3>2 DEF Serves
      <4> QED
        BY <2>2, <2>4, <4>1 DEF HandoverInv, HandedOver
    <3> QED
      BY <3>1, <3>2
  <2> QED
    BY <2>2, <2>5 DEF ReplaysTo
<1>11. CASE \E n \in Nodes : handle_unsubscribe(n)
  <2>1. PICK m \in Nodes : handle_unsubscribe(m)
    BY <1>11
  <2>2. \A n \in Nodes : Serves(n, g, s)' => Serves(n, g, s)
    BY <2>1 DEF handle_unsubscribe, Serves
  <2>3. Healthy(s) /\ Sent(s)' = Sent(s)
    BY <2>1, <1>6 DEF handle_unsubscribe
  <2> QED
    BY <1>5, <2>1, <2>2, <2>3 DEF handle_unsubscribe, Recv
<1>12. CASE \E n \in Nodes, seq \in SequenceNumbers : handle_retransmission_request(n, seq)
  <2>1. PICK m \in Nodes, seq \in SequenceNumbers : handle_retransmission_request(m, seq)
    BY <1>12
  <2>2. UNCHANGED <<bufferVars, subscribers, handling>> /\ handling = Idle
    BY <2>1, RetransmissionProperties
  <2>3. \A n \in Nodes : Serves(n, g, s)' => Serves(n, g, s)
    BY <2>2 DEF Serves
  <2>4. Healthy(s) /\ Sent(s) \subseteq Sent(s)'
    <3>1. CASE UNCHANGED streamVars
      BY <3>1 DEF streamVars, Healthy, Sent
    <3>2. CASE ~UNCHANGED streamVars
      <4>1. PICK t, o : t = subscribers[m].stream /\ o = Get(seq)
        OBVIOUS
      <4>2. t \in Subscriptions /\ o \in Objects /\ (SendOk(t, o) \/ SendErr(t, o))
        BY <2>1, <3>2, <4>1, RetransmissionProperties
      <4> QED
        BY <4>2, WriteCarried DEF Healthy
    <3> QED
      BY <3>1, <3>2
  <2> QED
    BY <1>5, <2>2, <2>3, <2>4
<1> QED
  BY <1>1, <1>2, <1>3, <1>4, <1>7, <1>8, <1>9, <1>10, <1>11, <1>12 DEF ActorStep

LEMMA ActorInitHandover == ActorInit => HandoverInv
BY DEF ActorInit, EmptyMap, Idle, HandoverInv, Serves, ReplaysTo

LEMMA ActorNextHandover ==
    TypeInv /\ OwnersInv /\ BufferInv /\ NumberedInv /\ HandoverInv /\ [ActorNext]_actorVars
    => HandoverInv'
<1> SUFFICES ASSUME TypeInv, OwnersInv, BufferInv, NumberedInv, HandoverInv,
                    [ActorNext]_actorVars, ~ActorStep
             PROVE  HandoverInv'
  BY ActorStepHandover
<1>1. UNCHANGED <<bufferVars, subscribers, handling, wire, failed, timeouts>>
  BY PeersStepBuffer
<1> SUFFICES ASSUME NEW s \in Subscriptions, NEW g \in MediaTypes, Healthy(s)'
             PROVE  /\ \A n \in Nodes : Serves(n, g, s)' => HandedOver(n, g, s)'
                    /\ ReplaysTo(g, s)' => (Due(g) \subseteq Sent(s) \cup Elements(handling.todo))'
  BY DEF HandoverInv
<1>2. /\ Sent(s)' = Sent(s) /\ ReplaysTo(g, s)' = ReplaysTo(g, s)
      /\ \A n \in Nodes : Serves(n, g, s)' = Serves(n, g, s)
  BY <1>1 DEF Sent, ReplaysTo, Serves
\* Nobody uses a stream that has only just been opened.
<1>3. CASE ~Healthy(s)
  <2>1. stream[s] # "open" /\ stream'[s] = "open"
    BY <1>1, <1>3 DEF Healthy
  <2>2. session[s] = "subscribed"
    BY <2>1, TypeParts
       DEF ActorNext, forward_object, handle_subscribe_message, handle_data_stream,
           handle_unsubscribe_message, peer_stops, handle_request_message, unsubscribe,
           streamVars, actorVars, WireOK
  <2>3. ~Used(s)
    BY <2>2 DEF OwnersInv, UnopenedUnknown
  <2> QED
    BY <1>2, <2>3 DEF Used, InUse, Serves, ReplaysTo
<1>4. CASE Healthy(s)
  BY <1>1, <1>2, <1>4, HandedOverKept
<1> QED
  BY <1>3, <1>4

\* Between commands, whatever the interleaving, a subscriber whose stream
\* never failed has been sent all that is in the buffer for it: the handover
\* from replay to live sending leaves no gap (engine.rs:464-576).
THEOREM BufferedAlwaysSent == ActorSpec => []BufferedWasSent
<1>1. ASSUME TypeInv, HandoverInv PROVE BufferedWasSent
  <2>1. SUFFICES ASSUME NEW n \in DOMAIN subscribers, NEW s, NEW g, handling = Idle,
                        s = subscribers[n].stream, g = subscribers[n].group_id,
                        s # NoStream, stream[s] = "open", s \notin failed
                 PROVE  Due(g) \subseteq Sent(s)
    BY DEF BufferedWasSent, Due
  <2>2. n \in Nodes /\ s \in Subscriptions /\ g \in MediaTypes
    BY <2>1, <1>1, TypeParts DEF SubscribersOK
  <2>3. HandedOver(n, g, s)
    BY <1>1, <2>1, <2>2 DEF HandoverInv, Healthy, Serves
  <2> QED
    BY <2>1, <2>3 DEF HandedOver, Idle
<1>2. TypeInv /\ HandoverInv => BufferedWasSent
  BY <1>1
<1> QED
  BY <1>2, ActorInitType, ActorNextType, ActorInitOwners, ActorNextOwners, ActorInitBuffer,
     ActorNextBuffer, ActorInitNumbered, ActorNextNumbered, ActorInitHandover,
     ActorNextHandover, PTL DEF ActorSpec

-----------------------------------------------------------------------------
(* Order.                                                                  *)

\* A write to a stream that has not failed keeps its order, if the object is
\* newer than all that the stream carries, or is one of those.
LEMMA WriteInOrder ==
    ASSUME TypeInv, NEW s \in Subscriptions, NEW o \in Objects, SendOk(s, o) \/ SendErr(s, o),
           s \notin failed', Whole(s), InOrder(s),
           o \in Carried(s) \/ \A p \in Carried(s) : p.sequence < o.sequence
    PROVE  /\ Whole(s)' /\ InOrder(s)'
           /\ Increasing(s) /\ (\A p \in Carried(s) : p.sequence < o.sequence) => Increasing(s)'
<1> DEFINE n == Len(wire[s])
<1>1. /\ n \in Nat /\ Len(wire'[s]) = n + 1
      /\ \A i \in 1..n : wire'[s][i] = wire[s][i]
      /\ wire'[s][n + 1].object = o /\ wire'[s][n + 1].whole
  BY SendProperties, TypeParts
<1> HIDE DEF n
<1>2. \A i \in 1..(n + 1) : i = n + 1 \/ i \in 1..n
  BY <1>1
<1>3. Whole(s)'
  BY <1>1, <1>2 DEF Whole, n
<1>4. Carried(s) = {wire'[s][i].object : i \in 1..n}
  BY <1>1 DEF Carried, n
<1>5. InOrder(s)'
  <2> SUFFICES ASSUME NEW j \in 1..(n + 1)
               PROVE  LET sent == wire'[s][j].object
                          before == {wire'[s][i].object : i \in 1..(j - 1)}
                      IN  sent \in before \/ \A p \in before : p.sequence < sent.sequence
    BY <1>1 DEF InOrder
  <2>1. CASE j = n + 1
    <3>1. 1..(j - 1) = 1..n
      BY <1>1, <2>1
    <3> QED
      BY <1>1, <1>4, <2>1, <3>1
  <2>2. CASE j \in 1..n
    <3>1. \A i \in 1..(j - 1) : i \in 1..n
      BY <1>1, <2>2
    <3>2. /\ wire'[s][j] = wire[s][j]
          /\ \A i \in 1..(j - 1) : wire'[s][i] = wire[s][i]
      BY <1>1, <2>2, <3>1
    <3>3. {wire'[s][i].object : i \in 1..(j - 1)} = {wire[s][i].object : i \in 1..(j - 1)}
      BY <3>2
    <3> QED
      BY <2>2, <3>2, <3>3 DEF InOrder, n
  <2> QED
    BY <1>2, <2>1, <2>2
<1>6. ASSUME Increasing(s), \A p \in Carried(s) : p.sequence < o.sequence
      PROVE  Increasing(s)'
  <2> SUFFICES ASSUME NEW i \in 1..(n + 1), NEW j \in 1..(n + 1), i < j
               PROVE  wire'[s][i].object.sequence < wire'[s][j].object.sequence
    BY <1>1 DEF Increasing
  <2>1. i \in 1..n
    BY <1>1
  <2>2. CASE j = n + 1
    BY <1>1, <1>4, <1>6, <2>1, <2>2
  <2>3. CASE j \in 1..n
    BY <1>1, <1>6, <2>1, <2>3 DEF Increasing, n
  <2> QED
    BY <1>2, <2>2, <2>3
<1> QED
  BY <1>3, <1>5, <1>6

\* What a step of the actor writes: something new for the stream, or, on
\* request, something the stream carries.
LEMMA ActorStepWrites ==
    ASSUME TypeInv, OwnersInv, HandoverInv, AboutToSendInv, RequestsInv, ActorStep,
           NEW s \in Subscriptions, s \notin failed'
    PROVE  /\ s \notin failed
           /\ \/ wire'[s] = wire[s]
              \/ \E o \in Objects :
                   /\ SendOk(s, o) \/ SendErr(s, o)
                   /\ \/ \A p \in Carried(s) : p.sequence < o.sequence
                      \/ requests # 0 /\ o \in Carried(s)
<1> DEFINE Write(o) ==
             /\ SendOk(s, o) \/ SendErr(s, o)
             /\ \/ \A p \in Carried(s) : p.sequence < o.sequence
                \/ requests # 0 /\ o \in Carried(s)
<1> SUFFICES s \notin failed /\ (wire'[s] = wire[s] \/ \E o \in Objects : Write(o))
  OBVIOUS
<1>1. ASSUME NEW t \in Subscriptions, NEW o \in Objects, SendOk(t, o) \/ SendErr(t, o), t = s => Write(o)
      PROVE  s \notin failed /\ (wire'[s] = wire[s] \/ \E p \in Objects : Write(p))
  <2>1. s \notin failed /\ (t # s => wire'[s] = wire[s])
    BY <1>1, SendProperties, TypeParts
  <2> QED
    BY <1>1, <2>1
<1>2. CASE \E n \in Nodes : FanOut(n)
  <2>1. PICK m \in Nodes : FanOut(m)
    BY <1>2
  <2>2. PICK t, o : t = subscribers[m].stream /\ o = handling.object
    OBVIOUS
  <2>3. /\ handling.task = "publish" /\ m \in handling.todo
        /\ t \in Subscriptions /\ o \in Objects /\ (SendOk(t, o) \/ SendErr(t, o))
    BY <2>1, <2>2, FanOutProperties
  <2>4. t = s => Write(o)
    BY <2>2, <2>3 DEF AboutToSendInv
  <2> HIDE DEF Write
  <2> QED
    BY <1>1, <2>3, <2>4
<1>3. CASE ReplayNext
  <2>1. PICK t, todo : t = handling.stream /\ todo = handling.todo
    OBVIOUS
  <2>2. /\ handling.task = "replay" /\ t \in Subscriptions /\ todo[1] \in Objects
        /\ SendOk(t, todo[1]) \/ SendErr(t, todo[1])
        /\ 1 \in 1..Len(todo)
    BY <1>3, <2>1, ReplayNextProperties
  <2>3. t = s => Write(todo[1])
    BY <2>1, <2>2 DEF AboutToSendInv
  <2> HIDE DEF Write
  <2> QED
    BY <1>1, <2>2, <2>3
<1>4. CASE \E n \in Nodes, seq \in SequenceNumbers : handle_retransmission_request(n, seq)
  <2>1. PICK m \in Nodes, seq \in SequenceNumbers : handle_retransmission_request(m, seq)
    BY <1>4
  <2>2. requests # 0
    <3>1. cmd_rx[1] = RequestRetransmission(m, seq) /\ 1 \in 1..Len(cmd_rx)
      BY <2>1, RecvProperties, TypeParts DEF handle_retransmission_request
    <3>2. 1 \in Queued("RequestRetransmission")
      BY <3>1 DEF Queued, RequestRetransmission
    <3> QED
      BY <3>2 DEF RequestsInv
  <2>3. CASE UNCHANGED streamVars
    BY <2>3 DEF streamVars
  <2>4. CASE ~UNCHANGED streamVars
    <3>1. PICK t, o, g : t = subscribers[m].stream /\ o = Get(seq) /\ g = subscribers[m].group_id
      OBVIOUS
    <3>2. /\ m \in DOMAIN subscribers /\ t \in Subscriptions /\ o \in Objects /\ o \in Due(g)
          /\ SendOk(t, o) \/ SendErr(t, o)
          /\ handling.task = "recv" /\ g \in MediaTypes
      BY <2>1, <2>4, <3>1, RetransmissionProperties, TypeParts DEF SubscribersOK, Idle
    <3>3. s \notin failed
      BY <3>2, SendProperties, TypeParts
    <3>4. ASSUME t = s PROVE o \in Carried(s)
      <4>1. stream[s] = "open"
        BY <3>2, <3>4 DEF SendOk, SendErr
      <4>2. Healthy(s) /\ Serves(m, g, s)
        BY <3>1, <3>2, <3>3, <3>4, <4>1 DEF Healthy, Serves
      <4>3. Due(g) \subseteq Sent(s)
        BY <2>1, <3>2, <4>2 DEF HandoverInv, HandedOver
      <4>4. Sent(s) \subseteq Carried(s)
        BY DEF Sent, Carried
      <4> QED
        BY <3>2, <4>3, <4>4
    <3>5. t = s => Write(o)
      BY <2>2, <3>2, <3>4
    <3> HIDE DEF Write
    <3> QED
      BY <1>1, <3>2, <3>5
  <2> QED
    BY <2>3, <2>4
<1>5. CASE UNCHANGED <<wire, failed>>
  BY <1>5
<1> QED
  BY <1>2, <1>3, <1>4, <1>5
     DEF ActorStep, handle_publish_object, AddStep, EndPublish, handle_subscribe,
         handle_set_data_stream, StoreStream, handle_unsubscribe, streamVars

LEMMA ActorStepOrder ==
    ASSUME TypeInv, OwnersInv, HandoverInv, AboutToSendInv, RequestsInv, OrderInv, ActorStep
    PROVE  OrderInv'
<1> SUFFICES ASSUME NEW s \in Subscriptions, s \notin failed'
             PROVE  Whole(s)' /\ InOrder(s)' /\ (requests' = 0 => Increasing(s)')
  BY DEF OrderInv
<1>1. requests' = requests
  BY ActorStepPeers DEF peerVars
<1>2. /\ s \notin failed
      /\ \/ wire'[s] = wire[s]
         \/ \E o \in Objects :
              /\ SendOk(s, o) \/ SendErr(s, o)
              /\ \/ \A p \in Carried(s) : p.sequence < o.sequence
                 \/ requests # 0 /\ o \in Carried(s)
  BY ActorStepWrites
<1>3. Whole(s) /\ InOrder(s) /\ (requests = 0 => Increasing(s))
  BY <1>2 DEF OrderInv
<1>4. CASE wire'[s] = wire[s]
  BY <1>1, <1>3, <1>4 DEF Whole, InOrder, Increasing
<1>5. CASE \E o \in Objects :
              /\ SendOk(s, o) \/ SendErr(s, o)
              /\ \/ \A p \in Carried(s) : p.sequence < o.sequence
                 \/ requests # 0 /\ o \in Carried(s)
  BY <1>1, <1>3, <1>5, WriteInOrder
<1> QED
  BY <1>2, <1>4, <1>5

LEMMA CarriedObjects ==
    ASSUME WireOK, NEW s \in Subscriptions, NEW i \in 1..Len(wire[s])
    PROVE  wire[s][i].object \in Objects
<1>1. wire[s] \in Seq([object : Objects, whole : BOOLEAN])
  BY DEF WireOK
<1>2. wire[s][i] \in [object : Objects, whole : BOOLEAN]
  BY <1>1, ElementOfSeq
<1> QED
  BY <1>2

LEMMA ActorStepAboutToSend ==
    ASSUME TypeInv, OwnersInv, BufferInv, NumberedInv, AboutToSendInv, ActorStep
    PROVE  AboutToSendInv'
<1>1. CASE \E o \in Objects : handle_publish_object(o)
  <2>1. PICK o \in Objects : handle_publish_object(o)
    BY <1>1
  <2>2. /\ handling'.task = "publish" /\ handling'.object = o /\ UNCHANGED wire
    BY <2>1 DEF handle_publish_object, Publishing, streamVars
  <2>3. 1 \in Queued("PublishObject") /\ cmd_rx[1].object = o
    <3>1. cmd_rx[1] = PublishObject(o) /\ 1 \in 1..Len(cmd_rx)
      BY <2>1, RecvProperties, TypeParts DEF handle_publish_object
    <3> QED
      BY <3>1 DEF Queued, PublishObject
  <2>4. ASSUME NEW s \in Subscriptions, NEW p \in Carried(s) PROVE p.sequence < o.sequence
    <3>1. p \in Objects
      BY CarriedObjects, TypeParts DEF Carried
    <3>2. Taken(p)
      BY <3>1 DEF NumberedInv, Held
    <3> QED
      BY <2>3, <3>2 DEF Taken
  <2> QED
    BY <2>2, <2>4 DEF AboutToSendInv, Carried
<1>2. CASE AddStep
  BY <1>2 DEF AddStep, streamVars, AboutToSendInv, Carried
<1>3. CASE \E n \in Nodes : FanOut(n)
  <2>1. PICK m \in Nodes : FanOut(m)
    BY <1>3
  <2>2. PICK t, o : t = subscribers[m].stream /\ o = handling.object
    OBVIOUS
  <2>3. /\ handling.task = "publish" /\ m \in DOMAIN subscribers
        /\ t \in Subscriptions /\ o \in Objects /\ (SendOk(t, o) \/ SendErr(t, o))
        /\ handling'.task = "publish" /\ handling'.object = o
        /\ handling'.todo = handling.todo \ {m} /\ UNCHANGED subscribers
    BY <2>1, <2>2, FanOutProperties DEF FanOut
  <2>4. \A s \in Subscriptions \ {t} : Carried(s)' = Carried(s)
    BY <2>3, WriteCarried
  <2>5. ASSUME NEW s \in Subscriptions, NEW p \in Carried(s)', NEW n \in handling.todo \ {m},
               subscribers[n].stream = s
        PROVE  p.sequence < o.sequence
    <3>1. n \in DOMAIN subscribers
      BY <2>3, Tasks, TypeParts DEF Matching
    <3>2. NodeOf[s] = n /\ NodeOf[t] = m
      BY <2>2, <2>3, <2>5, <3>1, ActorAssumption DEF OwnersInv, OwnStream
    <3>3. p \in Carried(s)
      BY <2>4, <3>2
    <3> QED
      BY <2>2, <2>3, <2>5, <3>3 DEF AboutToSendInv
  <2> QED
    BY <2>3, <2>5 DEF AboutToSendInv
<1>4. CASE \E s \in Subscriptions : handle_set_data_stream(NodeOf[s], s)
  <2>1. PICK t \in Subscriptions : handle_set_data_stream(NodeOf[t], t)
    BY <1>4
  <2>2. PICK m, g : m = NodeOf[t] /\ g = subscribers[m].group_id
    OBVIOUS
  <2>3. UNCHANGED wire /\ handling = Idle /\ Recv(SetDataStream(m, t))
    BY <2>1, <2>2 DEF handle_set_data_stream, Recv
  <2>4. CASE m \in DOMAIN subscribers
    <3>1. /\ handling'.task = "replay" /\ handling'.stream = t
          /\ handling'.todo = Replay(g)
      BY <2>1, <2>2, <2>4 DEF handle_set_data_stream, Replaying
    <3>2. Carried(t) = {}
      <4>1. cmd_rx[1] = SetDataStream(m, t) /\ 1 \in 1..Len(cmd_rx)
        BY <2>3, RecvProperties, TypeParts
      <4>2. 1 \in Queued("SetDataStream") /\ cmd_rx[1].stream = t
        BY <4>1 DEF Queued, SetDataStream
      <4>3. wire[t] = <<>>
        BY <4>2 DEF OwnersInv, QueuedOnce
      <4> QED
        BY <4>3 DEF Carried
    <3>3. g \in MediaTypes
      BY <2>2, <2>4, TypeParts DEF SubscribersOK
    <3>4. \A i, j \in 1..Len(Replay(g)) : i < j => Replay(g)[i].sequence < Replay(g)[j].sequence
      BY <3>3, ReplayComplete
    <3>5. \A s \in Subscriptions : Carried(s)' = Carried(s)
      BY <2>3 DEF Carried
    <3> QED
      BY <3>1, <3>2, <3>4, <3>5 DEF AboutToSendInv
  <2>5. CASE m \notin DOMAIN subscribers
    <3>1. UNCHANGED handling
      BY <2>1, <2>2, <2>5 DEF handle_set_data_stream
    <3> QED
      BY <2>3, <3>1 DEF Idle, AboutToSendInv
  <2> QED
    BY <2>4, <2>5
<1>5. CASE ReplayNext
  <2>1. PICK t, todo : t = handling.stream /\ todo = handling.todo
    OBVIOUS
  <2>2. /\ handling.task = "replay" /\ t \in Subscriptions /\ todo[1] \in Objects
        /\ Len(todo) \in Nat \ {0}
        /\ SendOk(t, todo[1]) \/ SendErr(t, todo[1])
        /\ handling'.task = "replay" /\ handling'.stream = t
        /\ \/ /\ Len(handling'.todo) = Len(todo) - 1
              /\ \A i \in 1..(Len(todo) - 1) : handling'.todo[i] = todo[i + 1]
           \/ handling'.todo = <<>>
    BY <1>5, <2>1, ReplayNextProperties
  <2>3. Carried(t)' \subseteq Carried(t) \cup {todo[1]}
    BY <2>2, WriteCarried
  <2>4. /\ \A a \in 1..Len(todo) : \A p \in Carried(t) : p.sequence < todo[a].sequence
        /\ \A a, b \in 1..Len(todo) : a < b => todo[a].sequence < todo[b].sequence
    BY <2>1, <2>2 DEF AboutToSendInv
  <2>5. ASSUME NEW a \in 1..Len(handling'.todo)
        PROVE  a + 1 \in 1..Len(todo) /\ 1 < a + 1 /\ handling'.todo[a] = todo[a + 1] /\ a \in Nat
    <3>1. CASE handling'.todo = <<>>
      BY <3>1
    <3>2. CASE /\ Len(handling'.todo) = Len(todo) - 1
               /\ \A i \in 1..(Len(todo) - 1) : handling'.todo[i] = todo[i + 1]
      BY <2>2, <3>2
    <3> QED
      BY <2>2, <3>1, <3>2
  <2>6. \A a \in 1..Len(handling'.todo) : \A p \in Carried(t)' :
           p.sequence < handling'.todo[a].sequence
    BY <2>2, <2>3, <2>4, <2>5
  <2>7. ASSUME NEW a \in 1..Len(handling'.todo), NEW b \in 1..Len(handling'.todo), a < b
        PROVE  handling'.todo[a].sequence < handling'.todo[b].sequence
    <3>1. a + 1 < b + 1
      BY <2>5, <2>7
    <3> QED
      BY <2>4, <2>5, <3>1
  <2> QED
    BY <2>2, <2>6, <2>7 DEF AboutToSendInv
<1>6. CASE EndPublish \/ StoreStream
  BY <1>6 DEF EndPublish, StoreStream, Idle, AboutToSendInv
<1>7. CASE \/ \E n \in Nodes, g \in MediaTypes : handle_subscribe(n, g)
           \/ \E n \in Nodes : handle_unsubscribe(n)
           \/ \E n \in Nodes, seq \in SequenceNumbers : handle_retransmission_request(n, seq)
  <2>1. handling' = Idle
    BY <1>7 DEF handle_subscribe, handle_unsubscribe, handle_retransmission_request, Recv
  <2> QED
    BY <2>1 DEF Idle, AboutToSendInv
<1> QED
  BY <1>1, <1>2, <1>3, <1>4, <1>5, <1>6, <1>7 DEF ActorStep

LEMMA ActorInitOrder == ActorInit => AboutToSendInv /\ RequestsInv /\ OrderInv
BY DEF ActorInit, Idle, Queued, Carried, Whole, InOrder, Increasing, AboutToSendInv,
       RequestsInv, OrderInv

LEMMA ActorNextAboutToSend ==
    /\ TypeInv /\ OwnersInv /\ BufferInv /\ NumberedInv /\ AboutToSendInv
    /\ [ActorNext]_actorVars
    => AboutToSendInv'
<1> SUFFICES ASSUME AboutToSendInv, [ActorNext]_actorVars, ~ActorStep
             PROVE  AboutToSendInv'
  BY ActorStepAboutToSend
<1>1. UNCHANGED <<subscribers, handling, wire>>
  BY PeersStepBuffer
<1> QED
  BY <1>1 DEF AboutToSendInv, Carried

LEMMA ActorNextRequests ==
    TypeInv /\ RequestsInv /\ [ActorNext]_actorVars => RequestsInv'
<1> SUFFICES ASSUME TypeInv, RequestsInv, [ActorNext]_actorVars PROVE RequestsInv'
  OBVIOUS
<1> DEFINE op == "RequestRetransmission"
<1>1. CASE ActorStep
  <2>1. UNCHANGED requests /\ (UNCHANGED cmd_rx \/ \E cmd : Recv(cmd))
    BY <1>1, ActorStepQueue, ActorStepPeers DEF peerVars
  <2>2. Queued(op) = {} => Queued(op)' = {}
    <3>1. CASE UNCHANGED cmd_rx
      BY <3>1 DEF Queued
    <3>2. CASE \E cmd : Recv(cmd)
      BY <3>2, QueuedAfterRecv, TypeParts
    <3> QED
      BY <2>1, <3>1, <3>2
  <2> QED
    BY <2>1, <2>2 DEF RequestsInv
<1>2. ASSUME NEW cmd, Queueing(cmd), cmd.op # op, requests' = requests PROVE RequestsInv'
  <2>1. Queued(op) = {} => Queued(op)' = {}
    BY <1>2, QueuedAfterEnqueue, TypeParts DEF Queueing
  <2> QED
    BY <1>2, <2>1 DEF RequestsInv
<1>3. CASE forward_object
  <2>1. PublishObject(Published[published + 1]).op # op
    BY DEF PublishObject
  <2> QED
    BY <1>2, <1>3, <2>1, ForwardQueueing DEF forward_object
<1>4. CASE \E s \in Subscriptions : handle_subscribe_message(s)
  <2>1. PICK s \in Subscriptions : handle_subscribe_message(s)
    BY <1>4
  <2>2. Subscribe(NodeOf[s], GroupOf[s]).op # op /\ requests' = requests
    BY <2>1 DEF Subscribe, handle_subscribe_message
  <2> QED
    BY <1>2, <2>1, <2>2, SubscribeQueueing
<1>5. CASE \E s \in Subscriptions : handle_data_stream(s)
  <2>1. PICK s \in Subscriptions : handle_data_stream(s)
    BY <1>5
  <2>2. SetDataStream(NodeOf[s], s).op # op /\ requests' = requests
    BY <2>1 DEF SetDataStream, handle_data_stream
  <2> QED
    BY <1>2, <2>1, <2>2, DataStreamQueueing
<1>6. CASE \E n \in UnsubscribeNodes : unsubscribe(n)
  <2>1. PICK n \in UnsubscribeNodes : unsubscribe(n)
    BY <1>6
  <2>2. Unsubscribe(n).op # op /\ requests' = requests
    BY <2>1 DEF Unsubscribe, unsubscribe
  <2> QED
    BY <1>2, <2>1, <2>2, UnsubscribeQueueing
<1>7. CASE \E s \in Requesters, seq \in SequenceNumbers : handle_request_message(s, seq)
  <2>1. requests \in Nat /\ requests' = requests + 1
    BY <1>7, TypeParts, ActorAssumption DEF handle_request_message, PeersOK
  <2> QED
    BY <2>1 DEF RequestsInv
<1>8. CASE (\E s \in Subscriptions : PeerLeaves(s)) \/ UNCHANGED actorVars
  BY <1>8 DEF PeerLeaves, handle_unsubscribe_message, peer_stops, actorVars, peerVars,
              RequestsInv, Queued
<1> QED
  BY <1>1, <1>3, <1>4, <1>5, <1>6, <1>7, <1>8 DEF ActorNext, PeerLeaves

LEMMA ActorNextOrder ==
    /\ TypeInv /\ OwnersInv /\ HandoverInv /\ AboutToSendInv /\ RequestsInv /\ OrderInv
    /\ [ActorNext]_actorVars
    => OrderInv'
<1> SUFFICES ASSUME TypeInv, OrderInv, [ActorNext]_actorVars, ~ActorStep
             PROVE  OrderInv'
  BY ActorStepOrder
<1>1. UNCHANGED <<wire, failed>>
  BY PeersStepBuffer
<1>2. requests' = 0 => requests = 0
  <2>1. requests \in Nat /\ (requests' = requests \/ requests' = requests + 1)
    BY TypeParts, ActorAssumption
       DEF PeersOK, ActorNext, forward_object, handle_subscribe_message, handle_data_stream,
           handle_unsubscribe_message, peer_stops, handle_request_message, unsubscribe,
           actorVars, peerVars
  <2> QED
    BY <2>1
<1>3. \A s : Whole(s)' = Whole(s) /\ InOrder(s)' = InOrder(s) /\ Increasing(s)' = Increasing(s)
  BY <1>1 DEF Whole, InOrder, Increasing
<1> QED
  BY <1>1, <1>2, <1>3 DEF OrderInv

SendingInv ==
    /\ TypeInv /\ OwnersInv /\ BufferInv /\ NumberedInv /\ HandoverInv
    /\ AboutToSendInv /\ RequestsInv /\ OrderInv

LEMMA SendingAlways == ActorSpec => []SendingInv
<1>1. ActorInit => SendingInv
  BY ActorInitType, ActorInitOwners, ActorInitBuffer, ActorInitNumbered, ActorInitHandover,
     ActorInitOrder DEF SendingInv
<1>2. SendingInv /\ [ActorNext]_actorVars => SendingInv'
  BY ActorNextType, ActorNextOwners, ActorNextBuffer, ActorNextNumbered, ActorNextHandover,
     ActorNextAboutToSend, ActorNextRequests, ActorNextOrder DEF SendingInv
<1> QED
  BY <1>1, <1>2, PTL DEF ActorSpec

\* The handover, live sending and retransmission never reorder: an object that
\* a stream carries for the first time is newer than all it carried before
\* (engine.rs:395-576).
THEOREM FirstSendsAlwaysInOrder == ActorSpec => []FirstSendsInOrder
<1>1. SendingInv => FirstSendsInOrder
  BY DEF SendingInv, OrderInv, InOrder, FirstSendsInOrder
<1> QED
  BY <1>1, SendingAlways, PTL

\* A sequence of whole objects with growing numbers repeats nothing.
LEMMA IncreasingSentOnce ==
    ASSUME TypeInv, NEW s \in Subscriptions, Whole(s), Increasing(s)
    PROVE  Cardinality(Sent(s)) = Len(wire[s])
<1> DEFINE n == Len(wire[s])
           at == [i \in 1..n |-> wire[s][i].object]
<1>1. n \in Nat
  BY TypeParts, LenProperties DEF WireOK
<1>2. \A i \in 1..n : wire[s][i].object \in Objects
  BY CarriedObjects, TypeParts
<1>3. \A i \in 1..n : wire[s][i].object.sequence \in Nat
  BY <1>2, ObjectsAssumption
<1>4. Sent(s) = {wire[s][i].object : i \in 1..n}
  BY DEF Sent, Whole
<1>5. \A i, j \in 1..n : i # j => at[i] # at[j]
  <2>1. \A i, j \in 1..n : i < j => wire[s][i].object.sequence < wire[s][j].object.sequence
    BY DEF Increasing
  <2>2. ASSUME NEW i \in 1..n, NEW j \in 1..n, i # j PROVE at[i] # at[j]
    <3>1. i < j \/ j < i
      BY <1>1, <2>2
    <3>2. PICK a, b : a = wire[s][i].object.sequence /\ b = wire[s][j].object.sequence
      OBVIOUS
    <3>3. a \in Nat /\ b \in Nat /\ (a < b \/ b < a)
      BY <1>3, <2>1, <3>1, <3>2
    <3>4. a # b
      BY <3>3
    <3>5. wire[s][i].object # wire[s][j].object
      BY <3>2, <3>4
    <3> QED
      BY <3>5
  <2> QED
    BY <2>2
<1>6. at \in Bijection(1..n, Sent(s))
  BY <1>4, <1>5 DEF Bijection, Injection, Surjection, IsInjective
<1>7. IsFiniteSet(1..n) /\ Cardinality(1..n) = n
  BY <1>1, FS_Interval
<1> HIDE DEF at, n
<1>8. Cardinality(Sent(s)) = n
  <2>1. Cardinality(1..n) = Cardinality(Sent(s))
    BY <1>6, <1>7, FS_Bijection DEF ExistsBijection
  <2> QED
    BY <1>7, <2>1
<1> QED
  BY <1>8 DEF n

\* Without retransmission requests nothing is sent twice, however replay and
\* live sending meet (engine.rs:395-576).
THEOREM AlwaysSentOnce == ActorSpec => []SentOnce
<1>1. SendingInv => SentOnce
  BY IncreasingSentOnce DEF SendingInv, OrderInv, SentOnce
<1> QED
  BY <1>1, SendingAlways, PTL
-----------------------------------------------------------------------------
(* The buffer inside the actor.                                            *)

\* The actor uses its buffer as RetransmissionBuffer says a buffer is used:
\* it begins an `add` when no other is under way, and never clears.
LEMMA ActorUsesBuffer ==
    TypeInv /\ BufferInv /\ [ActorNext]_actorVars => [Next]_bufferVars
<1> SUFFICES ASSUME TypeInv, BufferInv, [ActorNext]_actorVars PROVE [Next]_bufferVars
  OBVIOUS
<1>1. CASE ~ActorStep
  BY <1>1, PeersStepBuffer
<1>2. CASE ActorStep
  BY <1>2, ActorStepBuffered DEF handle_publish_object, AddStep, Next
<1> QED
  BY <1>1, <1>2

LEMMA ActorUsesBufferAlways == ActorSpec => Init /\ [][Next]_bufferVars
<1>1. ActorInit => Init
  BY DEF ActorInit, Init
<1> QED
  BY <1>1, ActorInitType, ActorNextType, ActorInitBuffer, ActorNextBuffer, ActorUsesBuffer, PTL
     DEF ActorSpec

\* Whatever publishers and subscribers do, an actor's buffer keeps to its
\* limits: replays and retransmissions leave it alone (engine.rs:395-640).
THEOREM ActorCapacityRespected == ActorSpec => []CapacityRespected
<1>1. CapacityInv => CapacityRespected
  BY DEF CapacityInv
<1> QED
  BY <1>1, ActorUsesBufferAlways, InitCapacityInv, NextCapacityInv, PTL

\* The actor's buffer is the plain list of arrivals for its subscribers: the
\* actor's specification implements ArrivalStore as the buffer's own does.
THEOREM ActorImplementsArrivalStore == ActorSpec => ImplementsArrivalStore
<1>1. Init => Store!StoreInit
  BY EmptySeq DEF Init, NewBuffer, Store!StoreInit, ArrivalOrder
<1> QED
  BY <1>1, ActorUsesBufferAlways, InitCapacityInv, NextCapacityInv, StoreSteps, PTL
     DEF ImplementsArrivalStore, Store!StoreSpec
=============================================================================
