----------------------------- MODULE StreamActor -----------------------------
(***************************************************************************)
(* The stream actor of src/moq/engine.rs: the task that owns one published *)
(* stream's subscribers and its retransmission buffer.  It takes one       *)
(* command at a time from a bounded queue; publishing an object, or        *)
(* replaying the buffer to a new subscriber, takes one write after another *)
(* and other tasks run between them: the publisher's forwarding task and,  *)
(* for every subscriber, the tasks that handle its control and its data    *)
(* stream.                                                                 *)
(*                                                                         *)
(* A subscription stands for one subscriber session: the SUBSCRIBE it      *)
(* sends, and the data stream it opens once SUBSCRIBE_OK has arrived.      *)
(* wire[s] is what was written to the data stream of s.                    *)
(***************************************************************************)
EXTENDS RetransmissionBuffer

CONSTANTS
    Subscriptions,
    NodeOf,             \* the node a subscription comes from
    GroupOf,            \* the group it asks for; 0 asks for all
    NoStream,           \* Option::None for a SendStream
    Published,          \* the objects, in the order they are published
    channel_size,       \* capacity of the command queue
    UnsubscribeNodes,   \* nodes that the application unsubscribes
    Requesters,         \* subscriptions that ask for retransmissions
    MaxRequests,        \* bounds: retransmission requests,
    MaxTimeouts,        \* writes that run into OBJECT_SEND_TIMEOUT,
    MaxStops            \* data streams that the peer stops

Nodes == {NodeOf[s] : s \in Subscriptions}

ASSUME ActorAssumption ==
    /\ GroupOf \in [Subscriptions -> MediaTypes]
    /\ DOMAIN NodeOf = Subscriptions
    /\ NoStream \notin Subscriptions
    /\ Published \in Seq(Objects)
    /\ channel_size \in Nat \ {0}
    /\ UnsubscribeNodes \subseteq Nodes /\ Requesters \subseteq Subscriptions
    /\ MaxRequests \in Nat /\ MaxTimeouts \in Nat /\ MaxStops \in Nat

\* What Publisher!ArrivesNumbered says of the objects that reach the actor:
\* they are numbered from 0, and only the first can be an init segment.
ASSUME PublishedAssumption ==
    \A i \in 1..Len(Published) :
        /\ Published[i].sequence = i - 1
        /\ Published[i].group_id = MEDIA_TYPE_INIT => i = 1

VARIABLES
    cmd_rx,             \* the command queue
    subscribers,        \* node -> [group_id, stream]
    handling,           \* the command being handled, or Idle
    stream,             \* subscription -> unopened, open, stopped, finished
    wire,               \* subscription -> [object, whole] as written
    failed,             \* history: streams on which a write has failed
    session,            \* subscription -> new, subscribed, streaming, left
    published,          \* how many objects have entered the queue
    unsubscribed,       \* nodes for which engine.unsubscribe was called
    requests, timeouts, stops   \* what was used of the bounds

streamVars == <<stream, wire, failed, timeouts>>
peerVars == <<session, published, unsubscribed, requests, stops>>
actorVars == <<bufferVars, cmd_rx, subscribers, handling, streamVars, peerVars>>

Idle == [task |-> "recv"]
Publishing(o, todo) == [task |-> "publish", object |-> o, todo |-> todo]
Replaying(n, s, todo) == [task |-> "replay", node |-> n, stream |-> s, todo |-> todo]

PublishObject(o) == [op |-> "PublishObject", object |-> o]
Subscribe(n, g) == [op |-> "Subscribe", node_id |-> n, group_id |-> g]
SetDataStream(n, s) == [op |-> "SetDataStream", node_id |-> n, stream |-> s]
Unsubscribe(n) == [op |-> "Unsubscribe", node_id |-> n]
RequestRetransmission(n, seq) ==
    [op |-> "RequestRetransmission", node_id |-> n, sequence |-> seq]

ActorInit ==
    /\ NewBuffer
    /\ cmd_rx = <<>>
    /\ subscribers = EmptyMap
    /\ handling = Idle
    /\ stream = [s \in Subscriptions |-> "unopened"]
    /\ wire = [s \in Subscriptions |-> <<>>]
    /\ failed = {}
    /\ session = [s \in Subscriptions |-> "new"]
    /\ published = 0
    /\ unsubscribed = {}
    /\ requests = 0 /\ timeouts = 0 /\ stops = 0

-----------------------------------------------------------------------------
(* The other tasks.  mpsc::Sender::send waits while the queue is full.     *)

\* Mutant of Enqueue: an unbounded channel, cut at one above the capacity.
EnqueueUnbounded(cmd) ==
    /\ Len(cmd_rx) <= channel_size
    /\ cmd_rx' = Append(cmd_rx, cmd)
    /\ UNCHANGED <<bufferVars, subscribers, handling, wire, failed, timeouts>>

Enqueue(cmd) ==
    /\ Len(cmd_rx) < channel_size
    /\ cmd_rx' = Append(cmd_rx, cmd)
    /\ UNCHANGED <<bufferVars, subscribers, handling, wire, failed, timeouts>>

\* The forwarding task of register_stream.
forward_object ==
    /\ published < Len(Published)
    /\ Enqueue(PublishObject(Published[published + 1]))
    /\ published' = published + 1
    /\ UNCHANGED <<stream, session, unsubscribed, requests, stops>>

\* handle_subscribe_message: SUBSCRIBE_OK follows once Subscribe is queued.
handle_subscribe_message(s) ==
    /\ session[s] = "new"
    /\ Enqueue(Subscribe(NodeOf[s], GroupOf[s]))
    /\ session' = [session EXCEPT ![s] = "subscribed"]
    /\ UNCHANGED <<stream, published, unsubscribed, requests, stops>>

\* Mutant of handle_data_stream: the subscriber does not wait for SUBSCRIBE_OK.
DataStreamAtOnce(s) ==
    /\ session[s] \in {"new", "subscribed"}
    /\ Enqueue(SetDataStream(NodeOf[s], s))
    /\ stream' = [stream EXCEPT ![s] = "open"]
    /\ session' = [session EXCEPT ![s] = "streaming"]
    /\ UNCHANGED <<published, unsubscribed, requests, stops>>

\* handle_data_stream: the subscriber opens it after SUBSCRIBE_OK.
handle_data_stream(s) ==
    /\ session[s] = "subscribed"
    /\ Enqueue(SetDataStream(NodeOf[s], s))
    /\ stream' = [stream EXCEPT ![s] = "open"]
    /\ session' = [session EXCEPT ![s] = "streaming"]
    /\ UNCHANGED <<published, unsubscribed, requests, stops>>

handle_request_message(s, seq) ==
    /\ session[s] \in {"subscribed", "streaming"}
    /\ requests < MaxRequests
    /\ Enqueue(RequestRetransmission(NodeOf[s], seq))
    /\ requests' = requests + 1
    /\ UNCHANGED <<stream, session, published, unsubscribed, stops>>

\* UNSUBSCRIBE from the subscriber: decoded, logged and dropped.
handle_unsubscribe_message(s) ==
    /\ session[s] = "streaming"
    /\ session' = [session EXCEPT ![s] = "left"]
    /\ UNCHANGED <<bufferVars, cmd_rx, subscribers, handling, streamVars,
                   published, unsubscribed, requests, stops>>

\* engine.unsubscribe, which only an application of the engine calls.
unsubscribe(n) ==
    /\ n \notin unsubscribed
    /\ Enqueue(Unsubscribe(n))
    /\ unsubscribed' = unsubscribed \cup {n}
    /\ UNCHANGED <<stream, session, published, requests, stops>>

\* The subscriber drops its receive half, or its connection is lost.
peer_stops(s) ==
    /\ stream[s] = "open"
    /\ stops < MaxStops
    /\ stops' = stops + 1
    /\ stream' = [stream EXCEPT ![s] = "stopped"]
    /\ UNCHANGED <<bufferVars, cmd_rx, subscribers, handling, wire, failed,
                   timeouts, session, published, unsubscribed, requests>>

-----------------------------------------------------------------------------
(* send_object_to_stream: the timeout of 5 seconds abandons write_all with *)
(* nothing or a part of the object written.  Flushing a QUIC stream does   *)
(* nothing and cannot fail.                                                *)

Written(s, o, whole) == wire' = [wire EXCEPT ![s] = Append(@, [object |-> o, whole |-> whole])]

SendOk(s, o) ==
    /\ stream[s] = "open"
    /\ Written(s, o, TRUE)
    /\ UNCHANGED <<stream, failed, timeouts>>

\* Mutant of SendErr: an error of the stream is tried again, without end.
SendErrRetrying(s, o) ==
    /\ stream[s] = "open"
    /\ timeouts < MaxTimeouts
    /\ timeouts' = timeouts + 1
    /\ UNCHANGED wire \/ Written(s, o, FALSE)
    /\ failed' = failed \cup {s}
    /\ UNCHANGED stream

SendErr(s, o) ==
    /\ \/ stream[s] = "stopped" /\ UNCHANGED <<wire, timeouts>>
       \/ /\ stream[s] = "open"
          /\ timeouts < MaxTimeouts
          /\ timeouts' = timeouts + 1
          /\ UNCHANGED wire \/ Written(s, o, FALSE)
    /\ failed' = failed \cup {s}
    /\ UNCHANGED stream

\* Dropping a SendStream finishes it.
Drop(S) == stream' = [s \in Subscriptions |->
                        IF s \in S /\ stream[s] = "open" THEN "finished" ELSE stream[s]]

StreamOf(n) == IF n \in DOMAIN subscribers THEN {subscribers[n].stream} ELSE {}

-----------------------------------------------------------------------------
(* stream_actor_loop.  Each handler starts with the command it takes.      *)

Recv(cmd) ==
    /\ handling = Idle
    /\ cmd_rx # <<>>
    /\ cmd = Head(cmd_rx)
    /\ cmd_rx' = Tail(cmd_rx)

Matching(o) ==
    {n \in DOMAIN subscribers : /\ GroupMatches(subscribers[n].group_id, o.group_id)
                                /\ subscribers[n].stream # NoStream}

handle_publish_object(o) ==
    /\ Recv(PublishObject(o))
    /\ BeginAdd(o)
    /\ handling' = Publishing(o, Matching(o))
    /\ UNCHANGED <<subscribers, streamVars, peerVars>>

\* The rest of buffer.add, see RetransmissionBuffer.
AddStep ==
    /\ Evict \/ Insert
    /\ UNCHANGED <<cmd_rx, subscribers, handling, streamVars, peerVars>>

\* Mutant of FanOut: a failure leaves the loop.
FanOutUntilFailure(n) ==
    /\ handling.task = "publish" /\ adding = NoObject
    /\ n \in handling.todo
    /\ LET s == subscribers[n].stream
       IN  \/ /\ SendOk(s, handling.object)
              /\ handling' = [handling EXCEPT !.todo = @ \ {n}]
           \/ /\ SendErr(s, handling.object)
              /\ handling' = [handling EXCEPT !.todo = {}]
    /\ UNCHANGED <<bufferVars, cmd_rx, subscribers, peerVars>>

\* One turn of the loop over the subscribers, in the order of a HashMap.
\* A failure is logged and the subscriber stays.
FanOut(n) ==
    /\ handling.task = "publish" /\ adding = NoObject
    /\ n \in handling.todo
    /\ LET s == subscribers[n].stream
       IN  SendOk(s, handling.object) \/ SendErr(s, handling.object)
    /\ handling' = [handling EXCEPT !.todo = @ \ {n}]
    /\ UNCHANGED <<bufferVars, cmd_rx, subscribers, peerVars>>

EndPublish ==
    /\ handling.task = "publish" /\ adding = NoObject
    /\ handling.todo = {}
    /\ handling' = Idle
    /\ UNCHANGED <<bufferVars, cmd_rx, subscribers, streamVars, peerVars>>

Subscriber(n, g, s) ==
    subscribers' = [m \in DOMAIN subscribers \cup {n} |->
        IF m = n THEN [group_id |-> g, stream |-> s] ELSE subscribers[m]]

\* Overwrites what the node had, and drops its data stream.
handle_subscribe(n, g) ==
    /\ Recv(Subscribe(n, g))
    /\ Subscriber(n, g, NoStream)
    /\ Drop(StreamOf(n))
    /\ UNCHANGED <<bufferVars, handling, wire, failed, timeouts, peerVars>>

\* Mutants of Replay: without the init segment, and with it at the end.
ReplayBufferOnly(g) ==
    GetRange({seq \in Stored : GroupMatches(g, sequence_index[seq].group_id)})

ReplayInitLast(g) ==
    ReplayBufferOnly(g) \o (IF Get(0) # NoObject /\ g = 0 THEN <<Get(0)>> ELSE <<>>)

\* What a new subscriber of group g is sent: the init segment, then what is
\* for it in the buffer (get_range(0, u64::MAX)), in order of sequence.
Replay(g) ==
    LET init == Get(0)
        first == IF init # NoObject /\ init.group_id = MEDIA_TYPE_INIT
                    /\ GroupMatches(g, init.group_id) THEN <<init>> ELSE <<>>
        wanted == {seq \in Stored : GroupMatches(g, sequence_index[seq].group_id)}
    IN  first \o (IF total_objects = 0 THEN <<>> ELSE GetRange(wanted))

handle_set_data_stream(n, s) ==
    /\ Recv(SetDataStream(n, s))
    /\ IF n \in DOMAIN subscribers
       THEN /\ handling' = Replaying(n, s, Replay(subscribers[n].group_id))
            /\ UNCHANGED stream
       ELSE /\ Drop({s})
            /\ UNCHANGED handling
    /\ UNCHANGED <<bufferVars, subscribers, wire, failed, timeouts, peerVars>>

\* The replay goes on after a failure to send the init segment, and ends at
\* the first failure to send a buffered object.
ReplayNext ==
    /\ handling.task = "replay" /\ handling.todo # <<>>
    /\ LET o == Head(handling.todo)
           rest == Tail(handling.todo)
       IN  \/ /\ SendOk(handling.stream, o)
              /\ handling' = [handling EXCEPT !.todo = rest]
           \/ /\ SendErr(handling.stream, o)
              /\ handling' = [handling EXCEPT !.todo =
                                IF o.group_id = MEDIA_TYPE_INIT THEN rest ELSE <<>>]
    /\ UNCHANGED <<bufferVars, cmd_rx, subscribers, peerVars>>

\* Mutant of StoreStream: the stream is not stored.
ForgetStream ==
    /\ handling.task = "replay" /\ handling.todo = <<>>
    /\ handling' = Idle
    /\ UNCHANGED <<bufferVars, cmd_rx, subscribers, streamVars, peerVars>>

\* The stream is stored, whether the replay succeeded or not.
StoreStream ==
    /\ handling.task = "replay" /\ handling.todo = <<>>
    /\ LET n == handling.node
       IN  /\ Subscriber(n, subscribers[n].group_id, handling.stream)
           /\ Drop(StreamOf(n))
    /\ handling' = Idle
    /\ UNCHANGED <<bufferVars, cmd_rx, wire, failed, timeouts, peerVars>>

handle_unsubscribe(n) ==
    /\ Recv(Unsubscribe(n))
    /\ subscribers' = [m \in DOMAIN subscribers \ {n} |-> subscribers[m]]
    /\ Drop(StreamOf(n))
    /\ UNCHANGED <<bufferVars, handling, wire, failed, timeouts, peerVars>>

\* Does a request of n for sequence seq lead to a write?
Retransmittable(n, seq) ==
    /\ n \in DOMAIN subscribers
    /\ subscribers[n].stream # NoStream
    /\ Get(seq) # NoObject
    /\ GroupMatches(subscribers[n].group_id, Get(seq).group_id)

handle_retransmission_request(n, seq) ==
    /\ Recv(RequestRetransmission(n, seq))
    /\ IF Retransmittable(n, seq)
       THEN LET s == subscribers[n].stream
            IN  SendOk(s, Get(seq)) \/ SendErr(s, Get(seq))
       ELSE UNCHANGED streamVars
    /\ UNCHANGED <<bufferVars, subscribers, handling, peerVars>>

-----------------------------------------------------------------------------
ActorStep ==
    \/ \E o \in Objects : handle_publish_object(o)
    \/ AddStep
    \/ \E n \in Nodes : FanOut(n)
    \/ EndPublish
    \/ \E n \in Nodes, g \in MediaTypes : handle_subscribe(n, g)
    \/ \E s \in Subscriptions : handle_set_data_stream(NodeOf[s], s)
    \/ ReplayNext
    \/ StoreStream
    \/ \E n \in Nodes : handle_unsubscribe(n)
    \/ \E n \in Nodes, seq \in SequenceNumbers : handle_retransmission_request(n, seq)

ActorNext ==
    \/ ActorStep
    \/ forward_object
    \/ \E s \in Subscriptions : \/ handle_subscribe_message(s)
                                \/ handle_data_stream(s)
                                \/ handle_unsubscribe_message(s)
                                \/ peer_stops(s)
    \/ \E s \in Requesters, seq \in SequenceNumbers : handle_request_message(s, seq)
    \/ \E n \in UnsubscribeNodes : unsubscribe(n)

\* The actor and the forwarding task are scheduled by tokio; every write ends
\* within its timeout; a session that got SUBSCRIBE_OK opens its data stream.
\* Nothing obliges a subscriber to subscribe, to request or to leave.
ActorSpec ==
    /\ ActorInit /\ [][ActorNext]_actorVars
    /\ WF_actorVars(ActorStep)
    /\ WF_actorVars(forward_object)
    /\ \A s \in Subscriptions : WF_actorVars(handle_data_stream(s))

-----------------------------------------------------------------------------
(* Properties                                                              *)

InUse(s) == \E n \in DOMAIN subscribers : subscribers[n].stream = s
Buffered == {sequence_index[seq] : seq \in Stored} \cup ({init_segment} \ {NoObject})
Sent(s) == {wire[s][i].object : i \in {j \in 1..Len(wire[s]) : wire[s][j].whole}}

Commands ==
    {PublishObject(o) : o \in Objects}
    \cup {Subscribe(n, g) : n \in Nodes, g \in MediaTypes}
    \cup {SetDataStream(n, s) : n \in Nodes, s \in Subscriptions}
    \cup {Unsubscribe(n) : n \in Nodes}
    \cup {RequestRetransmission(n, seq) : n \in Nodes, seq \in SequenceNumbers}

\* The types of StreamActorState and of the actor's surroundings, and that a
\* handler only ever works on behalf of a registered subscriber.
ActorTypeOK ==
    /\ TypeOK
    /\ cmd_rx \in Seq(Commands) /\ Len(cmd_rx) <= channel_size
    /\ DOMAIN subscribers \subseteq Nodes
    /\ \A n \in DOMAIN subscribers :
         subscribers[n] \in [group_id : MediaTypes, stream : Subscriptions \cup {NoStream}]
    /\ \/ handling = Idle
       \/ /\ handling \in [task : {"publish"}, object : Objects, todo : SUBSET Nodes]
          /\ handling.todo \subseteq Matching(handling.object)
       \/ /\ handling \in [task : {"replay"}, node : Nodes, stream : Subscriptions,
                           todo : Seq(Objects)]
          /\ handling.node \in DOMAIN subscribers
    /\ adding # NoObject => handling.task = "publish" /\ handling.object = adding
    /\ stream \in [Subscriptions -> {"unopened", "open", "stopped", "finished"}]
    /\ wire \in [Subscriptions -> Seq([object : Objects, whole : BOOLEAN])]
    /\ failed \subseteq Subscriptions
    /\ session \in [Subscriptions -> {"new", "subscribed", "streaming", "left"}]
    /\ published \in 0..Len(Published)
    /\ unsubscribed \subseteq UnsubscribeNodes
    /\ requests \in 0..MaxRequests /\ timeouts \in 0..MaxTimeouts /\ stops \in 0..MaxStops

\* The handover from replay to live sending leaves no gap, whatever the
\* interleaving (engine.rs:464-576): between commands, a subscriber whose
\* stream never failed has been sent all that is in the buffer for it, the
\* init segment included.  Failures on the streams of others do not matter.
BufferedWasSent ==
    handling = Idle =>
        \A n \in DOMAIN subscribers :
            LET s == subscribers[n].stream
                g == subscribers[n].group_id
            IN  s # NoStream /\ stream[s] = "open" /\ s \notin failed
                => {o \in Buffered : GroupMatches(g, o.group_id)} \subseteq Sent(s)

\* What a stream carries for the first time comes after everything that was
\* published before it: the handover neither repeats nor reorders, and a
\* retransmission only repeats what the stream already carried (after a
\* failed write it may fill the gap).
FirstSendsInOrder ==
    \A s \in Subscriptions \ failed : \A j \in 1..Len(wire[s]) :
        LET sent == wire[s][j].object
            before == {wire[s][i].object : i \in 1..(j - 1)}
        IN  sent \in before \/ \A o \in before : o.sequence < sent.sequence

\* Without retransmission requests nothing is sent twice.
SentOnce ==
    requests = 0 =>
        \A s \in Subscriptions \ failed : Cardinality(Sent(s)) = Len(wire[s])

\* A data stream finds its subscriber registered (engine.rs:564-571): the
\* command queue carries Subscribe and SetDataStream from different tasks,
\* and SUBSCRIBE_OK orders them.  Only an unsubscribe may come in between.
SetDataStreamFindsSubscriber ==
    \A s \in Subscriptions :
        /\ cmd_rx # <<>> /\ Head(cmd_rx) = SetDataStream(NodeOf[s], s) /\ handling = Idle
        /\ NodeOf[s] \notin unsubscribed
        => NodeOf[s] \in DOMAIN subscribers

\* A subscriber that has come as far as opening its data stream is served,
\* whatever happens on the streams of others.
SubscriberServed ==
    \A s \in Subscriptions :
        session[s] = "streaming" ~> InUse(s) \/ stream[s] # "open"

\* An object that is queued while a subscriber is being served is written to
\* its stream, unless a write to that very stream fails.
ObjectsReachSubscriber ==
    \A s \in Subscriptions, o \in Objects :
        /\ InUse(s) /\ GroupMatches(GroupOf[s], o.group_id)
        /\ \E i \in 1..Len(cmd_rx) : cmd_rx[i] = PublishObject(o)
        ~> o \in Sent(s) \/ s \in failed \/ stream[s] # "open"
=============================================================================
