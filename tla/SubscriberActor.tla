--------------------------- MODULE SubscriberActor ---------------------------
(***************************************************************************)
(* The subscriber actor of src/moq/subscriber.rs: a state machine driven   *)
(* by a bounded queue of commands.  Most commands the actor sends to       *)
(* itself, from within its handlers; SubscribeOk and Terminate come from   *)
(* the task that reads the control stream, objects from the task that      *)
(* reads the data stream.  Objects leave for the application on two        *)
(* bounded channels.                                                       *)
(*                                                                         *)
(* The publisher and the network are the environment: the publisher        *)
(* answers SUBSCRIBE and then writes Stream; it may end a stream early;    *)
(* the connection may be lost for good.  Bytes come in the order they were *)
(* written: what it takes for that, and what happens otherwise, is told by *)
(* DataFraming.                                                            *)
(***************************************************************************)
EXTENDS Proto, Sequences, FiniteSets

CONSTANTS
    Stream,             \* the objects the publisher sends, in order
    channel_size,       \* capacities: commands, init segments, chunks
    init_size,
    chunk_size

ASSUME SubscriberAssumption ==
    /\ Len(Stream) \in Nat
    /\ \A i \in 1..Len(Stream) : Stream[i].group_id \in MediaTypes
    /\ channel_size \in Nat \ {0} /\ init_size \in Nat \ {0} /\ chunk_size \in Nat \ {0}

VARIABLES
    is_audio,           \* made by new_audio, or by new
    state,              \* SubscriberState
    cmd_rx,             \* the command queue
    awaiting,           \* what the running handler is sending, or Nothing
    running,            \* the loop of `run` has not ended
    connection,         \* the actor holds its connection,
    control_send,       \* and the send half of the control stream
    control_reader,     \* the reader tasks: none, reading, done
    data_reader,
    inits, chunks,      \* all that was sent on the channels to the application
    init_taken,         \* how much of that the application has received
    chunk_taken,
    init_open,          \* the application still holds its receivers
    chunk_open,
    reachable, lost,    \* the network
    subscribed,         \* SUBSCRIBE was sent
    answered,           \* SUBSCRIBE_OK was read
    read,               \* objects read from the data stream,
    processed,          \* and handled (a history variable)
    returned            \* what `new` returned to the application

actorVars == <<state, connection, control_send>>
readerVars == <<control_reader, data_reader, subscribed, answered, read>>
outVars == <<inits, chunks, processed>>
appVars == <<init_taken, chunk_taken, init_open, chunk_open>>
netVars == <<is_audio, reachable, lost>>       \* and the kind of subscription
subscriberVars == <<actorVars, cmd_rx, awaiting, running, readerVars, outVars,
                    appVars, netVars, returned>>

Nothing == [to |-> "nobody"]
ToSelf(op) == [to |-> "self", cmd |-> [op |-> op]]
ToApp(channel, o) == [to |-> channel, object |-> o]

Command(op) == [op |-> op]
ProcessObject(o) == [op |-> "ProcessObject", object |-> o]

SubscriberInit ==
    /\ is_audio \in BOOLEAN
    /\ state = "Initial"
    /\ cmd_rx = <<>> /\ awaiting = Nothing /\ running = TRUE
    /\ connection = FALSE /\ control_send = FALSE
    /\ control_reader = "none" /\ data_reader = "none"
    /\ subscribed = FALSE /\ answered = FALSE
    /\ read = 0 /\ processed = 0
    /\ inits = <<>> /\ chunks = <<>> /\ init_taken = 0 /\ chunk_taken = 0
    /\ init_open = TRUE /\ chunk_open = TRUE
    /\ reachable \in BOOLEAN /\ lost = FALSE
    /\ returned = "pending"

\* new: the actor is started with Connect in its queue, and the caller gets
\* its receivers without waiting for more.
new ==
    /\ returned = "pending"
    /\ returned' = "ok"
    /\ cmd_rx' = <<Command("Connect")>>
    /\ UNCHANGED <<actorVars, awaiting, running, readerVars, outVars, appVars, netVars>>

-----------------------------------------------------------------------------
(* The actor.                                                              *)

Recv(cmd) ==
    /\ running /\ awaiting = Nothing
    /\ cmd_rx # <<>>
    /\ cmd = Head(cmd_rx)
    /\ cmd_rx' = Tail(cmd_rx)

\* Mutant of handle_terminate: the connection is kept.
TerminateKeeping ==
    /\ state' = "Terminated"
    /\ control_send' = FALSE
    /\ UNCHANGED connection

handle_terminate ==
    /\ state' = "Terminated"
    /\ connection' = FALSE
    /\ control_send' = FALSE

\* The end of the loop drops the actor, and with it the channels' senders.
process_terminate ==
    /\ Recv(Command("Terminate"))
    /\ handle_terminate
    /\ running' = FALSE
    /\ UNCHANGED <<awaiting, readerVars, outVars, appVars, netVars, returned>>

handle_connect ==
    /\ state = "Initial"
    /\ Recv(Command("Connect"))
    /\ IF reachable
       THEN /\ state' = "Connecting"
            /\ connection' = TRUE
            /\ awaiting' = ToSelf("OpenControlStream")
            /\ UNCHANGED control_send
       ELSE handle_terminate /\ UNCHANGED awaiting
    /\ UNCHANGED <<running, readerVars, outVars, appVars, netVars, returned>>

\* The reader task starts before Subscribe is queued.
handle_open_control_stream ==
    /\ state = "Connecting"
    /\ Recv(Command("OpenControlStream"))
    /\ IF connection /\ ~lost
       THEN /\ state' = "ControlStreamEstablished"
            /\ control_send' = TRUE
            /\ control_reader' = "reading"
            /\ awaiting' = ToSelf("Subscribe")
            /\ UNCHANGED connection
       ELSE handle_terminate /\ UNCHANGED <<awaiting, control_reader>>
    /\ UNCHANGED <<running, data_reader, subscribed, answered, read, outVars,
                   appVars, netVars, returned>>

\* Mutants of handle_subscribe: the state stays; the data stream is opened
\* without waiting for SUBSCRIBE_OK.
SubscribeStaying ==
    /\ state = "ControlStreamEstablished"
    /\ Recv(Command("Subscribe"))
    /\ subscribed' = TRUE
    /\ UNCHANGED <<actorVars, awaiting, running, control_reader, data_reader,
                   answered, read, outVars, appVars, netVars, returned>>

SubscribeReading ==
    /\ state = "ControlStreamEstablished"
    /\ Recv(Command("Subscribe"))
    /\ subscribed' = TRUE
    /\ state' = "Subscribing"
    /\ data_reader' = "reading"
    /\ UNCHANGED <<connection, control_send, awaiting, running, control_reader,
                   answered, read, outVars, appVars, netVars, returned>>

handle_subscribe ==
    /\ state = "ControlStreamEstablished"
    /\ Recv(Command("Subscribe"))
    /\ IF control_send /\ ~lost
       THEN /\ state' = "Subscribing"
            /\ subscribed' = TRUE
            /\ UNCHANGED <<connection, control_send>>
       ELSE handle_terminate /\ UNCHANGED subscribed
    /\ UNCHANGED <<awaiting, running, control_reader, data_reader, answered,
                   read, outVars, appVars, netVars, returned>>

handle_subscribe_ok ==
    /\ state = "Subscribing"
    /\ Recv(Command("SubscribeOk"))
    /\ state' = "Subscribed"
    /\ awaiting' = ToSelf("OpenDataStream")
    /\ UNCHANGED <<connection, control_send, running, readerVars, outVars,
                   appVars, netVars, returned>>

handle_open_data_stream ==
    /\ state = "Subscribed"
    /\ Recv(Command("OpenDataStream"))
    /\ IF connection /\ ~lost
       THEN data_reader' = "reading" /\ UNCHANGED actorVars
       ELSE handle_terminate /\ UNCHANGED data_reader
    /\ UNCHANGED <<awaiting, running, control_reader, subscribed, answered,
                   read, outVars, appVars, netVars, returned>>

Medium == IF is_audio THEN MEDIA_TYPE_AUDIO ELSE MEDIA_TYPE_VIDEO

\* Mutant of ChannelOf: end markers are taken for unknown objects.
ChannelOfMedia(o) ==
    IF o.group_id = MEDIA_TYPE_INIT THEN "init"
    ELSE IF o.group_id = Medium THEN "chunk" ELSE "none"

\* Where an object goes: objects of the other medium go nowhere.
ChannelOf(o) ==
    IF o.group_id = MEDIA_TYPE_INIT THEN "init"
    ELSE IF o.group_id \in {Medium, MEDIA_TYPE_EOF} THEN "chunk" ELSE "none"

handle_process_object(o) ==
    /\ state = "Subscribed"
    /\ Recv(ProcessObject(o))
    /\ IF ChannelOf(o) = "none"
       THEN processed' = processed + 1 /\ UNCHANGED awaiting
       ELSE awaiting' = ToApp(ChannelOf(o), o) /\ UNCHANGED processed
    /\ UNCHANGED <<actorVars, running, readerVars, inits, chunks, appVars,
                   netVars, returned>>

\* The command that each state of the loop accepts, Terminate apart.
Accepts(st, op) ==
    \/ st = "Initial" /\ op = "Connect"
    \/ st = "Connecting" /\ op = "OpenControlStream"
    \/ st = "ControlStreamEstablished" /\ op = "Subscribe"
    \/ st = "Subscribing" /\ op = "SubscribeOk"
    \/ st = "Subscribed" /\ op \in {"OpenDataStream", "ProcessObject"}

\* "Invalid command", or a command "ignored in terminal state".
discard ==
    /\ cmd_rx # <<>>
    /\ Recv(Head(cmd_rx))
    /\ Head(cmd_rx).op # "Terminate" /\ ~Accepts(state, Head(cmd_rx).op)
    /\ UNCHANGED <<actorVars, awaiting, running, readerVars, outVars, appVars,
                   netVars, returned>>

\* The handler's `self.cmd_tx.send(..).await` completes.
self_send ==
    /\ awaiting.to = "self"
    /\ Len(cmd_rx) < channel_size
    /\ cmd_rx' = Append(cmd_rx, awaiting.cmd)
    /\ awaiting' = Nothing
    /\ UNCHANGED <<actorVars, running, readerVars, outVars, appVars, netVars, returned>>

\* The handler's send to the application completes, or fails because the
\* application has dropped the receiver: that ends the subscription, except
\* for an end marker.
init_send ==
    /\ awaiting.to = "init"
    /\ awaiting' = Nothing
    /\ \/ /\ init_open
          /\ Len(inits) - init_taken < init_size
          /\ inits' = Append(inits, awaiting.object)
          /\ processed' = processed + 1
          /\ UNCHANGED <<actorVars, chunks>>
       \/ /\ ~init_open
          /\ handle_terminate
          /\ UNCHANGED outVars
    /\ UNCHANGED <<cmd_rx, running, readerVars, appVars, netVars, returned>>

chunk_send ==
    /\ awaiting.to = "chunk"
    /\ awaiting' = Nothing
    /\ \/ /\ chunk_open
          /\ Len(chunks) - chunk_taken < chunk_size
          /\ chunks' = Append(chunks, awaiting.object)
          /\ processed' = processed + 1
          /\ UNCHANGED <<actorVars, inits>>
       \/ /\ ~chunk_open
          /\ IF awaiting.object.group_id = MEDIA_TYPE_EOF
             THEN processed' = processed + 1 /\ UNCHANGED actorVars
             ELSE handle_terminate /\ UNCHANGED processed
          /\ UNCHANGED <<inits, chunks>>
    /\ UNCHANGED <<cmd_rx, running, readerVars, appVars, netVars, returned>>

-----------------------------------------------------------------------------
(* The reader tasks.  A send to the queue waits while it is full, and      *)
(* fails once the actor is gone.                                           *)

Post(cmd) ==
    IF running
    THEN Len(cmd_rx) < channel_size /\ cmd_rx' = Append(cmd_rx, cmd)
    ELSE UNCHANGED cmd_rx

\* The control reader skips the length prefix, and goes on when its send fails.
read_subscribe_ok ==
    /\ control_reader = "reading" /\ ~lost
    /\ subscribed /\ ~answered
    /\ answered' = TRUE
    /\ Post(Command("SubscribeOk"))
    /\ UNCHANGED <<actorVars, awaiting, running, control_reader, data_reader,
                   subscribed, read, outVars, appVars, netVars, returned>>

\* Mutant of control_error: the loss of the connection is only logged.
ControlErrorLogged ==
    /\ control_reader = "reading" /\ lost
    /\ control_reader' = "done"
    /\ UNCHANGED <<actorVars, cmd_rx, awaiting, running, data_reader, subscribed,
                   answered, read, outVars, appVars, netVars, returned>>

control_error ==
    /\ control_reader = "reading" /\ lost
    /\ control_reader' = "done"
    /\ Post(Command("Terminate"))
    /\ UNCHANGED <<actorVars, awaiting, running, data_reader, subscribed, answered,
                   read, outVars, appVars, netVars, returned>>

\* A graceful end is logged, nothing else.
control_closed ==
    /\ control_reader = "reading" /\ ~lost
    /\ control_reader' = "done"
    /\ UNCHANGED <<actorVars, cmd_rx, awaiting, running, data_reader, subscribed,
                   answered, read, outVars, appVars, netVars, returned>>

\* Mutant of read_object: try_send, which drops the object when the queue is full.
ReadObjectOrDrop ==
    /\ data_reader = "reading" /\ ~lost
    /\ read < Len(Stream)
    /\ read' = read + 1
    /\ cmd_rx' = IF Len(cmd_rx) < channel_size
                 THEN Append(cmd_rx, ProcessObject(Stream[read + 1])) ELSE cmd_rx
    /\ UNCHANGED <<actorVars, awaiting, running, control_reader, data_reader,
                   subscribed, answered, outVars, appVars, netVars, returned>>

read_object ==
    /\ data_reader = "reading" /\ ~lost
    /\ read < Len(Stream)
    /\ read' = read + 1
    /\ Post(ProcessObject(Stream[read + 1]))
    /\ data_reader' = IF running THEN "reading" ELSE "done"
    /\ UNCHANGED <<actorVars, awaiting, running, control_reader, subscribed,
                   answered, outVars, appVars, netVars, returned>>

\* Both ends of the data stream, Ok(None) and Err, are only logged.
data_ended ==
    /\ data_reader = "reading"
    /\ data_reader' = "done"
    /\ UNCHANGED <<actorVars, cmd_rx, awaiting, running, control_reader, subscribed,
                   answered, read, outVars, appVars, netVars, returned>>

-----------------------------------------------------------------------------
(* The application and the network.                                        *)

take_init ==
    /\ init_open /\ init_taken < Len(inits)
    /\ init_taken' = init_taken + 1
    /\ UNCHANGED <<actorVars, cmd_rx, awaiting, running, readerVars, outVars,
                   chunk_taken, init_open, chunk_open, netVars, returned>>

take_chunk ==
    /\ chunk_open /\ chunk_taken < Len(chunks)
    /\ chunk_taken' = chunk_taken + 1
    /\ UNCHANGED <<actorVars, cmd_rx, awaiting, running, readerVars, outVars,
                   init_taken, init_open, chunk_open, netVars, returned>>

\* The application drops a receiver.
leave ==
    /\ returned = "ok"
    /\ \/ init_open /\ init_open' = FALSE /\ UNCHANGED chunk_open
       \/ chunk_open /\ chunk_open' = FALSE /\ UNCHANGED init_open
    /\ UNCHANGED <<actorVars, cmd_rx, awaiting, running, readerVars, outVars,
                   init_taken, chunk_taken, netVars, returned>>

lose ==
    /\ ~lost
    /\ connection \/ "reading" \in {control_reader, data_reader}
    /\ lost' = TRUE
    /\ UNCHANGED <<actorVars, cmd_rx, awaiting, running, readerVars, outVars,
                   appVars, is_audio, reachable, returned>>

-----------------------------------------------------------------------------
ActorStep ==
    \/ process_terminate
    \/ handle_connect \/ handle_open_control_stream
    \/ handle_subscribe \/ handle_subscribe_ok
    \/ handle_open_data_stream
    \/ \E i \in 1..Len(Stream) : handle_process_object(Stream[i])
    \/ discard
    \/ self_send \/ init_send \/ chunk_send

ControlReader == read_subscribe_ok \/ control_error \/ control_closed
DataReader == read_object \/ data_ended

SubscriberNext ==
    \/ new \/ ActorStep \/ ControlReader \/ DataReader
    \/ take_init \/ take_chunk \/ leave
    \/ lose

\* tokio runs the tasks; the publisher answers and writes; the application
\* receives.  Nothing obliges a stream to end or the connection to fail.
SubscriberSpec ==
    /\ SubscriberInit /\ [][SubscriberNext]_subscriberVars
    /\ WF_subscriberVars(new)
    /\ WF_subscriberVars(ActorStep)
    /\ WF_subscriberVars(read_subscribe_ok) /\ WF_subscriberVars(control_error)
    /\ WF_subscriberVars(read_object)
    /\ WF_subscriberVars(take_init) /\ WF_subscriberVars(take_chunk)

-----------------------------------------------------------------------------
(* Properties                                                              *)

States == {"Initial", "Connecting", "ControlStreamEstablished", "Subscribing",
           "Subscribed", "Terminated"}

\* The fields of SubscriberActor, and the resources a state comes with: the
\* branches "No connection available" and "No control stream available" are
\* never taken.
SubscriberTypeOK ==
    /\ state \in States
    /\ Len(cmd_rx) <= channel_size
    /\ awaiting.to \in {"nobody", "self", "init", "chunk"}
    /\ {is_audio, running, connection, control_send, subscribed, answered,
        init_open, chunk_open, reachable, lost} \subseteq BOOLEAN
    /\ {control_reader, data_reader} \subseteq {"none", "reading", "done"}
    /\ processed <= read /\ read \in 0..Len(Stream)
    /\ init_taken \in 0..Len(inits) /\ chunk_taken \in 0..Len(chunks)
    /\ Len(inits) - init_taken <= init_size /\ Len(chunks) - chunk_taken <= chunk_size
    /\ connection <=> state \in States \ {"Initial", "Terminated"}
    /\ control_send <=> state \in {"ControlStreamEstablished", "Subscribing", "Subscribed"}

\* With a publisher that follows the protocol no command meets a state that
\* does not expect it (subscriber.rs:183-223): the self-sent commands, those
\* of the two reader tasks and the state stay in step.
NoCommandRejected ==
    running /\ awaiting = Nothing /\ cmd_rx # <<>> /\ state # "Terminated"
    => Head(cmd_rx).op = "Terminate" \/ Accepts(state, Head(cmd_rx).op)

\* A handler that sends to the actor's own queue finds room: waiting there
\* would wait for itself (subscriber.rs:250, 352, 440).
SelfSendNeverBlocks == awaiting.to = "self" => Len(cmd_rx) < channel_size

Delivery == INSTANCE MediaDelivery WITH position <- processed

\* Whatever fails, the application gets a prefix of the stream: nothing is
\* skipped, repeated or reordered between the data stream, the command queue
\* and the two channels (subscriber.rs:509-549, 568-703).
DeliversPrefix == Delivery!Prefix

\* The actor notices the loss of its connection in whatever state it is,
\* unless the control stream had ended before: its reader then no longer
\* watches (subscriber.rs:312-337).  The queue may be full at that moment.
LossIsNoticed == lost /\ control_reader # "done" ~> state = "Terminated"
=============================================================================
