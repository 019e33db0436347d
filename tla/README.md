# A TLA+ model of iroh-moq

iroh-moq publishes live media over QUIC. A publisher node keeps, for each stream,
an *actor* with the stream's subscribers and a *retransmission buffer*; a subscriber
node runs an actor of its own that connects, subscribes, reads objects and hands them
to the application. This directory holds TLA+ modules of these parts, TLC
configurations that check them on small instances, and TLAPS proofs of their safety for
every value of their parameters.

Source positions below are in `src/src/moq/`, those of examples in `src/examples/`.

## The system

| Component | State | Operations | Talks to |
|---|---|---|---|
| retransmission buffer, `retransmission_buffer.rs` | objects by sequence number, order of insertion, sequences by priority, byte count, init segment, statistics | `add` (with eviction), `get`, `get_range`, `clear` | called by the stream actor, never shared |
| stream actor, `engine.rs` `stream_actor_loop` | subscribers (node -> group, data stream), the buffer | five commands from a bounded queue: publish, subscribe, set data stream, unsubscribe, retransmit | writes to the subscribers' data streams, one after another |
| stream registry, `engine.rs` `MoqIrohEngine` | DashMap of command queues, one per stream | `register_stream`, `subscribe_to_stream`, `set_data_stream`, `request_retransmission`, `unsubscribe` | called by protocol tasks of every connection |
| publishing pipeline, `video.rs`, `audio.rs`, `protocol.rs` | four bounded channels, sequence number | `stream_video`/`stream_audio` loop, bridge task, forwarding task | media source at one end, stream actor at the other |
| subscriber actor, `subscriber.rs` | `SubscriberState`, command queue, connection, two reader tasks, channels to the application | connect, open control stream, subscribe, SUBSCRIBE_OK, open data stream, process object, terminate | the publisher's streams, the application |
| data stream framing, `engine.rs` `serialize_object`, `subscriber.rs` `deserialize_object` | bytes in flight, the reader's buffer | write, write that times out, read a chunk, parse | between the two nodes |
| control protocol, `protocol.rs`, `proto.rs` | the reader's buffer, on both sides of a control stream | nine message types | calls the registry, answers the subscriber |
| connection state and accept loop, `engine.rs`, `protocol.rs` `accept` | broadcast channel of states; one loop per connection | accept a stream, read its type, start its handler | the handlers above |
| HTTP proxy, `protocol.rs` `handle_http_stream`, `subscriber.rs` `http_fetch`, `http_publisher.rs`, `http_subscriber.rs` | a request and an answer under way | fetch, answer, refuse, time out | one stream of a connection |
| client, gossip announcements, `client.rs` | monitor task and a channel of 32 announcements | `monitor_streams`, subscribe with a timeout | gossip, the players |
| players, `subscriber.rs` and `audio_subscriber.rs` of the examples | the current stream, the output file and its `BufWriter`, shutdown channel | take an announcement, subscribe, record, end; Ctrl+C | client |

What is hard here, and what makes each part correct:

* **Buffer.** Three indexes and a byte count must agree through loops that trust them.
  They do (proved). What is evicted must follow the configured policy, and what stays should
  be what a new subscriber is to get.
* **Stream actor.** A subscriber joins by two commands from two tasks, its stream is
  filled from the buffer one awaited write at a time, and live objects queue behind.
  No gap, no repetition, no reordering at the handover; a failing subscriber must not
  cost another an object; sessions of one node overwrite each other's entry.
* **Registry.** Look-up and insertion are two steps; a lock guard is held across an
  `await`; `insert` blocks a worker thread.
* **Pipeline.** Back-pressure over four channels must lose, renumber or reorder
  nothing, and the pull loop must never wait on the channel only it empties.
* **Subscriber.** The actor sends commands to itself on its own bounded queue while
  two readers fill the same queue; the connection may be lost at any step.
* **Framing.** Chunks end anywhere; a write may be abandoned half way; chunks are
  read in the order of arrival.
* **Control protocol.** Whether a message is complete is decided once by a length test
  and once more by its deserializer; the two must agree, or bytes are lost or the loop
  over the buffer never ends.
* **Connection.** One loop waits for the first byte of each stream, in order, while
  streams overtake each other; the state may be set by several tasks and missed by a
  slow receiver.
* **HTTP.** Two ends each wait for the other's end of the stream; a half answer must
  not be taken for a whole one; both sides read chunks in the order of arrival.
* **Players.** Three tasks and a stream that may fall silent; two senders on a shutdown
  channel with one place; announcements that gossip drops; a file that the next stream
  truncates and a forced exit does not
  flush.

## Modules

| Module | Models | How state and actions correspond to the code |
|---|---|---|
| `Proto` | media types of `proto.rs` | groups are the numbers of the code; `GroupMatches` is the filter of `handle_publish_object` |
| `RetransmissionBuffer` | `retransmission_buffer.rs`, with the mapping to `ArrivalStore` | the struct's fields are the variables, `stats.total_objects` included (the actor reads it). `BeginAdd` is `add` up to its early returns, each `Evict` one iteration of a loop in `evict_for_space`, `Insert` the rest. `adding` is the object in between |
| `ArrivalStore` | what the buffer promises | one list of arrivals; with priority eviction a victim is any object of the least priority, which is all that the comments of the code say (190, 197) |
| `RetransmissionBufferProofs`, `StreamActorProofs`, `PublisherProofs` (registry included), `SubscriberActorProofs`, `ControlFramingProofs`, `DataFramingProofs`, `HttpProxyProofs`, `PlayerProofs` | theorems | below |
| `StreamActor` (extends the buffer) | `stream_actor_loop` and its five handlers, and the tasks that feed its queue | a handler takes a command with `Recv`; every awaited write is an action of its own (`FanOut`, `ReplayNext`), and `handling` is the rest of the handler. `wire[s]` is what was written to the data stream of session `s`. `SendErr` is a timeout, with the object partly written or not at all, or a stopped stream. Dropping a `SendStream` finishes it (`Drop`) |
| `StreamRegistry` | the map and its callers | `get`, `send` (guard held), `insert` (waits for all guards, occupies a worker), `send_first` (to the actor just spawned). `actor_of[t]` is the handle a call has got: a registration's forwarding task publishes through it (`publish`), not through the map. `MayCall` is what the registry takes for granted of its callers |
| `Publisher` | source to command queue | one action for each receive and each send of the loop, the bridge and the forwarder; a task holds one item while it waits. `is_audio` is chosen at the start |
| `Publishing` (extends both) | a published stream within its node | the publisher goes on when its call of `register_stream` has returned, and the others call about the stream after its announcement (`Announced`, which discharges `MayCall`); the forwarding task sends to the actor of the registration (`forward`); all tasks share the workers (`Alone`) |
| `SubscriberActor` | `SubscriberActor` and its reader tasks | one action per command handler. A handler that ends in `cmd_tx.send(..).await` or a send to the application leaves `awaiting`, and the loop takes no command until that send is done (`self_send`, `init_send`, `chunk_send`). After a termination *inside* a handler the loop goes on, as in the code |
| `MediaDelivery` | what a subscription promises | a position in the stream and the two channels' contents |
| `DataFraming` | a data stream, byte by byte | `written` is the stream, `got` the positions read; an object that `deserialize_object` puts together from bytes that do not belong together is 0 |
| `ControlMessages` | the serialize and deserialize functions of control messages in `proto.rs` | a message is its type, its stream id and its numbers as bytes; a deserializer returns what it consumes, also when it fails |
| `ControlFraming` (extends it) | `handle_control_stream`, `process_control_messages` and its handlers, and the subscriber's task that reads the answers | `buffer` and `ok_buffer` are the two `BytesMut`. `read_chunk` takes any number of the bytes written; then one action per turn of the `while` loop, by the type of the message. `exposed` marks the two places where the length test is known to be wrong |
| `Connections` | `ConnectionState` and its broadcast channel, `MoqIroh::accept` and the handlers it serves | `accept_bi` and `read_type` are the two awaits of the loop; a stream in the queue of the connection may or may not have its first byte |
| `HttpProxy` (extends it) | `http_fetch` and `handle_http_stream`, the library's and the examples' | one action per await of each side; `req_bytes` and `resp_bytes` are the blocks each side has appended, as they came: any block written may come next. A request that came out of order is taken for another of its size or for none (`ReadsLike`, `taken`). Dropping a stream half finishes it (`Drop`) |
| `Player` | `examples/subscriber.rs`, `examples/audio_subscriber.rs`, `client.rs` `monitor_streams` and `subscribe_to_*_stream` | `media` chooses the player. `main` is where the main task waits; `missed` are the announcements gossip dropped (`monitor_lagged`). `disk` and `buffered` are the output file and its `BufWriter`; a stream gives items or ends by choice, `silent` says whether it may stop doing either |
| `MC*` | instances for TLC | constants and refinement mappings |

Buffer and actor are composed by extension: `StreamActor` runs the buffer's own
actions (`BeginAdd`, `Evict`, `Insert`) inside its publish handler. `Publishing` joins
`Publisher` and `StreamRegistry` the same way. The other parts
meet at interfaces that both sides model: `Publisher` ends, and `StreamActor` begins,
at the command queue; `StreamActor` ends at `wire`, which is what `DataFraming` takes
as its input; the `objects` of `DataFraming` are what `read_object` of
`SubscriberActor` takes from `Stream`.

## Runs

Bounds are the constants in the `.cfg` files. All runs but those of the buffer switch the deadlock
check off, because the modelled part stops when its finite stream is used up.

| Run | Instance | What it shows |
|---|---|---|
| `buffer_priority` | seven objects, three priorities, a duplicate sequence number with another priority, one object larger than the buffer; 3 objects / 6 bytes | the indexes agree after every loop iteration (`IndexesAgree`), limits hold (`CapacityRespected`), loops end (`AddTerminates`), the buffer implements `ArrivalStore`. The mode without priority eviction, which the engine does not use, is covered by the theorems |
| `actor_live` | three sessions of two nodes, init segment and three frames, buffer of two objects, queue of two commands, an application-side unsubscribe | `BufferedWasSent`, `FirstSendsInOrder`, `SentOnce`: the handover is gapless and in order, from the init segment on; `SetDataStreamFindsSubscriber`, `SubscriberServed` |
| `actor_faults` | two sessions, one write timeout, one stopped stream, one retransmission request (of the video-only session) | `ObjectsReachSubscriber`, `BufferedWasSent`, `FirstSendsInOrder` with failures on a stream |
| `publishing` | three frames, one error, queues of one and a request channel of two, for video and audio; the registration, a subscription, its data stream and a subscription to another stream; two workers | `OneRequestUnderWay`, `ArrivesNumbered`, `FramesArrive` of the pipeline, `SubscribersMeetPublisher`, `CallsReturn` of the map, in one node |
| `subscriber` | seven objects of all kinds, command queue of two, channels of one, loss, early ends and departures at any time, video and audio | `NoCommandRejected`, `SelfSendNeverBlocks`, refinement of `MediaDelivery` (`DeliversPrefix`), `DeliversAll`, `LossIsNoticed` |
| `framing` | three objects of 1-3 bytes under a length of two bytes, one write cut anywhere, any split into chunks | `HandedOverInOrder`, `NoObjectLeftWaiting`, `AllHandedOver` |
| `control_framing` | nine conversations with all nine kinds of message at their real lengths, any split into chunks in both directions, loss in the middle of an answer; stream ids made of the code of SUBSCRIBE_OK | `HandledAsSent`, `OkCounted`, `EveryMessageHandled` |
| `http` | a fetch with requests that are answered, refused, unreadable or too large, with and without the client's timeout, in two blocks that come in any order, as do those of the answer; or two connections with streams of every kind, one of them without a first byte; loss at any step; a broadcast channel of one | `StreamsServed`, `WatcherUpToDate`, `FetchAllOrNothing`, `FetchReturns`, `HandlersEnd` |
| `player` | four announcements of two senders, one of which gossip may drop, a channel of one, two chunks per stream, two failures to open the file, Ctrl+C at any step, for both players | `AnnouncementsInOrder`, `RecordingKept`, `AnnouncementsTried`, `Exits` |
| `buffer_recent` | a key frame and three delta frames, a buffer of three | violated: of the delta frames the newest goes |
| `framing_unordered` | packets may overtake one another | violated: objects come out of order |
| `control_request` | a REQUEST alone, and one before another message | violated: 25 bytes are taken for a whole message |

Why the bounds are enough. The buffer's logic distinguishes "fits", "one must go" and
"several must go", which three objects and two sizes reach in every order. The actor's
handover involves the init segment, what was evicted, what is in the buffer and what is
still queued: a stream of four objects over a buffer of two and a queue of two has all
four at once. In the queues a capacity of one is the hardest case, as every send has to
wait; the subscriber's queue has two, because with one slot its readers and its own
sends would compete in a way that the code's capacity of 100 does not show: the actor
sends at most one command to itself at a time, and the readers at most one more before
the data stream is open. In `publishing` two workers suffice, because two of its calls can
be in `insert` at a time and
only one of them with a guard to wait for. An answer or a request of two blocks has the two orders
there are to tell apart. Frames have two or three bytes in their parts because only
"inside a part" and "at its border" differ. Control messages have their real lengths, because
the lengths are what the code compares. For the players, one place in the channel, one
announcement in the monitor and one being played put four announcements in four different
places.

**Fairness.** Weak fairness of a task's steps stands for tokio polling every task that
is ready. In `StreamActor` a write ends because it has a timeout; in `SubscriberActor`
the publisher answers and the application goes on receiving (that is a condition of the
liveness properties: an application that holds its receivers and never reads blocks the
actor for good). `Publishing` has strong fairness of the sends that share a queue (`forward`,
`command`), whose senders are let in by turns; the rest of its fairness is weak, for some call
that is in an insert and some actor that has a command, since each makes finitely many steps.
`Publisher` and `StreamRegistry` alone have none. Nothing is assumed of subscribers joining or leaving, of
requests, of streams ending, or of failures. The source of `Publisher` is assumed to
answer each request with a frame or an error. In `ControlFraming` and `HttpProxy` bytes
written arrive while the connection lasts; in `Connections` streams get their first byte. In
`Player` a stream goes on to its end unless `silent`, nothing is assumed of Ctrl+C, and the
Ctrl+C handler's five seconds are long enough for a `select!` to take a message that is
ready.

## Theorems

`RetransmissionBufferProofs` holds, for every set of objects, every limit and both
eviction modes (assumptions `ObjectsAssumption`, `ConfigAssumption`):

* `TypeCorrect`: `Spec => []TypeOK`.
* `IndexesAlwaysAgree`: `Spec => []IndexesAgree`.
* `CapacityAlwaysRespected`: `Spec => []CapacityRespected`.
* `AlwaysImplementsArrivalStore`: `Spec => ImplementsArrivalStore`, the refinement of `ArrivalStore`.
* `EvictionMakesProgress`: `Spec => []VictimExists /\ [][EvictsOne]_bufferVars`.

*Indexes.* `IndexesAgree` is inductive together with the type: `IndexInv == TypeOK /\
IndexesAgree`. The type is needed for `Seq` facts about the lists; agreement is needed
for itself, since an eviction takes its victim from one index and removes it from the
others. It has the conjunct that a priority without objects has no entry, without which
`evict_lowest_priority` would pick an empty list. Lemmas on lists without repetition
(`PopLastNoRepeats`, `PopFrontNoRepeats`, `PushBackNoRepeats`, `RetainProperties`) carry
the steps; there is one lemma for each action.

*Limits.* `CapacityRespected` does not imply itself: that a buffer with one object may
exceed `max_bytes` is only harmless if the bytes are back at zero when that object
goes. So the byte count must be the sum of the sizes stored. A sum is a recursive
definition, about which these provers prove nothing by induction; `BytesAccounted`
says instead that there *is* a list of partial sums along `insertion_order` that starts at
0, grows by each object's size and ends at `total_bytes`. Each step of the buffer is
shown to have such a list again (`RemovalAccounted` builds it when an object in the
middle goes). `CapacityInv == IndexInv /\ BytesAccounted /\ CapacityRespected` is inductive.

*Refinement.* `ArrivalStore` keeps one list of arrivals, which is `insertion_order` without what
was removed, and finds its victims by a scan. What the first entry of `priority_index` lists is of
the least priority there is, because the indexes agree (`VictimAgrees`); without priority eviction the
victim is the first arrival. Which object of the least priority goes is left open there: that the
code takes the newest is the finding of `buffer_recent`. The recursive sum of
the abstract store is the last of the partial sums (`BytesOfSums`, by a least counterexample), so
both find room at the same time (`RoomAgrees`). Then every step is `SetInit`, `Offer`, `Drop`,
`Arrive`, `Forget` or a stutter (`StoreSteps`).

*Loops.* That `add` ends (`AddTerminates`) needs fairness and stays with TLC. What it rests on is
proved: while there is no room there is a victim in the index that the policy looks at
(`VictimExists`, for `max_objects` above 0), and each turn stores one object less (`EvictsOne`).

`StreamActorProofs` is about `ActorSpec`, for every number of subscriptions and nodes, every size
of the queue and the buffer, every failure and every interleaving. Besides the buffer's
assumptions it uses those of `StreamActor`, of which `PublishedAssumption` is the one that says
something about another part: what enters the queue is numbered from 0 on and only its first
object is an init segment. That is what `ArrivesAlwaysNumbered` proves of the publishing
pipeline.

* `ActorTypeCorrect`: `ActorSpec => [](ActorTypeOK /\ IndexesAgree)`; the actor uses the buffer as
  the buffer's own theorems assume.
* `DataStreamFindsSubscriber`: `ActorSpec => []SetDataStreamFindsSubscriber`.
* `BufferedAlwaysSent`: `ActorSpec => []BufferedWasSent`.
* `FirstSendsAlwaysInOrder`: `ActorSpec => []FirstSendsInOrder`.
* `AlwaysSentOnce`: `ActorSpec => []SentOnce`.
* `ActorCapacityRespected`: `ActorSpec => []CapacityRespected`.
* `ActorImplementsArrivalStore`: `ActorSpec => ImplementsArrivalStore`.

The last two are about the composition. Every step of the actor is a step of the buffer or leaves
it alone (`ActorUsesBuffer`): an `add` begins when no other is under way, and replays and
retransmissions change nothing. What was proved of the buffer on its own then holds of the buffer
inside the actor.

The invariants come in layers, each proved with those before it. `TypeInv` is the buffer's
`IndexInv` with the types. `OwnersInv`: a data stream that waits in the queue is used nowhere
else and carries nothing, and a stream in use belongs to the node it is filed under.
`RegisteredInv`: before every SetDataStream in the queue stands a Subscribe of its node, unless
the node is registered or was unsubscribed. `HandoverInv` is the heart: what is buffered for a
group has been sent to each healthy stream of that group, but for the object that is being
published, and then the stream's turn in the loop is still to come; and while a stream is being
prepared, what it lacks is still in the list to replay. `ReplayComplete` shows that the list
`handle_set_data_stream` gets from `get_range` has all that is due, whatever `total_objects` says
(`BufferInv`). For the order, `NumberedInv`: whatever the actor holds or has written was taken from
the queue, and so is older than what is queued; `AboutToSendInv`: what a handler is about to write
to a stream is newer than all the stream carries; `OrderInv`: a stream on which nothing
failed carries whole objects, and only a retransmission repeats one. TLC checked each layer on
the instances of `actor_live` and `actor_faults` before it was proved.

`PublisherProofs` holds, for every capacity, every number of frames and every pattern of
errors, `OneRequestAlways`: `PublisherSpec => []OneRequestUnderWay`. The property speaks of the
video stream while it runs; `RequestInv` adds that before `announce` there is no request
anywhere, and that the two counters are numbers. With one request under way and the loop
about to send, the request channel is empty, so the send finds room.

`ArrivesAlwaysNumbered`: `PublisherSpec => []ArrivesNumbered`, also for an audio stream and its
end marker (assumption `NobodyAssumption`: the model value of an empty place is not an object).
The property speaks of what has arrived; the invariant `NumberInv` of the whole pipeline. Each
place in a stream has one object that can stand there (`ItemAt`), and every channel and task
holds the items from a place on, which is the number of items further down (`AtForwarder`,
`AtObject`, ...; `Run`). The two counters of the code, of the loop and of the bridge, are then
tied to these places (`CountInv`): `sequence` of the audio loop to that of the loop, `sequence` of a
video stream to that of the bridge. A step moves one item over one border, and
`RunTail` and `RunAppend` say what that does to a channel.

The same module has the theorem about `StreamRegistry`, where streams are published. It holds for
every set of tasks and streams, every number of workers and every queue (assumption
`RegisterAssumption`: a stream id is made for one registration, on the node that announces it):
`PublisherAlwaysMet`, `RegistrySpec => []SubscribersMeetPublisher`.
`MeetInv` says when the race between `get` and `insert` is harmless: whoever else has begun a
call about a published stream began it when the publisher's actor was in the map, so that nobody
is about to insert another. That the calls come after the announcement (`MayCall`) is no assumption
of the node: `PublishingImplementsParts`, `NodeSpec => PublisherSpec /\ RegistrySpec`, where
`RegisteredInv` says that the publisher streams only after its registration has returned; hence
`NodePublisherMet`, `NodeSpec => []SubscribersMeetPublisher`.

`SubscriberActorProofs` holds for every stream of objects and every capacity:

* `NeverRejected`: `SubscriberSpec => []NoCommandRejected`.
* `NeverBlocksItself`: `SubscriberSpec => []SelfSendNeverBlocks`, if `channel_size >= 2` (the code
  has 100; with one slot the Terminate of the control reader can fill the queue before the
  actor's own send).
* `AlwaysDeliversPrefix`: `SubscriberSpec => DeliversPrefix`, the refinement of `MediaDelivery`.
* `SubscriberTypeCorrect`: `SubscriberSpec => []SubscriberTypeOK`.

`CommandInv` has three parts. `QueueInv`: what is queued is what the state waits for, or the one
Terminate that the control reader sends as its last act. `OneCommand`: until the data stream is
open there is one command under way, in the queue or with a handler. `StageInv`: how far the
readers and the running handler can be in each state. For the refinement `OrderInv` adds
that the object with the handler, those in the queue up to a Terminate, and the next one
of the reader are consecutive objects of the stream; then each step of the actor maps to
`Deliver`, `DropReceiver` or a stutter. The type invariant says more than types: that each state
has its connection and control stream (`Resources`), that no channel exceeds its capacity
(`Channels`), that nothing is handled before it was read, for which `ReadAhead` counts the objects
in the queue (an object behind a Terminate is discarded and counts no more).

`DataFramingProofs` is about `FramingSpec`, for every list of objects of every size and every split
into chunks:

* `HandedOverAlwaysInOrder`: `~Reordering => (FramingSpec => []HandedOverInOrder)`. The hypothesis
  is needed: with `Reordering` the run `framing_unordered` has the counterexample.
* `NoObjectEverLeftWaiting`: `FramingSpec => []NoObjectLeftWaiting`.

`FramingInv` says that there are a number of objects `n`, their offsets on the stream `start`, and
a number of bytes read `r`, such that the first `n` objects lie whole from their offsets on
(`Layout`; after a write was cut `n` is what came before it), that the reader has the first `r`
bytes, and that its buffer is the stream from the offset of the next object up to `r` (`ReadTo`).
A write only adds to the stream (`WriteAfterCut`, `WriteWhole`). When a length stands at the front
of the buffer it is that of the object that begins there (`LengthRead`), so what the reader cuts off
is that object. `Piece`, `PieceOfPiece` and `Grown` are the facts on pieces of a sequence.

`HttpProxyProofs` is about `NodeSpec`, with every connection, stream, request, limit and capacity:

* `WatcherAlwaysUpToDate`: `NodeSpec => []WatcherUpToDate`. `WatchInv`: the last state broadcast
  is the state, and what the watcher has seen is what stands at its place. That a state equal to
  the last is not broadcast, and that a receiver which fell behind skips to the oldest state
  still there, do not disturb it.
* `FetchAlwaysAllOrNothing`: `NodeSpec => []FetchAllOrNothing`, whatever the order in which blocks
  come. `ReadOf`: what has been read of a stream are some of the blocks written, each once, so that
  with none unread it is all of them (`ReadAll`), and that an unread block beyond the limit means a
  stream beyond the limit (`ReadOne`). `HandlerInv`: a handler ends its half with nothing or with the
  whole answer on it, and takes a request for another one only if it came out of order.
  `ClientInv`: an Ok means that the end of the answer was read with all that is before it.

`PlayerProofs` is about `PlayerSpec`, for every list of announcements, every channel, every number
of chunks and failures:

* `AnnouncementsAlwaysInOrder`: `PlayerSpec => []AnnouncementsInOrder`. `AnnouncedInv`: there is a
  place `n` such that main has taken what it is to follow up to `n`, and the announcements of its
  sender after `n`, but for those that gossip dropped, are in the channel and in the monitor. It
  holds until main exits.
* `RecordingAlwaysKept`: `PlayerSpec => []RecordingKept`. `RecordingInv` ties the file to the
  main task (`OpenWhilePlaying`): it is only open while main plays, or after a forced exit that the
  property excuses, because a message that main has taken has made it stop the saver.

Both speak of `Picks`: a list holds those items of another that stand at given places, in order.
`PicksAppend` and `PicksTail` are its laws.

`ControlFramingProofs` is about `ControlSpec`, for every stream of messages (`StreamsAssumption`) with
any ids, any numbers and namespaces of up to 65535 bytes, and every way to cut it into chunks. A
longer namespace, whose length `as u16` would truncate, is left out.

* `AlwaysHandledAsSent`: `ControlSpec => []HandledAsSent`.
* `AlwaysOkCounted`: `ControlSpec => []OkCounted`.

`ControlInv` says that the reader has handled the first `h` messages and has in its buffer the bytes
of the stream from there to what has arrived (`OnTrack`, `Cut`), that one who waits is `CaughtUp`,
and that no reader has failed. Where a message lies on the stream is a recursive definition
(`Ends`, `Joined`): `RecursionExists` shows that a function with such a recursion exists, and
`Layout` by induction on a set of numbers that each message stands on the stream where the one
before it ends. Then there is one lemma for each type on the bytes of its message (`SubscribeBytes`,
`RequestBytes`, `ShortBytes`) and one on what is read from a buffer that begins with it
(`SubscribeRead`, `RequestRead`, `ShortRead`): the completeness test holds exactly if the message
is all there, and its deserializer then returns that message and takes its bytes. For a REQUEST
this is so only outside the two bytes and the namespace that its test forgets; that is what `exposed`
excludes, and nothing else is needed. `FrontOfBuffer` puts the two together, and `Handled` makes
the step of each handler one from `h` to `h + 1` (`WholeTaken`, `HandlerKeeps`). That the loop
neither skips a byte nor fails a message (`SkipKeeps`, the `reader # "failed"` of the invariant)
comes out of the same proof.

For the answers the layout is that of the replies to the messages (`AnswersLaid`; `SpreadOut` is the
lemma behind it and `Layout`). `AnswerInv` adds to `ControlInv`: what is written back is what is due for
the messages handled, or a first part of it if the connection was lost (`WrittenBack`); and the
subscriber's reader has dealt with a number of bytes `p` which is not inside a SUBSCRIBE_OK
(`Outside`), and has sent a command for each answer that ends before `p` (`ReadBack`). The reader looks
for one byte, the code of SUBSCRIBE_OK. A stream id made of such bytes does no harm, because
the reader takes the 17 bytes of an answer at once and is never inside one; and in front of an answer
there are only lengths and heartbeats (`PastPlain`, `AtCode`). A heartbeat's time
may contain the byte: hence `Legible` in the property. Without it the count is wrong, which
is a behaviour of the code (below).

Only model-checked is liveness: `AddTerminates` and the other leads-to properties, which are beyond
the prover. Every invariant of a passing run is a theorem above, as are the two refinements.

## What the model says about the code

Three runs show the code doing other than a comment says (PROJECT.json, "findings"):

* `buffer_recent`: `evict_lowest_priority` pops the *newest* sequence of the lowest priority (204). A
  full buffer keeps its first delta frames and drops each new one when the next comes, although
  `engine.rs` 18 calls it a sliding window and 541 expects "recent objects".
* `framing_unordered`: the data stream is read in the order in which chunks arrive.
* `control_request`: a REQUEST of 25 bytes (below).

The modules contain these further behaviours,
which no run asserts:

* `handle_set_data_stream` stores the stream after the replay loop whether or not a send
  failed (563), while 562 says "Store the stream only after successfully sending initial data".
* `subscribe_to_stream` looks up and inserts in two steps (244, 258), so two subscriptions to
  a stream without an actor can create two; 237 says "Find or create stream actor". The
  first subscriber is then never served.
* Without priority eviction `remove_object` leaves `priority_index` alone (229), although
  the comment above it says "Remove an object from all indices". The engine always
  turns priority eviction on.
* An object larger than `max_bytes` is stored in an empty buffer (180).
* After a write timed out the stream is used for the next object (`engine.rs` 474, 667),
  and its reader takes the two for one (`DataFraming`, objects 0).
* UNSUBSCRIBE is decoded and logged by the publisher (`protocol.rs` 867); the
  `engine.unsubscribe` that `send_unsubscribe` calls (263) is that of the subscriber's
  own node. The publisher's entry for the subscriber stays.
* A subscription to a stream that nobody publishes is accepted and creates an actor
  (`engine.rs` 254), so "Stream not found" (`protocol.rs` 762) is not reached.
* Guards held across `send(..).await` and `insert` on the same shard: with as many
  inserts waiting as the runtime has workers, and a full queue, nothing moves any more
  (the mutant of `CallsReturn`, where one insert is one too many, shows it).
* `SubscriberActor::new` returns before the connection is tried, so subscribing to an
  unreachable publisher succeeds; `tests/error_conditions.rs` 160 expects an error.
* `handle_terminate` does not stop the reader tasks, nor the loop, and does not close the
  application's channels (`subscriber.rs` 705-717).
* A video source that fails for good is asked again for ever (`video.rs` 162).
* A REQUEST of 25 or 26 bytes makes `process_control_messages` spin without waiting; of
  27 or more, but not whole, it consumes 19 bytes and the reader has lost its place. The
  test of UNSUBSCRIBE takes the first byte of the stream id for a length (`protocol.rs` 646).
* The subscriber takes any byte 8 outside of a SUBSCRIBE_OK for the code of one (`subscriber.rs`
  306): a heartbeat that the publisher echoes with such a byte in its time would count
  as an answer. Only the protocol allows it, no subscriber in the repository sends heartbeats.
* The accept loop reads the first byte of a stream before it accepts the next (1103): a
  stream without a byte holds up all later ones, and one that ends without a byte ends
  the loop, while handlers already started keep the connection open.
* `connection_state()` always answers `WaitingForPeer` (988-995).
* A handler that refuses an HTTP request, or finds it too large, drops its stream, which finishes
  it: `http_fetch` returns an empty answer as `Ok`, though 951 of `subscriber.rs` says `Err` "if the
  connection, stream handling, or request fails". `FetchAllOrNothing` therefore says nothing of
  requests without an answer (`Unanswered`).
* Both sides of a fetch append chunks in the order of their arrival (`protocol.rs` 1016,
  `subscriber.rs` 985). An answer whose packets were reordered is returned as `Ok` with its bytes
  mixed up, and a valid request may be refused or be answered as another (`ReadsLike`). It is the
  defect that `framing_unordered` shows on the data stream.
* `monitor_streams` takes no notice of gossip's `Event::Lagged` (`client.rs` 99): what gossip
  dropped is never announced to the application, which is not told.
* The handler of `http_publisher.rs` drops CONTROL and DATA streams.
* `max_objects = 0` would make the first loop of `evict_for_space` run for ever on an empty
  buffer (172), and `keyframe_interval = 0` panics (`video.rs` 171); the runs assume neither.
* `request_object` drops its connection right after writing (222); `StreamActor` models the
  request that does arrive.
* With auto-play the output path is a named pipe, and opening it blocks the thread until
  ffplay has opened it (`examples/subscriber.rs` 161).
* `get_stream_announcement` looks at its 5 s only between events of the topic (342).
* `MoqIroh::subscribe_to_stream` returns a receiver whose sender is gone (170).
* A player plays one stream to its end before it looks at the next announcement. A
  subscription whose connection failed leaves its channels open, so the video player
  waits in `init_rx.recv()` (629) until Ctrl+C, and the audio player (138) for ever.
* A Ctrl+C during a stream ends the stream only (721). The program waits for further
  announcements and is killed five seconds later; if another stream has begun by then, the
  output file has been emptied and what is in the `BufWriter` is lost.
* If the file could not be opened twice, the player sends itself a shutdown (658, 692) on
  the channel that the Ctrl+C handler uses. When `select!` takes another announcement first,
  the handler waits for the place and does not start its timer; a silent stream then
  keeps the program from ending.
* A stream without an init segment is recorded with that of the stream before it (680:
  "continuing with default settings").

## Not modelled

* SUBSCRIBE's start sequence and priority, which the engine ignores; `subscribe_ok`
  notification channels, which nothing registers; statistics other than the count that
  the actor reads; logging.
* proto.rs's own `serialize_object`/`deserialize_object` and the conversions of chunks, which
  only tests and benches use.
* `get_stream_announcement`, which depends on the clock alone, and the calls of the client that
  only pass on.
* FFplay, screen capture and encoders of the examples, benches, web page: calls into other
  programs and libraries.
* Payloads, names, namespaces and their normalisation: no property depends on them. The
  namespace of a control message is its length.
* Bytes of a control stream that arrive out of order: its readers ask for unordered chunks as
  that of the data stream does (`framing_unordered`), but a control stream carries one short
  message each way in the code.
* What the bytes of a reordered HTTP answer look like: the order of its blocks stands for them.

## Plan

Done: the buffer with its abstract specification and proofs; the stream actor above it; the
registry; the subscriber actor with its abstract specification; the publishing pipeline, with
the registry in one node; the data stream framing; the control stream; connections and the
HTTP proxy; the players; proofs for
the buffer with its refinement, the stream actor, the pipeline, the registry, the subscriber actor
with its refinement, data and control streams, connections and the proxy, and the players.

Next: publisher, actor, framing and subscriber actor on one stream, against one abstract
specification of a live stream (an init segment, then a contiguous suffix of the stream, in
order), with a reconnecting subscriber; and liveness proofs, once the prover has rules for fairness.
