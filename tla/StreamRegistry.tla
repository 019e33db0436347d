---------------------------- MODULE StreamRegistry ----------------------------
(***************************************************************************)
(* stream_actors of src/moq/engine.rs: the map from streams to the command *)
(* queues of their actors, and the calls that find or create an actor.     *)
(*                                                                         *)
(* The map is a DashMap.  `get` returns a guard that holds a read lock on  *)
(* the shard, and the engine keeps it while it waits for room in the       *)
(* queue; `insert` wants the write lock and blocks its thread until it     *)
(* gets it, and a thread is one of the runtime's few workers.  All         *)
(* streams are in one shard here, which is the worst case.                 *)
(*                                                                         *)
(* A task makes one call of the engine.  An actor is named after the task  *)
(* that created it.                                                        *)
(***************************************************************************)
EXTENDS Naturals, FiniteSets, Sequences

CONSTANTS
    Tasks,
    CallOf,             \* task -> register_stream, subscribe_to_stream, send_command
    StreamOf,           \* task -> the stream its call is about
    AnnouncedStreams,   \* the streams that this node publishes
    Workers,            \* worker threads of the runtime
    channel_size        \* capacity of a command queue

Calls == {"register_stream", "subscribe_to_stream", "send_command"}

ASSUME RegistryAssumption ==
    /\ CallOf \in [Tasks -> Calls]
    /\ DOMAIN StreamOf = Tasks
    /\ Workers \in Nat \ {0} /\ channel_size \in Nat \ {0}

\* A stream id is made for one registration (a fresh Uuid, protocol.rs:384 and
\* 490), and this node announces the stream.
ASSUME RegisterAssumption ==
    \A p \in Tasks : CallOf[p] = "register_stream" =>
        /\ StreamOf[p] \in AnnouncedStreams
        /\ \A q \in Tasks : CallOf[q] = "register_stream" /\ StreamOf[q] = StreamOf[p] => q = p

VARIABLES
    stream_actors,      \* stream -> actor
    pc,                 \* task -> idle, found, insert, inserted, done
    queue,              \* actor -> length of its command queue
    actor_of            \* task -> the actor it has sent to, or itself

registryVars == <<stream_actors, pc, queue, actor_of>>

RegistryInit ==
    /\ stream_actors = [k \in {} |-> {}]
    /\ pc = [t \in Tasks |-> "idle"]
    /\ queue = [t \in Tasks |-> 0]
    /\ actor_of = [t \in Tasks |-> t]

-----------------------------------------------------------------------------
Registered(k) == \E t \in Tasks : /\ CallOf[t] = "register_stream"
                                  /\ StreamOf[t] = k /\ pc[t] = "done"

\* Mutant of WorkerFree: a runtime with a single thread.
OnlyWorkerFree == \A t \in Tasks : pc[t] # "insert"

\* A thread in `insert` is a worker that polls no other task meanwhile.
WorkerFree == Cardinality({t \in Tasks : pc[t] = "insert"}) < Workers

\* The tasks that hold a guard while they wait for room.
Guards == {t \in Tasks : pc[t] = "found"}

\* What this module takes for granted of those who call, and Publishing shows:
\* an id is announced after register_stream has returned.  An id that was never
\* registered here may turn up at any time.
MayCall(t) ==
    \/ CallOf[t] = "register_stream"
    \/ StreamOf[t] \notin AnnouncedStreams
    \/ Registered(StreamOf[t])

\* `stream_actors.get`.  Only register_stream is done with what it finds, and
\* publishes to it from then on; only set_data_stream, request_retransmission
\* and unsubscribe (here send_command) give up when they find nothing.
get(t) ==
    /\ pc[t] = "idle" /\ WorkerFree
    /\ LET found == StreamOf[t] \in DOMAIN stream_actors
           finished == CallOf[t] = IF found THEN "register_stream" ELSE "send_command"
       IN  /\ pc' = [pc EXCEPT ![t] = IF finished THEN "done"
                                      ELSE IF found THEN "found" ELSE "insert"]
           /\ actor_of' = IF found /\ finished
                          THEN [actor_of EXCEPT ![t] = stream_actors[StreamOf[t]]]
                          ELSE actor_of
    /\ UNCHANGED <<stream_actors, queue>>

\* The command is sent to the actor that was found, the guard still held.
send(t) ==
    /\ pc[t] = "found" /\ WorkerFree
    /\ LET a == stream_actors[StreamOf[t]]
       IN  /\ queue[a] < channel_size
           /\ queue' = [queue EXCEPT ![a] = @ + 1]
           /\ actor_of' = [actor_of EXCEPT ![t] = a]
    /\ pc' = [pc EXCEPT ![t] = "done"]
    /\ UNCHANGED stream_actors

\* A new actor is spawned and put into the map, over whatever is there.
insert(t) ==
    /\ pc[t] = "insert"
    /\ Guards = {}
    /\ stream_actors' = [k \in DOMAIN stream_actors \cup {StreamOf[t]} |->
                            IF k = StreamOf[t] THEN t ELSE stream_actors[k]]
    /\ pc' = [pc EXCEPT ![t] = IF CallOf[t] = "register_stream" THEN "done" ELSE "inserted"]
    /\ UNCHANGED <<queue, actor_of>>

\* The subscription goes to the actor that was spawned for it, whatever the map
\* has become meanwhile.
send_first(t) ==
    /\ pc[t] = "inserted" /\ WorkerFree
    /\ queue[t] < channel_size
    /\ queue' = [queue EXCEPT ![t] = @ + 1]
    /\ pc' = [pc EXCEPT ![t] = "done"]
    /\ UNCHANGED <<stream_actors, actor_of>>

\* The forwarding task of registration p sends an object.  It holds the queue
\* of its actor, not the map.
publish(p) ==
    /\ CallOf[p] = "register_stream" /\ pc[p] = "done" /\ WorkerFree
    /\ queue[actor_of[p]] < channel_size
    /\ queue' = [queue EXCEPT ![actor_of[p]] = @ + 1]
    /\ UNCHANGED <<stream_actors, pc, actor_of>>

\* An actor takes a command.
handle_command(a) ==
    /\ queue[a] > 0 /\ WorkerFree
    /\ queue' = [queue EXCEPT ![a] = @ - 1]
    /\ UNCHANGED <<stream_actors, pc, actor_of>>

RegistryNext ==
    \E t \in Tasks :
        \/ MayCall(t) /\ get(t)
        \/ send(t) \/ insert(t) \/ send_first(t)
        \/ publish(t) \/ handle_command(t)

RegistrySpec == RegistryInit /\ [][RegistryNext]_registryVars

-----------------------------------------------------------------------------
(* Properties                                                              *)

\* Whoever subscribes to a published stream gets to the actor that its
\* publisher feeds (engine.rs:155-267): the look into the map and the insert
\* are two steps, but no insert replaces that actor.
SubscribersMeetPublisher ==
    \A t \in Tasks, p \in Tasks :
        /\ pc[t] = "done" /\ CallOf[t] = "subscribe_to_stream"
        /\ pc[p] = "done" /\ CallOf[p] = "register_stream" /\ StreamOf[p] = StreamOf[t]
        => actor_of[t] = actor_of[p] /\ stream_actors[StreamOf[p]] = actor_of[p]

\* A call that has looked into the map returns: the guards that wait for a
\* full queue, the inserts that wait for the guards, and the actor that
\* needs a worker to empty the queue do not wait for each other, as long as
\* fewer inserts are under way than the runtime has workers.
CallsReturn == \A t \in Tasks : pc[t] # "idle" ~> pc[t] = "done"
=============================================================================
