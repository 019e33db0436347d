------------------------------ MODULE Publishing ------------------------------
(***************************************************************************)
(* A published stream within its node: Publisher and StreamRegistry joined *)
(* at three points.                                                        *)
(*                                                                         *)
(*   - The stream is registered by a call of register_stream like any      *)
(*     other; the publisher goes on when it has returned, and announces    *)
(*     the stream only then, which is what lets others call about it.      *)
(*   - The forwarding task sends to the queue of the actor that the        *)
(*     registration was given, the one the calls send to.                  *)
(*   - All tasks run on the same workers.                                  *)
(*                                                                         *)
(* cmd_rx are the objects in that queue; the order between them and the    *)
(* other commands is left open.                                            *)
(***************************************************************************)
EXTENDS Publisher, StreamRegistry

CONSTANT Registrar      \* the call of register_stream

ASSUME PublishingAssumption ==
    /\ Registrar \in Tasks /\ CallOf[Registrar] = "register_stream"
    /\ AnnouncedStreams = {StreamOf[Registrar]}
    /\ cmd_size = channel_size

nodeVars == <<publisherVars, registryVars>>

NodeInit == PublisherInit /\ RegistryInit

\* Mutant of Announced: the stream is announced before it is registered.
AnnouncedAtOnce(t) == TRUE

\* An id that this node does not announce may turn up at any time.
Announced(t) ==
    StreamOf[t] \in AnnouncedStreams => t = Registrar \/ phase = "streaming"

look_up(t) == Announced(t) /\ get(t) /\ UNCHANGED publisherVars
enter(t) == insert(t) /\ UNCHANGED publisherVars
command(t) == (send(t) \/ send_first(t)) /\ UNCHANGED publisherVars

\* What the publisher's tasks do by themselves.
Prepare == (pc[Registrar] = "done" /\ send_init) \/ announce
Bridge == bridge_recv \/ bridge_send
Alone(step) == step /\ WorkerFree /\ UNCHANGED registryVars

forward == forwarder_send /\ publish(Registrar)

\* The actor takes an object, or another command.
handle(a) ==
    /\ handle_command(a)
    /\ \/ a = actor_of[Registrar] /\ actor_recv
       \/ /\ a = actor_of[Registrar] => queue[a] > Len(cmd_rx)
          /\ UNCHANGED publisherVars

NodeNext ==
    \/ \E t \in Tasks : look_up(t) \/ enter(t) \/ command(t) \/ handle(t)
    \/ Alone(Prepare) \/ Alone(Loop) \/ Alone(send_request)
    \/ Alone(Bridge) \/ Alone(forwarder_recv)
    \/ forward

\* tokio polls what is ready; a queue lets waiting senders in by turns.  The
\* calls and the actors each make finitely many steps, so that it is enough
\* that some call, and some actor, goes on.  A source that is asked yields a
\* frame or an error; nobody is bound to call.
NodeSpec ==
    /\ NodeInit /\ [][NodeNext]_nodeVars
    /\ WF_nodeVars(Alone(Loop)) /\ WF_nodeVars(Alone(send_request))
    /\ WF_nodeVars(Alone(Bridge)) /\ WF_nodeVars(Alone(forwarder_recv))
    /\ SF_nodeVars(forward) /\ SF_nodeVars(\E t \in Tasks : command(t))
    /\ WF_nodeVars(\E t \in Tasks : enter(t)) /\ WF_nodeVars(\E t \in Tasks : handle(t))
=============================================================================
