-------------------------- MODULE MCControlFraming --------------------------
(* Instances of ControlFraming for TLC.                                    *)
EXTENDS ControlFraming

\* Stream ids: the worst case for the reader of answers (every byte is the
\* code of SUBSCRIBE_OK), and two for the test of UNSUBSCRIBE, which takes the
\* first byte for a length.
Eights == [i \in 1..16 |-> TYPE_SUBSCRIBE_OK]
Large == [i \in 1..16 |-> 200]
Small == [i \in 1..16 |-> 3]

Subscribe == Message(TYPE_SUBSCRIBE, Eights, 2, Number(0, 12) \o <<255>>)
Unsubscribe(id) == Message(TYPE_UNSUBSCRIBE, id, 1, <<>>)
Request(id, ns) == Message(TYPE_REQUEST, id, ns, Number(5, 8))
Cancel == Message(TYPE_CANCEL, <<>>, 0, Number(4, 8))
Terminate == Message(TYPE_TERMINATE, <<>>, 0, <<1>>)
Heartbeat == Message(TYPE_HEARTBEAT, <<>>, 0, Number(7, 8))
SubscribeOk == Message(TYPE_SUBSCRIBE_OK, Large, 0, <<>>)

\* What the node's own callers write to one stream (a message each), and what
\* the protocol allows them to: several messages.
Conversations ==
    {<<Subscribe>>, <<Request(Small, 2)>>, <<Unsubscribe(Large)>>,
     <<Unsubscribe(Small)>>, <<Terminate>>,
     <<Cancel, Subscribe>>, <<Subscribe, Heartbeat, Subscribe>>,
     <<SubscribeOk, Terminate>>, <<Request(Large, 0), Cancel>>}

Requests == {<<Request(Small, 2)>>, <<Request(Large, 4), Terminate>>}
=============================================================================
