---------------------------- MODULE Connections ----------------------------
(***************************************************************************)
(* The connections other nodes make to this one, and what the node tells   *)
(* about them.  `accept` runs once for each connection, takes its streams  *)
(* in the order they were opened, reads the first byte of each and starts  *)
(* the handler it names: MoqIroh's accept (src/moq/protocol.rs), or that   *)
(* of HttpHandler (examples/http_publisher.rs), which serves HTTP only.    *)
(* The connection state is one for the whole engine, and is broadcast      *)
(* (src/moq/engine.rs).                                                    *)
(***************************************************************************)
EXTENDS Integers, Sequences

CONSTANTS
    Conns,          \* connections
    Plans,          \* the kinds of streams their peers may open: functions
                    \* from Conns to sequences of Kinds; <<>>: no connection
    RegisteredStreams,  \* streams this node registers (register_stream)
    Capacity        \* of the broadcast channel

\* A peer may end a stream before it has written its first byte.
Kinds == {"control", "data", "http", "unknown", "empty"}

ASSUME ConnectionsAssumption ==
    /\ \A p \in Plans : \A c \in Conns : \A i \in 1..Len(p[c]) : p[c][i] \in Kinds
    /\ Capacity \in Nat \ {0}

VARIABLES
    http_only,          \* this node runs HttpHandler
    plan,
    first_byte,         \* of each connection, the streams whose first byte (or
                        \* whose end, for an empty one) has come
    acceptor,           \* connecting, accepting, reading (a type), done
    accepted,           \* how many streams the acceptor has taken
    handlers,           \* the streams of each connection a handler was started for
    lost,               \* connections that are lost or closed
    connection_state,
    state_tx,           \* all states broadcast (a history variable)
    registered,
    watcher,            \* how much of state_tx a receiver of it has received,
    seen                \* and the last state it got

acceptVars == <<http_only, plan, first_byte, acceptor, accepted, handlers, lost>>
stateVars == <<connection_state, state_tx, registered, watcher, seen>>
connectionVars == <<acceptVars, stateVars>>

\* Nobody has asked for a receiver yet.
NotWatching == -1

ConnectionsInit ==
    /\ http_only \in BOOLEAN
    /\ plan \in Plans
    /\ first_byte = [c \in Conns |-> {}]
    /\ acceptor = [c \in Conns |-> "connecting"]
    /\ accepted = [c \in Conns |-> 0]
    /\ handlers = [c \in Conns |-> {}]
    /\ lost = [c \in Conns |-> FALSE]
    /\ connection_state = "WaitingForPeer" /\ state_tx = <<>>
    /\ registered = {}
    /\ watcher = NotWatching /\ seen = "nothing"

-----------------------------------------------------------------------------
(* The connection state.  Connected(c) and Ready(s) are told apart by c    *)
(* and s alone.                                                            *)

\* Mutant of update_connection_state: a full channel refuses the new state
\* instead of dropping the oldest.
UpdateUnlessFull(new) ==
    /\ connection_state' = new
    /\ state_tx' = IF /\ connection_state # new
                      /\ watcher # NotWatching => Len(state_tx) < watcher + Capacity
                   THEN Append(state_tx, new) ELSE state_tx

\* The comparison, the assignment and the broadcast are under one lock.
update_connection_state(new) ==
    /\ connection_state' = new
    /\ state_tx' = IF connection_state # new THEN Append(state_tx, new) ELSE state_tx

\* register_stream, as far as the connection state goes (StreamRegistry has
\* the rest of it).
register_stream(s) ==
    /\ s \notin registered
    /\ registered' = registered \cup {s}
    /\ update_connection_state(s)
    /\ UNCHANGED <<acceptVars, watcher, seen>>

subscribe_to_state_changes ==
    /\ watcher = NotWatching
    /\ watcher' = Len(state_tx)
    /\ UNCHANGED <<acceptVars, connection_state, state_tx, registered, seen>>

\* A receiver that is further behind than the channel holds goes on at the
\* oldest state that is left.
recv_state ==
    /\ watcher # NotWatching /\ watcher < Len(state_tx)
    /\ LET next == IF Len(state_tx) - watcher > Capacity
                   THEN Len(state_tx) - Capacity + 1 ELSE watcher + 1
       IN  watcher' = next /\ seen' = state_tx[next]
    /\ UNCHANGED <<acceptVars, connection_state, state_tx, registered>>

-----------------------------------------------------------------------------
(* Connections and their streams.                                          *)

\* The first byte of a stream arrives; streams overtake each other.
stream_arrives(c, i) ==
    /\ i \in 1..Len(plan[c]) /\ i \notin first_byte[c]
    /\ ~lost[c]
    /\ first_byte' = [first_byte EXCEPT ![c] = @ \cup {i}]
    /\ UNCHANGED <<http_only, plan, acceptor, accepted, handlers, lost, stateVars>>

lose(c) ==
    /\ ~lost[c]
    /\ lost' = [lost EXCEPT ![c] = TRUE]
    /\ UNCHANGED <<http_only, plan, first_byte, acceptor, accepted, handlers, stateVars>>

\* "Signal peer connection": PeerConnected, which HttpHandler does not signal.
accept(c) ==
    /\ acceptor[c] = "connecting" /\ plan[c] # <<>>
    /\ acceptor' = [acceptor EXCEPT ![c] = "accepting"]
    /\ IF http_only THEN UNCHANGED <<connection_state, state_tx>>
       ELSE update_connection_state(c)
    /\ UNCHANGED <<http_only, plan, first_byte, accepted, handlers, lost,
                   registered, watcher, seen>>

\* Streams are accepted in the order they were opened: once a byte of any of
\* them has come, those opened before it can be accepted too.
accept_bi(c) ==
    /\ acceptor[c] = "accepting"
    /\ \/ /\ \E i \in first_byte[c] : accepted[c] < i
          /\ accepted' = [accepted EXCEPT ![c] = @ + 1]
          /\ acceptor' = [acceptor EXCEPT ![c] = "reading"]
       \/ /\ lost[c]
          /\ acceptor' = [acceptor EXCEPT ![c] = "done"]
          /\ UNCHANGED accepted
    /\ UNCHANGED <<http_only, plan, first_byte, handlers, lost, stateVars>>

Served == IF http_only THEN {"http"} ELSE {"control", "data", "http"}

\* Mutant of read_type: a stream of an unknown type ends the loop.
ReadTypeStopping(c) ==
    /\ acceptor[c] = "reading"
    /\ LET i == accepted[c]
           known == i \in first_byte[c] /\ plan[c][i] \in Served
       IN  /\ i \in first_byte[c] \/ lost[c]
           /\ handlers' = [handlers EXCEPT ![c] = IF known THEN @ \cup {i} ELSE @]
           /\ acceptor' = [acceptor EXCEPT ![c] = IF known THEN "accepting" ELSE "done"]
    /\ UNCHANGED <<http_only, plan, first_byte, accepted, lost, stateVars>>

\* The acceptor waits here for the type of one stream before it takes the
\* next.  A handler runs in a task of its own; a stream of a type the node
\* does not serve is dropped; if there is no type to read the loop ends.
read_type(c) ==
    /\ acceptor[c] = "reading"
    /\ LET i == accepted[c]
       IN  \/ /\ i \in first_byte[c] /\ plan[c][i] # "empty"
              /\ handlers' = [handlers EXCEPT ![c] =
                                 IF plan[c][i] \in Served THEN @ \cup {i} ELSE @]
              /\ acceptor' = [acceptor EXCEPT ![c] = "accepting"]
           \/ /\ lost[c] \/ (i \in first_byte[c] /\ plan[c][i] = "empty")
              /\ acceptor' = [acceptor EXCEPT ![c] = "done"]
              /\ UNCHANGED handlers
    /\ UNCHANGED <<http_only, plan, first_byte, accepted, lost, stateVars>>

StateNext ==
    \/ \E s \in RegisteredStreams : register_stream(s)
    \/ subscribe_to_state_changes \/ recv_state

AcceptNext(c) == accept(c) \/ accept_bi(c) \/ read_type(c)

-----------------------------------------------------------------------------
(* Properties                                                              *)

\* An application that has received all there was to receive knows the state
\* the engine is in, though it may have been too slow for the channel and lost
\* states, and though tasks of several connections and callers of
\* register_stream change the state at once (engine.rs:343-352).
WatcherUpToDate ==
    seen # "nothing" /\ watcher = Len(state_tx) => seen = connection_state

\* A stream whose peer says what it is gets its handler, whatever the order in
\* which streams arrive, whatever came before it on its connection (a type
\* that is not served, but not a stream that ends with no byte at all) and
\* whatever happens on other connections (protocol.rs:1102-1173).
Reachable(c, i) ==
    /\ plan[c][i] \in Served
    /\ \A j \in 1..(i - 1) : plan[c][j] # "empty"

StreamsServed ==
    \A c \in Conns :
        []<>(lost[c] \/ \A i \in first_byte[c] : Reachable(c, i) => i \in handlers[c])
=============================================================================
