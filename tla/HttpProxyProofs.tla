---------------------------- MODULE HttpProxyProofs ----------------------------
(***************************************************************************)
(* Theorems about Connections and HttpProxy: for every set of connections, *)
(* streams and requests, every capacity and every limit.                   *)
(***************************************************************************)
EXTENDS HttpProxy, FiniteSetTheorems, TLAPS

-----------------------------------------------------------------------------
(* The watcher of the connection state.                                    *)

States == {"WaitingForPeer"} \cup Conns \cup RegisteredStreams

\* The last state broadcast is the state, and what the watcher has seen is what
\* is at its place in the history.
WatchInv ==
    /\ connection_state \in States /\ state_tx \in Seq(States)
    /\ watcher \in Nat \cup {NotWatching}
    /\ state_tx # <<>> => state_tx[Len(state_tx)] = connection_state
    /\ seen # "nothing" => watcher \in 1..Len(state_tx) /\ seen = state_tx[watcher]

LEMMA InitWatchInv == NodeInit => WatchInv
  BY DEF NodeInit, ConnectionsInit, WatchInv, States, NotWatching

\* A state that is not new is not broadcast, and needs not be: it is the last.
LEMMA UpdateWatchInv ==
    ASSUME WatchInv, NEW new \in States, update_connection_state(new),
           UNCHANGED <<watcher, seen>>
    PROVE  WatchInv'
  BY DEF WatchInv, update_connection_state

\* However much of the history it has missed, the watcher goes on within it.
LEMMA ReceiveWatchInv == ASSUME WatchInv, recv_state PROVE WatchInv'
<1> DEFINE next == IF Len(state_tx) - watcher > Capacity
                   THEN Len(state_tx) - Capacity + 1 ELSE watcher + 1
<1>1. next \in 1..Len(state_tx)
  BY ConnectionsAssumption DEF WatchInv, recv_state, NotWatching
<1>2. watcher' = next /\ seen' = state_tx[next] /\ UNCHANGED <<connection_state, state_tx>>
  BY DEF recv_state
<1> QED
  BY <1>1, <1>2 DEF WatchInv

LEMMA SameWatchInv == ASSUME WatchInv, UNCHANGED stateVars PROVE WatchInv'
  BY DEF WatchInv, stateVars

\* Only the state's own operations, and a new connection, touch the state.
LEMMA NextWatchInv == WatchInv /\ [NodeNext]_nodeVars => WatchInv'
<1> SUFFICES ASSUME WatchInv, [NodeNext]_nodeVars PROVE WatchInv'
  OBVIOUS
<1>1. ASSUME NEW c \in Conns, accept(c) PROVE WatchInv'
  <2>1. CASE http_only
    BY <1>1, <2>1 DEF accept, WatchInv
  <2>2. CASE ~http_only
    BY <1>1, <2>2, UpdateWatchInv DEF accept, States
  <2> QED
    BY <2>1, <2>2
<1>2. ASSUME NEW c \in Conns, accept_bi(c) \/ read_type(c) \/ StreamArrives(c) \/ lose(c)
      PROVE  WatchInv'
  BY <1>2, SameWatchInv DEF accept_bi, read_type, StreamArrives, stream_arrives, lose
<1>3. ASSUME StateNext PROVE WatchInv'
  <2>1. ASSUME NEW s \in RegisteredStreams, register_stream(s) PROVE WatchInv'
    BY <2>1, UpdateWatchInv DEF register_stream, States
  <2>2. CASE subscribe_to_state_changes
    BY <2>2 DEF subscribe_to_state_changes, WatchInv, NotWatching
  <2> QED
    BY <1>3, <2>1, <2>2, ReceiveWatchInv DEF StateNext
<1>4. ASSUME NEW c \in Fetches, HttpClient(c) \/ read_timeout(c) \/ connect_fails(c)
      PROVE  WatchInv'
  BY <1>4, SameWatchInv DEF HttpClient, open_stream, write_request, finish_request,
     write_fails, read_response, read_end, read_timeout, connect_fails, Return,
     connectionVars
<1>5. ASSUME NEW c \in Fetches, HttpServer(c) PROVE WatchInv'
  BY <1>5, SameWatchInv DEF HttpServer, start_handler, read_request, parse_request,
     write_response, finish_response, server_fails, connectionVars
<1>6. CASE UNCHANGED nodeVars
  BY <1>6, SameWatchInv DEF nodeVars, connectionVars
<1> QED
  BY <1>1, <1>2, <1>3, <1>4, <1>5, <1>6 DEF NodeNext, Accept, AcceptNext

\* An application that has received all it can knows the state the engine is
\* in, however many states it was too slow for (engine.rs:343-352).
THEOREM WatcherAlwaysUpToDate == NodeSpec => []WatcherUpToDate
<1>1. WatchInv => WatcherUpToDate
  BY DEF WatchInv, WatcherUpToDate
<1> QED
  BY <1>1, InitWatchInv, NextWatchInv, PTL DEF NodeSpec

-----------------------------------------------------------------------------
(* What has been read of a stream.                                         *)

\* The blocks read, in whatever order, are some of the n written, each once.
ReadOf(s, n) ==
    /\ s \in Seq(Nat) /\ Blocks(s) \subseteq 1..n
    /\ IsFiniteSet(Blocks(s)) /\ Cardinality(Blocks(s)) = Len(s)

LEMMA NothingRead == ReadOf(<<>>, 0)
<1>1. Blocks(<<>>) = {}
  BY DEF Blocks
<1> QED
  BY <1>1, FS_EmptySet DEF ReadOf

LEMMA WriteOne ==
    ASSUME NEW s, NEW n \in Nat, ReadOf(s, n)
    PROVE  ReadOf(s, n + 1)
<1>1. 1..n \subseteq 1..(n + 1)
  OBVIOUS
<1> QED
  BY <1>1 DEF ReadOf

\* While there is an unread block, fewer have been read than were written.
LEMMA ReadOne ==
    ASSUME NEW s, NEW n \in Nat, ReadOf(s, n), NEW i \in Unread(s, n)
    PROVE  ReadOf(Append(s, i), n) /\ Len(s) < n
<1>1. s \in Seq(Nat) /\ i \in 1..n /\ i \notin Blocks(s)
  BY DEF ReadOf, Unread
<1>2. Blocks(Append(s, i)) = Blocks(s) \cup {i}
  <2>1. DOMAIN s = 1..Len(s) /\ DOMAIN Append(s, i) = 1..(Len(s) + 1) /\ Len(s) \in Nat
    BY <1>1
  <2>2. Append(s, i)[Len(s) + 1] = i /\ \A k \in 1..Len(s) : Append(s, i)[k] = s[k]
    BY <1>1
  <2> QED
    BY <2>1, <2>2 DEF Blocks
<1>3. IsFiniteSet(Blocks(s) \cup {i}) /\ Cardinality(Blocks(s) \cup {i}) = Len(s) + 1
  BY <1>1, FS_AddElement DEF ReadOf
<1>4. IsFiniteSet(1..n) /\ Cardinality(1..n) = n
  BY FS_Interval
<1>5. Blocks(s) \cup {i} \subseteq 1..n
  BY <1>1 DEF ReadOf
<1>6. Cardinality(Blocks(s) \cup {i}) <= n
  BY <1>4, <1>5, FS_Subset
<1> QED
  BY <1>1, <1>2, <1>3, <1>5, <1>6 DEF ReadOf

LEMMA ReadAll ==
    ASSUME NEW s, NEW n \in Nat, ReadOf(s, n), Unread(s, n) = {}
    PROVE  Blocks(s) = 1..n /\ Len(s) = n
<1>1. Blocks(s) = 1..n
  BY DEF ReadOf, Unread
<1>2. Cardinality(1..n) = n
  BY FS_Interval
<1> QED
  BY <1>1, <1>2 DEF ReadOf

-----------------------------------------------------------------------------
(* A fetch and its handler.                                                *)

FetchType ==
    /\ request \in [Fetches -> Request] /\ taken \in [Fetches -> Request]
    /\ client \in [Fetches -> {"connecting", "writing", "reading", "ok", "failed"}]
    /\ server \in [Fetches -> {"none", "reading", "writing", "done", "failed"}]
    /\ written \in [Fetches -> Nat] /\ resp_written \in [Fetches -> Nat]
    /\ req_bytes \in [Fetches -> Seq(Nat)] /\ resp_bytes \in [Fetches -> Seq(Nat)]
    /\ resp_end \in [Fetches -> BOOLEAN]

\* The handler of fetch c takes the request for another one only when it came
\* out of order.  It ends its half of the stream with nothing or the whole
\* answer on it.
HandlerInv(c) ==
    /\ written[c] <= request[c].size /\ ReadOf(req_bytes[c], written[c])
    /\ InOrder(req_bytes[c]) => taken[c] = request[c]
    /\ server[c] \in {"none", "reading"} => taken[c] = request[c] /\ resp_written[c] = 0
    /\ server[c] \in {"none", "reading", "writing"} => ~resp_end[c]
    /\ server[c] = "writing" => ~Refused(taken[c])
    /\ resp_end[c] => \/ resp_written[c] = Answer(taken[c]) /\ ~Refused(taken[c])
                      \/ resp_written[c] = 0 /\ Unanswered(c)

Fetched(c) ==
    /\ resp_end[c]
    /\ \/ Unanswered(c)
       \/ /\ Len(resp_bytes[c]) = Answer(taken[c])
          /\ Blocks(resp_bytes[c]) = 1..Answer(taken[c])

ClientInv(c) ==
    /\ ReadOf(resp_bytes[c], resp_written[c])
    /\ client[c] = "ok" => Fetched(c)

FetchInv == FetchType /\ \A c \in Fetches : HandlerInv(c) /\ ClientInv(c)

LEMMA RequestType ==
    ASSUME NEW r \in Request
    PROVE  r.size \in Nat /\ Answer(r) \in Nat
<1>1. r.size \in Nat /\ r.body \in Nat
  BY DEF Request
<1> QED
  BY <1>1 DEF Answer

LEMMA InitFetchInv == NodeInit => FetchInv
<1> SUFFICES ASSUME HttpInit PROVE FetchInv
  BY DEF NodeInit
<1>1. FetchType
  BY HttpAssumption DEF HttpInit, FetchType
<1>2. ASSUME NEW c \in Fetches PROVE HandlerInv(c) /\ ClientInv(c)
  <2>1. request[c].size \in Nat
    BY <1>1, RequestType DEF FetchType
  <2> QED
    BY <2>1, NothingRead DEF HttpInit, HandlerInv, ClientInv
<1> QED
  BY <1>1, <1>2 DEF FetchInv

LEMMA SameFetchInv == ASSUME FetchInv, UNCHANGED <<httpVars, http_only>> PROVE FetchInv'
<1>1. FetchType'
  BY DEF FetchInv, FetchType, httpVars, clientVars, serverVars
<1>2. ASSUME NEW c \in Fetches PROVE (HandlerInv(c) /\ ClientInv(c))'
  BY DEF FetchInv, HandlerInv, ClientInv, Fetched, httpVars, clientVars, serverVars,
         Unanswered, Refused, Answer
<1> QED
  BY <1>1, <1>2 DEF FetchInv

\* The state of one fetch.
FetchOf(c) ==
    <<request[c], client[c], written[c], req_bytes[c], server[c], taken[c],
      resp_written[c], resp_end[c], resp_bytes[c]>>

\* A step of one fetch leaves the others alone.
LEMMA OthersFetchInv ==
    ASSUME FetchInv, NEW c \in Fetches, UNCHANGED http_only,
           FetchType', (HandlerInv(c) /\ ClientInv(c))',
           \A d \in Fetches \ {c} : UNCHANGED FetchOf(d)
    PROVE  FetchInv'
<1>1. ASSUME NEW d \in Fetches \ {c} PROVE (HandlerInv(d) /\ ClientInv(d))'
  <2>1. UNCHANGED FetchOf(d) /\ HandlerInv(d) /\ ClientInv(d)
    BY DEF FetchInv
  <2> QED
    BY <2>1 DEF FetchOf, HandlerInv, ClientInv, Fetched, Unanswered, Refused, Answer
<1> QED
  BY <1>1 DEF FetchInv

\* The client's steps, of which only the reading of the end returns Ok.
LEMMA ClientFetchInv ==
    ASSUME FetchInv, NEW c \in Fetches, HttpClient(c) \/ read_timeout(c) \/ connect_fails(c)
    PROVE  FetchInv'
<1>1. UNCHANGED <<http_only, request, serverVars>>
  BY DEF HttpClient, open_stream, write_request, finish_request, write_fails, read_response,
         read_end, read_timeout, connect_fails, Return, connectionVars, acceptVars
<1>2. FetchType /\ HandlerInv(c) /\ ClientInv(c)
  BY DEF FetchInv
<1>3. request[c].size \in Nat /\ written[c] \in Nat /\ resp_written[c] \in Nat
  BY <1>2, RequestType DEF FetchType
<1>4. CASE /\ UNCHANGED <<written, resp_bytes>>
           /\ \E result \in {"writing", "reading", "failed"} :
                 client' = [client EXCEPT ![c] = result]
  <2>1. FetchType'
    BY <1>1, <1>2, <1>4 DEF FetchType, serverVars
  <2>2. (HandlerInv(c) /\ ClientInv(c))'
    BY <1>1, <1>2, <1>4 DEF FetchType, HandlerInv, ClientInv, Unanswered, Refused, Answer,
       serverVars
  <2> QED
    BY <1>1, <1>2, <1>4, <2>1, <2>2, OthersFetchInv DEF FetchOf, FetchType, serverVars
<1>5. CASE write_request(c)
  <2>1. UNCHANGED <<client, resp_bytes>> /\ written' = [written EXCEPT ![c] = @ + 1]
    BY <1>5 DEF write_request
  <2>2. FetchType'
    BY <1>1, <1>2, <2>1 DEF FetchType, serverVars
  <2>3. ReadOf(req_bytes[c], written[c] + 1) /\ written[c] + 1 <= request[c].size
    BY <1>2, <1>3, <1>5, WriteOne DEF HandlerInv, write_request
  <2>4. (HandlerInv(c) /\ ClientInv(c))'
    BY <1>1, <1>2, <2>1, <2>3 DEF FetchType, HandlerInv, ClientInv, Fetched, Unanswered,
       Refused, Answer, serverVars
  <2> QED
    BY <1>1, <1>2, <2>1, <2>2, <2>4, OthersFetchInv DEF FetchOf, FetchType, serverVars
<1>6. CASE read_response(c)
  <2>1. CASE Len(resp_bytes[c]) = MaxResponse
    BY <1>4, <1>6, <2>1 DEF read_response, Return
  <2>2. CASE Len(resp_bytes[c]) # MaxResponse
    <3>1. PICK i \in Unread(resp_bytes[c], resp_written[c]) :
             resp_bytes' = [resp_bytes EXCEPT ![c] = Append(@, i)]
      BY <1>6, <2>2 DEF read_response
    <3>2. UNCHANGED <<client, written>> /\ client[c] = "reading"
      BY <1>6, <2>2 DEF read_response
    <3>3. ReadOf(Append(resp_bytes[c], i), resp_written[c])
      BY <1>2, <1>3, ReadOne DEF ClientInv
    <3>4. FetchType'
      BY <1>1, <1>2, <3>1, <3>2, <3>3 DEF FetchType, ReadOf, serverVars
    <3>5. (HandlerInv(c) /\ ClientInv(c))'
      BY <1>1, <1>2, <3>1, <3>2, <3>3 DEF FetchType, HandlerInv, ClientInv, Unanswered,
         Refused, Answer, serverVars
    <3> QED
      BY <1>1, <1>2, <3>1, <3>2, <3>4, <3>5, OthersFetchInv DEF FetchOf, FetchType, serverVars
  <2> QED
    BY <2>1, <2>2
<1>7. CASE read_end(c)
  <2>1. CASE /\ resp_end[c] /\ Unread(resp_bytes[c], resp_written[c]) = {}
             /\ Return(c, "ok")
    <3>1. UNCHANGED <<written, resp_bytes>> /\ client' = [client EXCEPT ![c] = "ok"]
      BY <1>7, <2>1 DEF read_end, Return
    <3>2. Blocks(resp_bytes[c]) = 1..resp_written[c] /\ Len(resp_bytes[c]) = resp_written[c]
      BY <1>2, <1>3, <2>1, ReadAll DEF ClientInv
    <3>3. Fetched(c)
      BY <1>2, <2>1, <3>2 DEF Fetched, HandlerInv
    <3>4. FetchType'
      BY <1>1, <1>2, <3>1 DEF FetchType, serverVars
    <3>5. (HandlerInv(c) /\ ClientInv(c))'
      BY <1>1, <1>2, <3>1, <3>3 DEF FetchType, HandlerInv, ClientInv, Fetched, Unanswered,
         Refused, Answer, serverVars
    <3> QED
      BY <1>1, <1>2, <3>1, <3>4, <3>5, OthersFetchInv DEF FetchOf, FetchType, serverVars
  <2>2. CASE Return(c, "failed")
    BY <1>4, <1>7, <2>2 DEF read_end, Return
  <2> QED
    BY <1>7, <2>1, <2>2 DEF read_end
<1>8. CASE open_stream(c) \/ finish_request(c) \/ write_fails(c) \/ read_timeout(c)
           \/ connect_fails(c)
  BY <1>4, <1>8 DEF open_stream, finish_request, write_fails, read_timeout, connect_fails, Return
<1> QED
  BY <1>5, <1>6, <1>7, <1>8 DEF HttpClient

\* The handler's steps; a handler that fails because the connection is lost
\* leaves no end behind that the client could read.
LEMMA ServerFetchInv ==
    ASSUME FetchInv, NEW c \in Fetches, HttpServer(c)
    PROVE  FetchInv'
<1>1. UNCHANGED <<http_only, request, clientVars>>
  BY DEF HttpServer, start_handler, read_request, parse_request, write_response,
         finish_response, server_fails, connectionVars, acceptVars
<1>2. FetchType /\ HandlerInv(c) /\ ClientInv(c)
  BY DEF FetchInv
<1>3. request[c].size \in Nat /\ written[c] \in Nat /\ resp_written[c] \in Nat
  BY <1>2, RequestType DEF FetchType
<1>4. client[c] = "ok" => Fetched(c) /\ server[c] \in {"done", "failed"}
  BY <1>2 DEF ClientInv, Fetched, HandlerInv, FetchType
<1>5. CASE start_handler(c)
  <2>1. /\ UNCHANGED <<req_bytes, taken, resp_written, resp_end>> /\ server[c] = "none"
        /\ server' = [server EXCEPT ![c] = "reading"]
    BY <1>5 DEF start_handler
  <2>2. FetchType'
    BY <1>1, <1>2, <2>1 DEF FetchType, clientVars
  <2>3. (HandlerInv(c) /\ ClientInv(c))'
    BY <1>1, <1>2, <1>4, <2>1 DEF FetchType, HandlerInv, ClientInv, Unanswered, Refused,
       Answer, clientVars
  <2> QED
    BY <1>1, <1>2, <2>1, <2>2, <2>3, OthersFetchInv DEF FetchOf, FetchType, clientVars
<1>6. CASE read_request(c)
  <2>1. PICK i \in Unread(req_bytes[c], written[c]) :
          IF Len(req_bytes[c]) = MaxRequest
          THEN Drop(c, "failed") /\ UNCHANGED req_bytes
          ELSE /\ req_bytes' = [req_bytes EXCEPT ![c] = Append(@, i)]
               /\ UNCHANGED <<server, resp_end>>
    BY <1>6 DEF read_request
  <2>2. UNCHANGED <<taken, resp_written>> /\ server[c] = "reading"
    BY <1>6 DEF read_request
  <2>3. /\ ReadOf(Append(req_bytes[c], i), written[c])
        /\ Len(req_bytes[c]) < written[c] /\ Len(req_bytes[c]) \in Nat
    BY <1>2, <1>3, ReadOne DEF HandlerInv, FetchType
  <2>4. CASE Len(req_bytes[c]) = MaxRequest
    <3>1. /\ UNCHANGED req_bytes /\ server' = [server EXCEPT ![c] = "failed"]
          /\ resp_end' = [resp_end EXCEPT ![c] = ~lost[c]]
      BY <2>1, <2>4 DEF Drop
    <3>2. Unanswered(c)
      BY <1>2, <1>3, <2>3, <2>4 DEF Unanswered, HandlerInv
    <3>3. FetchType'
      BY <1>1, <1>2, <2>2, <3>1 DEF FetchType, clientVars
    <3>4. (HandlerInv(c) /\ ClientInv(c))'
      BY <1>1, <1>2, <1>4, <2>2, <3>1, <3>2 DEF FetchType, HandlerInv, ClientInv, Unanswered,
         Refused, Answer, clientVars
    <3> QED
      BY <1>1, <1>2, <2>2, <3>1, <3>3, <3>4, OthersFetchInv DEF FetchOf, FetchType, clientVars
  <2>5. CASE Len(req_bytes[c]) # MaxRequest
    <3>1. /\ req_bytes' = [req_bytes EXCEPT ![c] = Append(@, i)]
          /\ UNCHANGED <<server, resp_end>>
      BY <2>1, <2>5
    <3>2. FetchType'
      BY <1>1, <1>2, <2>2, <2>3, <3>1 DEF FetchType, ReadOf, clientVars
    <3>3. (HandlerInv(c) /\ ClientInv(c))'
      BY <1>1, <1>2, <1>4, <2>2, <2>3, <3>1 DEF FetchType, HandlerInv, ClientInv, Unanswered,
         Refused, Answer, clientVars
    <3> QED
      BY <1>1, <1>2, <2>2, <3>1, <3>2, <3>3, OthersFetchInv DEF FetchOf, FetchType, clientVars
  <2> QED
    BY <2>4, <2>5
<1>7. CASE parse_request(c)
  <2>1. PICK r \in ReadsLike(c) :
          /\ taken' = [taken EXCEPT ![c] = r]
          /\ IF Refused(r) THEN Drop(c, "failed")
             ELSE server' = [server EXCEPT ![c] = "writing"] /\ UNCHANGED resp_end
    BY <1>7 DEF parse_request
  <2>2. UNCHANGED <<req_bytes, resp_written>> /\ server[c] = "reading"
    BY <1>7 DEF parse_request
  <2>3. r \in Request /\ (InOrder(req_bytes[c]) => r = request[c])
    <3>1. request[c] \in Request /\ Requests \subseteq Request
      BY <1>2, HttpAssumption DEF FetchType
    <3>2. [request[c] EXCEPT !.line = "malformed"] \in Request
      BY <3>1 DEF Request
    <3>3. CASE InOrder(req_bytes[c])
      BY <2>1, <3>1, <3>3 DEF ReadsLike
    <3>4. CASE ~InOrder(req_bytes[c])
      BY <2>1, <3>1, <3>2, <3>4 DEF ReadsLike
    <3> QED
      BY <3>3, <3>4
  <2>4. FetchType'
    BY <1>1, <1>2, <2>1, <2>2, <2>3 DEF FetchType, Drop, clientVars
  <2>5. CASE Refused(r)
    <3>1. /\ server' = [server EXCEPT ![c] = "failed"]
          /\ resp_end' = [resp_end EXCEPT ![c] = ~lost[c]]
      BY <2>1, <2>5 DEF Drop
    <3>2. (HandlerInv(c) /\ ClientInv(c))'
      BY <1>1, <1>2, <1>4, <2>1, <2>2, <2>3, <2>5, <3>1 DEF FetchType, HandlerInv, ClientInv,
         Unanswered, Refused, clientVars
    <3> QED
      BY <1>1, <1>2, <2>1, <2>2, <2>4, <3>1, <3>2, OthersFetchInv DEF FetchOf, FetchType, clientVars
  <2>6. CASE ~Refused(r)
    <3>1. server' = [server EXCEPT ![c] = "writing"] /\ UNCHANGED resp_end
      BY <2>1, <2>6
    <3>2. (HandlerInv(c) /\ ClientInv(c))'
      BY <1>1, <1>2, <1>4, <2>1, <2>2, <2>3, <2>6, <3>1 DEF FetchType, HandlerInv, ClientInv,
         Refused, clientVars
    <3> QED
      BY <1>1, <1>2, <2>1, <2>2, <2>4, <3>1, <3>2, OthersFetchInv DEF FetchOf, FetchType, clientVars
  <2> QED
    BY <2>5, <2>6
<1>8. CASE write_response(c)
  <2>1. /\ UNCHANGED <<req_bytes, taken, server, resp_end>> /\ server[c] = "writing"
        /\ resp_written' = [resp_written EXCEPT ![c] = @ + 1]
    BY <1>8 DEF write_response
  <2>2. FetchType'
    BY <1>1, <1>2, <2>1 DEF FetchType, clientVars
  <2>3. ReadOf(resp_bytes[c], resp_written[c] + 1)
    BY <1>2, <1>3, WriteOne DEF ClientInv
  <2>4. (HandlerInv(c) /\ ClientInv(c))'
    BY <1>1, <1>2, <1>4, <2>1, <2>3 DEF FetchType, HandlerInv, ClientInv, Refused, clientVars
  <2> QED
    BY <1>1, <1>2, <2>1, <2>2, <2>4, OthersFetchInv DEF FetchOf, FetchType, clientVars
<1>9. CASE finish_response(c) \/ server_fails(c)
  <2>1. /\ UNCHANGED <<req_bytes, taken, resp_written>> /\ server[c] \in {"reading", "writing"}
        /\ \E how \in {"done", "failed"} : server' = [server EXCEPT ![c] = how]
        /\ resp_end' = [resp_end EXCEPT ![c] = ~lost[c]]
    BY <1>9 DEF finish_response, server_fails, Drop
  <2>2. \/ lost[c]
        \/ resp_written[c] = Answer(taken[c]) /\ ~Refused(taken[c])
    BY <1>2, <1>9 DEF finish_response, server_fails, HandlerInv
  <2>3. FetchType'
    BY <1>1, <1>2, <2>1 DEF FetchType, clientVars
  <2>4. (HandlerInv(c) /\ ClientInv(c))'
    BY <1>1, <1>2, <1>4, <2>1, <2>2 DEF FetchType, HandlerInv, ClientInv, Refused, Answer,
       clientVars
  <2> QED
    BY <1>1, <1>2, <2>1, <2>3, <2>4, OthersFetchInv DEF FetchOf, FetchType, clientVars
<1> QED
  BY <1>5, <1>6, <1>7, <1>8, <1>9 DEF HttpServer

LEMMA NextFetchInv == FetchInv /\ [NodeNext]_nodeVars => FetchInv'
<1> SUFFICES ASSUME FetchInv, [NodeNext]_nodeVars PROVE FetchInv'
  OBVIOUS
<1>1. ASSUME NEW c \in Conns, StreamArrives(c) \/ Accept(c) \/ (lose(c) /\ UNCHANGED httpVars)
      PROVE  FetchInv'
  BY <1>1, SameFetchInv DEF StreamArrives, stream_arrives, Accept, AcceptNext, accept,
     accept_bi, read_type, lose
<1>2. CASE StateNext /\ UNCHANGED httpVars
  BY <1>2, SameFetchInv DEF StateNext, register_stream, subscribe_to_state_changes,
     recv_state, acceptVars
<1>3. CASE UNCHANGED nodeVars
  BY <1>3, SameFetchInv DEF nodeVars, connectionVars, acceptVars
<1> QED
  BY <1>1, <1>2, <1>3, ClientFetchInv, ServerFetchInv DEF NodeNext

\* A fetch that returns Ok has every block of the answer, each once, or the
\* request had none: whatever the order in which the blocks came, whatever is
\* lost on the way, and whichever limit is met; and the answer is to the request
\* that was made if that came in order (protocol.rs:1009-1081,
\* subscriber.rs:952-996).
THEOREM FetchAlwaysAllOrNothing == NodeSpec => []FetchAllOrNothing
<1>1. FetchInv => FetchAllOrNothing
  BY DEF FetchInv, HandlerInv, ClientInv, Fetched, FetchAllOrNothing
<1> QED
  BY <1>1, InitFetchInv, NextFetchInv, PTL DEF NodeSpec
=============================================================================
