----------------------------- MODULE HttpProxy -----------------------------
(***************************************************************************)
(* HTTP through a stream of a connection: http_fetch of the subscriber     *)
(* (src/moq/subscriber.rs, and its variant with a timeout in               *)
(* examples/http_subscriber.rs), which makes a connection of its own for   *)
(* each request, and handle_http_stream of the node that serves it         *)
(* (src/moq/protocol.rs, examples/http_publisher.rs), above the accept     *)
(* loop of Connections.                                                    *)
(*                                                                         *)
(* Requests and responses are written in blocks; a response is one block   *)
(* of header and then its body.  Both sides read with read_chunk(.., false)*)
(* and append what comes in the order it comes, which need not be the      *)
(* order it was written in.                                                *)
(***************************************************************************)
EXTENDS Connections, FiniteSets

CONSTANTS
    Fetches,        \* the connections http_fetch makes
    Requests,       \* what it may ask for, by what the handler finds there
    MaxRequest,     \* max_request_size and max_response_size in blocks
    MaxResponse

\* A malformed line has no path, or "..", or is not UTF-8; a hurried request
\* has a timeout.
Request ==
    [size : Nat, line : {"valid", "malformed"},
     file : {"found", "not found", "unreadable"}, body : Nat, hurried : BOOLEAN]

ASSUME HttpAssumption ==
    /\ Fetches \subseteq Conns
    /\ \A p \in Plans : \A c \in Fetches : p[c] \in {<<>>, <<"http">>}
    /\ Requests \subseteq Request

VARIABLES
    request,        \* of each fetch
    client,         \* connecting, typed, writing, reading; then ok or failed
    written,        \* blocks of the request written,
    request_end,    \* and whether the stream was finished
    req_bytes,      \* the blocks the handler has read, as they came
    server,         \* none, reading, writing, done, failed
    taken,          \* the request that the handler takes them for
    resp_written,   \* blocks of the response written,
    resp_end,       \* and whether that stream was finished
    resp_bytes      \* the blocks the client has read, as they came

clientVars == <<client, written, request_end, resp_bytes>>
serverVars == <<req_bytes, server, taken, resp_written, resp_end>>
httpVars == <<request, clientVars, serverVars>>
nodeVars == <<connectionVars, httpVars>>

HttpInit ==
    /\ request \in [Fetches -> Requests]
    /\ \A c \in Fetches : plan[c] = <<>> => request[c] = CHOOSE r \in Requests : TRUE
    /\ client = [c \in Fetches |-> "connecting"]
    /\ server = [c \in Fetches |-> "none"]
    /\ written = [c \in Fetches |-> 0] /\ req_bytes = [c \in Fetches |-> <<>>]
    /\ taken = request
    /\ resp_written = [c \in Fetches |-> 0] /\ resp_bytes = [c \in Fetches |-> <<>>]
    /\ request_end = [c \in Fetches |-> FALSE] /\ resp_end = [c \in Fetches |-> FALSE]

\* The blocks of a stream that have been read, and those that have not.
Blocks(s) == {s[i] : i \in DOMAIN s}
Unread(s, n) == 1..n \ Blocks(s)

InOrder(s) == \A i \in DOMAIN s : s[i] = i

-----------------------------------------------------------------------------
(* http_fetch                                                              *)

\* However it returns, the function drops its connection, which closes it.
Return(c, result) ==
    /\ client' = [client EXCEPT ![c] = result]
    /\ lost' = [lost EXCEPT ![c] = TRUE]
    /\ UNCHANGED <<http_only, plan, first_byte, acceptor, accepted, handlers, stateVars>>

\* open_bi, the type byte.  A connection that is lost before it counts as one
\* that could not be made.
open_stream(c) ==
    /\ client[c] = "connecting" /\ plan[c] # <<>> /\ ~lost[c]
    /\ client' = [client EXCEPT ![c] = "writing"]
    /\ UNCHANGED <<request, written, request_end, resp_bytes, serverVars, connectionVars>>

write_request(c) ==
    /\ client[c] = "writing" /\ written[c] < request[c].size /\ ~lost[c]
    /\ written' = [written EXCEPT ![c] = @ + 1]
    /\ UNCHANGED <<request, client, request_end, resp_bytes, serverVars, connectionVars>>

\* Mutant of finish_request: the end of the request is not told.
FinishNothing(c) ==
    /\ client[c] = "writing" /\ written[c] = request[c].size /\ ~lost[c]
    /\ client' = [client EXCEPT ![c] = "reading"]
    /\ UNCHANGED <<request, written, request_end, resp_bytes, serverVars, connectionVars>>

finish_request(c) ==
    /\ client[c] = "writing" /\ written[c] = request[c].size /\ ~lost[c]
    /\ client' = [client EXCEPT ![c] = "reading"]
    /\ request_end' = [request_end EXCEPT ![c] = TRUE]
    /\ UNCHANGED <<request, written, resp_bytes, serverVars, connectionVars>>

\* A write fails when the handler has given up reading, or with the connection.
write_fails(c) ==
    /\ client[c] = "writing"
    /\ lost[c] \/ (server[c] = "failed" /\ written[c] < request[c].size)
    /\ Return(c, "failed")
    /\ UNCHANGED <<request, written, request_end, resp_bytes, serverVars>>

\* A chunk that exceeds the limit is not appended any more.
read_response(c) ==
    /\ client[c] = "reading"
    /\ \E i \in Unread(resp_bytes[c], resp_written[c]) :
         IF Len(resp_bytes[c]) = MaxResponse
         THEN Return(c, "failed") /\ UNCHANGED resp_bytes
         ELSE /\ resp_bytes' = [resp_bytes EXCEPT ![c] = Append(@, i)]
              /\ UNCHANGED <<client, connectionVars>>
    /\ UNCHANGED <<request, written, request_end, serverVars>>

\* Mutant of read_end: the end of the connection passes for that of the answer.
ReadToAnyEnd(c) ==
    /\ client[c] = "reading"
    /\ (resp_end[c] /\ Unread(resp_bytes[c], resp_written[c]) = {}) \/ lost[c]
    /\ Return(c, "ok")
    /\ UNCHANGED <<request, written, request_end, resp_bytes, serverVars>>

\* Ok(None) after the last block; Err if the connection goes first.
read_end(c) ==
    /\ client[c] = "reading"
    /\ \/ /\ resp_end[c] /\ Unread(resp_bytes[c], resp_written[c]) = {}
          /\ Return(c, "ok")
       \/ lost[c] /\ Return(c, "failed")
    /\ UNCHANGED <<request, written, request_end, resp_bytes, serverVars>>

\* Only the reading of the answer has a timeout, and only in the example.
read_timeout(c) ==
    /\ client[c] = "reading" /\ request[c].hurried
    /\ Return(c, "failed")
    /\ UNCHANGED <<request, written, request_end, resp_bytes, serverVars>>

\* endpoint.connect or open_bi fails.
connect_fails(c) ==
    /\ client[c] = "connecting" /\ plan[c] # <<>>
    /\ Return(c, "failed")
    /\ UNCHANGED <<request, written, request_end, resp_bytes, serverVars>>

-----------------------------------------------------------------------------
(* handle_http_stream                                                      *)

start_handler(c) ==
    /\ server[c] = "none" /\ 1 \in handlers[c]
    /\ server' = [server EXCEPT ![c] = "reading"]
    /\ UNCHANGED <<request, req_bytes, taken, resp_written, resp_end, clientVars, connectionVars>>

\* Dropping the halves of the stream finishes the one and stops the other;
\* neither gets through a connection that is lost.
Drop(c, how) ==
    /\ server' = [server EXCEPT ![c] = how]
    /\ resp_end' = [resp_end EXCEPT ![c] = ~lost[c]]

read_request(c) ==
    /\ server[c] = "reading"
    /\ \E i \in Unread(req_bytes[c], written[c]) :
         IF Len(req_bytes[c]) = MaxRequest
         THEN Drop(c, "failed") /\ UNCHANGED req_bytes
         ELSE /\ req_bytes' = [req_bytes EXCEPT ![c] = Append(@, i)]
              /\ UNCHANGED <<server, resp_end>>
    /\ UNCHANGED <<request, taken, resp_written, clientVars, connectionVars>>

\* No answer at all for a request that cannot be parsed; for an empty one only
\* the example has an answer.
Refused(r) == (r.size = 0 /\ ~http_only) \/ (r.size > 0 /\ r.line = "malformed")

Answer(r) == 1 + IF r.size > 0 /\ r.file = "found" THEN r.body ELSE 1

\* A request whose blocks came out of order may read like any other of its
\* size, or like none.
ReadsLike(c) ==
    IF InOrder(req_bytes[c]) THEN {request[c]}
    ELSE {r \in Requests : r.size = request[c].size}
         \cup {[request[c] EXCEPT !.line = "malformed"]}

\* The end of the request: parse it, read the file.
parse_request(c) ==
    /\ server[c] = "reading" /\ request_end[c] /\ Unread(req_bytes[c], written[c]) = {}
    /\ \E r \in ReadsLike(c) :
         /\ taken' = [taken EXCEPT ![c] = r]
         /\ IF Refused(r) THEN Drop(c, "failed")
            ELSE server' = [server EXCEPT ![c] = "writing"] /\ UNCHANGED resp_end
    /\ UNCHANGED <<request, req_bytes, resp_written, clientVars, connectionVars>>

write_response(c) ==
    /\ server[c] = "writing" /\ resp_written[c] < Answer(taken[c]) /\ ~lost[c]
    /\ resp_written' = [resp_written EXCEPT ![c] = @ + 1]
    /\ UNCHANGED <<request, req_bytes, server, taken, resp_end, clientVars, connectionVars>>

finish_response(c) ==
    /\ server[c] = "writing" /\ resp_written[c] = Answer(taken[c])
    /\ Drop(c, "done")
    /\ UNCHANGED <<request, req_bytes, taken, resp_written, clientVars, connectionVars>>

\* Mutant of server_fails: an error of read_chunk is tried again.
RetryRead(c) ==
    /\ server[c] = "writing" /\ lost[c]
    /\ Drop(c, "failed")
    /\ UNCHANGED <<request, req_bytes, taken, resp_written, clientVars, connectionVars>>

\* `?` on read_chunk and write_all.
server_fails(c) ==
    /\ server[c] \in {"reading", "writing"}
    /\ lost[c]
    /\ Drop(c, "failed")
    /\ UNCHANGED <<request, req_bytes, taken, resp_written, clientVars, connectionVars>>

-----------------------------------------------------------------------------
HttpClient(c) ==
    \/ open_stream(c) \/ write_request(c) \/ finish_request(c) \/ write_fails(c)
    \/ read_response(c) \/ read_end(c)

HttpServer(c) ==
    \/ start_handler(c) \/ read_request(c) \/ parse_request(c)
    \/ write_response(c) \/ finish_response(c) \/ server_fails(c)

\* The type byte of a fetch arrives after it was written.
StreamArrives(c) ==
    /\ \E i \in 1..Len(plan[c]) : stream_arrives(c, i)
    /\ c \in Fetches => client[c] # "connecting"
    /\ UNCHANGED httpVars

Accept(c) == AcceptNext(c) /\ UNCHANGED httpVars

NodeInit == ConnectionsInit /\ HttpInit

NodeNext ==
    \/ \E c \in Conns : StreamArrives(c) \/ Accept(c) \/ (lose(c) /\ UNCHANGED httpVars)
    \/ StateNext /\ UNCHANGED httpVars
    \/ \E c \in Fetches :
          HttpClient(c) \/ HttpServer(c) \/ read_timeout(c) \/ connect_fails(c)

\* Tasks run and what was sent arrives; nobody is bound to connect, to lose a
\* connection or to reach a timeout.
NodeSpec ==
    /\ NodeInit /\ [][NodeNext]_nodeVars
    /\ \A c \in Conns : WF_nodeVars(StreamArrives(c)) /\ WF_nodeVars(Accept(c))
    /\ \A c \in Fetches : WF_nodeVars(HttpClient(c)) /\ WF_nodeVars(HttpServer(c))

-----------------------------------------------------------------------------
(* Properties                                                              *)

\* The handler gives no answer: it cannot read the request, as it came, or the
\* request is too large.
Unanswered(c) == Refused(taken[c]) \/ request[c].size > MaxRequest

\* A fetch that returns Ok has every block of the answer, each once: nothing the
\* handler, a lost connection or a limit does on the way cuts it short unseen.
\* When the blocks came in order both ways, it is the answer to the request
\* that was made (protocol.rs:1009-1081, subscriber.rs:952-996).  Nothing is
\* said of requests without an answer: their fetches ought to fail
\* (subscriber.rs:949-951), and do not.
FetchAllOrNothing ==
    \A c \in Fetches : client[c] = "ok" /\ ~Unanswered(c) =>
        /\ Len(resp_bytes[c]) = Answer(taken[c])
        /\ Blocks(resp_bytes[c]) = 1..Answer(taken[c])
        /\ InOrder(req_bytes[c]) => taken[c] = request[c]

\* A fetch that has begun returns: client and handler never wait for each
\* other, though the library's has no timeout (subscriber.rs:952-996).
FetchReturns ==
    \A c \in Fetches : client[c] = "writing" ~> client[c] \in {"ok", "failed"}

\* No handler outlives its fetch: it ends with the answer, or with the
\* connection when the client has given up (protocol.rs:1009-1081).
HandlersEnd ==
    \A c \in Fetches : server[c] = "reading" ~> server[c] \in {"done", "failed"}
=============================================================================
