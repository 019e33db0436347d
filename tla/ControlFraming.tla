--------------------------- MODULE ControlFraming ---------------------------
(***************************************************************************)
(* A control stream, byte by byte: handle_control_stream and               *)
(* process_control_messages of the node that accepted it                   *)
(* (src/moq/protocol.rs), and the task of the subscriber actor that reads  *)
(* the answers (src/moq/subscriber.rs).                                    *)
(*                                                                         *)
(* Chunks end anywhere.  Both readers keep what they have not used in a    *)
(* buffer; they decide from its first bytes whether a message is complete  *)
(* and only then let a deserializer take it.  Bytes arrive in order here   *)
(* (DataFraming has the case that they do not).                            *)
(***************************************************************************)
EXTENDS ControlMessages, FiniteSets

CONSTANT Streams    \* what a peer may write to one control stream

ASSUME StreamsAssumption == Streams \subseteq Seq(Messages)

VARIABLES
    messages,       \* what the peer writes to this stream
    arrived,        \* how many of its bytes the reader has got
    buffer,
    reader,         \* reading (a chunk), processing, closed, lost (the
                    \* connection), failed (a message)
    handled,        \* the messages given to the handlers
    exposed,        \* a chunk ended where the reader is known to misjudge it
    answer,         \* the bytes written back
    answer_got,     \* how many of them the subscriber's task has got
    ok_buffer,
    ok_reader,      \* reading, processing
    subscribe_ok    \* SubscribeOk commands sent to the subscriber actor

requestVars == <<messages, arrived, buffer, reader, handled, exposed, answer>>
answerVars == <<answer_got, ok_buffer, ok_reader, subscribe_ok>>
controlVars == <<messages, arrived, buffer, reader, handled, exposed, answer,
                 answer_got, ok_buffer, ok_reader, subscribe_ok>>

ControlInit ==
    /\ messages \in Streams
    /\ arrived = 0 /\ buffer = <<>> /\ reader = "reading" /\ handled = <<>>
    /\ exposed = FALSE
    /\ answer = <<>>
    /\ answer_got = 0 /\ ok_buffer = <<>> /\ ok_reader = "reading" /\ subscribe_ok = 0

\* Parts written one after the other: where the first n of them end, and their
\* bytes.
Ends(parts) ==
    LET end[n \in 0..Len(parts)] == IF n = 0 THEN 0 ELSE end[n - 1] + Len(parts[n])
    IN  end

Joined(parts) ==
    LET join[n \in 0..Len(parts)] == IF n = 0 THEN <<>> ELSE join[n - 1] \o parts[n]
    IN  join

Sent == [i \in 1..Len(messages) |-> Serialized(messages[i])]
EndOf == Ends(Sent)
Written == Joined(Sent)
StreamLen == EndOf[Len(messages)]

-----------------------------------------------------------------------------
(* The node that accepted the stream.                                      *)

\* The completeness test of REQUEST forgets the length of the namespace and
\* the namespace; that of UNSUBSCRIBE takes a byte of the stream id for it.
Misjudged(n) ==
    \E i \in 1..Len(messages) :
      \/ /\ messages[i].type = TYPE_REQUEST
         /\ EndOf[i - 1] + 25 <= n /\ n < EndOf[i]
      \/ messages[i].type = TYPE_UNSUBSCRIBE

read_chunk(k) ==
    /\ reader = "reading"
    /\ arrived + k <= StreamLen
    /\ arrived' = arrived + k
    /\ buffer' = buffer \o SubSeq(Written[Len(messages)], arrived + 1, arrived + k)
    /\ exposed' = (exposed \/ Misjudged(arrived + k))
    /\ reader' = "processing"
    /\ UNCHANGED <<messages, handled, answer, answerVars>>

\* Ok(None), or Err(_): the peer's connection is lost.
read_end ==
    /\ reader = "reading"
    /\ \/ arrived = StreamLen /\ reader' = "closed"
       \/ reader' = "lost"
    /\ UNCHANGED <<messages, arrived, buffer, handled, exposed, answer, answerVars>>

\* Mutant of Complete: one byte too few of a SUBSCRIBE is enough.
CompleteEarly(b) ==
    CASE b[1] = TYPE_SUBSCRIBE    -> Len(b) >= 3 /\ Len(b) >= 3 + get_u16(b, 2) + 28
      [] b[1] = TYPE_TERMINATE    -> Len(b) >= 2
      [] b[1] = TYPE_HEARTBEAT    -> Len(b) >= 9
      [] b[1] = TYPE_REQUEST      -> Len(b) >= 25
      [] b[1] = TYPE_UNSUBSCRIBE  -> Len(b) >= 2 /\ Len(b) >= 2 + b[2]
      [] b[1] = TYPE_CANCEL       -> Len(b) >= 9
      [] b[1] = TYPE_SUBSCRIBE_OK -> Len(b) >= 17

\* "Check if we have a complete message".
Complete(b) ==
    CASE b[1] = TYPE_SUBSCRIBE    -> Len(b) >= 3 /\ Len(b) >= 3 + get_u16(b, 2) + 29
      [] b[1] = TYPE_TERMINATE    -> Len(b) >= 2
      [] b[1] = TYPE_HEARTBEAT    -> Len(b) >= 9
      [] b[1] = TYPE_REQUEST      -> Len(b) >= 25
      [] b[1] = TYPE_UNSUBSCRIBE  -> Len(b) >= 2 /\ Len(b) >= 2 + b[2]
      [] b[1] = TYPE_CANCEL       -> Len(b) >= 9
      [] b[1] = TYPE_SUBSCRIBE_OK -> Len(b) >= 17

Known == {TYPE_SUBSCRIBE, TYPE_UNSUBSCRIBE, TYPE_CANCEL, TYPE_REQUEST,
          TYPE_TERMINATE, TYPE_HEARTBEAT, TYPE_SUBSCRIBE_OK}

\* `buffer.advance(n)`.
DropBytes(b, n) == SubSeq(b, n + 1, Len(b))

\* `buffer.is_empty()`, `break` on an incomplete message.
process_break ==
    /\ reader = "processing"
    /\ buffer # <<>> => buffer[1] \in Known /\ ~Complete(buffer)
    /\ reader' = "reading"
    /\ UNCHANGED <<messages, arrived, buffer, handled, exposed, answer, answerVars>>

\* TYPE_OBJECT and unknown types are skipped byte by byte.
process_skip ==
    /\ reader = "processing" /\ buffer # <<>>
    /\ buffer[1] \notin Known
    /\ buffer' = DropBytes(buffer, 1)
    /\ UNCHANGED <<messages, arrived, reader, handled, exposed, answer, answerVars>>

\* A handler consumes what its deserializer takes.  With `if let Ok` a failure
\* leaves the loop running.
Take(type, result) ==
    /\ reader = "processing" /\ buffer # <<>>
    /\ buffer[1] = type /\ Complete(buffer)
    /\ buffer' = DropBytes(buffer, result.taken)
    /\ handled' = handled \o result.messages
    /\ UNCHANGED <<messages, arrived, exposed, answerVars>>

\* A write of an answer fails when the connection is lost: `?` ends the task.
Answers(bytes) ==
    \/ answer' = answer \o bytes /\ reader' = "processing"
    \/ /\ \E k \in 0..(Len(bytes) - 1) : answer' = answer \o SubSeq(bytes, 1, k)
       /\ reader' = "lost"

\* The answer is its length in four bytes, and SUBSCRIBE_OK.  The engine
\* accepts every subscription.
subscribe_answer(m) ==
    LET response == serialize_subscribe_ok(Message(TYPE_SUBSCRIBE_OK, m.stream, 0, <<>>))
    IN  Number(Len(response), 4) \o response

handle_subscribe_message ==
    LET result == deserialize_subscribe(buffer)
    IN  /\ Take(TYPE_SUBSCRIBE, result)
        /\ IF result.messages = <<>>
           THEN reader' = "failed" /\ UNCHANGED answer
           ELSE Answers(subscribe_answer(result.messages[1]))

handle_heartbeat_message ==
    LET result == deserialize_heartbeat(buffer)
    IN  /\ Take(TYPE_HEARTBEAT, result)
        /\ IF result.messages = <<>>
           THEN UNCHANGED <<reader, answer>>
           ELSE Answers(serialize_heartbeat(result.messages[1]))

handle_request_message ==
    /\ Take(TYPE_REQUEST, deserialize_request(buffer))
    /\ UNCHANGED <<reader, answer>>

handle_unsubscribe_message ==
    /\ Take(TYPE_UNSUBSCRIBE, deserialize_unsubscribe(buffer))
    /\ UNCHANGED <<reader, answer>>

handle_cancel_message ==
    /\ Take(TYPE_CANCEL, deserialize_cancel(buffer))
    /\ UNCHANGED <<reader, answer>>

handle_terminate_message ==
    /\ Take(TYPE_TERMINATE, deserialize_terminate(buffer))
    /\ UNCHANGED <<reader, answer>>

\* Consumed here without deserialize_subscribe_ok, to the same effect.
handle_subscribe_ok_message ==
    /\ Take(TYPE_SUBSCRIBE_OK, deserialize_subscribe_ok(buffer))
    /\ UNCHANGED <<reader, answer>>

process_control_messages ==
    \/ process_break \/ process_skip
    \/ handle_subscribe_message \/ handle_heartbeat_message
    \/ handle_request_message \/ handle_unsubscribe_message
    \/ handle_cancel_message \/ handle_terminate_message
    \/ handle_subscribe_ok_message

-----------------------------------------------------------------------------
(* The subscriber's task that reads the answers.                           *)

read_answer(k) ==
    /\ ok_reader = "reading"
    /\ answer_got + k <= Len(answer)
    /\ answer_got' = answer_got + k
    /\ ok_buffer' = ok_buffer \o SubSeq(answer, answer_got + 1, answer_got + k)
    /\ ok_reader' = "processing"
    /\ UNCHANGED <<requestVars, subscribe_ok>>

\* Mutant of process_answer: a SUBSCRIBE_OK that is not all there is skipped.
ProcessSkipping ==
    /\ ok_reader = "processing"
    /\ \/ /\ ok_buffer = <<>> /\ ok_reader' = "reading"
          /\ UNCHANGED <<ok_buffer, subscribe_ok>>
       \/ /\ ok_buffer # <<>>
          /\ UNCHANGED ok_reader
          /\ IF ok_buffer[1] = TYPE_SUBSCRIBE_OK /\ Len(ok_buffer) >= 17
             THEN ok_buffer' = DropBytes(ok_buffer, 17) /\ subscribe_ok' = subscribe_ok + 1
             ELSE ok_buffer' = DropBytes(ok_buffer, 1) /\ UNCHANGED subscribe_ok
    /\ UNCHANGED <<requestVars, answer_got>>

\* Everything but SUBSCRIBE_OK is skipped byte by byte, its length too.
process_answer ==
    /\ ok_reader = "processing"
    /\ \/ /\ ok_buffer # <<>> => ok_buffer[1] = TYPE_SUBSCRIBE_OK /\ Len(ok_buffer) < 17
          /\ ok_reader' = "reading"
          /\ UNCHANGED <<ok_buffer, subscribe_ok>>
       \/ /\ ok_buffer # <<>> /\ ok_buffer[1] = TYPE_SUBSCRIBE_OK /\ Len(ok_buffer) >= 17
          /\ ok_buffer' = DropBytes(ok_buffer, 17)
          /\ subscribe_ok' = subscribe_ok + 1
          /\ UNCHANGED ok_reader
       \/ /\ ok_buffer # <<>> /\ ok_buffer[1] # TYPE_SUBSCRIBE_OK
          /\ ok_buffer' = DropBytes(ok_buffer, 1)
          /\ UNCHANGED <<ok_reader, subscribe_ok>>
    /\ UNCHANGED <<requestVars, answer_got>>

-----------------------------------------------------------------------------
ReadChunk == \E k \in 1..StreamLen : read_chunk(k)
ReadAnswer == \E k \in 1..Len(answer) : read_answer(k)

ControlNext ==
    \/ ReadChunk \/ read_end \/ process_control_messages
    \/ ReadAnswer \/ process_answer

\* What was written arrives while the connection lasts, and both tasks run.
ControlSpec ==
    /\ ControlInit /\ [][ControlNext]_controlVars
    /\ WF_controlVars(ReadChunk) /\ WF_controlVars(process_control_messages)
    /\ WF_controlVars(ReadAnswer) /\ WF_controlVars(process_answer)

-----------------------------------------------------------------------------
(* Properties                                                              *)

WholeMessages == {i \in 1..Len(messages) : EndOf[i] <= arrived}

\* However the stream is cut into chunks, what the handlers get is what the
\* peer sent, each message once, in order, with its own fields; and when the
\* reader waits for a chunk it sits on no whole message.  The two message
\* types whose completeness test is wrong are left out, a REQUEST only when it
\* is really cut in the critical place (protocol.rs:587-685, proto.rs:237-380).
HandledAsSent ==
    ~exposed =>
        /\ handled = SubSeq(messages, 1, Len(handled))
        /\ reader \in {"reading", "closed"} => Len(handled) = Cardinality(WholeMessages)

\* What is written back for a message, and where the answers to the first n
\* messages of the stream end.
AnswerTo(m) ==
    CASE m.type = TYPE_SUBSCRIBE -> subscribe_answer(m)
      [] m.type = TYPE_HEARTBEAT -> serialize_heartbeat(m)
      [] OTHER                   -> <<>>

Replies == [i \in 1..Len(messages) |-> AnswerTo(messages[i])]
AnswerEnd == Ends(Replies)

\* No heartbeat has the code of SUBSCRIBE_OK among the bytes of its time.
Legible ==
    \A i \in 1..Len(messages) : messages[i].type = TYPE_HEARTBEAT =>
        \A k \in 1..8 : messages[i].tail[k] # TYPE_SUBSCRIBE_OK

AnswersComplete ==
    {i \in 1..Len(messages) : messages[i].type = TYPE_SUBSCRIBE /\ AnswerEnd[i] <= answer_got}

\* Each SUBSCRIBE_OK that has reached the subscriber whole is one command, and
\* nothing else is, though its reader skips the length before it byte by byte
\* and the stream id may contain any byte, the code of SUBSCRIBE_OK included; a
\* heartbeat may not (subscriber.rs:296-328).
OkCounted ==
    ok_reader = "reading" /\ ~exposed /\ Legible => subscribe_ok = Cardinality(AnswersComplete)

\* A message is found complete only when all of it is there: what the comment
\* "Check if we have a complete message" says of the test (protocol.rs:634).
CompleteMeansWhole ==
    reader = "processing" /\ buffer # <<>> /\ buffer[1] \in Known /\ Complete(buffer) =>
        \A i \in 1..Len(messages) :
            EndOf[i - 1] = arrived - Len(buffer) => EndOf[i] <= arrived

\* Unless the connection is lost, all messages are handled, and the reader
\* gets round to waiting for more: no message of the protocol fails in its
\* deserializer, and the loop over the buffer ends (protocol.rs:587-685).
EveryMessageHandled ==
    [](reader # "lost" /\ ~exposed) =>
        <>(handled = messages /\ reader \in {"reading", "closed"})
=============================================================================
