------------------------------- MODULE Player -------------------------------
(***************************************************************************)
(* The two players: examples/subscriber.rs, which records a video stream   *)
(* in a file, and examples/audio_subscriber.rs, above the client's         *)
(* monitor_streams and subscribe_to_video_stream (src/moq/client.rs).      *)
(*                                                                         *)
(* Three tasks: the monitor forwards announcements of one sender over a    *)
(* bounded channel; main takes one announcement at a time, subscribes and  *)
(* plays the stream to its end; the Ctrl+C handler sends main a message    *)
(* over a channel with one place.  The subscription itself is              *)
(* SubscriberActor; here a stream gives an init segment and chunks, ends,  *)
(* closes its channels or falls silent.                                    *)
(***************************************************************************)
EXTENDS Naturals, Sequences, FiniteSets

CONSTANTS
    Announcements,  \* what comes by gossip: [stream, sender, audio]
    MaxLost,        \* those of them that the monitor may lose
    sender_id,      \* the publisher the player was started for
    channel_size,   \* of the channel of announcements (32 in the code)
    MaxChunks,      \* of one stream
    MaxFailures     \* failed calls of start_streaming

ASSUME PlayerAssumption ==
    /\ Announcements \in Seq([stream : Nat \ {0}, sender : STRING, audio : BOOLEAN])
    /\ channel_size \in Nat \ {0} /\ MaxChunks \in Nat /\ MaxFailures \in Nat
    /\ MaxLost \in Nat

NoStream == 0

VARIABLES
    media,          \* "video", "audio": which player
    silent,         \* streams may stop without an end
    announced,      \* how many announcements have come by gossip
    missed,         \* those that were dropped, with an Event::Lagged instead
    monitor,        \* the announcements it holds: one at most
    topic_open,     \* it goes on listening
    queue,          \* the channel of announcements
    main,           \* selecting, subscribing, initializing, playing,
                    \* giving_up (sending itself a shutdown), exited
    current,        \* the stream announced last
    tried,          \* the streams main subscribed to, in order
    received,       \* items <<kind, stream>> of the current stream
    saver_init,     \* the stream whose MediaInit video_saver was made of
    recording,      \* none, open, closed: the output file
    disk,           \* what the file holds
    buffered,       \* what its BufWriter holds
    failures,       \* failed calls of start_streaming
    shutdown,       \* messages in the shutdown channel
    ctrl_c,         \* waiting, sending, sleeping, done: the handler
    restarted       \* a stream was started after Ctrl+C

gossipVars == <<announced, missed, monitor, topic_open>>
fileVars == <<saver_init, recording, disk, buffered, failures, restarted>>
signalVars == <<shutdown, ctrl_c>>
playerVars == <<media, silent, announced, missed, monitor, topic_open, queue, main, current,
                tried, received, saver_init, recording, disk, buffered, failures,
                shutdown, ctrl_c, restarted>>

PlayerInit ==
    /\ media \in {"video", "audio"} /\ silent \in BOOLEAN
    /\ announced = 0 /\ missed = {} /\ monitor = <<>> /\ topic_open = TRUE /\ queue = <<>>
    /\ main = "selecting" /\ current = NoStream /\ tried = <<>> /\ received = <<>>
    /\ saver_init = NoStream /\ recording = "none" /\ disk = <<>> /\ buffered = <<>>
    /\ failures = 0
    /\ shutdown = 0 /\ ctrl_c = "waiting" /\ restarted = FALSE

-----------------------------------------------------------------------------
(* monitor_streams.                                                        *)

\* The monitor takes the next event, unless it is waiting to forward one.
monitor_next ==
    /\ topic_open /\ monitor = <<>> /\ announced < Len(Announcements)
    /\ announced' = announced + 1
    /\ monitor' = IF Announcements[announced + 1].sender = sender_id
                  THEN <<Announcements[announced + 1]>> ELSE <<>>
    /\ UNCHANGED <<media, silent, missed, topic_open, queue, main, current, tried, received, fileVars, signalVars>>

\* The monitor was too slow for gossip, which gives it Event::Lagged for what
\* it has dropped; the monitor takes no notice.
monitor_lagged ==
    /\ topic_open /\ monitor = <<>> /\ announced < Len(Announcements)
    /\ Cardinality(missed) < MaxLost
    /\ announced' = announced + 1 /\ missed' = missed \cup {announced + 1}
    /\ UNCHANGED <<media, silent, topic_open, monitor, queue, main, current, tried, received, fileVars, signalVars>>

\* Mutant of monitor_send: try_send, an announcement that finds no room is lost.
TrySend ==
    /\ monitor # <<>> /\ main # "exited"
    /\ monitor' = <<>>
    /\ queue' = IF Len(queue) < channel_size THEN queue \o monitor ELSE queue
    /\ UNCHANGED <<media, silent, announced, missed, topic_open, main, current, tried, received, fileVars, signalVars>>

monitor_send ==
    /\ monitor # <<>> /\ main # "exited"
    /\ Len(queue) < channel_size
    /\ monitor' = <<>> /\ queue' = queue \o monitor
    /\ UNCHANGED <<media, silent, announced, missed, topic_open, main, current, tried, received, fileVars, signalVars>>

\* topic.next() gives None or an error.
monitor_ends ==
    /\ topic_open /\ monitor = <<>>
    /\ topic_open' = FALSE
    /\ UNCHANGED <<media, silent, announced, missed, monitor, queue, main, current, tried, received, fileVars, signalVars>>

-----------------------------------------------------------------------------
(* VideoSaver.                                                             *)

\* Mutant of start_streaming: the file is opened for appending.
StartAppending(init) ==
    /\ disk' = disk \o (IF init = NoStream THEN <<>> ELSE <<<<"init", init>>>>)
    /\ buffered' = <<>> /\ recording' = "open" /\ saver_init' = init
    /\ restarted' = (restarted \/ ctrl_c # "waiting")

\* A saver made of `init` opens its file, which empties it, and writes and
\* flushes the init segment if it has one.
start_streaming(init) ==
    /\ disk' = IF init = NoStream THEN <<>> ELSE <<<<"init", init>>>>
    /\ buffered' = <<>> /\ recording' = "open" /\ saver_init' = init
    /\ restarted' = (restarted \/ ctrl_c # "waiting")

\* A very small chunk is left out.  A key frame is flushed, and what is
\* before it; a delta frame may stay in the BufWriter, or push out what was
\* there, or be the fifteenth and be flushed.
add_chunk_streaming(item) ==
    LET pending == Append(buffered, item)
        Flushed == CASE item[1] = "key"   -> {Len(pending)}
                     [] item[1] = "delta" -> {0, Len(buffered), Len(pending)}
    IN  /\ IF item[1] = "tiny" \/ recording # "open"
           THEN UNCHANGED <<disk, buffered>>
           ELSE \E n \in Flushed : /\ disk' = disk \o SubSeq(pending, 1, n)
                                   /\ buffered' = SubSeq(pending, n + 1, Len(pending))
        /\ UNCHANGED <<saver_init, recording, failures, restarted>>

stop ==
    /\ disk' = disk \o buffered /\ buffered' = <<>>
    /\ recording' = IF recording = "open" THEN "closed" ELSE recording
    /\ UNCHANGED <<saver_init, failures, restarted>>

-----------------------------------------------------------------------------
(* main.                                                                   *)

\* Both branches of the outer select! may be ready; either is taken.
select_shutdown ==
    /\ main = "selecting" /\ shutdown > 0
    /\ shutdown' = shutdown - 1 /\ main' = "exited"
    /\ stop
    /\ UNCHANGED <<media, silent, gossipVars, queue, current, tried, received, ctrl_c>>

\* The audio player leaves announcements without "audio" in their namespace.
select_announcement ==
    /\ main = "selecting" /\ queue # <<>>
    /\ queue' = Tail(queue)
    /\ IF media = "audio" /\ ~Head(queue).audio
       THEN UNCHANGED <<main, current>>
       ELSE main' = "subscribing" /\ current' = Head(queue).stream
    /\ UNCHANGED <<media, silent, gossipVars, tried, received, fileVars, signalVars>>

\* The channel is closed once the monitor has ended and it is empty.  The
\* saver is stopped when it is dropped.
announcements_closed ==
    /\ main = "selecting" /\ queue = <<>> /\ ~topic_open
    /\ main' = "exited"
    /\ stop
    /\ UNCHANGED <<media, silent, gossipVars, queue, current, tried, received, signalVars>>

\* The client's call returns receivers, an error, or its 10 s are over.
subscribe ==
    /\ main = "subscribing"
    /\ tried' = Append(tried, current) /\ received' = <<>>
    /\ main' \in {"initializing", "selecting"}
    /\ UNCHANGED <<media, silent, gossipVars, queue, current, fileVars, signalVars>>

\* start_streaming with the saver of `first`; if that fails, and file output
\* is on, with another path and the saver of `second`; if that fails too,
\* main sends itself a shutdown.  What a failed start leaves in a file is not
\* looked at.
StartOrRetry(first, second) ==
    \/ /\ start_streaming(first)
       /\ main' = "playing" /\ UNCHANGED failures
    \/ /\ failures < MaxFailures
       /\ start_streaming(second)
       /\ failures' = failures + 1 /\ main' = "playing"
    \/ /\ failures + 1 < MaxFailures
       /\ failures' = failures + 2 /\ main' = "giving_up"
       /\ recording' = "none" /\ disk' = <<>> /\ buffered' = <<>> /\ saver_init' = second
       /\ UNCHANGED restarted

\* init_rx.recv() of the video player: an init segment makes a new saver.
\* Without one "default settings" are those of the saver there is.
init_recv ==
    /\ media = "video" /\ main = "initializing"
    /\ \/ received' = <<<<"init", current>>>> /\ StartOrRetry(current, current)
       \/ received' = <<>> /\ StartOrRetry(saver_init, NoStream)
    /\ UNCHANGED <<media, silent, gossipVars, queue, current, tried, signalVars>>

\* The audio player waits 5 s at most, and goes on in any case.
audio_init ==
    /\ media = "audio" /\ main = "initializing"
    /\ main' = "playing" /\ received' \in {<<>>, <<<<"init", current>>>>}
    /\ UNCHANGED <<media, silent, gossipVars, queue, current, tried, fileVars, signalVars>>

\* `shutdown_tx.send(()).await; continue`.
give_up ==
    /\ main = "giving_up" /\ shutdown = 0
    /\ shutdown' = 1 /\ main' = "selecting"
    /\ UNCHANGED <<media, silent, gossipVars, queue, current, tried, received, fileVars, ctrl_c>>

\* A shutdown during a stream ends the stream, not the program.
inner_shutdown ==
    /\ media = "video" /\ main = "playing" /\ shutdown > 0
    /\ shutdown' = shutdown - 1 /\ main' = "selecting"
    /\ stop
    /\ UNCHANGED <<media, silent, gossipVars, queue, current, tried, received, ctrl_c>>

\* Some(Some(chunk)) in the video player.
video_chunk ==
    /\ media = "video" /\ main = "playing" /\ Len(received) <= MaxChunks
    /\ \E kind \in {"key", "delta", "tiny"} :
         /\ received' = Append(received, <<kind, current>>)
         /\ add_chunk_streaming(<<kind, current>>)
    /\ UNCHANGED <<media, silent, gossipVars, queue, main, current, tried, signalVars>>

\* After each chunk the audio player looks whether there is a shutdown.
audio_chunk ==
    /\ media = "audio" /\ main = "playing" /\ Len(received) <= MaxChunks
    /\ received' = Append(received, <<"key", current>>)
    /\ IF shutdown > 0 THEN shutdown' = shutdown - 1 /\ main' = "exited"
                       ELSE UNCHANGED <<shutdown, main>>
    /\ UNCHANGED <<media, silent, gossipVars, queue, current, tried, fileVars, ctrl_c>>

\* Mutant of chunk_end: the end marker does not end the loop.
ChunkEndOnlyClosed ==
    /\ main = "playing"
    /\ UNCHANGED playerVars

\* Some(None), the end of the stream, or None, a closed channel.
chunk_end ==
    /\ main = "playing"
    /\ main' = "selecting"
    /\ stop
    /\ UNCHANGED <<media, silent, gossipVars, queue, current, tried, received, signalVars>>

-----------------------------------------------------------------------------
(* The Ctrl+C handler.                                                     *)

press ==
    /\ ctrl_c = "waiting" /\ main # "exited"
    /\ ctrl_c' = "sending"
    /\ UNCHANGED <<media, silent, gossipVars, queue, main, current, tried, received, fileVars, shutdown>>

\* The video player's handler goes on to sleep for 5 s.
send_shutdown ==
    /\ ctrl_c = "sending" /\ shutdown = 0 /\ main # "exited"
    /\ shutdown' = 1
    /\ ctrl_c' = IF media = "video" THEN "sleeping" ELSE "done"
    /\ UNCHANGED <<media, silent, gossipVars, queue, main, current, tried, received, fileVars>>

\* Mutant of force_exit: the handler just ends.
HandlerEnds ==
    /\ ctrl_c = "sleeping" /\ main # "exited"
    /\ shutdown > 0 => main \notin {"selecting", "playing"}
    /\ ctrl_c' = "done"
    /\ UNCHANGED <<media, silent, gossipVars, queue, main, current, tried, received, fileVars, shutdown>>

\* process::exit(0): no destructor runs.  Within 5 s a select! takes a
\* shutdown that is ready.
force_exit ==
    /\ ctrl_c = "sleeping" /\ main # "exited"
    /\ shutdown > 0 => main \notin {"selecting", "playing"}
    /\ ctrl_c' = "done" /\ main' = "exited"
    /\ UNCHANGED <<media, silent, gossipVars, queue, current, tried, received, fileVars, shutdown>>

-----------------------------------------------------------------------------
Monitor == monitor_next \/ monitor_send

\* Steps main takes on its own, and those for which the stream has to answer.
MainAlone ==
    \/ select_shutdown \/ select_announcement \/ announcements_closed
    \/ subscribe \/ audio_init \/ give_up \/ inner_shutdown
StreamAnswers == init_recv \/ video_chunk \/ audio_chunk \/ chunk_end
Handler == send_shutdown \/ force_exit

PlayerNext ==
    \/ Monitor \/ monitor_lagged \/ monitor_ends \/ MainAlone \/ StreamAnswers \/ press \/ Handler

\* The tasks run, and a stream that is not silent goes on to its end.  No
\* fairness of Ctrl+C, of a lag nor of the end of the topic.
PlayerSpec ==
    /\ PlayerInit /\ [][PlayerNext]_playerVars
    /\ WF_playerVars(Monitor) /\ WF_playerVars(MainAlone) /\ WF_playerVars(Handler)
    /\ WF_playerVars(StreamAnswers /\ ~silent)

-----------------------------------------------------------------------------
(* Properties                                                              *)

\* The items are those of the list at the given places, in their order.
Picks(items, list, places) ==
    \E at \in [1..Len(items) -> places] :
        /\ \A i, j \in 1..Len(items) : i < j => at[i] < at[j]
        /\ \A p \in places : \E i \in 1..Len(items) : at[i] = p
        /\ \A i \in 1..Len(items) : items[i] = list[at[i]]

Streams == [i \in 1..Len(Announcements) |-> Announcements[i].stream]

\* The announcements among the first n that the player is to follow: gossip
\* has not dropped them.
Wanted(n) ==
    {i \in 1..n : /\ Announcements[i].sender = sender_id /\ i \notin missed
                  /\ media = "audio" => Announcements[i].audio}

\* Main subscribes to every stream its publisher announces, in the order of
\* the announcements, to no other sender's, and skips none but what gossip has
\* dropped before the monitor: announcements wait in the monitor and in gossip
\* while a stream is played (client.rs:97-115).
AnnouncementsInOrder ==
    \E n \in 0..announced : Picks(tried, Streams, Wanted(n))

\* The file holds what was received, but for very small chunks.
Recorded(file) ==
    Picks(file, received, {i \in 1..Len(received) : received[i][1] # "tiny"})

\* The file holds the stream that is being recorded, and nothing of the one
\* before: its init segment and all its chunks in order.  When the program
\* ends, by whichever way, all that was received is in the file; unless, after
\* Ctrl+C had stopped one stream, another was started, which the handler's
\* exit then cuts off (examples/subscriber.rs:142-247, 361-419, 551-566).
RecordingKept ==
    received # <<>> /\ received[1][1] = "init" =>
        /\ recording = "open" => Recorded(disk \o buffered)
        /\ recording = "closed" \/ (main = "exited" /\ recording = "open" /\ ~restarted) =>
               Recorded(disk)

\* As long as every stream ends, main gets round to each stream announced to
\* it (examples/subscriber.rs:594-884, audio_subscriber.rs:103-222).
AnnouncementsTried ==
    [](~silent /\ ctrl_c = "waiting" /\ failures = 0 /\ topic_open) =>
        \A n \in 1..Len(Announcements) :
            Cardinality(Wanted(announced)) >= n ~> Len(tried) >= n

\* Ctrl+C ends the video player, whatever it is waiting for; the audio player
\* only if the stream it plays goes on or ends; and so the video player after
\* it has sent itself a shutdown, because the handler then waits for the place
\* in the channel before it sets its timer (examples/subscriber.rs:551-566,
\* 658, 692, audio_subscriber.rs:82-89, 166-169).
Exits ==
    [](silent => media = "video" /\ main # "giving_up") =>
        (ctrl_c = "sending" ~> main = "exited")
=============================================================================
