------------------------------ MODULE Publisher ------------------------------
(***************************************************************************)
(* The publishing side, from a media source to the command queue of the    *)
(* stream actor: stream_video and stream_audio (src/moq/video.rs and       *)
(* audio.rs), publish_video_stream and publish_audio_stream (protocol.rs)  *)
(* and the forwarding task of register_stream (engine.rs).                 *)
(*                                                                         *)
(* Three tasks hand what they get from one bounded channel to the next,    *)
(* holding one item while they wait for room:                              *)
(*                                                                         *)
(*   source -> loop -> app_rx -> bridge -> object_rx -> forwarder -> cmd_rx *)
(*                                                                         *)
(* The video loop pulls: it asks for a frame when a token arrives on its   *)
(* own request channel, and a delayed task sends the next token.           *)
(***************************************************************************)
EXTENDS Proto, Sequences, FiniteSets

CONSTANTS
    request_size,       \* capacities of the four channels
    app_size,
    object_size,
    cmd_size,
    keyframe_interval,
    MaxFrames,          \* bounds: what the source yields before it ends,
    MaxErrors,          \* and the errors it gives in between
    Nobody              \* a task holds nothing

ASSUME PublisherAssumption ==
    /\ {request_size, app_size, object_size, cmd_size, keyframe_interval} \subseteq Nat \ {0}
    /\ MaxFrames \in Nat /\ MaxErrors \in Nat

VARIABLES
    is_audio,           \* publish_audio_stream, or publish_video_stream
    phase,              \* of publish_*_stream: register, init, announce, failed, streaming
    loop,               \* of stream_*: recv, next, send, retry, done
    tokens,             \* in the request channel
    delayed,            \* tasks that will send a token
    frames,             \* frames (and an end marker) the source has yielded
    errors,
    frame_buffer,       \* what the loop is sending
    sequence,           \* next sequence number
    app_rx, bridge,     \* a channel, and what the task behind it holds
    object_rx, forwarder,
    cmd_rx,
    arrived             \* history: the objects the actor has taken

loopVars == <<is_audio, loop, tokens, delayed, frames, errors, frame_buffer>>
pipeVars == <<object_rx, forwarder, cmd_rx, arrived>>
publisherVars == <<phase, loopVars, sequence, app_rx, bridge, pipeVars>>

Object(seq, group_id, priority) ==
    [sequence |-> seq, group_id |-> group_id, priority |-> priority]

InitObject == Object(0, MEDIA_TYPE_INIT, 255)
EosObject(seq) == Object(seq, MEDIA_TYPE_EOF, 255)

\* Nobody is told from what a task may hold: an object or a video chunk.
ASSUME NobodyAssumption ==
    Nobody \notin [sequence : Nat, group_id : MediaTypes, priority : Nat]
                  \cup [is_keyframe : BOOLEAN]

PublisherInit ==
    /\ is_audio \in BOOLEAN
    /\ phase = "register"
    /\ loop = "recv" /\ tokens = 0 /\ delayed = 0
    /\ frames = 0 /\ errors = 0 /\ frame_buffer = Nobody
    /\ sequence = 1
    /\ app_rx = <<>> /\ bridge = Nobody
    /\ object_rx = <<>> /\ forwarder = Nobody
    /\ cmd_rx = <<>> /\ arrived = <<>>

-----------------------------------------------------------------------------
(* publish_video_stream and publish_audio_stream                           *)

\* The stream is registered, and the init segment is the first object.
send_init ==
    /\ phase = "register"
    /\ Len(object_rx) < object_size
    /\ object_rx' = Append(object_rx, InitObject)
    /\ phase' = "announce"
    /\ UNCHANGED <<loopVars, sequence, app_rx, bridge, forwarder, cmd_rx, arrived>>

\* Joining the gossip topic may fail: the caller gets an error, the actor
\* stays.  stream_video then asks itself for the first frame.
announce ==
    /\ phase = "announce"
    /\ \/ phase' = "failed" /\ UNCHANGED <<loop, tokens>>
       \/ /\ phase' = "streaming"
          /\ IF is_audio THEN loop' = "next" /\ UNCHANGED tokens
                         ELSE tokens' = tokens + 1 /\ UNCHANGED loop
    /\ UNCHANGED <<is_audio, delayed, frames, errors, frame_buffer, sequence,
                   app_rx, bridge, pipeVars>>

-----------------------------------------------------------------------------
(* stream_video                                                            *)

recv_request ==
    /\ phase = "streaming" /\ loop = "recv"
    /\ tokens > 0
    /\ tokens' = tokens - 1
    /\ loop' = "next"
    /\ UNCHANGED <<is_audio, phase, delayed, frames, errors, frame_buffer, sequence, app_rx,
                   bridge, pipeVars>>

next_frame ==
    /\ ~is_audio /\ loop = "next"
    /\ frames < MaxFrames
    /\ frames' = frames + 1
    /\ frame_buffer' = [is_keyframe |-> frames % keyframe_interval = 0]
    /\ loop' = "send"
    /\ UNCHANGED <<is_audio, phase, tokens, delayed, errors, sequence, app_rx,
                   bridge, pipeVars>>

\* The source fails, once in a while or, when it has no more frames, for good.
next_frame_fails ==
    /\ ~is_audio /\ loop = "next"
    /\ \/ errors < MaxErrors /\ errors' = errors + 1
       \/ frames = MaxFrames /\ UNCHANGED errors
    /\ loop' = "retry"
    /\ UNCHANGED <<is_audio, phase, tokens, delayed, frames, frame_buffer, sequence, app_rx,
                   bridge, pipeVars>>

\* "Even on error, we still want to allow another request."
retry ==
    /\ loop = "retry"
    /\ tokens < request_size
    /\ tokens' = tokens + 1
    /\ loop' = "recv"
    /\ UNCHANGED <<is_audio, phase, delayed, frames, errors, frame_buffer, sequence, app_rx,
                   bridge, pipeVars>>

\* Mutant of send_chunk: the next token is sent at once, too.
SendChunkTwoTokens ==
    /\ ~is_audio /\ loop = "send"
    /\ Len(app_rx) < app_size
    /\ app_rx' = Append(app_rx, frame_buffer)
    /\ frame_buffer' = Nobody
    /\ loop' = "retry"
    /\ delayed' = delayed + 1
    /\ UNCHANGED <<is_audio, phase, tokens, frames, errors, sequence, bridge, pipeVars>>

send_chunk ==
    /\ ~is_audio /\ loop = "send"
    /\ Len(app_rx) < app_size
    /\ app_rx' = Append(app_rx, frame_buffer)
    /\ frame_buffer' = Nobody
    /\ loop' = "recv"
    /\ delayed' = delayed + 1
    /\ UNCHANGED <<is_audio, phase, tokens, frames, errors, sequence, bridge, pipeVars>>

send_request ==
    /\ delayed > 0
    /\ tokens < request_size
    /\ delayed' = delayed - 1
    /\ tokens' = tokens + 1
    /\ UNCHANGED <<is_audio, phase, loop, frames, errors, frame_buffer, sequence, app_rx,
                   bridge, pipeVars>>

-----------------------------------------------------------------------------
(* stream_audio numbers its objects itself.                                *)

next_audio_frame ==
    /\ is_audio /\ loop = "next"
    /\ frames < MaxFrames
    /\ frames' = frames + 1
    /\ frame_buffer' = Object(sequence, MEDIA_TYPE_AUDIO, 128)
    /\ loop' = "send"
    /\ UNCHANGED <<is_audio, phase, tokens, delayed, errors, sequence, app_rx,
                   bridge, pipeVars>>

end_of_file ==
    /\ is_audio /\ loop = "next"
    /\ frames = MaxFrames
    /\ frames' = frames + 1
    /\ frame_buffer' = EosObject(sequence)
    /\ loop' = "send"
    /\ UNCHANGED <<is_audio, phase, tokens, delayed, errors, sequence, app_rx,
                   bridge, pipeVars>>

\* Any other error ends the stream without an end marker.
audio_fails ==
    /\ is_audio /\ loop = "next"
    /\ errors < MaxErrors
    /\ errors' = errors + 1
    /\ loop' = "done"
    /\ UNCHANGED <<is_audio, phase, tokens, delayed, frames, frame_buffer, sequence, app_rx,
                   bridge, pipeVars>>

send_audio ==
    /\ is_audio /\ loop = "send"
    /\ Len(app_rx) < app_size
    /\ app_rx' = Append(app_rx, frame_buffer)
    /\ frame_buffer' = Nobody
    /\ IF frame_buffer.group_id = MEDIA_TYPE_EOF
       THEN loop' = "done" /\ UNCHANGED sequence
       ELSE loop' = "next" /\ sequence' = sequence + 1
    /\ UNCHANGED <<is_audio, phase, tokens, delayed, frames, errors, bridge, pipeVars>>

-----------------------------------------------------------------------------
(* The bridge makes objects of video chunks, and passes audio objects on.  *)

\* Mutant of bridge_recv: the numbers start over with every key frame.
BridgeRenumbering ==
    /\ bridge = Nobody /\ app_rx # <<>>
    /\ app_rx' = Tail(app_rx)
    /\ IF is_audio
       THEN bridge' = Head(app_rx) /\ UNCHANGED sequence
       ELSE LET n == IF Head(app_rx).is_keyframe THEN 1 ELSE sequence
            IN  /\ bridge' = Object(n, MEDIA_TYPE_VIDEO,
                                    IF Head(app_rx).is_keyframe THEN 255 ELSE 128)
                /\ sequence' = n + 1
    /\ UNCHANGED <<phase, loopVars, pipeVars>>

bridge_recv ==
    /\ bridge = Nobody /\ app_rx # <<>>
    /\ app_rx' = Tail(app_rx)
    /\ IF is_audio
       THEN bridge' = Head(app_rx) /\ UNCHANGED sequence
       ELSE /\ bridge' = Object(sequence, MEDIA_TYPE_VIDEO,
                                IF Head(app_rx).is_keyframe THEN 255 ELSE 128)
            /\ sequence' = sequence + 1
    /\ UNCHANGED <<phase, loopVars, pipeVars>>

\* Mutant of bridge_send: try_send, a full channel drops the object.
BridgeSendOrDrop ==
    /\ bridge # Nobody
    /\ object_rx' = IF Len(object_rx) < object_size THEN Append(object_rx, bridge)
                                                   ELSE object_rx
    /\ bridge' = Nobody
    /\ UNCHANGED <<phase, loopVars, sequence, app_rx, forwarder, cmd_rx, arrived>>

bridge_send ==
    /\ bridge # Nobody
    /\ Len(object_rx) < object_size
    /\ object_rx' = Append(object_rx, bridge)
    /\ bridge' = Nobody
    /\ UNCHANGED <<phase, loopVars, sequence, app_rx, forwarder, cmd_rx, arrived>>

forwarder_recv ==
    /\ forwarder = Nobody /\ object_rx # <<>>
    /\ forwarder' = Head(object_rx)
    /\ object_rx' = Tail(object_rx)
    /\ UNCHANGED <<phase, loopVars, sequence, app_rx, bridge, cmd_rx, arrived>>

forwarder_send ==
    /\ forwarder # Nobody
    /\ Len(cmd_rx) < cmd_size
    /\ cmd_rx' = Append(cmd_rx, forwarder)
    /\ forwarder' = Nobody
    /\ UNCHANGED <<phase, loopVars, sequence, app_rx, bridge, object_rx, arrived>>

\* The stream actor takes a command.
actor_recv ==
    /\ cmd_rx # <<>>
    /\ arrived' = Append(arrived, Head(cmd_rx))
    /\ cmd_rx' = Tail(cmd_rx)
    /\ UNCHANGED <<phase, loopVars, sequence, app_rx, bridge, object_rx, forwarder>>

-----------------------------------------------------------------------------
Loop ==
    \/ recv_request \/ next_frame \/ next_frame_fails \/ retry \/ send_chunk
    \/ next_audio_frame \/ end_of_file \/ audio_fails \/ send_audio

PublisherNext ==
    \/ send_init \/ announce
    \/ Loop \/ send_request
    \/ bridge_recv \/ bridge_send
    \/ forwarder_recv \/ forwarder_send
    \/ actor_recv

PublisherSpec == PublisherInit /\ [][PublisherNext]_publisherVars

-----------------------------------------------------------------------------
(* Properties                                                              *)

\* The pull loop never has to wait on its own request channel, which it alone
\* empties (video.rs:165): one token is under way at a time, so at most one
\* frame per turn is taken from the source.
OneRequestUnderWay ==
    ~is_audio /\ phase = "streaming" =>
        tokens + delayed + (IF loop = "recv" THEN 0 ELSE 1) = 1

\* What reaches the actor is numbered without a gap from 0, the init segment
\* first, whatever errors the source gives in between; key frames keep
\* their distance, as priority 255, and nothing follows the end marker of an
\* audio stream.
ArrivesNumbered ==
    \A i \in 1..Len(arrived) :
        LET o == arrived[i]
            key == (i - 2) % keyframe_interval = 0
        IN  /\ o.sequence = i - 1
            /\ i = 1 <=> o = InitObject
            /\ ~is_audio /\ i > 1 => o = Object(i - 1, MEDIA_TYPE_VIDEO,
                                                IF key THEN 255 ELSE 128)
            /\ i < Len(arrived) => o.group_id # MEDIA_TYPE_EOF

\* Every frame the source has yielded comes to the actor.
FramesArrive ==
    \A n \in 1..MaxFrames : frames >= n ~> Len(arrived) > n
=============================================================================
