---------------------------- MODULE MCStreamActor ----------------------------
(* Instances of StreamActor for TLC.                                       *)
EXTENDS StreamActor, TLC

NoneValue == [sequence |-> 0, group_id |-> MEDIA_TYPE_INIT, priority |-> 0, size |-> 0]

Object(sequence, group_id, priority) ==
    [sequence |-> sequence, group_id |-> group_id, priority |-> priority, size |-> 1]

\* As publish_video_stream numbers them: the init segment, a key frame, two
\* delta frames; and the end marker of an audio stream.
Stream == <<Object(0, MEDIA_TYPE_INIT, 255), Object(1, MEDIA_TYPE_VIDEO, 255),
            Object(2, MEDIA_TYPE_VIDEO, 128), Object(3, MEDIA_TYPE_VIDEO, 128),
            Object(4, MEDIA_TYPE_EOF, 255)>>
VideoStream == SubSeq(Stream, 1, 4)
ShortStream == SubSeq(Stream, 1, 3)

VideoObjects == Elements(VideoStream)
ShortObjects == Elements(ShortStream)

\* A session for every group and one for video only, from two nodes, and
\* another session of the first node.
TwoNodes == "a" :> "n1" @@ "b" :> "n2"
AllAndVideo == "a" :> 0 @@ "b" :> MEDIA_TYPE_VIDEO
SharedNode == TwoNodes @@ "c" :> "n1"
WithThird == AllAndVideo @@ "c" :> 0
=============================================================================
