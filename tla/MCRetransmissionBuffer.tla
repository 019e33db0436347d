----------------------- MODULE MCRetransmissionBuffer -----------------------
(* An instance of RetransmissionBuffer for TLC.                            *)
EXTENDS RetransmissionBuffer

NoneValue == [sequence |-> 0, group_id |-> MEDIA_TYPE_INIT, priority |-> 0, size |-> 0]

Media(sequence, priority, size) ==
    [sequence |-> sequence, group_id |-> MEDIA_TYPE_VIDEO,
     priority |-> priority, size |-> size]

InitObject == [sequence |-> 0, group_id |-> MEDIA_TYPE_INIT,
               priority |-> 255, size |-> 1]

\* Key frames (255) and delta frames (128) of two sizes, one object that is
\* larger than the whole buffer, and one sequence number that
\* occurs with both priorities, as a duplicate that `add` must ignore.
MixedObjects ==
    {InitObject, Media(1, 255, 1), Media(2, 128, 2), Media(3, 128, 1),
     Media(3, 255, 2), Media(4, 255, 2), Media(5, 100, 7)}

\* What publish_video_stream sends: a key frame and delta frames.
FrameObjects ==
    {Media(1, 255, 1), Media(2, 128, 1), Media(3, 128, 1), Media(4, 128, 1)}
=============================================================================
