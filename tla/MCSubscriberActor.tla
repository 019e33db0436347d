-------------------------- MODULE MCSubscriberActor --------------------------
(* Instances of SubscriberActor for TLC.                                   *)
EXTENDS SubscriberActor

Object(sequence, group_id) == [sequence |-> sequence, group_id |-> group_id]

\* An init segment, chunks of both media, an end marker, and the init
\* segment and chunk of a stream that goes on after it.
MixedStream ==
    <<Object(0, MEDIA_TYPE_INIT), Object(1, MEDIA_TYPE_VIDEO),
      Object(2, MEDIA_TYPE_AUDIO), Object(3, MEDIA_TYPE_VIDEO),
      Object(4, MEDIA_TYPE_EOF), Object(5, MEDIA_TYPE_INIT),
      Object(6, MEDIA_TYPE_VIDEO)>>

ShortStream == SubSeq(MixedStream, 1, 4)

\* No failure, no end of a stream, and an application that keeps receiving.
Undisturbed ==
    /\ reachable /\ ~lost
    /\ "done" \notin {control_reader, data_reader}
    /\ init_open /\ chunk_open

\* An undisturbed subscription is handled to the last object, with every
\* queue at its limit: no task waits for another in a circle
\* (subscriber.rs:250, 352, 440, 531, 591).
DeliversAll == []Undisturbed => <>(processed = Len(Stream))
=============================================================================
