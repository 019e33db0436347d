----------------------------- MODULE MCPublishing -----------------------------
(* Instances of Publishing for TLC.                                        *)
EXTENDS Publishing, TLC

\* The published stream with a subscriber and its data stream, and a
\* subscription to a stream this node does not have.
FullCalls ==
    "register" :> "register_stream" @@ "sub" :> "subscribe_to_stream" @@
    "data" :> "send_command" @@ "stray" :> "subscribe_to_stream"
FullStreams ==
    "register" :> "video" @@ "sub" :> "video" @@ "data" :> "video" @@ "stray" :> "other"
FullTasks == DOMAIN FullCalls
=============================================================================
