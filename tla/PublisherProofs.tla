--------------------------- MODULE PublisherProofs ---------------------------
(***************************************************************************)
(* Theorems about Publisher, for every capacity of its channels and every  *)
(* number of frames and errors; about StreamRegistry, where streams are    *)
(* published, for every set of tasks and streams, every number of workers  *)
(* and every capacity of the queues; and about Publishing, which joins     *)
(* them.                                                                   *)
(***************************************************************************)
EXTENDS Publishing, SequenceTheorems, TLAPS

\* Where the one request of the video loop is: in the request channel, with a
\* delayed task, or with the loop; nowhere before the loop is started.
Underway == tokens + delayed + (IF loop = "recv" THEN 0 ELSE 1)

RequestInv ==
    /\ tokens \in Nat /\ delayed \in Nat
    /\ ~is_audio /\ phase = "streaming" => Underway = 1
    /\ ~is_audio /\ phase # "streaming" => Underway = 0

LEMMA InitRequestInv == PublisherInit => RequestInv
  BY DEF PublisherInit, RequestInv, Underway

\* The steps of the video loop and of its delayed task hand the request on.
LEMMA LoopRequestInv ==
    ASSUME RequestInv, Loop \/ send_request
    PROVE  RequestInv'
<1> USE DEF RequestInv, Underway
<1>1. CASE recv_request
  BY <1>1 DEF recv_request
<1>2. CASE next_frame
  BY <1>2 DEF next_frame
<1>3. CASE next_frame_fails
  BY <1>3 DEF next_frame_fails
<1>4. CASE retry
  BY <1>4 DEF retry
<1>5. CASE send_chunk
  BY <1>5 DEF send_chunk
<1>6. CASE next_audio_frame \/ end_of_file \/ audio_fails \/ send_audio
  BY <1>6 DEF next_audio_frame, end_of_file, audio_fails, send_audio
<1>7. CASE send_request
  BY <1>7 DEF send_request
<1> QED
  BY <1>1, <1>2, <1>3, <1>4, <1>5, <1>6, <1>7 DEF Loop

\* The other tasks do not touch it, but announce, which makes it.
LEMMA NextRequestInv == RequestInv /\ [PublisherNext]_publisherVars => RequestInv'
<1> SUFFICES ASSUME RequestInv, [PublisherNext]_publisherVars PROVE RequestInv'
  OBVIOUS
<1>1. CASE Loop \/ send_request
  BY <1>1, LoopRequestInv
<1>2. CASE send_init
  BY <1>2 DEF send_init, loopVars, RequestInv, Underway
<1>3. CASE announce
  BY <1>3 DEF announce, RequestInv, Underway
<1>4. CASE bridge_recv \/ bridge_send
  BY <1>4 DEF bridge_recv, bridge_send, loopVars, RequestInv, Underway
<1>5. CASE forwarder_recv \/ forwarder_send \/ actor_recv
  BY <1>5 DEF forwarder_recv, forwarder_send, actor_recv, loopVars, RequestInv, Underway
<1>6. CASE UNCHANGED publisherVars
  BY <1>6 DEF publisherVars, loopVars, RequestInv, Underway
<1> QED
  BY <1>1, <1>2, <1>3, <1>4, <1>5, <1>6 DEF PublisherNext

\* One frame at a time is under way from the video source: the loop never
\* waits for room in its own request channel, which it alone empties
\* (video.rs:154-209), whatever the source does.
THEOREM OneRequestAlways == PublisherSpec => []OneRequestUnderWay
<1>1. RequestInv => OneRequestUnderWay
  BY DEF RequestInv, OneRequestUnderWay, Underway
<1> QED
  BY <1>1, InitRequestInv, NextRequestInv, PTL DEF PublisherSpec

-----------------------------------------------------------------------------
(* Numbering.  A place in the stream has one object that can stand there,  *)
(* and every channel and task of the pipeline holds the objects of the     *)
(* places behind those further down.                                       *)

Kinds == {"video", "audio", "chunk"}

\* The object of a video or audio stream at a place, counted from 0, or the
\* chunk of which the bridge will make it.
ItemAt(kind, place) ==
    IF kind = "chunk" THEN [is_keyframe |-> (place - 1) % keyframe_interval = 0]
    ELSE IF place = 0 THEN InitObject
    ELSE IF kind = "video"
         THEN Object(place, MEDIA_TYPE_VIDEO,
                     IF (place - 1) % keyframe_interval = 0 THEN 255 ELSE 128)
    ELSE IF place <= MaxFrames THEN Object(place, MEDIA_TYPE_AUDIO, 128)
    ELSE EosObject(place)

Items == {ItemAt(k, n) : k \in Kinds, n \in Nat}

\* The channel q holds the items from a place on.
Run(q, kind, place) ==
    /\ q \in Seq(Items)
    /\ \A i \in 1..Len(q) : q[i] = ItemAt(kind, place + i - 1)

Held(item) == IF item = Nobody THEN 0 ELSE 1

AtCmd == Len(arrived)
AtForwarder == AtCmd + Len(cmd_rx)
AtObject == AtForwarder + Held(forwarder)
AtBridge == AtObject + Len(object_rx)
AtApp == AtBridge + Held(bridge)
AtLoop == AtApp + Len(app_rx)

ObjectKind == IF is_audio THEN "audio" ELSE "video"
AppKind == IF is_audio THEN "audio" ELSE "chunk"

PipeInv ==
    /\ Run(arrived, ObjectKind, 0)
    /\ Run(cmd_rx, ObjectKind, AtCmd)
    /\ forwarder \in {Nobody, ItemAt(ObjectKind, AtForwarder)}
    /\ Run(object_rx, ObjectKind, AtObject)
    /\ bridge \in {Nobody, ItemAt(ObjectKind, AtBridge)}
    /\ Run(app_rx, AppKind, AtApp)
    /\ frame_buffer \in {Nobody, ItemAt(AppKind, AtLoop)}

\* The counters of the loop and the bridge are at their places.
CountInv ==
    /\ is_audio \in BOOLEAN /\ sequence \in Nat /\ frames \in 0..(MaxFrames + 1)
    /\ frame_buffer # Nobody <=> loop = "send"
    /\ phase # "streaming" => loop = "recv"
    /\ phase = "register" => AtLoop = 0 /\ frames = 0 /\ sequence = 1
    /\ phase # "register" =>
        /\ AtApp >= 1 /\ AtLoop + Held(frame_buffer) = frames + 1
        /\ is_audio /\ loop # "done" => sequence = AtLoop
        /\ ~is_audio => sequence = AtApp

NumberInv == PipeInv /\ CountInv

LEMMA ItemSomebody ==
    ASSUME NEW kind \in Kinds, NEW place \in Nat
    PROVE  ItemAt(kind, place) \in Items /\ ItemAt(kind, place) # Nobody
<1>1. ItemAt(kind, place) \in [sequence : Nat, group_id : MediaTypes, priority : Nat]
                              \cup [is_keyframe : BOOLEAN]
  BY DEF ItemAt, InitObject, EosObject, Object, MediaTypes, MEDIA_TYPE_INIT,
     MEDIA_TYPE_VIDEO, MEDIA_TYPE_AUDIO, MEDIA_TYPE_EOF
<1> QED
  BY <1>1, NobodyAssumption DEF Items

\* A channel from which an item is taken, and one to which its next is sent.
LEMMA RunTail ==
    ASSUME NEW kind, NEW place \in Nat, NEW q, Run(q, kind, place), q # <<>>
    PROVE  /\ Head(q) = ItemAt(kind, place)
           /\ Len(q) \in Nat \ {0} /\ Len(Tail(q)) = Len(q) - 1
           /\ Run(Tail(q), kind, place + 1)
<1>1. q \in Seq(Items) /\ Len(q) \in Nat \ {0} /\ Head(q) = q[1]
  BY DEF Run
<1>2. /\ Tail(q) \in Seq(Items) /\ Len(Tail(q)) = Len(q) - 1
      /\ \A i \in 1..Len(Tail(q)) : Tail(q)[i] = q[i + 1]
  BY <1>1
<1> QED
  BY <1>1, <1>2 DEF Run

LEMMA RunAppend ==
    ASSUME NEW kind \in Kinds, NEW place \in Nat, NEW q, Run(q, kind, place),
           NEW item, item = ItemAt(kind, place + Len(q))
    PROVE  /\ Len(q) \in Nat /\ Len(Append(q, item)) = Len(q) + 1
           /\ Run(Append(q, item), kind, place)
<1>1. q \in Seq(Items) /\ Len(q) \in Nat
  BY DEF Run
<1>2. item \in Items
  BY <1>1, ItemSomebody
<1> QED
  BY <1>1, <1>2 DEF Run

PlaceType ==
    /\ ObjectKind \in Kinds /\ AppKind \in Kinds
    /\ Len(arrived) \in Nat /\ Len(cmd_rx) \in Nat /\ Len(object_rx) \in Nat
    /\ Len(app_rx) \in Nat
    /\ AtCmd \in Nat /\ AtForwarder \in Nat /\ AtObject \in Nat
    /\ AtBridge \in Nat /\ AtApp \in Nat /\ AtLoop \in Nat

LEMMA Places == ASSUME NumberInv PROVE PlaceType
<1>1. Len(arrived) \in Nat /\ Len(cmd_rx) \in Nat /\ Len(object_rx) \in Nat
      /\ Len(app_rx) \in Nat
  BY DEF NumberInv, PipeInv, Run
<1> QED
  BY <1>1 DEF PlaceType, NumberInv, CountInv, Kinds, ObjectKind, AppKind, Held, AtCmd, AtForwarder,
     AtObject, AtBridge, AtApp, AtLoop

LEMMA InitNumberInv == PublisherInit => NumberInv
  BY PublisherAssumption DEF PublisherInit, NumberInv, PipeInv, CountInv, Run, Held, AtCmd,
     AtForwarder, AtObject, AtBridge, AtApp, AtLoop

\* Handing an item on does not change the places behind it.
LEMMA ActorNumberInv == ASSUME NumberInv, actor_recv PROVE NumberInv'
<1>0. PlaceType
  BY Places
<1>1. /\ Run(Tail(cmd_rx), ObjectKind, AtCmd + 1)
      /\ Len(Tail(cmd_rx)) = Len(cmd_rx) - 1
      /\ Run(Append(arrived, Head(cmd_rx)), ObjectKind, 0)
      /\ Len(Append(arrived, Head(cmd_rx))) = Len(arrived) + 1
  <2>1. /\ Head(cmd_rx) = ItemAt(ObjectKind, AtCmd)
        /\ Run(Tail(cmd_rx), ObjectKind, AtCmd + 1) /\ Len(Tail(cmd_rx)) = Len(cmd_rx) - 1
    BY <1>0, RunTail DEF PlaceType, actor_recv, NumberInv, PipeInv
  <2>2. 0 + Len(arrived) = AtCmd
    BY <1>0 DEF PlaceType, AtCmd
  <2>3. Run(arrived, ObjectKind, 0) /\ Head(cmd_rx) = ItemAt(ObjectKind, 0 + Len(arrived))
    BY <2>1, <2>2 DEF NumberInv, PipeInv
  <2>4. /\ Len(Append(arrived, Head(cmd_rx))) = Len(arrived) + 1
        /\ Run(Append(arrived, Head(cmd_rx)), ObjectKind, 0)
    <3>1. ObjectKind \in Kinds /\ 0 \in Nat
      BY <1>0 DEF PlaceType
    <3> QED
      BY <2>3, <3>1, RunAppend, Zenon
  <2> QED
    BY <2>1, <2>4
<1>2. /\ arrived' = Append(arrived, Head(cmd_rx)) /\ cmd_rx' = Tail(cmd_rx)
      /\ UNCHANGED <<is_audio, phase, loop, frames, frame_buffer, sequence, app_rx, bridge,
                     object_rx, forwarder>>
  BY DEF actor_recv, loopVars
<1>3. /\ AtCmd' = AtCmd + 1 /\ UNCHANGED <<ObjectKind, AppKind>>
      /\ UNCHANGED <<AtForwarder, AtObject, AtBridge, AtApp, AtLoop>>
  <2>1. Len(arrived') = Len(arrived) + 1 /\ Len(cmd_rx') = Len(cmd_rx) - 1
    BY <1>1, <1>2
  <2>2. AtCmd' = AtCmd + 1 /\ UNCHANGED <<AtForwarder, ObjectKind, AppKind>>
    BY <2>1, <1>0, <1>2 DEF PlaceType, AtCmd, AtForwarder, ObjectKind, AppKind
  <2> QED
    BY <2>2, <1>2 DEF AtObject, AtBridge, AtApp, AtLoop
<1> QED
  BY <1>1, <1>2, <1>3 DEF NumberInv, PipeInv, CountInv

LEMMA ForwarderNumberInv ==
    ASSUME NumberInv, forwarder_recv \/ forwarder_send
    PROVE  NumberInv'
<1>0. PlaceType
  BY Places
<1>1. CASE forwarder_recv
  <2>1. /\ Head(object_rx) = ItemAt(ObjectKind, AtObject)
        /\ Head(object_rx) # Nobody
        /\ Run(Tail(object_rx), ObjectKind, AtObject + 1)
        /\ Len(Tail(object_rx)) = Len(object_rx) - 1
    BY <1>0, <1>1, RunTail, ItemSomebody DEF PlaceType, forwarder_recv, NumberInv, PipeInv
  <2>2. /\ forwarder = Nobody /\ forwarder' = Head(object_rx) /\ object_rx' = Tail(object_rx)
        /\ UNCHANGED <<is_audio, phase, loop, frames, frame_buffer, sequence, app_rx, bridge,
                       cmd_rx, arrived>>
    BY <1>1 DEF forwarder_recv, loopVars
  <2>3. /\ AtObject' = AtObject + 1 /\ AtForwarder = AtObject
        /\ UNCHANGED <<ObjectKind, AppKind, AtCmd, AtForwarder, AtBridge, AtApp, AtLoop>>
    <3>1. Len(object_rx') = Len(object_rx) - 1
      BY <2>1, <2>2
    <3>2. UNCHANGED <<ObjectKind, AppKind, AtCmd, AtForwarder>>
      BY <2>2 DEF ObjectKind, AppKind, AtCmd, AtForwarder
    <3>3. AtObject' = AtObject + 1 /\ AtForwarder = AtObject
      BY <2>1, <2>2, <3>2, <1>0 DEF PlaceType, AtObject, Held
    <3>4. UNCHANGED AtBridge
      BY <3>1, <3>3, <1>0 DEF PlaceType, AtBridge
    <3> QED
      BY <2>2, <3>2, <3>3, <3>4 DEF AtApp, AtLoop
  <2> QED
    BY <2>1, <2>2, <2>3 DEF NumberInv, PipeInv, CountInv
<1>2. CASE forwarder_send
  <2>1. forwarder = ItemAt(ObjectKind, AtForwarder)
    BY <1>2 DEF forwarder_send, NumberInv, PipeInv
  <2>2. /\ Run(Append(cmd_rx, forwarder), ObjectKind, AtCmd)
        /\ Len(Append(cmd_rx, forwarder)) = Len(cmd_rx) + 1
    BY <2>1, <1>0, RunAppend DEF PlaceType, NumberInv, PipeInv, AtForwarder
  <2>3. /\ forwarder # Nobody /\ forwarder' = Nobody /\ cmd_rx' = Append(cmd_rx, forwarder)
        /\ UNCHANGED <<is_audio, phase, loop, frames, frame_buffer, sequence, app_rx, bridge,
                       object_rx, arrived>>
    BY <1>2 DEF forwarder_send, loopVars
  <2>4. /\ AtForwarder' = AtForwarder + 1
        /\ UNCHANGED <<ObjectKind, AppKind, AtCmd, AtObject, AtBridge, AtApp, AtLoop>>
    BY <2>2, <2>3, <1>0 DEF PlaceType, AtCmd, AtForwarder, AtObject, AtBridge, AtApp, AtLoop, Held,
       ObjectKind, AppKind
  <2> QED
    BY <2>2, <2>3, <2>4 DEF NumberInv, PipeInv, CountInv
<1> QED
  BY <1>1, <1>2

\* The bridge gives a chunk the number of its place.
LEMMA BridgeNumberInv ==
    ASSUME NumberInv, bridge_recv \/ bridge_send
    PROVE  NumberInv'
<1>0. PlaceType
  BY Places
<1>1. CASE bridge_recv
  <2>1. /\ Head(app_rx) = ItemAt(AppKind, AtApp)
        /\ Run(Tail(app_rx), AppKind, AtApp + 1)
        /\ Len(Tail(app_rx)) = Len(app_rx) - 1 /\ Len(app_rx) > 0
    BY <1>0, <1>1, RunTail DEF PlaceType, bridge_recv, NumberInv, PipeInv
  <2>2. /\ bridge = Nobody /\ app_rx' = Tail(app_rx)
        /\ UNCHANGED <<is_audio, phase, loop, frames, frame_buffer, object_rx, forwarder,
                       cmd_rx, arrived>>
    BY <1>1 DEF bridge_recv, loopVars, pipeVars
  <2>3. AtApp = AtBridge /\ AtLoop > 0
    BY <2>1, <2>2, <1>0 DEF PlaceType, AtApp, AtLoop, Held
  <2>4. AtApp >= 1 /\ (~is_audio => sequence = AtApp)
    BY <2>3 DEF NumberInv, CountInv
  <2>5. bridge' = ItemAt(ObjectKind, AtBridge)
    <3>1. CASE is_audio
      BY <1>1, <2>1, <2>3, <3>1 DEF bridge_recv, ObjectKind, AppKind
    <3>2. CASE ~is_audio
      <4>1. Head(app_rx).is_keyframe <=> (AtApp - 1) % keyframe_interval = 0
        <5>1. Head(app_rx) = [is_keyframe |-> (AtApp - 1) % keyframe_interval = 0]
          BY <2>1, <3>2 DEF AppKind, ItemAt
        <5>2. CASE (AtApp - 1) % keyframe_interval = 0
          <6>1. Head(app_rx) = [is_keyframe |-> TRUE]
            BY <5>1, <5>2
          <6> QED
            BY <5>2, <6>1
        <5>3. CASE (AtApp - 1) % keyframe_interval # 0
          <6>1. Head(app_rx) = [is_keyframe |-> FALSE]
            BY <5>1, <5>3
          <6> QED
            BY <5>3, <6>1
        <5> QED
          BY <5>2, <5>3
      <4> QED
        BY <1>0, <1>1, <2>3, <2>4, <3>2, <4>1 DEF PlaceType, bridge_recv, ObjectKind, ItemAt
    <3> QED
      BY <3>1, <3>2
  <2>6. bridge' # Nobody
    BY <2>5, <1>0, ItemSomebody DEF PlaceType
  <2>7. /\ AtApp' = AtApp + 1
        /\ UNCHANGED <<ObjectKind, AppKind, AtCmd, AtForwarder, AtObject, AtBridge, AtLoop>>
    <3>1. UNCHANGED <<ObjectKind, AppKind, AtCmd, AtForwarder, AtObject, AtBridge>>
      BY <2>2 DEF ObjectKind, AppKind, AtCmd, AtForwarder, AtObject, AtBridge
    <3>2. AtApp' = AtApp + 1
      BY <3>1, <2>3, <2>6, <1>0 DEF PlaceType, AtApp, Held
    <3>3. Len(app_rx') = Len(app_rx) - 1
      BY <2>1, <2>2
    <3> QED
      BY <3>1, <3>2, <3>3, <1>0 DEF PlaceType, AtLoop
  <2>8. sequence' = IF is_audio THEN sequence ELSE sequence + 1
    BY <1>1 DEF bridge_recv
  <2>9. PipeInv'
    BY <2>1, <2>2, <2>5, <2>7 DEF NumberInv, PipeInv
  <2>10. CountInv'
    BY <2>2, <2>3, <2>4, <2>7, <2>8, <1>0 DEF PlaceType, NumberInv, CountInv
  <2> QED
    BY <2>9, <2>10 DEF NumberInv
<1>2. CASE bridge_send
  <2>1. bridge = ItemAt(ObjectKind, AtObject + Len(object_rx))
    BY <1>2 DEF bridge_send, NumberInv, PipeInv, AtBridge
  <2>2. /\ Run(Append(object_rx, bridge), ObjectKind, AtObject)
        /\ Len(Append(object_rx, bridge)) = Len(object_rx) + 1
    BY <2>1, <1>0, RunAppend DEF PlaceType, NumberInv, PipeInv
  <2>3. /\ bridge # Nobody /\ bridge' = Nobody /\ object_rx' = Append(object_rx, bridge)
        /\ UNCHANGED <<is_audio, phase, loop, frames, frame_buffer, sequence, app_rx,
                       forwarder, cmd_rx, arrived>>
    BY <1>2 DEF bridge_send, loopVars
  <2>4. /\ AtBridge' = AtBridge + 1
        /\ UNCHANGED <<ObjectKind, AppKind, AtCmd, AtForwarder, AtObject, AtApp, AtLoop>>
    <3>1. UNCHANGED <<ObjectKind, AppKind, AtCmd, AtForwarder, AtObject>>
      BY <2>3 DEF ObjectKind, AppKind, AtCmd, AtForwarder, AtObject
    <3>2. Len(object_rx') = Len(object_rx) + 1
      BY <2>2, <2>3
    <3>3. AtBridge' = AtBridge + 1
      BY <3>1, <3>2, <1>0 DEF PlaceType, AtBridge
    <3>4. UNCHANGED AtApp
      BY <3>3, <2>3, <1>0 DEF PlaceType, AtApp, Held
    <3> QED
      BY <3>1, <3>3, <3>4, <2>3 DEF AtLoop
  <2> QED
    BY <2>2, <2>3, <2>4 DEF NumberInv, PipeInv, CountInv
<1> QED
  BY <1>1, <1>2

\* The loop numbers what it sends, or the bridge will, by the frames that the
\* source has yielded; its errors leave no gap.
LEMMA LoopNumberInv ==
    ASSUME NumberInv, Loop \/ send_request \/ announce
    PROVE  NumberInv'
<1>0. PlaceType
  BY Places
<1>1. ASSUME UNCHANGED <<is_audio, bridge, pipeVars>>
      PROVE  UNCHANGED <<ObjectKind, AppKind, AtCmd, AtForwarder, AtObject, AtBridge, AtApp>>
  BY <1>1 DEF pipeVars, ObjectKind, AppKind, AtCmd, AtForwarder, AtObject, AtBridge, AtApp
<1>2. ASSUME UNCHANGED <<is_audio, bridge, pipeVars, app_rx>> PROVE UNCHANGED AtLoop
  BY <1>1, <1>2 DEF AtLoop
<1>3. CASE announce \/ recv_request \/ next_frame_fails \/ retry \/ audio_fails
  <2>1. /\ UNCHANGED <<is_audio, bridge, pipeVars, app_rx, frames, frame_buffer, sequence>>
        /\ loop # "send" /\ loop' # "send" /\ loop # "done"
        /\ phase # "register" /\ phase' # "register"
        /\ phase' # "streaming" => loop' = "recv"
    BY <1>3 DEF NumberInv, CountInv, announce, recv_request, next_frame_fails, retry,
       audio_fails
  <2>2. PipeInv'
    BY <2>1, <1>1, <1>2 DEF NumberInv, PipeInv, pipeVars
  <2>3. CountInv'
    BY <2>1, <1>1, <1>2 DEF NumberInv, CountInv
  <2> QED
    BY <2>2, <2>3 DEF NumberInv
<1>4. CASE send_request
  <2>1. UNCHANGED <<is_audio, bridge, pipeVars, app_rx, frames, frame_buffer, sequence, loop,
                    phase>>
    BY <1>4 DEF send_request
  <2>2. PipeInv'
    BY <2>1, <1>1, <1>2 DEF NumberInv, PipeInv, pipeVars
  <2>3. CountInv'
    BY <2>1, <1>1, <1>2 DEF NumberInv, CountInv
  <2> QED
    BY <2>2, <2>3 DEF NumberInv
<1>5. CASE next_frame \/ next_audio_frame \/ end_of_file
  <2>1. /\ UNCHANGED <<is_audio, bridge, pipeVars, app_rx, sequence, phase>>
        /\ loop = "next" /\ loop' = "send" /\ frames' = frames + 1 /\ frames' \in 0..(MaxFrames + 1)
        /\ frame_buffer = Nobody /\ phase = "streaming"
    BY <1>5, PublisherAssumption DEF NumberInv, CountInv, next_frame, next_audio_frame,
       end_of_file
  <2>2. AtLoop = frames + 1 /\ AtLoop # 0 /\ (is_audio => sequence = AtLoop)
    BY <2>1, <1>0 DEF PlaceType, NumberInv, CountInv, Held
  <2>3. frame_buffer' = ItemAt(AppKind, AtLoop)
    <3>1. CASE next_frame
      <4>1. AtLoop - 1 = frames
        BY <2>2 DEF NumberInv, CountInv
      <4> QED
        BY <3>1, <4>1 DEF next_frame, AppKind, ItemAt
    <3>2. CASE next_audio_frame
      <4>1. AtLoop <= MaxFrames
        BY <3>2, <2>2, PublisherAssumption DEF next_audio_frame, NumberInv, CountInv
      <4> QED
        BY <3>2, <4>1, <2>2 DEF next_audio_frame, AppKind, ItemAt
    <3>3. CASE end_of_file
      <4>1. ~(AtLoop <= MaxFrames)
        BY <3>3, <2>2, PublisherAssumption DEF end_of_file, NumberInv, CountInv
      <4> QED
        BY <3>3, <4>1, <2>2 DEF end_of_file, AppKind, ItemAt
    <3> QED
      BY <1>5, <3>1, <3>2, <3>3
  <2>4. frame_buffer' # Nobody
    BY <2>3, <1>0, ItemSomebody DEF PlaceType
  <2>5. UNCHANGED <<ObjectKind, AppKind, AtCmd, AtForwarder, AtObject, AtBridge, AtApp, AtLoop>>
    BY <2>1, <1>1, <1>2
  <2>6. PipeInv'
    BY <2>1, <2>3, <2>5 DEF NumberInv, PipeInv, pipeVars
  <2>7. CountInv'
    BY <2>1, <2>2, <2>4, <2>5, <1>0 DEF PlaceType, NumberInv, CountInv, Held
  <2> QED
    BY <2>6, <2>7 DEF NumberInv
<1>6. CASE send_chunk \/ send_audio
  <2>1. /\ UNCHANGED <<is_audio, bridge, pipeVars, frames, phase>>
        /\ loop = "send" /\ frame_buffer # Nobody /\ frame_buffer' = Nobody
        /\ app_rx' = Append(app_rx, frame_buffer) /\ loop' \in {"recv", "next", "done"}
    BY <1>6 DEF NumberInv, CountInv, send_chunk, send_audio
  <2>2. phase = "streaming"
    BY <2>1 DEF NumberInv, CountInv
  <2>3. frame_buffer = ItemAt(AppKind, AtApp + Len(app_rx))
    BY <2>1 DEF NumberInv, PipeInv, AtLoop
  <2>4. Run(app_rx', AppKind, AtApp) /\ Len(app_rx') = Len(app_rx) + 1
    BY <2>1, <2>3, <1>0, RunAppend DEF PlaceType, NumberInv, PipeInv
  <2>5. UNCHANGED <<ObjectKind, AppKind, AtCmd, AtForwarder, AtObject, AtBridge, AtApp>>
    BY <2>1, <1>1
  <2>6. AtLoop' = AtLoop + 1
    BY <2>4, <2>5, <1>0 DEF PlaceType, AtLoop
  <2>7. /\ ~is_audio => UNCHANGED sequence
        /\ is_audio /\ loop' # "done" => sequence' = sequence + 1
        /\ sequence' \in Nat
    BY <1>6 DEF send_chunk, send_audio, NumberInv, CountInv
  <2>8. PipeInv'
    BY <2>1, <2>4, <2>5 DEF NumberInv, PipeInv, pipeVars
  <2>9. CountInv'
    BY <2>1, <2>2, <2>5, <2>6, <2>7, <1>0 DEF PlaceType, NumberInv, CountInv, Held
  <2> QED
    BY <2>8, <2>9 DEF NumberInv
<1> QED
  BY <1>3, <1>4, <1>5, <1>6 DEF Loop

LEMMA NextNumberInv == NumberInv /\ [PublisherNext]_publisherVars => NumberInv'
<1> SUFFICES ASSUME NumberInv, [PublisherNext]_publisherVars PROVE NumberInv'
  OBVIOUS
<1>0. PlaceType
  BY Places
<1>1. CASE send_init
  <2>1. /\ UNCHANGED <<is_audio, forwarder, cmd_rx, arrived, bridge, app_rx, frames,
                       frame_buffer, sequence, loop>>
        /\ object_rx' = Append(object_rx, InitObject)
        /\ phase = "register" /\ phase' = "announce"
    BY <1>1 DEF send_init, loopVars
  <2>2. UNCHANGED <<ObjectKind, AppKind, AtCmd, AtForwarder, AtObject>>
    BY <2>1 DEF ObjectKind, AppKind, AtCmd, AtForwarder, AtObject
  <2>3. AtLoop = 0 /\ frames = 0 /\ sequence = 1 /\ loop = "recv" /\ frame_buffer = Nobody
    BY <2>1 DEF NumberInv, CountInv
  <2>4. /\ AtObject = 0 /\ AtBridge = 0 /\ AtApp = 0
        /\ Len(object_rx) = 0 /\ Len(app_rx) = 0 /\ bridge = Nobody
    BY <2>3, <1>0 DEF PlaceType, AtBridge, AtApp, AtLoop, Held
  <2>5. InitObject = ItemAt(ObjectKind, AtObject + Len(object_rx))
    BY <2>4 DEF ItemAt, ObjectKind
  <2>6. Run(object_rx', ObjectKind, AtObject) /\ Len(object_rx') = 1
    <3>1. ObjectKind \in Kinds /\ AtObject \in Nat /\ Run(object_rx, ObjectKind, AtObject)
      BY <1>0 DEF PlaceType, NumberInv, PipeInv
    <3>2. /\ Len(Append(object_rx, InitObject)) = Len(object_rx) + 1
          /\ Run(Append(object_rx, InitObject), ObjectKind, AtObject)
      BY <2>5, <3>1, RunAppend, Zenon
    <3> QED
      BY <2>1, <2>4, <3>2
  <2>7. AtBridge' = 1 /\ AtApp' = 1 /\ AtLoop' = 1
    BY <2>1, <2>2, <2>4, <2>6 DEF AtBridge, AtApp, AtLoop, Held
  <2>8. Run(app_rx, AppKind, 1)
    BY <2>4 DEF NumberInv, PipeInv, Run
  <2>9. PipeInv'
    BY <2>1, <2>2, <2>3, <2>4, <2>6, <2>7, <2>8 DEF NumberInv, PipeInv
  <2>10. CountInv'
    BY <2>1, <2>3, <2>7 DEF NumberInv, CountInv, Held
  <2> QED
    BY <2>9, <2>10 DEF NumberInv
<1>2. CASE UNCHANGED publisherVars
  <2>1. UNCHANGED <<ObjectKind, AppKind, AtCmd, AtForwarder, AtObject, AtBridge, AtApp, AtLoop>>
    BY <1>2 DEF publisherVars, loopVars, pipeVars, ObjectKind, AppKind, AtCmd, AtForwarder,
       AtObject, AtBridge, AtApp, AtLoop
  <2> QED
    BY <1>2, <2>1 DEF publisherVars, loopVars, pipeVars, NumberInv, PipeInv, CountInv
<1> QED
  BY <1>1, <1>2, ActorNumberInv, ForwarderNumberInv, BridgeNumberInv, LoopNumberInv
  DEF PublisherNext

\* What reaches the actor is the init segment and then the objects numbered
\* without a gap, the key frames where they belong, and nothing after an end
\* marker (protocol.rs:382-478, 488-563, engine.rs:313-334): for every capacity
\* of the four channels and every pattern of errors of the source.
THEOREM ArrivesAlwaysNumbered == PublisherSpec => []ArrivesNumbered
<1>1. NumberInv => ArrivesNumbered
  <2> SUFFICES ASSUME NumberInv, NEW i \in 1..Len(arrived)
               PROVE  LET o == arrived[i]
                          key == (i - 2) % keyframe_interval = 0
                      IN  /\ o.sequence = i - 1
                          /\ i = 1 <=> o = InitObject
                          /\ ~is_audio /\ i > 1 => o = Object(i - 1, MEDIA_TYPE_VIDEO,
                                                              IF key THEN 255 ELSE 128)
                          /\ i < Len(arrived) => o.group_id # MEDIA_TYPE_EOF
    BY DEF ArrivesNumbered
  <2>0. PlaceType
    BY Places
  <2>1. arrived[i] = ItemAt(ObjectKind, i - 1) /\ i - 1 \in Nat
    BY <2>0 DEF NumberInv, PipeInv, Run, PlaceType
  <2>2. Len(arrived) <= AtLoop
    BY <2>0 DEF PlaceType, AtCmd, AtForwarder, AtObject, AtBridge, AtApp, AtLoop, Held
  <2>3. Len(arrived) <= MaxFrames + 2
    <3>1. MaxFrames \in Nat /\ Len(arrived) \in Nat /\ AtLoop \in Nat
      BY <2>0, PublisherAssumption DEF PlaceType, AtCmd
    <3>2. CASE phase = "register"
      <4>1. AtLoop = 0
        BY <3>2 DEF NumberInv, CountInv
      <4> QED
        BY <2>2, <3>1, <4>1
    <3>3. CASE phase # "register"
      <4>1. /\ frames \in 0..(MaxFrames + 1)
            /\ AtLoop + Held(frame_buffer) = frames + 1
        BY <3>3 DEF NumberInv, CountInv
      <4>2. Held(frame_buffer) \in Nat
        BY DEF Held
      <4>3. AtLoop <= frames + 1
        BY <3>1, <4>1, <4>2
      <4> QED
        BY <2>2, <3>1, <4>1, <4>3
    <3> QED
      BY <3>2, <3>3
  <2>4. i < Len(arrived) => i - 1 <= MaxFrames
    BY <2>0, <2>3, PublisherAssumption DEF PlaceType
  <2>5. CASE i = 1
    BY <2>1, <2>5 DEF ItemAt, ObjectKind, InitObject, Object, MEDIA_TYPE_INIT, MEDIA_TYPE_EOF
  <2>6. CASE i > 1
    <3>1. (i - 1) - 1 = i - 2 /\ i - 1 # 0
      BY <2>6
    <3> QED
      BY <2>1, <2>4, <2>6, <3>1 DEF ItemAt, ObjectKind, InitObject, EosObject, Object,
         MEDIA_TYPE_INIT, MEDIA_TYPE_VIDEO, MEDIA_TYPE_AUDIO, MEDIA_TYPE_EOF
  <2> QED
    BY <2>5, <2>6
<1> QED
  BY <1>1, InitNumberInv, NextNumberInv, PTL DEF PublisherSpec

-----------------------------------------------------------------------------
(* The registry.                                                           *)

Registers(p) == CallOf[p] = "register_stream"

\* Once there is an actor for a published stream, it is its publisher's; the
\* others that have begun a call about the stream began it after that, and
\* none of them is about to insert an actor of its own.
MeetInv ==
    /\ pc \in [Tasks -> {"idle", "found", "insert", "inserted", "done"}]
    /\ DOMAIN actor_of = Tasks
    /\ \A p \in Tasks : Registers(p) =>
        /\ StreamOf[p] \in DOMAIN stream_actors <=> pc[p] = "done"
        /\ pc[p] = "done" => stream_actors[StreamOf[p]] = p
        /\ pc[p] \notin {"found", "inserted"}
        /\ actor_of[p] = p
        /\ \A t \in Tasks \ {p} : StreamOf[t] = StreamOf[p] /\ pc[t] # "idle" =>
            /\ pc[p] = "done" /\ pc[t] \notin {"insert", "inserted"}
            /\ pc[t] = "done" /\ CallOf[t] = "subscribe_to_stream" => actor_of[t] = p

LEMMA InitMeetInv == RegistryInit => MeetInv
  BY DEF RegistryInit, MeetInv

\* Who may call about a published stream, but its publisher, finds it in the
\* map.
LEMMA GetMeetInv == ASSUME MeetInv, NEW u \in Tasks, MayCall(u), get(u) PROVE MeetInv'
<1> USE DEF MeetInv, Registers
<1>1. CASE Registers(u)
  <2>1. StreamOf[u] \notin DOMAIN stream_actors
    BY <1>1 DEF get
  <2>2. pc' = [pc EXCEPT ![u] = "insert"] /\ UNCHANGED <<actor_of, stream_actors>>
    BY <1>1, <2>1 DEF get
  <2> QED
    BY <1>1, <2>1, <2>2, RegisterAssumption DEF get
<1>2. CASE ~Registers(u)
  <2>1. UNCHANGED <<actor_of, stream_actors>>
    BY <1>2 DEF get
  <2>2. pc' \in [Tasks -> {"idle", "found", "insert", "inserted", "done"}]
        /\ \A t \in Tasks \ {u} : pc'[t] = pc[t]
    BY DEF get
  <2>3. ASSUME NEW p \in Tasks, Registers(p), StreamOf[u] = StreamOf[p]
        PROVE  pc[p] = "done" /\ pc'[u] \notin {"insert", "inserted"}
               /\ (pc'[u] = "done" => CallOf[u] # "subscribe_to_stream")
    <3>1. StreamOf[p] \in AnnouncedStreams
      BY <2>3, RegisterAssumption
    <3>2. pc[p] = "done"
      BY <1>2, <2>3, <3>1, RegisterAssumption DEF MayCall, Registered
    <3>3. StreamOf[u] \in DOMAIN stream_actors
      BY <2>3, <3>2
    <3>4. pc' = [pc EXCEPT ![u] = "found"]
      BY <1>2, <3>3 DEF get
    <3> QED
      BY <3>2, <3>4
  <2> QED
    BY <1>2, <2>1, <2>2, <2>3
<1> QED
  BY <1>1, <1>2

LEMMA NextMeetInv == MeetInv /\ [RegistryNext]_registryVars => MeetInv'
<1> SUFFICES ASSUME MeetInv, [RegistryNext]_registryVars PROVE MeetInv'
  OBVIOUS
<1> USE DEF MeetInv, Registers
<1>1. ASSUME NEW u \in Tasks, MayCall(u), get(u) PROVE MeetInv'
  BY <1>1, GetMeetInv
<1>2. ASSUME NEW u \in Tasks, send(u) PROVE MeetInv'
  BY <1>2 DEF send
<1>3. ASSUME NEW u \in Tasks, insert(u) PROVE MeetInv'
  BY <1>3, RegisterAssumption DEF insert
<1>4. ASSUME NEW u \in Tasks, send_first(u) PROVE MeetInv'
  BY <1>4 DEF send_first
<1>5. ASSUME NEW u \in Tasks, publish(u) \/ handle_command(u) PROVE MeetInv'
  BY <1>5 DEF publish, handle_command
<1>6. CASE UNCHANGED registryVars
  BY <1>6 DEF registryVars
<1> QED
  BY <1>1, <1>2, <1>3, <1>4, <1>5, <1>6 DEF RegistryNext

\* Whoever subscribes to a published stream gets to the actor its publisher
\* feeds, and no insert replaces that actor (engine.rs:155-267), though the
\* look into the map and the insert are two steps.
THEOREM PublisherAlwaysMet == RegistrySpec => []SubscribersMeetPublisher
<1>1. MeetInv => SubscribersMeetPublisher
  BY DEF MeetInv, SubscribersMeetPublisher, Registers
<1> QED
  BY <1>1, InitMeetInv, NextMeetInv, PTL DEF RegistrySpec

-----------------------------------------------------------------------------
(* The two joined.                                                         *)

\* The publisher has nothing to announce before its stream is registered.
RegisteredInv ==
    /\ phase # "register" => pc[Registrar] = "done"
    /\ pc \in [Tasks -> {"idle", "found", "insert", "inserted", "done"}]

LEMMA InitRegisteredInv == NodeInit => RegisteredInv
  BY DEF NodeInit, PublisherInit, RegistryInit, RegisteredInv

LEMMA CallSteps ==
    ASSUME NEW t \in Tasks, look_up(t) \/ enter(t) \/ command(t)
    PROVE  /\ UNCHANGED publisherVars
           /\ send(t) \/ insert(t) \/ send_first(t) \/ (Announced(t) /\ get(t))
  BY DEF look_up, enter, command

LEMMA AloneSteps ==
    ASSUME Alone(Prepare) \/ Alone(Loop) \/ Alone(send_request) \/ Alone(Bridge)
           \/ Alone(forwarder_recv)
    PROVE  UNCHANGED registryVars /\ PublisherNext
  BY DEF Alone, Prepare, Bridge, PublisherNext

LEMMA HandleSteps ==
    ASSUME NEW t \in Tasks, handle(t)
    PROVE  handle_command(t) /\ (actor_recv \/ UNCHANGED publisherVars)
  BY DEF handle

\* Every step of the node is a step of its publisher, or none.
LEMMA PublisherSteps == [NodeNext]_nodeVars => [PublisherNext]_publisherVars
<1> SUFFICES ASSUME [NodeNext]_nodeVars PROVE [PublisherNext]_publisherVars
  OBVIOUS
<1>1. CASE forward
  BY <1>1 DEF forward, PublisherNext
<1>2. CASE UNCHANGED nodeVars
  BY <1>2 DEF nodeVars
<1>3. ASSUME actor_recv PROVE PublisherNext
  BY <1>3 DEF PublisherNext
<1> QED
  BY <1>1, <1>2, <1>3, CallSteps, AloneSteps, HandleSteps DEF NodeNext

LEMMA NextRegisteredInv == RegisteredInv /\ [NodeNext]_nodeVars => RegisteredInv'
<1> SUFFICES ASSUME RegisteredInv, [NodeNext]_nodeVars PROVE RegisteredInv'
  OBVIOUS
<1> USE DEF RegisteredInv
<1>1. ASSUME NEW t \in Tasks, look_up(t) \/ enter(t) \/ command(t) PROVE RegisteredInv'
  <2>1. phase' = phase
    BY <1>1, CallSteps DEF publisherVars
  <2>2. /\ pc[t] # "done" /\ \A u \in Tasks \ {t} : pc'[u] = pc[u]
        /\ pc' \in [Tasks -> {"idle", "found", "insert", "inserted", "done"}]
    BY <1>1, CallSteps DEF send, insert, send_first, get
  <2> QED
    BY <2>1, <2>2, PublishingAssumption
<1>2. ASSUME NEW t \in Tasks, handle(t) PROVE RegisteredInv'
  BY <1>2, HandleSteps DEF handle_command, actor_recv, publisherVars
<1>3. CASE Alone(Prepare)
  BY <1>3 DEF Alone, Prepare, send_init, announce, registryVars
<1>4. CASE Alone(Loop) \/ Alone(send_request)
  <2>1. Loop \/ send_request
    BY <1>4 DEF Alone
  <2>2. phase' = phase
    BY <2>1 DEF Loop, recv_request, next_frame, next_frame_fails, retry, send_chunk,
       next_audio_frame, end_of_file, audio_fails, send_audio, send_request
  <2>3. pc' = pc
    BY <1>4, AloneSteps DEF registryVars
  <2> QED
    BY <2>2, <2>3
<1>5. CASE Alone(Bridge) \/ Alone(forwarder_recv)
  BY <1>5 DEF Alone, Bridge, bridge_recv, bridge_send, forwarder_recv, registryVars
<1>6. CASE forward
  BY <1>6 DEF forward, forwarder_send, publish
<1>7. CASE UNCHANGED nodeVars
  BY <1>7 DEF nodeVars, publisherVars, registryVars
<1> QED
  BY <1>1, <1>2, <1>3, <1>4, <1>5, <1>6, <1>7 DEF NodeNext

\* Every step of the node is a step of the registry, or none: what is announced
\* is registered.
LEMMA RegistrySteps ==
    RegisteredInv /\ [NodeNext]_nodeVars => [RegistryNext]_registryVars
<1> SUFFICES ASSUME RegisteredInv, [NodeNext]_nodeVars PROVE [RegistryNext]_registryVars
  OBVIOUS
<1>1. ASSUME NEW t \in Tasks, Announced(t) PROVE MayCall(t)
  BY <1>1, PublishingAssumption DEF Announced, MayCall, Registered, RegisteredInv
<1>2. ASSUME NEW t \in Tasks, look_up(t) \/ enter(t) \/ command(t) PROVE RegistryNext
  BY <1>1, <1>2, CallSteps DEF RegistryNext
<1>3. ASSUME NEW t \in Tasks, handle(t) PROVE RegistryNext
  BY <1>3, HandleSteps DEF RegistryNext
<1>4. CASE forward
  BY <1>4, PublishingAssumption DEF forward, RegistryNext
<1>5. CASE UNCHANGED nodeVars
  BY <1>5 DEF nodeVars
<1> QED
  BY <1>2, <1>3, <1>4, <1>5, AloneSteps DEF NodeNext

\* Joined, the publisher and the registry each keep to their specification, and
\* what the registry takes for granted of its callers is so: the stream is
\* announced after it is registered (protocol.rs:387-436).
THEOREM PublishingImplementsParts == NodeSpec => PublisherSpec /\ RegistrySpec
<1>1. NodeInit => PublisherInit /\ RegistryInit
  BY DEF NodeInit
<1> QED
  BY <1>1, InitRegisteredInv, NextRegisteredInv, PublisherSteps, RegistrySteps, PTL
     DEF NodeSpec, PublisherSpec, RegistrySpec

\* So in the node, too, subscribers reach the actor that the publisher feeds.
THEOREM NodePublisherMet == NodeSpec => []SubscribersMeetPublisher
  BY PublishingImplementsParts, PublisherAlwaysMet
=============================================================================
