---------------------------- MODULE MediaDelivery ----------------------------
(***************************************************************************)
(* What a subscription promises to the application: it gets a prefix of    *)
(* the stream, in order, split over two channels.  Init segments go to     *)
(* one; the chunks of its medium, and a None for an end marker, go to the  *)
(* other; objects of the other medium are left out.  An application that   *)
(* has dropped its receiver of chunks misses end markers, nothing else.    *)
(***************************************************************************)
EXTENDS Proto, Sequences

CONSTANT Stream

VARIABLES is_audio, position, inits, chunks, chunk_open

deliveryVars == <<is_audio, position, inits, chunks, chunk_open>>

Medium == IF is_audio THEN MEDIA_TYPE_AUDIO ELSE MEDIA_TYPE_VIDEO

DeliveryInit ==
    /\ is_audio \in BOOLEAN
    /\ position = 0 /\ inits = <<>> /\ chunks = <<>>
    /\ chunk_open = TRUE

Wanted(o) ==
    o.group_id = Medium \/ (o.group_id = MEDIA_TYPE_EOF /\ chunk_open)

Deliver ==
    /\ position < Len(Stream)
    /\ position' = position + 1
    /\ LET o == Stream[position + 1]
       IN  /\ inits' = IF o.group_id = MEDIA_TYPE_INIT THEN Append(inits, o) ELSE inits
           /\ chunks' = IF Wanted(o) THEN Append(chunks, o) ELSE chunks
    /\ UNCHANGED <<is_audio, chunk_open>>

DropReceiver ==
    /\ chunk_open' = FALSE
    /\ UNCHANGED <<is_audio, position, inits, chunks>>

Prefix == DeliveryInit /\ [][Deliver \/ DropReceiver]_deliveryVars
=============================================================================
