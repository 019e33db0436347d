---------------------------- MODULE ArrivalStore ----------------------------
(***************************************************************************)
(* What the retransmission buffer promises, without its indexes: one list  *)
(* of objects in order of arrival.  To make room it drops, by              *)
(* configuration, "the oldest object (FIFO)" or "the lowest priority       *)
(* object" (retransmission_buffer.rs:190 and 197), which may be any of     *)
(* those of the lowest priority; and it drops only while an object is      *)
(* being added and there is no room for that object.                       *)
(***************************************************************************)
EXTENDS Proto, Sequences, SequencesExt

CONSTANTS Objects, NoObject, max_objects, max_bytes, priority_eviction

VARIABLES arrivals, init_segment, adding

storeVars == <<arrivals, init_segment, adding>>

Bytes(s) ==
    LET sum[i \in 0..Len(s)] == IF i = 0 THEN 0 ELSE sum[i - 1] + s[i].size
    IN  sum[Len(s)]

Room(o) ==
    /\ Len(arrivals) < max_objects
    /\ Bytes(arrivals) + o.size <= max_bytes \/ arrivals = <<>>

Least == {i \in DOMAIN arrivals :
            \A j \in DOMAIN arrivals : arrivals[i].priority <= arrivals[j].priority}

Victims == IF priority_eviction THEN Least ELSE {1}

StoreInit == arrivals = <<>> /\ init_segment = NoObject /\ adding = NoObject

SetInit(o) ==
    /\ adding = NoObject /\ o.group_id = MEDIA_TYPE_INIT
    /\ init_segment' = o
    /\ UNCHANGED <<arrivals, adding>>

Offer(o) ==
    /\ adding = NoObject /\ o.group_id # MEDIA_TYPE_INIT
    /\ \A i \in DOMAIN arrivals : arrivals[i].sequence # o.sequence
    /\ adding' = o
    /\ UNCHANGED <<arrivals, init_segment>>

Drop ==
    /\ adding # NoObject /\ ~Room(adding) /\ arrivals # <<>>
    /\ \E i \in Victims : arrivals' = RemoveAt(arrivals, i)
    /\ UNCHANGED <<init_segment, adding>>

Arrive ==
    /\ adding # NoObject /\ Room(adding)
    /\ arrivals' = Append(arrivals, adding)
    /\ adding' = NoObject
    /\ UNCHANGED init_segment

Forget ==
    /\ adding = NoObject
    /\ arrivals' = <<>>
    /\ UNCHANGED <<init_segment, adding>>

StoreNext ==
    \/ \E o \in Objects : SetInit(o) \/ Offer(o)
    \/ Drop \/ Arrive \/ Forget

StoreSpec == StoreInit /\ [][StoreNext]_storeVars
=============================================================================
