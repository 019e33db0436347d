------------------------------- MODULE Proto -------------------------------
(* Constants of src/moq/proto.rs.  A group id names the media type of an   *)
(* object.  In a subscription 0 means "every group", and 0 is also the     *)
(* group of init segments (engine.rs:470).                                 *)
EXTENDS Naturals

MEDIA_TYPE_INIT == 0
MEDIA_TYPE_VIDEO == 1
MEDIA_TYPE_AUDIO == 2
\* u32::MAX in the code; only ever compared for equality.
MEDIA_TYPE_EOF == 3

MediaTypes == {MEDIA_TYPE_INIT, MEDIA_TYPE_VIDEO, MEDIA_TYPE_AUDIO, MEDIA_TYPE_EOF}

\* Does a subscription to `group` cover objects of group `group_id`?
GroupMatches(group, group_id) == group = 0 \/ group = group_id
=============================================================================
