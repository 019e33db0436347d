SPECIFICATION ControlSpec
CONSTANT Streams <- Conversations
INVARIANT HandledAsSent OkCounted
PROPERTY EveryMessageHandled
CHECK_DEADLOCK FALSE
