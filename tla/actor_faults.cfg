SPECIFICATION ActorSpec
CONSTANTS
    Objects <- ShortObjects
    NoObject <- NoneValue
    max_objects = 1
    max_bytes = 10
    priority_eviction = TRUE
    Subscriptions = {"a", "b"}
    NodeOf <- TwoNodes
    GroupOf <- AllAndVideo
    NoStream = "none"
    Published <- ShortStream
    channel_size = 2
    UnsubscribeNodes = {}
    Requesters = {"b"}
    MaxRequests = 1
    MaxTimeouts = 1
    MaxStops = 1
INVARIANT FirstSendsInOrder BufferedWasSent
PROPERTY ObjectsReachSubscriber
CHECK_DEADLOCK FALSE
