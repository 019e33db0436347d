SPECIFICATION ActorSpec
CONSTANTS
    Objects <- VideoObjects
    NoObject <- NoneValue
    max_objects = 2
    max_bytes = 10
    priority_eviction = TRUE
    Subscriptions = {"a", "b", "c"}
    NodeOf <- SharedNode
    GroupOf <- WithThird
    NoStream = "none"
    Published <- VideoStream
    channel_size = 2
    UnsubscribeNodes = {"n2"}
    Requesters = {}
    MaxRequests = 0
    MaxTimeouts = 0
    MaxStops = 0
INVARIANT ActorTypeOK BufferedWasSent FirstSendsInOrder SentOnce SetDataStreamFindsSubscriber
PROPERTY SubscriberServed
CHECK_DEADLOCK FALSE
