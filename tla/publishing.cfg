SPECIFICATION NodeSpec
CONSTANTS
    request_size = 2
    app_size = 1
    object_size = 1
    cmd_size = 1
    keyframe_interval = 2
    MaxFrames = 3
    MaxErrors = 1
    Nobody = Nobody
    Tasks <- FullTasks
    CallOf <- FullCalls
    StreamOf <- FullStreams
    AnnouncedStreams = {"video"}
    Workers = 2
    channel_size = 1
    Registrar = "register"
INVARIANT OneRequestUnderWay ArrivesNumbered SubscribersMeetPublisher
PROPERTY FramesArrive CallsReturn
CHECK_DEADLOCK FALSE
