SPECIFICATION SubscriberSpec
CONSTANTS
    Stream <- MixedStream
    channel_size = 2
    init_size = 1
    chunk_size = 1
INVARIANT SubscriberTypeOK NoCommandRejected SelfSendNeverBlocks
PROPERTY DeliversPrefix DeliversAll LossIsNoticed
CHECK_DEADLOCK FALSE
