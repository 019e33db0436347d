SPECIFICATION NodeSpec
CONSTANTS
    Conns = {"f", "s", "t"}
    Plans <- MixedPlans
    RegisteredStreams = {"v"}
    Capacity = 1
    Fetches = {"f"}
    Requests <- MixedRequests
    MaxRequest = 2
    MaxResponse = 2
INVARIANT WatcherUpToDate FetchAllOrNothing
PROPERTY StreamsServed FetchReturns HandlersEnd
CHECK_DEADLOCK FALSE
