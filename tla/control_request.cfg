SPECIFICATION ControlSpec
CONSTANT Streams <- Requests
INVARIANT CompleteMeansWhole
CHECK_DEADLOCK FALSE
