SPECIFICATION FramingSpec
CONSTANTS
    BodySize <- Sizes
    HeaderSize = 2
    Reordering = FALSE
    MaxCuts = 1
    Misread <- AnyLength
INVARIANT HandedOverInOrder NoObjectLeftWaiting
PROPERTY AllHandedOver
CHECK_DEADLOCK FALSE
