SPECIFICATION FramingSpec
CONSTANTS
    BodySize <- Sizes
    HeaderSize = 2
    Reordering = TRUE
    MaxCuts = 0
    Misread <- TooLong
INVARIANT HandedOverInOrder
CHECK_DEADLOCK FALSE
