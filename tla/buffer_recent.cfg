SPECIFICATION Spec
CONSTANTS
    Objects <- FrameObjects
    NoObject <- NoneValue
    max_objects = 3
    max_bytes = 6
    priority_eviction = TRUE
PROPERTY RecentObjectsKept
