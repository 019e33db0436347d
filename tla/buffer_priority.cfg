SPECIFICATION Spec
CONSTANTS
    Objects <- MixedObjects
    NoObject <- NoneValue
    max_objects = 3
    max_bytes = 6
    priority_eviction = TRUE
INVARIANT TypeOK IndexesAgree CapacityRespected
PROPERTY AddTerminates ImplementsArrivalStore
