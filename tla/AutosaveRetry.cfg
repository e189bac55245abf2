\* A server that refuses and answers that get lost.
SPECIFICATION FairSpec
CONSTANTS
    Cells = {a, b}
    Failures = {"refused", "unacknowledged"}
    Repeats = TRUE
    MaxCalls = 5
    NoEvent = NoEvent
INVARIANTS
    SavedMeansStored
    NewestWinsUnlessSplit
PROPERTIES
    EveryCallIsAnswered
