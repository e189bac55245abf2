SPECIFICATION Spec
CONSTANTS
    Cells = {a, b}
    Failures = {"refused"}
    Repeats = FALSE
    MaxCalls = 3
    NoEvent = NoEvent
INVARIANTS
    NewestWins
