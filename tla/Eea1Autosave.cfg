\* Two editable fields and an encrypted one that nobody excluded.
SPECIFICATION FairSpec
CONSTANTS
    Fields = {name, workplaceNumber, race}
    Pii = {race}
    Excluded = {}
    MaxEdits = 3
    Unvalidated = TRUE
INVARIANTS
    TypeOK
    DataOnlyAfterConsent
    TrailEndsInRow
    PrevValuesChain
    EditsArrive
    NoPiiInTrail
PROPERTIES
    PendingEnds
