\* Only valid values of fields that may be saved.
SPECIFICATION Spec
CONSTANTS
    Fields = {name, workplaceNumber}
    Pii = {}
    Excluded = {}
    MaxEdits = 3
    Unvalidated = FALSE
INVARIANTS
    EditsPersist
