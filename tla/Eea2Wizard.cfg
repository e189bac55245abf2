\* Five inputs complete the form; one more is a change, a move, a repeat or a remount.
SPECIFICATION Spec
CONSTANTS
    StepIds <- MCStepIds
    Totals = {1, 2}
    MaxInputs = 6
    MaxOpen = 2
INVARIANTS
    ShownIsInTheDraft
    SubmittedIsComplete
