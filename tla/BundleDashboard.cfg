\* A selection, a look and a Prepare in any order; one superseded look is followed.
SPECIFICATION Spec
CONSTANTS
    c1 = c1
    total = total
    Cells <- MCCells
    Totals <- MCTotals
    Undefined = Undefined
    Absent = Absent
    Periods <- MCPeriods
    FirstPeriod = "this year"
    Forms <- MCForms
    EEA2Forms <- MCEEA2Forms
    EEA4Forms <- MCEEA4Forms
    NoPeriod = NoPeriod
    NoEvaluation = NoEvaluation
    NoReport = NoReport
    Unread = Unread
    MaxInputs = 3
INVARIANTS
    ShownIsNewest
    ConfirmsWhatIsShown
PROPERTIES
    LoadingEnds
