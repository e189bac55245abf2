\* Two further pages, while events are appended.
SPECIFICATION FairSpec
CONSTANTS
    PageSize = 2
    MaxEvents = 6
    MaxVisits = 3
    Browser = TRUE
INVARIANTS
    PagesGoOn
    ShownPassTheFilter
PROPERTIES
    LoadingEnds
