SPECIFICATION Spec
CONSTANTS
    PermanentRows <- MCPermanentRows
    TemporaryRow = "temporary"
    DemoCols <- MCDemoCols
    Heads = {30}
    DisabledCounts = {1, 2}
    DesignatedCols = {"female"}
    Profiles = {"prior year"}
    PermanentRows2 <- MCPermanentRows2
    MaxInputs2 = 2
    Lists <- MCLists
    Amounts = {3}
    MaxInputs4 = 2
    Undefined = Undefined
    Absent = Absent
    Levels = {1, 7}
    Races = {"AM", "WF"}
    Designated = {"AM"}
    Tables <- MCTables
    EapPct <- MCEapPct
    Counts = {0, 4}
    MaxEntries = 2
    MaxInputs12 = 4
    Sectors = {"mining", "retail"}
    Kinds <- MCKinds
    EapOf <- MCEapOf
    SectorTarget <- MCSectorTarget
    Targets = {45}
    Prefills <- MCPrefills
    Starts = {0, 60}
    Ends = {1858}
    MaxRows = 3
    MaxInputs13 = 3
    OtherBodies <- MCOtherBodies
    MaxInputs1 = 3
    MaxPosts = 1
    MaxEntered = 5
    MaxForms = 2
    MaxSends = 2
    Tenants = {"tenant 1", "tenant 2"}
    Eea4Ids = {"report"}
    MaxEffects = 2
    AnsweredLists <- MCAnsweredLists
    SectionsC <- MCSectionsC
    RealLevels = {1, 7}
    AssessedLevels = {1}
    PayRaces = {"african", "white"}
    LevelTargets <- MCLevelTargets
    DemoCompany <- MCDemoCompany
INVARIANTS
    FiguresAddUp
    FlagsAreOfTheFigures
    SignedOverSoundFigures
    ShownIsOfItsSources
    PlansStaySound
    DeclaredAsAnswered
    SignedOnceAndSeen
    EditsAreHandedOver
CHECK_DEADLOCK FALSE
