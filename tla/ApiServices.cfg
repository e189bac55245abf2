SPECIFICATION Spec
CONSTANTS
    Forms = {f1, f2}
    Paths <- MCPaths
    FormKinds = {"FORM_CREATED"}
    Jobs = {w1, w2}
    MaxEvents = 3
    MaxMillis = 2
    MaxReads = 2
    Emails = {"admin", "user"}
    Provisioned <- MCProvisioned
    Requests = {w1, w2}
    BackupCodes = {b1, b2}
    AccessTtl = 1
    RefreshTtl = 2
    MaxTime = 2
    MaxEnrolments = 2
    Tenants = {"t1", "t2"}
    Signers = {"s1", "s2"}
    Otps = {1, 2}
    OtpTtl = 1
    MaxGenerated = 3
    MaxRecords = 3
    Undefined = Undefined
SYMMETRY MCSymmetry
INVARIANTS
    SnapshotIsOfItsMoment
    CodesWorkOnce
PROPERTIES
    ProjectionFollowsTheLog
CHECK_DEADLOCK FALSE
