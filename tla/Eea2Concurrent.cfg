\* Three requests, two of them in flight at once; the clock may move once, which is
\* enough for two stamps in the wrong order.
SPECIFICATION FairSpec
CONSTANTS
    Requests = {r1, r2, r3}
    Keys = {k1}
    Managers = {m1, m2}
    PoolSize = 2
    MaxClock = 1
    NoOne = NoOne
INVARIANTS
    TypeOK
    SignatureSealsNewcomers
    SignatureIsLastDecision
    RejectionReachesManagers
    AnswersAreTruthful
    OnlyOverlapLosesChanges
    StampsFollowCauses
PROPERTIES
    ImplementsLifecycle
    EveryRequestIsAnswered
