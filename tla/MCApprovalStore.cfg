CONSTANTS
    Requests = {r1, r2}
    Keys = {k1, k2}
    NotifyCap = 1
SPECIFICATION FairSpec
INVARIANTS
    TypeOK
    PermitNeedsGrant
    WaitersAreLive
    SilencedKeysAreGranted
PROPERTIES
    EveryWaitEnds
    ImplementsGate
