SPECIFICATION FairSpec
CONSTANTS
    MaxSession = 3
    Req = {"a", "b"}
    Token = {"t1"}
INVARIANTS
    TypeOK
    RotationAtomic
    SerialLineage
    ResetCutsOff
    ResetTokenOnce
    ResetTokenLost
PROPERTY
    RequestsEnd
CHECK_DEADLOCK FALSE
