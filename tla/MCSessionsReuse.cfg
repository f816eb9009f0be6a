SPECIFICATION FairSpec
CONSTANTS
    MaxSession = 3
    Req = {"a", "b"}
    Token = {"t1"}
PROPERTY
    ReuseRefused
CHECK_DEADLOCK FALSE
