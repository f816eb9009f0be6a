SPECIFICATION RedisSpec
CONSTANTS
    Times = 2
    Call = {"a", "b", "c"}
    MaxCount = 5
    Code = {"AUTH", "COURSES", "LEARNING"}
    Core = {"AUTH"}
    Licensed = {"AUTH", "COURSES"}
    Req = {"a", "b"}
    MaxToggle = 3
INVARIANTS
    OrphanByFailure
    FreshUnlessRaced
PROPERTIES
    ImplementsWindow
    WindowEndsUnlessLost
    EventuallyFresh
CHECK_DEADLOCK FALSE
