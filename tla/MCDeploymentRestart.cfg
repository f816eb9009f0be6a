SPECIFICATION Spec
CONSTANTS
    Worker = {w1}
    LastCommit = 3
    Revision <- MCRevision
    MaxFaults = 2
    MaxManual = 2
PROPERTY
    RestartOnlyOnAdvance
