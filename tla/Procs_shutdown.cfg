CONSTANTS
    MaxProcs = 2
    Windows = 0
    Stubborn = {1, 2}
SPECIFICATION LiveSpec
PROPERTY ShutdownEnds
CHECK_DEADLOCK FALSE
