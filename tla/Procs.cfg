CONSTANTS
    MaxProcs = 3
    Windows = 1
    Stubborn = {1}
SPECIFICATION LiveSpec
INVARIANT PaneAgrees
PROPERTY ProcsEnd
