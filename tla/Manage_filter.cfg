SPECIFICATION Spec
CONSTANTS
    Managed = {"artemis"}
    MaxHeld = 1
    MaxCommands = 2
    MaxOthers = 0
    MaxFaults = 1
PROPERTY KeepsFilter
CHECK_DEADLOCK FALSE
