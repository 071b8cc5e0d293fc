CONSTANTS
    Parts = {"wrapper"}
    r1 = r1
    r2 = r2
    echo = echo
    mute = mute
    Requesters = {}
    Responders = {}
    Mute = {}
    Modes = {"none"}
    Drops = TRUE
    MaxAttempts = 0
    c1 = c1
    c2 = c2
    Callers = {c1, c2}
    Blocking = {c1}
    NoCaller = free
    MaxAdapters = 3
    MaxTries = 2
SPECIFICATION FairMCSpec
INVARIANTS Connections Executions
PROPERTIES SilentAfterClose GetsThrough
