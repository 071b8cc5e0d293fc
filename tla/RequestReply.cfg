CONSTANTS
    Parts = {"requests"}
    r1 = r1
    r2 = r2
    echo = echo
    mute = mute
    Requesters = {r1, r2}
    Responders = {echo, mute}
    Mute = {mute}
    Modes = {"none", "selector", "private"}
    Drops = TRUE
    MaxAttempts = 3
    c1 = c1
    c2 = c2
    Callers = {}
    Blocking = {}
    NoCaller = free
    MaxAdapters = 0
    MaxTries = 0
SPECIFICATION MCSpec
SYMMETRY Symmetry
INVARIANTS OwnReplies MismatchHasCause
PROPERTY ReplyKeptForOwner
