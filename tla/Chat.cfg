CONSTANTS
    MaxJobs = 4
    MaxHistory = 2
    MaxFixAttempts = 1
SPECIFICATION FairSpec
INVARIANTS BusyHasCause Sequential HonestLabel
PROPERTIES SentIsAQuestion ThinkingEnds
