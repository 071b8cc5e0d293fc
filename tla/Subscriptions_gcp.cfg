SPECIFICATION Spec
CONSTANTS
    Brokers = {"gcp"}
    Topics = {"a", "b"}
    Groups = {"g"}
    MaxPublished = 2
    MaxCalls = 2
    MaxSessions = 1
    MaxFaults = 0
INVARIANT OwnTopic
CHECK_DEADLOCK FALSE
