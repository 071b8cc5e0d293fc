SPECIFICATION MCSpec
CONSTANTS
    MaxRetryAttempts = 4
    MaxPieces = 3
    Brokers = {"rabbitmq", "redis", "awssqs", "azuresb", "gcp", "nats", "artemis", "pulsar", "mqtt", "kafka"}
    Topics = {"a", "b"}
    Groups = {"g"}
    MaxPublished = 2
    MaxCalls = 3
    MaxSessions = 2
    Managed = {"rabbitmq", "redis", "awssqs", "azuresb", "gcp", "nats", "artemis", "pulsar", "kafka"}
    MaxHeld = 2
    MaxCommands = 2
    MaxOthers = 1
    MaxFaults = 1
    Kinds = {"send", "receive", "request", "peek", "ping", "hook", "list", "notification", "garbage", "unknown"}
    MaxRequests = 2
    MaxHiccups = 1
INVARIANTS AnswerIsShown RetriesOnlyTransient OwnFeed NoLeftovers TrueAnswers
PROPERTIES CompleteReturns DoesWhatItSays RepeatingAchieves ServesOrEnds
CHECK_DEADLOCK FALSE
