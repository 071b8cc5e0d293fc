SPECIFICATION FairSpec
CONSTANTS
    Brokers = {"artemis", "rabbitmq", "nats", "redis", "sqs", "azure", "gcp", "ibmmq", "pulsar", "mqtt"}
    MaxMessages = 3
    MaxCount = 2
    MaxFaults = 2
    SubscriptionBuffer = 1
INVARIANTS LossHasCause ShownOnce
PROPERTY Returns
CHECK_DEADLOCK FALSE
