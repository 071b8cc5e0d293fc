CONSTANTS
    mover = mover
    forwarder = forwarder
    Messages = {m1, m2, m3}
    Movers = {mover}
    Forwarders = {forwarder}
    Transforming = {forwarder}
    Deaf = {mover}
    Limit <- MCLimit
    NoMessage = none
    BridgeMessages = {plain1, plain2, plain3, odd}
    Unencodable = {odd}
    BridgeLimit = 3
    PipeCap = 1
    Settings = {"cli", "session"}
SPECIFICATION MCSpec
INVARIANTS Accounts Drains
PROPERTIES KeepsCustody RelaysEnd BridgeKeepsCustody BridgeEnds
