SPECIFICATION FairSpec
CONSTANTS
    NONE = NONE
    Triggers = {"t", "u"}
    Plan <- OnlyDeployment
    Deployments <- OneDeployment
    InitialBroker <- BrokerUp
    MaxCreates = 2
    MaxDeletes = 1
    MaxRotations = 1
    MaxFaults = 1
INVARIANTS TypeOK SettledReady
PROPERTIES EventuallyReady EventuallyServed
CHECK_DEADLOCK FALSE
