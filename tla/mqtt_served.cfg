SPECIFICATION FairSpec
CONSTANTS
    NONE = NONE
    Triggers = {"t"}
    Plan <- TwoResources
    Deployments <- OneDeployment
    InitialBroker <- NoBroker
    MaxCreates = 2
    MaxDeletes = 1
    MaxRotations = 2
    MaxFaults = 1
INVARIANTS NothingSkipped SettledReady
PROPERTIES OwnersStay ReadyMeansApplied CredentialsNeverOlder EventuallyReady EventuallyServed
CHECK_DEADLOCK FALSE
