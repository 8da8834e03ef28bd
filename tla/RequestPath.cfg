SPECIFICATION FairSpec
CONSTANTS
    r1 = r1
    KeepLast = 1
    Requests <- MCRequests
    Bundles <- MCBundles
    Registered <- MCRegistered
    CharDetectors = {}
    Inputs <- MCInputs
    Outputs <- MCOutputs
    Findings <- MCFindings
    DefaultFailMode = "closed"
INVARIANTS
    TypeOK
    OneBundle
    EveryGuardRecorded
    EffectsExplained
    HiddenStaysHidden
PROPERTIES
    EveryRequestAnswered
CHECK_DEADLOCK FALSE
