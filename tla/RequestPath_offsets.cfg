SPECIFICATION Spec
CONSTANTS
    r1 = r1
    KeepLast = 1
    Requests <- MCRequests
    Bundles <- MCOffsetsBundles
    Registered <- MCRegistered
    CharDetectors <- MCCharDetectors
    Inputs <- MCWideInputs
    Outputs <- MCOutputs
    Findings <- MCOneFinding
    DefaultFailMode = "closed"
INVARIANTS
    FoundIsNotForwarded
CHECK_DEADLOCK FALSE
