SPECIFICATION FairSpec
CONSTANTS
    v1 = v1
    v2 = v2
    w1 = w1
    b1 = b1
    b2 = b2
    Versions <- MCVersions
    PolicyOf <- MCPolicyOf
    Principals <- MCPrincipals
    SubjectOf <- MCSubjectOf
    RoleOf <- MCRoleOf
    Proposals <- MCProposals
    AutoRule = "system:AA-1"
    Nobody = "nobody"
    Requests <- MCRequests
    Workers <- MCWorkers
    MaxTime = 1
    InEnvironment <- MCVersions
    Portable <- MCVersions
    Unregistered <- MCUnregistered
    Builders <- MCBuilders
    MaxBundles = 2
    MaxRestarts = 1
INVARIANTS
    TypeOK
    EnforcedWasApproved
PROPERTIES
    NeverOlder
    NewestServed
CHECK_DEADLOCK FALSE
