SPECIFICATION LifecycleSpec
CONSTANTS
    v1 = v1
    v2 = v2
    w1 = w1
    w2 = w2
    Versions <- MCOneVersion
    PolicyOf <- MCPolicyOf
    Principals <- MCPrincipals
    SubjectOf <- MCSubjectOf
    RoleOf <- MCRoleOf
    Proposals <- MCProposals
    AutoRule = "system:AA-1"
    Nobody = "nobody"
    Requests <- MCRequests
    Workers <- MCWorkers
    MaxTime = 0
SYMMETRY Threads
INVARIANTS
    LifecycleTypeOK
    ApprovedByWorkflow
PROPERTIES
    DocumentImmutable
CHECK_DEADLOCK FALSE
