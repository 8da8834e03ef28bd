SPECIFICATION FairSpec
CONSTANTS
    c1 = c1
    c2 = c2
    none = none
    None = none
    Calls <- MCCalls
    Guards <- MCGuards
    Texts <- MCTexts
    Replies <- MCReplies
    Rubrics <- MCRubrics
    Providers <- MCProviders
    DefaultProvider = "together"
    EntityPacks <- MCEntityPacks
    FailThreshold <- MCFailThreshold
    OpenWindow <- MCOpenWindow
INVARIANTS
    FailModeDecides
    StricterNeverPasses
PROPERTIES
    RecoveredIsUsed
