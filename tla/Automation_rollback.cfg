SPECIFICATION Spec
CONSTANTS
    none = none
    None = none
    f1 = f1
    f2 = f2
    Baseline = "baseline"
    Packs <- MCPacks
    Inputs <- MCInputs
    Drafted <- MCTwoDrafts
    Rulesets <- MCRulesets
    Evidences <- MCEvidences
    Extractions <- MCExtractions
    Feeds <- MCFeeds
    Versions <- MCTwoReleases
    Reviewed <- MCTwoReleases
PROPERTIES
    EnforcedOnlyGains
CHECK_DEADLOCK FALSE
