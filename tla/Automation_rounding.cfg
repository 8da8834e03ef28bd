SPECIFICATION Spec
CONSTANTS
    none = none
    None = none
    f1 = f1
    f2 = f2
    Baseline = "baseline"
    Packs <- MCPacks
    Inputs <- MCTwoDrafts
    Drafted <- MCTwoDrafts
    Rulesets <- MCRulesets
    Evidences <- MCClose
    Extractions = {}
    Feeds = {}
    Versions <- MCVersions
    Reviewed <- MCReviewed
INVARIANTS
    TunedWithinCeiling
CHECK_DEADLOCK FALSE
