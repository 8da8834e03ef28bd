SPECIFICATION FairSpec
CONSTANTS
    none = none
    None = none
    f1 = f1
    f2 = f2
    Baseline = "baseline"
    Packs <- MCPacks
    Inputs <- MCInputs
    Drafted <- MCDrafted
    Rulesets <- MCRulesets
    Evidences <- MCEvidences
    Extractions <- MCExtractions
    Feeds <- MCFeeds
    Versions <- MCVersions
    Reviewed <- MCReviewed
INVARIANTS
    TypeOK
    AutoApprovedOnlyAdds
    TraceExplains
    SynthesizedAccountable
    TunedRaisesNoAlarm
PROPERTIES
    RuleArrives
CHECK_DEADLOCK FALSE
