\* Two cards, one re-tier; a refresh between the reads.
SPECIFICATION AggregatesSpec
CONSTANTS
    breach = breach
    rule = rule
    Plain = Plain
    Absent = Absent
    Nobody = Nobody
    Cards <- TwoCards
    TriggerOf <- Triggers
    MintTier <- MintTiers
    Lowered = {"superseded"}
    MaxEdits = 1
    MaxRefresh = 2
    MaxDuring = 2
INVARIANTS
    EachSliceWasTrue
