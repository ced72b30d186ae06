\* Two cards and two plays, seed loads, edits of tiers, facts and entities.
SPECIFICATION FairPlaysSpec
CONSTANTS
    leak = leak
    rule = rule
    endpoint = endpoint
    copilot = copilot
    Plain = Plain
    Absent = Absent
    Cards <- TwoCards
    MintTier <- MintTiers
    MaxEdits = 2
    Plays <- TwoPlays
    PlaysOf <- PlaysOn
    GovPlays <- GovHidden
    Facts <- ThreeFacts
    FactsOf <- FactsFor
    Matrix <- InMatrix
    Base <- Commercial
    MaxReloads = 1
    MaxFactEdits = 1
INVARIANTS
    TrailReplays
    OutreachHasReason
    OpenerHasReason
    SnapshotExplains
PROPERTIES
    CitedFactsStand
    EventuallyPinned
