\* Two classifiers on the same source and event, a corrected rule each, a kill.
SPECIFICATION FairSpec
CONSTANTS
    Events <- OneEvent
    Classifiers <- TwoClassifiers
    Cards <- FilingCards
    EventOf <- FilingOn
    OwnerOf <- FilingBy
    SupersededBy <- NoDockets
    Nobody = Nobody
    MaxVersion = 2
    MaxKills = 1
INVARIANTS
    StoreFollowsRules
    TextIsSourced
PROPERTIES
    DismissedStands
    RunTouchesOnlyItsOwn
    EventuallyConverged
