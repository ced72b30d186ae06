SPECIFICATION Spec
CONSTANTS
    Entities <- MCEntities
    Terms <- MCTerms
    NameOf <- MCNameOf
    Ratio <- MCRatio
    Rank <- MCRank
    CloseMatches = 2
    None = None
    Builds <- MCBuilds
    Queries <- MCQueries
    Identifiers <- MCIdentifiers
    Subsectors = {"", "gas"}
    Hints = {2}
    Typed = {"grid"}
    Edgars <- MCEdgars
    WikidataLei <- MCWikidataLei
    Gleif <- MCGleif
    GleifParent <- MCGleifParent
    NoRun = NoRun
    MaxEdits = 2
    MaxEvents = 1
INVARIANTS
    AuditExplains
    ReferencesStand
    MatchesAreEarned
PROPERTIES
    CardsGoToTopAccounts
CHECK_DEADLOCK FALSE
