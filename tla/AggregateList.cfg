SPECIFICATION MCSpec
CONSTANTS
    Sources = {osm, uscg}
    UsOnly = {uscg}
    Calls = {scan, chart}
    MaxRecentErrors = 2
    MaxErrors = 2
    Base = "activecaptain"
    Merging = {"openseamap", "uscg"}
    RadiusOf <- MCRadiusOf
    DefaultRadius = 8
    TrueMeters = 10
    GridMeters = 11
    FullCircle = 16
    CosOf <- MCCosOf
    CosUnit = 100
    None = None
    Tokens <- MCTokens
    SourceIds <- MCSourceIds
    Feeds <- MCFeeds
    RequestQueries <- MCQueries
    Unseen = Unseen
    MaxOutcomes = 3
    MaxLosses = 1
INVARIANTS
    EveryNoteOpens
PROPERTIES
    NoDuplicateLeft
    EveryListReturns
    NothingIsLost
    PanelCatchesUp
