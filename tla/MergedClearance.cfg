SPECIFICATION OutputSpec
CONSTANTS
    Points <- MCPoints
    At <- MCAt
    IsBridge <- MCIsBridge
    FromBase <- MCFromBase
    Tags <- MCTags
    Navigation <- MCNavigation
    Charted <- MCCharted
    TwinCharted <- MCTwinCharted
    Outputs = {"bridge", "route"}
    Fallback = 0
    Margin = 1000
    None = None
    NotFlagged = NotFlagged
    Width = 2
    LookAhead = 74
    HalfCircle = 56610
    Rise <- MCRise
    Waters <- MCWaters
    Routes <- MCRoutes
    Drafts <- MCDrafts
    NearRadius = 1
    LeaveRadius = 2
    NearScan = 2
PROPERTY
    LowestReportDecides
CHECK_DEADLOCK FALSE
