SPECIFICATION MCSpec
CONSTANTS
    Calls = {c1, c2, c3}
    AcCalls = {c3}
    EncMaxTime = 1
    Boxes = {"chart", "scan"}
    OneBox = "scan"
    Ttl = 1
    MaxEntries = 2
    None = None
    MaxTime = 2
    Sources = {"src"}
    MaxRecentErrors = 1
    Features = {"w1", "w2", "o1", "o2"}
    Usable = {"w1", "w2", "o1"}
    MaxDetails = 2
    SordatOf <- MCSordatOf
    TimestampOf <- MCTimestampOf
    TagsOf <- MCTagsOf
    SeamarkGroups = {"hazards", "unheard_of"}
    MinimumYear = 2023
    Undated = Undated
    NaN = NaN
    Llnrs = {1, 2, 3, 4}
    PageKeys = {"07_1", "17_1"}
    HalfCircle = 4
    Pole = 2
    CellSize = 2
    Districts <- MCDistricts
    Vessels <- MCVessels
    Reaches = {1, 3}
    Enc = "src"
    Osm = "src"
    Layers = {"wreck", "obstruction"}
    FeaturesOf <- MCFeaturesOf
    MaxPages = 2
    MaxLookups = 1
    MaxOsmLookups = 1
    Ids = {p1, p2}
    MaxRuns = 2
    TtlMs = 2
    MaxClock = 3
    MaxStepsBack = 0
    MaxFaults = 1
    Nothing = Nothing
    TypeSets <- MCTypeSets
    Pois <- MCPois
    Ratable = {"Marina"}
    Boxed <- MCBoxed
    MinRating = 3
INVARIANTS
    ServedWithinTtl
    AnsweredForItsTypes
    QueryFindsAll
PROPERTIES
    OneFetchPerWindow
    ListsWhatIsDue
    EveryListReturns
    OverIsSilent
    CleanRestartKeepsFresh
CHECK_DEADLOCK FALSE
