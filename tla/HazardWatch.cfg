SPECIFICATION FairWatchSpec
CONSTANTS
    Positions <- MCPositions
    Lists <- MCLists
    NoPois = {}
    MinMove = 1
    MinInterval = 2
    None = None
    Hazards <- MCHazards
    Place <- MCPlace
    SafeId <- MCSafeId
    Radius = 1
    ExitRadius = 2
    Sources <- MCSources
    SourceOf <- MCSourceOf
    ScanRadius = 3
    Speed = 1
    MaxFaults = 2
INVARIANTS WireMatchesTracker StopLeavesNoAlarm
PROPERTIES CoveredHazardAlarms AlarmHoldsInBand MovingVesselIsWarned
CHECK_DEADLOCK FALSE
