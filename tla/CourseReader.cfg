SPECIFICATION FairSpec
CONSTANTS
    Unusable = Unusable
    NoRoute = NoRoute
    NoCourse = NoCourse
    RouteIds <- MCRouteIds
    Coordinates <- MCCoordinates
    Courses <- MCCourses
    MaxChanges = 2
INVARIANTS SettledIsFresh DestinationAhead
PROPERTIES CommitsAreCurrent EventuallyFresh
CHECK_DEADLOCK FALSE
