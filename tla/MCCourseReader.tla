--------------------------- MODULE MCCourseReader ---------------------------
(* CourseReader on two routes and courses that go forward, in reverse, past  *)
(* the end of the route, and to an href that names no route.                 *)
EXTENDS CourseReader

MCRouteIds == {"r1", "r2"}
MCCoordinates == [r1 |-> <<"a", "b", "c">>, r2 |-> <<"c", "a">>]

\* A route resource with an entry that is not a coordinate pair.
MCGappedCoordinates == [r1 |-> <<"a", "b", Unusable>>, r2 |-> <<"c", "a">>]

Going(href, index, reverse) ==
    [href |-> href, pointIndex |-> index, reverse |-> reverse]

MCCourses ==
    {Going("r1", 0, TRUE), Going("r2", 1, FALSE), Going("r2", 2, FALSE),
     Going("not-a-route", 0, FALSE)}
=============================================================================
