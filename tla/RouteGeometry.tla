--------------------------- MODULE RouteGeometry ---------------------------
(***************************************************************************)
(* The pure part of src/outputs/route-hazard/course-reader.ts: how a route *)
(* resource and the Course API's active-route descriptor become the        *)
(* polyline that lies ahead of the vessel.                                 *)
(*                                                                         *)
(* A coordinate entry is a waypoint or Unusable (not a pair of finite      *)
(* numbers).  A point index that is missing, fractional or not a number is *)
(* represented by a negative integer: the code treats all but the          *)
(* fractional ones alike, and the Course API never sends those.            *)
(***************************************************************************)
EXTENDS Integers, SequencesExt

CONSTANTS Unusable,     \* a coordinate entry that is not a pair of numbers
          NoRoute       \* the code's null: no polyline

\* Unusable entries are skipped, not rejected.
ExtractCoordinates(coordinates) ==
    SelectSeq(coordinates, LAMBDA entry : entry # Unusable)

\* Mutation of ClampIndex: the index counts waypoints from one.
ClampIndexOneBased(index, length) ==
    IF index < 1 THEN 0
    ELSE IF index > length THEN length - 1 ELSE index - 1

\* The index of the next waypoint, forced into 0 .. length - 1.
ClampIndex(index, length) ==
    IF index < 0 THEN 0
    ELSE IF index > length - 1 THEN length - 1 ELSE index

\* The waypoints from the next one to the end of the route, in travel order.
BuildRoutePolyline(routeId, active, coordinates) ==
    LET usable      == ExtractCoordinates(coordinates)
        travelOrder == IF active.reverse THEN Reverse(usable) ELSE usable
        pointIndex  == ClampIndex(active.pointIndex, Len(usable))
    IN  IF usable = <<>>
        THEN NoRoute
        ELSE [routeId   |-> routeId,
              waypoints |-> SubSeq(travelOrder, pointIndex + 1, Len(usable))]

(***************************************************************************)
(* External: the server's own reading of a point index, which the comment  *)
(* in buildRoutePolyline quotes: coordinates[length - (index + 1)] of a    *)
(* reversed route, coordinates[index] of a forward one (zero-based).       *)
(***************************************************************************)
ServerRoutePoint(active, coordinates) ==
    coordinates[IF active.reverse THEN Len(coordinates) - active.pointIndex
                                  ELSE active.pointIndex + 1]

PointIndexInRange(active, coordinates) ==
    active.pointIndex \in 0 .. Len(coordinates) - 1
=============================================================================
