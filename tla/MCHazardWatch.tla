---------------------------- MODULE MCHazardWatch ----------------------------
(* A vessel on a stretch of water with two hazards of two sources. *)
EXTENDS HazardWatch

MCPositions == 0 .. 5
MCHazards == {"ac-1", "osm-2"}
MCPlace == [h \in MCHazards |-> IF h = "ac-1" THEN 1 ELSE 4]
MCLists == SUBSET MCHazards
MCSources == {"ac", "osm"}
MCSourceOf == [h \in MCHazards |-> IF h = "ac-1" THEN "ac" ELSE "osm"]

\* Both ids are path-safe, as every source's are: sanitizePoiId leaves them alone.
MCSafeId == [h \in MCHazards |-> h]
=============================================================================
