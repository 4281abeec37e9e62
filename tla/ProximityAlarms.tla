-------------------------- MODULE ProximityAlarms --------------------------
(***************************************************************************)
(* src/outputs/proximity-alarm/proximity-alarms.ts on top of               *)
(* src/shared/notification-tracker.ts and notification-path.ts: which      *)
(* hazards are alarming, and what the notification paths show.             *)
(*                                                                         *)
(* A hazard is its POI id.  SafeId is sanitizePoiId: the path segment the  *)
(* id is given, which is the id itself when it is already path-safe.  The  *)
(* vessel and the hazards are points of a line.                            *)
(***************************************************************************)
EXTENDS Integers, FiniteSets

CONSTANTS
    Hazards,        \* ids of the Hazard points of interest
    Place,          \* where each hazard is
    SafeId,         \* sanitizePoiId
    Radius,         \* radiusMeters
    ExitRadius      \* radiusMeters * EXIT_RADIUS_FACTOR

ASSUME PlacesAreIntegers == Place \in [Hazards -> Int]
ASSUME ExitBeyondRadius == Radius \in Nat /\ ExitRadius \in Nat /\ Radius <= ExitRadius

VARIABLES
    active,     \* keys of the tracker's map
    wire        \* state of the notification on each path, "none" before any

alarmVars == <<active, wire>>

SafeIds == {SafeId[h] : h \in Hazards}

Range(p, h) == IF p < Place[h] THEN Place[h] - p ELSE p - Place[h]

\* Mutation of Threshold: no hysteresis.
ThresholdWithoutBand(h) == Radius

\* A hazard already alarming holds until the wider exit radius.
Threshold(h) == IF SafeId[h] \in active THEN ExitRadius ELSE Radius

\* Keys are the raw ids, as in the code's inAlarm map.
InAlarm(position, pois) ==
    {h \in Hazards \cap pois : Range(position, h) <= Threshold(h)}

(***************************************************************************)
(* evaluate: raise every hazard that is in alarm and not tracked, then     *)
(* clear every tracked key that is not a key of inAlarm.  Tracked keys are *)
(* sanitized, those of inAlarm are not.                                    *)
(***************************************************************************)
Evaluate(position, pois) ==
    LET inAlarm == InAlarm(position, pois)
        raised  == {SafeId[h] : h \in inAlarm} \ active
        cleared == {key \in active \cup raised : key \notin inAlarm}
    IN  /\ active' = (active \cup raised) \ cleared
        /\ wire' = [key \in SafeIds |-> CASE key \in cleared -> "normal"
                                          [] key \in raised \ cleared -> "alarm"
                                          [] OTHER -> wire[key]]

\* Mutation of ClearAll: the tracker forgets its keys and emits nothing.
ClearAllSilently == active' = {} /\ UNCHANGED wire

\* clearAll, called by the output's stop().
ClearAll ==
    /\ active' = {}
    /\ wire' = [key \in SafeIds |-> IF key \in active THEN "normal" ELSE wire[key]]

AlarmInit ==
    /\ active = {}
    /\ wire = [key \in SafeIds |-> "none"]

AlarmTypeOK ==
    /\ active \subseteq SafeIds
    /\ wire \in [SafeIds -> {"none", "alarm", "normal"}]

\* The notifications on the wire and the tracker never disagree, so every alarm
\* the crew sees is one the plugin will clear (notification-tracker.ts:68-73).
WireMatchesTracker == \A key \in SafeIds : wire[key] = "alarm" <=> key \in active

Alarming(h) == wire[SafeId[h]] = "alarm"
=============================================================================
