----------------------------- MODULE HazardWatch -----------------------------
(***************************************************************************)
(* The position monitor driving the proximity alarms over the aggregate    *)
(* POI source, up to the plugin's stop().  The proximity contributor       *)
(* always returns a box, so every tick of this composition issues a list   *)
(* request.                                                                *)
(*                                                                         *)
(* The aggregate list (src/inputs/input-registry.ts) is the union of what  *)
(* the sources that answered in time returned: a source that timed out or  *)
(* failed is left out, and the list is rejected only when every source     *)
(* failed outright.  The scan box covers ScanRadius around the position    *)
(* the tick started from.                                                  *)
(***************************************************************************)
EXTENDS PositionMonitor, ProximityAlarms

CONSTANTS
    Sources,        \* enabled POI sources
    SourceOf,       \* the source that reports each hazard
    ScanRadius,     \* vesselScanRadiusMeters(radiusMeters)
    Speed,          \* bound: how far the vessel moves between two fixes
    MaxFaults       \* bound: how many scans miss the answer of some source

ASSUME ScanCoversExit == ScanRadius \in Nat /\ ExitRadius <= ScanRadius
ASSUME EveryHazardHasASource == SourceOf \in [Hazards -> Sources]
ASSUME ListsAreHazardSets == Lists = SUBSET Hazards

VARIABLES
    faults,     \* history: scans so far that missed a source
    latest      \* history: the latest settled scan, its origin and answers

vars == <<stopped, latestPosition, tick, scans, called, sinceScan, active, wire,
          faults, latest>>

Outcomes == [Sources -> {"ok", "timeout", "error"}]

Answered(outcome) == {s \in Sources : outcome[s] = "ok"}

\* listPointsOfInterest of the aggregate rejects only when every source failed.
Rejected(outcome) == \A s \in Sources : outcome[s] = "error"

\* What a scan started at position finds in the sources that answered.
Found(position, outcome) ==
    {h \in Hazards : /\ SourceOf[h] \in Answered(outcome)
                     /\ Range(position, h) <= ScanRadius}

\* The contributors' reaction to the evaluate() calls of this step.
ProximityEvaluates ==
    IF called' = <<>>
    THEN UNCHANGED alarmVars
    ELSE Evaluate(called'[1].position, called'[1].pois)

Fix(position) ==
    /\ latestPosition # None => Distance(latestPosition, position) <= Speed
    /\ OnPosition(position, TRUE)
    /\ UNCHANGED <<active, wire, faults, latest>>

ScanSettles(scan, outcome) ==
    /\ Answered(outcome) # Sources => faults < MaxFaults
    /\ faults' = IF Answered(outcome) # Sources THEN faults + 1 ELSE faults
    /\ IF Rejected(outcome)
       THEN ScanRejects(scan, TRUE)
       ELSE ScanResolves(scan, Found(scan, outcome), TRUE)
    /\ ProximityEvaluates
    /\ latest' = [from |-> scan, answered |-> Answered(outcome)]

\* Mutation of Teardown: the alarm output's handle is not stopped.
TeardownKeepsAlarms ==
    /\ Stop
    /\ UNCHANGED <<active, wire, faults, latest>>

\* The plugin's teardown: the monitor, then the output handles.
Teardown ==
    /\ Stop
    /\ ClearAll
    /\ UNCHANGED <<faults, latest>>

TimePasses ==
    /\ Elapse
    /\ UNCHANGED <<active, wire, faults, latest>>

WatchInit ==
    /\ Init
    /\ AlarmInit
    /\ faults = 0
    /\ latest = [from |-> None, answered |-> {}]

WatchNext ==
    \/ \E position \in Positions : Fix(position)
    \/ \E scan \in scans, outcome \in Outcomes : ScanSettles(scan, outcome)
    \/ Teardown
    \/ TimePasses

WatchSpec == WatchInit /\ [][WatchNext]_vars

FairWatchSpec ==
    /\ WatchSpec
    /\ WF_vars(TimePasses)
    /\ WF_vars(\E position \in Positions : Fix(position))
    /\ WF_vars(\E scan \in scans, outcome \in Outcomes : ScanSettles(scan, outcome))
-----------------------------------------------------------------------------
(* Properties. *)

\* After the plugin has stopped, no hazard alarm is on, now or ever again, even
\* when a scan started before the stop answers after it (plugin.ts teardown,
\* position-monitor.ts:180-184).
StopLeavesNoAlarm == stopped => \A key \in SafeIds : wire[key] # "alarm"

\* The scan that just settled covers h: its source answered, and the vessel has
\* not outrun the box since the tick started.
Covered(h, reach) ==
    /\ SourceOf[h] \in latest'.answered
    /\ Distance(latest'.from, latestPosition') + reach <= ScanRadius

\* When a scan settles, every hazard within the radius of where the vessel is by
\* then is alarming, provided its own source answered: neither another source's
\* failure nor the travel during the request hides it
\* (input-registry.ts:176-239, proximity-alarms.ts:102-130).
CoveredHazardAlarms ==
    [][called' # <<>> =>
         \A h \in Hazards :
            Covered(h, Radius) /\ Range(latestPosition', h) <= Radius
              => wire'[SafeId[h]] = "alarm"]_vars

\* An alarm goes off only beyond the exit radius, never inside the hysteresis
\* band, unless its source did not answer, the vessel outran the scan box or the
\* plugin stopped (proximity-alarms.ts:100-123).
AlarmHoldsInBand ==
    [][\A h \in Hazards :
         Alarming(h) /\ wire'[SafeId[h]] # "alarm"
           => \/ stopped'
              \/ ~Covered(h, ExitRadius)
              \/ Range(latestPosition', h) > ExitRadius]_vars

Near(h) == latestPosition # None /\ Range(latestPosition, h) <= Radius

\* A vessel that stays within the radius of a hazard and keeps moving between
\* ticks is eventually warned, once scans stop missing sources.
MovingVesselIsWarned ==
    \A h \in Hazards :
        (<>[](Near(h) /\ ~stopped) /\ []<>Away) => []<>Alarming(h)

\* Inside the radius by more than the distance the throttle ignores.
WellInside(h) == latestPosition # None /\ Range(latestPosition, h) + MinMove <= Radius

\* README.md:58-60: a notification "fires when a Hazard point comes within a
\* configurable radius", so a vessel that comes well within it and stays there,
\* its fixes still arriving, is warned once sources answer.
HazardIsWarned ==
    \A h \in Hazards : [](WellInside(h) /\ ~stopped) ~> Alarming(h)

\* README: the notification "clears once the vessel moves beyond" the radius
\* (README.md:58-60), so not while the vessel is inside it.
ClearsOnlyBeyondRadius ==
    [][\A h \in Hazards :
         Alarming(h) /\ wire'[SafeId[h]] = "normal" /\ ~stopped'
           => Range(latestPosition', h) > Radius]_vars
=============================================================================
