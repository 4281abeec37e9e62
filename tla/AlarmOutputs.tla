---------------------------- MODULE AlarmOutputs ----------------------------
(***************************************************************************)
(* The bridge air-draft and route-hazard outputs on the ticks of the       *)
(* position monitor: src/outputs/bridge-air-draft and                      *)
(* src/outputs/route-hazard, both started, the air-draft check enabled.    *)
(*                                                                         *)
(* A tick asks each output for its box, fetches one list for both and      *)
(* hands it, with the newest fix, to each in turn; PositionMonitor models  *)
(* when ticks start, here any move may start one.  The list holds every    *)
(* point of interest inside the union of the boxes.                        *)
(***************************************************************************)
EXTENDS BridgeClearance, RouteCorridor

CONSTANTS
    At,             \* grid position of each point of interest
    Waters,         \* grid positions of the vessel
    Routes,         \* routes the course reader may hold; <<>> for none
    Drafts,         \* values of design.airHeight, None when absent
    NearRadius,     \* radiusMeters
    LeaveRadius,    \* radiusMeters * EXIT_RADIUS_FACTOR
    NearScan,       \* scanRadiusMeters
    Charted,        \* clearance the bridge's own source publishes, or None
    TwinCharted     \* and its twin's source, None where there is no twin

ASSUME RadiiAreOrdered ==
    /\ NearRadius \in Nat /\ LeaveRadius \in Nat /\ NearScan \in Nat
    /\ NearRadius <= LeaveRadius /\ LeaveRadius <= NearScan
ASSUME LengthsAreIntegers ==
    /\ Drafts \subseteq Int \cup {None}
    /\ Charted \in [Points -> Int \cup {None}] /\ TwinCharted \in [Points -> Int \cup {None}]
ASSUME OutputsAreTwo == Outputs = {"bridge", "route"}

Place == [x : -HalfCircle .. HalfCircle - 1, y : Int]
ASSUME PlacesAreOnTheGrid ==
    At \in [Points -> Place] /\ Waters \subseteq Place /\ \A route \in Routes : route \in Seq(Place)

VARIABLES
    fix,            \* the newest fix
    lastTick,       \* the fix the last tick started from
    course,         \* what getRouteAhead would return now
    airHeight,      \* design.airHeight
    tick,           \* the tick in flight: its fix, route and box, or None
    bridgeAlarms,   \* tracker of the bridge clearance alarms
    warnings,       \* tracker of the route-hazard alarms, with their messages
    halted

outputVars == <<fix, lastTick, course, airHeight, tick, cached, fetching,
                bridgeAlarms, warnings, halted>>

SquaredDistance(a, b) == East(a, b) * East(a, b) + (a.y - b.y) * (a.y - b.y)
IsWithin(reach, a, b) == SquaredDistance(a, b) <= reach * reach

NoWarning == [along |-> -1, low |-> FALSE]

\* routeLegPoints: from the vessel through every waypoint.
LegPoints(position, route) == <<position>> \o route

\* The grid's one condition on routes: without it Length is no distance.
ASSUME LegsRunAlongAnAxis ==
    \A position \in Waters, route \in Routes :
        LET points == LegPoints(position, route)
        IN  \A leg \in 1 .. Len(points) - 1 :
                points[leg].x = points[leg + 1].x \/ points[leg].y = points[leg + 1].y

\* buildFetchBox of the bridge output.
BridgeBox(position) == BoxAround(position, NearScan)

\* Both outputs' boxes; a tick without a route has the bridge box only.
BoxOf(position, route) ==
    IF route = <<>> THEN BridgeBox(position)
    ELSE UnionBox(BridgeBox(position), CorridorBox(LegPoints(position, route)))

TickStarts ==
    /\ ~halted /\ tick = None /\ fix # lastTick
    /\ tick' = [from |-> fix, route |-> course, box |-> BoxOf(fix, course)]
    /\ lastTick' = fix
    /\ UNCHANGED <<fix, course, airHeight, cached, fetching, bridgeAlarms, warnings, halted>>

FoundBy(t) == {p \in Points : Within(t.box, At[p])}

\* The bridges of a list known to be too low.  With no air draft Blocks holds of
\* none, as clearAll has it.
Blocking(found, airDraft, merged) ==
    {p \in found : IsBridge[p] /\ Blocks(ClearanceMeters("bridge", p, merged), airDraft)}

\* raise: not alarming yet, and inside the radius.
Raised(blocking) == {p \in blocking \ bridgeAlarms : IsWithin(NearRadius, fix, At[p])}

\* Not cleared: alarming already, and inside the wider exit radius.
Kept(blocking) == {p \in blocking \cap bridgeAlarms : IsWithin(LeaveRadius, fix, At[p])}

\* evaluate of the bridge alarms: what alarms afterwards.
BridgeInAlarm(blocking) == Raised(blocking) \cup Kept(blocking)

\* Every bridge found is resolved, before its distance is looked at.
ResolvedByBridge(found, airDraft) ==
    IF airDraft = None THEN {} ELSE {p \in found : IsBridge[p]}

\* The scan of this tick's route, from the newest fix, up to the look-ahead.
FlagsOf(t, found) ==
    [p \in Points |->
        IF p \notin found \/ t.route = <<>> THEN NotFlagged
        ELSE LET flag == Flag(LegPoints(fix, t.route), At[p])
             IN  IF flag = NotFlagged THEN NotFlagged
                 ELSE IF flag.along > LookAhead THEN NotFlagged ELSE flag]

\* evaluate of the route alarms with the verdicts of resolveTooLowBridges: an
\* entry for every flagged point, its message renewed, and no other.
WarningsOf(flags, airDraft, merged) ==
    [p \in Points |->
        IF flags[p] = NotFlagged THEN NoWarning
        ELSE [along |-> flags[p].along,
              low |-> IsBridge[p] /\ Blocks(ClearanceMeters("route", p, merged), airDraft)]]

ResolvedByRoute(flags, airDraft) ==
    IF airDraft = None THEN {} ELSE {p \in Points : IsBridge[p] /\ flags[p] # NotFlagged}

Evaluated(t, merged) ==
    LET found == FoundBy(t)
        airDraft == AirDraft(airHeight)
        flags == FlagsOf(t, found)
    IN  /\ bridgeAlarms' = BridgeInAlarm(Blocking(found, airDraft, merged))
        /\ warnings' = WarningsOf(flags, airDraft, merged)
        /\ fetching' = Fetching([o \in Outputs |->
               IF o = "bridge" THEN ResolvedByBridge(found, airDraft)
               ELSE ResolvedByRoute(flags, airDraft)], merged)

\* The list arrives, these bridges merged with their twins: OpenSeaMap may have
\* answered for it or not.  After the stop it drives nothing.
ListArrives(merged) ==
    /\ tick # None
    /\ tick' = None
    /\ IF halted THEN UNCHANGED <<bridgeAlarms, warnings, fetching>>
       ELSE Evaluated(tick, merged)
    /\ UNCHANGED <<fix, lastTick, course, airHeight, cached, halted>>

\* The list is rejected: this tick has no evaluation.
ListFails ==
    /\ tick # None
    /\ tick' = None
    /\ UNCHANGED <<fix, lastTick, course, airHeight, cached, fetching,
                   bridgeAlarms, warnings, halted>>

DetailArrives(o, p, ok) ==
    /\ DetailReturns(o, p, ok)
    /\ UNCHANGED <<fix, lastTick, course, airHeight, tick, bridgeAlarms, warnings, halted>>

\* Mutation of Halt: the route output's warnings are not cleared.
HaltBridgeOnly ==
    /\ ~halted
    /\ halted' = TRUE
    /\ bridgeAlarms' = {}
    /\ UNCHANGED <<fix, lastTick, course, airHeight, tick, cached, fetching, warnings>>

\* Teardown: the monitor stops, then both outputs clear their alarms.
Halt ==
    /\ ~halted
    /\ halted' = TRUE
    /\ bridgeAlarms' = {}
    /\ warnings' = [p \in Points |-> NoWarning]
    /\ UNCHANGED <<fix, lastTick, course, airHeight, tick, cached, fetching>>

\* The world: fixes, the course and design.airHeight.
Move(position) ==
    /\ ~halted
    /\ position # fix
    /\ fix' = position
    /\ UNCHANGED <<lastTick, course, airHeight, tick, cached, fetching,
                   bridgeAlarms, warnings, halted>>

CourseChanges(route) ==
    /\ ~halted
    /\ course' = route
    /\ UNCHANGED <<fix, lastTick, airHeight, tick, cached, fetching,
                   bridgeAlarms, warnings, halted>>

AirHeightChanges(height) ==
    /\ ~halted
    /\ airHeight' = height
    /\ UNCHANGED <<fix, lastTick, course, tick, cached, fetching,
                   bridgeAlarms, warnings, halted>>
-----------------------------------------------------------------------------
\* The empty trackers of createBridgeClearanceAlarms and createRouteHazardAlarms.
BridgeAlarmsInit == bridgeAlarms = {}
RouteAlarmsInit == warnings = [p \in Points |-> NoWarning]

OutputInit ==
    /\ fix \in Waters /\ lastTick = None
    /\ course \in Routes /\ airHeight \in Drafts
    /\ tick = None
    /\ ResolverInit /\ BridgeAlarmsInit /\ RouteAlarmsInit
    /\ halted = FALSE

OutputNext ==
    \/ TickStarts
    \/ \E merged \in SUBSET WithTwin : ListArrives(merged)
    \/ ListFails
    \/ \E o \in Outputs, p \in Points, ok \in BOOLEAN : DetailArrives(o, p, ok)
    \/ Halt
    \/ \E position \in Waters : Move(position)
    \/ \E route \in Routes : CourseChanges(route)
    \/ \E height \in Drafts : AirHeightChanges(height)

OutputSpec == OutputInit /\ [][OutputNext]_outputVars
-----------------------------------------------------------------------------
(* Properties. *)

\* Too low for the draft of the moment by what its own source charts, or its twin's.
TooLow(p) == IsBridge[p] /\ Blocks(Charted[p], AirDraft(airHeight))
TwinTooLow(p) == IsBridge[p] /\ Blocks(TwinCharted[p], AirDraft(airHeight))

\* The summary carries the twin's clearance, and it is the higher.
Masked(p, merged) ==
    p \in merged /\ TwinCharted[p] # None /\ TwinCharted[p] > Charted[p]

\* No alarm and no clearance clause is ever made up: each that a tick leaves is
\* about a bridge for which a source, its own or the twin's the list merged into
\* it, publishes a clearance too low for the draft the vessel has at that moment,
\* an alarm moreover about one within the exit radius of its newest fix
\* (bridge-clearance-alarms.ts evaluate, bridge-air-draft.test.ts).
ClearanceClaimsAreTrue ==
    [][\A merged \in SUBSET WithTwin : ListArrives(merged) /\ ~halted =>
         LET isTooLow(p) == TooLow(p) \/ (p \in merged /\ TwinTooLow(p)) IN
         /\ \A p \in bridgeAlarms' : isTooLow(p) /\ IsWithin(LeaveRadius, fix, At[p])
         /\ \A p \in Points : warnings'[p].low => isTooLow(p)]_outputVars

\* After a tick every bridge of its box within the radius of the newest fix that
\* is too low by its own source alarms, whichever way its clearance came to be
\* known, or its detail is being asked for, unless a merged twin's higher clearance
\* masks it; one too low by a merged twin's clearance alarms too.  A tag of another
\* kind, a detail that failed some ticks ago, a draft that was unknown or a twin
\* that no list brings any more never pins a bridge to silence
\* (bridge-clearance-resolver.ts:14-24).
LowBridgeAlarmsOrIsAsked ==
    [][\A merged \in SUBSET WithTwin : ListArrives(merged) /\ ~halted =>
         \A p \in FoundBy(tick) :
            IsWithin(NearRadius, fix, At[p])
            /\ ((TooLow(p) /\ ~Masked(p, merged)) \/ (p \in merged /\ TwinTooLow(p)))
              => p \in bridgeAlarms' \/ fetching'["bridge"][p] > 0]_outputVars

\* The lowest clearance any source has reported decides, as the dedupe pass has it
\* (dedupe-pois.ts:151-156): also where a merged twin reports a higher one and the
\* resolver has the lower one from the detail.
LowestReportDecides ==
    [][\A merged \in SUBSET WithTwin : ListArrives(merged) /\ ~halted =>
         \A p \in FoundBy(tick) :
            TooLow(p) /\ cached["bridge"][p] # None /\ IsWithin(NearRadius, fix, At[p])
              => p \in bridgeAlarms']_outputVars

\* The warnings a tick leaves are those of the route read when it started, seen
\* from the newest fix: each point of the list whose closest pass lies within the
\* look-ahead, at that pass's distance, and nothing else (route-corridor.ts:144-157:
\* a point near a bend projects onto two legs).
WarningsFollowRoute ==
    [][(\E merged \in SUBSET WithTwin : ListArrives(merged)) /\ ~halted =>
         \A p \in Points :
            LET pass == IF p \in FoundBy(tick) /\ tick.route # <<>>
                        THEN ClosestPass(LegPoints(fix, tick.route), At[p]) ELSE NotFlagged
                ahead == IF pass = NotFlagged THEN FALSE ELSE pass.along <= LookAhead
            IN  warnings'[p].along = IF ahead THEN pass.along ELSE -1]_outputVars

\* The box of a tick holds every point the scan of its route could warn of from
\* where the tick started, also on the leg that crosses the look-ahead, but for
\* how far that leg bows off its parallel there: a route along meridians, or of
\* short legs, is covered whole.  Routes across the meridian of 180 degrees are
\* left out, as position-utilities.ts:152-163 and 283-288 have it.
FetchBoxCoversCorridor ==
    tick # None /\ tick.route # <<>> =>
        LET points == LegPoints(tick.from, tick.route) IN
        ClearOfMeridian(points) =>
            \A p \in Points, leg \in 1 .. Len(points) - 1 :
                IsPassing(points, At[p], leg) /\ PassOn(points, At[p], leg).along <= LookAhead
                  => Within(Widened(tick.box, Abs(BowAt(points, At[p], leg))), At[p])

\* The box encloses the route ahead, corridor and all, also where a leg bows
\* (route-hazard-output.ts:54-58 and 200-201).
FetchBoxEnclosesRoute ==
    tick # None /\ tick.route # <<>> =>
        LET points == LegPoints(tick.from, tick.route) IN
        ClearOfMeridian(points) =>
            \A p \in Points :
                (\E pass \in Passes(points, At[p]) : pass.along <= LookAhead)
                  => Within(tick.box, At[p])

\* After the plugin has stopped no bridge or route alarm is on, also when a list
\* or a detail it had asked for arrives afterwards.
HaltLeavesNoAlarm ==
    halted => bridgeAlarms = {} /\ \A p \in Points : warnings[p] = NoWarning
=============================================================================
