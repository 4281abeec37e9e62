-------------------------- MODULE PositionMonitor --------------------------
(***************************************************************************)
(* src/monitoring/position-monitor.ts: the throttled scan that drives the  *)
(* position outputs.  A fix may start a tick; a tick asks every            *)
(* contributor for a fetch box, lists the points of interest in the union  *)
(* of the boxes, and hands the list to every contributor.  Fixes keep      *)
(* arriving while the list request is in flight.                           *)
(*                                                                         *)
(* Positions are points of a line.  Elapsed time since the last tick is    *)
(* kept as tick.since, up to MinInterval, past which the code does not     *)
(* distinguish it.  called is the module's output: the evaluate() calls    *)
(* made by the latest step, each on every contributor.                     *)
(***************************************************************************)
EXTENDS Integers, Sequences, FiniteSets

CONSTANTS
    Positions,      \* usable fixes
    Lists,          \* answers a list request can have
    NoPois,         \* the empty list
    MinMove,        \* minMoveMeters
    MinInterval,    \* minIntervalMs
    None            \* undefined: no fix yet, no tick yet

ASSUME PositionsAreIntegers == Positions \subseteq Int
ASSUME NoneIsNotAPosition == None \notin Positions
ASSUME ThresholdsArePositive == {MinMove, MinInterval} \subseteq Nat \ {0}

VARIABLES
    stopped,
    latestPosition,
    tick,       \* tickInFlight, lastTickPosition and now() - lastTickTime
    scans,      \* tick positions of the list requests not yet settled
    called,     \* output: the evaluate() calls of the latest step
    sinceScan   \* history: time since a list request was issued

monitorVars == <<stopped, latestPosition, tick, scans, called, sinceScan>>

Distance(p, q) == IF p < q THEN q - p ELSE p - q

\* The first fix always; then only past both thresholds.
ShouldTick(t, position) ==
    \/ t.position = None
    \/ t.since >= MinInterval /\ Distance(t.position, position) >= MinMove

\* The guards of maybeTick.
Starts(t, position) ==
    ~stopped /\ ~t.inFlight /\ position # None /\ ShouldTick(t, position)

Call(position, pois) == [position |-> position, pois |-> pois]

(***************************************************************************)
(* maybeTick, with runTick up to its first await.  t, pending and calls    *)
(* are the tick state, the open requests and the evaluate() calls left by  *)
(* the caller.  boxed says whether any contributor returned a fetch box: a *)
(* null box and a throwing buildFetchBox both leave a contributor without. *)
(* With no box at all the contributors see an empty list at once, and the  *)
(* maybeTick of that tick's own finally finds the throttle just committed. *)
(***************************************************************************)
MaybeTick(t, position, pending, calls, boxed) ==
    IF Starts(t, position)
    THEN /\ tick' = [inFlight |-> boxed, position |-> position, since |-> 0]
         /\ scans' = pending \cup (IF boxed THEN {position} ELSE {})
         /\ called' = IF boxed THEN calls
                      ELSE Append(calls, Call(position, NoPois))
         /\ sinceScan' = IF boxed THEN 0 ELSE sinceScan
    ELSE /\ tick' = t
         /\ scans' = pending
         /\ called' = calls
         /\ UNCHANGED sinceScan

\* A usable fix; an unusable one is dropped before it changes anything.
OnPosition(position, boxed) ==
    /\ ~stopped
    /\ latestPosition' = position
    /\ MaybeTick(tick, position, scans, <<>>, boxed)
    /\ UNCHANGED stopped

\* Mutation of Evaluations: contributors are given the tick's own position.
EvaluationsAtTickPosition(scan, pois) ==
    IF stopped THEN <<>> ELSE <<Call(scan, pois)>>

\* A list that lands after stop() drives no evaluation.
Evaluations(scan, pois) ==
    IF stopped THEN <<>> ELSE <<Call(latestPosition, pois)>>

\* The finally of runTick: the slot is free, a deferred fix may use it.
Finish(scan, calls, boxed) ==
    /\ MaybeTick([tick EXCEPT !.inFlight = FALSE], latestPosition,
                 scans \ {scan}, calls, boxed)
    /\ UNCHANGED <<stopped, latestPosition>>

ScanResolves(scan, pois, boxed) ==
    /\ scan \in scans
    /\ Finish(scan, Evaluations(scan, pois), boxed)

\* Mutation of ScanRejects: the slot is not released on the error path.
ScanRejectsKeepsSlot(scan, boxed) ==
    /\ scan \in scans
    /\ scans' = scans \ {scan}
    /\ called' = <<>>
    /\ UNCHANGED <<stopped, latestPosition, tick, sinceScan>>

\* A failed scan is logged; its tick has consumed the window all the same.
ScanRejects(scan, boxed) ==
    /\ scan \in scans
    /\ Finish(scan, <<>>, boxed)

Stop ==
    /\ ~stopped
    /\ stopped' = TRUE
    /\ called' = <<>>
    /\ UNCHANGED <<latestPosition, tick, scans, sinceScan>>

Later(n) == IF n < MinInterval THEN n + 1 ELSE n

Elapse ==
    /\ tick.since < MinInterval \/ sinceScan < MinInterval
    /\ tick' = [tick EXCEPT !.since = Later(@)]
    /\ sinceScan' = Later(sinceScan)
    /\ called' = <<>>
    /\ UNCHANGED <<stopped, latestPosition, scans>>
-----------------------------------------------------------------------------
Init ==
    /\ stopped = FALSE
    /\ latestPosition = None
    /\ tick = [inFlight |-> FALSE, position |-> None, since |-> 0]
    /\ scans = {}
    /\ called = <<>>
    /\ sinceScan = MinInterval

Settle(boxed) ==
    \E scan \in scans :
        \/ ScanRejects(scan, boxed)
        \/ \E pois \in Lists : ScanResolves(scan, pois, boxed)

Next ==
    \/ \E position \in Positions, boxed \in BOOLEAN : OnPosition(position, boxed)
    \/ \E boxed \in BOOLEAN : Settle(boxed)
    \/ Stop
    \/ Elapse

Spec == Init /\ [][Next]_monitorVars

\* Fixes keep coming, time passes, and every list request settles: each source
\* is raced against a timer (input-registry.ts).
Fairness ==
    /\ WF_monitorVars(Elapse)
    /\ WF_monitorVars(\E boxed \in BOOLEAN : Settle(boxed))
    /\ WF_monitorVars(\E p \in Positions, boxed \in BOOLEAN : OnPosition(p, boxed))

FairSpec == Spec /\ Fairness
-----------------------------------------------------------------------------
(* Properties. *)

\* Every variable of the monitor has its type.
TypeOK ==
    /\ stopped \in BOOLEAN
    /\ latestPosition \in Positions \cup {None}
    /\ tick \in [inFlight : BOOLEAN, position : Positions \cup {None},
                 since : 0 .. MinInterval]
    /\ scans \subseteq Positions
    /\ called \in Seq([position : Positions, pois : Lists \cup {NoPois}])
    /\ sinceScan \in 0 .. MinInterval

\* tickInFlight is set exactly while one list request is open: requests never
\* stack, and no path - error, stop, empty tick - leaves the slot taken with
\* nothing to free it, which would end all scanning (position-monitor.ts:114-116,
\* 204-209).
SlotMatchesScan ==
    /\ \A p, q \in scans : p = q
    /\ tick.inFlight <=> scans # {}

\* A list that arrives after stop() reaches no contributor, so it cannot raise
\* an alarm nobody will clear (position-monitor.ts:180-184).
NoEvaluationAfterStop == [][stopped => called' = <<>>]_monitorVars

\* Contributors are always evaluated at the newest fix, however far the vessel
\* moved while the list was fetched (position-monitor.ts:117-120, 185-189).
EvaluatesNewestFix ==
    [][\A i \in 1 .. Len(called') : called'[i].position = latestPosition']_monitorVars

\* Two list requests are never issued within one interval, whether the earlier
\* one succeeded, failed or is still open (position-monitor.ts:138-144).
ScansSpaced ==
    [][~(scans' \subseteq scans) => sinceScan = MinInterval]_monitorVars

Away == latestPosition # None /\ tick.position # None
        /\ Distance(latestPosition, tick.position) >= MinMove

\* A fix that was deferred is not forgotten: a vessel that has moved on since
\* the last tick gets another one, or moves back, or the monitor stops.
MovedVesselIsScanned == Away ~> (stopped \/ ~Away)
=============================================================================
