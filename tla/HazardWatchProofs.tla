-------------------------- MODULE HazardWatchProofs --------------------------
(***************************************************************************)
(* The position monitor and the proximity alarms.  First the monitor on    *)
(* its own, for every set of positions, every pair of thresholds and every *)
(* answer a list request may have; then what the two do together, for any  *)
(* hazards, sources, radii and movements of the vessel.                    *)
(***************************************************************************)
EXTENDS HazardWatch, TLAPS


\* The tick state a caller hands to maybeTick: its slot is taken exactly while
\* the one pending request is open.
SlotOk(t, pending) ==
    /\ t \in [inFlight : BOOLEAN, position : Positions \cup {None},
              since : 0 .. MinInterval]
    /\ pending \subseteq Positions
    /\ \A p, q \in pending : p = q
    /\ t.inFlight <=> pending # {}

\* The throttle never runs ahead of the time since a request was issued.
ThrottleOk(t, sinceRequest) ==
    /\ t.since <= sinceRequest
    /\ t.position = None => sinceRequest = MinInterval

Inv ==
    /\ TypeOK
    /\ SlotMatchesScan
    /\ ThrottleOk(tick, sinceScan)
    /\ scans # {} => latestPosition # None      \* requests start from a fix

CallType == [position : Positions, pois : Lists \cup {NoPois}]

-----------------------------------------------------------------------------
\* maybeTick keeps the invariant, issues a request only when the throttle's
\* interval has passed since the last one, and evaluates at the fix it is given.
LEMMA MaybeTickKeepsInv ==
    ASSUME NEW t, NEW pending, NEW position \in Positions \cup {None},
           NEW calls \in Seq(CallType), NEW boxed \in BOOLEAN,
           SlotOk(t, pending), ThrottleOk(t, sinceScan),
           sinceScan \in 0 .. MinInterval,
           MaybeTick(t, position, pending, calls, boxed)
    PROVE  /\ SlotOk(tick', scans') /\ ThrottleOk(tick', sinceScan')
           /\ sinceScan' \in 0 .. MinInterval
           /\ called' \in Seq(CallType)
           /\ ~(scans' \subseteq pending) => sinceScan = MinInterval
           /\ \/ called' = calls
              \/ called' = Append(calls, Call(position, NoPois)) /\ position # None
           /\ stopped => called' = calls
           /\ scans' # {} => pending # {} \/ position # None
<1>1. MinInterval \in Nat
  BY ThresholdsArePositive
<1>2. CASE Starts(t, position)
  <2>1. /\ position \in Positions /\ position # None /\ ~stopped
        /\ ~t.inFlight /\ pending = {}
        /\ sinceScan = MinInterval
    BY <1>1, <1>2 DEF Starts, ShouldTick, SlotOk, ThrottleOk
  <2>2. CASE boxed
    <3>1. /\ tick' = [inFlight |-> TRUE, position |-> position, since |-> 0]
          /\ scans' = {position} /\ called' = calls /\ sinceScan' = 0
      BY <1>2, <2>1, <2>2 DEF MaybeTick
    <3> QED  BY <1>1, <2>1, <3>1 DEF SlotOk, ThrottleOk
  <2>3. CASE ~boxed
    <3>1. /\ tick' = [inFlight |-> FALSE, position |-> position, since |-> 0]
          /\ scans' = {} /\ called' = Append(calls, Call(position, NoPois))
          /\ sinceScan' = sinceScan
      BY <1>2, <2>1, <2>3 DEF MaybeTick
    <3>2. Call(position, NoPois) \in CallType
      BY <2>1 DEF Call, CallType
    <3> QED  BY <1>1, <2>1, <3>1, <3>2 DEF SlotOk, ThrottleOk
  <2> QED  BY <2>2, <2>3
<1>3. CASE ~Starts(t, position)
  BY <1>3 DEF MaybeTick
<1> QED  BY <1>2, <1>3
-----------------------------------------------------------------------------
(* What any step does to the output and to the open requests. *)

\* The evaluate() calls of a step are at the newest fix, none of them follows
\* stop(), and a new request comes an interval after the last one.
StepOk ==
    /\ \A i \in 1 .. Len(called') : called'[i].position = latestPosition'
    /\ stopped => called' = <<>>
    /\ ~(scans' \subseteq scans) => sinceScan = MinInterval

\* The parts of the invariant that a caller of maybeTick relies on.
LEMMA InvParts ==
    ASSUME Inv
    PROVE  /\ SlotOk(tick, scans) /\ ThrottleOk(tick, sinceScan)
           /\ sinceScan \in 0 .. MinInterval
           /\ latestPosition \in Positions \cup {None}
           /\ stopped \in BOOLEAN
           /\ scans # {} => latestPosition # None
BY DEF Inv, TypeOK, SlotMatchesScan, SlotOk

LEMMA PartsGiveInv ==
    ASSUME SlotOk(tick', scans'), ThrottleOk(tick', sinceScan'),
           sinceScan' \in 0 .. MinInterval,
           latestPosition' \in Positions \cup {None},
           called' \in Seq(CallType), stopped' \in BOOLEAN,
           scans' # {} => latestPosition' # None
    PROVE  Inv'
BY DEF Inv, TypeOK, SlotMatchesScan, SlotOk, CallType

LEMMA OnPositionKeepsInv ==
    ASSUME Inv, NEW position \in Positions, NEW boxed \in BOOLEAN,
           OnPosition(position, boxed)
    PROVE  Inv' /\ StepOk
<1>1. /\ latestPosition' = position /\ stopped' = stopped
      /\ MaybeTick(tick, position, scans, <<>>, boxed)
  BY DEF OnPosition
<1>2. <<>> \in Seq(CallType)
  OBVIOUS
<1>3. /\ SlotOk(tick', scans') /\ ThrottleOk(tick', sinceScan')
      /\ sinceScan' \in 0 .. MinInterval /\ called' \in Seq(CallType)
      /\ ~(scans' \subseteq scans) => sinceScan = MinInterval
      /\ called' = <<>> \/ called' = Append(<<>>, Call(position, NoPois))
      /\ stopped => called' = <<>>
      /\ position # None
  BY <1>1, <1>2, InvParts, MaybeTickKeepsInv, NoneIsNotAPosition
<1>4. \A i \in 1 .. Len(called') : called'[i].position = position
  BY <1>3 DEF Call
<1> QED  BY <1>1, <1>3, <1>4, InvParts, PartsGiveInv DEF StepOk

\* The end of a scan, with the evaluate() calls its outcome makes.
LEMMA FinishKeepsInv ==
    ASSUME Inv, NEW scan \in scans, NEW boxed \in BOOLEAN, NEW calls,
           calls = <<>> \/ \E pois \in Lists : calls = Evaluations(scan, pois),
           Finish(scan, calls, boxed)
    PROVE  Inv' /\ StepOk
<1> DEFINE freed == [tick EXCEPT !.inFlight = FALSE]
<1>1. /\ stopped' = stopped /\ latestPosition' = latestPosition
      /\ MaybeTick(freed, latestPosition, scans \ {scan}, calls, boxed)
  BY DEF Finish
<1>2. SlotOk(freed, scans \ {scan}) /\ ThrottleOk(freed, sinceScan)
  BY InvParts DEF SlotOk, ThrottleOk
<1>3. latestPosition \in Positions /\ latestPosition # None
  BY InvParts
<1>4. /\ calls \in Seq(CallType)
      /\ \A i \in 1 .. Len(calls) : calls[i].position = latestPosition
      /\ stopped => calls = <<>>
  <2>1. CASE calls = <<>>
    BY <2>1
  <2>2. CASE ~stopped /\ \E pois \in Lists : calls = <<Call(latestPosition, pois)>>
    <3>1. PICK pois \in Lists : calls = <<Call(latestPosition, pois)>>
      BY <2>2
    <3>2. /\ Call(latestPosition, pois) \in CallType
          /\ Call(latestPosition, pois).position = latestPosition
      BY <1>3 DEF Call, CallType
    <3> QED  BY <2>2, <3>1, <3>2
  <2> QED  BY <2>1, <2>2 DEF Evaluations
<1> HIDE DEF freed
<1>5. /\ SlotOk(tick', scans') /\ ThrottleOk(tick', sinceScan')
      /\ sinceScan' \in 0 .. MinInterval /\ called' \in Seq(CallType)
      /\ ~(scans' \subseteq scans \ {scan}) => sinceScan = MinInterval
      /\ called' = calls \/ called' = Append(calls, Call(latestPosition, NoPois))
      /\ stopped => called' = calls
  BY <1>1, <1>2, <1>3, <1>4, InvParts, MaybeTickKeepsInv
<1>6. \A i \in 1 .. Len(called') : called'[i].position = latestPosition
  <2>1. CASE called' = calls
    BY <1>4, <2>1
  <2>2. CASE called' = Append(calls, Call(latestPosition, NoPois))
    <3>1. Call(latestPosition, NoPois).position = latestPosition
      BY DEF Call
    <3>2. /\ Len(called') = Len(calls) + 1
          /\ called'[Len(calls) + 1] = Call(latestPosition, NoPois)
          /\ \A i \in 1 .. Len(calls) : called'[i] = calls[i]
      BY <1>4, <2>2
    <3> QED  BY <1>4, <3>1, <3>2
  <2> QED  BY <1>5, <2>1, <2>2
<1> QED  BY <1>1, <1>3, <1>4, <1>5, <1>6, InvParts, PartsGiveInv DEF StepOk

LEMMA StopKeepsInv ==
    ASSUME Inv, Stop
    PROVE  Inv' /\ StepOk
BY DEF Inv, TypeOK, SlotMatchesScan, ThrottleOk, Stop, StepOk

LEMMA ElapseKeepsInv ==
    ASSUME Inv, Elapse
    PROVE  Inv' /\ StepOk
<1>1. MinInterval \in Nat
  BY ThresholdsArePositive
<1>2. SlotOk(tick', scans') /\ ThrottleOk(tick', sinceScan')
  BY <1>1, InvParts DEF Elapse, Later, SlotOk, ThrottleOk
<1>3. sinceScan' \in 0 .. MinInterval /\ called' = <<>> /\ <<>> \in Seq(CallType)
  BY <1>1, InvParts DEF Elapse, Later
<1> QED  BY <1>2, <1>3, InvParts, PartsGiveInv DEF Elapse, StepOk

LEMMA InitInv == Init => Inv
<1> SUFFICES ASSUME Init PROVE Inv
  OBVIOUS
<1>1. MinInterval \in Nat
  BY ThresholdsArePositive
<1>2. tick \in [inFlight : BOOLEAN, position : Positions \cup {None},
                since : 0 .. MinInterval]
  <2>1. 0 \in 0 .. MinInterval /\ None \in Positions \cup {None}
    BY <1>1
  <2>2. tick = [inFlight |-> FALSE, position |-> None, since |-> 0]
    BY DEF Init
  <2> QED  BY <2>1, <2>2, Zenon
<1>3. called \in Seq([position : Positions, pois : Lists \cup {NoPois}])
  <2>1. <<>> \in Seq(CallType)
    OBVIOUS
  <2> QED  BY <2>1, Zenon DEF Init, CallType
<1>4. TypeOK
  <2>1. sinceScan \in 0 .. MinInterval
    BY <1>1 DEF Init
  <2>2. /\ stopped \in BOOLEAN /\ scans \subseteq Positions
        /\ latestPosition \in Positions \cup {None}
    BY Zenon DEF Init
  <2> QED  BY <1>2, <1>3, <2>1, <2>2, Zenon DEF TypeOK
<1>5. SlotMatchesScan /\ ThrottleOk(tick, sinceScan)
  BY <1>1 DEF Init, SlotMatchesScan, ThrottleOk
<1> QED  BY <1>4, <1>5 DEF Init, Inv

LEMMA NextInv == Inv /\ Next => Inv' /\ StepOk
<1> SUFFICES ASSUME Inv, Next PROVE Inv' /\ StepOk
  OBVIOUS
<1>1. CASE \E position \in Positions, boxed \in BOOLEAN : OnPosition(position, boxed)
  BY <1>1, OnPositionKeepsInv
<1>2. CASE \E boxed \in BOOLEAN : Settle(boxed)
  BY <1>2, FinishKeepsInv DEF Settle, ScanRejects, ScanResolves
<1>3. CASE Stop
  BY <1>3, StopKeepsInv
<1>4. CASE Elapse
  BY <1>4, ElapseKeepsInv
<1> QED  BY <1>1, <1>2, <1>3, <1>4 DEF Next

LEMMA StutterKeepsInv == Inv /\ UNCHANGED monitorVars => Inv'
BY DEF Inv, TypeOK, SlotMatchesScan, ThrottleOk, monitorVars

\* Every reachable state of the monitor satisfies the invariant.
THEOREM InvHolds == Spec => []Inv
BY InitInv, NextInv, StutterKeepsInv, PTL DEF Spec
-----------------------------------------------------------------------------
(* What follows from it. *)

\* The monitor's variables have their types (position-monitor.ts:110-121).
THEOREM TypeCorrect == Spec => []TypeOK
<1>1. Inv => TypeOK
  BY DEF Inv
<1> QED  BY <1>1, InvHolds, PTL

\* tickInFlight is exactly "a list request is open", through errors, stops and
\* ticks without a box (position-monitor.ts:114-116, 204-209).
THEOREM SlotIsExact == Spec => []SlotMatchesScan
<1>1. Inv => SlotMatchesScan
  BY DEF Inv
<1> QED  BY <1>1, InvHolds, PTL

\* No list that lands after stop() reaches a contributor
\* (position-monitor.ts:180-184).
THEOREM StopEndsEvaluation == Spec => NoEvaluationAfterStop
<1>1. Inv /\ [Next]_monitorVars => [stopped => called' = <<>>]_monitorVars
  BY NextInv DEF StepOk
<1> QED  BY <1>1, InvHolds, PTL DEF Spec, NoEvaluationAfterStop

\* Contributors see the newest fix, not the one the tick began at
\* (position-monitor.ts:117-120, 185-189).
THEOREM EvaluationIsCurrent == Spec => EvaluatesNewestFix
<1>1. Inv /\ [Next]_monitorVars =>
        [\A i \in 1 .. Len(called') : called'[i].position = latestPosition']_monitorVars
  BY NextInv DEF StepOk
<1> QED  BY <1>1, InvHolds, PTL DEF Spec, EvaluatesNewestFix

\* List requests are an interval apart, however the earlier one ended
\* (position-monitor.ts:138-144).
THEOREM RequestsAreSpaced == Spec => ScansSpaced
<1>1. Inv /\ [Next]_monitorVars =>
        [~(scans' \subseteq scans) => sinceScan = MinInterval]_monitorVars
  BY NextInv DEF StepOk
<1> QED  BY <1>1, InvHolds, PTL DEF Spec, ScansSpaced
-----------------------------------------------------------------------------
(* The monitor with the alarms. *)

\* sanitizePoiId leaves every id alone, as it does those the sources make.
IdsAreSafe == \A h \in Hazards : SafeId[h] = h

\* The monitor's own invariant, the tracker in step with the wire, and no alarm
\* tracked once the plugin has stopped.
WatchInv ==
    /\ Inv
    /\ AlarmTypeOK
    /\ WireMatchesTracker
    /\ stopped => active = {}
-----------------------------------------------------------------------------
(* The alarms on their own. *)

\* evaluate() keeps the wire in step with the tracker, safe ids or not.
LEMMA EvaluateKeepsWire ==
    ASSUME AlarmTypeOK, WireMatchesTracker, NEW position, NEW pois,
           Evaluate(position, pois)
    PROVE  AlarmTypeOK' /\ WireMatchesTracker'
<1> DEFINE inAlarm == InAlarm(position, pois)
           raised  == {SafeId[h] : h \in inAlarm} \ active
           cleared == {key \in active \cup raised : key \notin inAlarm}
<1>1. /\ active' = (active \cup raised) \ cleared
      /\ wire' = [key \in SafeIds |-> CASE key \in cleared -> "normal"
                                        [] key \in raised \ cleared -> "alarm"
                                        [] OTHER -> wire[key]]
  BY DEF Evaluate
<1>2. raised \subseteq SafeIds /\ raised \cap active = {}
  BY DEF InAlarm, SafeIds
<1> HIDE DEF raised, cleared, inAlarm
<1>3. ASSUME NEW key \in SafeIds
      PROVE  /\ key \in cleared => wire'[key] = "normal"
             /\ key \in raised \ cleared => wire'[key] = "alarm"
             /\ key \notin cleared /\ key \notin raised => wire'[key] = wire[key]
  BY <1>1
<1>4. \A key \in SafeIds : wire'[key] \in {"none", "alarm", "normal"}
  BY <1>3 DEF AlarmTypeOK
<1>5. AlarmTypeOK'
  BY <1>1, <1>2, <1>4 DEF AlarmTypeOK
<1>6. WireMatchesTracker'
  BY <1>1, <1>2, <1>3 DEF WireMatchesTracker
<1> QED  BY <1>5, <1>6

\* With safe ids, every hazard in alarm shows on the wire after evaluate(), and
\* no alarm that was on goes off but those of hazards not in alarm.
LEMMA EvaluateAlarms ==
    ASSUME IdsAreSafe, AlarmTypeOK, WireMatchesTracker, NEW position, NEW pois,
           Evaluate(position, pois), NEW h \in InAlarm(position, pois)
    PROVE  wire'[SafeId[h]] = "alarm"
<1>1. h \in Hazards /\ SafeId[h] = h /\ h \in SafeIds
  BY DEF InAlarm, IdsAreSafe, SafeIds
<1> DEFINE inAlarm == InAlarm(position, pois)
           raised  == {SafeId[g] : g \in inAlarm} \ active
           cleared == {key \in active \cup raised : key \notin inAlarm}
<1>2. wire' = [key \in SafeIds |-> CASE key \in cleared -> "normal"
                                     [] key \in raised \ cleared -> "alarm"
                                     [] OTHER -> wire[key]]
  BY DEF Evaluate
<1>3. h \notin cleared /\ (h \in active \/ h \in raised)
  BY <1>1
<1> HIDE DEF raised, cleared, inAlarm
<1>4. CASE h \in raised
  BY <1>1, <1>2, <1>3, <1>4
<1>5. CASE h \notin raised
  <2>1. wire'[h] = wire[h]
    BY <1>1, <1>2, <1>3, <1>5
  <2> QED  BY <1>1, <1>3, <1>5, <2>1 DEF WireMatchesTracker
<1> QED  BY <1>4, <1>5

\* clearAll() leaves nothing on.
LEMMA ClearAllClears ==
    ASSUME AlarmTypeOK, WireMatchesTracker, ClearAll
    PROVE  /\ AlarmTypeOK' /\ WireMatchesTracker' /\ active' = {}
<1>1. /\ active' = {}
      /\ wire' = [key \in SafeIds |-> IF key \in active THEN "normal" ELSE wire[key]]
  BY DEF ClearAll
<1>2. \A key \in SafeIds : wire'[key] \in {"none", "alarm", "normal"} /\ wire'[key] # "alarm"
  BY <1>1 DEF AlarmTypeOK, WireMatchesTracker
<1> QED  BY <1>1, <1>2 DEF AlarmTypeOK, WireMatchesTracker
-----------------------------------------------------------------------------
(* The steps of the composition. *)

\* What a settled scan hands to the alarms: nothing when it was rejected or the
\* plugin has stopped, and otherwise what it found, at the newest fix.
LEMMA SettledScan ==
    ASSUME WatchInv, NEW scan \in scans, NEW outcome \in Outcomes,
           ScanSettles(scan, outcome)
    PROVE  /\ Inv'
           /\ UNCHANGED <<stopped, latestPosition>>
           /\ latest' = [from |-> scan, answered |-> Answered(outcome)]
           /\ \/ called' = <<>> /\ UNCHANGED alarmVars
              \/ /\ ~stopped /\ called' # <<>>
                 /\ Evaluate(latestPosition, Found(scan, outcome))
<1>1. Found(scan, outcome) \in Lists
  BY ListsAreHazardSets DEF Found
<1>2. CASE Rejected(outcome)
  <2>1. Finish(scan, <<>>, TRUE)
    BY <1>2 DEF ScanSettles, ScanRejects
  <2>2. Inv'
    BY <2>1, FinishKeepsInv DEF WatchInv
  <2>3. called' = <<>>
    BY <2>1 DEF Finish, MaybeTick
  <2> QED  BY <2>1, <2>2, <2>3 DEF ScanSettles, ProximityEvaluates, Finish
<1>3. CASE ~Rejected(outcome)
  <2> DEFINE calls == Evaluations(scan, Found(scan, outcome))
  <2>1. Finish(scan, calls, TRUE)
    BY <1>3 DEF ScanSettles, ScanResolves
  <2>2. Inv'
    BY <1>1, <2>1, FinishKeepsInv DEF WatchInv
  <2>3. called' = calls
    BY <2>1 DEF Finish, MaybeTick
  <2>4. CASE stopped
    <3>1. called' = <<>>
      BY <2>3, <2>4 DEF Evaluations
    <3> QED  BY <2>1, <2>2, <3>1 DEF ScanSettles, ProximityEvaluates, Finish
  <2>5. CASE ~stopped
    <3>1. called' = <<[position |-> latestPosition, pois |-> Found(scan, outcome)]>>
      BY <2>3, <2>5 DEF Evaluations, Call
    <3>2. called' # <<>> /\ called'[1].position = latestPosition
          /\ called'[1].pois = Found(scan, outcome)
      BY <3>1
    <3>3. Evaluate(latestPosition, Found(scan, outcome))
      BY <3>2 DEF ScanSettles, ProximityEvaluates
    <3> QED  BY <2>1, <2>2, <2>5, <3>2, <3>3 DEF ScanSettles, Finish
  <2> QED  BY <2>4, <2>5
<1> QED  BY <1>2, <1>3

\* A fix starts a request at most: the contributor always has a box.
LEMMA FixKeepsInv ==
    ASSUME WatchInv, NEW position \in Positions, Fix(position)
    PROVE  Inv' /\ called' = <<>> /\ ~stopped' /\ UNCHANGED alarmVars
<1>1. OnPosition(position, TRUE) /\ active' = active /\ wire' = wire
  BY DEF Fix
<1>2. Inv'
  BY <1>1, OnPositionKeepsInv DEF WatchInv
<1>3. called' = <<>> /\ ~stopped'
  BY <1>1 DEF OnPosition, MaybeTick
<1> QED  BY <1>1, <1>2, <1>3 DEF alarmVars

LEMMA WatchInitInv == WatchInit => WatchInv
<1> SUFFICES ASSUME WatchInit PROVE WatchInv
  OBVIOUS
<1>1. Inv /\ ~stopped
  BY InitInv DEF WatchInit, Init
<1>2. AlarmTypeOK /\ WireMatchesTracker
  BY DEF WatchInit, AlarmInit, AlarmTypeOK, WireMatchesTracker
<1> QED  BY <1>1, <1>2 DEF WatchInv

LEMMA WatchNextInv == WatchInv /\ [WatchNext]_vars => WatchInv'
<1> SUFFICES ASSUME WatchInv, [WatchNext]_vars PROVE WatchInv'
  OBVIOUS
<1> USE DEF WatchInv
<1>1. ASSUME UNCHANGED alarmVars PROVE AlarmTypeOK' /\ WireMatchesTracker'
  BY <1>1 DEF alarmVars, AlarmTypeOK, WireMatchesTracker
<1>2. ASSUME NEW position \in Positions, Fix(position) PROVE WatchInv'
  BY <1>1, <1>2, FixKeepsInv DEF alarmVars
<1>3. ASSUME NEW scan \in scans, NEW outcome \in Outcomes, ScanSettles(scan, outcome)
      PROVE  WatchInv'
  <2>1. CASE called' = <<>> /\ UNCHANGED alarmVars
    BY <1>1, <1>3, <2>1, SettledScan DEF alarmVars
  <2>2. CASE ~stopped /\ Evaluate(latestPosition, Found(scan, outcome))
    BY <1>3, <2>2, SettledScan, EvaluateKeepsWire
  <2> QED  BY <1>3, <2>1, <2>2, SettledScan
<1>4. CASE Teardown
  BY <1>4, StopKeepsInv, ClearAllClears DEF Teardown
<1>5. CASE TimePasses
  <2>1. Elapse /\ UNCHANGED alarmVars /\ stopped' = stopped
    BY <1>5 DEF TimePasses, Elapse, alarmVars
  <2> QED  BY <1>1, <2>1, ElapseKeepsInv DEF alarmVars
<1>6. CASE UNCHANGED vars
  BY <1>1, <1>6, StutterKeepsInv DEF vars, alarmVars, monitorVars
<1> QED  BY <1>2, <1>3, <1>4, <1>5, <1>6 DEF WatchNext

\* The tracker and the wire agree, and stop leaves nothing tracked, along every
\* behaviour of the monitor with the alarms (notification-tracker.ts:68-109).
THEOREM WatchInvHolds == WatchSpec => []WatchInv
BY WatchInitInv, WatchNextInv, PTL DEF WatchSpec
-----------------------------------------------------------------------------
(* Theorems. *)

\* Whatever ids the hazards have, an alarm on the wire is one the tracker will
\* clear, and a tracked one is on the wire (notification-tracker.ts:68-109).
THEOREM WireIsTracked == WatchSpec => []WireMatchesTracker
<1>1. WatchInv => WireMatchesTracker
  BY DEF WatchInv
<1> QED  BY <1>1, WatchInvHolds, PTL

\* After teardown no alarm is on, also when a scan answers after it
\* (plugin.ts:72-115, position-monitor.ts:180-184).
THEOREM StopSilencesAlarms == WatchSpec => []StopLeavesNoAlarm
<1>1. WatchInv => StopLeavesNoAlarm
  BY DEF WatchInv, StopLeavesNoAlarm, WireMatchesTracker
<1> QED  BY <1>1, WatchInvHolds, PTL

\* A hazard within reach of the newest fix was found by the scan, when its
\* source answered and the vessel has not outrun the box.
LEMMA CoveredIsFound ==
    ASSUME WatchInv, NEW scan \in scans, NEW outcome \in Outcomes,
           NEW h \in Hazards, NEW reach \in Nat,
           SourceOf[h] \in Answered(outcome),
           Distance(scan, latestPosition) + reach <= ScanRadius,
           Range(latestPosition, h) <= reach
    PROVE  h \in Found(scan, outcome)
<1>1. scan \in Int /\ latestPosition \in Int /\ Place[h] \in Int /\ ScanRadius \in Nat
  BY PositionsAreIntegers, PlacesAreIntegers, ScanCoversExit
     DEF WatchInv, Inv, TypeOK
<1>2. Range(scan, h) <= ScanRadius
  BY <1>1 DEF Range, Distance
<1> QED  BY <1>2 DEF Found

\* A settled scan alarms every hazard it covers that is within the radius, and
\* every one already alarming that is within the exit radius.
LEMMA ScanAlarmsCovered ==
    ASSUME IdsAreSafe, WatchInv, NEW scan \in scans, NEW outcome \in Outcomes,
           ScanSettles(scan, outcome), called' # <<>>, NEW h \in Hazards,
           \/ Covered(h, Radius) /\ Range(latestPosition', h) <= Radius
           \/ /\ Covered(h, ExitRadius) /\ Range(latestPosition', h) <= ExitRadius
              /\ Alarming(h)
    PROVE  wire'[SafeId[h]] = "alarm"
<1>1. /\ latestPosition' = latestPosition
      /\ latest'.from = scan /\ latest'.answered = Answered(outcome)
      /\ Evaluate(latestPosition, Found(scan, outcome))
  BY SettledScan
<1>2. h \in Found(scan, outcome)
  BY <1>1, CoveredIsFound, ExitBeyondRadius DEF Covered
<1>3. SafeId[h] \in SafeIds /\ (Alarming(h) => SafeId[h] \in active)
  BY DEF SafeIds, Alarming, WatchInv, WireMatchesTracker
<1>4. latestPosition \in Int /\ Place[h] \in Int
  BY PositionsAreIntegers, PlacesAreIntegers DEF WatchInv, Inv, TypeOK
<1>5. Range(latestPosition, h) <= Threshold(h)
  BY <1>1, <1>3, <1>4, ExitBeyondRadius DEF Threshold, Range
<1>6. h \in InAlarm(latestPosition, Found(scan, outcome))
  BY <1>2, <1>5 DEF InAlarm
<1> QED  BY <1>1, <1>6, EvaluateAlarms DEF WatchInv

\* Only a settled scan evaluates, and only it or teardown touches the wire.
LEMMA OthersLeaveAlarms ==
    ASSUME WatchInv, [WatchNext]_vars
    PROVE  \/ UNCHANGED vars
           \/ called' = <<>> /\ wire' = wire
           \/ called' = <<>> /\ stopped'
           \/ /\ called' # <<>>
              /\ \E scan \in scans, outcome \in Outcomes : ScanSettles(scan, outcome)
<1>1. ASSUME NEW position \in Positions, Fix(position)
      PROVE  called' = <<>> /\ wire' = wire
  BY <1>1, FixKeepsInv DEF alarmVars
<1>2. ASSUME NEW scan \in scans, NEW outcome \in Outcomes, ScanSettles(scan, outcome)
      PROVE  (called' = <<>> /\ wire' = wire) \/ called' # <<>>
  BY <1>2, SettledScan DEF alarmVars
<1>3. CASE Teardown
  BY <1>3 DEF Teardown, Stop
<1>4. CASE TimePasses
  BY <1>4 DEF TimePasses, Elapse
<1> QED  BY <1>1, <1>2, <1>3, <1>4 DEF WatchNext

\* With safe ids, a settled scan leaves every hazard it covers within the radius
\* alarming (input-registry.ts:176-239, proximity-alarms.ts:102-130).
THEOREM CoveredAlarms ==
    ASSUME IdsAreSafe
    PROVE  WatchSpec => CoveredHazardAlarms
<1>1. WatchInv /\ [WatchNext]_vars =>
        [called' # <<>> =>
           \A h \in Hazards :
              Covered(h, Radius) /\ Range(latestPosition', h) <= Radius
                => wire'[SafeId[h]] = "alarm"]_vars
  BY OthersLeaveAlarms, ScanAlarmsCovered
<1> QED  BY <1>1, WatchInvHolds, PTL DEF WatchSpec, CoveredHazardAlarms

\* With safe ids, an alarm in the band goes off only when the plugin stops or
\* its hazard was not covered (proximity-alarms.ts:100-123).
THEOREM BandHolds ==
    ASSUME IdsAreSafe
    PROVE  WatchSpec => AlarmHoldsInBand
<1>1. ASSUME WatchInv, [WatchNext]_vars, ~UNCHANGED vars, NEW h \in Hazards,
             Alarming(h), wire'[SafeId[h]] # "alarm"
      PROVE  \/ stopped'
             \/ ~Covered(h, ExitRadius)
             \/ ~(Range(latestPosition', h) <= ExitRadius)
  BY <1>1, OthersLeaveAlarms, ScanAlarmsCovered DEF Alarming
<1>2. ASSUME WatchInv, [WatchNext]_vars, ~UNCHANGED vars, NEW h \in Hazards,
             Alarming(h), wire'[SafeId[h]] # "alarm"
      PROVE  \/ stopped'
             \/ ~Covered(h, ExitRadius)
             \/ Range(latestPosition', h) > ExitRadius
  <2>1. CASE \E scan \in scans, outcome \in Outcomes : ScanSettles(scan, outcome)
    <3>1. latestPosition' \in Int /\ Place[h] \in Int
      BY <1>2, <2>1, SettledScan, PositionsAreIntegers, PlacesAreIntegers
         DEF WatchInv, Inv, TypeOK
    <3> QED  BY <1>1, <1>2, <3>1, ExitBeyondRadius DEF Range
  <2>2. CASE ~\E scan \in scans, outcome \in Outcomes : ScanSettles(scan, outcome)
    BY <1>2, <2>2, OthersLeaveAlarms DEF Alarming
  <2> QED  BY <2>1, <2>2
<1>3. WatchInv /\ [WatchNext]_vars =>
        [\A h \in Hazards :
           Alarming(h) /\ wire'[SafeId[h]] # "alarm"
             => \/ stopped'
                \/ ~Covered(h, ExitRadius)
                \/ Range(latestPosition', h) > ExitRadius]_vars
  BY <1>2
<1> QED  BY <1>3, WatchInvHolds, PTL DEF WatchSpec, AlarmHoldsInBand
=============================================================================
