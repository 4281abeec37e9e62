--------------------------- MODULE MCAlarmOutputs ---------------------------
(* A unit is 250 metres.  The route bends north past a low bridge of ActiveCaptain,
   which two legs pass and which OpenSeaMap charts too high, and east again at 45
   degrees north, for 300 nautical miles: the last leg crosses the look-ahead where
   its great circle runs more than 500 metres north of the parallel, with a hazard
   near it, and meets another hazard just inside the look-ahead or just beyond it.
   Astern a bridge whose height has a unit nobody knows, which OpenSeaMap charts
   too; at the first bend one of OpenSeaMap whose first tag is a placeholder. *)
EXTENDS AlarmOutputs

MCPoints == {"low", "unit", "tagged", "bow", "ahead"}
MCAt == [p \in MCPoints |->
    CASE p = "low" -> [x |-> 2, y |-> 1]
      [] p = "unit" -> [x |-> -1, y |-> 0]
      [] p = "tagged" -> [x |-> 2, y |-> 0]
      [] p = "bow" -> [x |-> 54, y |-> 23]
      [] p = "ahead" -> [x |-> 56, y |-> 20]]
MCIsBridge == [p \in MCPoints |-> p \in {"low", "unit", "tagged"}]
MCFromBase == {"low", "unit"}
MCTags == [p \in {"low", "unit", "tagged"} |->
    CASE p = "low" -> <<[unit |-> "bare", value |-> 7]>>
      [] p = "unit" -> <<[unit |-> "m", value |-> 5]>>
      [] p = "tagged" -> <<[unit |-> "placeholder"], [unit |-> "ftin", value |-> 19, inches |-> 6]>>]
MCNavigation == [p \in MCFromBase |-> IF p = "low" THEN [height |-> 20, unit |-> "ft"] ELSE [height |-> 2, unit |-> "other"]]
\* 20 feet, and 19 feet and 6 inches; the twins say 7 and 5 metres.
MCCharted == [p \in MCPoints |->
    CASE p = "low" -> 60960 [] p = "tagged" -> 59436 [] OTHER -> None]
MCTwinCharted == [p \in MCPoints |->
    CASE p = "low" -> 70000 [] p = "unit" -> 50000 [] OTHER -> None]

\* Six metres; the other draft is the configured fallback.
MCDrafts == {None, 60000}

MCWaters == {[x |-> 0, y |-> 0], [x |-> 2, y |-> 0]}
MCRoutes == {<<>>, <<[x |-> 2, y |-> 0], [x |-> 2, y |-> 20], [x |-> 2222, y |-> 20]>>}

\* The Earth's radius is 25484 units, a half circle at 45 degrees 56610; these are
\* the distances the points of interest are at.
MCRise == [place \in {2220} \X {52, 54} |->
    (place[2] * (place[1] - place[2])) \div (2 * 25484)]
=============================================================================
