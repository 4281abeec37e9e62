------------------------------ MODULE MCInputs ------------------------------
(* One behaviour of a list source over the debounce cache (NOAA ENC, OpenSeaMap
   or the lists of ActiveCaptain), of ActiveCaptain's detail tiers or of the Light
   List's spatial index: part says which, and never changes. *)
EXTENDS NoaaEnc, OpenSeaMap, PoiTiers, ActiveCaptainList, LightListTiles

CONSTANTS
    AcCalls,        \* calls only a behaviour of the ActiveCaptain lists makes
    EncMaxTime,     \* bound: the clock of a NOAA ENC behaviour
    OneBox          \* the one box of a NOAA ENC or OpenSeaMap behaviour

VARIABLE part

MCFeaturesOf == [l \in Layers |-> IF l = "wreck" THEN {"w1", "w2"} ELSE {"o1", "o2"}]
\* 20220231, 2022x601, 202113 and none.
MCSordatOf ==
    [w1 |-> [length |-> 8, digits |-> TRUE, year |-> 2022, month |-> 2, day |-> 31],
     w2 |-> [length |-> 8, digits |-> FALSE, year |-> 2022, month |-> NaN, day |-> 1],
     o1 |-> [length |-> 6, digits |-> TRUE, year |-> 2021, month |-> 13, day |-> NaN],
     o2 |-> Undated]
\* 201x0601 for the first.
MCGarbledSordatOf ==
    [MCSordatOf EXCEPT !.w1 = [length |-> 8, digits |-> FALSE, year |-> 201,
                               month |-> 6, day |-> 1]]
MCTimestampOf == [w1 |-> DateUtc(2024, 2, 29), w2 |-> Undated,
                  o1 |-> DateUtc(2019, 12, 31), o2 |-> Undated]
MCTagsOf == [w1 |-> [seamark |-> "wreck", marina |-> FALSE],
             w2 |-> [seamark |-> "rock", marina |-> FALSE],
             o1 |-> [seamark |-> "", marina |-> TRUE],
             o2 |-> [seamark |-> "bridge", marina |-> FALSE]]

MCTypeSets == {{"Marina"}, {"Marina", "Hazard"}}
MCPois == {[type |-> "Marina", rating |-> 0, usable |-> TRUE],
           [type |-> "Marina", rating |-> 4, usable |-> TRUE],
           [type |-> "Marina", rating |-> 5, usable |-> FALSE],
           [type |-> "Hazard", rating |-> 0, usable |-> TRUE]}
MCBoxed == [key \in Boxes |-> [box |-> "view", types |-> IF key = "chart" THEN {"Marina"}
                                                         ELSE {"Marina", "Hazard"}]]

\* A globe of 8 by 4 degrees in tiles of 2.
Aid(llnr, latitude, longitude, modified) ==
    [llnr |-> llnr, numbered |-> TRUE, volume |-> TRUE, modified |-> modified,
     position |-> [latitude |-> latitude, longitude |-> longitude]]

MCDistricts == {<<>>,
    <<Aid(1, 0, 3, 2024)>>,
    <<Aid(1, 1, -4, 0), Aid(2, 0, -3, 2024)>>,
    <<Aid(2, -2, 3, 2022), Aid(1, -1, 3, 2023)>>,
    <<Aid(1, 2, 4, 2024), Aid(3, 2, 0, 0)>>,
    <<Aid(3, 1, -4, 0), [Aid(2, 3, 0, 0) EXCEPT !.volume = FALSE], Aid(4, 3, 0, 0)>>}

MCVessels == {[latitude |-> -2, longitude |-> -4], [latitude |-> 0, longitude |-> 3],
              [latitude |-> 1, longitude |-> -3], [latitude |-> 0, longitude |-> 0]}

acOwnVars == <<asked, listed, acClosed>>
sourceOwnVars == <<rows, recentErrors, reply, known, lookups, closed,
                   inUsWaters, query>>
mcVars == <<encVars, acOwnVars, tierVars, tileVars, part>>

MCInit ==
    /\ EncInit /\ AcInit /\ TierInit /\ TilesInit
    /\ part \in {"enc", "osm", "lists", "details", "tiles"}
    /\ part # "enc" => inUsWaters
    /\ part # "tiles" => diskPages \in [PageKeys -> {<<>>}]

\* Three calls and two boxes are for the ActiveCaptain lists, which hold the cache
\* and little else.
InOneBox ==
    /\ \A c \in Calls : fetches'[c] # None => fetches'[c].box = OneBox
    /\ \A c \in AcCalls : reply'[c] = reply[c]

OfEnc(step) ==
    /\ part = "enc" /\ step /\ InOneBox
    /\ now' <= EncMaxTime
    /\ UNCHANGED <<acOwnVars, tierVars, tileVars, part>>

OfOsm(step) ==
    /\ part = "osm" /\ step /\ InOneBox
    /\ UNCHANGED <<inUsWaters, query, acOwnVars, tierVars, tileVars, part>>

OfLists(step) ==
    part = "lists" /\ step /\ UNCHANGED <<sourceOwnVars, tierVars, tileVars, part>>
OfDetails(step) ==
    /\ part = "details" /\ step
    /\ UNCHANGED <<sourceOwnVars, debounceVars, acOwnVars, tileVars, part>>

OfTiles(step) ==
    /\ part = "tiles" /\ step
    /\ UNCHANGED <<sourceOwnVars, debounceVars, acOwnVars, tierVars, part>>

MCNext ==
    \/ OfEnc(EncNext) \/ OfOsm(OsmNext) \/ OfLists(AcNext) \/ OfDetails(TierNext)
    \/ OfTiles(TilesNext)

MCSpec ==
    /\ MCInit /\ [][MCNext]_mcVars
    /\ WF_mcVars(OfEnc(EncProgress) \/ OfOsm(OsmProgress))
=============================================================================
