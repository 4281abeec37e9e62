----------------------------- MODULE OpenSeaMap -----------------------------
(***************************************************************************)
(* src/inputs/openseamap/openseamap-source.ts over overpass-client.ts: one *)
(* Overpass query per debounced box, malformed elements skipped, and       *)
(* detail lookups that record an outcome whether or not they go upstream.  *)
(* The queue, retries and abort below runQuery are HttpClient's.           *)
(***************************************************************************)
EXTENDS DebouncedSource

CONSTANTS
    Osm,            \* this source's slug
    SeamarkGroups,  \* enabled groups, which may name unknown ones
    TagsOf,         \* seamark:type ("" for none) and leisure=marina of each feature
    TimestampOf,    \* wire timestamp of each feature
    MaxOsmLookups   \* bound: detail requests in flight at once

ASSUME LookupsAreBounded == MaxOsmLookups \in Nat

osmVars == sourceVars

SeamarkTypesByGroup ==
    [hazards |-> {"rock", "wreck", "obstruction"},
     navaids |-> {"light_major", "light_minor", "light_float", "light_vessel", "landmark",
        "beacon_lateral", "beacon_cardinal", "beacon_isolated_danger", "beacon_safe_water",
        "beacon_special_purpose", "buoy_lateral", "buoy_cardinal", "buoy_isolated_danger",
        "buoy_safe_water", "buoy_special_purpose"},
     harbours |-> {"harbour", "anchorage", "anchor_berth", "mooring"},
     infrastructure |-> {"lock_basin", "bridge"}]

\* seamarkRegex: the types of the enabled groups, unknown groups being ignored.
SeamarkRegex ==
    UNION {SeamarkTypesByGroup[g] : g \in SeamarkGroups \cap DOMAIN SeamarkTypesByGroup}

\* buildListQuery: marinas are asked for whatever the groups.
Queried(x) == TagsOf[x].seamark \in SeamarkRegex \/ TagsOf[x].marina

\* parseElement drops what has no type, id or valid position.
ParseElement(x) == x \in Usable

\* runQuery: what answers the query and parses.
Elements == {x \in Features : Queried(x) /\ ParseElement(x)}

OsmList(c, box) ==
    /\ ~closed /\ Idle(c)
    /\ Get(c, box)
    /\ reply' = [reply EXCEPT ![c] = Standing("waiting")]
    /\ UNCHANGED <<rows, recentErrors, known, lookups, closed>>

\* The Overpass query of a fetch ends.
QuerySettles(f, ok) ==
    /\ Pending(f)
    /\ Settle(f, ok)
    /\ UNCHANGED <<now, joined, rows, recentErrors, reply, known, lookups, closed>>

\* The call continues with the elements of the fetch it joined.
OsmListReturns(c) ==
    /\ Waiting(c)
    /\ \/ /\ fetches[joined[c]].state = "failed"
          /\ reply' = [reply EXCEPT ![c] = Standing("refused")]
          /\ RecordErrors(Osm, <<Osm>>)
          /\ UNCHANGED known
       \/ /\ fetches[joined[c]].state = "value"
          /\ reply' = [reply EXCEPT ![c] = Answer(FilterByMinimumYear(Elements, TimestampOf))]
          /\ known' \in Reseeded(Elements)
          /\ RecordListFetch(Osm)
    /\ UNCHANGED <<debounceVars, lookups, closed>>

\* getDetails of a cached element, recorded as a success all the same.
DetailHit(id) ==
    /\ ~closed /\ id \in known
    /\ RecordDetailSuccess(Osm)
    /\ UNCHANGED <<debounceVars, reply, known, lookups, closed>>

\* parseTypedId throws: an error without a request.
DetailMalformed ==
    /\ ~closed
    /\ RecordErrors(Osm, <<Osm>>)
    /\ UNCHANGED <<debounceVars, reply, known, lookups, closed>>

DetailMiss(id) ==
    /\ ~closed /\ id \in Features \ (known \cup lookups)
    /\ Cardinality(lookups) < MaxOsmLookups
    /\ lookups' = lookups \cup {id}
    /\ UNCHANGED <<debounceVars, rows, recentErrors, reply, known, closed>>

\* getById ends; an element that is gone or malformed is an error.
DetailReturns(id, ok) ==
    /\ id \in lookups
    /\ ok => ParseElement(id)
    /\ lookups' = lookups \ {id}
    /\ \/ ok /\ RecordDetailSuccess(Osm) /\ known' \in Reseeded({id})
       \/ ~ok /\ RecordErrors(Osm, <<Osm>>) /\ UNCHANGED known
    /\ UNCHANGED <<debounceVars, reply, closed>>

\* close: the detail cache is kept, the client aborts what is in flight.
OsmClose ==
    /\ ~closed
    /\ closed' = TRUE
    /\ Clear
    /\ UNCHANGED <<now, fetches, joined, rows, recentErrors, reply, known, lookups>>
-----------------------------------------------------------------------------
OsmInit == SourceInit

\* What a list call waits for.
OsmProgress == \E c \in Calls : OsmListReturns(c) \/ \E ok \in BOOLEAN : QuerySettles(c, ok)

OsmNext ==
    \/ OsmProgress
    \/ \E c \in Calls, box \in Boxes : OsmList(c, box)
    \/ \E id \in Features : DetailHit(id) \/ DetailMiss(id)
    \/ \E id \in Features, ok \in BOOLEAN : DetailReturns(id, ok)
    \/ DetailMalformed
    \/ OsmClose
    \/ TimePasses

\* The HTTP client settles every call (EveryCallSettles of HttpClient).
OsmSpec == OsmInit /\ [][OsmNext]_osmVars /\ WF_osmVars(OsmProgress)
=============================================================================
