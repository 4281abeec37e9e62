--------------------------- MODULE LightListTiles ---------------------------
(***************************************************************************)
(* The spatial index of the USCG Light List, and what is read through it:  *)
(* the tiles that light-list-store.ts keeps in step with its records map   *)
(* while pages are loaded and replaced, the features light-list-client.ts  *)
(* makes records of, and the list and detail calls of                      *)
(* uscg-light-list-source.ts.  Degrees and tiles are whole numbers on a    *)
(* smaller globe; refreshing and the disk are LightListStore's.            *)
(***************************************************************************)
EXTENDS SourceDates

CONSTANTS
    Llnrs,      \* Light List numbers
    PageKeys,   \* district pages
    HalfCircle, \* 180
    Pole,       \* 90
    CellSize,   \* degrees of a tile: 1 / TILE_CELLS_PER_DEGREE
    Districts,  \* the features NAVCEN may publish as one page, in order
    Vessels,    \* positions a scan is made around
    Reaches     \* how far it reaches, in degrees

ASSUME TilesCoverTheGlobe ==
    /\ CellSize \in Nat \ {0} /\ HalfCircle \in Nat \ {0} /\ Pole \in Nat \ {0}
    /\ (2 * HalfCircle) % CellSize = 0
    /\ \A reach \in Reaches : reach \in Nat /\ 2 * reach + CellSize <= 2 * HalfCircle

ASSUME FeaturesAreTyped ==
    Districts \subseteq Seq([llnr : Llnrs, numbered : BOOLEAN, volume : BOOLEAN,
                            modified : Int, position : [latitude : Int, longitude : Int]])

ASSUME PagesAreFinite == IsFiniteSet(PageKeys)

ASSUME VesselsAreOnTheGlobe ==
    Vessels \subseteq [latitude : -Pole .. Pole, longitude : -HalfCircle .. HalfCircle]

VARIABLES
    districts,  \* llnrs of each page upserted
    aids,       \* index.records, by llnr
    tiles,      \* the records of each tile that has any
    recordTile, \* the tile each record is in
    diskPages,  \* what load() will find in each page file
    awaits      \* what load() awaits: "index", "pages" or "nothing"

tileVars == <<districts, aids, tiles, recordTile, diskPages, awaits>>
-----------------------------------------------------------------------------
(* From the wire to records. *)

ValidPosition(p) == p.latitude \in -Pole .. Pole /\ p.longitude \in -HalfCircle .. HalfCircle

\* parseFeature: no record without a number, a valid position and a volume.
Parses(feature) == feature.numbered /\ feature.volume /\ ValidPosition(feature.position)

\* A MODIFIED_DATE of 0 is NAVCEN's "unknown".
ModifiedDate(feature) ==
    IF feature.modified > 0 THEN DateUtc(feature.modified, 1, 1) ELSE Undated

ParseFeature(feature) ==
    [llnr |-> feature.llnr, position |-> feature.position, modifiedDate |-> ModifiedDate(feature)]

\* downloadDistrict: the features that parse are pushed one by one.
Pushed(records, feature) ==
    IF Parses(feature) THEN Append(records, ParseFeature(feature)) ELSE records

Download(features) == FoldLeft(Pushed, <<>>, features)

PageRecords == {Download(features) : features \in Districts}
-----------------------------------------------------------------------------
(* The tiles. *)

LonCells == (2 * HalfCircle) \div CellSize
LatCell(latitude) == (latitude + Pole) \div CellSize
LonCell(longitude) == (longitude + HalfCircle) \div CellSize

TileKey(p) == LatCell(p.latitude) * LonCells + LonCell(p.longitude)

\* What the store holds, as one value that records are added to and removed from.
Index == [aids |-> aids, tiles |-> tiles, recordTile |-> recordTile]

\* Map.set and Map.delete.
Setting(f, key, value) == [k \in DOMAIN f \cup {key} |-> IF k = key THEN value ELSE f[k]]
Dropping(f, key) == [k \in DOMAIN f \ {key} |-> f[k]]

Bucket(index, key) == IF key \in DOMAIN index.tiles THEN index.tiles[key] ELSE <<>>

Without(bucket, llnr) == RemoveFirstMatch(bucket, LAMBDA record : record.llnr = llnr)

\* removeRecordFromIndex: the first entry with the number leaves its bucket, and
\* a bucket left empty goes.
RemoveRecord(index, llnr) ==
    IF llnr \notin DOMAIN index.recordTile THEN index
    ELSE LET key == index.recordTile[llnr]
             bucket == Without(Bucket(index, key), llnr)
         IN  [aids |-> Dropping(index.aids, llnr),
              tiles |-> IF bucket = <<>> THEN Dropping(index.tiles, key)
                        ELSE [index.tiles EXCEPT ![key] = bucket],
              recordTile |-> Dropping(index.recordTile, llnr)]

Placed(index, record) ==
    LET key == TileKey(record.position) IN
    [aids |-> Setting(index.aids, record.llnr, record),
     tiles |-> Setting(index.tiles, key, Append(Bucket(index, key), record)),
     recordTile |-> Setting(index.recordTile, record.llnr, key)]

\* Mutation of AddRecord: an earlier record of the number stays in its tile.
AddRecordAgain(index, record) == Placed(index, record)

\* addRecordToIndex: a record of the same number leaves its tile first.
AddRecord(index, record) == Placed(RemoveRecord(index, record.llnr), record)

Becomes(index) ==
    /\ aids' = index.aids
    /\ tiles' = index.tiles
    /\ recordTile' = index.recordTile

\* upsertDistrict: what the page held goes, also what another page has brought
\* in since; what it holds now comes.
UpsertDistrict(page, records) ==
    /\ Becomes(FoldLeft(AddRecord, FoldLeft(RemoveRecord, Index, districts[page]), records))
    /\ districts' = [districts EXCEPT ![page] = [i \in DOMAIN records |-> records[i].llnr]]
    /\ UNCHANGED <<diskPages, awaits>>

\* load(): the index file is read and its districts replace those in memory.
ReadIndex ==
    /\ awaits = "index"
    /\ districts' = [page \in PageKeys |->
         [i \in DOMAIN diskPages[page] |-> diskPages[page][i].llnr]]
    /\ awaits' = "pages"
    /\ UNCHANGED <<aids, tiles, recordTile, diskPages>>

\* load() of a store without a usable index file is over.
NoIndexFile ==
    /\ awaits = "index"
    /\ awaits' = "nothing"
    /\ UNCHANGED <<districts, aids, tiles, recordTile, diskPages>>

\* All page files are read and their records added, in the order of the index.
ReadPages ==
    /\ awaits = "pages"
    /\ \E order \in SetToSeqs(PageKeys) :
         Becomes(FoldLeft(AddRecord, Index,
                          FlattenSeq([i \in DOMAIN order |-> diskPages[order[i]]])))
    /\ awaits' = "nothing"
    /\ UNCHANGED <<districts, diskPages>>
-----------------------------------------------------------------------------
(* List and detail calls. *)

NormalizeLongitude(longitude) == ((longitude + 3 * HalfCircle) % (2 * HalfCircle)) - HalfCircle

AtMost(a, b) == IF a < b THEN a ELSE b

\* positionToBbox away from the poles, one degree being as long as another.
PositionToBbox(p, reach) ==
    [south |-> -AtMost(Pole, reach - p.latitude), north |-> AtMost(Pole, p.latitude + reach),
     west |-> NormalizeLongitude(p.longitude - reach),
     east |-> NormalizeLongitude(p.longitude + reach)]

\* Mutation of LonCellRanges: no second range across the antimeridian.
LonCellRangesToTheEdge(bbox) ==
    IF bbox.east >= bbox.west THEN <<LonCell(bbox.west) .. LonCell(bbox.east)>>
    ELSE <<LonCell(bbox.west) .. LonCells - 1>>

LonCellRanges(bbox) ==
    IF bbox.east >= bbox.west THEN <<LonCell(bbox.west) .. LonCell(bbox.east)>>
    ELSE <<LonCell(bbox.west) .. LonCells - 1, 0 .. LonCell(bbox.east)>>

LatCellRange(bbox) == LatCell(bbox.south) .. LatCell(bbox.north)

LongitudeInBbox(longitude, bbox) ==
    IF bbox.east >= bbox.west THEN longitude \in bbox.west .. bbox.east
    ELSE longitude >= bbox.west \/ longitude <= bbox.east

InBbox(p, bbox) ==
    p.latitude \in bbox.south .. bbox.north /\ LongitudeInBbox(p.longitude, bbox)

\* The buckets queryBbox visits: one visited twice is two visits.
Visits(bbox) ==
    LET ranges == LonCellRanges(bbox) IN
    {visit \in [key : DOMAIN tiles, row : LatCellRange(bbox), range : DOMAIN ranges] :
       visit.key - visit.row * LonCells \in ranges[visit.range]}

\* queryBbox: each record pushed, with the visit and the place it was found at.
QueryBbox(bbox) ==
    UNION {{[visit |-> visit, at |-> i, record |-> tiles[visit.key][i]] :
              i \in {j \in DOMAIN tiles[visit.key] : InBbox(tiles[visit.key][j].position, bbox)}} :
           visit \in Visits(bbox)}

\* listPointsOfInterest.
ListAids(bbox) == {hit \in QueryBbox(bbox) : YearFilter(hit.record.modifiedDate)}

\* getDetails: the record, or an error.
GetAid(llnr) == IF llnr \in DOMAIN aids THEN aids[llnr] ELSE Undated
-----------------------------------------------------------------------------
TilesInit ==
    /\ districts = [page \in PageKeys |-> <<>>]
    /\ aids = [l \in {} |-> Undated]
    /\ tiles = [key \in {} |-> <<>>]
    /\ recordTile = [l \in {} |-> 0]
    /\ diskPages \in [PageKeys -> PageRecords]
    /\ awaits = "index"

TilesNext ==
    \/ ReadIndex \/ NoIndexFile \/ ReadPages
    \/ \E page \in PageKeys, features \in Districts : UpsertDistrict(page, Download(features))

TilesSpec == TilesInit /\ [][TilesNext]_tileVars
-----------------------------------------------------------------------------
(* Properties. *)

Distance(a, b) == IF a < b THEN b - a ELSE a - b

\* Within reach on the globe, where longitude 180 is longitude -180.
WithinReach(p, q, reach) ==
    LET apart == Distance(p.longitude, q.longitude) IN
    /\ Distance(p.latitude, q.latitude) <= reach
    /\ AtMost(apart, 2 * HalfCircle - apart) <= reach

\* Whatever pages were loaded, replaced or moved an aid between them, a scan
\* around any vessel, across the antimeridian too, lists each aid within reach
\* once, as the records map and a click have it, leaves out those last modified
\* before the minimum year, and lists nothing else (light-list-store.ts:91-96).
\* Aids on the meridian of 180 degrees itself are left out of the claim.
QueryFindsAll ==
    \A vessel \in Vessels, reach \in Reaches :
        LET found == ListAids(PositionToBbox(vessel, reach))
            due == {l \in DOMAIN aids :
                      /\ WithinReach(aids[l].position, vessel, reach)
                      /\ \/ aids[l].modifiedDate = Undated
                         \/ aids[l].modifiedDate.year >= MinimumYear}
            offMeridian(l) == aids[l].position.longitude # HalfCircle
        IN  /\ \A hit \in found : hit.record.llnr \in due /\ GetAid(hit.record.llnr) = hit.record
            /\ \A l \in due :
                 offMeridian(l) => Cardinality({hit \in found : hit.record.llnr = l}) = 1
=============================================================================
