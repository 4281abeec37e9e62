----------------------------- MODULE DedupePois -----------------------------
(***************************************************************************)
(* The merge of one list across sources, src/inputs/dedupe-pois.ts: the    *)
(* points of the base source survive, other sources' duplicates fold into  *)
(* them, then each source's own duplicates fold into its first.            *)
(*                                                                         *)
(* Places are longitudes and latitudes in one small angle.  Distances are  *)
(* the haversine's, to first order; the grid that a duplicate is looked up *)
(* in has a scale of its own, with more metres to the angle and one cosine *)
(* for all of the list.                                                    *)
(***************************************************************************)
EXTENDS Integers, FiniteSets, SequencesExt

CONSTANTS
    Base,           \* BASE_SOURCE_ID
    Merging,        \* dedupeSources: other sources whose duplicates merge
    RadiusOf,       \* dedupeRadiusBySource, for the sources that set one
    DefaultRadius,  \* DEFAULT_DEDUPE_RADIUS_METERS
    TrueMeters,     \* metres of the unit angle on the sphere of distanceMeters
    GridMeters,     \* metres of it by METERS_PER_DEGREE
    FullCircle,     \* 360 degrees in it
    CosOf, CosUnit, \* cosines of the latitudes short of the poles, in units
    None

ASSUME DefaultIsSafe == DefaultRadius \in Nat \ {0}
ASSUME RadiiAreTyped == IsFiniteSet(DOMAIN RadiusOf) /\ \A s \in DOMAIN RadiusOf : RadiusOf[s] \in Int
ASSUME BaseIsNotMerged == Base \notin Merging
ASSUME GlobeIsMeasured ==
    /\ TrueMeters \in Nat \ {0} /\ GridMeters \in Nat \ {0} /\ FullCircle \in Nat
    /\ CosUnit \in Nat \ {0}
    /\ \A y \in DOMAIN CosOf : CosOf[y] \in 0 .. CosUnit

\* A point: its source, namespaced id, type, place, clearance or None, and
\* the sources credited with it, <<>> while the field is absent.

RadiusFor(source) ==
    LET raw == IF source \in DOMAIN RadiusOf THEN RadiusOf[source] ELSE DefaultRadius
    IN  IF raw < 1 THEN 1 ELSE raw

\* The side of a cell, the largest radius in use.
GridRadius ==
    Max({DefaultRadius} \cup {RadiusOf[s] : s \in DOMAIN RadiusOf})

Cosine(latitude) == IF latitude \in DOMAIN CosOf THEN CosOf[latitude] ELSE 0

\* The cosine of the mean latitude of a list, to a unit of latitude.
LonScale(pois) ==
    LET Added(sum, poi) == sum + poi.at.y
    IN  Cosine(FoldLeft(Added, 0, pois) \div Len(pois))

\* cellCoords, on the grid of a list whose LonScale is lon.
Cell(lon, poi) ==
    [x |-> (poi.at.x * GridMeters * lon) \div (GridRadius * CosUnit),
     y |-> (poi.at.y * GridMeters) \div GridRadius]

Between(a, b) == IF a < b THEN b - a ELSE a - b

\* The shorter way round.
Eastward(a, b) ==
    LET d == Between(a.at.x, b.at.x) IN IF 2 * d > FullCircle THEN FullCircle - d ELSE d

\* The square of distanceMeters in units of the cosine.
Apart(a, b) ==
    LET north == TrueMeters * Between(a.at.y, b.at.y)
        east == TrueMeters * Eastward(a, b)
    IN  CosUnit * CosUnit * north * north + Cosine(a.at.y) * Cosine(b.at.y) * east * east

SameFeature(a, b, radius) ==
    a.type = b.type /\ Apart(a, b) <= (radius * CosUnit) * (radius * CosUnit)

\* Mutation of Neighbours: the sweep leaves out a column.
NeighboursOfTwoColumns(lon, grid, given, poi) ==
    {i \in given :
        /\ Cell(lon, grid[i]).x - Cell(lon, poi).x \in -1 .. 0
        /\ Cell(lon, grid[i]).y - Cell(lon, poi).y \in -1 .. 1
        /\ SameFeature(grid[i], poi, RadiusFor(poi.source))}

\* The entries that scanNeighborhood accepts, of those of grid, a sequence in
\* insertion order, that it is given.
Neighbours(lon, grid, given, poi) ==
    {i \in given :
        /\ Cell(lon, grid[i]).x - Cell(lon, poi).x \in -1 .. 1
        /\ Cell(lon, grid[i]).y - Cell(lon, poi).y \in -1 .. 1
        /\ SameFeature(grid[i], poi, RadiusFor(poi.source))}

\* Cells in order of x, then y; within a cell in order of insertion.
ScannedBefore(lon, grid, i, j) ==
    LET c == Cell(lon, grid[i])
        d == Cell(lon, grid[j])
    IN  \/ c.x < d.x
        \/ c.x = d.x /\ c.y < d.y
        \/ c = d /\ i <= j

\* scanNeighborhood: the index of the first match, 0 for none.
ScanNeighborhood(lon, grid, given, poi) ==
    LET all == Neighbours(lon, grid, given, poi) IN
    IF all = {} THEN 0 ELSE CHOOSE i \in all : \A j \in all : ScannedBefore(lon, grid, i, j)

\* Mutation of MinClearance: the survivor's own clearance stands.
MinClearanceOfSurvivor(current, candidate) == IF current = None THEN candidate ELSE current

MinClearance(current, candidate) ==
    CASE candidate = None -> current
      [] current = None -> candidate
      [] OTHER -> IF candidate < current THEN candidate ELSE current

\* A duplicate folds into base point b.
Corroborated(b, poi) ==
    [b EXCEPT !.sources = IF Contains(@, poi.source) THEN @ ELSE Append(@, poi.source),
              !.clearance = MinClearance(@, poi.clearance)]

IsBase(poi) == poi.source = Base

\* basePois, with the corroboration each one starts with.
Seeded(base, poi) ==
    IF IsBase(poi) THEN Append(base, [poi EXCEPT !.sources = <<Base>>]) ELSE base

\* The base pass, one point: acc holds the base points and the survivors.
MergeIntoBase(lon, acc, poi) ==
    LET i == IF poi.source \in Merging
             THEN ScanNeighborhood(lon, acc.base, DOMAIN acc.base, poi) ELSE 0
    IN  IF IsBase(poi) THEN acc
        ELSE IF i # 0 THEN [acc EXCEPT !.base[i] = Corroborated(@, poi)]
        ELSE [acc EXCEPT !.rest = Append(@,
                IF poi.source \in Merging THEN [poi EXCEPT !.sources = <<poi.source>>] ELSE poi)]

\* dedupeSameSource, one point: fold into the first kept of the same source.
MergeSameSource(lon, out, poi) ==
    LET kept == {k \in DOMAIN out : out[k].source = poi.source}
        i == IF poi.source \in Merging THEN ScanNeighborhood(lon, out, kept, poi) ELSE 0
    IN  IF i = 0 THEN Append(out, poi)
        ELSE [out EXCEPT ![i].clearance = MinClearance(@, poi.clearance)]

BasePass(lon, pois) ==
    LET Folded(acc, poi) == MergeIntoBase(lon, acc, poi)
    IN  FoldLeft(Folded, [base |-> FoldLeft(Seeded, <<>>, pois), rest |-> <<>>], pois)

SourcePass(lon, pois) ==
    LET Folded(out, poi) == MergeSameSource(lon, out, poi) IN FoldLeft(Folded, <<>>, pois)

DedupeAgainstBase(pois) ==
    LET lon == LonScale(pois)
        merged == BasePass(lon, pois)
    IN  merged.base \o SourcePass(lon, merged.rest)
=============================================================================
