---------------------------- MODULE RouteCorridor ----------------------------
(***************************************************************************)
(* src/outputs/route-hazard/route-corridor.ts and routeCorridorBbox of     *)
(* route-hazard-output.ts, on a grid that goes round the globe: x is a     *)
(* longitude, y a latitude, both in one unit of length.  A leg has its     *)
(* ends on one meridian or on one parallel; from a parallel its great      *)
(* circle departs by Rise, which bends the corridor but not the boxes.     *)
(***************************************************************************)
EXTENDS Integers, SequencesExt

CONSTANTS
    Width,      \* corridorWidthMeters
    LookAhead,  \* ROUTE_LOOK_AHEAD_METERS
    HalfCircle, \* 180 degrees of longitude
    Rise,       \* of a leg with its ends on one parallel, by its length and the distance
                \* along it: how far north of the parallel it runs; 0 where left out
    NotFlagged  \* no projection in the corridor

ASSUME CorridorIsNat == Width \in Nat \ {0} /\ LookAhead \in Nat
ASSUME GlobeIsRound == HalfCircle \in Nat \ {0}
ASSUME RiseIsAlongLegs ==
    \A place \in DOMAIN Rise : place \in Nat \X Nat /\ Rise[place] \in Int
ASSUME NotFlaggedIsNoPass == NotFlagged \notin [along : Int, cross : Int]

Abs(n) == IF n < 0 THEN -n ELSE n
Sign(n) == IF n < 0 THEN -1 ELSE IF n > 0 THEN 1 ELSE 0

\* normalizeLongitude.
Normalized(x) ==
    IF x < -HalfCircle THEN x + 2 * HalfCircle
    ELSE IF x >= HalfCircle THEN x - 2 * HalfCircle ELSE x

\* How far east of a the shortest way to b goes; the formulae take sines and
\* cosines of the difference, so the meridian of 180 degrees is no seam to them.
East(a, b) == Normalized(b.x - a.x)

\* distanceMeters between the two ends of a leg.
Length(a, b) == Abs(East(a, b)) + Abs(b.y - a.y)

\* How far north of its ends' parallel the leg runs there.
Bow(a, b, along) ==
    IF a.y = b.y /\ <<Length(a, b), along>> \in DOMAIN Rise
    THEN Rise[<<Length(a, b), along>>] ELSE 0

\* projectPointOntoLeg, the cross-track distance without its side, to the unit.
Projection(a, b, p) ==
    LET dx == Sign(East(a, b))
        dy == Sign(b.y - a.y)
        along == East(a, p) * dx + (p.y - a.y) * dy
    IN  [along |-> along,
         cross |-> Abs(East(a, p) * dy - (p.y - a.y - Bow(a, b, along)) * dx)]

InCorridor(projection, length) ==
    projection.cross <= Width /\ projection.along \in 0 .. length

\* Mutation of Nearer: the leg met first keeps the point.
NearerNever(new, old) == FALSE

\* A closer pass wins, then the earlier one along the route.
Nearer(new, old) ==
    new.cross < old.cross \/ (new.cross = old.cross /\ new.along < old.along)

\* One leg of scanRouteCorridor for one point; a leg of no length is skipped.
ScanLeg(points, p, acc, leg) ==
    LET a == points[leg]
        b == points[leg + 1]
        projection == Projection(a, b, p)
        found == [projection EXCEPT !.along = @ + acc.travelled]
        takes == /\ Length(a, b) # 0 /\ InCorridor(projection, Length(a, b))
                 /\ acc.best = NotFlagged \/ Nearer(found, acc.best)
    IN  [best |-> IF takes THEN found ELSE acc.best,
         travelled |-> acc.travelled + Length(a, b)]

Legs(points) == [i \in 1 .. Len(points) - 1 |-> i]

\* Where the route ahead passes p, or NotFlagged.
Flag(points, p) ==
    IF Len(points) < 2 THEN NotFlagged
    ELSE FoldLeft(LAMBDA acc, leg : ScanLeg(points, p, acc, leg),
                  [best |-> NotFlagged, travelled |-> 0], Legs(points)).best

\* positionToBbox: round the meridian of 180 degrees its west is east of its east.
BoxAround(p, reach) ==
    [west |-> Normalized(p.x - reach), east |-> Normalized(p.x + reach),
     south |-> p.y - reach, north |-> p.y + reach]

Smaller(m, n) == IF m < n THEN m ELSE n
Larger(m, n) == IF m > n THEN m ELSE n

\* unionBbox: edge by edge, whichever side of the meridian they are on.
UnionBox(a, b) ==
    [west |-> Smaller(a.west, b.west), east |-> Larger(a.east, b.east),
     south |-> Smaller(a.south, b.south), north |-> Larger(a.north, b.north)]

\* What a source returns for a box.
Within(box, p) ==
    /\ p.y \in box.south .. box.north
    /\ IF box.west <= box.east THEN p.x \in box.west .. box.east
       ELSE p.x >= box.west \/ p.x <= box.east

TravelledTo(points, i) ==
    FoldLeft(LAMBDA sum, leg : sum + Length(points[leg], points[leg + 1]),
             0, Legs(SubSeq(points, 1, i)))

\* Mutation of LastBoxed: the point past the look-ahead is left out of the box.
LastBoxedShort(points) ==
    LET short == {i \in DOMAIN points : TravelledTo(points, i) < LookAhead}
    IN  CHOOSE i \in short : \A j \in short : j <= i

\* The loop adds the point that reaches the look-ahead, then stops.
LastBoxed(points) ==
    LET far == {i \in DOMAIN points : TravelledTo(points, i) >= LookAhead}
    IN  IF far = {} THEN Len(points) ELSE CHOOSE i \in far : \A j \in far : i <= j

CorridorBox(points) ==
    FoldLeft(UnionBox, BoxAround(points[1], Width),
             [i \in 1 .. LastBoxed(points) |-> BoxAround(points[i], Width)])
-----------------------------------------------------------------------------
(* What the scan is for, stated without its loop. *)

\* The leg passes p, and how.
IsPassing(points, p, leg) ==
    /\ points[leg] # points[leg + 1]
    /\ InCorridor(Projection(points[leg], points[leg + 1], p),
                  Length(points[leg], points[leg + 1]))

PassOn(points, p, leg) ==
    [cross |-> Projection(points[leg], points[leg + 1], p).cross,
     along |-> TravelledTo(points, leg) + Projection(points[leg], points[leg + 1], p).along]

\* Every pass of the route by p, leg by leg.
Passes(points, p) ==
    {PassOn(points, p, leg) : leg \in {l \in 1 .. Len(points) - 1 : IsPassing(points, p, l)}}

\* The pass a warning should be about: the closest, then the earliest.
ClosestPass(points, p) ==
    LET all == Passes(points, p) IN
    IF all = {} THEN NotFlagged
    ELSE CHOOSE best \in all : \A other \in all :
            best.cross < other.cross \/ (best.cross = other.cross /\ best.along <= other.along)

\* No leg, and no box around a point, reaches across the meridian of 180 degrees.
ClearOfMeridian(points) ==
    /\ \A i \in DOMAIN points : points[i].x \in Width - HalfCircle .. HalfCircle - 1 - Width
    /\ \A leg \in 1 .. Len(points) - 1 : Abs(points[leg + 1].x - points[leg].x) < HalfCircle

\* The box with as much again to the north and to the south.
Widened(box, reach) == [box EXCEPT !.south = @ - reach, !.north = @ + reach]

\* How far the leg bows off its parallel where it passes p.
BowAt(points, p, leg) ==
    Bow(points[leg], points[leg + 1], Projection(points[leg], points[leg + 1], p).along)
=============================================================================
