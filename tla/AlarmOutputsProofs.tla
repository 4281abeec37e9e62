------------------------- MODULE AlarmOutputsProofs -------------------------
(***************************************************************************)
(* The bridge and route-hazard outputs for every chart, every route along  *)
(* the axes of the grid, every draft and every order of lists and details. *)
(* First what the scan of a route and the box of a corridor compute, for   *)
(* routes of any length; then the invariant of the outputs.                *)
(***************************************************************************)
EXTENDS AlarmOutputs, FoldFacts

Pass == [along : Int, cross : Int]
Box == [west : Int, east : Int, south : Int, north : Int]

LEMMA LengthIsNat ==
    ASSUME NEW a \in Place, NEW b \in Place
    PROVE  /\ Length(a, b) \in Nat
           /\ Length(a, b) = 0 <=> a = b
BY GlobeIsRound DEF Length, East, Normalized, Abs, Place

\* The bow of a leg is a whole number of units, wherever it is measured.
LEMMA BowIsInt ==
    ASSUME NEW a \in Place, NEW b \in Place, NEW along \in Int
    PROVE  Bow(a, b, along) \in Int
BY RiseIsAlongLegs DEF Bow

LEMMA ProjectionIsPass ==
    ASSUME NEW a \in Place, NEW b \in Place, NEW p \in Place
    PROVE  Projection(a, b, p) \in Pass
<1> DEFINE dx == Sign(East(a, b))
           dy == Sign(b.y - a.y)
           along == East(a, p) * dx + (p.y - a.y) * dy
           bow == Bow(a, b, along)
<1>1. /\ East(a, b) \in Int /\ East(a, p) \in Int /\ p.y - a.y \in Int
      /\ b.y - a.y \in Int
  BY GlobeIsRound DEF East, Normalized, Place
<1>2. dx \in {-1, 0, 1} /\ dy \in {-1, 0, 1}
  BY <1>1 DEF Sign
<1> HIDE DEF dx, dy
<1>3. along \in Int
  BY <1>1, <1>2
<1> HIDE DEF along
<1>4. bow \in Int
  BY <1>3, BowIsInt
<1> HIDE DEF bow
<1>5. Abs(East(a, p) * dy - (p.y - a.y - bow) * dx) \in Int
  BY <1>1, <1>2, <1>4 DEF Abs
<1> QED  BY <1>3, <1>5 DEF Projection, Pass, dx, dy, along, bow
-----------------------------------------------------------------------------
(* The folds, one leg or one point at a time. *)

\* The legs of the first points of a route are numbered from one.
LEMMA LegsAreNumbered ==
    ASSUME NEW points \in Seq(Place), NEW i \in 1 .. Len(points)
    PROVE  Legs(SubSeq(points, 1, i)) = [k \in 1 .. i - 1 |-> k]
BY DEF Legs

LEMMA TravelFold ==
    ASSUME NEW points \in Seq(Place), NEW n \in Nat, n < Len(points)
    PROVE  \E g : /\ g[0] = 0
                  /\ \A k \in 1 .. n : g[k] = g[k - 1] + Length(points[k], points[k + 1])
                  /\ FoldLeft(LAMBDA sum, leg : sum + Length(points[leg], points[leg + 1]),
                              0, [k \in 1 .. n |-> k]) = g[n]
<1> DEFINE legs == [k \in 1 .. n |-> k]
           leg(k) == Length(points[k], points[k + 1])
           f == [pair \in Nat \X (1 .. n) |-> pair[1] + leg(pair[2])]
           Computes(iter) == iter = [S \in SUBSET (1 .. n) |->
               IF S = {} THEN 0 ELSE iter[S \ {Max(S)}] + leg(legs[Max(S)])]
           iter == CHOOSE iter : Computes(iter)
<1>1. FoldLeft(LAMBDA sum, k : sum + leg(k), 0, legs) = iter[1 .. n]
  <2>1. DOMAIN legs = 1 .. n
    OBVIOUS
  <2> QED  BY <2>1, Zenon DEF FoldLeft, MapThenFoldSet
<1>2. ASSUME NEW k \in 1 .. n PROVE leg(k) \in Nat
  <2>1. points[k] \in Place /\ points[k + 1] \in Place
    OBVIOUS
  <2> QED  BY <2>1, LengthIsNat
<1> HIDE DEF leg
<1>3. PICK table \in [SUBSET (1 .. n) -> Nat] : IsTable(table, n, 0, f)
  <2>1. \A a \in Nat, k \in 1 .. n : f[<<a, k>>] \in Nat
    BY <1>2
  <2> HIDE DEF f
  <2> QED  BY <2>1, FoldTable
<1>4. Computes(table)
  <2> SUFFICES ASSUME NEW S \in SUBSET (1 .. n), S # {}
               PROVE  table[S] = table[S \ {Max(S)}] + leg(legs[Max(S)])
    BY <1>3 DEF IsTable
  <2>1. Max(S) \in 1 .. n /\ S \ {Max(S)} \in SUBSET (1 .. n)
    BY MaxOfIndices
  <2>2. table[S] = f[<<table[S \ {Max(S)}], Max(S)>>]
    BY <1>3 DEF IsTable
  <2> QED  BY <2>1, <2>2
<1>5. Computes(iter)
  BY <1>4, Zenon
<1> HIDE DEF iter
<1> DEFINE g == [k \in 0 .. n |-> iter[1 .. k]]
<1>6. g[0] = 0
  BY <1>5
<1>7. ASSUME NEW k \in 1 .. n PROVE g[k] = g[k - 1] + leg(k)
  <2>1. /\ 1 .. k \in SUBSET (1 .. n) /\ 1 .. k # {}
        /\ Max(1 .. k) = k /\ (1 .. k) \ {Max(1 .. k)} = 1 .. (k - 1)
    BY InitialSegment
  <2>2. legs[k] = k /\ k \in 0 .. n /\ k - 1 \in 0 .. n
    OBVIOUS
  <2> HIDE DEF legs
  <2>3. iter[1 .. k] = iter[1 .. (k - 1)] + leg(k)
    BY <1>5, <2>1, <2>2
  <2> QED  BY <2>2, <2>3
<1>8. g[n] = iter[1 .. n]
  OBVIOUS
<1> QED  BY <1>1, <1>6, <1>7, <1>8 DEF leg

\* TravelledTo grows by the length of each leg.
LEMMA TravelledIsStepwise ==
    ASSUME NEW points \in Seq(Place), points # <<>>
    PROVE  /\ TravelledTo(points, 1) = 0
           /\ \A i \in 1 .. Len(points) : TravelledTo(points, i) \in Nat
           /\ \A i \in 1 .. Len(points) - 1 :
                TravelledTo(points, i + 1) = TravelledTo(points, i) + Length(points[i], points[i + 1])
<1> DEFINE n == Len(points) - 1
<1>1. n \in Nat /\ n < Len(points)
  OBVIOUS
<1> HIDE DEF n
<1>2. PICK g : /\ g[0] = 0
               /\ \A k \in 1 .. n : g[k] = g[k - 1] + Length(points[k], points[k + 1])
               /\ FoldLeft(LAMBDA sum, leg : sum + Length(points[leg], points[leg + 1]),
                           0, [k \in 1 .. n |-> k]) = g[n]
  BY <1>1, TravelFold
<1>8. g[0] = 0 /\ \A k \in 1 .. n : g[k] = g[k - 1] + Length(points[k], points[k + 1])
  BY <1>2, Zenon
<1> USE DEF n
<1>3. ASSUME NEW i \in 1 .. Len(points) PROVE TravelledTo(points, i) = g[i - 1]
  <2>1. i - 1 \in Nat /\ i - 1 < Len(points) /\ i - 1 <= n
    OBVIOUS
  <2>2. PICK h : /\ h[0] = 0
                 /\ \A k \in 1 .. i - 1 : h[k] = h[k - 1] + Length(points[k], points[k + 1])
                 /\ FoldLeft(LAMBDA sum, leg : sum + Length(points[leg], points[leg + 1]),
                             0, [k \in 1 .. i - 1 |-> k]) = h[i - 1]
    BY <2>1, TravelFold
  <2>3. TravelledTo(points, i) = h[i - 1]
    BY <2>2, LegsAreNumbered DEF TravelledTo
  <2>8. h[0] = 0 /\ \A k \in 1 .. i - 1 : h[k] = h[k - 1] + Length(points[k], points[k + 1])
    BY <2>2, Zenon
  <2> DEFINE T == {k \in 0 .. i - 1 : h[k] = g[k]}
  <2>4. 0 \in T
    BY <1>8, <2>1, <2>8
  <2>5. ASSUME NEW k \in 1 .. i - 1, k - 1 \in T PROVE k \in T
    <3>1. k \in 1 .. n /\ h[k - 1] = g[k - 1]
      BY <2>5
    <3>2. h[k] = g[k]
      BY <1>8, <2>8, <3>1
    <3> QED  BY <3>2
  <2>6. 0 .. i - 1 \subseteq T
    <3> HIDE DEF T
    <3> QED  BY <2>1, <2>4, <2>5, IntervalInduction
  <2>7. i - 1 \in T
    BY <2>1, <2>6
  <2> QED  BY <2>3, <2>7
<1>4. \A k \in 0 .. n : g[k] \in Nat
  <2> DEFINE T == {k \in 0 .. n : g[k] \in Nat}
  <2>1. 0 \in T
    BY <1>1, <1>8
  <2>2. ASSUME NEW k \in 1 .. n, k - 1 \in T PROVE k \in T
    <3>1. points[k] \in Place /\ points[k + 1] \in Place
      OBVIOUS
    <3>2. g[k - 1] \in Nat
      BY <2>2
    <3>4. Length(points[k], points[k + 1]) \in Nat
      BY <3>1, LengthIsNat
    <3>3. g[k] \in Nat
      BY <1>8, <3>4, <3>2
    <3> QED  BY <3>3
  <2>3. 0 .. n \subseteq T
    <3> HIDE DEF T
    <3> QED  BY <1>1, <2>1, <2>2, IntervalInduction
  <2> QED  BY <2>3
<1>5. TravelledTo(points, 1) = 0
  BY <1>1, <1>8, <1>3
<1>6. \A i \in 1 .. Len(points) : TravelledTo(points, i) \in Nat
  BY <1>3, <1>4
<1>7. ASSUME NEW i \in 1 .. Len(points) - 1
      PROVE  TravelledTo(points, i + 1) = TravelledTo(points, i) + Length(points[i], points[i + 1])
  <2>1. i \in 1 .. n /\ i \in 1 .. Len(points) /\ i + 1 \in 1 .. Len(points)
    OBVIOUS
  <2>2. TravelledTo(points, i + 1) = g[i] /\ TravelledTo(points, i) = g[i - 1]
    BY <1>3, <2>1
  <2> QED  BY <1>8, <2>1, <2>2
<1> QED  BY <1>5, <1>6, <1>7

\* Further along a route is no nearer, and as far only at the same place.
LEMMA TravelledGrows ==
    ASSUME NEW points \in Seq(Place), NEW i \in 1 .. Len(points), NEW j \in i .. Len(points)
    PROVE  /\ TravelledTo(points, i) <= TravelledTo(points, j)
           /\ TravelledTo(points, i) = TravelledTo(points, j) => points[i] = points[j]
<1> DEFINE n == j - i
           Onward(k) == /\ TravelledTo(points, i) <= TravelledTo(points, i + k)
                        /\ TravelledTo(points, i) = TravelledTo(points, i + k)
                             => points[i] = points[i + k]
           T == {k \in 0 .. n : Onward(k)}
<1>1. n \in Nat /\ i + n = j /\ n \in 0 .. n
  OBVIOUS
<1>2. points # <<>> /\ TravelledTo(points, i) \in Nat
  BY TravelledIsStepwise
<1>3. 0 \in T
  BY <1>1, <1>2
<1>4. ASSUME NEW k \in 1 .. n, k - 1 \in T PROVE k \in T
  <2>1. /\ i + (k - 1) \in 1 .. Len(points) - 1 /\ i + k = (i + (k - 1)) + 1
        /\ points[i + (k - 1)] \in Place /\ points[i + k] \in Place
    OBVIOUS
  <2>2. /\ TravelledTo(points, i + (k - 1)) \in Nat
        /\ TravelledTo(points, i + k)
             = TravelledTo(points, i + (k - 1)) + Length(points[i + (k - 1)], points[i + k])
    BY <1>2, <2>1, TravelledIsStepwise
  <2>3. /\ Length(points[i + (k - 1)], points[i + k]) \in Nat
        /\ Length(points[i + (k - 1)], points[i + k]) = 0 => points[i + (k - 1)] = points[i + k]
    BY <2>1, LengthIsNat
  <2>4. Onward(k - 1)
    BY <1>4
  <2>5. Onward(k)
    BY <1>2, <2>2, <2>3, <2>4
  <2> QED  BY <2>5
<1>5. 0 .. n \subseteq T
  <2> HIDE DEF T, n
  <2> QED  BY <1>1, <1>3, <1>4, IntervalInduction
<1>6. n \in T
  BY <1>1, <1>5
<1>7. Onward(n)
  BY <1>6
<1> QED  BY <1>1, <1>7

LEMMA UnionOfBoxes ==
    ASSUME NEW a \in Box, NEW b \in Box
    PROVE  /\ UnionBox(a, b) \in Box
           /\ UnionBox(a, b).west <= a.west /\ UnionBox(a, b).west <= b.west
           /\ UnionBox(a, b).south <= a.south /\ UnionBox(a, b).south <= b.south
           /\ UnionBox(a, b).east >= a.east /\ UnionBox(a, b).east >= b.east
           /\ UnionBox(a, b).north >= a.north /\ UnionBox(a, b).north >= b.north
BY DEF UnionBox, Box, Smaller, Larger

LEMMA BoxFold ==
    ASSUME NEW n \in Nat, NEW boxes \in [1 .. n -> Box], NEW base \in Box
    PROVE  \E g : /\ g[0] = base
                  /\ \A k \in 1 .. n : g[k] = UnionBox(g[k - 1], boxes[k])
                  /\ FoldLeft(UnionBox, base, boxes) = g[n]
<1> DEFINE f == [pair \in Box \X (1 .. n) |-> UnionBox(pair[1], boxes[pair[2]])]
           Computes(iter) == iter = [S \in SUBSET (1 .. n) |->
               IF S = {} THEN base ELSE UnionBox(iter[S \ {Max(S)}], boxes[Max(S)])]
           iter == CHOOSE iter : Computes(iter)
<1>1. FoldLeft(UnionBox, base, boxes) = iter[1 .. n]
  <2>1. DOMAIN boxes = 1 .. n
    OBVIOUS
  <2> QED  BY <2>1, Zenon DEF FoldLeft, MapThenFoldSet
<1>2. PICK table \in [SUBSET (1 .. n) -> Box] : IsTable(table, n, base, f)
  <2>1. \A a \in Box, k \in 1 .. n : f[<<a, k>>] \in Box
    BY UnionOfBoxes
  <2> HIDE DEF f
  <2> QED  BY <2>1, FoldTable
<1>3. Computes(table)
  <2> SUFFICES ASSUME NEW S \in SUBSET (1 .. n), S # {}
               PROVE  table[S] = UnionBox(table[S \ {Max(S)}], boxes[Max(S)])
    BY <1>2 DEF IsTable
  <2>1. Max(S) \in 1 .. n /\ S \ {Max(S)} \in SUBSET (1 .. n)
    BY MaxOfIndices
  <2>2. table[S] = f[<<table[S \ {Max(S)}], Max(S)>>]
    BY <1>2 DEF IsTable
  <2> QED  BY <2>1, <2>2
<1>4. Computes(iter)
  BY <1>3, Zenon
<1> HIDE DEF iter
<1> DEFINE g == [k \in 0 .. n |-> iter[1 .. k]]
<1>5. g[0] = base
  BY <1>4
<1>6. ASSUME NEW k \in 1 .. n PROVE g[k] = UnionBox(g[k - 1], boxes[k])
  <2>1. /\ 1 .. k \in SUBSET (1 .. n) /\ 1 .. k # {}
        /\ Max(1 .. k) = k /\ (1 .. k) \ {Max(1 .. k)} = 1 .. (k - 1)
    BY InitialSegment
  <2>2. k \in 0 .. n /\ k - 1 \in 0 .. n
    OBVIOUS
  <2>3. iter[1 .. k] = UnionBox(iter[1 .. (k - 1)], boxes[k])
    BY <1>4, <2>1, Zenon
  <2> QED  BY <2>2, <2>3
<1>7. g[n] = iter[1 .. n]
  OBVIOUS
<1> HIDE DEF g
<1> QED  BY <1>1, <1>5, <1>6, <1>7

\* A place whose surroundings do not reach across the meridian of 180 degrees.
InClear(place) == place.x \in Width - HalfCircle .. HalfCircle - 1 - Width

\* The box of a corridor holds the surroundings of every point it was made of.
Surrounds(box, place) ==
    /\ box.west <= place.x - Width /\ place.x + Width <= box.east
    /\ box.south <= place.y - Width /\ place.y + Width <= box.north

LEMMA BoxAroundSurrounds ==
    ASSUME NEW place \in Place
    PROVE  /\ BoxAround(place, Width) \in Box
           /\ InClear(place) => Surrounds(BoxAround(place, Width), place)
<1>1. Width \in Nat /\ HalfCircle \in Nat
  BY CorridorIsNat, GlobeIsRound
<1> QED  BY <1>1 DEF BoxAround, Normalized, Box, Place, Surrounds, InClear

LEMMA UnionSurrounds ==
    ASSUME NEW a \in Box, NEW b \in Box, NEW place \in Place,
           Surrounds(a, place) \/ Surrounds(b, place)
    PROVE  Surrounds(UnionBox(a, b), place)
<1>1. Width \in Nat
  BY CorridorIsNat
<1> QED  BY <1>1 DEF UnionBox, Smaller, Larger, Box, Place, Surrounds

LEMMA CorridorBoxSurrounds ==
    ASSUME NEW points \in Seq(Place), points # <<>>, LastBoxed(points) \in 1 .. Len(points)
    PROVE  /\ CorridorBox(points) \in Box
           /\ \A i \in 1 .. LastBoxed(points) :
                InClear(points[i]) => Surrounds(CorridorBox(points), points[i])
<1> DEFINE n == LastBoxed(points)
           boxes == [i \in 1 .. n |-> BoxAround(points[i], Width)]
           base == BoxAround(points[1], Width)
<1>1. Width \in Nat /\ n \in Nat
  BY CorridorIsNat
<1>2. ASSUME NEW i \in 1 .. Len(points)
      PROVE  /\ BoxAround(points[i], Width) \in Box
             /\ InClear(points[i]) => Surrounds(BoxAround(points[i], Width), points[i])
  <2>1. points[i] \in Place
    OBVIOUS
  <2> QED  BY <2>1, BoxAroundSurrounds
<1>3. base \in Box /\ boxes \in [1 .. n -> Box]
  BY <1>2
<1> HIDE DEF base
<1>4. PICK g : /\ g[0] = base
               /\ \A k \in 1 .. n : g[k] = UnionBox(g[k - 1], boxes[k])
               /\ FoldLeft(UnionBox, base, boxes) = g[n]
  <2> HIDE DEF boxes, n
  <2> QED  BY <1>1, <1>3, BoxFold
<1> DEFINE Holds(k) == /\ g[k] \in Box
                       /\ \A i \in 1 .. k : InClear(points[i]) => Surrounds(g[k], points[i])
           T == {k \in 0 .. n : Holds(k)}
<1>5. 0 \in T
  BY <1>1, <1>3, <1>4
<1>6. ASSUME NEW k \in 1 .. n, k - 1 \in T PROVE k \in T
  <2>1. /\ g[k - 1] \in Box
        /\ \A i \in 1 .. k - 1 : InClear(points[i]) => Surrounds(g[k - 1], points[i])
    BY <1>6
  <2>2. boxes[k] \in Box /\ (InClear(points[k]) => Surrounds(boxes[k], points[k]))
    BY <1>2
  <2>3. \A i \in 1 .. Len(points) : points[i] \in Place
    OBVIOUS
  <2>4. g[k] = UnionBox(g[k - 1], boxes[k])
    BY <1>4
  <2> HIDE DEF boxes, n
  <2>5. g[k] \in Box
    BY <2>1, <2>2, <2>4, UnionOfBoxes
  <2>6. ASSUME NEW i \in 1 .. k, i \in 1 .. Len(points), InClear(points[i])
        PROVE  Surrounds(g[k], points[i])
    <3>1. Surrounds(g[k - 1], points[i]) \/ Surrounds(boxes[k], points[i])
      BY <2>1, <2>2, <2>6
    <3> QED  BY <2>1, <2>2, <2>3, <2>4, <2>6, <3>1, UnionSurrounds
  <2>7. \A i \in 1 .. k : i \in 1 .. Len(points)
    BY DEF n
  <2> QED  BY <2>5, <2>6, <2>7
<1>7. 0 .. n \subseteq T
  <2> HIDE DEF T, n
  <2> QED  BY <1>1, <1>5, <1>6, IntervalInduction
<1>8. Holds(n)
  BY <1>1, <1>7
<1>9. CorridorBox(points) = g[n]
  BY <1>4 DEF CorridorBox, base
<1> QED  BY <1>8, <1>9

\* The box ends with the first point as far as the look-ahead, or with the route.
LEMMA LastBoxedIsFirstFar ==
    ASSUME NEW points \in Seq(Place), points # <<>>
    PROVE  /\ LastBoxed(points) \in 1 .. Len(points)
           /\ \/ LastBoxed(points) = Len(points)
              \/ TravelledTo(points, LastBoxed(points)) >= LookAhead
           /\ \A i \in 1 .. Len(points) :
                TravelledTo(points, i) >= LookAhead => LastBoxed(points) <= i
<1> DEFINE far == {i \in DOMAIN points : TravelledTo(points, i) >= LookAhead}
<1>1. DOMAIN points = 1 .. Len(points) /\ Len(points) \in 1 .. Len(points)
  OBVIOUS
<1>2. CASE far = {}
  <2>1. LastBoxed(points) = Len(points)
    BY <1>2, Zenon DEF LastBoxed
  <2> QED  BY <1>1, <1>2, <2>1
<1>3. CASE far # {}
  <2>1. far \in SUBSET Nat
    BY <1>1
  <2>2. \E i \in far : \A j \in far : i <= j
    <3> HIDE DEF far
    <3> QED  BY <1>3, <2>1, LeastNatural
  <2>3. LastBoxed(points) = CHOOSE i \in far : \A j \in far : i <= j
    BY <1>3, Zenon DEF LastBoxed
  <2>4. LastBoxed(points) \in far /\ \A j \in far : LastBoxed(points) <= j
    BY <2>2, <2>3, Zenon
  <2> QED  BY <1>1, <2>4
<1> QED  BY <1>2, <1>3

\* On a leg clear of the meridian a difference of longitudes is no more than that.
LEMMA ClearLegIsPlane ==
    ASSUME NEW a \in Place, NEW b \in Place, NEW p \in Place,
           InClear(a), InClear(b), Abs(b.x - a.x) < HalfCircle
    PROVE  /\ East(a, b) = b.x - a.x
           /\ \/ East(a, p) = p.x - a.x
              \/ East(a, p) = p.x - a.x + 2 * HalfCircle /\ p.x < a.x - HalfCircle
              \/ East(a, p) = p.x - a.x - 2 * HalfCircle /\ p.x >= a.x + HalfCircle
           /\ \A d \in Int : a.x + d \in -HalfCircle .. HalfCircle - 1 /\ East(a, p) = d
                             => p.x = a.x + d
<1>1. Width \in Nat /\ HalfCircle \in Nat
  BY CorridorIsNat, GlobeIsRound
<1> QED  BY <1>1 DEF East, Normalized, Abs, InClear, Place

\* A leg along a meridian runs straight, one along a parallel bows.
LEMMA OnMeridian ==
    ASSUME NEW a \in Place, NEW b \in Place, NEW p \in Place,
           a.x = b.x, a.y # b.y, East(a, b) = 0, East(a, p) \in Int
    PROVE  LET projection == Projection(a, b, p) IN
           /\ Bow(a, b, projection.along) = 0
           /\ projection.cross = Abs(East(a, p)) /\ Length(a, b) = Abs(b.y - a.y)
           /\ projection.along = IF a.y < b.y THEN p.y - a.y ELSE a.y - p.y
<1> DEFINE dy == Sign(b.y - a.y)
           bow == Bow(a, b, East(a, p) * 0 + (p.y - a.y) * dy)
<1>1. a.y \in Int /\ b.y \in Int /\ p.y \in Int
  BY DEF Place
<1>2. Sign(East(a, b)) = 0 /\ Length(a, b) = Abs(b.y - a.y)
  BY <1>1 DEF Sign, Length, Abs
<1>3. dy = IF a.y < b.y THEN 1 ELSE -1
  BY <1>1 DEF Sign
<1>4. \A along : Bow(a, b, along) = 0
  BY DEF Bow
<1>5. Projection(a, b, p) = [along |-> East(a, p) * 0 + (p.y - a.y) * dy,
                             cross |-> Abs(East(a, p) * dy - (p.y - a.y - bow) * 0)]
  BY <1>2 DEF Projection
<1>6. bow = 0
  BY <1>4
<1> HIDE DEF dy, bow
<1>7. Abs(East(a, p) * dy - (p.y - a.y - bow) * 0) = Abs(East(a, p))
  BY <1>1, <1>3, <1>6 DEF Abs
<1>8. East(a, p) * 0 + (p.y - a.y) * dy = IF a.y < b.y THEN p.y - a.y ELSE a.y - p.y
  BY <1>1, <1>3
<1> QED  BY <1>2, <1>4, <1>5, <1>7, <1>8

LEMMA OnParallel ==
    ASSUME NEW a \in Place, NEW b \in Place, NEW p \in Place,
           a.y = b.y, East(a, b) \in Int \ {0}, East(a, p) \in Int
    PROVE  LET projection == Projection(a, b, p)
               bow == Bow(a, b, projection.along)
           IN  /\ projection.cross = Abs(p.y - a.y - bow) /\ Length(a, b) = Abs(East(a, b))
               /\ projection.along = IF East(a, b) > 0 THEN East(a, p) ELSE -East(a, p)
<1> DEFINE dx == Sign(East(a, b))
           along == East(a, p) * dx + (p.y - a.y) * 0
           bow == Bow(a, b, along)
<1>1. a.y \in Int /\ b.y \in Int /\ p.y \in Int
  BY DEF Place
<1>2. Sign(b.y - a.y) = 0 /\ Length(a, b) = Abs(East(a, b))
  BY <1>1 DEF Sign, Length, Abs
<1>3. dx = IF East(a, b) > 0 THEN 1 ELSE -1
  BY DEF Sign
<1>4. Projection(a, b, p) = [along |-> along,
                             cross |-> Abs(East(a, p) * 0 - (p.y - a.y - bow) * dx)]
  BY <1>2 DEF Projection
<1> HIDE DEF dx
<1>5. along = IF East(a, b) > 0 THEN East(a, p) ELSE -East(a, p)
  BY <1>1, <1>3
<1>6. along \in Int
  BY <1>5
<1> HIDE DEF along
<1>7. bow \in Int
  BY <1>6, BowIsInt
<1> HIDE DEF bow
<1>8. Abs(East(a, p) * 0 - (p.y - a.y - bow) * dx) = Abs(p.y - a.y - bow)
  BY <1>1, <1>3, <1>7 DEF Abs
<1> QED  BY <1>2, <1>4, <1>5, <1>8 DEF bow

\* What lies in the corridor of a leg is near the leg, but for the leg's bow; what
\* it passes at its very start is near that.
LEMMA CorridorIsNearLeg ==
    ASSUME NEW a \in Place, NEW b \in Place, NEW p \in Place, a # b,
           a.x = b.x \/ a.y = b.y,
           InClear(a), InClear(b), Abs(b.x - a.x) < HalfCircle,
           InCorridor(Projection(a, b, p), Length(a, b)),
           NEW box \in Box, Surrounds(box, a),
           Surrounds(box, b) \/ Projection(a, b, p).along = 0
    PROVE  Within(Widened(box, Abs(Bow(a, b, Projection(a, b, p).along))), p)
<1> DEFINE along == Projection(a, b, p).along
           cross == Projection(a, b, p).cross
           bow == Bow(a, b, along)
           wide == Widened(box, Abs(bow))
           east == East(a, p)
           Fits == /\ a.x + east \in box.west .. box.east
                   /\ a.x + east \in -HalfCircle .. HalfCircle - 1
                   /\ p.y \in box.south - Abs(bow) .. box.north + Abs(bow)
<1>1. /\ Width \in Nat /\ HalfCircle \in Nat
      /\ a.x \in Int /\ a.y \in Int /\ b.x \in Int /\ b.y \in Int /\ p.x \in Int /\ p.y \in Int
  BY CorridorIsNat, GlobeIsRound DEF Place
<1>2. along \in Int /\ cross \in Int /\ bow \in Int
  BY ProjectionIsPass, BowIsInt DEF Pass
<1>3. along \in 0 .. Length(a, b) /\ cross <= Width
  BY DEF InCorridor
<1>4. /\ East(a, b) = b.x - a.x /\ east \in Int
      /\ \A d \in Int : a.x + d \in -HalfCircle .. HalfCircle - 1 /\ east = d
                        => p.x = a.x + d
  BY <1>1, ClearLegIsPlane DEF East, Normalized
<1>5. ASSUME Fits PROVE Within(wide, p)
  <2>1. p.x = a.x + east
    BY <1>4, <1>5
  <2>2. /\ wide.west = box.west /\ wide.east = box.east
        /\ wide.south = box.south - Abs(bow) /\ wide.north = box.north + Abs(bow)
    BY DEF Widened, Box
  <2>3. box.west <= box.east
    BY <1>1, <1>4, <1>5 DEF Box
  <2> HIDE DEF wide, bow, east
  <2> QED  BY <1>5, <2>1, <2>2, <2>3 DEF Within
<1>6. ASSUME a.x = b.x PROVE Fits
  <2>1. a.y # b.y /\ East(a, b) = 0
    BY <1>1, <1>4, <1>6 DEF Place
  <2>2. /\ bow = 0 /\ cross = Abs(east) /\ Length(a, b) = Abs(b.y - a.y)
        /\ along = IF a.y < b.y THEN p.y - a.y ELSE a.y - p.y
    BY <1>4, <1>6, <2>1, OnMeridian
  <2> HIDE DEF along, cross, bow, east
  <2>3. a.x + east \in a.x - Width .. a.x + Width
    BY <1>1, <1>3, <1>4, <2>2 DEF Abs
  <2>4. /\ a.x + east \in box.west .. box.east
        /\ a.x + east \in -HalfCircle .. HalfCircle - 1
    BY <1>1, <1>4, <2>3 DEF Surrounds, InClear, Box
  <2>5. p.y \in box.south .. box.north
    BY <1>1, <1>2, <1>3, <1>6, <2>1, <2>2 DEF Surrounds, Abs, Box, along
  <2> QED  BY <2>2, <2>4, <2>5 DEF Abs, Box
<1>7. ASSUME a.y = b.y PROVE Fits
  <2>1. East(a, b) \in Int \ {0}
    BY <1>1, <1>4, <1>7 DEF Place
  <2>2. /\ cross = Abs(p.y - a.y - bow) /\ Length(a, b) = Abs(b.x - a.x)
        /\ along = IF b.x > a.x THEN east ELSE -east
    BY <1>1, <1>4, <1>7, <2>1, OnParallel
  <2>3. Surrounds(box, b) \/ along = 0
    OBVIOUS
  <2> HIDE DEF along, cross, bow, east
  <2>4. /\ p.y - a.y - bow <= Width /\ -(p.y - a.y - bow) <= Width
        /\ bow <= Abs(bow) /\ -bow <= Abs(bow) /\ Abs(bow) \in Int
    BY <1>1, <1>2, <1>3, <2>2 DEF Abs
  <2>5. p.y \in box.south - Abs(bow) .. box.north + Abs(bow)
    BY <1>1, <1>2, <2>4 DEF Surrounds, Box
  <2>6. /\ a.x + east \in box.west .. box.east
        /\ a.x + east \in -HalfCircle .. HalfCircle - 1
    <3>1. CASE b.x > a.x
      BY <1>1, <1>2, <1>3, <1>4, <2>2, <2>3, <3>1 DEF Surrounds, InClear, Abs, Box
    <3>2. CASE ~(b.x > a.x)
      BY <1>1, <1>2, <1>3, <1>4, <2>2, <2>3, <3>2 DEF Surrounds, InClear, Abs, Box
    <3> QED  BY <3>1, <3>2
  <2> QED  BY <2>5, <2>6
<1>8. Within(wide, p)
  BY <1>5, <1>6, <1>7
<1> QED  BY <1>8

LEMMA PassOnIsPass ==
    ASSUME NEW points \in Seq(Place), NEW p \in Place, NEW leg \in 1 .. Len(points) - 1
    PROVE  /\ points[leg] \in Place /\ points[leg + 1] \in Place
           /\ TravelledTo(points, leg) \in Nat
           /\ Projection(points[leg], points[leg + 1], p) \in Pass
           /\ PassOn(points, p, leg) \in Pass
<1>1. /\ points # <<>> /\ leg \in 1 .. Len(points)
      /\ points[leg] \in Place /\ points[leg + 1] \in Place
  OBVIOUS
<1>2. TravelledTo(points, leg) \in Nat /\ Projection(points[leg], points[leg + 1], p) \in Pass
  BY <1>1, TravelledIsStepwise, ProjectionIsPass
<1>3. PassOn(points, p, leg) \in Pass
  BY <1>2 DEF PassOn, Pass
<1> QED  BY <1>1, <1>2, <1>3

\* What the scan of a route can warn of lies in the box of its corridor, also on
\* the leg on which it reaches the look-ahead, but for how far the leg bows there.
LEMMA CorridorBoxHoldsPasses ==
    ASSUME NEW points \in Seq(Place), points # <<>>, NEW p \in Place,
           \A leg \in 1 .. Len(points) - 1 :
               points[leg].x = points[leg + 1].x \/ points[leg].y = points[leg + 1].y,
           ClearOfMeridian(points),
           NEW leg \in 1 .. Len(points) - 1, IsPassing(points, p, leg),
           PassOn(points, p, leg).along <= LookAhead
    PROVE  Within(Widened(CorridorBox(points), Abs(BowAt(points, p, leg))), p)
<1> DEFINE last == LastBoxed(points)
           box == CorridorBox(points)
           projection == Projection(points[leg], points[leg + 1], p)
<1>1. /\ last \in 1 .. Len(points)
      /\ last = Len(points) \/ TravelledTo(points, last) >= LookAhead
      /\ \A i \in 1 .. Len(points) : TravelledTo(points, i) >= LookAhead => last <= i
  BY LastBoxedIsFirstFar
<1>2. box \in Box /\ \A i \in 1 .. last : Surrounds(box, points[i])
  <2>1. \A i \in 1 .. last : InClear(points[i])
    BY <1>1 DEF ClearOfMeridian, InClear
  <2> QED  BY <1>1, <2>1, CorridorBoxSurrounds
<1> HIDE DEF last, box
<1>3. /\ leg \in 1 .. Len(points) /\ leg + 1 \in 1 .. Len(points) /\ LookAhead \in Nat
      /\ points[leg] \in Place /\ points[leg + 1] \in Place
      /\ projection \in Pass /\ TravelledTo(points, leg) \in Nat
  BY PassOnIsPass, CorridorIsNat
<1>4. projection.along >= 0 /\ TravelledTo(points, leg) + projection.along <= LookAhead
  <2>1. projection.along \in 0 .. Length(points[leg], points[leg + 1])
    BY DEF IsPassing, InCorridor
  <2> QED  BY <1>3, <2>1 DEF PassOn, Pass
<1>5. /\ TravelledTo(points, last) \in Nat
      /\ last <= leg => /\ TravelledTo(points, last) <= TravelledTo(points, leg)
                        /\ TravelledTo(points, last) = TravelledTo(points, leg)
                             => points[last] = points[leg]
  <2>1. CASE last <= leg
    <3>1. leg \in last .. Len(points)
      BY <1>1, <1>3, <2>1
    <3> QED  BY <1>1, <3>1, TravelledGrows, TravelledIsStepwise
  <2>2. CASE ~(last <= leg)
    BY <1>1, <2>2, TravelledIsStepwise
  <2> QED  BY <2>1, <2>2
<1>6. Surrounds(box, points[leg]) /\ (Surrounds(box, points[leg + 1]) \/ projection.along = 0)
  <2>1. CASE last <= leg
    <3>1. TravelledTo(points, last) >= LookAhead
      BY <1>1, <1>3, <2>1
    <3>2. TravelledTo(points, last) = TravelledTo(points, leg) /\ projection.along = 0
      BY <1>3, <1>4, <1>5, <2>1, <3>1 DEF Pass
    <3>3. points[last] = points[leg] /\ last \in 1 .. last
      BY <1>1, <1>5, <2>1, <3>2
    <3>4. Surrounds(box, points[last])
      BY <1>2, <3>3
    <3> QED  BY <3>2, <3>3, <3>4
  <2>2. CASE leg < last
    <3>1. leg \in 1 .. last /\ leg + 1 \in 1 .. last
      BY <1>1, <1>3, <2>2
    <3> QED  BY <1>2, <3>1
  <2> QED  BY <1>1, <1>3, <2>1, <2>2
<1>7. /\ points[leg].x = points[leg + 1].x \/ points[leg].y = points[leg + 1].y
      /\ InClear(points[leg]) /\ InClear(points[leg + 1])
      /\ Abs(points[leg + 1].x - points[leg].x) < HalfCircle
  BY <1>3 DEF ClearOfMeridian, InClear
<1>8. Within(Widened(box, Abs(Bow(points[leg], points[leg + 1], projection.along))), p)
  BY <1>2, <1>3, <1>6, <1>7, CorridorIsNearLeg DEF IsPassing
<1> QED  BY <1>8 DEF BowAt, box
-----------------------------------------------------------------------------
(* The scan of a route. *)

Scans == [best : Pass \cup {NotFlagged}, travelled : Nat]

LEMMA ScanLegIsScan ==
    ASSUME NEW points \in Seq(Place), NEW p \in Place, NEW acc \in Scans,
           NEW leg \in 1 .. Len(points) - 1
    PROVE  ScanLeg(points, p, acc, leg) \in Scans
<1> DEFINE projection == Projection(points[leg], points[leg + 1], p)
           found == [projection EXCEPT !.along = @ + acc.travelled]
<1>1. projection \in Pass /\ Length(points[leg], points[leg + 1]) \in Nat
  BY PassOnIsPass, LengthIsNat
<1> HIDE DEF projection
<1>2. found \in Pass
  BY <1>1 DEF Pass, Scans
<1> HIDE DEF found
<1>3. acc.travelled + Length(points[leg], points[leg + 1]) \in Nat
  BY <1>1 DEF Scans
<1> QED  BY <1>2, <1>3 DEF ScanLeg, Scans, found, projection

LEMMA ScanFold ==
    ASSUME NEW points \in Seq(Place), NEW p \in Place, NEW n \in Nat, n = Len(points) - 1,
           NEW base \in Scans
    PROVE  \E g : /\ g[0] = base
                  /\ \A k \in 1 .. n : g[k] = ScanLeg(points, p, g[k - 1], k)
                  /\ FoldLeft(LAMBDA acc, leg : ScanLeg(points, p, acc, leg),
                              base, Legs(points)) = g[n]
<1> DEFINE legs == Legs(points)
           f == [pair \in Scans \X (1 .. n) |-> ScanLeg(points, p, pair[1], pair[2])]
           Computes(iter) == iter = [S \in SUBSET (1 .. n) |->
               IF S = {} THEN base ELSE ScanLeg(points, p, iter[S \ {Max(S)}], legs[Max(S)])]
           iter == CHOOSE iter : Computes(iter)
<1>1. DOMAIN legs = 1 .. n /\ \A k \in 1 .. n : legs[k] = k
  BY DEF Legs
<1> HIDE DEF legs
<1>2. FoldLeft(LAMBDA acc, leg : ScanLeg(points, p, acc, leg), base, legs) = iter[1 .. n]
  BY <1>1, Zenon DEF FoldLeft, MapThenFoldSet
<1>3. PICK table \in [SUBSET (1 .. n) -> Scans] : IsTable(table, n, base, f)
  <2>1. \A a \in Scans, k \in 1 .. n : f[<<a, k>>] \in Scans
    BY ScanLegIsScan
  <2> HIDE DEF f
  <2> QED  BY <2>1, FoldTable
<1>4. Computes(table)
  <2> SUFFICES ASSUME NEW S \in SUBSET (1 .. n), S # {}
               PROVE  table[S] = ScanLeg(points, p, table[S \ {Max(S)}], legs[Max(S)])
    BY <1>3 DEF IsTable
  <2>1. Max(S) \in 1 .. n /\ S \ {Max(S)} \in SUBSET (1 .. n)
    BY MaxOfIndices
  <2>2. table[S] = f[<<table[S \ {Max(S)}], Max(S)>>]
    BY <1>3 DEF IsTable
  <2> QED  BY <1>1, <2>1, <2>2
<1>5. Computes(iter)
  BY <1>4, Zenon
<1> HIDE DEF iter
<1> DEFINE g == [k \in 0 .. n |-> iter[1 .. k]]
<1>6. g[0] = base
  BY <1>5
<1>7. ASSUME NEW k \in 1 .. n PROVE g[k] = ScanLeg(points, p, g[k - 1], k)
  <2>1. /\ 1 .. k \in SUBSET (1 .. n) /\ 1 .. k # {}
        /\ Max(1 .. k) = k /\ (1 .. k) \ {Max(1 .. k)} = 1 .. (k - 1)
    BY InitialSegment
  <2>2. k \in 0 .. n /\ k - 1 \in 0 .. n
    OBVIOUS
  <2>3. iter[1 .. k] =
            ScanLeg(points, p, iter[(1 .. k) \ {Max(1 .. k)}], legs[Max(1 .. k)])
    BY <1>5, <2>1
  <2>4. legs[Max(1 .. k)] = k
    BY <1>1, <2>1
  <2>5. iter[1 .. k] = ScanLeg(points, p, iter[1 .. (k - 1)], k)
    BY <2>1, <2>3, <2>4, Zenon
  <2> QED  BY <2>2, <2>5
<1>8. g[n] = iter[1 .. n]
  OBVIOUS
<1> HIDE DEF g
<1> QED  BY <1>2, <1>6, <1>7, <1>8 DEF legs

\* What one leg does to the best pass so far.
LEMMA ScanLegKeepsNearer ==
    ASSUME NEW points \in Seq(Place), NEW p \in Place, NEW acc \in Scans,
           NEW leg \in 1 .. Len(points) - 1, acc.travelled = TravelledTo(points, leg)
    PROVE  /\ ScanLeg(points, p, acc, leg).travelled = TravelledTo(points, leg + 1)
           /\ ScanLeg(points, p, acc, leg).best =
                IF /\ IsPassing(points, p, leg)
                   /\ acc.best = NotFlagged \/ Nearer(PassOn(points, p, leg), acc.best)
                THEN PassOn(points, p, leg) ELSE acc.best
<1> DEFINE a == points[leg]
           b == points[leg + 1]
           projection == Projection(a, b, p)
           found == [projection EXCEPT !.along = @ + acc.travelled]
<1>1. a \in Place /\ b \in Place /\ projection \in Pass /\ TravelledTo(points, leg) \in Nat
  BY PassOnIsPass
<1>2. Length(a, b) # 0 <=> a # b
  BY <1>1, LengthIsNat
<1>3. TravelledTo(points, leg + 1) = TravelledTo(points, leg) + Length(a, b)
  <2>1. points # <<>>
    OBVIOUS
  <2> QED  BY <2>1, TravelledIsStepwise
<1>4. found = PassOn(points, p, leg)
  <2> HIDE DEF projection
  <2>1. found = [along |-> projection.along + acc.travelled, cross |-> projection.cross]
    BY <1>1 DEF Pass
  <2> QED  BY <1>1, <2>1 DEF PassOn, projection, Pass
<1> HIDE DEF found
<1>5. ScanLeg(points, p, acc, leg) =
        [best |-> IF /\ Length(a, b) # 0 /\ InCorridor(projection, Length(a, b))
                     /\ acc.best = NotFlagged \/ Nearer(found, acc.best)
                  THEN found ELSE acc.best,
         travelled |-> acc.travelled + Length(a, b)]
  BY DEF ScanLeg, found
<1>6. IsPassing(points, p, leg) <=> Length(a, b) # 0 /\ InCorridor(projection, Length(a, b))
  BY <1>2 DEF IsPassing
<1> HIDE DEF a, b, projection
<1> QED  BY <1>3, <1>4, <1>5, <1>6

\* No worse as a pass to warn of.
Precedes(best, other) ==
    best.cross < other.cross \/ (best.cross = other.cross /\ best.along <= other.along)

\* best is what the first k legs leave.
IsBest(points, p, k, best) ==
    \/ best = NotFlagged /\ \A leg \in 1 .. k : ~IsPassing(points, p, leg)
    \/ \E leg \in 1 .. k :
        /\ IsPassing(points, p, leg) /\ best = PassOn(points, p, leg)
        /\ \A other \in 1 .. k :
             IsPassing(points, p, other) => Precedes(best, PassOn(points, p, other))

LEMMA BestIsKept ==
    ASSUME NEW points \in Seq(Place), NEW p \in Place,
           NEW k \in 1 .. Len(points) - 1, NEW acc \in Scans,
           acc.travelled = TravelledTo(points, k), IsBest(points, p, k - 1, acc.best)
    PROVE  IsBest(points, p, k, ScanLeg(points, p, acc, k).best)
<1> DEFINE pass == PassOn(points, p, k)
           best == ScanLeg(points, p, acc, k).best
           takes == /\ IsPassing(points, p, k)
                    /\ acc.best = NotFlagged \/ Nearer(pass, acc.best)
<1>1. best = IF takes THEN pass ELSE acc.best
  BY ScanLegKeepsNearer
<1>2. \A leg \in 1 .. k : PassOn(points, p, leg) \in Pass
  BY PassOnIsPass
<1>3. /\ k \in 1 .. k /\ \A leg \in 1 .. k - 1 : leg \in 1 .. k
      /\ \A leg \in 1 .. k : leg = k \/ leg \in 1 .. k - 1
  OBVIOUS
<1> HIDE DEF best
<1>4. CASE acc.best = NotFlagged /\ \A leg \in 1 .. k - 1 : ~IsPassing(points, p, leg)
  <2>1. CASE IsPassing(points, p, k)
    <3>1. best = pass
      BY <1>1, <1>4, <2>1
    <3>2. Precedes(pass, pass)
      BY <1>2, <1>3 DEF Precedes, Pass
    <3> QED  BY <1>3, <1>4, <2>1, <3>1, <3>2 DEF IsBest, best
  <2>2. CASE ~IsPassing(points, p, k)
    <3>1. best = NotFlagged
      BY <1>1, <1>4, <2>2
    <3> QED  BY <1>3, <1>4, <2>2, <3>1 DEF IsBest, best
  <2> QED  BY <2>1, <2>2
<1>5. ASSUME NEW leg \in 1 .. k - 1, IsPassing(points, p, leg), acc.best = PassOn(points, p, leg),
             \A other \in 1 .. k - 1 :
                 IsPassing(points, p, other) => Precedes(acc.best, PassOn(points, p, other))
      PROVE  IsBest(points, p, k, best)
  <2>1. acc.best # NotFlagged /\ acc.best \in Pass /\ pass \in Pass
    BY <1>2, <1>3, <1>5, NotFlaggedIsNoPass DEF Pass
  <2>2. CASE takes
    <3>1. best = pass /\ Nearer(pass, acc.best) /\ IsPassing(points, p, k)
      BY <1>1, <2>1, <2>2
    <3>2. ASSUME NEW other \in 1 .. k, IsPassing(points, p, other)
          PROVE  Precedes(pass, PassOn(points, p, other))
      <4>1. CASE other = k
        BY <2>1, <4>1 DEF Precedes, Pass
      <4>2. CASE other \in 1 .. k - 1
        <5>1. Precedes(acc.best, PassOn(points, p, other)) /\ PassOn(points, p, other) \in Pass
          BY <1>2, <1>5, <3>2, <4>2
        <5> HIDE DEF pass
        <5> QED  BY <2>1, <3>1, <5>1 DEF Precedes, Nearer, Pass
      <4> QED  BY <1>3, <4>1, <4>2
    <3> QED  BY <1>3, <3>1, <3>2 DEF IsBest
  <2>3. CASE ~takes
    <3>1. best = acc.best
      BY <1>1, <2>3
    <3>2. ASSUME NEW other \in 1 .. k, IsPassing(points, p, other)
          PROVE  Precedes(acc.best, PassOn(points, p, other))
      <4>1. CASE other = k
        <5>1. ~Nearer(pass, acc.best)
          BY <2>3, <3>2, <4>1
        <5>2. Precedes(acc.best, pass)
          <6> HIDE DEF pass
          <6> QED  BY <2>1, <5>1 DEF Precedes, Nearer, Pass
        <5> QED  BY <4>1, <5>2
      <4>2. CASE other \in 1 .. k - 1
        BY <1>5, <3>2, <4>2
      <4> QED  BY <1>3, <4>1, <4>2
    <3> QED  BY <1>3, <1>5, <3>1, <3>2 DEF IsBest
  <2> QED  BY <2>2, <2>3
<1>6. \/ acc.best = NotFlagged /\ \A leg \in 1 .. k - 1 : ~IsPassing(points, p, leg)
      \/ \E leg \in 1 .. k - 1 :
           /\ IsPassing(points, p, leg) /\ acc.best = PassOn(points, p, leg)
           /\ \A other \in 1 .. k - 1 :
                IsPassing(points, p, other) => Precedes(acc.best, PassOn(points, p, other))
  BY Zenon DEF IsBest
<1>7. IsBest(points, p, k, best)
  BY <1>4, <1>5, <1>6 DEF best
<1> QED  BY <1>7 DEF best

LEMMA FlagIsBest ==
    ASSUME NEW points \in Seq(Place), Len(points) >= 2, NEW p \in Place
    PROVE  IsBest(points, p, Len(points) - 1, Flag(points, p))
<1> DEFINE n == Len(points) - 1
           base == [best |-> NotFlagged, travelled |-> 0]
<1>1. n \in Nat /\ base \in Scans /\ points # <<>>
  BY DEF Scans
<1>2. PICK g : /\ g[0] = base
               /\ \A k \in 1 .. n : g[k] = ScanLeg(points, p, g[k - 1], k)
               /\ FoldLeft(LAMBDA acc, leg : ScanLeg(points, p, acc, leg),
                           base, Legs(points)) = g[n]
  <2> HIDE DEF base
  <2> QED  BY <1>1, ScanFold
<1>3. g[0] = base /\ \A k \in 1 .. n : g[k] = ScanLeg(points, p, g[k - 1], k)
  BY <1>2, Zenon
<1> DEFINE Holds(k) == /\ g[k] \in Scans /\ g[k].travelled = TravelledTo(points, k + 1)
                       /\ IsBest(points, p, k, g[k].best)
           T == {k \in 0 .. n : Holds(k)}
<1>4. 0 \in T
  <2>1. g[0] \in Scans /\ g[0].travelled = 0 /\ g[0].best = NotFlagged
    BY <1>1, <1>3
  <2>2. TravelledTo(points, 0 + 1) = 0
    BY <1>1, TravelledIsStepwise
  <2>3. IsBest(points, p, 0, g[0].best)
    BY <2>1 DEF IsBest
  <2> QED  BY <1>1, <2>1, <2>2, <2>3
<1>5. ASSUME NEW k \in 1 .. n, k - 1 \in T PROVE k \in T
  <2>1. Holds(k - 1) /\ k \in 1 .. Len(points) - 1 /\ (k - 1) + 1 = k
    BY <1>5
  <2>2. g[k] = ScanLeg(points, p, g[k - 1], k)
    BY <1>3
  <2>3. g[k] \in Scans
    BY <2>1, <2>2, ScanLegIsScan
  <2>4. g[k].travelled = TravelledTo(points, k + 1)
    BY <2>1, <2>2, ScanLegKeepsNearer
  <2>5. IsBest(points, p, k, g[k].best)
    BY <2>1, <2>2, BestIsKept
  <2> QED  BY <2>3, <2>4, <2>5
<1>6. 0 .. n \subseteq T
  <2> HIDE DEF T, n
  <2> QED  BY <1>1, <1>4, <1>5, IntervalInduction
<1>7. IsBest(points, p, n, g[n].best)
  BY <1>1, <1>6
<1>8. Flag(points, p) = g[n].best
  <2>1. ~(Len(points) < 2)
    OBVIOUS
  <2> QED  BY <1>2, <2>1, Zenon DEF Flag
<1> QED  BY <1>7, <1>8

\* The scan of a route finds the pass a warning should be about: of all the legs
\* within whose corridor the point lies the closest, then the earliest, for routes
\* of any length and points anywhere (route-corridor.ts:120-157).
THEOREM FlagIsClosestPass ==
    ASSUME NEW points \in Seq(Place), NEW p \in Place
    PROVE  Flag(points, p) = ClosestPass(points, p)
<1> DEFINE n == Len(points) - 1
           all == Passes(points, p)
           best == Flag(points, p)
<1>1. all = {PassOn(points, p, leg) : leg \in {l \in 1 .. n : IsPassing(points, p, l)}}
  BY DEF Passes
<1>2. CASE Len(points) < 2
  <2>1. 1 .. n = {}
    BY <1>2
  <2>2. all = {}
    BY <1>1, <2>1
  <2> QED  BY <1>2, <2>2 DEF Flag, ClosestPass
<1>3. CASE Len(points) >= 2
  <2>1. IsBest(points, p, n, best)
    BY <1>3, FlagIsBest
  <2>2. \A leg \in 1 .. n : PassOn(points, p, leg) \in Pass
    BY PassOnIsPass
  <2> HIDE DEF n, all, best
  <2>3. CASE best = NotFlagged /\ \A leg \in 1 .. n : ~IsPassing(points, p, leg)
    <3>1. all = {}
      BY <1>1, <2>3
    <3> QED  BY <2>3, <3>1 DEF ClosestPass, all, best
  <2>4. ASSUME NEW leg \in 1 .. n, IsPassing(points, p, leg), best = PassOn(points, p, leg),
               \A other \in 1 .. n :
                   IsPassing(points, p, other) => Precedes(best, PassOn(points, p, other))
        PROVE  best = ClosestPass(points, p)
    <3>1. best \in all /\ \A other \in all : Precedes(best, other)
      BY <1>1, <2>4
    <3>2. \A other \in all : other \in Pass
      BY <1>1, <2>2
    <3>3. ASSUME NEW other \in all, Precedes(other, best) PROVE other = best
      <4>1. other \in Pass /\ best \in Pass /\ Precedes(best, other)
        BY <3>1, <3>2
      <4>2. other.cross = best.cross /\ other.along = best.along
        BY <3>3, <4>1 DEF Precedes, Pass
      <4> QED  BY <4>1, <4>2 DEF Pass
    <3> DEFINE IsFirst(one) == \A other \in all :
                 one.cross < other.cross \/ (one.cross = other.cross /\ one.along <= other.along)
               closest == CHOOSE one \in all : IsFirst(one)
    <3>4. IsFirst(best)
      BY <3>1 DEF Precedes
    <3>5. closest \in all /\ IsFirst(closest)
      <4> HIDE DEF IsFirst
      <4> QED  BY <3>1, <3>4
    <3>6. Precedes(closest, best)
      BY <3>1, <3>5, Zenon DEF Precedes
    <3>7. closest = best
      <4> HIDE DEF closest
      <4> QED  BY <3>3, <3>5, <3>6
    <3>8. ClosestPass(points, p) = closest
      BY <3>1, Zenon DEF ClosestPass, all
    <3> QED  BY <3>7, <3>8
  <2>5. best = ClosestPass(points, p)
    BY <2>1, <2>3, <2>4, Zenon DEF IsBest, best
  <2> QED  BY <2>5 DEF best
<1>4. Len(points) < 2 \/ Len(points) >= 2
  OBVIOUS
<1> QED  BY <1>2, <1>3, <1>4
-----------------------------------------------------------------------------
(* The invariant of the outputs. *)

Ticks == {[from |-> from, route |-> route, box |-> BoxOf(from, route)] :
            from \in Waters, route \in Routes}

Details == {[clearance |-> BridgeHeight(Navigation[p])] : p \in Points}

TypeOK ==
    /\ fix \in Waters /\ course \in Routes /\ airHeight \in Drafts /\ halted \in BOOLEAN
    /\ tick \in {None} \cup Ticks
    /\ fetching \in [Outputs -> [Points -> Nat]]
    /\ cached \in [Outputs -> [Points -> {None} \cup Details]]

\* What a resolver remembers of a bridge is what its detail says; no other detail
\* than that of a bridge of ActiveCaptain is ever asked for.
DetailsAreKept ==
    \A o \in Outputs, p \in Points :
        /\ fetching[o][p] # 0 => p \in FromBase
        /\ cached[o][p] # None =>
             p \in FromBase /\ cached[o][p].clearance = BridgeHeight(Navigation[p])

Inv == TypeOK /\ DetailsAreKept /\ HaltLeavesNoAlarm

LEMMA InitHasInv == OutputInit => Inv
<1> SUFFICES ASSUME OutputInit PROVE Inv
  OBVIOUS
<1>1. TypeOK
  BY DEF OutputInit, ResolverInit, TypeOK
<1>2. DetailsAreKept
  BY DEF OutputInit, ResolverInit, DetailsAreKept
<1>3. HaltLeavesNoAlarm
  BY DEF OutputInit, HaltLeavesNoAlarm
<1> QED  BY <1>1, <1>2, <1>3 DEF Inv

\* A tick adds to the requests in flight, and forgets none.
LEMMA FetchingIsCounted ==
    ASSUME fetching \in [Outputs -> [Points -> Nat]], NEW resolved, NEW merged
    PROVE  /\ Fetching(resolved, merged) \in [Outputs -> [Points -> Nat]]
           /\ \A o \in Outputs, p \in Points :
                Fetching(resolved, merged)[o][p] # 0 => fetching[o][p] # 0 \/ p \in FromBase
BY DEF Fetching, Asks, NeedsDetail

LEMMA StepKeepsInv == Inv /\ [OutputNext]_outputVars => Inv'
<1> SUFFICES ASSUME Inv, [OutputNext]_outputVars PROVE Inv'
  OBVIOUS
<1> USE DEF Inv
<1>1. CASE TickStarts
  <2>1. TypeOK'
    BY <1>1 DEF TickStarts, TypeOK, Ticks
  <2>2. DetailsAreKept' /\ HaltLeavesNoAlarm'
    BY <1>1 DEF TickStarts, DetailsAreKept, HaltLeavesNoAlarm
  <2> QED  BY <2>1, <2>2
<1>2. ASSUME NEW merged \in SUBSET WithTwin, ListArrives(merged) PROVE Inv'
  <2>1. /\ fetching' \in [Outputs -> [Points -> Nat]]
        /\ \A o \in Outputs, p \in Points :
             fetching'[o][p] # 0 => fetching[o][p] # 0 \/ p \in FromBase
    <3>1. CASE halted
      BY <1>2, <3>1 DEF ListArrives, TypeOK
    <3>2. CASE ~halted
      <4>1. PICK resolved : fetching' = Fetching(resolved, merged)
        BY <1>2, <3>2 DEF ListArrives, Evaluated
      <4> QED  BY <4>1, FetchingIsCounted DEF TypeOK
    <3> QED  BY <3>1, <3>2
  <2>2. TypeOK'
    BY <1>2, <2>1 DEF ListArrives, TypeOK
  <2>3. DetailsAreKept'
    BY <1>2, <2>1 DEF ListArrives, DetailsAreKept
  <2>4. HaltLeavesNoAlarm'
    <3>1. CASE halted
      BY <1>2, <3>1 DEF ListArrives, HaltLeavesNoAlarm
    <3>2. CASE ~halted
      BY <1>2, <3>2 DEF ListArrives, HaltLeavesNoAlarm
    <3> QED  BY <3>1, <3>2
  <2> QED  BY <2>2, <2>3, <2>4
<1>3. CASE ListFails
  BY <1>3 DEF ListFails, TypeOK, DetailsAreKept, HaltLeavesNoAlarm
<1>4. ASSUME NEW o \in Outputs, NEW p \in Points, NEW ok \in BOOLEAN, DetailArrives(o, p, ok)
      PROVE  Inv'
  <2>1. fetching' \in [Outputs -> [Points -> Nat]]
    BY <1>4 DEF DetailArrives, DetailReturns, TypeOK
  <2>2. cached' \in [Outputs -> [Points -> {None} \cup Details]]
    BY <1>4 DEF DetailArrives, DetailReturns, Remembers, TypeOK, Details
  <2>3. TypeOK'
    BY <1>4, <2>1, <2>2 DEF DetailArrives, TypeOK
  <2>4. DetailsAreKept'
    <3>1. cached \in [Outputs -> [Points -> {None} \cup Details]]
      BY DEF TypeOK
    <3>4. /\ p \in FromBase
          /\ \A other \in Outputs, point \in Points :
               fetching'[other][point] # 0 => point \in FromBase
      <4>1. fetching[o][p] > 0 /\ fetching' = [fetching EXCEPT ![o][p] = @ - 1]
        BY <1>4 DEF DetailArrives, DetailReturns
      <4>2. fetching \in [Outputs -> [Points -> Nat]]
        BY DEF TypeOK
      <4>3. p \in FromBase
        BY <4>1, <4>2 DEF DetailsAreKept
      <4> QED  BY <4>1, <4>2, <4>3 DEF DetailsAreKept
    <3>2. CASE ok
      <4>1. cached' = [cached EXCEPT ![o][p] = [clearance |-> BridgeHeight(Navigation[p])]]
        BY <1>4, <3>2 DEF DetailArrives, DetailReturns, Remembers
      <4>2. cached'[o][p] = [clearance |-> BridgeHeight(Navigation[p])]
        BY <3>1, <4>1
      <4>3. \A other \in Outputs, point \in Points :
              other # o \/ point # p => cached'[other][point] = cached[other][point]
        BY <3>1, <4>1
      <4>4. cached'[o][p].clearance = BridgeHeight(Navigation[p])
        BY <4>2
      <4> QED  BY <3>4, <4>3, <4>4 DEF DetailsAreKept
    <3>3. CASE ~ok
      <4>1. cached' = cached
        BY <1>4, <3>3 DEF DetailArrives, DetailReturns, Remembers
      <4> QED  BY <3>4, <4>1 DEF DetailsAreKept
    <3> QED  BY <3>2, <3>3
  <2>5. HaltLeavesNoAlarm'
    BY <1>4 DEF DetailArrives, HaltLeavesNoAlarm
  <2> QED  BY <2>3, <2>4, <2>5
<1>5. CASE Halt
  BY <1>5 DEF Halt, TypeOK, DetailsAreKept, HaltLeavesNoAlarm
<1>6. ASSUME NEW position \in Waters, Move(position) PROVE Inv'
  BY <1>6 DEF Move, TypeOK, DetailsAreKept, HaltLeavesNoAlarm
<1>7. ASSUME NEW route \in Routes, CourseChanges(route) PROVE Inv'
  BY <1>7 DEF CourseChanges, TypeOK, DetailsAreKept, HaltLeavesNoAlarm
<1>8. ASSUME NEW height \in Drafts, AirHeightChanges(height) PROVE Inv'
  BY <1>8 DEF AirHeightChanges, TypeOK, DetailsAreKept, HaltLeavesNoAlarm
<1>9. CASE UNCHANGED outputVars
  BY <1>9 DEF outputVars, TypeOK, DetailsAreKept, HaltLeavesNoAlarm
<1> QED
  BY <1>1, <1>2, <1>3, <1>4, <1>5, <1>6, <1>7, <1>8, <1>9 DEF OutputNext

LEMMA Invariance == OutputSpec => []Inv
BY InitHasInv, StepKeepsInv, PTL DEF OutputSpec

\* After the plugin has stopped no bridge or route alarm is on, whatever lists
\* and details were still awaited (plugin.ts teardown, both outputs' stop()).
THEOREM AlarmsStaySilent == OutputSpec => []HaltLeavesNoAlarm
<1>1. Inv => HaltLeavesNoAlarm
  BY DEF Inv
<1> QED  BY <1>1, Invariance, PTL
-----------------------------------------------------------------------------
(* The box of a tick. *)

LEMMA LegPointsAreOnTheGrid ==
    ASSUME NEW position \in Waters, NEW route \in Routes
    PROVE  /\ LegPoints(position, route) \in Seq(Place)
           /\ LegPoints(position, route) # <<>>
BY PlacesAreOnTheGrid DEF LegPoints

LEMMA UnionHolds ==
    ASSUME NEW a \in Box, NEW b \in Box, NEW place \in Place, NEW reach \in Nat,
           Within(Widened(b, reach), place), b.west <= b.east
    PROVE  Within(Widened(UnionBox(a, b), reach), place)
<1> DEFINE union == UnionBox(a, b)
<1>1. /\ union \in Box
      /\ union.west <= b.west /\ union.south <= b.south
      /\ union.east >= b.east /\ union.north >= b.north
  BY UnionOfBoxes
<1> HIDE DEF union
<1>2. Within(Widened(union, reach), place)
  BY <1>1 DEF Within, Widened, Box, Place
<1> QED  BY <1>2 DEF union

LEMMA BoxHoldsPasses ==
    ASSUME Inv PROVE FetchBoxCoversCorridor
<1> DEFINE points == LegPoints(tick.from, tick.route)
<1> SUFFICES ASSUME tick # None, tick.route # <<>>, ClearOfMeridian(points),
                    NEW p \in Points, NEW leg \in 1 .. Len(points) - 1,
                    IsPassing(points, At[p], leg),
                    PassOn(points, At[p], leg).along <= LookAhead
             PROVE  Within(Widened(tick.box, Abs(BowAt(points, At[p], leg))), At[p])
  BY DEF FetchBoxCoversCorridor
<1> DEFINE near == BridgeBox(tick.from)
           corridor == CorridorBox(points)
           bow == BowAt(points, At[p], leg)
<1>1. tick.from \in Waters /\ tick.route \in Routes /\ tick.box = BoxOf(tick.from, tick.route)
  BY DEF Inv, TypeOK, Ticks
<1>2. points \in Seq(Place) /\ points # <<>> /\ At[p] \in Place
  BY <1>1, LegPointsAreOnTheGrid, PlacesAreOnTheGrid
<1>3. tick.box = UnionBox(near, corridor)
  BY <1>1 DEF BoxOf
<1>4. near \in Box
  <2>1. tick.from \in Place /\ NearScan \in Nat
    BY <1>1, PlacesAreOnTheGrid, RadiiAreOrdered
  <2>2. /\ tick.from.x - NearScan \in Int /\ tick.from.x + NearScan \in Int
        /\ tick.from.y - NearScan \in Int /\ tick.from.y + NearScan \in Int
    BY <2>1 DEF Place
  <2>3. \A x \in Int : Normalized(x) \in Int
    BY GlobeIsRound DEF Normalized
  <2>4. /\ Normalized(tick.from.x - NearScan) \in Int
        /\ Normalized(tick.from.x + NearScan) \in Int
    BY <2>2, <2>3
  <2> QED  BY <2>2, <2>4 DEF BridgeBox, BoxAround, Box
<1>5. corridor \in Box /\ corridor.west <= corridor.east
  <2>1. LastBoxed(points) \in 1 .. Len(points) /\ 1 \in 1 .. LastBoxed(points)
    BY <1>2, LastBoxedIsFirstFar
  <2>2. 1 \in DOMAIN points /\ points[1] \in Place
    BY <1>2
  <2>3. InClear(points[1])
    BY <2>2 DEF ClearOfMeridian, InClear
  <2>4. corridor \in Box /\ Surrounds(corridor, points[1])
    BY <1>2, <2>1, <2>3, CorridorBoxSurrounds
  <2> HIDE DEF corridor
  <2> QED  BY <2>2, <2>4, CorridorIsNat DEF Surrounds, Box, Place
<1>6. \A l \in 1 .. Len(points) - 1 :
        points[l].x = points[l + 1].x \/ points[l].y = points[l + 1].y
  BY <1>1, LegsRunAlongAnAxis
<1> HIDE DEF points, near, corridor
<1>7. Within(Widened(corridor, Abs(bow)), At[p])
  BY <1>2, <1>6, CorridorBoxHoldsPasses DEF corridor
<1>8. Abs(bow) \in Nat
  <2>1. bow \in Int
    BY <1>2, PassOnIsPass, BowIsInt DEF BowAt, Pass
  <2> QED  BY <2>1 DEF Abs
<1> HIDE DEF bow
<1>9. Within(Widened(UnionBox(near, corridor), Abs(bow)), At[p])
  BY <1>2, <1>4, <1>5, <1>7, <1>8, UnionHolds
<1> QED  BY <1>3, <1>9 DEF bow

\* The list a tick fetches holds every point that the scan of its route could warn
\* of from where the tick started, but for the bow of the leg that passes it: for
\* every route clear of the meridian of 180 degrees, every shape of its great
\* circles and wherever the look-ahead ends on it (route-hazard-output.ts
\* routeCorridorBbox).
THEOREM FetchBoxIsWideEnough == OutputSpec => []FetchBoxCoversCorridor
BY BoxHoldsPasses, Invariance, PTL
-----------------------------------------------------------------------------
(* What the arrival of a list leaves. *)

LEMMA FlagIsPass ==
    ASSUME NEW points \in Seq(Place), NEW p \in Place
    PROVE  Flag(points, p) \in Pass \cup {NotFlagged}
<1>1. CASE Len(points) < 2
  BY <1>1 DEF Flag
<1>2. CASE Len(points) >= 2
  <2>1. \A leg \in 1 .. Len(points) - 1 : PassOn(points, p, leg) \in Pass
    BY PassOnIsPass
  <2>2. IsBest(points, p, Len(points) - 1, Flag(points, p))
    BY <1>2, FlagIsBest
  <2> QED  BY <2>1, <2>2, Zenon DEF IsBest
<1>3. Len(points) < 2 \/ Len(points) >= 2
  OBVIOUS
<1> QED  BY <1>1, <1>2, <1>3

LEMMA ListWarnsOfRoute ==
    ASSUME Inv, NEW merged, ListArrives(merged), ~halted, NEW p \in Points
    PROVE  LET pass == IF p \in FoundBy(tick) /\ tick.route # <<>>
                       THEN ClosestPass(LegPoints(fix, tick.route), At[p]) ELSE NotFlagged
               ahead == IF pass = NotFlagged THEN FALSE ELSE pass.along <= LookAhead
           IN  warnings'[p].along = IF ahead THEN pass.along ELSE -1
<1> DEFINE points == LegPoints(fix, tick.route)
           flags == FlagsOf(tick, FoundBy(tick))
           flag == Flag(points, At[p])
<1>1. warnings' = WarningsOf(flags, AirDraft(airHeight), merged)
  BY DEF ListArrives, Evaluated
<1>2. fix \in Waters /\ tick.route \in Routes
  BY DEF Inv, TypeOK, Ticks, ListArrives
<1>3. points \in Seq(Place) /\ At[p] \in Place
  BY <1>2, LegPointsAreOnTheGrid, PlacesAreOnTheGrid
<1>4. flag = ClosestPass(points, At[p]) /\ flag \in Pass \cup {NotFlagged}
  <2> HIDE DEF points
  <2> QED  BY <1>3, FlagIsClosestPass, FlagIsPass
<1>5. flags[p] = IF p \notin FoundBy(tick) \/ tick.route = <<>> THEN NotFlagged
                 ELSE IF flag = NotFlagged THEN NotFlagged
                 ELSE IF flag.along > LookAhead THEN NotFlagged ELSE flag
  BY DEF FlagsOf
<1>6. warnings'[p].along = IF flags[p] = NotFlagged THEN -1 ELSE flags[p].along
  BY <1>1 DEF WarningsOf, NoWarning
<1>7. LookAhead \in Nat
  BY CorridorIsNat
<1> HIDE DEF points, flags, flag
<1>8. CASE p \in FoundBy(tick) /\ tick.route # <<>> /\ flag # NotFlagged
  <2>1. flag.along \in Int
    BY <1>4, <1>8 DEF Pass
  <2> QED  BY <1>4, <1>5, <1>6, <1>7, <1>8, <2>1 DEF points
<1>9. CASE ~(p \in FoundBy(tick) /\ tick.route # <<>> /\ flag # NotFlagged)
  BY <1>4, <1>5, <1>6, <1>9 DEF points
<1> QED  BY <1>8, <1>9

\* The warnings a tick leaves are those of the route it read when it started, seen
\* from the newest fix, each at the distance of the closest pass, and no other:
\* for routes of any length and however many fixes have come in between.
THEOREM WarningsAreThoseOfTheRoute == OutputSpec => WarningsFollowRoute
<1> DEFINE Follows ==
        (\E merged \in SUBSET WithTwin : ListArrives(merged)) /\ ~halted =>
         \A p \in Points :
            LET pass == IF p \in FoundBy(tick) /\ tick.route # <<>>
                        THEN ClosestPass(LegPoints(fix, tick.route), At[p]) ELSE NotFlagged
                ahead == IF pass = NotFlagged THEN FALSE ELSE pass.along <= LookAhead
            IN  warnings'[p].along = IF ahead THEN pass.along ELSE -1
<1>1. Inv /\ [OutputNext]_outputVars => [Follows]_outputVars
  BY ListWarnsOfRoute
<1>2. OutputSpec => [][Follows]_outputVars
  BY <1>1, Invariance, PTL DEF OutputSpec
<1> QED  BY <1>2 DEF WarningsFollowRoute

\* Charted is what the source publishes of a bridge: the height of the detail, or
\* the first clearance tag that says one; TwinCharted is what its twin's does.
ChartedIsPublished ==
    /\ \A p \in Points : IsBridge[p] =>
        Charted[p] = IF p \in FromBase THEN BridgeHeight(Navigation[p])
                     ELSE ParseOsmClearance(Tags[p])
    /\ \A p \in WithTwin : TwinCharted[p] = ParseOsmClearance(Tags[p])

LEMMA KnownClearanceIsCharted ==
    ASSUME ChartedIsPublished, Inv, NEW o \in Outputs, NEW p \in Points, IsBridge[p],
           NEW merged \in SUBSET WithTwin
    PROVE  /\ p \in merged /\ TwinCharted[p] # None
                => ClearanceMeters(o, p, merged) = TwinCharted[p]
           /\ p \notin merged \/ TwinCharted[p] = None
                => /\ ClearanceMeters(o, p, merged) # None
                        => ClearanceMeters(o, p, merged) = Charted[p]
                   /\ ClearanceMeters(o, p, merged) = None /\ Charted[p] # None
                        => NeedsDetail(o, p, merged)
<1>1. cached[o][p] # None =>
        p \in FromBase /\ cached[o][p].clearance = BridgeHeight(Navigation[p])
  BY DEF Inv, DetailsAreKept
<1>2. p \in FromBase =>
        /\ Charted[p] = BridgeHeight(Navigation[p])
        /\ OnSummary(p, merged) = IF p \in merged THEN TwinCharted[p] ELSE None
  BY DEF OnSummary, ChartedIsPublished
<1>3. p \notin FromBase => OnSummary(p, merged) = Charted[p] /\ p \notin merged
  BY DEF OnSummary, ChartedIsPublished, WithTwin
<1>4. CASE p \in FromBase
  BY <1>1, <1>2, <1>4 DEF ClearanceMeters, NeedsDetail
<1>5. CASE p \notin FromBase
  BY <1>1, <1>3, <1>5 DEF ClearanceMeters
<1> QED  BY <1>4, <1>5

LEMMA NearerIsWithin ==
    ASSUME NEW a \in Place, NEW b \in Place, IsWithin(NearRadius, a, b)
    PROVE  IsWithin(LeaveRadius, a, b)
<1>1. SquaredDistance(a, b) \in Int
  <2>1. East(a, b) \in Int /\ a.y - b.y \in Int
    BY GlobeIsRound DEF East, Normalized, Place
  <2>2. East(a, b) * East(a, b) \in Int /\ (a.y - b.y) * (a.y - b.y) \in Int
    BY <2>1
  <2> QED  BY <2>2 DEF SquaredDistance
<1>2. NearRadius * NearRadius <= LeaveRadius * LeaveRadius
  <2>1. NearRadius * NearRadius <= NearRadius * LeaveRadius
    BY RadiiAreOrdered
  <2>2. NearRadius * LeaveRadius <= LeaveRadius * LeaveRadius
    BY RadiiAreOrdered
  <2>3. /\ NearRadius * NearRadius \in Int /\ NearRadius * LeaveRadius \in Int
        /\ LeaveRadius * LeaveRadius \in Int
    BY RadiiAreOrdered
  <2> QED  BY <2>1, <2>2, <2>3
<1>3. NearRadius * NearRadius \in Int /\ LeaveRadius * LeaveRadius \in Int
  BY RadiiAreOrdered
<1> QED  BY <1>1, <1>2, <1>3 DEF IsWithin

LEMMA ListClaimsTheTruth ==
    ASSUME ChartedIsPublished, Inv, NEW merged \in SUBSET WithTwin, ListArrives(merged), ~halted
    PROVE  LET isTooLow(p) == TooLow(p) \/ (p \in merged /\ TwinTooLow(p)) IN
           /\ \A p \in bridgeAlarms' : isTooLow(p) /\ IsWithin(LeaveRadius, fix, At[p])
           /\ \A p \in Points : warnings'[p].low => isTooLow(p)
<1> DEFINE found == FoundBy(tick)
           airDraft == AirDraft(airHeight)
           flags == FlagsOf(tick, found)
           blocking == Blocking(found, airDraft, merged)
           isTooLow(p) == TooLow(p) \/ (p \in merged /\ TwinTooLow(p))
<1>1. bridgeAlarms' = BridgeInAlarm(blocking) /\ warnings' = WarningsOf(flags, airDraft, merged)
  BY DEF ListArrives, Evaluated
<1>2. /\ "bridge" \in Outputs /\ "route" \in Outputs /\ fix \in Place
      /\ \A p \in Points : At[p] \in Place
  BY OutputsAreTwo, PlacesAreOnTheGrid DEF Inv, TypeOK
<1>3. found \subseteq Points
  BY DEF FoundBy
<1> HIDE DEF found, flags
<1>4. ASSUME NEW o \in Outputs, NEW p \in Points, IsBridge[p],
             Blocks(ClearanceMeters(o, p, merged), airDraft)
      PROVE  isTooLow(p)
  <2>1. ClearanceMeters(o, p, merged) # None
    BY <1>4 DEF Blocks
  <2>2. \/ ClearanceMeters(o, p, merged) = Charted[p]
        \/ p \in merged /\ ClearanceMeters(o, p, merged) = TwinCharted[p]
    BY <1>4, <2>1, KnownClearanceIsCharted
  <2> QED  BY <1>4, <2>2 DEF TooLow, TwinTooLow
<1>5. ASSUME NEW p \in bridgeAlarms'
      PROVE  isTooLow(p) /\ IsWithin(LeaveRadius, fix, At[p])
  <2>1. p \in Points /\ p \in blocking
    BY <1>1, <1>3, <1>5 DEF BridgeInAlarm, Raised, Kept, Blocking
  <2>2. isTooLow(p)
    BY <1>2, <1>4, <2>1 DEF Blocking
  <2>3. IsWithin(NearRadius, fix, At[p]) \/ IsWithin(LeaveRadius, fix, At[p])
    BY <1>1, <1>5 DEF BridgeInAlarm, Raised, Kept
  <2> QED  BY <1>2, <2>1, <2>2, <2>3, NearerIsWithin
<1>6. ASSUME NEW p \in Points, warnings'[p].low PROVE isTooLow(p)
  <2>1. warnings'[p] = IF flags[p] = NotFlagged THEN NoWarning
                       ELSE [along |-> flags[p].along,
                             low |-> IsBridge[p] /\ Blocks(ClearanceMeters("route", p, merged), airDraft)]
    BY <1>1 DEF WarningsOf
  <2>2. ~NoWarning.low
    BY DEF NoWarning
  <2>3. IsBridge[p] /\ Blocks(ClearanceMeters("route", p, merged), airDraft)
    <3>1. CASE flags[p] = NotFlagged
      BY <1>6, <2>1, <2>2, <3>1
    <3>2. CASE flags[p] # NotFlagged
      <4>1. warnings'[p].low =
              (IsBridge[p] /\ Blocks(ClearanceMeters("route", p, merged), airDraft))
        BY <2>1, <3>2
      <4> QED  BY <1>6, <4>1, Zenon
    <3> QED  BY <3>1, <3>2
  <2> QED  BY <1>2, <1>4, <2>3
<1> QED  BY <1>5, <1>6

\* Every alarm and every clearance clause a tick leaves is about a bridge for which
\* its source, or that of a twin merged into it, publishes a clearance too low for
\* the draft of that moment, however many details have failed or are under way and
\* whichever twins the lists have brought, for every chart and every draft.
THEOREM ClaimsFollowTheChart ==
    ASSUME ChartedIsPublished PROVE OutputSpec => ClearanceClaimsAreTrue
<1> DEFINE Claims ==
        \A merged \in SUBSET WithTwin : ListArrives(merged) /\ ~halted =>
         LET isTooLow(p) == TooLow(p) \/ (p \in merged /\ TwinTooLow(p)) IN
         /\ \A p \in bridgeAlarms' : isTooLow(p) /\ IsWithin(LeaveRadius, fix, At[p])
         /\ \A p \in Points : warnings'[p].low => isTooLow(p)
<1>1. Inv /\ [OutputNext]_outputVars => [Claims]_outputVars
  BY ListClaimsTheTruth
<1>2. OutputSpec => [][Claims]_outputVars
  BY <1>1, Invariance, PTL DEF OutputSpec
<1> QED  BY <1>2 DEF ClearanceClaimsAreTrue

LEMMA ListMissesNoLowBridge ==
    ASSUME ChartedIsPublished, Inv, NEW merged \in SUBSET WithTwin, ListArrives(merged), ~halted,
           NEW p \in FoundBy(tick), IsWithin(NearRadius, fix, At[p]),
           (TooLow(p) /\ ~Masked(p, merged)) \/ (p \in merged /\ TwinTooLow(p))
    PROVE  p \in bridgeAlarms' \/ fetching'["bridge"][p] > 0
<1> DEFINE found == FoundBy(tick)
           airDraft == AirDraft(airHeight)
           flags == FlagsOf(tick, found)
           blocking == Blocking(found, airDraft, merged)
           resolved == [o \in Outputs |->
               IF o = "bridge" THEN ResolvedByBridge(found, airDraft)
               ELSE ResolvedByRoute(flags, airDraft)]
           clearance == ClearanceMeters("bridge", p, merged)
<1>1. bridgeAlarms' = BridgeInAlarm(blocking) /\ fetching' = Fetching(resolved, merged)
  BY DEF ListArrives, Evaluated
<1>2. "bridge" \in Outputs /\ p \in Points /\ p \in found /\ IsBridge[p] /\ airDraft # None
  BY OutputsAreTwo DEF FoundBy, TooLow, TwinTooLow, Blocks
<1>3. fix \in Place /\ At[p] \in Place
  BY <1>2, PlacesAreOnTheGrid DEF Inv, TypeOK
<1>4. \/ Blocks(clearance, airDraft)
      \/ clearance = None /\ NeedsDetail("bridge", p, merged)
  <2>1. CASE p \in merged /\ TwinCharted[p] # None
    <3>1. clearance = TwinCharted[p]
      BY <1>2, <2>1, KnownClearanceIsCharted
    <3>2. CASE TwinTooLow(p)
      BY <3>1, <3>2 DEF TwinTooLow
    <3>3. CASE TooLow(p) /\ ~Masked(p, merged)
      <4>1. /\ ~(TwinCharted[p] > Charted[p])
            /\ TwinCharted[p] \in Int /\ Charted[p] \in Int /\ airDraft + Margin \in Int
            /\ Charted[p] <= airDraft + Margin
        <5>1. airDraft \in Int
          <6>1. airHeight # None => airHeight \in Int
            BY LengthsAreIntegers DEF Inv, TypeOK
          <6>2. (airDraft = airHeight /\ airHeight # None) \/ airDraft \in {Fallback, None}
            BY DEF AirDraft, Positive
          <6> QED  BY <1>2, <6>1, <6>2, LengthsAreNat
        <5>2. /\ ~(TwinCharted[p] > Charted[p]) /\ Charted[p] # None
              /\ Charted[p] <= airDraft + Margin
          BY <2>1, <3>3 DEF Masked, TooLow, Blocks
        <5> HIDE DEF airDraft
        <5> QED  BY <1>2, <2>1, <5>1, <5>2, LengthsAreIntegers, LengthsAreNat
      <4> HIDE DEF airDraft
      <4> QED  BY <1>2, <2>1, <3>1, <4>1 DEF Blocks
    <3> QED  BY <3>2, <3>3
  <2>2. CASE p \notin merged \/ TwinCharted[p] = None
    <3>1. TooLow(p) /\ Charted[p] # None
      BY <2>2 DEF TooLow, TwinTooLow, Blocks
    <3>2. clearance = Charted[p] \/ (clearance = None /\ NeedsDetail("bridge", p, merged))
      BY <1>2, <2>2, <3>1, KnownClearanceIsCharted
    <3> QED  BY <3>1, <3>2 DEF TooLow
  <2> QED  BY <2>1, <2>2
<1> HIDE DEF found, airDraft, flags, clearance
<1>5. CASE Blocks(clearance, airDraft)
  <2>1. p \in blocking
    BY <1>2, <1>5 DEF Blocking, clearance
  <2>2. IsWithin(LeaveRadius, fix, At[p])
    BY <1>3, NearerIsWithin
  <2> QED  BY <1>1, <2>1, <2>2 DEF BridgeInAlarm, Raised, Kept
<1>6. CASE clearance = None /\ NeedsDetail("bridge", p, merged)
  <2>1. resolved["bridge"] = ResolvedByBridge(found, airDraft)
    BY <1>2
  <2>2. p \in resolved["bridge"]
    BY <1>2, <2>1 DEF ResolvedByBridge
  <2> HIDE DEF resolved
  <2>3. fetching["bridge"][p] \in Nat
    BY <1>2 DEF Inv, TypeOK
  <2>4. fetching'["bridge"][p] =
          IF p \in Asks("bridge", resolved["bridge"], merged) THEN fetching["bridge"][p] + 1
          ELSE fetching["bridge"][p]
    BY <1>1, <1>2 DEF Fetching
  <2> QED  BY <1>6, <2>2, <2>3, <2>4 DEF Asks
<1> QED  BY <1>4, <1>5, <1>6

\* No low bridge of the list within the radius is passed over in silence, unless a
\* merged twin's higher clearance masks it: it alarms, or its detail is being asked
\* for, also after the detail has failed, and whichever twins the lists bring.
THEOREM LowBridgesAreNeverPassedOver ==
    ASSUME ChartedIsPublished PROVE OutputSpec => LowBridgeAlarmsOrIsAsked
<1> DEFINE Alarmed ==
        \A merged \in SUBSET WithTwin : ListArrives(merged) /\ ~halted =>
         \A p \in FoundBy(tick) :
            IsWithin(NearRadius, fix, At[p])
            /\ ((TooLow(p) /\ ~Masked(p, merged)) \/ (p \in merged /\ TwinTooLow(p)))
              => p \in bridgeAlarms' \/ fetching'["bridge"][p] > 0
<1>1. Inv /\ [OutputNext]_outputVars => [Alarmed]_outputVars
  BY ListMissesNoLowBridge
<1>2. OutputSpec => [][Alarmed]_outputVars
  BY <1>1, Invariance, PTL DEF OutputSpec
<1> QED  BY <1>2 DEF LowBridgeAlarmsOrIsAsked
=============================================================================
