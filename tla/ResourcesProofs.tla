--------------------------- MODULE ResourcesProofs ---------------------------
(***************************************************************************)
(* The resources the plugin reads and the ones it serves.                  *)
(*                                                                         *)
(* The course reader for every set of courses, every route resource and    *)
(* any number of course changes.                                           *)
(*                                                                         *)
(* The notes resource for any sources, points, radii and queries.  The ids *)
(* of a list lead back to the points of its sources, as no slug holds the  *)
(* separator.  The sweep over the grid finds every twin in its reach, at   *)
(* any latitude and on any scale, as no radius is wider than a cell; so    *)
(* each pass of the merge leaves no twin of what it keeps, and what it     *)
(* drops it credits on what it keeps.                                      *)
(***************************************************************************)
EXTENDS CourseReader, NotesResource, FoldFacts, FiniteSetTheorems, SequenceTheorems
-----------------------------------------------------------------------------
(* The course reader. *)

\* Which way a course changes does not matter to a proof about the reader.
ServerStep(c, ds) ==
    /\ c \in Courses \cup {NoCourse}
    /\ course' = c
    /\ version' = version + 1
    /\ Emit(ds)
    /\ UNCHANGED readerVars

-----------------------------------------------------------------------------
(* The inductive invariant. *)

\* A refresh in flight has a generation handed out, no refresh has read a course
\* of the future, and one that read the present course remembers it.  The newest
\* refresh, once it has read the course, is as new as the latest delta handled.
RefreshesOk ==
    \A r \in refreshes :
        /\ r.generation <= refreshGeneration
        /\ r.phase # "getCourse" =>
             /\ r.version <= version
             /\ r.version = version => r.course = course
             /\ r.generation = refreshGeneration /\ ~stopped
                  => r.version >= handled

\* The last delta on its way is about the present course, and one about the
\* present course that says "cleared" is right.
DeltasOk ==
    ~stopped =>
        /\ handled <= version
        /\ \A i \in 1 .. Len(deltas) :
             /\ deltas[i].version <= version
             /\ deltas[i].clear /\ deltas[i].version = version => course = NoCourse
        /\ deltas = <<>> => handled = version
        /\ deltas # <<>> => deltas[Len(deltas)].version = version

NewestIsDone == \A r \in refreshes : r.generation # refreshGeneration

\* The cached route is never newer than the present course, is its route if it
\* was read from it, and once the newest refresh is done it is not older than
\* the latest delta handled.
CacheOk ==
    ~stopped =>
        /\ cached.version <= version
        /\ cached.version = version /\ cached.ok => currentRoute = Resolve(course)
        /\ NewestIsDone => cached.version >= handled

Inv == TypeOK /\ StoppedHoldsNoRoute /\ RefreshesOk /\ DeltasOk /\ CacheOk
-----------------------------------------------------------------------------
(* Every step preserves it. *)

\* The deltas the server appends all tell of the change it makes.
LEMMA ServerKeepsInv ==
    ASSUME Inv, NEW c, NEW ds \in Seq(DeltaType), ds # <<>>,
           \A i \in 1 .. Len(ds) :
              ds[i].version = version + 1 /\ (ds[i].clear => c = NoCourse),
           ServerStep(c, ds)
    PROVE  Inv'
<1> USE DEF Inv, ServerStep, readerVars, Emit
<1>1. TypeOK'
  BY DEF TypeOK
<1>2. StoppedHoldsNoRoute'
  BY DEF StoppedHoldsNoRoute
<1>3. RefreshesOk'
  BY DEF RefreshesOk, TypeOK, RefreshType
<1>4. DeltasOk'
  <2> SUFFICES ASSUME ~stopped PROVE DeltasOk'
    BY DEF DeltasOk
  <2>1. /\ deltas' = deltas \o ds
        /\ deltas \in Seq(DeltaType)
        /\ version \in Nat /\ handled \in Nat
    BY DEF TypeOK
  <2>2. Len(deltas') = Len(deltas) + Len(ds) /\ Len(ds) > 0
    BY <2>1
  <2>3. \A i \in 1 .. Len(deltas') :
           deltas'[i] = IF i <= Len(deltas) THEN deltas[i] ELSE ds[i - Len(deltas)]
    BY <2>1
  <2>4. deltas'[Len(deltas')] = ds[Len(ds)] /\ deltas' # <<>>
    BY <2>1, <2>2, <2>3
  <2>5. \A i \in 1 .. Len(deltas') :
           /\ deltas'[i].version <= version'
           /\ deltas'[i].clear /\ deltas'[i].version = version' => course' = NoCourse
    <3> TAKE i \in 1 .. Len(deltas')
    <3>1. CASE i <= Len(deltas)
      <4>1. i \in 1 .. Len(deltas) /\ deltas'[i] = deltas[i]
        BY <2>1, <2>3, <3>1
      <4>2. deltas[i].version <= version
        BY <4>1 DEF DeltasOk
      <4>3. deltas[i] \in DeltaType
        BY <2>1, <4>1
      <4>4. deltas[i].version \in Nat
        BY <4>3 DEF DeltaType
      <4> QED  BY <2>1, <4>1, <4>2, <4>4
    <3>2. CASE i > Len(deltas)
      <4>1. i - Len(deltas) \in 1 .. Len(ds) /\ deltas'[i] = ds[i - Len(deltas)]
        BY <2>1, <2>2, <2>3, <3>2
      <4>2. /\ ds[i - Len(deltas)].version = version + 1
            /\ ds[i - Len(deltas)].clear => c = NoCourse
        BY <4>1
      <4> QED  BY <2>1, <4>1, <4>2
    <3> QED  BY <2>1, <3>1, <3>2
  <2>6. deltas'[Len(deltas')].version = version'
    BY <2>1, <2>2, <2>4
  <2> QED  BY <2>1, <2>4, <2>5, <2>6 DEF DeltasOk
<1>5. CacheOk'
  BY DEF CacheOk, TypeOK, NewestIsDone
<1> QED  BY <1>1, <1>2, <1>3, <1>4, <1>5

LEMMA SetCourseKeepsInv ==
    ASSUME Inv, NEW c \in Courses \cup {NoCourse}, SetCourse(c)
    PROVE  Inv'
<1> DEFINE d1 == Delta("activeRoute", c = NoCourse)
           d2 == Delta("nextPoint", FALSE)
           ds == <<d1, d2>>
<1>1. d1 \in DeltaType /\ d2 \in DeltaType
  <2>1. (c = NoCourse) \in BOOLEAN /\ version + 1 \in Nat
    BY DEF Inv, TypeOK
  <2> QED  BY <2>1, Zenon DEF Delta, DeltaType
<1>2. \A i \in 1 .. Len(ds) :
         ds[i].version = version + 1 /\ (ds[i].clear => c = NoCourse)
  <2>1. d1.version = version + 1 /\ (d1.clear => c = NoCourse)
    BY Zenon DEF Delta
  <2>2. d2.version = version + 1 /\ ~d2.clear
    BY DEF Delta
  <2> HIDE DEF d1, d2
  <2> QED  BY <2>1, <2>2
<1>3. ServerStep(c, ds)
  BY DEF SetCourse, ServerStep
<1>4. ds \in Seq(DeltaType) /\ ds # <<>>
  <2> HIDE DEF d1, d2
  <2> QED  BY <1>1
<1> QED  BY <1>2, <1>3, <1>4, ServerKeepsInv

LEMMA AdvancePointKeepsInv ==
    ASSUME Inv, NEW c \in Courses, AdvancePoint(c)
    PROVE  Inv'
<1> DEFINE ds == <<Delta("nextPoint", FALSE)>>
<1>1. ds \in Seq(DeltaType) /\ Len(ds) = 1 /\ ds # <<>>
  BY DEF Inv, TypeOK, Delta, DeltaType
<1>2. \A i \in 1 .. Len(ds) :
         ds[i].version = version + 1 /\ (ds[i].clear => c = NoCourse)
  BY <1>1 DEF Delta
<1>3. ServerStep(c, ds)
  BY DEF AdvancePoint, ServerStep
<1> QED  BY <1>1, <1>2, <1>3, ServerKeepsInv

\* Taking the first delta off leaves the facts about the last one.
LEMMA TakingADelta ==
    ASSUME Inv, ~stopped, deltas # <<>>, deltas' = Tail(deltas),
           handled' = Head(deltas).version, UNCHANGED <<course, version, stopped>>
    PROVE  /\ deltas' \in Seq(DeltaType)
           /\ Head(deltas) \in DeltaType
           /\ DeltasOk'
           /\ Head(deltas).version <= version
           /\ Head(deltas).clear /\ Head(deltas).version = version
                => course = NoCourse
<1>1. deltas \in Seq(DeltaType) /\ version \in Nat /\ Len(deltas) > 0
  BY DEF Inv, TypeOK
<1>2. Head(deltas) = deltas[1] /\ Head(deltas) \in DeltaType
  BY <1>1
<1>3. /\ deltas' \in Seq(DeltaType)
      /\ Len(deltas') = Len(deltas) - 1
      /\ \A i \in 1 .. Len(deltas') : deltas'[i] = deltas[i + 1]
  BY <1>1
<1>4. Head(deltas).version <= version
      /\ (Head(deltas).clear /\ Head(deltas).version = version => course = NoCourse)
  BY <1>1, <1>2 DEF Inv, DeltasOk
<1>5. \A i \in 1 .. Len(deltas') :
         /\ deltas'[i].version <= version'
         /\ deltas'[i].clear /\ deltas'[i].version = version' => course' = NoCourse
  BY <1>1, <1>3 DEF Inv, DeltasOk
<1>6. deltas' = <<>> => handled' = version'
  <2> SUFFICES ASSUME deltas' = <<>> PROVE handled' = version'
    OBVIOUS
  <2>1. Len(deltas) = 1
    BY <1>1, <1>3
  <2> QED  BY <1>1, <1>2, <2>1 DEF Inv, DeltasOk
<1>7. deltas' # <<>> => deltas'[Len(deltas')].version = version'
  <2> SUFFICES ASSUME deltas' # <<>>
               PROVE  deltas'[Len(deltas')].version = version'
    OBVIOUS
  <2>1. Len(deltas') \in 1 .. Len(deltas') /\ Len(deltas') + 1 = Len(deltas)
    BY <1>1, <1>3
  <2>2. deltas'[Len(deltas')] = deltas[Len(deltas)]
    BY <1>3, <2>1
  <2> QED  BY <2>2 DEF Inv, DeltasOk
<1> QED  BY <1>1, <1>2, <1>3, <1>4, <1>5, <1>6, <1>7 DEF DeltasOk

\* A delta that starts a refresh: the refreshes before it are now outdated.
LEMMA RefreshingDeltaKeepsInv ==
    ASSUME Inv, ~stopped, deltas # <<>>, deltas' = Tail(deltas),
           handled' = Head(deltas).version, StartRefresh,
           UNCHANGED <<course, version, stopped, currentRoute, cached>>
    PROVE  Inv'
<1>1. deltas' \in Seq(DeltaType) /\ Head(deltas) \in DeltaType /\ DeltasOk'
  BY TakingADelta
<1>2. /\ refreshes \subseteq RefreshType
      /\ refreshGeneration \in Nat
      /\ refreshGeneration' = refreshGeneration + 1
      /\ refreshes' = refreshes \cup {Refresh(refreshGeneration')}
      /\ Refresh(refreshGeneration') \in RefreshType
  BY DEF Inv, TypeOK, StartRefresh, Refresh, RefreshType
<1>3. TypeOK'
  BY <1>1, <1>2 DEF Inv, TypeOK, DeltaType
<1>4. StoppedHoldsNoRoute'
  BY DEF Inv, StoppedHoldsNoRoute
<1>5. RefreshesOk'
  BY <1>2 DEF Inv, RefreshesOk, Refresh, RefreshType
<1>6. CacheOk'
  BY <1>2 DEF Inv, CacheOk, NewestIsDone, Refresh
<1> QED  BY <1>1, <1>3, <1>4, <1>5, <1>6 DEF Inv

LEMMA OnNextPointDeltaKeepsInv ==
    ASSUME Inv, OnNextPointDelta
    PROVE  Inv'
BY RefreshingDeltaKeepsInv DEF OnNextPointDelta

\* A delta that clears the route outdates every refresh and needs none.
LEMMA ClearingDeltaKeepsInv ==
    ASSUME Inv, ~stopped, deltas # <<>>, deltas' = Tail(deltas),
           handled' = Head(deltas).version, Head(deltas).clear, ClearRoute,
           UNCHANGED <<course, version, stopped>>
    PROVE  Inv'
<1>1. /\ deltas' \in Seq(DeltaType) /\ Head(deltas) \in DeltaType /\ DeltasOk'
      /\ Head(deltas).version <= version
      /\ Head(deltas).version = version => course = NoCourse
  BY TakingADelta
<1>2. TypeOK'
  BY <1>1 DEF Inv, TypeOK, DeltaType, ClearRoute, RouteOrNone
<1>3. StoppedHoldsNoRoute'
  BY DEF StoppedHoldsNoRoute, ClearRoute
<1>4. RefreshesOk'
  BY DEF Inv, TypeOK, RefreshesOk, RefreshType, ClearRoute
<1>5. CacheOk'
  BY <1>1 DEF Inv, TypeOK, CacheOk, ClearRoute, Resolve, DeltaType
<1> QED  BY <1>1, <1>2, <1>3, <1>4, <1>5 DEF Inv

LEMMA OnActiveRouteDeltaKeepsInv ==
    ASSUME Inv, OnActiveRouteDelta
    PROVE  Inv'
BY RefreshingDeltaKeepsInv, ClearingDeltaKeepsInv DEF OnActiveRouteDelta

\* getCourse() reads the course that the server has now.
LEMMA CourseIsReadKeepsInv ==
    ASSUME Inv, NEW r \in refreshes, CourseIsRead(r)
    PROVE  Inv'
<1> DEFINE read == [r EXCEPT !.phase = "gotCourse", !.course = course,
                             !.version = version]
<1>1. /\ r \in RefreshType /\ read \in RefreshType
      /\ read.generation = r.generation /\ read.course = course
      /\ read.version = version
      /\ refreshes' = (refreshes \ {r}) \cup {read}
  BY DEF Inv, TypeOK, RefreshType, CourseIsRead
<1> HIDE DEF read
<1>2. TypeOK'
  BY <1>1 DEF Inv, TypeOK, CourseIsRead
<1>3. StoppedHoldsNoRoute' /\ DeltasOk'
  BY DEF Inv, StoppedHoldsNoRoute, DeltasOk, CourseIsRead
<1>4. RefreshesOk'
  BY <1>1 DEF Inv, TypeOK, RefreshesOk, DeltasOk, CourseIsRead
<1>5. CacheOk'
  <2>1. NewestIsDone' => NewestIsDone
    BY <1>1 DEF NewestIsDone, CourseIsRead
  <2> QED  BY <2>1 DEF Inv, CacheOk, CourseIsRead
<1> QED  BY <1>2, <1>3, <1>4, <1>5 DEF Inv

\* A refresh that goes on to fetch the route resource.
LEMMA FetchingKeepsInv ==
    ASSUME Inv, NEW r \in refreshes, r.phase = "gotCourse",
           refreshes' = (refreshes \ {r}) \cup {[r EXCEPT !.phase = "getResource"]},
           UNCHANGED <<course, version, deltas, stopped, currentRoute,
                       refreshGeneration, handled, cached>>
    PROVE  Inv'
<1> DEFINE fetching == [r EXCEPT !.phase = "getResource"]
<1>1. /\ fetching \in RefreshType
      /\ fetching.generation = r.generation /\ fetching.course = r.course
      /\ fetching.version = r.version
      /\ refreshes' = (refreshes \ {r}) \cup {fetching}
  BY DEF Inv, TypeOK, RefreshType
<1> HIDE DEF fetching
<1>2. TypeOK'
  BY <1>1 DEF Inv, TypeOK
<1>3. StoppedHoldsNoRoute' /\ DeltasOk'
  BY DEF Inv, StoppedHoldsNoRoute, DeltasOk
<1>4. RefreshesOk'
  BY <1>1 DEF Inv, TypeOK, RefreshesOk
<1>5. CacheOk'
  <2>1. NewestIsDone' => NewestIsDone
    BY <1>1 DEF NewestIsDone
  <2> QED  BY <2>1 DEF Inv, CacheOk
<1> QED  BY <1>2, <1>3, <1>4, <1>5 DEF Inv

\* The end of a refresh, whether it commits or not.  What it commits is as new
\* as the latest delta, and the route of the present course if it is up to date.
LEMMA ApplyRefreshKeepsInv ==
    ASSUME Inv, NEW r \in refreshes, NEW asOf \in Nat, NEW route \in RouteOrNone,
           NEW ok \in BOOLEAN, ApplyRefresh(r, asOf, route, ok),
           asOf <= version,
           asOf = version /\ ok => route = Resolve(course),
           Commits(r) => asOf >= handled
    PROVE  Inv' /\ (cached' # cached => cached'.version >= handled')
<1> USE DEF ApplyRefresh, Commits
<1>1. TypeOK'
  BY DEF Inv, TypeOK
<1>2. StoppedHoldsNoRoute' /\ DeltasOk'
  BY DEF Inv, StoppedHoldsNoRoute, DeltasOk
<1>3. RefreshesOk'
  BY DEF Inv, RefreshesOk
<1>4. CacheOk'
  BY DEF Inv, TypeOK, CacheOk, NewestIsDone
<1>5. cached' # cached => cached'.version >= handled'
  OBVIOUS
<1> QED  BY <1>1, <1>2, <1>3, <1>4, <1>5 DEF Inv

\* Resolving what getCourse() answered gives a route or none.
LEMMA ResolveType ==
    ASSUME NEW active \in Courses \cup {NoCourse}
    PROVE  Resolve(active) \in RouteOrNone
BY DEF Resolve, RouteOrNone

LEMMA AnswerKeepsInv ==
    ASSUME Inv, NEW r \in refreshes, Answer(r)
    PROVE  Inv' /\ (cached' # cached => cached'.version >= handled')
<1>1. /\ r \in RefreshType /\ version \in Nat /\ handled \in Nat
      /\ refreshGeneration \in Nat
  BY DEF Inv, TypeOK
<1>2. r.phase # "getCourse" =>
        /\ r.version <= version
        /\ r.version = version => Resolve(r.course) = Resolve(course)
        /\ Commits(r) => r.version >= handled
  BY <1>1 DEF Inv, RefreshesOk, Commits
<1>3. r.version \in Nat /\ Resolve(r.course) \in RouteOrNone
  BY <1>1, ResolveType DEF RefreshType
<1>4. Commits(r) => version >= handled
  BY <1>1 DEF Inv, DeltasOk, Commits
<1>5. NoRoute \in RouteOrNone
  BY DEF RouteOrNone
<1>6. CASE CourseIsRead(r)
  BY <1>6, CourseIsReadKeepsInv DEF CourseIsRead
<1>7. CASE GetCourseFails(r)
  <2>1. ApplyRefresh(r, version, NoRoute, FALSE)
    BY <1>7 DEF GetCourseFails
  <2>2. version <= version /\ FALSE \in BOOLEAN
    BY <1>1
  <2> QED  BY <1>1, <1>4, <1>5, <2>1, <2>2, ApplyRefreshKeepsInv
<1>8. CASE CourseArrives(r)
  <2>1. CASE r.course = NoCourse \/ r.course.href \notin RouteIds
    <3>1. Resolve(r.course) = NoRoute
      BY <2>1 DEF Resolve
    <3> QED  BY <1>2, <1>3, <1>5, <1>8, <2>1, <3>1, ApplyRefreshKeepsInv
             DEF CourseArrives
  <2>2. CASE ~(r.course = NoCourse \/ r.course.href \notin RouteIds)
    BY <1>8, <2>2, FetchingKeepsInv DEF CourseArrives
  <2> QED  BY <2>1, <2>2
<1>9. CASE ResourceArrives(r)
  BY <1>2, <1>3, <1>9, ApplyRefreshKeepsInv DEF ResourceArrives
<1>10. CASE GetResourceFails(r)
  BY <1>2, <1>3, <1>5, <1>10, ApplyRefreshKeepsInv DEF GetResourceFails
<1> QED  BY <1>6, <1>7, <1>8, <1>9, <1>10 DEF Answer

LEMMA StopKeepsInv ==
    ASSUME Inv, Stop
    PROVE  Inv'
BY DEF Inv, TypeOK, StoppedHoldsNoRoute, RefreshesOk, DeltasOk, CacheOk,
       RouteOrNone, Stop

LEMMA InitInv == Init => Inv
<1> SUFFICES ASSUME Init PROVE Inv
  OBVIOUS
<1>1. Refresh(1) \in RefreshType
  BY DEF Refresh, RefreshType
<1>2. TypeOK
  <2>1. course \in Courses \cup {NoCourse} /\ currentRoute \in RouteOrNone
    BY DEF Init, RouteOrNone
  <2>2. deltas \in Seq(DeltaType) /\ refreshes \subseteq RefreshType
    BY <1>1 DEF Init
  <2>3. cached \in [version : Int, ok : BOOLEAN]
    BY DEF Init
  <2> QED  BY <2>1, <2>2, <2>3 DEF Init, TypeOK
<1>3. StoppedHoldsNoRoute /\ RefreshesOk /\ DeltasOk
  BY DEF Init, StoppedHoldsNoRoute, RefreshesOk, DeltasOk, Refresh
<1>4. CacheOk
  BY DEF Init, CacheOk, NewestIsDone, Refresh
<1> QED  BY <1>2, <1>3, <1>4 DEF Inv

LEMMA NextInv == Inv /\ [Next]_vars => Inv'
<1> SUFFICES ASSUME Inv, [Next]_vars PROVE Inv'
  OBVIOUS
<1>1. CASE \E c \in Courses \cup {NoCourse} : SetCourse(c)
  BY <1>1, SetCourseKeepsInv
<1>2. CASE \E c \in Courses : AdvancePoint(c)
  BY <1>2, AdvancePointKeepsInv
<1>3. CASE OnActiveRouteDelta
  BY <1>3, OnActiveRouteDeltaKeepsInv
<1>4. CASE OnNextPointDelta
  BY <1>4, OnNextPointDeltaKeepsInv
<1>5. CASE \E r \in refreshes : Answer(r)
  BY <1>5, AnswerKeepsInv
<1>6. CASE Stop
  BY <1>6, StopKeepsInv
<1>7. CASE UNCHANGED vars
  BY <1>7 DEF vars, Inv, TypeOK, StoppedHoldsNoRoute, RefreshesOk, DeltasOk,
              CacheOk, NewestIsDone
<1> QED  BY <1>1, <1>2, <1>3, <1>4, <1>5, <1>6, <1>7 DEF Next

\* Every reachable state of the reader and the server satisfies the invariant.
THEOREM InvHolds == Spec => []Inv
BY InitInv, NextInv, PTL DEF Spec
-----------------------------------------------------------------------------
(* What follows from it. *)

\* The reader's variables have their types, with any number of refreshes in
\* flight (course-reader.ts:203-210).
THEOREM TypeCorrect == Spec => []TypeOK
<1>1. Inv => TypeOK
  BY DEF Inv
<1> QED  BY <1>1, InvHolds, PTL

\* stop() is final: whatever refresh completes afterwards, getRouteAhead() has
\* no route to give (course-reader.ts:297-302, 424-434).
THEOREM StoppedReaderIsEmpty == Spec => []StoppedHoldsNoRoute
<1>1. Inv => StoppedHoldsNoRoute
  BY DEF Inv
<1> QED  BY <1>1, InvHolds, PTL

\* A reader with nothing left to handle shows the route of the server's present
\* course, in whatever order the answers of its refreshes came in
\* (course-reader.ts:208-210, 297-345).
THEOREM SettledReaderIsFresh == Spec => []SettledIsFresh
<1>1. Inv => SettledIsFresh
  BY DEF Inv, TypeOK, DeltasOk, CacheOk, NewestIsDone, SettledIsFresh, Settled
<1> QED  BY <1>1, InvHolds, PTL

\* No late answer replaces the cached route by one older than a delta that has
\* been handled, a clear included (course-reader.ts:297-302, 391-394).
THEOREM CommitsStayCurrent == Spec => CommitsAreCurrent
<1>1. Inv /\ [Next]_vars => (cached' # cached => cached'.version >= handled')
  <2> SUFFICES ASSUME Inv, [Next]_vars, cached' # cached
               PROVE  cached'.version >= handled'
    OBVIOUS
  <2>1. CASE \E c \in Courses \cup {NoCourse} : SetCourse(c)
    BY <2>1 DEF SetCourse, readerVars
  <2>2. CASE \E c \in Courses : AdvancePoint(c)
    BY <2>2 DEF AdvancePoint, readerVars
  <2>3. CASE OnActiveRouteDelta
    BY <2>3, TakingADelta DEF OnActiveRouteDelta, ClearRoute, DeltaType
  <2>4. CASE OnNextPointDelta
    BY <2>4 DEF OnNextPointDelta
  <2>5. CASE \E r \in refreshes : Answer(r)
    BY <2>5, AnswerKeepsInv
  <2>6. CASE Stop
    BY <2>6 DEF Stop
  <2>7. CASE UNCHANGED vars
    BY <2>7 DEF vars
  <2> QED  BY <2>1, <2>2, <2>3, <2>4, <2>5, <2>6, <2>7 DEF Next
<1>2. Inv /\ [Next]_vars => [cached' # cached => cached'.version >= handled']_vars
  BY <1>1
<1> QED  BY <1>2, InvHolds, PTL DEF Spec, CommitsAreCurrent

\* On routes of usable coordinates of any length, a settled polyline starts at the
\* point the server says the vessel is heading for, in either travel direction
\* (course-reader.ts:261-275).
THEOREM PolylineStartsAtDestination ==
    ASSUME NEW Waypoints,
           \A id \in RouteIds : /\ Coordinates[id] \in Seq(Waypoints)
                                /\ ExtractCoordinates(Coordinates[id]) = Coordinates[id]
    PROVE  Spec => []DestinationAhead
<1>1. SettledIsFresh => DestinationAhead
  <2> DEFINE cs == Coordinates[course.href]
             point == course.pointIndex
             order == IF course.reverse THEN Reverse(cs) ELSE cs
  <2> SUFFICES ASSUME SettledIsFresh, Settled, cached.ok, currentRoute # NoRoute,
                      PointIndexInRange(course, cs)
               PROVE  Head(currentRoute.waypoints) = ServerRoutePoint(course, cs)
    BY DEF DestinationAhead
  <2>1. currentRoute = Resolve(course)
    BY DEF SettledIsFresh
  <2>2. course # NoCourse /\ course.href \in RouteIds
    BY <2>1 DEF Resolve
  <2>3. cs \in Seq(Waypoints) /\ ExtractCoordinates(cs) = cs
    BY <2>2
  <2>4. point \in 0 .. Len(cs) - 1 /\ Len(cs) \in Nat /\ cs # <<>>
    BY <2>3 DEF PointIndexInRange
  <2>5. ClampIndex(point, Len(cs)) = point
    BY <2>4 DEF ClampIndex
  <2>6. currentRoute.waypoints = SubSeq(order, point + 1, Len(cs))
    BY <2>1, <2>2, <2>3, <2>4, <2>5 DEF Resolve, BuildRoutePolyline
  <2>7. order \in Seq(Waypoints) /\ Len(order) = Len(cs)
        /\ order[point + 1] = ServerRoutePoint(course, cs)
    <3>1. CASE course.reverse
      <4>1. order = [i \in 1 .. Len(cs) |-> cs[(Len(cs) - i) + 1]]
        BY <3>1 DEF Reverse
      <4>2. order \in Seq(Waypoints) /\ Len(order) = Len(cs)
        <5>1. \A i \in 1 .. Len(cs) : cs[(Len(cs) - i) + 1] \in Waypoints
          <6> TAKE i \in 1 .. Len(cs)
          <6>1. (Len(cs) - i) + 1 \in 1 .. Len(cs)
            BY <2>4
          <6> QED  BY <2>3, <6>1
        <5>2. order \in [1 .. Len(cs) -> Waypoints]
          BY <4>1, <5>1, Zenon
        <5> HIDE DEF cs, order
        <5> QED  BY <2>4, <5>2
      <4>3. order[point + 1] = cs[Len(cs) - point]
        BY <2>4, <4>1
      <4> QED  BY <3>1, <4>2, <4>3 DEF ServerRoutePoint
    <3>2. CASE ~course.reverse
      BY <2>3, <3>2 DEF ServerRoutePoint
    <3> QED  BY <3>1, <3>2
  <2> HIDE DEF cs, point, order
  <2>8. Head(SubSeq(order, point + 1, Len(cs))) = order[point + 1]
    BY <2>4, <2>7
  <2> QED  BY <2>6, <2>7, <2>8 DEF cs
<1> QED  BY <1>1, SettledReaderIsFresh, PTL
-----------------------------------------------------------------------------
(* The grid of the merge. *)

\* A non-empty finite set of integers has a greatest element.
LEMMA FiniteHasMax ==
    ASSUME NEW S \in SUBSET Int, IsFiniteSet(S), S # {}
    PROVE  Max(S) \in S /\ \A x \in S : x <= Max(S)
<1>1. PICK n \in Nat : ExistsSurjection(1 .. n, S)
  BY FS_NatSurjection
<1>2. PICK f \in [1 .. n -> S] : \A x \in S : \E i \in 1 .. n : f[i] = x
  BY <1>1 DEF ExistsSurjection, Surjection
<1> DEFINE T == {k \in 0 .. n : k = 0 \/ \E i \in 1 .. k : \A j \in 1 .. k : f[j] <= f[i]}
<1>3. ASSUME NEW k \in 1 .. n, k - 1 \in T PROVE k \in T
  <2>1. CASE k = 1
    <3>1. f[1] \in Int
      BY <1>2, <2>1
    <3>2. \A j \in 1 .. k : f[j] <= f[1]
      BY <2>1, <3>1
    <3> QED  BY <2>1, <3>2
  <2>2. CASE k # 1
    <3>1. PICK i \in 1 .. (k - 1) : \A j \in 1 .. (k - 1) : f[j] <= f[i]
      BY <1>3, <2>2
    <3>2. i \in 1 .. n /\ f[i] \in Int /\ f[k] \in Int
      <4>1. i \in 1 .. n
        OBVIOUS
      <4>2. f[i] \in S /\ f[k] \in S
        BY <1>2, <4>1
      <4> QED  BY <4>1, <4>2
    <3>3. CASE f[k] <= f[i]
      <4>1. \A j \in 1 .. k : f[j] <= f[i]
        BY <3>1, <3>3
      <4> QED  BY <4>1, <3>1
    <3>4. CASE f[i] <= f[k]
      <4>1. ASSUME NEW j \in 1 .. k PROVE f[j] <= f[k]
        <5>1. CASE j = k
          BY <3>2, <5>1
        <5>2. CASE j # k
          <6>1. j \in 1 .. (k - 1) /\ j \in 1 .. n
            BY <5>2
          <6>2. f[j] \in Int /\ f[j] <= f[i]
            BY <1>2, <3>1, <6>1
          <6> QED  BY <3>2, <3>4, <6>2
        <5> QED  BY <5>1, <5>2
      <4> QED  BY <4>1
    <3> QED  BY <3>2, <3>3, <3>4
  <2> QED  BY <2>1, <2>2
<1>4. 0 \in T
  OBVIOUS
<1> HIDE DEF T
<1>5. 0 .. n \subseteq T
  BY <1>3, <1>4, IntervalInduction
<1>6. n \in T
  BY <1>5
<1>7. n # 0
  <2>1. PICK x : x \in S
    OBVIOUS
  <2>2. PICK i \in 1 .. n : f[i] = x
    BY <1>2, <2>1
  <2> QED  BY <2>2
<1>8. PICK i \in 1 .. n : \A j \in 1 .. n : f[j] <= f[i]
  BY <1>6, <1>7 DEF T
<1>9. f[i] \in S /\ \A x \in S : x <= f[i]
  BY <1>2, <1>8
<1>10. \E m \in S : \A x \in S : m >= x
  BY <1>9
<1>11. Max(S) \in S /\ \A x \in S : Max(S) >= x
  BY <1>10 DEF Max
<1> QED  BY <1>11

\* The cells are at least as wide as any radius in use.
LEMMA CellsCoverRadii ==
    ASSUME NEW s
    PROVE  /\ GridRadius \in Int /\ RadiusFor(s) \in Int
           /\ 1 <= RadiusFor(s) /\ RadiusFor(s) <= GridRadius
<1> DEFINE radii == {DefaultRadius} \cup {RadiusOf[x] : x \in DOMAIN RadiusOf}
<1>1. IsFiniteSet({RadiusOf[x] : x \in DOMAIN RadiusOf})
  <2> DEFINE named == [x \in DOMAIN RadiusOf |-> RadiusOf[x]]
  <2>1. named \in Surjection(DOMAIN RadiusOf, {RadiusOf[x] : x \in DOMAIN RadiusOf})
    BY DEF Surjection
  <2> QED  BY <2>1, RadiiAreTyped, FS_Surjection
<1>2. IsFiniteSet(radii)
  BY <1>1, FS_Singleton, FS_Union
<1>3. radii \in SUBSET Int /\ radii # {} /\ DefaultRadius \in Nat \ {0}
  BY RadiiAreTyped, DefaultIsSafe
<1>4. Max(radii) \in radii /\ \A x \in radii : x <= Max(radii)
  <2> HIDE DEF radii
  <2> QED  BY <1>2, <1>3, FiniteHasMax
<1>5. GridRadius = Max(radii)
  BY DEF GridRadius
<1>6. DefaultRadius \in radii /\ \A x \in DOMAIN RadiusOf : RadiusOf[x] \in radii
  OBVIOUS
<1> HIDE DEF radii
<1>7. GridRadius \in Int /\ DefaultRadius <= GridRadius
  BY <1>3, <1>4, <1>5, <1>6
<1>8. \A x \in DOMAIN RadiusOf : RadiusOf[x] \in Int /\ RadiusOf[x] <= GridRadius
  BY <1>3, <1>4, <1>5, <1>6
<1> QED  BY <1>3, <1>7, <1>8 DEF RadiusFor

\* Of two points no further apart than a cell is wide, the cells touch.
LEMMA CellsTouch ==
    ASSUME NEW g \in Nat \ {0}, NEW a \in Int, NEW b \in Int, a - b <= g, b - a <= g
    PROVE  (a \div g) - (b \div g) \in -1 .. 1
<1>1. /\ a \div g \in Int /\ a = g * (a \div g) + (a % g) /\ a % g \in 0 .. (g - 1)
      /\ b \div g \in Int /\ b = g * (b \div g) + (b % g) /\ b % g \in 0 .. (g - 1)
  OBVIOUS
<1> DEFINE p == a \div g
           q == b \div g
<1> HIDE DEF p, q
<1>2. g * (p - q) <= 2 * g - 1 /\ g * (q - p) <= 2 * g - 1
  BY <1>1 DEF p, q
<1>3. p \in Int /\ q \in Int
  BY <1>1 DEF p, q
<1>4. p - q < 2 /\ q - p < 2
  BY <1>2, <1>3
<1> QED  BY <1>3, <1>4 DEF p, q

\* A factor scales a difference.
LEMMA ScaledOrder ==
    ASSUME NEW x \in Int, NEW y \in Int, NEW n \in Nat, NEW k \in Nat, x - y <= n, y - x <= n
    PROVE  x * k - y * k <= n * k /\ y * k - x * k <= n * k /\ n * k \in Nat
<1> DEFINE over == n - (x - y)
           under == n - (y - x)
<1>1. over \in Nat /\ under \in Nat
  OBVIOUS
<1>2. n * k - (x * k - y * k) = over * k /\ n * k - (y * k - x * k) = under * k
  OBVIOUS
<1>3. over * k \in Nat /\ under * k \in Nat /\ n * k \in Nat
  BY <1>1
<1>4. x * k \in Int /\ y * k \in Int
  OBVIOUS
<1> HIDE DEF over, under
<1> QED  BY <1>2, <1>3, <1>4

\* Products, squares and factors keep the order of naturals.
LEMMA OrderOfProducts ==
    ASSUME NEW x \in Nat, NEW y \in Nat
    PROVE  /\ x * y \in Nat
           /\ \A k \in Nat : x <= y => k * x <= k * y
           /\ \A k \in Nat \ {0} : k * x <= k * y => x <= y
           /\ x * x <= y * y => x <= y
<1>1. x * y \in Nat
  OBVIOUS
<1>2. ASSUME NEW k \in Nat, x <= y PROVE k * x <= k * y
  BY <1>2
<1>3. ASSUME NEW k \in Nat \ {0}, k * x <= k * y, y < x PROVE FALSE
  <2>1. k * (y + 1) <= k * x
    BY <1>3
  <2>2. k * (y + 1) = k * y + k
    OBVIOUS
  <2>3. k * y \in Nat /\ k * x \in Nat
    OBVIOUS
  <2> QED  BY <1>3, <2>1, <2>2, <2>3
<1>4. ASSUME x * x <= y * y, y < x PROVE FALSE
  <2>1. x = y + (x - y) /\ x - y \in Nat \ {0}
    BY <1>4
  <2> QED  BY <1>4, <2>1
<1> QED  BY <1>1, <1>2, <1>3, <1>4

\* Degrees to cells, north: within reach, points lie a cell's height apart at most.
LEMMA ReachNorth ==
    ASSUME NEW n \in Nat, NEW d \in Nat, NEW rest \in Nat, NEW cells \in Nat,
           NEW tm \in Nat \ {0}, NEW gm \in Nat, NEW unit \in Nat \ {0},
           unit * unit * (tm * n) * (tm * n) + rest <= (d * unit) * (d * unit),
           d * gm <= cells * tm
    PROVE  n * gm <= cells
<1> DEFINE p == tm * n
           u == unit * unit
<1>1. p \in Nat /\ u \in Nat \ {0}
  OBVIOUS
<1>2. u * (p * p) <= u * (d * d)
  <2>1. unit * unit * (tm * n) * (tm * n) = u * (p * p) /\ (d * unit) * (d * unit) = u * (d * d)
    OBVIOUS
  <2>2. u * (p * p) \in Nat /\ u * (d * d) \in Nat
    BY <1>1
  <2> HIDE DEF p, u
  <2> QED  BY <2>1, <2>2
<1> HIDE DEF p, u
<1>3. p * p \in Nat /\ d * d \in Nat
  BY <1>1
<1>4. p * p <= d * d
  BY <1>1, <1>2, <1>3, OrderOfProducts
<1>5. p <= d
  BY <1>1, <1>4, OrderOfProducts
<1>6. gm * p <= gm * d
  BY <1>1, <1>5, OrderOfProducts
<1>7. tm * (n * gm) <= tm * cells
  <2>1. gm * p = tm * (n * gm) /\ gm * d = d * gm /\ cells * tm = tm * cells
    BY DEF p
  <2>2. n * gm \in Nat /\ d * gm \in Nat
    OBVIOUS
  <2> QED  BY <1>6, <2>1, <2>2
<1>8. n * gm \in Nat
  OBVIOUS
<1> QED  BY <1>7, <1>8, OrderOfProducts

\* And east, a cell's width.
LEMMA ReachEast ==
    ASSUME NEW e \in Nat, NEW d \in Nat \ {0}, NEW rest \in Nat, NEW cells \in Nat \ {0},
           NEW tm \in Nat \ {0}, NEW gm \in Nat, NEW lon \in Nat, NEW unit \in Nat \ {0},
           NEW ca \in Nat, NEW cb \in Nat,
           rest + ca * cb * (tm * e) * (tm * e) <= (d * unit) * (d * unit),
           (d * gm * lon) * (d * gm * lon) <= ca * cb * (cells * tm) * (cells * tm)
    PROVE  e * gm * lon <= cells * unit
<1> DEFINE cc == ca * cb
           g == gm * lon
           p == e * g
           q == cells * unit
           k == cc * (tm * tm)
<1>1. /\ cc \in Nat /\ g \in Nat /\ p \in Nat /\ q \in Nat \ {0} /\ k \in Nat
      /\ e * gm * lon = p
  OBVIOUS
<1>2. cc * ((tm * e) * (tm * e)) <= (d * unit) * (d * unit)
  <2>1. ca * cb * (tm * e) * (tm * e) = cc * ((tm * e) * (tm * e))
    OBVIOUS
  <2>2. cc * ((tm * e) * (tm * e)) \in Nat /\ (d * unit) * (d * unit) \in Nat
    BY <1>1
  <2> HIDE DEF cc
  <2> QED  BY <2>1, <2>2
<1>3. (d * g) * (d * g) <= cc * ((cells * tm) * (cells * tm))
  <2>1. /\ d * gm * lon = d * g
        /\ ca * cb * (cells * tm) * (cells * tm) = cc * ((cells * tm) * (cells * tm))
    OBVIOUS
  <2> HIDE DEF cc, g
  <2> QED  BY <2>1
<1> HIDE DEF cc, g
<1>4. k * (p * p) <= (unit * unit) * ((d * g) * (d * g))
  <2> DEFINE x == cc * ((tm * e) * (tm * e))
             y == (d * unit) * (d * unit)
             gg == g * g
  <2>1. x \in Nat /\ y \in Nat /\ gg \in Nat /\ x <= y
    BY <1>1, <1>2
  <2>2. gg * x = k * (p * p) /\ gg * y = (unit * unit) * ((d * g) * (d * g))
    BY <1>1
  <2> HIDE DEF x, y, gg
  <2>3. gg * x <= gg * y
    BY <2>1, OrderOfProducts
  <2> QED  BY <2>2, <2>3
<1>5. (unit * unit) * ((d * g) * (d * g)) <= k * (q * q)
  <2> DEFINE x == (d * g) * (d * g)
             y == cc * ((cells * tm) * (cells * tm))
             uu == unit * unit
  <2>1. x \in Nat /\ y \in Nat /\ uu \in Nat /\ x <= y
    BY <1>1, <1>3
  <2>2. uu * y = k * (q * q)
    BY <1>1
  <2> HIDE DEF y, x
  <2>3. uu * x <= uu * y
    BY <2>1, OrderOfProducts
  <2> QED  BY <2>2, <2>3 DEF x
<1>6. CASE g = 0
  <2>1. p = 0
    BY <1>6
  <2> QED  BY <1>1, <2>1
<1>7. CASE g # 0
  <2>1. cc # 0
    <3>1. d * g \in Nat \ {0}
      BY <1>1, <1>7
    <3>2. (d * g) * (d * g) \in Nat \ {0}
      BY <3>1
    <3>3. cc = 0 => cc * ((cells * tm) * (cells * tm)) = 0
      OBVIOUS
    <3> QED  BY <1>3, <3>2, <3>3
  <2>2. k \in Nat \ {0}
    BY <1>1, <2>1
  <2> HIDE DEF k, p, q
  <2>3. p * p \in Nat /\ q * q \in Nat
    BY <1>1
  <2>4. k * (p * p) <= k * (q * q)
    <3>1. /\ k * (p * p) \in Int /\ k * (q * q) \in Int
          /\ (unit * unit) * ((d * g) * (d * g)) \in Int
      BY <1>1
    <3> QED  BY <1>4, <1>5, <3>1
  <2>5. p * p <= q * q
    BY <2>2, <2>3, <2>4, OrderOfProducts
  <2>6. p <= q
    BY <1>1, <2>5, OrderOfProducts
  <2> QED  BY <1>1, <2>6 DEF q
<1> QED  BY <1>6, <1>7

\* The cosine of a latitude, of a mean one too.
LEMMA CosineIsNat == /\ \A y : Cosine(y) \in Nat
                     /\ \A pois : LonScale(pois) \in Nat
<1>1. \A y : Cosine(y) \in Nat
  BY GlobeIsMeasured DEF Cosine
<1> QED  BY <1>1 DEF LonScale

\* What is in reach of the sweep, and a feature at that distance, is in a cell next by.
LEMMA SweepReaches ==
    ASSUME NEW lon \in Nat, NEW a \in Points, NEW b \in Points, NEW d \in Nat \ {0},
           Reaches(lon, a, b, d), SameFeature(a, b, d)
    PROVE  /\ Cell(lon, a).x - Cell(lon, b).x \in -1 .. 1
           /\ Cell(lon, a).y - Cell(lon, b).y \in -1 .. 1
<1>1. /\ TrueMeters \in Nat \ {0} /\ GridMeters \in Nat \ {0} /\ FullCircle \in Nat
      /\ CosUnit \in Nat \ {0} /\ GridRadius \in Nat \ {0}
  BY GlobeIsMeasured, CellsCoverRadii
<1> DEFINE ax == a.at.x
           ay == a.at.y
           bx == b.at.x
           by == b.at.y
           ca == Cosine(a.at.y)
           cb == Cosine(b.at.y)
           e == Between(ax, bx)
           n == Between(ay, by)
<1>2. ax \in Int /\ ay \in Int /\ bx \in Int /\ by \in Int /\ ca \in Nat /\ cb \in Nat
  BY CosineIsNat DEF Points
<1>3. Eastward(a, b) = e
  <2>1. 2 * e <= FullCircle
    BY DEF Reaches
  <2>2. e \in Nat
    BY <1>2 DEF Between
  <2> HIDE DEF e
  <2>3. Eastward(a, b) = IF 2 * e > FullCircle THEN FullCircle - e ELSE e
    BY DEF Eastward, e
  <2> QED  BY <1>1, <2>1, <2>2, <2>3
<1>4. /\ CosUnit * CosUnit * (TrueMeters * n) * (TrueMeters * n)
           + ca * cb * (TrueMeters * e) * (TrueMeters * e) <= (d * CosUnit) * (d * CosUnit)
      /\ d * GridMeters <= GridRadius * TrueMeters
      /\ (d * GridMeters * lon) * (d * GridMeters * lon)
           <= ca * cb * (GridRadius * TrueMeters) * (GridRadius * TrueMeters)
  BY <1>3 DEF Reaches, SameFeature, Apart, Eastward
<1>5. /\ Cell(lon, a).x = (ax * GridMeters * lon) \div (GridRadius * CosUnit)
      /\ Cell(lon, b).x = (bx * GridMeters * lon) \div (GridRadius * CosUnit)
      /\ Cell(lon, a).y = (ay * GridMeters) \div GridRadius
      /\ Cell(lon, b).y = (by * GridMeters) \div GridRadius
  BY DEF Cell
<1>6. /\ e \in Nat /\ ax - bx <= e /\ bx - ax <= e
      /\ n \in Nat /\ ay - by <= n /\ by - ay <= n
  BY <1>2 DEF Between
<1> HIDE DEF ax, ay, bx, by, ca, cb, e, n
<1> DEFINE tm == TrueMeters
           gm == GridMeters
           u == CosUnit
           r == GridRadius
<1>7. tm \in Nat \ {0} /\ gm \in Nat /\ u \in Nat \ {0} /\ r \in Nat \ {0}
  BY <1>1
<1>8. /\ u * u * (tm * n) * (tm * n) + ca * cb * (tm * e) * (tm * e) <= (d * u) * (d * u)
      /\ d * gm <= r * tm
      /\ (d * gm * lon) * (d * gm * lon) <= ca * cb * (r * tm) * (r * tm)
  BY <1>4
<1> HIDE DEF tm, gm, u, r
<1>9. n * gm <= r
  <2> DEFINE rest == ca * cb * (tm * e) * (tm * e)
  <2>1. rest \in Nat
    <3>1. ca * cb \in Nat /\ tm * e \in Nat
      BY <1>2, <1>6, <1>7
    <3> QED  BY <3>1
  <2>2. u * u * (tm * n) * (tm * n) + rest <= (d * u) * (d * u)
    BY <1>8
  <2> HIDE DEF rest
  <2> QED  BY <1>6, <1>7, <1>8, <2>1, <2>2, ReachNorth
<1>10. e * gm * lon <= r * u
  <2> DEFINE rest == u * u * (tm * n) * (tm * n)
  <2>1. rest \in Nat
    <3>1. u * u \in Nat /\ tm * n \in Nat
      BY <1>6, <1>7
    <3> QED  BY <3>1
  <2>2. rest + ca * cb * (tm * e) * (tm * e) <= (d * u) * (d * u)
    BY <1>8
  <2> HIDE DEF rest
  <2> QED  BY <1>2, <1>6, <1>7, <1>8, <2>1, <2>2, ReachEast
<1>11. ((ay * gm) \div r) - ((by * gm) \div r) \in -1 .. 1
  <2> DEFINE p == ay * gm
             q == by * gm
  <2>1. p \in Int /\ q \in Int /\ n * gm \in Nat
    BY <1>2, <1>6, <1>7
  <2>2. p - q <= n * gm /\ q - p <= n * gm
    BY <1>2, <1>6, <1>7, ScaledOrder
  <2> HIDE DEF p, q
  <2>3. p - q <= r /\ q - p <= r
    BY <1>7, <1>9, <2>1, <2>2
  <2>4. (p \div r) - (q \div r) \in -1 .. 1
    BY <1>7, <2>1, <2>3, CellsTouch
  <2> QED  BY <2>4 DEF p, q
<1>12. ((ax * gm * lon) \div (r * u)) - ((bx * gm * lon) \div (r * u)) \in -1 .. 1
  <2> DEFINE g == gm * lon
             p == ax * gm * lon
             q == bx * gm * lon
             cell == r * u
  <2>1. /\ g \in Nat /\ p \in Int /\ q \in Int /\ cell \in Nat \ {0}
        /\ p = ax * g /\ q = bx * g /\ e * gm * lon = e * g
    BY <1>2, <1>6, <1>7
  <2> HIDE DEF p, q, g
  <2>2. p - q <= e * g /\ q - p <= e * g /\ e * g \in Nat
    BY <1>2, <1>6, <2>1, ScaledOrder
  <2>3. e * g <= cell
    BY <1>10, <2>1
  <2> HIDE DEF cell
  <2>4. p - q <= cell /\ q - p <= cell
    BY <2>1, <2>2, <2>3
  <2>5. (p \div cell) - (q \div cell) \in -1 .. 1
    BY <2>1, <2>4, CellsTouch
  <2> QED  BY <2>5 DEF p, q, cell
<1> QED  BY <1>5, <1>11, <1>12 DEF tm, gm, u, r

\* Whether two points are twins is a matter of their places, their types and a source.
LEMMA TwinsOfTheSame ==
    ASSUME NEW lon, NEW a, NEW b, NEW c, NEW d,
           a.at = c.at, a.type = c.type, b.at = d.at, b.type = d.type, b.source = d.source
    PROVE  /\ SameFeature(a, b, RadiusFor(b.source)) <=> SameFeature(c, d, RadiusFor(d.source))
           /\ Twins(lon, a, b) <=> Twins(lon, c, d)
<1>1. Apart(a, b) = Apart(c, d)
  BY DEF Apart, Eastward
<1>2. \A radius : SameFeature(a, b, radius) <=> SameFeature(c, d, radius)
  BY <1>1 DEF SameFeature
<1>3. \A distance : Reaches(lon, a, b, distance) <=> Reaches(lon, c, d, distance)
  BY DEF Reaches
<1> QED  BY <1>2, <1>3 DEF Twins

\* A sweep accepts points of the feature only, and every twin.
LEMMA SweepAccepts ==
    ASSUME NEW lon \in Nat, NEW grid \in Seq(Points), NEW given \in SUBSET DOMAIN grid,
           NEW poi \in Points
    PROVE  /\ Neighbours(lon, grid, given, poi) \in SUBSET given
           /\ \A i \in Neighbours(lon, grid, given, poi) :
                SameFeature(grid[i], poi, RadiusFor(poi.source))
           /\ \A i \in given : Twins(lon, grid[i], poi) => i \in Neighbours(lon, grid, given, poi)
<1>1. ASSUME NEW i \in given, Twins(lon, grid[i], poi)
      PROVE  i \in Neighbours(lon, grid, given, poi)
  <2>1. grid[i] \in Points
    OBVIOUS
  <2>2. PICK d \in 1 .. RadiusFor(poi.source) :
          Reaches(lon, grid[i], poi, d) /\ SameFeature(grid[i], poi, d)
    BY <1>1 DEF Twins
  <2>3. RadiusFor(poi.source) \in Int
    BY CellsCoverRadii
  <2>4. d \in Nat \ {0}
    BY <2>2, <2>3
  <2>5. /\ Cell(lon, grid[i]).x - Cell(lon, poi).x \in -1 .. 1
        /\ Cell(lon, grid[i]).y - Cell(lon, poi).y \in -1 .. 1
    BY <2>1, <2>2, <2>4, SweepReaches
  <2>6. SameFeature(grid[i], poi, RadiusFor(poi.source))
    BY <1>1 DEF Twins
  <2> QED  BY <2>5, <2>6 DEF Neighbours
<1> QED  BY <1>1 DEF Neighbours

\* The order of a scan is a total one.
LEMMA ScansInOrder ==
    ASSUME NEW lon \in Nat, NEW grid \in Seq(Points),
           NEW i \in DOMAIN grid, NEW j \in DOMAIN grid, NEW k \in DOMAIN grid
    PROVE  /\ ScannedBefore(lon, grid, i, i)
           /\ ScannedBefore(lon, grid, i, j) \/ ScannedBefore(lon, grid, j, i)
           /\ ScannedBefore(lon, grid, i, j) /\ ScannedBefore(lon, grid, j, k) => ScannedBefore(lon, grid, i, k)
<1>1. \A m \in DOMAIN grid : Cell(lon, grid[m]) = [x |-> Cell(lon, grid[m]).x, y |-> Cell(lon, grid[m]).y]
  BY DEF Cell
<1>2. /\ GridRadius \in Nat \ {0} /\ GridRadius * CosUnit \in Nat \ {0}
      /\ GridMeters \in Nat
  <2>1. GridRadius \in Nat \ {0} /\ CosUnit \in Nat \ {0} /\ GridMeters \in Nat
    BY CellsCoverRadii, GlobeIsMeasured
  <2> QED  BY <2>1
<1>3. \A m \in DOMAIN grid : Cell(lon, grid[m]).x \in Int /\ Cell(lon, grid[m]).y \in Int
  <2> SUFFICES ASSUME NEW m \in DOMAIN grid PROVE Cell(lon, grid[m]).x \in Int /\ Cell(lon, grid[m]).y \in Int
    OBVIOUS
  <2>1. grid[m] \in Points
    OBVIOUS
  <2>2. grid[m].at.x \in Int /\ grid[m].at.y \in Int
    BY <2>1 DEF Points
  <2> DEFINE x == grid[m].at.x * GridMeters * lon
             y == grid[m].at.y * GridMeters
             wide == GridRadius * CosUnit
  <2>3. x \in Int /\ y \in Int /\ wide \in Nat \ {0}
    <3> DEFINE east == grid[m].at.x
               north == grid[m].at.y
    <3>1. east \in Int /\ north \in Int
      BY <2>2
    <3> HIDE DEF east, north
    <3>2. east * GridMeters \in Int /\ north * GridMeters \in Int
      BY <1>2, <3>1
    <3>3. east * GridMeters * lon \in Int
      BY <3>2
    <3> QED  BY <1>2, <3>2, <3>3 DEF east, north
  <2>4. Cell(lon, grid[m]) = [x |-> x \div wide, y |-> y \div GridRadius]
    BY DEF Cell
  <2> HIDE DEF x, y, wide
  <2> QED  BY <1>2, <2>3, <2>4
<1> DEFINE cx == [m \in DOMAIN grid |-> Cell(lon, grid[m]).x]
           cy == [m \in DOMAIN grid |-> Cell(lon, grid[m]).y]
           Before(l, m) == \/ cx[l] < cx[m]
                           \/ cx[l] = cx[m] /\ cy[l] < cy[m]
                           \/ cx[l] = cx[m] /\ cy[l] = cy[m] /\ l <= m
<1>4. ASSUME NEW l \in DOMAIN grid, NEW m \in DOMAIN grid
      PROVE  ScannedBefore(lon, grid, l, m) <=> Before(l, m)
  <2>1. /\ cx[l] = Cell(lon, grid[l]).x /\ cy[l] = Cell(lon, grid[l]).y
        /\ cx[m] = Cell(lon, grid[m]).x /\ cy[m] = Cell(lon, grid[m]).y
    OBVIOUS
  <2> HIDE DEF cx, cy
  <2>2. Cell(lon, grid[l]) = Cell(lon, grid[m]) <=> cx[l] = cx[m] /\ cy[l] = cy[m]
    BY <1>1, <2>1
  <2>3. ScannedBefore(lon, grid, l, m) <=>
          \/ Cell(lon, grid[l]).x < Cell(lon, grid[m]).x
          \/ Cell(lon, grid[l]).x = Cell(lon, grid[m]).x /\ Cell(lon, grid[l]).y < Cell(lon, grid[m]).y
          \/ Cell(lon, grid[l]) = Cell(lon, grid[m]) /\ l <= m
    BY DEF ScannedBefore
  <2> QED  BY <2>1, <2>2, <2>3
<1>5. /\ cx[i] \in Int /\ cy[i] \in Int /\ i \in Int
      /\ cx[j] \in Int /\ cy[j] \in Int /\ j \in Int
      /\ cx[k] \in Int /\ cy[k] \in Int /\ k \in Int
  BY <1>3
<1> HIDE DEF cx, cy
<1>6. Before(i, i)
  BY <1>5
<1>7. Before(i, j) \/ Before(j, i)
  BY <1>5
<1>8. Before(i, j) /\ Before(j, k) => Before(i, k)
  BY <1>5
<1> HIDE DEF Before
<1> QED  BY <1>4, <1>6, <1>7, <1>8

\* A scan ends with a point of the feature, or with none when there is no twin.
LEMMA ScanFinds ==
    ASSUME NEW lon \in Nat, NEW grid \in Seq(Points), NEW given \in SUBSET DOMAIN grid, NEW poi \in Points
    PROVE  LET i == ScanNeighborhood(lon, grid, given, poi)
           IN  \/ /\ i = 0
                  /\ \A j \in given : ~Twins(lon, grid[j], poi)
               \/ i # 0 /\ i \in given /\ SameFeature(grid[i], poi, RadiusFor(poi.source))
<1> DEFINE all == Neighbours(lon, grid, given, poi)
           n == Len(grid)
           T == {k \in 0 .. n : all \cap (1 .. k) = {} \/
                   \E i \in all \cap (1 .. k) : \A j \in all \cap (1 .. k) : ScannedBefore(lon, grid, i, j)}
<1>1. /\ all \in SUBSET given
      /\ \A i \in all : SameFeature(grid[i], poi, RadiusFor(poi.source))
      /\ \A i \in given : Twins(lon, grid[i], poi) => i \in all
  BY SweepAccepts
<1>2. n \in Nat /\ DOMAIN grid = 1 .. n /\ all \in SUBSET (1 .. n)
  BY <1>1
<1> HIDE DEF all, n
<1>3. ASSUME NEW k \in 1 .. n, k - 1 \in T PROVE k \in T
  <2>1. k \in 0 .. n /\ k \in DOMAIN grid
    BY <1>2
  <2>2. CASE k \notin all
    <3>1. all \cap (1 .. k) = all \cap (1 .. (k - 1))
      BY <1>2, <2>2
    <3>2. \/ all \cap (1 .. (k - 1)) = {}
          \/ \E i \in all \cap (1 .. (k - 1)) :
               \A j \in all \cap (1 .. (k - 1)) : ScannedBefore(lon, grid, i, j)
      BY <1>3
    <3> QED  BY <2>1, <3>1, <3>2
  <2>3. CASE k \in all /\ all \cap (1 .. (k - 1)) = {}
    <3>1. all \cap (1 .. k) = {k}
      BY <1>2, <2>3
    <3>2. ScannedBefore(lon, grid, k, k)
      BY <2>1, ScansInOrder
    <3> QED  BY <2>1, <3>1, <3>2
  <2>4. CASE k \in all /\ all \cap (1 .. (k - 1)) # {}
    <3>1. PICK i \in all \cap (1 .. (k - 1)) :
            \A j \in all \cap (1 .. (k - 1)) : ScannedBefore(lon, grid, i, j)
      BY <1>3, <2>4
    <3>2. all \cap (1 .. k) = (all \cap (1 .. (k - 1))) \cup {k}
      BY <1>2, <2>4
    <3>3. i \in DOMAIN grid
      BY <1>2
    <3>4. CASE ScannedBefore(lon, grid, i, k)
      <4>1. i \in all \cap (1 .. k)
        BY <3>2
      <4>2. \A j \in all \cap (1 .. k) : ScannedBefore(lon, grid, i, j)
        BY <3>1, <3>2, <3>4
      <4> QED  BY <2>1, <4>1, <4>2
    <3>5. CASE ScannedBefore(lon, grid, k, i)
      <4>1. ScannedBefore(lon, grid, k, k)
        BY <2>1, ScansInOrder
      <4>2. ASSUME NEW j \in all \cap (1 .. (k - 1)) PROVE ScannedBefore(lon, grid, k, j)
        <5>1. j \in DOMAIN grid /\ ScannedBefore(lon, grid, i, j)
          BY <1>2, <3>1
        <5> QED  BY <2>1, <3>3, <3>5, <5>1, ScansInOrder
      <4>3. k \in all \cap (1 .. k) /\ \A j \in all \cap (1 .. k) : ScannedBefore(lon, grid, k, j)
        BY <3>2, <4>1, <4>2
      <4> QED  BY <2>1, <4>3
    <3> QED  BY <2>1, <3>3, <3>4, <3>5, ScansInOrder
  <2> QED  BY <2>2, <2>3, <2>4
<1>4. 0 \in T
  BY <1>2
<1> HIDE DEF T
<1>5. 0 .. n \subseteq T
  BY <1>2, <1>3, <1>4, IntervalInduction
<1>6. n \in T
  BY <1>2, <1>5
<1>7. all \cap (1 .. n) = all
  BY <1>2
<1>8. all = {} \/ \E i \in all : \A j \in all : ScannedBefore(lon, grid, i, j)
  BY <1>6, <1>7 DEF T
<1>9. CASE all = {}
  <2>1. ScanNeighborhood(lon, grid, given, poi) = 0
    BY <1>9 DEF ScanNeighborhood, all
  <2> QED  BY <1>1, <1>9, <2>1
<1>10. CASE all # {}
  <2> DEFINE first == ScanNeighborhood(lon, grid, given, poi)
  <2>1. first \in all
    BY <1>8, <1>10 DEF ScanNeighborhood, all
  <2> HIDE DEF first
  <2>2. first # 0 /\ first \in given /\ SameFeature(grid[first], poi, RadiusFor(poi.source))
    BY <1>1, <1>2, <2>1
  <2> QED  BY <2>2 DEF first
<1> QED  BY <1>9, <1>10
-----------------------------------------------------------------------------
(* What is listed, and what a fold over it does. *)

\* The points that a list may hold: those of the sources, under their prefix,
\* whatever the merge makes of their clearance and their credits.
Noted ==
    {n \in Points :
        \E i \in DOMAIN held[n.source] :
            LET poi == held[n.source][i]
            IN  n.id = Prefixed(n.source, poi.id) /\ n.at = poi.at /\ n.type = poi.type}

\* Point r is point poi but for its credits.
Restates(r, poi) ==
    /\ r.id = poi.id /\ r.source = poi.source /\ r.type = poi.type /\ r.at = poi.at
    /\ r.clearance = poi.clearance

\* A survivor stands for a point: as itself, or by a merge.
Covers(survivor, poi) ==
    /\ AtLeast(survivor.clearance, poi.clearance)
    /\ \/ survivor.id = poi.id
       \/ /\ poi.source \in Merging
          /\ SameFeature(survivor, poi, RadiusFor(poi.source))
          /\ Contains(survivor.sources, poi.source)

\* What the merge makes of a survivor: a lower clearance, more credits.
Grows(old, new) ==
    /\ new.id = old.id /\ new.source = old.source /\ new.type = old.type /\ new.at = old.at
    /\ AtLeast(new.clearance, old.clearance)
    /\ \A s : Contains(old.sources, s) => Contains(new.sources, s)

\* The minimum is a clearance at least as low as both.
LEMMA LowestClearance ==
    ASSUME NEW a \in Int \cup {None}, NEW b \in Int \cup {None}
    PROVE  /\ MinClearance(a, b) \in Int \cup {None}
           /\ AtLeast(MinClearance(a, b), a) /\ AtLeast(MinClearance(a, b), b)
           /\ AtLeast(a, a)
BY NoneIsNothing DEF MinClearance, AtLeast

\* A clearance at least as low as one at least as low.
LEMMA AtLeastChains ==
    ASSUME NEW a \in Int \cup {None}, NEW b \in Int \cup {None}, NEW c \in Int \cup {None},
           AtLeast(a, b), AtLeast(b, c)
    PROVE  AtLeast(a, c)
BY NoneIsNothing DEF AtLeast

\* Growth chains, and starts from the point itself.
LEMMA GrowthChains ==
    ASSUME NEW a \in Points, NEW b \in Points, NEW c \in Points, Grows(a, b), Grows(b, c)
    PROVE  Grows(a, c)
<1>1. /\ a.clearance \in Int \cup {None} /\ b.clearance \in Int \cup {None}
      /\ c.clearance \in Int \cup {None}
  BY DEF Points
<1> QED  BY <1>1, AtLeastChains DEF Grows

\* A point grows from itself.
LEMMA GrowthStartsHere ==
    ASSUME NEW a \in Points
    PROVE  Grows(a, a)
<1>1. a.clearance \in Int \cup {None}
  BY DEF Points
<1> QED  BY <1>1, LowestClearance DEF Grows

\* What a survivor covers it still covers when it has grown.
LEMMA CoverGrows ==
    ASSUME NEW poi \in Points, NEW old \in Points, NEW new \in Points,
           Covers(old, poi), Grows(old, new)
    PROVE  Covers(new, poi)
<1>1. /\ poi.clearance \in Int \cup {None} /\ old.clearance \in Int \cup {None}
      /\ new.clearance \in Int \cup {None}
  BY DEF Points
<1>2. AtLeast(new.clearance, poi.clearance)
  BY <1>1, AtLeastChains DEF Covers, Grows
<1>3. SameFeature(old, poi, RadiusFor(poi.source)) => SameFeature(new, poi, RadiusFor(poi.source))
  BY DEF Grows, SameFeature, Apart, Eastward
<1> QED  BY <1>2, <1>3 DEF Covers, Grows

\* To cover a point is to cover it under other credits.
LEMMA CoverOfRestated ==
    ASSUME NEW poi \in Points, NEW r \in Points, NEW survivor \in Points,
           Restates(r, poi), Covers(survivor, r)
    PROVE  Covers(survivor, poi)
<1>1. SameFeature(survivor, r, RadiusFor(r.source)) <=> SameFeature(survivor, poi, RadiusFor(poi.source))
  BY DEF Restates, SameFeature, Apart, Eastward
<1> QED  BY <1>1 DEF Restates, Covers

\* A credit or a clearance changes nothing that makes a point a listed one.
LEMMA NotedStays ==
    ASSUME NEW n \in Noted, NEW credits \in Seq(Slugs), NEW clearance \in Int \cup {None}
    PROVE  /\ [n EXCEPT !.sources = credits] \in Noted
           /\ [n EXCEPT !.clearance = clearance] \in Noted
           /\ [n EXCEPT !.sources = credits, !.clearance = clearance] \in Noted
BY DEF Noted, Points

Merges == [base : Seq(Noted), rest : Seq(Noted)]

\* Each step of the merge stays among the listed points.
LEMMA SeededStays ==
    ASSUME NEW base \in Seq(Noted), NEW poi \in Noted
    PROVE  Seeded(base, poi) \in Seq(Noted)
<1>1. CASE IsBase(poi)
  <2>1. <<Base>> \in Seq(Slugs)
    BY <1>1 DEF IsBase, Noted, Points
  <2>2. poi.clearance \in Int \cup {None}
    BY DEF Noted, Points
  <2>3. [poi EXCEPT !.sources = <<Base>>] \in Noted
    BY <2>1, <2>2, NotedStays
  <2> QED  BY <1>1, <2>3 DEF Seeded
<1> QED  BY <1>1 DEF Seeded

\* A base point grows by its duplicate.
LEMMA CorroboratedStays ==
    ASSUME NEW b \in Noted, NEW poi \in Noted
    PROVE  /\ Corroborated(b, poi) \in Noted
           /\ Grows(b, Corroborated(b, poi))
           /\ Contains(Corroborated(b, poi).sources, poi.source)
           /\ AtLeast(Corroborated(b, poi).clearance, poi.clearance)
<1>1. /\ b \in Points /\ b.sources \in Seq(Slugs) /\ poi.source \in Slugs
      /\ b.clearance \in Int \cup {None} /\ poi.clearance \in Int \cup {None}
  BY DEF Noted, Points
<1> DEFINE credits == IF Contains(b.sources, poi.source) THEN b.sources
                      ELSE Append(b.sources, poi.source)
           lowest == MinClearance(b.clearance, poi.clearance)
<1>2. Corroborated(b, poi) = [b EXCEPT !.sources = credits, !.clearance = lowest]
  BY DEF Corroborated
<1>3. /\ credits \in Seq(Slugs) /\ Contains(credits, poi.source)
      /\ \A s : Contains(b.sources, s) => Contains(credits, s)
  <2>1. CASE Contains(b.sources, poi.source)
    BY <1>1, <2>1
  <2>2. CASE ~Contains(b.sources, poi.source)
    <3> DEFINE old == b.sources
               longer == Append(old, poi.source)
    <3>1. old \in Seq(Slugs) /\ poi.source \in Slugs
      BY <1>1
    <3> HIDE DEF old
    <3>2. /\ longer \in Seq(Slugs) /\ Len(longer) = Len(old) + 1 /\ Len(old) \in Nat
          /\ longer[Len(old) + 1] = poi.source
          /\ \A i \in 1 .. Len(old) : longer[i] = old[i]
      BY <3>1
    <3> HIDE DEF longer
    <3>3. Contains(longer, poi.source) /\ \A s : Contains(old, s) => Contains(longer, s)
      BY <3>2 DEF Contains
    <3> QED  BY <2>2, <3>2, <3>3 DEF old, longer
  <2> QED  BY <2>1, <2>2
<1>4. /\ lowest \in Int \cup {None}
      /\ AtLeast(lowest, b.clearance) /\ AtLeast(lowest, poi.clearance)
  BY <1>1, LowestClearance
<1> HIDE DEF credits, lowest
<1>5. Corroborated(b, poi) \in Noted
  <2>1. [b EXCEPT !.sources = credits, !.clearance = lowest] \in Noted
    BY <1>3, <1>4, NotedStays
  <2> QED  BY <1>2, <2>1
<1>6. /\ Corroborated(b, poi).sources = credits /\ Corroborated(b, poi).clearance = lowest
      /\ Corroborated(b, poi).id = b.id /\ Corroborated(b, poi).source = b.source
      /\ Corroborated(b, poi).type = b.type /\ Corroborated(b, poi).at = b.at
  BY <1>1, <1>2 DEF Points
<1> QED  BY <1>3, <1>4, <1>5, <1>6 DEF Grows

\* The three outcomes of a point in the base pass.
LEMMA MergeOutcomes ==
    ASSUME NEW lon \in Nat, NEW acc \in Merges, NEW poi \in Noted
    PROVE  \/ IsBase(poi) /\ MergeIntoBase(lon, acc, poi) = acc
           \/ /\ ~IsBase(poi) /\ poi.source \in Merging
              /\ \E i \in DOMAIN acc.base :
                   /\ SameFeature(acc.base[i], poi, RadiusFor(poi.source))
                   /\ MergeIntoBase(lon, acc, poi) =
                        [base |-> [acc.base EXCEPT ![i] = Corroborated(acc.base[i], poi)],
                         rest |-> acc.rest]
           \/ /\ ~IsBase(poi) /\ poi.source \in Merging
              /\ \A i \in DOMAIN acc.base : ~Twins(lon, acc.base[i], poi)
              /\ MergeIntoBase(lon, acc, poi) =
                   [base |-> acc.base,
                    rest |-> Append(acc.rest, [poi EXCEPT !.sources = <<poi.source>>])]
           \/ /\ ~IsBase(poi) /\ poi.source \notin Merging
              /\ MergeIntoBase(lon, acc, poi) = [base |-> acc.base, rest |-> Append(acc.rest, poi)]
<1> DEFINE i == ScanNeighborhood(lon, acc.base, DOMAIN acc.base, poi)
<1>1. acc = [base |-> acc.base, rest |-> acc.rest] /\ acc.base \in Seq(Points) /\ poi \in Points
  BY DEF Merges, Noted
<1>2. \/ /\ i = 0
         /\ \A j \in DOMAIN acc.base : ~Twins(lon, acc.base[j], poi)
      \/ i # 0 /\ i \in DOMAIN acc.base /\ SameFeature(acc.base[i], poi, RadiusFor(poi.source))
  BY <1>1, ScanFinds
<1>3. MergeIntoBase(lon, acc, poi) =
        LET j == IF poi.source \in Merging THEN i ELSE 0
        IN  IF IsBase(poi) THEN acc
            ELSE IF j # 0 THEN [acc EXCEPT !.base[j] = Corroborated(@, poi)]
            ELSE [acc EXCEPT !.rest = Append(@,
                    IF poi.source \in Merging THEN [poi EXCEPT !.sources = <<poi.source>>] ELSE poi)]
  BY DEF MergeIntoBase
<1> HIDE DEF i
<1>4. CASE IsBase(poi)
  BY <1>3, <1>4
<1>5. CASE ~IsBase(poi) /\ poi.source \notin Merging
  BY <1>1, <1>3, <1>5
<1>6. CASE ~IsBase(poi) /\ poi.source \in Merging /\ i = 0
  BY <1>1, <1>2, <1>3, <1>6
<1>7. CASE ~IsBase(poi) /\ poi.source \in Merging /\ i # 0
  <2>1. MergeIntoBase(lon, acc, poi) = [acc EXCEPT !.base[i] = Corroborated(acc.base[i], poi)]
    BY <1>3, <1>7
  <2>2. MergeIntoBase(lon, acc, poi) = [base |-> [acc.base EXCEPT ![i] = Corroborated(acc.base[i], poi)],
                                   rest |-> acc.rest]
    BY <1>1, <2>1
  <2> QED  BY <1>2, <1>7, <2>2
<1> QED  BY <1>4, <1>5, <1>6, <1>7

\* A point that credits itself is still that point.
LEMMA TaggedStays ==
    ASSUME NEW poi \in Noted
    PROVE  /\ [poi EXCEPT !.sources = <<poi.source>>] \in Noted
           /\ Restates([poi EXCEPT !.sources = <<poi.source>>], poi)
<1>1. poi \in Points /\ poi.source \in Slugs /\ poi.clearance \in Int \cup {None}
  BY DEF Noted, Points
<1>2. <<poi.source>> \in Seq(Slugs)
  BY <1>1
<1>3. [poi EXCEPT !.sources = <<poi.source>>] \in Noted
  BY <1>1, <1>2, NotedStays
<1> QED  BY <1>1, <1>3 DEF Restates, Points

\* A step of the base pass stays among the listed points.
LEMMA MergeStays ==
    ASSUME NEW lon \in Nat, NEW acc \in Merges, NEW poi \in Noted
    PROVE  MergeIntoBase(lon, acc, poi) \in Merges
<1>1. acc.base \in Seq(Noted) /\ acc.rest \in Seq(Noted)
  BY DEF Merges
<1>2. [poi EXCEPT !.sources = <<poi.source>>] \in Noted
  BY TaggedStays
<1>3. /\ Append(acc.rest, poi) \in Seq(Noted)
      /\ Append(acc.rest, [poi EXCEPT !.sources = <<poi.source>>]) \in Seq(Noted)
  BY <1>1, <1>2
<1>4. ASSUME NEW i \in DOMAIN acc.base
      PROVE  [acc.base EXCEPT ![i] = Corroborated(acc.base[i], poi)] \in Seq(Noted)
  <2>1. acc.base[i] \in Noted
    BY <1>1
  <2>2. Corroborated(acc.base[i], poi) \in Noted
    BY <2>1, CorroboratedStays
  <2> QED  BY <1>1, <2>2
<1> DEFINE new == MergeIntoBase(lon, acc, poi)
           tagged == Append(acc.rest, [poi EXCEPT !.sources = <<poi.source>>])
           Grown(i) == [acc.base EXCEPT ![i] = Corroborated(acc.base[i], poi)]
<1>5. \/ new = acc
      \/ \E i \in DOMAIN acc.base : new = [base |-> Grown(i), rest |-> acc.rest]
      \/ new = [base |-> acc.base, rest |-> tagged]
      \/ new = [base |-> acc.base, rest |-> Append(acc.rest, poi)]
  BY MergeOutcomes, Zenon
<1> HIDE DEF new, tagged, Grown
<1>6. PICK b \in Seq(Noted), r \in Seq(Noted) : new = [base |-> b, rest |-> r]
  <2>1. CASE new = acc
    BY <1>1, <2>1 DEF Merges
  <2>2. CASE new # acc
    BY <1>1, <1>3, <1>4, <1>5, <2>2 DEF tagged, Grown
  <2> QED  BY <2>1, <2>2
<1> QED  BY <1>6 DEF Merges, new

\* A kept point takes the clearance of its duplicate.
Lowered(kept, poi) ==
    [kept EXCEPT !.clearance = MinClearance(kept.clearance, poi.clearance)]

\* The two outcomes of a point in the pass over its own source.
LEMMA SourceOutcomes ==
    ASSUME NEW lon \in Nat, NEW out \in Seq(Noted), NEW poi \in Noted
    PROVE  \/ /\ MergeSameSource(lon, out, poi) = Append(out, poi)
              /\ poi.source \in Merging =>
                   \A i \in DOMAIN out : out[i].source = poi.source =>
                     ~Twins(lon, out[i], poi)
           \/ /\ poi.source \in Merging
              /\ \E i \in DOMAIN out :
                   /\ out[i].source = poi.source
                   /\ SameFeature(out[i], poi, RadiusFor(poi.source))
                   /\ MergeSameSource(lon, out, poi) =
                        [out EXCEPT ![i] = Lowered(out[i], poi)]
<1> DEFINE kept == {k \in DOMAIN out : out[k].source = poi.source}
           i == ScanNeighborhood(lon, out, kept, poi)
<1>1. out \in Seq(Points) /\ poi \in Points /\ kept \in SUBSET DOMAIN out
  BY DEF Noted
<1>2. \/ /\ i = 0
         /\ \A j \in kept : ~Twins(lon, out[j], poi)
      \/ i # 0 /\ i \in kept /\ SameFeature(out[i], poi, RadiusFor(poi.source))
  BY <1>1, ScanFinds
<1>3. MergeSameSource(lon, out, poi) =
        LET j == IF poi.source \in Merging THEN i ELSE 0
        IN  IF j = 0 THEN Append(out, poi)
            ELSE [out EXCEPT ![j].clearance = MinClearance(@, poi.clearance)]
  BY DEF MergeSameSource
<1> HIDE DEF i
<1>4. CASE poi.source \notin Merging \/ i = 0
  BY <1>2, <1>3, <1>4
<1>5. CASE poi.source \in Merging /\ i # 0
  <2>1. i \in DOMAIN out /\ out[i].source = poi.source
    BY <1>2, <1>5
  <2>2. MergeSameSource(lon, out, poi) =
          [out EXCEPT ![i] = Lowered(out[i], poi)]
    BY <1>3, <1>5 DEF Lowered
  <2> QED  BY <1>2, <1>5, <2>1, <2>2
<1> QED  BY <1>4, <1>5

\* It stays a listed point, and grows.
LEMMA LoweredStays ==
    ASSUME NEW kept \in Noted, NEW poi \in Noted
    PROVE  LET new == Lowered(kept, poi)
           IN  new \in Noted /\ Grows(kept, new) /\ AtLeast(new.clearance, poi.clearance)
<1> DEFINE lowest == MinClearance(kept.clearance, poi.clearance)
<1>1. /\ kept \in Points /\ kept.clearance \in Int \cup {None} /\ kept.sources \in Seq(Slugs)
      /\ poi.clearance \in Int \cup {None}
  BY DEF Noted, Points
<1>2. lowest \in Int \cup {None} /\ AtLeast(lowest, kept.clearance) /\ AtLeast(lowest, poi.clearance)
  BY <1>1, LowestClearance
<1> HIDE DEF lowest
<1>3. [kept EXCEPT !.clearance = lowest] \in Noted
  BY <1>1, <1>2, NotedStays
<1>4. LET new == [kept EXCEPT !.clearance = lowest]
      IN  Grows(kept, new) /\ AtLeast(new.clearance, poi.clearance)
  BY <1>1, <1>2 DEF Grows, Points
<1> QED  BY <1>3, <1>4 DEF lowest, Lowered

\* So does a step of the pass over its own source.
LEMMA SourceStays ==
    ASSUME NEW lon \in Nat, NEW out \in Seq(Noted), NEW poi \in Noted
    PROVE  MergeSameSource(lon, out, poi) \in Seq(Noted)
<1>1. ASSUME NEW i \in DOMAIN out
      PROVE  [out EXCEPT ![i] = Lowered(out[i], poi)] \in Seq(Noted)
  <2>1. out[i] \in Noted
    OBVIOUS
  <2> DEFINE new == Lowered(out[i], poi)
  <2>2. new \in Noted
    BY <2>1, LoweredStays
  <2> HIDE DEF new
  <2>3. [out EXCEPT ![i] = new] \in Seq(Noted)
    BY <2>2
  <2> QED  BY <2>3 DEF new
<1>2. Append(out, poi) \in Seq(Noted)
  OBVIOUS
<1>3. CASE MergeSameSource(lon, out, poi) = Append(out, poi)
  BY <1>2, <1>3
<1>4. CASE MergeSameSource(lon, out, poi) # Append(out, poi)
  <2>1. PICK i \in DOMAIN out : MergeSameSource(lon, out, poi) =
          [out EXCEPT ![i] = Lowered(out[i], poi)]
    BY <1>4, SourceOutcomes
  <2> QED  BY <1>1, <2>1
<1> QED  BY <1>3, <1>4

\* The base points, one by one.
LEMMA SeededTable ==
    ASSUME NEW seq \in Seq(Noted)
    PROVE  \E step \in [0 .. Len(seq) -> Seq(Noted)] :
             /\ step[0] = <<>>
             /\ \A k \in 1 .. Len(seq) : step[k] = Seeded(step[k - 1], seq[k])
             /\ FoldLeft(Seeded, <<>>, seq) = step[Len(seq)]
<1> DEFINE n == Len(seq)
           f == [pair \in Seq(Noted) \X (1 .. n) |-> Seeded(pair[1], seq[pair[2]])]
           Computes(iter) == iter = [S \in SUBSET (1 .. n) |->
               IF S = {} THEN <<>> ELSE Seeded(iter[S \ {Max(S)}], seq[Max(S)])]
           iter == CHOOSE iter : Computes(iter)
<1>1. n \in Nat /\ DOMAIN seq = 1 .. n /\ \A k \in 1 .. n : seq[k] \in Noted
  OBVIOUS
<1> HIDE DEF n
<1>2. FoldLeft(Seeded, <<>>, seq) = iter[1 .. n]
  BY <1>1, Zenon DEF FoldLeft, MapThenFoldSet
<1>3. <<>> \in Seq(Noted) /\ \A a \in Seq(Noted), k \in 1 .. n : Seeded(a, seq[k]) \in Seq(Noted)
  BY <1>1, SeededStays
<1>4. PICK table \in [SUBSET (1 .. n) -> Seq(Noted)] : IsTable(table, n, <<>>, f)
  <2>1. \A a \in Seq(Noted), k \in 1 .. n : f[<<a, k>>] \in Seq(Noted)
    BY <1>3
  <2> HIDE DEF f
  <2> QED  BY <1>1, <1>3, <2>1, FoldTable
<1>5. Computes(table)
  <2> SUFFICES ASSUME NEW S \in SUBSET (1 .. n), S # {}
               PROVE  table[S] = Seeded(table[S \ {Max(S)}], seq[Max(S)])
    BY <1>4 DEF IsTable
  <2>1. Max(S) \in 1 .. n /\ S \ {Max(S)} \in SUBSET (1 .. n)
    BY <1>1, MaxOfIndices
  <2>2. table[S] = f[<<table[S \ {Max(S)}], Max(S)>>]
    BY <1>4 DEF IsTable
  <2> QED  BY <1>1, <2>1, <2>2
<1>6. Computes(iter)
  BY <1>5, Zenon
<1> HIDE DEF iter
<1>7. iter[1 .. 0] = <<>>
  BY <1>6
<1>8. ASSUME NEW k \in 1 .. n PROVE iter[1 .. k] = Seeded(iter[1 .. (k - 1)], seq[k])
  <2>1. /\ 1 .. k \in SUBSET (1 .. n) /\ 1 .. k # {}
        /\ Max(1 .. k) = k /\ (1 .. k) \ {Max(1 .. k)} = 1 .. (k - 1)
    BY <1>1, InitialSegment
  <2>2. iter[1 .. k] = Seeded(iter[(1 .. k) \ {Max(1 .. k)}], seq[Max(1 .. k)])
    BY <1>6, <2>1
  <2> QED  BY <2>1, <2>2, Zenon
<1>9. \A k \in 0 .. n : iter[1 .. k] \in Seq(Noted)
  <2>1. iter[1 .. 0] \in Seq(Noted)
    BY <1>3, <1>7
  <2>2. ASSUME NEW k \in 1 .. n, iter[1 .. (k - 1)] \in Seq(Noted) PROVE iter[1 .. k] \in Seq(Noted)
    <3> DEFINE before == iter[1 .. (k - 1)]
    <3>1. before \in Seq(Noted)
      BY <2>2
    <3> HIDE DEF before
    <3>2. Seeded(before, seq[k]) \in Seq(Noted)
      BY <1>3, <3>1
    <3> QED  BY <1>8, <3>2 DEF before
  <2> QED  BY <1>1, <2>1, <2>2, ChainHolds
<1> DEFINE step == [k \in 0 .. n |-> iter[1 .. k]]
<1>10. step \in [0 .. n -> Seq(Noted)]
  BY <1>9
<1>11. step[0] = <<>> /\ FoldLeft(Seeded, <<>>, seq) = step[n]
  BY <1>1, <1>2, <1>7
<1>12. \A k \in 1 .. n : step[k] = Seeded(step[k - 1], seq[k])
  <2> SUFFICES ASSUME NEW k \in 1 .. n
               PROVE  step[k] = Seeded(step[k - 1], seq[k])
    OBVIOUS
  <2>1. k \in 0 .. n /\ k - 1 \in 0 .. n
    BY <1>1
  <2>2. step[k] = iter[1 .. k] /\ step[k - 1] = iter[1 .. (k - 1)]
    BY <2>1
  <2> HIDE DEF step
  <2> QED  BY <1>8, <2>2, Zenon
<1> HIDE DEF step
<1> QED  BY <1>10, <1>11, <1>12 DEF n

\* The base pass, point by point.
LEMMA MergeTable ==
    ASSUME NEW lon \in Nat, NEW seq \in Seq(Noted),
           [base |-> FoldLeft(Seeded, <<>>, seq), rest |-> <<>>] \in Merges
    PROVE  \E step \in [0 .. Len(seq) -> Merges] :
             /\ step[0] = [base |-> FoldLeft(Seeded, <<>>, seq), rest |-> <<>>]
             /\ \A k \in 1 .. Len(seq) : step[k] = MergeIntoBase(lon, step[k - 1], seq[k])
             /\ BasePass(lon, seq) = step[Len(seq)]
<1> DEFINE Folded(acc, poi) == MergeIntoBase(lon, acc, poi)
           n == Len(seq)
           base == [base |-> FoldLeft(Seeded, <<>>, seq), rest |-> <<>>]
           f == [pair \in Merges \X (1 .. n) |-> Folded(pair[1], seq[pair[2]])]
           Computes(iter) == iter = [S \in SUBSET (1 .. n) |->
               IF S = {} THEN base ELSE Folded(iter[S \ {Max(S)}], seq[Max(S)])]
           iter == CHOOSE iter : Computes(iter)
<1>1. n \in Nat /\ DOMAIN seq = 1 .. n /\ \A k \in 1 .. n : seq[k] \in Noted
  OBVIOUS
<1>0. BasePass(lon, seq) = FoldLeft(Folded, base, seq)
  BY DEF BasePass
<1> HIDE DEF n, base
<1>2. FoldLeft(Folded, base, seq) = iter[1 .. n]
  BY <1>1, Zenon DEF FoldLeft, MapThenFoldSet
<1>3. base \in Merges /\ \A a \in Merges, k \in 1 .. n : Folded(a, seq[k]) \in Merges
  BY <1>1, MergeStays DEF base
<1> HIDE DEF Folded
<1>4. PICK table \in [SUBSET (1 .. n) -> Merges] : IsTable(table, n, base, f)
  <2>1. \A a \in Merges, k \in 1 .. n : f[<<a, k>>] \in Merges
    BY <1>3
  <2> HIDE DEF f
  <2> QED  BY <1>1, <1>3, <2>1, FoldTable
<1>5. Computes(table)
  <2> SUFFICES ASSUME NEW S \in SUBSET (1 .. n), S # {}
               PROVE  table[S] = Folded(table[S \ {Max(S)}], seq[Max(S)])
    BY <1>4 DEF IsTable
  <2>1. Max(S) \in 1 .. n /\ S \ {Max(S)} \in SUBSET (1 .. n)
    BY <1>1, MaxOfIndices
  <2>2. table[S] = f[<<table[S \ {Max(S)}], Max(S)>>]
    BY <1>4 DEF IsTable
  <2> QED  BY <1>1, <2>1, <2>2
<1>6. Computes(iter)
  BY <1>5, Zenon
<1> HIDE DEF iter
<1>7. iter[1 .. 0] = base
  BY <1>6
<1>8. ASSUME NEW k \in 1 .. n PROVE iter[1 .. k] = Folded(iter[1 .. (k - 1)], seq[k])
  <2>1. /\ 1 .. k \in SUBSET (1 .. n) /\ 1 .. k # {}
        /\ Max(1 .. k) = k /\ (1 .. k) \ {Max(1 .. k)} = 1 .. (k - 1)
    BY <1>1, InitialSegment
  <2>2. iter[1 .. k] = Folded(iter[(1 .. k) \ {Max(1 .. k)}], seq[Max(1 .. k)])
    BY <1>6, <2>1
  <2> QED  BY <2>1, <2>2, Zenon
<1>9. \A k \in 0 .. n : iter[1 .. k] \in Merges
  <2>1. iter[1 .. 0] \in Merges
    BY <1>3, <1>7
  <2>2. ASSUME NEW k \in 1 .. n, iter[1 .. (k - 1)] \in Merges PROVE iter[1 .. k] \in Merges
    <3> DEFINE before == iter[1 .. (k - 1)]
    <3>1. before \in Merges
      BY <2>2
    <3> HIDE DEF before
    <3>2. Folded(before, seq[k]) \in Merges
      BY <1>3, <3>1
    <3> QED  BY <1>8, <3>2 DEF before
  <2> QED  BY <1>1, <2>1, <2>2, ChainHolds
<1> DEFINE step == [k \in 0 .. n |-> iter[1 .. k]]
<1>10. step \in [0 .. n -> Merges]
  BY <1>9
<1>11. step[0] = base /\ FoldLeft(Folded, base, seq) = step[n]
  BY <1>1, <1>2, <1>7
<1>12. \A k \in 1 .. n : step[k] = Folded(step[k - 1], seq[k])
  <2> SUFFICES ASSUME NEW k \in 1 .. n
               PROVE  step[k] = Folded(step[k - 1], seq[k])
    OBVIOUS
  <2>1. k \in 0 .. n /\ k - 1 \in 0 .. n
    BY <1>1
  <2>2. step[k] = iter[1 .. k] /\ step[k - 1] = iter[1 .. (k - 1)]
    BY <2>1
  <2> HIDE DEF step
  <2> QED  BY <1>8, <2>2, Zenon
<1> HIDE DEF step
<1> QED  BY <1>0, <1>10, <1>11, <1>12 DEF n, base, Folded

\* The pass over each source's own, point by point.
LEMMA SourceTable ==
    ASSUME NEW lon \in Nat, NEW seq \in Seq(Noted)
    PROVE  \E step \in [0 .. Len(seq) -> Seq(Noted)] :
             /\ step[0] = <<>>
             /\ \A k \in 1 .. Len(seq) : step[k] = MergeSameSource(lon, step[k - 1], seq[k])
             /\ SourcePass(lon, seq) = step[Len(seq)]
<1> DEFINE Folded(acc, poi) == MergeSameSource(lon, acc, poi)
           n == Len(seq)
           f == [pair \in Seq(Noted) \X (1 .. n) |-> Folded(pair[1], seq[pair[2]])]
           Computes(iter) == iter = [S \in SUBSET (1 .. n) |->
               IF S = {} THEN <<>> ELSE Folded(iter[S \ {Max(S)}], seq[Max(S)])]
           iter == CHOOSE iter : Computes(iter)
<1>1. n \in Nat /\ DOMAIN seq = 1 .. n /\ \A k \in 1 .. n : seq[k] \in Noted
  OBVIOUS
<1>0. SourcePass(lon, seq) = FoldLeft(Folded, <<>>, seq)
  BY DEF SourcePass
<1> HIDE DEF n
<1>2. FoldLeft(Folded, <<>>, seq) = iter[1 .. n]
  BY <1>1, Zenon DEF FoldLeft, MapThenFoldSet
<1>3. <<>> \in Seq(Noted) /\ \A a \in Seq(Noted), k \in 1 .. n : Folded(a, seq[k]) \in Seq(Noted)
  BY <1>1, SourceStays
<1> HIDE DEF Folded
<1>4. PICK table \in [SUBSET (1 .. n) -> Seq(Noted)] : IsTable(table, n, <<>>, f)
  <2>1. \A a \in Seq(Noted), k \in 1 .. n : f[<<a, k>>] \in Seq(Noted)
    BY <1>3
  <2> HIDE DEF f
  <2> QED  BY <1>1, <1>3, <2>1, FoldTable
<1>5. Computes(table)
  <2> SUFFICES ASSUME NEW S \in SUBSET (1 .. n), S # {}
               PROVE  table[S] = Folded(table[S \ {Max(S)}], seq[Max(S)])
    BY <1>4 DEF IsTable
  <2>1. Max(S) \in 1 .. n /\ S \ {Max(S)} \in SUBSET (1 .. n)
    BY <1>1, MaxOfIndices
  <2>2. table[S] = f[<<table[S \ {Max(S)}], Max(S)>>]
    BY <1>4 DEF IsTable
  <2> QED  BY <1>1, <2>1, <2>2
<1>6. Computes(iter)
  BY <1>5, Zenon
<1> HIDE DEF iter
<1>7. iter[1 .. 0] = <<>>
  BY <1>6
<1>8. ASSUME NEW k \in 1 .. n PROVE iter[1 .. k] = Folded(iter[1 .. (k - 1)], seq[k])
  <2>1. /\ 1 .. k \in SUBSET (1 .. n) /\ 1 .. k # {}
        /\ Max(1 .. k) = k /\ (1 .. k) \ {Max(1 .. k)} = 1 .. (k - 1)
    BY <1>1, InitialSegment
  <2>2. iter[1 .. k] = Folded(iter[(1 .. k) \ {Max(1 .. k)}], seq[Max(1 .. k)])
    BY <1>6, <2>1
  <2> QED  BY <2>1, <2>2, Zenon
<1>9. \A k \in 0 .. n : iter[1 .. k] \in Seq(Noted)
  <2>1. iter[1 .. 0] \in Seq(Noted)
    BY <1>3, <1>7
  <2>2. ASSUME NEW k \in 1 .. n, iter[1 .. (k - 1)] \in Seq(Noted) PROVE iter[1 .. k] \in Seq(Noted)
    <3> DEFINE before == iter[1 .. (k - 1)]
    <3>1. before \in Seq(Noted)
      BY <2>2
    <3> HIDE DEF before
    <3>2. Folded(before, seq[k]) \in Seq(Noted)
      BY <1>3, <3>1
    <3> QED  BY <1>8, <3>2 DEF before
  <2> QED  BY <1>1, <2>1, <2>2, ChainHolds
<1> DEFINE step == [k \in 0 .. n |-> iter[1 .. k]]
<1>10. step \in [0 .. n -> Seq(Noted)]
  BY <1>9
<1>11. step[0] = <<>> /\ FoldLeft(Folded, <<>>, seq) = step[n]
  BY <1>1, <1>2, <1>7
<1>12. \A k \in 1 .. n : step[k] = Folded(step[k - 1], seq[k])
  <2> SUFFICES ASSUME NEW k \in 1 .. n
               PROVE  step[k] = Folded(step[k - 1], seq[k])
    OBVIOUS
  <2>1. k \in 0 .. n /\ k - 1 \in 0 .. n
    BY <1>1
  <2>2. step[k] = iter[1 .. k] /\ step[k - 1] = iter[1 .. (k - 1)]
    BY <2>1
  <2> HIDE DEF step
  <2> QED  BY <1>8, <2>2, Zenon
<1> HIDE DEF step
<1> QED  BY <1>0, <1>10, <1>11, <1>12 DEF n, Folded
-----------------------------------------------------------------------------
(* The passes of the merge. *)

\* What Append keeps and adds.
LEMMA AppendFacts ==
    ASSUME NEW R, NEW s \in Seq(R), NEW x \in R
    PROVE  /\ DOMAIN s = 1 .. Len(s) /\ Len(s) \in Nat
           /\ DOMAIN Append(s, x) = 1 .. (Len(s) + 1)
           /\ \A i \in DOMAIN s : i \in DOMAIN Append(s, x) /\ Append(s, x)[i] = s[i]
           /\ Len(s) + 1 \in DOMAIN Append(s, x) /\ Append(s, x)[Len(s) + 1] = x
           /\ \A i \in DOMAIN Append(s, x) : i \in DOMAIN s \/ i = Len(s) + 1
OBVIOUS

\* The corroboration starts from every base point, and from no other.
LEMMA EveryBaseIsSeeded ==
    ASSUME NEW pois \in Seq(Noted)
    PROVE  LET base == FoldLeft(Seeded, <<>>, pois)
           IN  /\ base \in Seq(Noted)
               /\ \A i \in DOMAIN base : base[i].source = Base
               /\ \A j \in DOMAIN pois : IsBase(pois[j]) =>
                    \E i \in DOMAIN base : Restates(base[i], pois[j])
<1> DEFINE n == Len(pois)
<1>1. n \in Nat /\ DOMAIN pois = 1 .. n /\ \A k \in 1 .. n : pois[k] \in Noted
  OBVIOUS
<1>2. PICK step \in [0 .. n -> Seq(Noted)] :
        /\ step[0] = <<>>
        /\ \A k \in 1 .. n : step[k] = Seeded(step[k - 1], pois[k])
        /\ FoldLeft(Seeded, <<>>, pois) = step[n]
  BY SeededTable
<1> HIDE DEF n
<1> DEFINE T == {k \in 0 .. n :
                   /\ \A i \in DOMAIN step[k] : step[k][i].source = Base
                   /\ \A j \in 1 .. k : IsBase(pois[j]) =>
                        \E i \in DOMAIN step[k] : Restates(step[k][i], pois[j])}
<1>3. ASSUME NEW k \in 1 .. n, k - 1 \in T PROVE k \in T
  <2> DEFINE old == step[k - 1]
             new == step[k]
             poi == pois[k]
  <2>1. /\ k \in 0 .. n /\ k - 1 \in 0 .. n
        /\ \A j \in 1 .. k : j \in 1 .. (k - 1) \/ j = k
    BY <1>1
  <2>2. old \in Seq(Noted) /\ poi \in Noted /\ new = Seeded(old, poi)
    BY <1>1, <1>2, <2>1
  <2>3. /\ \A i \in DOMAIN old : old[i].source = Base
        /\ \A j \in 1 .. (k - 1) : IsBase(pois[j]) =>
             \E i \in DOMAIN old : Restates(old[i], pois[j])
    BY <1>3
  <2> HIDE DEF T
  <2>4. CASE ~IsBase(poi)
    <3>1. new = old
      BY <2>2, <2>4 DEF Seeded
    <3>2. \A j \in 1 .. k : IsBase(pois[j]) => \E i \in DOMAIN new : Restates(new[i], pois[j])
      BY <2>1, <2>3, <2>4, <3>1
    <3> QED  BY <2>1, <2>3, <3>1, <3>2 DEF T
  <2>5. CASE IsBase(poi)
    <3> DEFINE mark == [poi EXCEPT !.sources = <<Base>>]
    <3>1. Base = poi.source
      BY <2>5 DEF IsBase
    <3>2. mark \in Noted /\ Restates(mark, poi) /\ mark.source = Base
      BY <2>2, <3>1, TaggedStays DEF Restates
    <3>3. new = Append(old, mark)
      BY <2>2, <2>5 DEF Seeded
    <3> HIDE DEF old, new, poi, mark
    <3>4. /\ \A i \in DOMAIN old : i \in DOMAIN new /\ new[i] = old[i]
          /\ \E i \in DOMAIN new : new[i] = mark
          /\ \A i \in DOMAIN new : i \in DOMAIN old \/ new[i] = mark
      BY <2>2, <3>2, <3>3, AppendFacts
    <3>5. \A i \in DOMAIN new : new[i].source = Base
      BY <2>3, <3>2, <3>4
    <3>6. ASSUME NEW j \in 1 .. k, IsBase(pois[j])
          PROVE  \E i \in DOMAIN new : Restates(new[i], pois[j])
      <4>1. CASE j = k
        BY <3>2, <3>4, <4>1 DEF poi
      <4>2. CASE j # k
        <5>1. PICK i \in DOMAIN old : Restates(old[i], pois[j])
          BY <2>1, <2>3, <3>6, <4>2
        <5> QED  BY <3>4, <5>1
      <4> QED  BY <4>1, <4>2
    <3> QED  BY <2>1, <3>5, <3>6 DEF T, new
  <2> QED  BY <2>4, <2>5
<1>4. 0 \in T
  <2>1. 0 \in 0 .. n /\ 1 .. 0 = {} /\ DOMAIN step[0] = {}
    BY <1>1, <1>2
  <2> QED  BY <2>1
<1> HIDE DEF T
<1>5. n \in T
  <2>1. 0 .. n \subseteq T
    BY <1>1, <1>3, <1>4, IntervalInduction
  <2> QED  BY <1>1, <2>1
<1> QED  BY <1>1, <1>2, <1>5 DEF T

\* What the base pass keeps: base points on one side, on the other points with no
\* twin among them, which credit themselves.
Clear(lon, acc) ==
    /\ \A i \in DOMAIN acc.base : acc.base[i].source = Base
    /\ \A i \in DOMAIN acc.rest :
         /\ acc.rest[i].source # Base
         /\ acc.rest[i].source \in Merging =>
              /\ Contains(acc.rest[i].sources, acc.rest[i].source)
              /\ \A b \in DOMAIN acc.base :
                   ~Twins(lon, acc.base[b], acc.rest[i])

Accounted(acc, poi) ==
    \/ \E i \in DOMAIN acc.base : Covers(acc.base[i], poi)
    \/ \E i \in DOMAIN acc.rest : Restates(acc.rest[i], poi)

\* A point covers itself, under whatever credits.
LEMMA RestatingCovers ==
    ASSUME NEW poi \in Points, NEW r \in Points, Restates(r, poi)
    PROVE  Covers(r, poi)
<1>1. poi.clearance \in Int \cup {None}
  BY DEF Points
<1>2. AtLeast(poi.clearance, poi.clearance)
  BY <1>1, LowestClearance
<1> QED  BY <1>2 DEF Restates, Covers

\* A point that has no twin in the base joins the others.
LEMMA RestGrows ==
    ASSUME NEW lon \in Nat, NEW acc \in Merges, Clear(lon, acc), NEW poi \in Noted, NEW mark \in Noted,
           Restates(mark, poi), ~IsBase(poi),
           poi.source \in Merging =>
             /\ Contains(mark.sources, poi.source)
             /\ \A b \in DOMAIN acc.base : ~Twins(lon, acc.base[b], poi)
    PROVE  LET new == [base |-> acc.base, rest |-> Append(acc.rest, mark)]
           IN  /\ Clear(lon, new) /\ Accounted(new, poi)
               /\ \A p \in Noted : Accounted(acc, p) => Accounted(new, p)
<1> DEFINE new == [base |-> acc.base, rest |-> Append(acc.rest, mark)]
           old == acc.rest
           longer == Append(old, mark)
<1>1. old \in Seq(Noted) /\ new.base = acc.base /\ new.rest = longer
  BY DEF Merges
<1>2. /\ \A i \in DOMAIN old : i \in DOMAIN longer /\ longer[i] = old[i]
      /\ \E i \in DOMAIN longer : longer[i] = mark
      /\ \A i \in DOMAIN longer : longer[i] = mark \/ (i \in DOMAIN old /\ longer[i] = old[i])
  <2> HIDE DEF old
  <2> QED  BY <1>1, AppendFacts
<1>3. /\ mark.source = poi.source /\ mark.source # Base
      /\ \A b \in DOMAIN acc.base :
           Twins(lon, acc.base[b], mark) => Twins(lon, acc.base[b], poi)
  BY TwinsOfTheSame DEF Restates, IsBase
<1> HIDE DEF new, longer
<1>4. Clear(lon, new)
  <2>1. ASSUME NEW i \in DOMAIN longer
        PROVE  /\ longer[i].source # Base
               /\ longer[i].source \in Merging =>
                    /\ Contains(longer[i].sources, longer[i].source)
                    /\ \A b \in DOMAIN acc.base :
                         ~Twins(lon, acc.base[b], longer[i])
    <3>1. CASE longer[i] = mark
      BY <1>3, <3>1
    <3>2. CASE i \in DOMAIN old /\ longer[i] = old[i]
      BY <3>2 DEF Clear
    <3> QED  BY <1>2, <3>1, <3>2
  <2>2. \A i \in DOMAIN acc.base : acc.base[i].source = Base
    BY DEF Clear
  <2> QED  BY <1>1, <2>1, <2>2 DEF Clear
<1>5. Accounted(new, poi)
  BY <1>1, <1>2 DEF Accounted
<1>6. \A p \in Noted : Accounted(acc, p) => Accounted(new, p)
  BY <1>1, <1>2 DEF Accounted
<1> QED  BY <1>4, <1>5, <1>6 DEF new

\* A point with a twin in the base is credited on it.
LEMMA BaseGrows ==
    ASSUME NEW lon \in Nat, NEW acc \in Merges, Clear(lon, acc), NEW poi \in Noted, NEW i \in DOMAIN acc.base,
           poi.source \in Merging, SameFeature(acc.base[i], poi, RadiusFor(poi.source))
    PROVE  LET new == [base |-> [acc.base EXCEPT ![i] = Corroborated(acc.base[i], poi)],
                       rest |-> acc.rest]
           IN  /\ Clear(lon, new) /\ Accounted(new, poi)
               /\ \A p \in Noted : Accounted(acc, p) => Accounted(new, p)
<1> DEFINE old == acc.base
           mark == Corroborated(acc.base[i], poi)
           grown == [old EXCEPT ![i] = mark]
           new == [base |-> grown, rest |-> acc.rest]
<1>1. old \in Seq(Noted) /\ old[i] \in Noted /\ new.base = grown /\ new.rest = acc.rest
  BY DEF Merges
<1>2. /\ mark \in Noted /\ Grows(old[i], mark)
      /\ Contains(mark.sources, poi.source) /\ AtLeast(mark.clearance, poi.clearance)
  BY <1>1, CorroboratedStays
<1> HIDE DEF mark
<1>3. /\ DOMAIN grown = DOMAIN old
      /\ \A b \in DOMAIN old : old[b] \in Noted /\ grown[b] \in Noted /\ Grows(old[b], grown[b])
  <2>1. ASSUME NEW b \in DOMAIN old PROVE old[b] \in Noted /\ grown[b] \in Noted /\ Grows(old[b], grown[b])
    <3>1. old[b] \in Noted
      BY <1>1
    <3>2. CASE b = i
      BY <1>2, <3>1, <3>2
    <3>3. CASE b # i
      <4>1. grown[b] = old[b]
        BY <3>3
      <4>2. Grows(old[b], old[b])
        BY <3>1, GrowthStartsHere DEF Noted
      <4> QED  BY <3>1, <4>1, <4>2
    <3> QED  BY <3>2, <3>3
  <2> QED  BY <2>1
<1>4. grown[i] = mark
  OBVIOUS
<1> HIDE DEF grown, new
<1>5. Clear(lon, new)
  <2>1. \A b \in DOMAIN grown : grown[b].source = Base
    BY <1>3 DEF Clear, Grows
  <2>2. ASSUME NEW r, NEW b \in DOMAIN grown, ~Twins(lon, old[b], r)
        PROVE  ~Twins(lon, grown[b], r)
    BY <1>3, <2>2, TwinsOfTheSame DEF Grows
  <2>3. \A k \in DOMAIN acc.rest :
         /\ acc.rest[k].source # Base
         /\ acc.rest[k].source \in Merging =>
              /\ Contains(acc.rest[k].sources, acc.rest[k].source)
              /\ \A b \in DOMAIN grown :
                   ~Twins(lon, grown[b], acc.rest[k])
    BY <1>3, <2>2 DEF Clear
  <2> QED  BY <1>1, <2>1, <2>3 DEF Clear
<1>6. Covers(grown[i], poi)
  <2>1. SameFeature(mark, poi, RadiusFor(poi.source))
    BY <1>2 DEF Grows, SameFeature, Apart, Eastward
  <2> QED  BY <1>2, <1>4, <2>1 DEF Covers
<1>7. Accounted(new, poi)
  BY <1>1, <1>3, <1>6 DEF Accounted
<1>8. ASSUME NEW p \in Noted, Accounted(acc, p) PROVE Accounted(new, p)
  <2>1. CASE \E b \in DOMAIN old : Covers(old[b], p)
    <3>1. PICK b \in DOMAIN old : Covers(old[b], p)
      BY <2>1
    <3>2. Covers(grown[b], p)
      <4>1. p \in Points /\ old[b] \in Points /\ grown[b] \in Points /\ Grows(old[b], grown[b])
        BY <1>3 DEF Noted
      <4> QED  BY <3>1, <4>1, CoverGrows
    <3> QED  BY <1>1, <1>3, <3>2 DEF Accounted
  <2>2. CASE \E k \in DOMAIN acc.rest : Restates(acc.rest[k], p)
    BY <1>1, <2>2 DEF Accounted
  <2> QED  BY <1>8, <2>1, <2>2 DEF Accounted
<1> QED  BY <1>5, <1>7, <1>8 DEF new, grown, mark

\* One point of the base pass.
LEMMA BaseStep ==
    ASSUME NEW lon \in Nat, NEW acc \in Merges, Clear(lon, acc), NEW poi \in Noted, IsBase(poi) => Accounted(acc, poi)
    PROVE  /\ Clear(lon, MergeIntoBase(lon, acc, poi))
           /\ Accounted(MergeIntoBase(lon, acc, poi), poi)
           /\ \A p \in Noted : Accounted(acc, p) => Accounted(MergeIntoBase(lon, acc, poi), p)
<1>1. CASE IsBase(poi) /\ MergeIntoBase(lon, acc, poi) = acc
  BY <1>1
<1>2. CASE /\ ~IsBase(poi) /\ poi.source \in Merging
           /\ \E i \in DOMAIN acc.base :
                /\ SameFeature(acc.base[i], poi, RadiusFor(poi.source))
                /\ MergeIntoBase(lon, acc, poi) =
                     [base |-> [acc.base EXCEPT ![i] = Corroborated(acc.base[i], poi)],
                      rest |-> acc.rest]
  <2>1. PICK i \in DOMAIN acc.base :
          /\ SameFeature(acc.base[i], poi, RadiusFor(poi.source))
          /\ MergeIntoBase(lon, acc, poi) =
               [base |-> [acc.base EXCEPT ![i] = Corroborated(acc.base[i], poi)],
                rest |-> acc.rest]
    BY <1>2
  <2> QED  BY <1>2, <2>1, BaseGrows
<1>3. CASE /\ ~IsBase(poi) /\ poi.source \in Merging
           /\ \A i \in DOMAIN acc.base : ~Twins(lon, acc.base[i], poi)
           /\ MergeIntoBase(lon, acc, poi) =
                [base |-> acc.base,
                 rest |-> Append(acc.rest, [poi EXCEPT !.sources = <<poi.source>>])]
  <2> DEFINE mark == [poi EXCEPT !.sources = <<poi.source>>]
  <2>1. mark \in Noted /\ Restates(mark, poi)
    BY TaggedStays
  <2>2. mark.sources = <<poi.source>>
    BY DEF Noted, Points
  <2>3. Contains(mark.sources, poi.source)
    BY <2>2 DEF Contains
  <2>4. MergeIntoBase(lon, acc, poi) = [base |-> acc.base, rest |-> Append(acc.rest, mark)]
    BY <1>3
  <2> HIDE DEF mark
  <2> DEFINE new == [base |-> acc.base, rest |-> Append(acc.rest, mark)]
  <2>5. /\ Clear(lon, new) /\ Accounted(new, poi)
        /\ \A p \in Noted : Accounted(acc, p) => Accounted(new, p)
    BY <1>3, <2>1, <2>3, RestGrows
  <2> HIDE DEF new
  <2> QED  BY <2>4, <2>5 DEF new
<1>4. CASE /\ ~IsBase(poi) /\ poi.source \notin Merging
           /\ MergeIntoBase(lon, acc, poi) = [base |-> acc.base, rest |-> Append(acc.rest, poi)]
  <2>1. Restates(poi, poi)
    BY DEF Restates
  <2> DEFINE new == [base |-> acc.base, rest |-> Append(acc.rest, poi)]
  <2>2. /\ Clear(lon, new) /\ Accounted(new, poi)
        /\ \A p \in Noted : Accounted(acc, p) => Accounted(new, p)
    BY <1>4, <2>1, RestGrows
  <2> HIDE DEF new
  <2> QED  BY <1>4, <2>2 DEF new
<1> QED  BY <1>1, <1>2, <1>3, <1>4, MergeOutcomes

\* After the base pass every point is accounted for.
LEMMA BasePassAccounts ==
    ASSUME NEW lon \in Nat, NEW pois \in Seq(Noted)
    PROVE  LET merged == BasePass(lon, pois)
           IN  /\ merged \in Merges /\ Clear(lon, merged)
               /\ \A j \in DOMAIN pois : Accounted(merged, pois[j])
<1> DEFINE n == Len(pois)
           base == FoldLeft(Seeded, <<>>, pois)
           start == [base |-> base, rest |-> <<>>]
<1>1. n \in Nat /\ DOMAIN pois = 1 .. n /\ \A k \in 1 .. n : pois[k] \in Noted
  OBVIOUS
<1>2. /\ base \in Seq(Noted)
      /\ \A i \in DOMAIN base : base[i].source = Base
      /\ \A j \in DOMAIN pois : IsBase(pois[j]) =>
           \E i \in DOMAIN base : Restates(base[i], pois[j])
  BY EveryBaseIsSeeded
<1> HIDE DEF base
<1>3. start \in Merges /\ Clear(lon, start)
  BY <1>2 DEF Merges, Clear
<1>4. ASSUME NEW j \in 1 .. n, IsBase(pois[j]) PROVE Accounted(start, pois[j])
  <2>1. PICK i \in DOMAIN base : Restates(base[i], pois[j])
    BY <1>1, <1>2, <1>4
  <2>2. base[i] \in Points /\ pois[j] \in Points
    BY <1>1, <1>2 DEF Noted
  <2>3. Covers(base[i], pois[j])
    BY <2>1, <2>2, RestatingCovers
  <2> QED  BY <2>3 DEF Accounted
<1>5. PICK step \in [0 .. n -> Merges] :
        /\ step[0] = start
        /\ \A k \in 1 .. n : step[k] = MergeIntoBase(lon, step[k - 1], pois[k])
        /\ BasePass(lon, pois) = step[n]
  BY <1>3, MergeTable DEF base
<1> HIDE DEF n, start
<1> DEFINE T == {k \in 0 .. n :
                   /\ Clear(lon, step[k])
                   /\ \A j \in 1 .. n : j <= k \/ IsBase(pois[j]) => Accounted(step[k], pois[j])}
<1>6. ASSUME NEW k \in 1 .. n, k - 1 \in T PROVE k \in T
  <2> DEFINE old == step[k - 1]
             new == step[k]
             poi == pois[k]
  <2>1. k \in 0 .. n /\ k - 1 \in 0 .. n
    BY <1>1
  <2>2. old \in Merges /\ poi \in Noted /\ new = MergeIntoBase(lon, old, poi)
    BY <1>1, <1>5, <2>1
  <2>3. /\ Clear(lon, old)
        /\ \A j \in 1 .. n : j <= k - 1 \/ IsBase(pois[j]) => Accounted(old, pois[j])
    BY <1>6
  <2>4. IsBase(poi) => Accounted(old, poi)
    BY <2>3
  <2> HIDE DEF old, new, T
  <2>5. /\ Clear(lon, new) /\ Accounted(new, poi)
        /\ \A p \in Noted : Accounted(old, p) => Accounted(new, p)
    BY <2>2, <2>3, <2>4, BaseStep
  <2>6. ASSUME NEW j \in 1 .. n, j <= k \/ IsBase(pois[j]) PROVE Accounted(new, pois[j])
    <3>1. CASE j = k
      BY <2>5, <3>1
    <3>2. CASE j # k
      <4>1. j <= k - 1 \/ IsBase(pois[j])
        BY <1>1, <2>6, <3>2
      <4> QED  BY <1>1, <2>3, <2>5, <4>1
    <3> QED  BY <3>1, <3>2
  <2> QED  BY <2>1, <2>5, <2>6 DEF T, new
<1>7. 0 \in T
  <2>1. 0 \in 0 .. n /\ \A j \in 1 .. n : ~(j <= 0)
    BY <1>1
  <2> QED  BY <1>3, <1>4, <1>5, <2>1
<1> HIDE DEF T
<1>8. n \in T
  <2>1. 0 .. n \subseteq T
    BY <1>1, <1>6, <1>7, IntervalInduction
  <2> QED  BY <1>1, <2>1
<1>9. /\ step[n] \in Merges /\ Clear(lon, step[n])
      /\ \A j \in DOMAIN pois : Accounted(step[n], pois[j])
  <2>1. n \in 0 .. n /\ \A j \in 1 .. n : j <= n
    BY <1>1
  <2> QED  BY <1>1, <1>5, <1>8, <2>1 DEF T
<1> QED  BY <1>5, <1>9 DEF start, base

\* No two points of a merging source are one feature.
Single(lon, out) ==
    \A i, j \in DOMAIN out :
        i < j /\ out[j].source \in Merging /\ out[i].source = out[j].source
          => ~Twins(lon, out[i], out[j])

CreditsItself(poi) == poi.source \in Merging => Contains(poi.sources, poi.source)

\* One point of the pass over its own source.
LEMMA SourceStep ==
    ASSUME NEW lon \in Nat, NEW out \in Seq(Noted), NEW poi \in Noted, Single(lon, out),
           \A i \in DOMAIN out : CreditsItself(out[i])
    PROVE  LET new == MergeSameSource(lon, out, poi)
           IN  /\ Single(lon, new)
               /\ \A i \in DOMAIN out : i \in DOMAIN new /\ Grows(out[i], new[i])
               /\ \E i \in DOMAIN new : Covers(new[i], poi)
               /\ \A i \in DOMAIN new : i \in DOMAIN out \/ new[i] = poi
<1> DEFINE new == MergeSameSource(lon, out, poi)
<1>1. \A i \in DOMAIN out : out[i] \in Noted /\ out[i] \in Points /\ Grows(out[i], out[i])
  BY GrowthStartsHere DEF Noted
<1>2. CASE /\ new = Append(out, poi)
           /\ poi.source \in Merging =>
                \A i \in DOMAIN out : out[i].source = poi.source =>
                  ~Twins(lon, out[i], poi)
  <2> HIDE DEF new
  <2>1. /\ DOMAIN out = 1 .. Len(out) /\ Len(out) \in Nat
        /\ DOMAIN new = 1 .. (Len(out) + 1)
        /\ \A i \in DOMAIN out : i \in DOMAIN new /\ new[i] = out[i]
        /\ Len(out) + 1 \in DOMAIN new /\ new[Len(out) + 1] = poi
        /\ \A i \in DOMAIN new : i \in DOMAIN out \/ i = Len(out) + 1
    BY <1>2, AppendFacts
  <2>2. ASSUME NEW i \in DOMAIN new, NEW j \in DOMAIN new, i < j,
               new[j].source \in Merging, new[i].source = new[j].source
        PROVE  ~Twins(lon, new[i], new[j])
    <3>1. i \in DOMAIN out /\ new[i] = out[i]
      BY <2>1, <2>2
    <3>2. CASE j \in DOMAIN out
      BY <2>1, <2>2, <3>1, <3>2 DEF Single
    <3>3. CASE j = Len(out) + 1
      BY <1>2, <2>1, <2>2, <3>1, <3>3
    <3> QED  BY <2>1, <3>2, <3>3
  <2>3. Single(lon, new)
    BY <2>2 DEF Single
  <2>4. Covers(poi, poi)
    BY RestatingCovers DEF Restates, Noted
  <2> QED  BY <1>1, <2>1, <2>3, <2>4 DEF new
<1>3. CASE /\ poi.source \in Merging
           /\ \E i \in DOMAIN out :
                /\ out[i].source = poi.source
                /\ SameFeature(out[i], poi, RadiusFor(poi.source))
                /\ new = [out EXCEPT ![i] = Lowered(out[i], poi)]
  <2>1. PICK i \in DOMAIN out :
          /\ out[i].source = poi.source
          /\ SameFeature(out[i], poi, RadiusFor(poi.source))
          /\ new = [out EXCEPT ![i] = Lowered(out[i], poi)]
    BY <1>3
  <2> DEFINE mark == Lowered(out[i], poi)
  <2>2. mark \in Noted /\ Grows(out[i], mark) /\ AtLeast(mark.clearance, poi.clearance)
    BY <1>1, LoweredStays
  <2>3. new = [out EXCEPT ![i] = mark]
    BY <2>1
  <2> HIDE DEF mark, new
  <2>4. /\ DOMAIN new = DOMAIN out /\ new[i] = mark
        /\ \A k \in DOMAIN out : k # i => new[k] = out[k]
    BY <2>3
  <2>5. \A k \in DOMAIN out : Grows(out[k], new[k])
    BY <1>1, <2>2, <2>4
  <2>6. ASSUME NEW k \in DOMAIN new, NEW l \in DOMAIN new, k < l,
               new[l].source \in Merging, new[k].source = new[l].source
        PROVE  ~Twins(lon, new[k], new[l])
    <3>1. /\ new[k].source = out[k].source /\ new[k].at = out[k].at /\ new[k].type = out[k].type
          /\ new[l].source = out[l].source /\ new[l].at = out[l].at /\ new[l].type = out[l].type
      BY <2>4, <2>5 DEF Grows
    <3>2. ~Twins(lon, out[k], out[l])
      BY <2>4, <2>6, <3>1 DEF Single
    <3> QED  BY <3>1, <3>2, TwinsOfTheSame
  <2>7. Single(lon, new)
    BY <2>6 DEF Single
  <2>8. SameFeature(mark, poi, RadiusFor(poi.source)) /\ Contains(mark.sources, poi.source)
    <3>1. Contains(out[i].sources, poi.source)
      BY <1>3, <2>1 DEF CreditsItself
    <3> QED  BY <2>1, <2>2, <3>1 DEF Grows, SameFeature, Apart, Eastward
  <2>9. Covers(new[i], poi)
    BY <1>3, <2>2, <2>4, <2>8 DEF Covers
  <2> QED  BY <2>4, <2>5, <2>7, <2>9 DEF new
<1> HIDE DEF new
<1>4. \/ /\ new = Append(out, poi)
         /\ poi.source \in Merging =>
              \A i \in DOMAIN out : out[i].source = poi.source => ~Twins(lon, out[i], poi)
      \/ /\ poi.source \in Merging
         /\ \E i \in DOMAIN out :
              /\ out[i].source = poi.source
              /\ SameFeature(out[i], poi, RadiusFor(poi.source))
              /\ new = [out EXCEPT ![i] = Lowered(out[i], poi)]
  BY SourceOutcomes DEF new
<1> QED  BY <1>2, <1>3, <1>4 DEF new

\* After the pass over its own source a point is covered, and no twin is left.
LEMMA SourcePassCovers ==
    ASSUME NEW lon \in Nat, NEW rest \in Seq(Noted), \A j \in DOMAIN rest : CreditsItself(rest[j])
    PROVE  LET out == SourcePass(lon, rest)
           IN  /\ out \in Seq(Noted) /\ Single(lon, out)
               /\ \A i \in DOMAIN out : \E j \in DOMAIN rest : Grows(rest[j], out[i])
               /\ \A j \in DOMAIN rest : \E i \in DOMAIN out : Covers(out[i], rest[j])
<1> DEFINE n == Len(rest)
<1>1. /\ n \in Nat /\ DOMAIN rest = 1 .. n
      /\ \A k \in 1 .. n : rest[k] \in Noted /\ rest[k] \in Points
  BY DEF Noted
<1>2. PICK step \in [0 .. n -> Seq(Noted)] :
        /\ step[0] = <<>>
        /\ \A k \in 1 .. n : step[k] = MergeSameSource(lon, step[k - 1], rest[k])
        /\ SourcePass(lon, rest) = step[n]
  BY SourceTable
<1> HIDE DEF n
<1> DEFINE T == {k \in 0 .. n :
                   /\ Single(lon, step[k])
                   /\ \A i \in DOMAIN step[k] : \E j \in 1 .. n : Grows(rest[j], step[k][i])
                   /\ \A j \in 1 .. k : \E i \in DOMAIN step[k] : Covers(step[k][i], rest[j])}
<1>3. ASSUME NEW k \in 1 .. n, k - 1 \in T PROVE k \in T
  <2> DEFINE old == step[k - 1]
             new == step[k]
             poi == rest[k]
  <2>1. k \in 0 .. n /\ k - 1 \in 0 .. n /\ \A j \in 1 .. k : j \in 1 .. n /\ (j \in 1 .. (k - 1) \/ j = k)
    BY <1>1
  <2>2. /\ old \in Seq(Noted) /\ new \in Seq(Noted) /\ poi \in Noted
        /\ new = MergeSameSource(lon, old, poi)
    BY <1>1, <1>2, <2>1
  <2>3. /\ Single(lon, old)
        /\ \A i \in DOMAIN old : \E j \in 1 .. n : Grows(rest[j], old[i])
        /\ \A j \in 1 .. (k - 1) : \E i \in DOMAIN old : Covers(old[i], rest[j])
    BY <1>3
  <2> HIDE DEF old, new, T
  <2>4. ASSUME NEW i \in DOMAIN old PROVE CreditsItself(old[i])
    <3>1. PICK j \in 1 .. n : Grows(rest[j], old[i])
      BY <2>3
    <3> QED  BY <1>1, <3>1 DEF Grows, CreditsItself
  <2>5. /\ Single(lon, new)
        /\ \A i \in DOMAIN old : i \in DOMAIN new /\ Grows(old[i], new[i])
        /\ \E i \in DOMAIN new : Covers(new[i], poi)
        /\ \A i \in DOMAIN new : i \in DOMAIN old \/ new[i] = poi
    BY <2>2, <2>3, <2>4, SourceStep
  <2>6. /\ \A i \in DOMAIN old : old[i] \in Points
        /\ \A i \in DOMAIN new : new[i] \in Points
    BY <2>2 DEF Noted
  <2>7. ASSUME NEW i \in DOMAIN new PROVE \E j \in 1 .. n : Grows(rest[j], new[i])
    <3>1. CASE i \in DOMAIN old
      <4>1. PICK j \in 1 .. n : Grows(rest[j], old[i])
        BY <2>3, <3>1
      <4>2. Grows(rest[j], new[i])
        BY <1>1, <2>5, <2>6, <3>1, <4>1, GrowthChains
      <4> QED  BY <4>2
    <3>2. CASE new[i] = poi
      <4>1. Grows(rest[k], new[i])
        BY <1>1, <3>2, GrowthStartsHere
      <4> QED  BY <4>1
    <3> QED  BY <2>5, <3>1, <3>2
  <2>8. ASSUME NEW j \in 1 .. k PROVE \E i \in DOMAIN new : Covers(new[i], rest[j])
    <3>1. CASE j = k
      BY <2>5, <3>1
    <3>2. CASE j # k
      <4>1. PICK i \in DOMAIN old : Covers(old[i], rest[j])
        BY <2>1, <2>3, <3>2
      <4>2. i \in DOMAIN new /\ Covers(new[i], rest[j])
        <5>1. rest[j] \in Points
          BY <1>1, <2>1
        <5> QED  BY <2>5, <2>6, <4>1, <5>1, CoverGrows
      <4> QED  BY <4>2
    <3> QED  BY <3>1, <3>2
  <2> QED  BY <2>1, <2>5, <2>7, <2>8 DEF T, new
<1>4. 0 \in T
  <2>1. 0 \in 0 .. n /\ 1 .. 0 = {} /\ DOMAIN step[0] = {}
    BY <1>1, <1>2
  <2> QED  BY <2>1 DEF Single
<1> HIDE DEF T
<1>5. n \in T
  <2>1. 0 .. n \subseteq T
    BY <1>1, <1>3, <1>4, IntervalInduction
  <2> QED  BY <1>1, <2>1
<1>6. n \in 0 .. n
  BY <1>1
<1> QED  BY <1>1, <1>2, <1>5, <1>6 DEF T

\* The merge as a whole.
LEMMA MergeLosesNothing ==
    ASSUME NEW pois \in Seq(Noted)
    PROVE  LET list == DedupeAgainstBase(pois)
           IN  /\ list \in Seq(Noted) /\ NoTwins(LonScale(pois), list)
               /\ \A j \in DOMAIN pois : \E i \in DOMAIN list : Covers(list[i], pois[j])
<1> DEFINE lon == LonScale(pois)
           merged == BasePass(lon, pois)
<1>0. lon \in Nat
  BY CosineIsNat
<1>2. DedupeAgainstBase(pois) = merged.base \o SourcePass(lon, merged.rest)
  BY DEF DedupeAgainstBase
<1> HIDE DEF lon
<1>1. /\ merged \in Merges /\ Clear(lon, merged)
      /\ \A j \in DOMAIN pois : Accounted(merged, pois[j])
  BY <1>0, BasePassAccounts
<1> HIDE DEF merged
<1> DEFINE base == merged.base
           rest == merged.rest
           out == SourcePass(lon, rest)
           list == base \o out
<1>3. base \in Seq(Noted) /\ rest \in Seq(Noted)
  BY <1>1 DEF Merges
<1>4. \A j \in DOMAIN rest : CreditsItself(rest[j])
  BY <1>1 DEF Clear, CreditsItself
<1> HIDE DEF rest
<1>5. /\ out \in Seq(Noted) /\ Single(lon, out)
      /\ \A i \in DOMAIN out : \E j \in DOMAIN rest : Grows(rest[j], out[i])
      /\ \A j \in DOMAIN rest : \E i \in DOMAIN out : Covers(out[i], rest[j])
  BY <1>0, <1>3, <1>4, SourcePassCovers
<1> HIDE DEF base, out
<1>6. /\ list \in Seq(Noted)
      /\ DOMAIN list = 1 .. (Len(base) + Len(out)) /\ Len(base) \in Nat /\ Len(out) \in Nat
      /\ DOMAIN base = 1 .. Len(base) /\ DOMAIN out = 1 .. Len(out)
      /\ \A i \in 1 .. Len(base) : list[i] = base[i]
      /\ \A i \in 1 .. Len(out) : list[Len(base) + i] = out[i]
  BY <1>3, <1>5
<1> HIDE DEF list
<1>7. ASSUME NEW i \in DOMAIN list, ~(i \in 1 .. Len(base))
      PROVE  i - Len(base) \in DOMAIN out /\ list[i] = out[i - Len(base)]
  <2>1. i - Len(base) \in 1 .. Len(out) /\ Len(base) + (i - Len(base)) = i
    BY <1>6, <1>7
  <2> QED  BY <1>6, <2>1
<1>8. \A i \in DOMAIN base : base[i].source = Base
  BY <1>1 DEF Clear, base
<1>9. ASSUME NEW k \in DOMAIN out
      PROVE  /\ out[k].source # Base
             /\ out[k].source \in Merging => \A b \in DOMAIN base :
                  ~Twins(lon, base[b], out[k])
  <2>1. PICK j \in DOMAIN rest : Grows(rest[j], out[k])
    BY <1>5
  <2>2. out[k].source = rest[j].source /\ out[k].at = rest[j].at /\ out[k].type = rest[j].type
    BY <2>1 DEF Grows
  <2>3. /\ rest[j].source # Base
        /\ rest[j].source \in Merging => \A b \in DOMAIN base :
             ~Twins(lon, base[b], rest[j])
    BY <1>1 DEF Clear, base, rest
  <2> QED  BY <2>2, <2>3, TwinsOfTheSame
<1>10. NoTwins(lon, list)
  <2> SUFFICES ASSUME NEW i \in DOMAIN list, NEW j \in DOMAIN list, i < j,
                      list[j].source \in Merging, list[i].source \in {Base, list[j].source}
               PROVE  ~Twins(lon, list[i], list[j])
    BY DEF NoTwins
  <2>1. ~(j \in 1 .. Len(base))
    BY <1>6, <1>8, BaseIsNotMerged
  <2>2. j - Len(base) \in DOMAIN out /\ list[j] = out[j - Len(base)]
    BY <1>7, <2>1
  <2>3. CASE i \in 1 .. Len(base)
    BY <1>6, <1>9, <2>2, <2>3
  <2>4. CASE ~(i \in 1 .. Len(base))
    <3>1. i - Len(base) \in DOMAIN out /\ list[i] = out[i - Len(base)]
      BY <1>7, <2>4
    <3>2. i - Len(base) < j - Len(base)
      BY <1>6
    <3>3. list[i].source = list[j].source
      BY <1>9, <3>1
    <3> QED  BY <1>5, <2>2, <3>1, <3>2, <3>3 DEF Single
  <2> QED  BY <2>3, <2>4
<1>11. ASSUME NEW j \in DOMAIN pois PROVE \E i \in DOMAIN list : Covers(list[i], pois[j])
  <2>1. CASE \E b \in DOMAIN base : Covers(base[b], pois[j])
    <3>1. PICK b \in DOMAIN base : Covers(base[b], pois[j])
      BY <2>1
    <3>2. b \in DOMAIN list /\ list[b] = base[b]
      BY <1>6
    <3> QED  BY <3>1, <3>2
  <2>2. CASE \E r \in DOMAIN rest : Restates(rest[r], pois[j])
    <3>1. PICK r \in DOMAIN rest : Restates(rest[r], pois[j])
      BY <2>2
    <3>2. PICK k \in DOMAIN out : Covers(out[k], rest[r])
      BY <1>5
    <3>3. Len(base) + k \in DOMAIN list /\ list[Len(base) + k] = out[k]
      BY <1>6
    <3>4. pois[j] \in Points /\ rest[r] \in Points /\ out[k] \in Points
      BY <1>3, <1>5 DEF Noted
    <3>5. Covers(out[k], pois[j])
      BY <3>1, <3>2, <3>4, CoverOfRestated
    <3> QED  BY <3>3, <3>5
  <2> QED  BY <1>1, <2>1, <2>2 DEF Accounted, base, rest
<1> QED  BY <1>2, <1>6, <1>10, <1>11 DEF list, out, rest, base, lon
-----------------------------------------------------------------------------
(* The notes of a list. *)

\* A prefixed id splits into its prefix and the raw id, separators and all.
LEMMA PrefixSplitsOff ==
    ASSUME NEW s \in Slugs, NEW id \in Seq(Tokens)
    PROVE  /\ Prefixed(s, id) \in Seq(Tokens)
           /\ SplitOnFirstSeparator(Prefixed(s, id), "-") = [prefix |-> <<s>>, remainder |-> id]
<1> DEFINE long == Prefixed(s, id)
           at == {i \in DOMAIN long : long[i] = "-"}
<1>1. s \in Tokens /\ s # "-"
  <2>1. PICK k \in DOMAIN SourceIds : s = SourceIds[k]
    BY DEF Slugs, ToSet
  <2> QED  BY <2>1, SlugsHaveNoSeparator
<1>2. /\ long \in Seq(Tokens) /\ Len(long) = Len(id) + 2 /\ Len(id) \in Nat
      /\ long[1] = s /\ long[2] = "-"
      /\ \A i \in 1 .. Len(id) : long[i + 2] = id[i]
  <2> DEFINE head == <<s, "-">>
  <2>1. head \in Seq(Tokens) /\ Len(head) = 2 /\ head[1] = s /\ head[2] = "-"
    <3> DEFINE dash == "-"
    <3>1. dash \in Tokens /\ s \in Tokens
      BY <1>1, SlugsHaveNoSeparator
    <3> HIDE DEF dash
    <3>2. /\ <<s, dash>> \in Seq(Tokens) /\ Len(<<s, dash>>) = 2
          /\ <<s, dash>>[1] = s /\ <<s, dash>>[2] = dash
      BY <3>1
    <3> QED  BY <3>2 DEF dash
  <2>2. long = head \o id
    BY DEF Prefixed
  <2> HIDE DEF head, long
  <2>3. /\ long \in Seq(Tokens) /\ Len(long) = 2 + Len(id) /\ Len(id) \in Nat
        /\ \A i \in 1 .. (2 + Len(id)) : long[i] = IF i <= 2 THEN head[i] ELSE id[i - 2]
    <3>1. /\ head \o id \in Seq(Tokens) /\ Len(head \o id) = Len(head) + Len(id)
          /\ \A i \in 1 .. (Len(head) + Len(id)) :
               (head \o id)[i] = IF i <= Len(head) THEN head[i] ELSE id[i - Len(head)]
      BY <2>1, ConcatProperties
    <3>2. Len(id) \in Nat
      OBVIOUS
    <3> QED  BY <2>1, <2>2, <3>1, <3>2
  <2>4. long[1] = s /\ long[2] = "-"
    BY <2>1, <2>3
  <2>5. ASSUME NEW i \in 1 .. Len(id) PROVE long[i + 2] = id[i]
    <3>1. i + 2 \in 1 .. (2 + Len(id)) /\ ~(i + 2 <= 2) /\ (i + 2) - 2 = i
      BY <2>3
    <3> QED  BY <2>3, <3>1
  <2> QED  BY <2>3, <2>4, <2>5
<1> HIDE DEF long
<1>3. /\ DOMAIN long = 1 .. (Len(id) + 2) /\ 2 \in at /\ 1 \notin at
      /\ \A i \in at : 2 <= i
  BY <1>1, <1>2
<1>4. Min(at) = 2
  <2> HIDE DEF at
  <2>1. \A x \in at : x \in Nat
    BY <1>2, <1>3 DEF at
  <2>2. Min(at) \in at /\ \A y \in at : Min(at) <= y
    BY <1>3 DEF Min
  <2> QED  BY <1>3, <2>1, <2>2
<1>5. SubSeq(long, 1, 1) = <<s>>
  <2> DEFINE head == SubSeq(long, 1, 1)
  <2>1. 1 \in 1 .. Len(long)
    BY <1>2
  <2>2. head \in Seq(Tokens) /\ Len(head) = 1 /\ head[1] = s
    BY <1>2, <2>1
  <2> HIDE DEF head
  <2>3. <<s>> \in Seq(Tokens) /\ Len(<<s>>) = 1 /\ <<s>>[1] = s
    BY <1>1
  <2>4. \A i \in 1 .. Len(head) : head[i] = <<s>>[i]
    BY <2>2, <2>3
  <2>5. head = <<s>>
    BY <2>2, <2>3, <2>4, SeqEqual
  <2> QED  BY <2>5 DEF head
<1>6. SubSeq(long, 3, Len(long)) = id
  <2> DEFINE rest == SubSeq(long, 3, Len(long))
  <2>1. rest \in Seq(Tokens) /\ Len(rest) = Len(id)
    BY <1>2
  <2>2. \A i \in 1 .. Len(id) : rest[i] = id[i]
    BY <1>2
  <2> HIDE DEF rest
  <2>3. rest = id
    BY <2>1, <2>2, SeqEqual
  <2> QED  BY <2>3 DEF rest
<1>7. SplitOnFirstSeparator(long, "-") =
        [prefix |-> SubSeq(long, 1, 1), remainder |-> SubSeq(long, 3, Len(long))]
  <2>1. SplitOnFirstSeparator(long, "-") =
          IF at = {} \/ 1 \in at THEN None
          ELSE [prefix |-> SubSeq(long, 1, Min(at) - 1),
                remainder |-> SubSeq(long, Min(at) + 1, Len(long))]
    BY DEF SplitOnFirstSeparator
  <2> HIDE DEF at
  <2>2. at # {} /\ 2 - 1 = 1 /\ 2 + 1 = 3
    BY <1>3
  <2> QED  BY <1>3, <1>4, <2>1, <2>2
<1> QED  BY <1>2, <1>5, <1>6, <1>7 DEF long

\* What a source gives, with its prefix, is a listed point.
LEMMA CloneIsNoted ==
    ASSUME held \in Feeds, NEW source \in Slugs, NEW i \in DOMAIN held[source]
    PROVE  [held[source][i] EXCEPT !.id = Prefixed(source, @)] \in Noted
<1> DEFINE poi == held[source][i]
           clone == [poi EXCEPT !.id = Prefixed(source, @)]
<1>1. held[source] \in Seq(Points) /\ poi.source = source
  BY FeedsAreTyped
<1>2. poi \in Points
  BY <1>1
<1>3. Prefixed(source, poi.id) \in Seq(Tokens)
  BY <1>2, PrefixSplitsOff DEF Points
<1> HIDE DEF poi
<1>4. /\ clone \in Points /\ clone.source = source /\ clone.id = Prefixed(source, poi.id)
      /\ clone.at = poi.at /\ clone.type = poi.type
  BY <1>1, <1>2, <1>3 DEF Points
<1> HIDE DEF clone
<1> QED  BY <1>4 DEF Noted, poi, clone

\* The contribution of a source.
LEMMA ContributionIsNoted ==
    ASSUME held \in Feeds, feed = held, NEW source \in Slugs, NEW box
    PROVE  Contribution(source, box) \in Seq(Noted)
<1> DEFINE seq == feed[source]
           n == Len(seq)
           Pushed(merged, poi) ==
               IF Inside(box, poi) THEN Append(merged, [poi EXCEPT !.id = Prefixed(source, @)])
               ELSE merged
           f == [pair \in Seq(Noted) \X (1 .. n) |-> Pushed(pair[1], seq[pair[2]])]
           Computes(iter) == iter = [S \in SUBSET (1 .. n) |->
               IF S = {} THEN <<>> ELSE Pushed(iter[S \ {Max(S)}], seq[Max(S)])]
           iter == CHOOSE iter : Computes(iter)
<1>1. /\ n \in Nat /\ DOMAIN seq = 1 .. n
      /\ \A k \in 1 .. n : [seq[k] EXCEPT !.id = Prefixed(source, @)] \in Noted
  <2>1. seq \in Seq(Points)
    BY FeedsAreTyped
  <2>2. n \in Nat /\ DOMAIN seq = 1 .. n
    BY <2>1
  <2> QED  BY <2>2, CloneIsNoted
<1>2. Contribution(source, box) = FoldLeft(Pushed, <<>>, seq)
  BY DEF Contribution
<1> HIDE DEF n, seq
<1>3. FoldLeft(Pushed, <<>>, seq) = iter[1 .. n]
  BY <1>1, Zenon DEF FoldLeft, MapThenFoldSet
<1>4. <<>> \in Seq(Noted) /\ \A a \in Seq(Noted), k \in 1 .. n : Pushed(a, seq[k]) \in Seq(Noted)
  BY <1>1
<1> HIDE DEF Pushed
<1>5. PICK table \in [SUBSET (1 .. n) -> Seq(Noted)] : IsTable(table, n, <<>>, f)
  <2>1. \A a \in Seq(Noted), k \in 1 .. n : f[<<a, k>>] \in Seq(Noted)
    BY <1>4
  <2> HIDE DEF f
  <2> QED  BY <1>1, <1>4, <2>1, FoldTable
<1>6. Computes(table)
  <2> SUFFICES ASSUME NEW S \in SUBSET (1 .. n), S # {}
               PROVE  table[S] = Pushed(table[S \ {Max(S)}], seq[Max(S)])
    BY <1>5 DEF IsTable
  <2>1. Max(S) \in 1 .. n /\ S \ {Max(S)} \in SUBSET (1 .. n)
    BY <1>1, MaxOfIndices
  <2>2. table[S] = f[<<table[S \ {Max(S)}], Max(S)>>]
    BY <1>5 DEF IsTable
  <2> QED  BY <1>1, <2>1, <2>2
<1>7. Computes(iter)
  BY <1>6, Zenon
<1> HIDE DEF iter
<1>8. iter[1 .. 0] \in Seq(Noted)
  BY <1>4, <1>7
<1>9. ASSUME NEW k \in 1 .. n, iter[1 .. (k - 1)] \in Seq(Noted) PROVE iter[1 .. k] \in Seq(Noted)
  <2>1. /\ 1 .. k \in SUBSET (1 .. n) /\ 1 .. k # {}
        /\ Max(1 .. k) = k /\ (1 .. k) \ {Max(1 .. k)} = 1 .. (k - 1)
    BY <1>1, InitialSegment
  <2>2. iter[1 .. k] = Pushed(iter[(1 .. k) \ {Max(1 .. k)}], seq[Max(1 .. k)])
    BY <1>7, <2>1
  <2>3. iter[1 .. k] = Pushed(iter[1 .. (k - 1)], seq[k])
    BY <2>1, <2>2, Zenon
  <2> DEFINE before == iter[1 .. (k - 1)]
  <2>4. before \in Seq(Noted)
    BY <1>9
  <2> HIDE DEF before
  <2>5. Pushed(before, seq[k]) \in Seq(Noted)
    BY <1>4, <2>4
  <2> QED  BY <2>3, <2>5 DEF before
<1>10. iter[1 .. n] \in Seq(Noted)
  BY <1>1, <1>8, <1>9, ChainStays
<1> QED  BY <1>2, <1>3, <1>10

\* What all sources contribute.
LEMMA MergedIsNoted ==
    ASSUME held \in Feeds, feed = held, NEW box
    PROVE  Merged(box) \in Seq(Noted)
<1> DEFINE given == [i \in DOMAIN SourceIds |->
                       IF SourceIds[i] \in up THEN Contribution(SourceIds[i], box) ELSE <<>>]
<1>1. DOMAIN SourceIds = 1 .. Len(SourceIds) /\ Len(SourceIds) \in Nat
  BY SlugsHaveNoSeparator
<1>2. \A i \in DOMAIN SourceIds : SourceIds[i] \in Slugs
  BY DEF Slugs, ToSet
<1>3. \A i \in DOMAIN SourceIds : given[i] \in Seq(Noted)
  BY <1>2, ContributionIsNoted
<1>4. given \in Seq(Seq(Noted))
  BY <1>1, <1>3
<1>5. Merged(box) = FlattenSeq(given)
  BY DEF Merged
<1> HIDE DEF given
<1> QED  BY <1>4, <1>5, FlattenedIsSeq

\* The id of a listed point leads back to the source's own point.
LEMMA NotesLeadBack ==
    ASSUME NEW n \in Noted
    PROVE  \E i \in DOMAIN held[n.source] :
             LET poi == held[n.source][i]
             IN  /\ n.source \in Slugs
                 /\ n.id = Prefixed(n.source, poi.id) /\ n.at = poi.at /\ n.type = poi.type
BY DEF Noted, Points

\* Points of one id are in one place.
LEMMA IdsNamePoints ==
    ASSUME held \in Feeds, NEW n \in Noted, NEW m \in Noted, n.id = m.id
    PROVE  n.at = m.at
<1>1. PICK i \in DOMAIN held[n.source] :
        /\ n.source \in Slugs /\ n.id = Prefixed(n.source, held[n.source][i].id)
        /\ n.at = held[n.source][i].at
  BY NotesLeadBack
<1>2. PICK j \in DOMAIN held[m.source] :
        /\ m.source \in Slugs /\ m.id = Prefixed(m.source, held[m.source][j].id)
        /\ m.at = held[m.source][j].at
  BY NotesLeadBack
<1>3. held[n.source] \in Seq(Points) /\ held[m.source] \in Seq(Points)
  BY <1>1, <1>2, FeedsAreTyped
<1>4. held[n.source][i].id \in Seq(Tokens) /\ held[m.source][j].id \in Seq(Tokens)
  <2>1. held[n.source][i] \in Points /\ held[m.source][j] \in Points
    BY <1>3
  <2> QED  BY <2>1 DEF Points
<1>5. /\ SplitOnFirstSeparator(n.id, "-") = [prefix |-> <<n.source>>, remainder |-> held[n.source][i].id]
      /\ SplitOnFirstSeparator(n.id, "-") = [prefix |-> <<m.source>>, remainder |-> held[m.source][j].id]
  BY <1>1, <1>2, <1>4, PrefixSplitsOff
<1>6. <<n.source>> = <<m.source>> /\ held[n.source][i].id = held[m.source][j].id
  BY <1>5
<1>7. n.source = m.source
  BY <1>6
<1>8. i = j
  BY <1>1, <1>6, <1>7, FeedsAreTyped
<1> QED  BY <1>1, <1>2, <1>7, <1>8

\* What covers a point stands for it.
LEMMA CoversStands ==
    ASSUME held \in Feeds, NEW poi \in Noted, NEW survivor \in Noted, Covers(survivor, poi)
    PROVE  Stands(poi, survivor)
<1>1. survivor.id = poi.id => survivor.at = poi.at
  BY IdsNamePoints
<1> QED  BY <1>1 DEF Covers, Stands

\* The sources' lists stay as they were cached, and the notes are listed points.
NotesInv ==
    /\ held \in Feeds /\ feed = held
    /\ notes \in Seq(Noted)

\* What a list is, of whichever sources are up.
LEMMA ListIsNoted ==
    ASSUME held \in Feeds, feed = held, NEW box
    PROVE  /\ Listed(box) \in Seq(Noted) /\ NoTwins(LonScale(Merged(box)), Listed(box))
           /\ \A j \in DOMAIN Merged(box) : \E i \in DOMAIN Listed(box) :
                Covers(Listed(box)[i], Merged(box)[j])
<1> DEFINE pois == Merged(box)
<1>1. pois \in Seq(Noted)
  BY MergedIsNoted
<1> HIDE DEF pois
<1>2. Listed(box) = IF Merging # {} THEN DedupeAgainstBase(pois) ELSE pois
  BY DEF Listed, pois
<1>3. CASE Merging # {}
  <2>1. Listed(box) = DedupeAgainstBase(pois)
    BY <1>2, <1>3
  <2> QED  BY <1>1, <2>1, MergeLosesNothing DEF pois
<1>4. CASE Merging = {}
  <2>1. Listed(box) = pois
    BY <1>2, <1>4
  <2>2. NoTwins(LonScale(pois), pois)
    BY <1>4 DEF NoTwins
  <2>3. ASSUME NEW j \in DOMAIN pois PROVE Covers(pois[j], pois[j])
    <3>1. pois[j] \in Points
      BY <1>1 DEF Noted
    <3> QED  BY <3>1, RestatingCovers DEF Restates
  <2> QED  BY <1>1, <2>1, <2>2, <2>3 DEF pois
<1> QED  BY <1>3, <1>4

\* Before the first list there are no notes.
LEMMA NotesInitKeepsInv == NotesInit => NotesInv
<1> SUFFICES ASSUME NotesInit PROVE NotesInv
  OBVIOUS
<1>1. notes \in Seq(Noted) /\ DOMAIN notes = {}
  BY DEF NotesInit
<1> QED  BY <1>1 DEF NotesInit, NotesInv

\* Every step keeps the notes listed points.
LEMMA NotesNextKeepsInv == NotesInv /\ [NotesNext]_notesVars => NotesInv'
<1> SUFFICES ASSUME NotesInv, [NotesNext]_notesVars PROVE NotesInv'
  OBVIOUS
<1>1. ASSUME held' = held, feed' = feed, notes' \in Seq(Noted) PROVE NotesInv'
  <2>1. Noted' = Noted
    BY <1>1 DEF Noted
  <2> QED  BY <1>1, <2>1 DEF NotesInv
<1>2. CASE UNCHANGED notesVars
  BY <1>1, <1>2 DEF NotesInv, notesVars
<1>3. ASSUME NEW s \in ToSet(SourceIds), SourceFlips(s) PROVE NotesInv'
  BY <1>1, <1>3 DEF NotesInv, SourceFlips
<1>4. ASSUME NEW query \in RequestQueries, ListResources(query) PROVE NotesInv'
  <2> DEFINE box == ResolveBbox(query)
             list == Listed(box)
  <2>1. list \in Seq(Noted)
    BY ListIsNoted DEF NotesInv
  <2>2. <<>> \in Seq(Noted)
    OBVIOUS
  <2>3. /\ held' = held /\ feed' = feed
        /\ notes' = <<>> \/ notes' = notes \/ notes' = list
    BY <1>4 DEF ListResources, Shared
  <2> HIDE DEF list
  <2> QED  BY <1>1, <2>1, <2>2, <2>3 DEF NotesInv
<1> QED  BY <1>2, <1>3, <1>4 DEF NotesNext

LEMMA NotesInvariance == NotesSpec => []NotesInv
BY NotesInitKeepsInv, NotesNextKeepsInv, PTL DEF NotesSpec

\* A note leads to the details of the point it was listed as.
LEMMA NoteOpens ==
    ASSUME held \in Feeds, NEW n \in Noted, n.source \in up
    PROVE  GetResource(n.id) = BuildNoteResource(n, <<>>)
<1>1. PICK i \in DOMAIN held[n.source] :
        /\ n.source \in Slugs /\ n.id = Prefixed(n.source, held[n.source][i].id)
        /\ n.at = held[n.source][i].at /\ n.type = held[n.source][i].type
  BY NotesLeadBack
<1> DEFINE s == n.source
           poi == held[s][i]
           records == {p \in ToSet(held[s]) : p.id = poi.id}
           record == CHOOSE p \in records : TRUE
<1>2. /\ held[s] \in Seq(Points)
      /\ \A k \in DOMAIN held[s] : held[s][k].source = s
      /\ \A k, l \in DOMAIN held[s] : held[s][k].id = held[s][l].id => k = l
  BY <1>1, FeedsAreTyped
<1>3. poi \in Points /\ poi.id \in Seq(Tokens) /\ poi.source = s
  <2>1. poi \in Points /\ poi.source = s
    BY <1>2
  <2>2. poi.id \in Seq(Tokens)
    BY <2>1 DEF Points
  <2> QED  BY <2>1, <2>2
<1>4. records = {poi}
  BY <1>2 DEF ToSet
<1>5. record = poi
  BY <1>4
<1>6. SourceDetails(s, poi.id) = poi
  BY <1>4, <1>5 DEF SourceDetails
<1> HIDE DEF poi, s
<1> DEFINE split == SplitOnFirstSeparator(n.id, "-")
           routed == {x \in ToSet(SourceIds) : split # None /\ split.prefix = <<x>>}
<1>7. split = [prefix |-> <<s>>, remainder |-> poi.id]
  BY <1>1, <1>3, PrefixSplitsOff DEF s, poi
<1>8. split # None
  <2>1. s \in Tokens
    <3>1. PICK k \in DOMAIN SourceIds : s = SourceIds[k]
      BY <1>1 DEF Slugs, ToSet, s
    <3> QED  BY <3>1, SlugsHaveNoSeparator
  <2>2. split \in Splits
    <3>1. <<s>> \in Seq(Tokens)
      BY <2>1
    <3> DEFINE raw == poi.id
               parts == <<s>>
    <3>2. raw \in Seq(Tokens) /\ parts \in Seq(Tokens) /\ split = [prefix |-> parts, remainder |-> raw]
      BY <1>3, <1>7, <3>1
    <3> HIDE DEF split, raw, parts
    <3> QED  BY <3>2 DEF Splits
  <2> QED  BY <2>2, NoneIsNothing
<1>9. routed = {s}
  <2>1. s \in ToSet(SourceIds)
    BY <1>1 DEF s, Slugs
  <2>2. \A x : <<s>> = <<x>> <=> s = x
    OBVIOUS
  <2> QED  BY <1>7, <1>8, <2>1, <2>2
<1>10. GetDetails(n.id) =
         IF routed = {} THEN None
         ELSE SourceDetails(CHOOSE x \in routed : TRUE, split.remainder)
  BY DEF GetDetails
<1>11. (CHOOSE x \in routed : TRUE) = s /\ split.remainder = poi.id
  BY <1>7, <1>9
<1> HIDE DEF routed, split
<1>12. GetDetails(n.id) = poi
  BY <1>6, <1>9, <1>10, <1>11
<1>13. poi # None
  BY <1>3, NoneIsNothing
<1>14. GetResource(n.id) = BuildNoteResource(poi, <<>>)
  BY <1>12, <1>13 DEF GetResource
<1>15. poi.at = n.at /\ poi.type = n.type /\ poi.source = n.source
  BY <1>1, <1>3 DEF poi, s
<1> QED  BY <1>14, <1>15 DEF BuildNoteResource
-----------------------------------------------------------------------------
\* Whatever was listed, whichever sources fail and recover: while its source answers
\* a note opens, on the point it was listed as, for any sources, slugs, raw ids and
\* points (input-registry.ts:210-223, 246-256).
THEOREM NotesOpen == NotesSpec => []EveryNoteOpens
<1>1. NotesInv => EveryNoteOpens
  <2> SUFFICES ASSUME NotesInv, NEW i \in DOMAIN notes, notes[i].source \in up
               PROVE  GetResource(notes[i].id) = BuildNoteResource(notes[i], <<>>)
    BY DEF EveryNoteOpens
  <2>1. held \in Feeds /\ notes[i] \in Noted
    BY DEF NotesInv
  <2> QED  BY <2>1, NoteOpens
<1> QED  BY <1>1, NotesInvariance, PTL

\* No list holds a second marker of a feature, next to a base point or to another of
\* its own merging source, that the sweep of nine cells can reach on that list's grid:
\* for any points and latitudes, any mix of radii, and whatever the metres to the degree
\* of the distance and of the grid (dedupe-pois.ts:94-121, 231-243).
THEOREM NoDuplicateIsListed == NotesSpec => NoDuplicateLeft
<1>1. NotesInv /\ [NotesNext]_notesVars =>
        [\A query \in RequestQueries :
           notes' # notes /\ ListResources(query) /\ ResolveBbox(query) # None /\ up # {} =>
             NoTwins(LonScale(Merged(ResolveBbox(query))), notes')]_notesVars
  <2> SUFFICES ASSUME NotesInv, NEW query \in RequestQueries, ListResources(query),
                      ResolveBbox(query) # None, up # {}
               PROVE  NoTwins(LonScale(Merged(ResolveBbox(query))), notes')
    OBVIOUS
  <2> DEFINE box == ResolveBbox(query)
             list == Listed(box)
             lon == LonScale(Merged(box))
  <2>1. held \in Feeds /\ feed = held
    BY DEF NotesInv
  <2>2. notes' = list
    BY DEF ListResources
  <2>3. NoTwins(lon, list)
    BY <2>1, ListIsNoted
  <2> HIDE DEF list, lon
  <2>4. NoTwins(lon, notes')
    BY <2>2, <2>3
  <2> QED  BY <2>4 DEF lon
<1> QED  BY <1>1, NotesInvariance, PTL DEF NotesSpec, NoDuplicateLeft

\* Each point a source gave to a list is listed, or credited on a twin of its type
\* that carries no higher clearance, for any points, radii and mix of sources that
\* merge (dedupe-pois.ts:221-328, 338-383).
THEOREM MergingLosesNothing == NotesSpec => NothingIsLost
<1>1. NotesInv /\ [NotesNext]_notesVars =>
        [\A query \in RequestQueries :
           notes' # notes /\ ListResources(query) /\ ResolveBbox(query) # None /\ up # {} =>
             \A poi \in ToSet(Merged(ResolveBbox(query))) :
               \E survivor \in ToSet(notes') : Stands(poi, survivor)]_notesVars
  <2> SUFFICES ASSUME NotesInv, NEW query \in RequestQueries, ListResources(query),
                      ResolveBbox(query) # None, up # {},
                      NEW poi \in ToSet(Merged(ResolveBbox(query)))
               PROVE  \E survivor \in ToSet(notes') : Stands(poi, survivor)
    OBVIOUS
  <2> DEFINE box == ResolveBbox(query)
             list == Listed(box)
             pois == Merged(box)
  <2>1. held \in Feeds /\ feed = held
    BY DEF NotesInv
  <2>2. notes' = list
    BY DEF ListResources
  <2>3. pois \in Seq(Noted)
    BY <2>1, MergedIsNoted
  <2>4. PICK j \in DOMAIN pois : poi = pois[j]
    BY DEF ToSet
  <2>5. list \in Seq(Noted) /\ \E i \in DOMAIN list : Covers(list[i], pois[j])
    BY <2>1, ListIsNoted
  <2> HIDE DEF list, pois
  <2>6. PICK i \in DOMAIN list : Covers(list[i], poi)
    BY <2>4, <2>5
  <2>7. list[i] \in Noted /\ poi \in Noted
    BY <2>3, <2>4, <2>5
  <2>8. Stands(poi, list[i])
    BY <2>1, <2>6, <2>7, CoversStands
  <2> QED  BY <2>2, <2>8 DEF ToSet
<1> QED  BY <1>1, NotesInvariance, PTL DEF NotesSpec, NothingIsLost
=============================================================================
