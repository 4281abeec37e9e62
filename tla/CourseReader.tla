---------------------------- MODULE CourseReader ----------------------------
(***************************************************************************)
(* src/outputs/route-hazard/course-reader.ts: the reader that keeps the    *)
(* active route resolved in the background so that a monitor tick can read *)
(* it synchronously.                                                       *)
(*                                                                         *)
(* Two parties interleave.  The server changes the course and emits course *)
(* deltas, delivered in order but possibly late.  The reader starts a      *)
(* refresh for every delta that is not a clear; a refresh awaits           *)
(* app.getCourse() and then resourcesApi.getResource(), so several         *)
(* refreshes are in flight at once and their answers arrive in any order.  *)
(*                                                                         *)
(* version, handled and cached are history: they number the course changes *)
(* so that the properties can say how old a cached route is.               *)
(***************************************************************************)
EXTENDS RouteGeometry

CONSTANTS
    Courses,        \* active-route descriptors [href, pointIndex, reverse]
    NoCourse,       \* no route is being followed
    RouteIds,       \* hrefs that name a route resource; any other is malformed
    Coordinates,    \* the route resources: RouteIds -> sequence of entries
    MaxChanges      \* bound: how often the server changes the course

ASSUME MaxChangesIsNat == MaxChanges \in Nat
ASSUME NoCourseIsNotACourse == NoCourse \notin Courses

VARIABLES
    course,             \* server: the course getCourse() reports
    version,            \* history: number of course changes so far
    deltas,             \* course deltas emitted and not yet delivered
    stopped,
    currentRoute,
    refreshGeneration,
    refreshes,          \* refreshes waiting for an answer
    handled,            \* history: version of the latest delta handled
    cached              \* history: the course currentRoute was resolved from
                        \* (-1 for none yet), and whether no call failed

serverVars == <<course, version>>
readerVars == <<stopped, currentRoute, refreshGeneration, refreshes,
                handled, cached>>
vars == <<course, version, deltas, stopped, currentRoute, refreshGeneration,
          refreshes, handled, cached>>

-----------------------------------------------------------------------------
(* Server. *)

Delta(path, clear) == [path |-> path, clear |-> clear, version |-> version + 1]

Emit(ds) == deltas' = IF stopped THEN deltas ELSE deltas \o ds

\* A route is activated, replaced or cleared: both watched paths change.
SetCourse(c) ==
    /\ version < MaxChanges
    /\ course' = c
    /\ version' = version + 1
    /\ Emit(<<Delta("activeRoute", c = NoCourse), Delta("nextPoint", FALSE)>>)
    /\ UNCHANGED readerVars

\* The destination advances along the active route: only nextPoint changes.
AdvancePoint(c) ==
    /\ version < MaxChanges
    /\ course # NoCourse
    /\ c.href = course.href /\ c.reverse = course.reverse
    /\ c.pointIndex = course.pointIndex + 1
    /\ course' = c
    /\ version' = version + 1
    /\ Emit(<<Delta("nextPoint", FALSE)>>)
    /\ UNCHANGED readerVars

-----------------------------------------------------------------------------
(* Reader. *)

\* A refresh that has called getCourse() and waits for the answer.
Refresh(generation) ==
    [generation |-> generation, phase |-> "getCourse",
     course |-> NoCourse, version |-> 0]

StartRefresh ==
    /\ refreshGeneration' = refreshGeneration + 1
    /\ refreshes' = refreshes \cup {Refresh(refreshGeneration + 1)}

\* The course as getCourse() answered it resolves to this route, or to null.
Resolve(active) ==
    IF active = NoCourse \/ active.href \notin RouteIds
    THEN NoRoute
    ELSE BuildRoutePolyline(active.href, active, Coordinates[active.href])

\* Mutation of Commits: the generation check is missing.
CommitsAnyGeneration(r) == ~stopped

\* applyRefresh commits only for a running reader and the latest refresh.
Commits(r) == ~stopped /\ r.generation = refreshGeneration

\* asOf and ok are history: which course the route reflects, no call failed.
ApplyRefresh(r, asOf, route, ok) ==
    /\ refreshes' = refreshes \ {r}
    /\ IF Commits(r)
       THEN /\ currentRoute' = route
            /\ cached' = [version |-> asOf, ok |-> ok]
       ELSE UNCHANGED <<currentRoute, cached>>
    /\ UNCHANGED <<course, version, deltas, stopped, refreshGeneration, handled>>

\* Mutation of ClearRoute: the generation is not bumped.
ClearRouteOnly ==
    /\ currentRoute' = NoRoute
    /\ cached' = [version |-> Head(deltas).version, ok |-> TRUE]
    /\ UNCHANGED <<refreshes, refreshGeneration>>

\* activeRoute.href became null: drop the route at once, outdate every refresh.
ClearRoute ==
    /\ refreshGeneration' = refreshGeneration + 1
    /\ currentRoute' = NoRoute
    /\ cached' = [version |-> Head(deltas).version, ok |-> TRUE]
    /\ UNCHANGED refreshes

OnActiveRouteDelta ==
    /\ deltas # <<>> /\ ~stopped
    /\ Head(deltas).path = "activeRoute"
    /\ IF Head(deltas).clear
       THEN ClearRoute
       ELSE StartRefresh /\ UNCHANGED <<currentRoute, cached>>
    /\ deltas' = Tail(deltas)
    /\ handled' = Head(deltas).version
    /\ UNCHANGED <<course, version, stopped>>

\* Mutation of OnNextPointDelta: an advancing destination starts no refresh.
OnNextPointDeltaIgnored ==
    /\ deltas # <<>> /\ ~stopped
    /\ Head(deltas).path = "nextPoint"
    /\ deltas' = Tail(deltas)
    /\ handled' = Head(deltas).version
    /\ UNCHANGED <<course, version, stopped, currentRoute, refreshGeneration,
                   refreshes, cached>>

OnNextPointDelta ==
    /\ deltas # <<>> /\ ~stopped
    /\ Head(deltas).path = "nextPoint"
    /\ StartRefresh
    /\ deltas' = Tail(deltas)
    /\ handled' = Head(deltas).version
    /\ UNCHANGED <<course, version, stopped, currentRoute, cached>>

\* The server evaluates getCourse(); the continuation runs later.
CourseIsRead(r) ==
    /\ r.phase = "getCourse"
    /\ refreshes' = (refreshes \ {r}) \cup
         {[r EXCEPT !.phase = "gotCourse", !.course = course,
                    !.version = version]}
    /\ UNCHANGED <<course, version, deltas, stopped, currentRoute,
                   refreshGeneration, handled, cached>>

GetCourseFails(r) ==
    /\ r.phase = "getCourse"
    /\ ApplyRefresh(r, version, NoRoute, FALSE)

\* The continuation after getCourse(): nothing to fetch, or fetch the route.
CourseArrives(r) ==
    /\ r.phase = "gotCourse"
    /\ IF r.course = NoCourse \/ r.course.href \notin RouteIds
       THEN ApplyRefresh(r, r.version, NoRoute, TRUE)
       ELSE /\ refreshes' = (refreshes \ {r}) \cup
                              {[r EXCEPT !.phase = "getResource"]}
            /\ UNCHANGED <<course, version, deltas, stopped, currentRoute,
                           refreshGeneration, handled, cached>>

ResourceArrives(r) ==
    /\ r.phase = "getResource"
    /\ ApplyRefresh(r, r.version, Resolve(r.course), TRUE)

GetResourceFails(r) ==
    /\ r.phase = "getResource"
    /\ ApplyRefresh(r, r.version, NoRoute, FALSE)

\* stop() unsubscribes, so the undelivered deltas never reach the reader.
Stop ==
    /\ ~stopped
    /\ stopped' = TRUE
    /\ deltas' = <<>>
    /\ currentRoute' = NoRoute
    /\ UNCHANGED <<course, version, refreshGeneration, refreshes, handled, cached>>
-----------------------------------------------------------------------------
\* createCourseReader ends by refreshing whatever route is already active.
Init ==
    /\ course \in Courses \cup {NoCourse}
    /\ version = 0
    /\ deltas = <<>>
    /\ stopped = FALSE
    /\ currentRoute = NoRoute
    /\ refreshGeneration = 1
    /\ refreshes = {Refresh(1)}
    /\ handled = 0
    /\ cached = [version |-> -1, ok |-> FALSE]

Answer(r) ==
    \/ CourseIsRead(r)
    \/ GetCourseFails(r)
    \/ CourseArrives(r)
    \/ ResourceArrives(r)
    \/ GetResourceFails(r)

Next ==
    \/ \E c \in Courses \cup {NoCourse} : SetCourse(c)
    \/ \E c \in Courses : AdvancePoint(c)
    \/ OnActiveRouteDelta
    \/ OnNextPointDelta
    \/ \E r \in refreshes : Answer(r)
    \/ Stop

Spec == Init /\ [][Next]_vars

\* The event loop delivers every delta, and every awaited call settles.
Fairness ==
    /\ WF_vars(OnActiveRouteDelta \/ OnNextPointDelta)
    /\ \A g \in 1 .. 2 * MaxChanges + 1 :
         WF_vars(\E r \in refreshes : r.generation = g /\ Answer(r))

FairSpec == Spec /\ Fairness
-----------------------------------------------------------------------------
(* Properties. *)

RouteOrNone ==
    {NoRoute} \cup {Resolve(c) : c \in Courses}

DeltaType ==
    [path : {"activeRoute", "nextPoint"}, clear : BOOLEAN, version : Nat]

RefreshType ==
    [generation : Nat, phase : {"getCourse", "gotCourse", "getResource"},
     course : Courses \cup {NoCourse}, version : Nat]

\* The reader's variables and the server's have the types the code gives them,
\* and an in-flight refresh is one the counter has already numbered.
TypeOK ==
    /\ course \in Courses \cup {NoCourse}
    /\ version \in Nat
    /\ deltas \in Seq(DeltaType)
    /\ stopped \in BOOLEAN
    /\ currentRoute \in RouteOrNone
    /\ refreshGeneration \in Nat
    /\ refreshes \subseteq RefreshType
    /\ handled \in Nat
    /\ cached \in [version : Int, ok : BOOLEAN]

\* A stopped reader never shows a route, although refreshes started before
\* stop() still complete after it (course-reader.ts:297-302, 424-434).
StoppedHoldsNoRoute == stopped => currentRoute = NoRoute

\* Every delta is handled and the newest refresh has completed.
Settled ==
    /\ ~stopped
    /\ deltas = <<>>
    /\ \A r \in refreshes : r.generation # refreshGeneration

\* Whatever the order in which the answers of overlapping refreshes came in,
\* a settled reader shows the route of the course the server has now, unless a
\* call of the newest refresh failed (course-reader.ts:208-210, 297-345).
SettledIsFresh ==
    Settled => /\ cached.version = version
               /\ cached.ok => currentRoute = Resolve(course)

\* A settled polyline starts at the point the server says the vessel is heading
\* for, in either travel direction (course-reader.ts:261-275).
DestinationAhead ==
    (Settled /\ cached.ok /\ currentRoute # NoRoute) =>
       LET coordinates == Coordinates[course.href]
       IN  PointIndexInRange(course, coordinates) =>
             Head(currentRoute.waypoints) = ServerRoutePoint(course, coordinates)

\* No commit goes back in time: a route that replaces the cached one was read
\* no earlier than the latest delta the reader has handled, a clear included
\* (course-reader.ts:391-394).
CommitsAreCurrent == [][cached' # cached => cached'.version >= handled']_vars

\* Once the course stops changing, the reader ends up with its route for good:
\* no lost delta and no late answer leaves it on an old one.
EventuallyFresh ==
    <>[](stopped \/ /\ cached.version = version
                    /\ cached.ok => currentRoute = Resolve(course))
=============================================================================
