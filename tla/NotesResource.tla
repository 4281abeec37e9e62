---------------------------- MODULE NotesResource ----------------------------
(***************************************************************************)
(* The notes resource over the aggregate source: the ids and the merge of  *)
(* src/inputs/input-registry.ts, src/shared/namespaced-id.ts and the list  *)
(* and detail requests of src/outputs/notes-resource.  AggregateList has   *)
(* the timing of a list; here a list is one step, of the sources that are  *)
(* up.  Ids are sequences of tokens, so that they can be split.            *)
(***************************************************************************)
EXTENDS DedupePois

CONSTANTS
    Tokens,         \* what ids are made of, the separator "-" among them
    SourceIds,      \* slugs of the enabled sources, in registration order
    Feeds,          \* what the sources may hold: slug to sequence of points
    RequestQueries  \* queries of the resource's clients

Slugs == ToSet(SourceIds)

Points == [source : Slugs, id : Seq(Tokens), type : STRING, at : [x : Int, y : Int],
           clearance : Int \cup {None}, sources : Seq(Slugs)]

Splits == [prefix : Seq(Tokens), remainder : Seq(Tokens)]

ASSUME SlugsHaveNoSeparator ==
    SourceIds \in Seq(Tokens) /\ "-" \in Tokens /\ "-" \notin Slugs
ASSUME NoneIsNothing == None \notin Int /\ None \notin Points /\ None \notin Splits

\* A source gives points of its own, each id once.
ASSUME FeedsAreTyped ==
    \A f \in Feeds : \A s \in Slugs :
        /\ f[s] \in Seq(Points)
        /\ \A i \in DOMAIN f[s] : f[s][i].source = s
        /\ \A i, j \in DOMAIN f[s] : f[s][i].id = f[s][j].id => i = j

VARIABLES
    feed,   \* what each source's debounce cache hands out, shared across lists
    held,   \* what each source has for getDetails
    up,     \* the sources that answer
    notes   \* the resources of the last list answered, in order

notesVars == <<feed, held, up, notes>>

Prefixed(source, id) == <<source, "-">> \o id

\* splitOnFirstSeparator: None for a leading or absent separator.
SplitOnFirstSeparator(id, separator) ==
    LET at == {i \in DOMAIN id : id[i] = separator} IN
    IF at = {} \/ 1 \in at THEN None
    ELSE LET i == Min(at)
         IN  [prefix |-> SubSeq(id, 1, i - 1), remainder |-> SubSeq(id, i + 1, Len(id))]

Inside(box, poi) ==
    poi.at.x \in box.west .. box.east /\ poi.at.y \in box.south .. box.north

\* resolveBbox.  A component that is not a finite number is None.
ResolveBbox(query) ==
    CASE query.form = "bbox" ->
            IF Len(query.parts) # 4 \/ None \in ToSet(query.parts) THEN None
            ELSE [west |-> query.parts[1], south |-> query.parts[2],
                  east |-> query.parts[3], north |-> query.parts[4]]
      [] query.form = "near" ->
            IF query.distance = None \/ query.position = None THEN None
            ELSE IF query.distance <= 0 \/ None \in {query.position.x, query.position.y} THEN None
            ELSE [west |-> query.position.x - query.distance,
                  east |-> query.position.x + query.distance,
                  south |-> query.position.y - query.distance,
                  north |-> query.position.y + query.distance]

\* What one source contributes: clones under its prefix.
Contribution(source, box) ==
    LET Pushed(merged, poi) ==
            IF Inside(box, poi) THEN Append(merged, [poi EXCEPT !.id = Prefixed(source, @)])
            ELSE merged
    IN  FoldLeft(Pushed, <<>>, feed[source])

Merged(box) ==
    FlattenSeq([i \in DOMAIN SourceIds |->
        IF SourceIds[i] \in up THEN Contribution(SourceIds[i], box) ELSE <<>>])

\* The aggregate's answer: merged into the base when some source merges.
Listed(box) == IF Merging # {} THEN DedupeAgainstBase(Merged(box)) ELSE Merged(box)

\* Mutation of Shared: the ids are rewritten in the cached objects.
SharedInPlace(box) ==
    feed' = [s \in DOMAIN feed |-> [i \in DOMAIN feed[s] |->
                IF s \in up /\ Inside(box, feed[s][i])
                THEN [feed[s][i] EXCEPT !.id = Prefixed(s, @)] ELSE feed[s][i]]]

\* The cached lists are shared across hits and never written.
Shared(box) == feed' = feed

\* listResources; a query without a box gives no notes and asks nobody, and when
\* every source failed the request is rejected.
ListResources(query) ==
    LET box == ResolveBbox(query) IN
    \/ /\ box = None
       /\ notes' = <<>>
       /\ UNCHANGED <<feed, held, up>>
    \/ /\ box # None
       /\ notes' = IF up = {} THEN notes ELSE Listed(box)
       /\ Shared(box)
       /\ UNCHANGED <<held, up>>

\* What a source's own getDetails resolves to; None when it rejects.
SourceDetails(s, id) ==
    LET records == {poi \in ToSet(held[s]) : poi.id = id}
    IN  IF s \notin up \/ records = {} THEN None ELSE CHOOSE poi \in records : TRUE

\* getDetails of the aggregate: the prefix names the source, the remainder is its
\* own id; None for each error.
GetDetails(id) ==
    LET split == SplitOnFirstSeparator(id, "-")
        routed == {s \in ToSet(SourceIds) : split # None /\ split.prefix = <<s>>}
    IN  IF routed = {} THEN None
        ELSE SourceDetails(CHOOSE s \in routed : TRUE, split.remainder)

\* buildNoteResource, of a summary or of a details view: where the point is, who
\* it is from and the icon of its type, with the sources it was merged from.
BuildNoteResource(poi, sources) ==
    [position |-> poi.at, skIcon |-> poi.type, source |-> poi.source,
     sources |-> IF Len(sources) > 1 THEN sources ELSE <<>>]

\* getResource of the whole note; None when the request is rejected.
GetResource(id) ==
    IF GetDetails(id) = None THEN None ELSE BuildNoteResource(GetDetails(id), <<>>)

SourceFlips(s) ==
    /\ up' = IF s \in up THEN up \ {s} ELSE up \cup {s}
    /\ UNCHANGED <<feed, held, notes>>
-----------------------------------------------------------------------------
NotesInit ==
    /\ feed \in Feeds /\ held = feed
    /\ up = ToSet(SourceIds)
    /\ notes = <<>>

NotesNext ==
    \/ \E query \in RequestQueries : ListResources(query)
    \/ \E s \in ToSet(SourceIds) : SourceFlips(s)

NotesSpec == NotesInit /\ [][NotesNext]_notesVars
-----------------------------------------------------------------------------
(* Properties. *)

\* Every note a client was ever given opens while its source answers, and is the
\* point it was listed as: lists share the sources' cached objects, and raw ids
\* hold separators of their own (input-registry.ts:210-223, 246-256).
EveryNoteOpens ==
    \A i \in DOMAIN notes :
        notes[i].source \in up =>
            GetResource(notes[i].id) = BuildNoteResource(notes[i], <<>>)

AtLeast(clearance, other) == other = None \/ (clearance # None /\ clearance <= other)

Stands(poi, survivor) ==
    /\ AtLeast(survivor.clearance, poi.clearance)
    /\ IF survivor.id = poi.id THEN survivor.at = poi.at
       ELSE /\ poi.source \in Merging
            /\ SameFeature(survivor, poi, RadiusFor(poi.source))
            /\ Contains(survivor.sources, poi.source)

\* Merging loses no feature: each point a source gave, also when its base is
\* missing from this list, is listed itself or credited on one of its type within
\* its source's radius, which carries a clearance no higher than its own
\* (dedupe-pois.ts, so that the air-draft check sees the lowest one reported).
NothingIsLost ==
    [][\A query \in RequestQueries :
         notes' # notes /\ ListResources(query) /\ ResolveBbox(query) # None /\ up # {} =>
            \A poi \in ToSet(Merged(ResolveBbox(query))) :
                \E survivor \in ToSet(notes') : Stands(poi, survivor)]_notesVars

\* On a grid of this scale two points within a distance of each other are at most one
\* cell apart on each axis, if the distance is short of a cell by as much as the grid
\* stretches it, north and east, and they are not on two sides of the antimeridian.
Reaches(lon, a, b, distance) ==
    /\ 2 * Between(a.at.x, b.at.x) <= FullCircle
    /\ distance * GridMeters <= GridRadius * TrueMeters
    /\ (distance * GridMeters * lon) * (distance * GridMeters * lon)
         <= Cosine(a.at.y) * Cosine(b.at.y) * (GridRadius * TrueMeters) * (GridRadius * TrueMeters)

\* One feature to the source of the second, also at a distance within the reach of the
\* sweep.
Twins(lon, a, b) ==
    /\ SameFeature(a, b, RadiusFor(b.source))
    /\ \E distance \in 1 .. RadiusFor(b.source) :
          Reaches(lon, a, b, distance) /\ SameFeature(a, b, distance)

NoTwins(lon, list) ==
    \A i, j \in DOMAIN list :
        i < j /\ list[j].source \in Merging /\ list[i].source \in {Base, list[j].source}
          => ~Twins(lon, list[i], list[j])

\* No merging source keeps a second marker of a feature, whatever the mix of radii and
\* of latitudes: neither next to a base point nor next to one of its own, as far as
\* the sweep of nine cells reaches on the grid of that list (dedupe-pois.ts:94-121,
\* 231-243).  A narrower source is swept whole, the widest one but for a margin.
NoDuplicateLeft ==
    [][\A query \in RequestQueries :
         notes' # notes /\ ListResources(query) /\ ResolveBbox(query) # None /\ up # {} =>
            NoTwins(LonScale(Merged(ResolveBbox(query))), notes')]_notesVars

\* As dedupe-pois.ts:97-99 has it, "The sweep is exhaustive at this grid scale: two points
\* within `radius` of each other land at most one cell apart on each axis", there is no
\* such marker at all, but across the antimeridian.  There is: a cell is as wide as the
\* radius in the measure of the grid, which is longer than that of the distance by its
\* metres to the degree, and everywhere but at the mean latitude of the list.
SweepIsExhaustive ==
    \A i, j \in DOMAIN notes :
        /\ i < j /\ notes[j].source \in Merging /\ notes[i].source \in {Base, notes[j].source}
        /\ 2 * Between(notes[i].at.x, notes[j].at.x) <= FullCircle
        => ~SameFeature(notes[i], notes[j], RadiusFor(notes[j].source))
=============================================================================
