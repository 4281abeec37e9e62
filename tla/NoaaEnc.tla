------------------------------ MODULE NoaaEnc ------------------------------
(***************************************************************************)
(* src/inputs/noaa-enc/noaa-enc-source.ts over enc-direct-client.ts: a     *)
(* list call fans out to the enabled layers, each a loop over the pages of *)
(* an ArcGIS service, and what the layers that answered returned is cached *)
(* for the debounce window, a failed layer missing from it.                *)
(***************************************************************************)
EXTENDS DebouncedSource

CONSTANTS
    Enc,        \* this source's slug
    Layers,     \* enabled layers
    FeaturesOf, \* features upstream holds in each layer
    SordatOf,   \* the source date of each feature
    MaxPages,   \* MAX_PAGES
    MaxLookups  \* bound: detail requests in flight at once

ASSUME LayersHoldFeatures == Layers # {} /\ FeaturesOf \in [Layers -> SUBSET Features]
ASSUME PagesAreNat == MaxPages \in Nat \ {0} /\ MaxLookups \in Nat

ASSUME SordatsAreTyped ==
    Undated \notin Sordats /\ \A x \in Features : SordatOf[x] \in Sordats \cup {Undated}

VARIABLES
    inUsWaters, \* of the latest fix; TRUE also while there is none
    query       \* pages read and outcome of each layer query of each fetch

encVars == <<sourceVars, inUsWaters, query>>

Unasked == [l \in Layers |-> [pages |-> 0, state |-> "asking"]]

\* A list call outside US waters: a skip, and an empty list at once.
ListOutsideUs(c) ==
    /\ ~closed /\ Idle(c) /\ ~inUsWaters
    /\ reply' = [reply EXCEPT ![c] = Answer({})]
    /\ rows' = [rows EXCEPT ![Enc] = Skipped(@)]
    /\ UNCHANGED <<debounceVars, recentErrors, known, lookups, closed,
                   inUsWaters, query>>

List(c, box) ==
    /\ ~closed /\ Idle(c) /\ inUsWaters
    /\ Get(c, box)
    /\ reply' = [reply EXCEPT ![c] = Standing("waiting")]
    /\ UNCHANGED <<rows, recentErrors, known, lookups, closed,
                   inUsWaters, query>>

\* requestText and fetchJson: a socket error, a timeout and a status other than
\* 200 are all errors.
PageOutcomes == {"more", "last", "error"}

\* Mutation of OutOfPages: the loop has no bound.
NeverOutOfPages(pages) == FALSE

OutOfPages(pages) == pages = MaxPages

\* queryLayer: one page answers, and is the last one, promises more or fails.
\* After MaxPages pages with more to come the query is given up.
PageArrives(f, l, page) ==
    LET read == query[f][l].pages + 1
        over == page # "more" \/ OutOfPages(read)
    IN  /\ Pending(f) /\ query[f][l].state = "asking"
        /\ query' = [query EXCEPT ![f][l] =
             [pages |-> IF over THEN 0 ELSE read % MaxPages,
              state |-> IF ~over THEN "asking" ELSE IF page = "last" THEN "ok" ELSE "failed"]]
        /\ UNCHANGED <<sourceVars, inUsWaters>>

LayersOk(f) == {l \in Layers : query[f][l].state = "ok"}
LayersFailed(f) == {l \in Layers : query[f][l].state = "failed"}

\* allSettled: an error for every failed layer; a rejection when none is left.
FetchSettles(f) ==
    /\ Pending(f)
    /\ LayersOk(f) \cup LayersFailed(f) = Layers
    /\ Settle(f, LayersOk(f) # {})
    /\ IF LayersFailed(f) = {}
       THEN UNCHANGED <<rows, recentErrors>>
       ELSE /\ rows' = [rows EXCEPT ![Enc] = Failed(@)]
            /\ recentErrors' = FoldLeft(WithError, recentErrors,
                                        [i \in 1 .. Cardinality(LayersFailed(f)) |-> Enc])
    /\ UNCHANGED <<now, joined, reply, known, lookups, closed, inUsWaters, query>>

\* Mutation of Summaries: a feature without an id or coordinates is listed.
SummariesOfAll(f) == UNION {FeaturesOf[l] : l \in LayersOk(f)}

\* toSummary drops what has no id or no valid position.
Summaries(f) == (UNION {FeaturesOf[l] : l \in LayersOk(f)}) \cap Usable

StampOf == [x \in Features |-> SordatToIsoTimestamp(SordatOf[x])]

\* The call continues: the detail cache is reseeded, the year filter applied,
\* and the aggregate records the outcome.
ListReturns(c) ==
    LET f == joined[c] IN
    /\ Waiting(c)
    /\ fetches[f].state # "pending"
    /\ IF fetches[f].state = "failed"
       THEN /\ reply' = [reply EXCEPT ![c] = Standing("refused")]
            /\ RecordErrors(Enc, <<Enc>>)
            /\ UNCHANGED known
       ELSE /\ reply' = [reply EXCEPT ![c] = Answer(FilterByMinimumYear(Summaries(f), StampOf))]
            /\ known' \in Reseeded(Summaries(f))
            /\ RecordListFetch(Enc)
    /\ UNCHANGED <<debounceVars, lookups, closed, inUsWaters, query>>

\* getDetails on a miss; a hit and a malformed id touch nothing.
Lookup(id) ==
    /\ ~closed /\ id \in Features \ (known \cup lookups)
    /\ Cardinality(lookups) < MaxLookups
    /\ lookups' = lookups \cup {id}
    /\ UNCHANGED <<debounceVars, rows, recentErrors, reply, known, closed,
                   inUsWaters, query>>

\* toDetailView: null for a feature without a valid position.
HasDetailView(id) == id \in Usable

\* queryById answers, with a feature that has no view or is gone counting as an
\* error.
LookupReturns(id, ok) ==
    /\ id \in lookups
    /\ ok => HasDetailView(id)
    /\ lookups' = lookups \ {id}
    /\ IF ok
       THEN RecordDetailSuccess(Enc) /\ known' \in Reseeded({id})
       ELSE RecordErrors(Enc, <<Enc>>) /\ UNCHANGED known
    /\ UNCHANGED <<debounceVars, reply, closed, inUsWaters, query>>

CrossBoundary ==
    /\ inUsWaters' = ~inUsWaters
    /\ UNCHANGED <<sourceVars, query>>

Close ==
    /\ ~closed
    /\ closed' = TRUE
    /\ Clear /\ known' = {}
    /\ UNCHANGED <<now, fetches, joined, rows, recentErrors, reply, lookups,
                   inUsWaters, query>>

Passes == TimePasses /\ UNCHANGED <<inUsWaters, query>>
-----------------------------------------------------------------------------
EncInit ==
    /\ SourceInit
    /\ inUsWaters \in BOOLEAN
    /\ query = [f \in Calls |-> Unasked]

\* What a list call waits for.
EncProgress ==
    \/ \E f \in Calls : FetchSettles(f) \/ ListReturns(f)
    \/ \E f \in Calls, l \in Layers, page \in PageOutcomes : PageArrives(f, l, page)

EncNext ==
    \/ EncProgress
    \/ \E c \in Calls : ListOutsideUs(c)
    \/ \E c \in Calls, box \in Boxes : List(c, box)
    \/ \E id \in Features : Lookup(id)
    \/ \E id \in Features, ok \in BOOLEAN : LookupReturns(id, ok)
    \/ CrossBoundary
    \/ Close
    \/ Passes

\* Every request has a socket timeout (http-one-shot.ts:52-54), so every page
\* ends one way or another, and continuations run.
EncSpec == EncInit /\ [][EncNext]_encVars /\ WF_encVars(EncProgress)
-----------------------------------------------------------------------------
(* Properties. *)

\* What a list call found that one layer or another answered, usable or not.
Answered(c) == (UNION {FeaturesOf[l] : l \in LayersOk(joined[c])}) \cap Usable

Lists(c) == Waiting(c) /\ reply'[c].state = "answered" /\ LayersOk(joined[c]) # {}

\* A year, a month and in eight characters a day, of a date.
Readable(raw) ==
    /\ raw # Undated /\ raw.length \in {6, 8}
    /\ raw.year # NaN /\ raw.month \in 1 .. 12
    /\ raw.length = 8 => raw.day \in 1 .. 31

\* Garbled, or of the first century, which Date.UTC moves to the twentieth.
Misread(x) ==
    Readable(SordatOf[x]) /\ (~SordatOf[x].digits \/ SordatOf[x].year < 100)

TooOld(x) == Readable(SordatOf[x]) /\ SordatOf[x].year < MinimumYear

\* A list answered from the cache or not, with all layers or with those that did
\* not fail, holds every usable feature of these layers but those of a date too
\* old, no date and a date that does not parse being none, and those whose date
\* is misread; and if the features are no more than it holds, a click then finds
\* each in the detail cache, whatever they drove out of it (noaa-enc-source.ts:
\* 238-278, s57-mapping.ts:155-171, year-filter.ts:86-101).
ListsWhatIsDue ==
    [][\A c \in Calls : Lists(c) =>
         /\ {x \in Answered(c) : ~TooOld(x) /\ ~Misread(x)} \subseteq reply'[c].found
         /\ reply'[c].found \subseteq {x \in Answered(c) : ~TooOld(x) \/ Misread(x)}
         /\ Cardinality(Answered(c)) <= MaxDetails => Answered(c) \subseteq known']_encVars

\* As s57-mapping.ts:152-153 has it, "Anything else (null, non-string, wrong length,
\* non-numeric digits) returns undefined", and so year-filter.ts:86-89 "never drops a
\* POI on absent or malformed wire data".  It does: parseInt reads what a garbled year
\* starts with.
GarbledDatesAreKept ==
    [][\A c \in Calls : Lists(c) =>
         {x \in Answered(c) : SordatOf[x] # Undated /\ ~SordatOf[x].digits}
           \subseteq reply'[c].found]_encVars

\* All list calls return, also when the service keeps promising more pages
\* (enc-direct-client.ts:133-153).
EveryListReturns == (\E c \in Calls : Waiting(c)) ~> \A c \in Calls : ~Waiting(c)
=============================================================================
