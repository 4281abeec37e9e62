--------------------------- MODULE DebouncedSource ---------------------------
(***************************************************************************)
(* What the NOAA ENC and OpenSeaMap sources have in common: list calls     *)
(* through the debounce cache, a detail cache that every list reseeds,     *)
(* detail lookups by id on a miss, and the status row that the source and  *)
(* the aggregate record on.  A feature is its id.                          *)
(***************************************************************************)
EXTENDS BboxDebounce, PluginStatus, SourceDates

CONSTANTS
    Features,   \* features upstream
    Usable,     \* those with an id and valid coordinates
    MaxDetails  \* MAX_POI_CACHE_ENTRIES

ASSUME FeaturesAreNamed == Usable \subseteq Features
ASSUME DetailsAreKept == MaxDetails \in Nat \ {0}

VARIABLES
    reply,      \* where each list call stands, and what it was answered
    known,      \* ids in the detail cache
    lookups,    \* detail requests in flight
    closed

sourceVars == <<now, slots, fetches, joined, rows, recentErrors, reply, known,
                lookups, closed>>

Standing(state) == [state |-> state, found |-> {}]
Answer(found) == [state |-> "answered", found |-> found]

SmallerOf(a, b) == IF a < b THEN a ELSE b

Idle(c) == reply[c].state = "idle"
Waiting(c) == reply[c].state = "waiting"

\* filterByMinimumYear, outside the cache.
FilterByMinimumYear(found, stampOf) == {x \in found : YearFilter(stampOf[x])}

\* Mutation of Reseeded: what the detail cache holds stays, what is added goes.
ReseededIfRoom(added) ==
    {kept \in SUBSET (known \cup added) :
        /\ known \subseteq kept
        /\ Cardinality(kept) <= MaxDetails}

\* What the detail cache may hold once these were set in it, one after the other: the
\* latest, and of the older those looked up last.  In which order a list and the
\* clicks before it came is not kept.
Reseeded(added) ==
    {kept \in SUBSET (known \cup added) :
        /\ Cardinality(added) <= MaxDetails => added \subseteq kept
        /\ Cardinality(added) > MaxDetails => kept \subseteq added
        /\ Cardinality(kept) = SmallerOf(MaxDetails, Cardinality(known \cup added))}

\* recordError, for each of the errors.
RecordErrors(s, errors) ==
    /\ rows' = [rows EXCEPT ![s] = Failed(@)]
    /\ recentErrors' = FoldLeft(WithError, recentErrors, errors)

\* The aggregate records a fulfilled list unless the row says it just skipped.
RecordListFetch(s) ==
    /\ rows' = [rows EXCEPT ![s] = IF @.justSkipped THEN @ ELSE ListFetched(@)]
    /\ UNCHANGED recentErrors

RecordDetailSuccess(s) ==
    /\ rows' = [rows EXCEPT ![s] = DetailFetched(@)]
    /\ UNCHANGED recentErrors

SourceInit ==
    /\ DebounceInit
    /\ rows = NewRows
    /\ recentErrors = <<>>
    /\ reply = [c \in Calls |-> Standing("idle")]
    /\ known = {} /\ lookups = {}
    /\ closed = FALSE

\* The clock matters while a call may still come.
TimePasses ==
    /\ Tick
    /\ UNCHANGED <<rows, recentErrors, reply, known, lookups, closed>>
=============================================================================
