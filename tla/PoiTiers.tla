------------------------------ MODULE PoiTiers ------------------------------
(***************************************************************************)
(* The two tiers of ActiveCaptain details: src/inputs/active-captain/      *)
(* poi-cache.ts in memory over poi-store.ts on disk, as                    *)
(* active-captain-source.ts wires them, across restarts and crashes.       *)
(*                                                                         *)
(* Every run has a cache, a store and a closed flag of its own; the file   *)
(* is shared by all runs.  The memory tier ages by the monotonic clock,    *)
(* the stamps of the disk tier are wall-clock times.  An entry carries the *)
(* monotonic time it was loaded at (born), which the code does not keep.   *)
(***************************************************************************)
EXTENDS Integers, FiniteSets

CONSTANTS
    Ids,            \* points of interest
    MaxRuns,        \* bound: plugin runs of a behaviour
    TtlMs,          \* cachingDurationMinutes
    MaxClock,       \* bound: the monotonic clock stops there
    MaxStepsBack,   \* bound: how often the wall clock is set back, by one
    MaxFaults,      \* bound: failed writes and damaged files
    Nothing

ASSUME TierBounds ==
    /\ MaxRuns \in Nat \ {0} /\ TtlMs \in Nat \ {0}
    /\ MaxClock \in Nat /\ MaxStepsBack \in Nat /\ MaxFaults \in Nat

\* No entry passes for the absence of one.
ASSUME NothingIsNoEntry ==
    Nothing \notin [until : 0 .. MaxClock + TtlMs, born : 0 .. MaxClock]

Runs == 1 .. MaxRuns

VARIABLES
    clock,      \* monotonic
    back,       \* how far the wall clock is behind it
    run,        \* the run now, or the last one; 0 before any
    state,      \* of each run: "unborn", "open", "closed" or "crashed"
    memory,     \* of each run: the entry held for each id
    loads,      \* of each run: ids being loaded, requests that outlive close()
    mirror,     \* of each run: the store's entries
    timer,      \* of each run: a debounced write is pending
    disk,       \* the entries of the store file
    faults,     \* failed writes and damaged files so far
    outcome     \* what the last step recorded on the status, and for which run

tierVars == <<clock, back, run, state, memory, loads, mirror, timer, disk, faults, outcome>>

Empty == [id \in Ids |-> Nothing]
Wall == clock - back
Silent == [of |-> 0, said |-> "nothing"]

Open(r) == state[r] = "open"

\* A memory entry answers get() until its time is up.
Serves(r, id) == memory[r][id] # Nothing /\ clock <= memory[r][id].until

\* get: a fresh entry is served, anything else is loaded, once at a time.
StartLoad(id) ==
    /\ run > 0 /\ Open(run)
    /\ ~Serves(run, id) /\ id \notin loads[run]
    /\ loads' = [loads EXCEPT ![run] = @ \cup {id}]
    /\ outcome' = Silent
    /\ UNCHANGED <<clock, back, run, state, memory, mirror, timer, disk, faults>>

\* Mutation of Persist: the store is not told when its run is over.
PersistUngated(r, id) ==
    /\ mirror' = [mirror EXCEPT ![r][id] = [stamp |-> Wall, born |-> clock]]
    /\ timer' = [timer EXCEPT ![r] = TRUE]

\* store.persist: nothing once the source is closed.
Persist(r, id) ==
    IF Open(r)
    THEN /\ mirror' = [mirror EXCEPT ![r][id] = [stamp |-> Wall, born |-> clock]]
         /\ timer' = [timer EXCEPT ![r] = TRUE]
    ELSE UNCHANGED <<mirror, timer>>

\* onLoadSuccess and onLoadError: nothing once the source is closed.
Record(r, said) == outcome' = IF Open(r) THEN [of |-> r, said |-> said] ELSE Silent

LoadSucceeds(r, id) ==
    /\ id \in loads[r]
    /\ loads' = [loads EXCEPT ![r] = @ \ {id}]
    /\ memory' = [memory EXCEPT ![r][id] = [until |-> clock + TtlMs, born |-> clock]]
    /\ Persist(r, id)
    /\ Record(r, "detail")
    /\ UNCHANGED <<clock, back, run, state, disk, faults>>

\* A rejected load leaves nothing behind; a 404 is the API answering normally.
LoadFails(r, id, notFound) ==
    /\ id \in loads[r]
    /\ loads' = [loads EXCEPT ![r] = @ \ {id}]
    /\ memory' = [memory EXCEPT ![r][id] = Nothing]
    /\ Record(r, IF notFound THEN "detail" ELSE "error")
    /\ UNCHANGED <<clock, back, run, state, mirror, timer, disk, faults>>

\* writeFile of a run: the whole mirror, renamed over the file, or a swallowed
\* failure that leaves the file as it was.
WriteFile(r) ==
    \/ disk' = mirror[r] /\ UNCHANGED faults
    \/ faults < MaxFaults /\ faults' = faults + 1 /\ UNCHANGED disk

\* flush on the debounce timer.
TimerFires(r) ==
    /\ timer[r] /\ state[r] # "crashed"
    /\ timer' = [timer EXCEPT ![r] = FALSE]
    /\ WriteFile(r)
    /\ outcome' = Silent
    /\ UNCHANGED <<clock, back, run, state, memory, loads, mirror>>

\* Mutation of FlushOnClose: close only stops the timer.
FlushOnCloseCancels(r) ==
    /\ timer' = [timer EXCEPT ![r] = FALSE]
    /\ UNCHANGED <<disk, faults>>

FlushOnClose(r) ==
    /\ timer' = [timer EXCEPT ![r] = FALSE]
    /\ IF timer[r] THEN WriteFile(r) ELSE UNCHANGED <<disk, faults>>

\* close: the flag, then the flush; the client aborts what it can of the loads.
CloseSource ==
    /\ run > 0 /\ Open(run)
    /\ state' = [state EXCEPT ![run] = "closed"]
    /\ FlushOnClose(run)
    /\ outcome' = Silent
    /\ UNCHANGED <<clock, back, run, memory, loads, mirror>>

\* The process ends: its memory, loads and timers are gone.
Crash ==
    /\ run > 0 /\ Open(run)
    /\ state' = [r \in Runs |-> IF r > run THEN "unborn" ELSE "crashed"]
    /\ loads' = [r \in Runs |-> {}]
    /\ timer' = [r \in Runs |-> FALSE]
    /\ outcome' = Silent
    /\ UNCHANGED <<clock, back, run, memory, mirror, disk, faults>>

\* load: malformed and stale entries are dropped from the mirror as well.
Loaded == [id \in Ids |-> IF disk[id] = Nothing THEN Nothing
                          ELSE IF disk[id].stamp < Wall - TtlMs THEN Nothing ELSE disk[id]]

\* Mutation of Remaining: every hydrated entry gets a full window.
RemainingInFull(entry) == TtlMs

\* The freshness left to an entry, at most the whole window.
Remaining(entry) ==
    LET left == TtlMs - (Wall - entry.stamp) IN IF left < TtlMs THEN left ELSE TtlMs

Hydrated == [id \in Ids |->
    IF Loaded[id] = Nothing \/ Remaining(Loaded[id]) <= 0 THEN Nothing
    ELSE [until |-> clock + Remaining(Loaded[id]), born |-> Loaded[id].born]]

\* createActiveCaptainSource of the next run.
Start ==
    /\ run < MaxRuns
    /\ run > 0 => ~Open(run)
    /\ run' = run + 1
    /\ state' = [state EXCEPT ![run + 1] = "open"]
    /\ mirror' = [mirror EXCEPT ![run + 1] = Loaded]
    /\ memory' = [memory EXCEPT ![run + 1] = Hydrated]
    /\ outcome' = Silent
    /\ UNCHANGED <<clock, back, loads, timer, disk, faults>>

\* External: the file is lost, unreadable or of another version.
DamageFile ==
    /\ faults < MaxFaults
    /\ faults' = faults + 1
    /\ disk' = Empty
    /\ outcome' = Silent
    /\ UNCHANGED <<clock, back, run, state, memory, loads, mirror, timer>>

\* External: the clocks move; the wall clock may be set back as time passes.
Advance(setBack) ==
    /\ clock < MaxClock
    /\ setBack => back < MaxStepsBack
    /\ clock' = clock + 1
    /\ back' = IF setBack THEN back + 1 ELSE back
    /\ outcome' = Silent
    /\ UNCHANGED <<run, state, memory, loads, mirror, timer, disk, faults>>
-----------------------------------------------------------------------------
TierInit ==
    /\ clock = 0 /\ back = 0 /\ run = 0 /\ faults = 0
    /\ state = [r \in Runs |-> "unborn"]
    /\ memory = [r \in Runs |-> Empty]
    /\ mirror = [r \in Runs |-> Empty]
    /\ loads = [r \in Runs |-> {}]
    /\ timer = [r \in Runs |-> FALSE]
    /\ disk = Empty
    /\ outcome = Silent

TierNext ==
    \/ \E id \in Ids : StartLoad(id)
    \/ \E r \in Runs, id \in Ids : LoadSucceeds(r, id)
    \/ \E r \in Runs, id \in Ids, notFound \in BOOLEAN : LoadFails(r, id, notFound)
    \/ \E r \in Runs : TimerFires(r)
    \/ CloseSource
    \/ Crash
    \/ Start
    \/ DamageFile
    \/ \E setBack \in BOOLEAN : Advance(setBack)

TierSpec == TierInit /\ [][TierNext]_tierVars
-----------------------------------------------------------------------------
(* Properties. *)

\* No detail is served that was loaded more than the TTL ago, however many
\* restarts it has come through (poi-cache.ts:82-84).
ServedWithinTtl ==
    \A r \in Runs, id \in Ids :
        Open(r) /\ Serves(r, id) => clock - memory[r][id].born <= TtlMs

\* A run that is over writes nothing and records nothing any more, whatever its
\* loads do: the file and the status are the next run's
\* (active-captain-source.ts:131-150).
OverIsSilent ==
    [][/\ disk' # disk /\ faults' = faults => run > 0 /\ Open(run)
       /\ outcome'.of # 0 => Open(outcome'.of)]_tierVars

\* After a clean stop the next run serves, without a request, every detail the
\* stopped run had and that is still fresh (poi-store.ts:15-18).
CleanRestartKeepsFresh ==
    [][(run > 0 /\ run' = run + 1 /\ state[run] = "closed" /\ faults = 0)
       => \A id \in Ids :
            mirror[run][id] # Nothing /\ clock - mirror[run][id].born < TtlMs
            => memory'[run'][id] # Nothing /\ clock <= memory'[run'][id].until]_tierVars
=============================================================================
