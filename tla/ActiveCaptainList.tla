-------------------------- MODULE ActiveCaptainList --------------------------
(***************************************************************************)
(* List calls of src/inputs/active-captain/active-captain-source.ts: the   *)
(* upstream filters by the types asked for, so a debounced box is held     *)
(* under the types as well, and the rating filter runs on what is held.    *)
(***************************************************************************)
EXTENDS BboxDebounce

CONSTANTS
    TypeSets,   \* the poiTypes arguments callers pass
    Pois,       \* points of interest upstream: type, rating (0: unrated),
                \* and usable: addressable, named, placed, not a cluster
    Ratable,    \* RATABLE_POI_TYPES
    Boxed,      \* the box each cache key stands for, and the types
    MinRating   \* minimumRating; 0 lists every point

ASSUME KeysAreBoxesAndTypes == \A key \in Boxes : Boxed[key].types \in TypeSets
ASSUME RatingsAreNat == MinRating \in Nat /\ \A poi \in Pois : poi.rating \in Nat
ASSUME NoneIsNoCall == None \notin Calls \cup Boxes

VARIABLES
    asked,      \* key of each list call, or None
    listed,     \* what each call was answered: nothing yet, refused or a set
    acClosed

acVars == <<now, slots, fetches, joined, asked, listed, acClosed>>

\* Mutation of KeyOf: the cache is keyed by the box alone.
KeyOfBox(key) == CHOOSE other \in Boxes : Boxed[other].box = Boxed[key].box

\* bboxKey with the types as its discriminator.
KeyOf(key) == key

\* client.listPointsOfInterest: what upstream has of the types, usable entries.
Upstream(types) == {poi \in Pois : poi.type \in types /\ poi.usable}

\* Mutation of FilterByRating: a type that carries no rating is held to it.
FilterByRatingOfAll(pois) == {poi \in pois : poi.rating >= MinRating}

\* filterByRating: an unrated point of a ratable type is dropped too.
FilterByRating(pois) ==
    {poi \in pois : MinRating > 0 /\ poi.type \in Ratable => poi.rating >= MinRating}

AcList(c, key) ==
    /\ ~acClosed /\ asked[c] = None
    /\ Get(c, KeyOf(key))
    /\ asked' = [asked EXCEPT ![c] = key]
    /\ UNCHANGED <<listed, acClosed>>

AcSettles(f, ok) ==
    /\ Pending(f)
    /\ Settle(f, ok)
    /\ UNCHANGED <<now, joined, asked, listed, acClosed>>

\* The types a fetch sent upstream are those of the call that started it.
AcListReturns(c) ==
    /\ asked[c] # None /\ ~listed[c].back
    /\ \/ /\ fetches[joined[c]].state = "value"
          /\ listed' = [listed EXCEPT ![c] = [back |-> TRUE, ok |-> TRUE,
               found |-> FilterByRating(Upstream(Boxed[asked[joined[c]]].types))]]
       \/ /\ fetches[joined[c]].state = "failed"
          /\ listed' = [listed EXCEPT ![c] = [back |-> TRUE, ok |-> FALSE, found |-> {}]]
    /\ UNCHANGED <<debounceVars, asked, acClosed>>

\* close drops the held lists; calls in flight settle as they may.
AcClose ==
    /\ ~acClosed
    /\ acClosed' = TRUE
    /\ Clear
    /\ UNCHANGED <<now, fetches, joined, asked, listed>>

AcTick == Tick /\ UNCHANGED <<asked, listed, acClosed>>
-----------------------------------------------------------------------------
AcInit ==
    /\ DebounceInit
    /\ asked = [c \in Calls |-> None]
    /\ listed = [c \in Calls |-> [back |-> FALSE, ok |-> FALSE, found |-> {}]]
    /\ acClosed = FALSE

AcNext ==
    \/ \E c \in Calls, key \in Boxes : AcList(c, key)
    \/ \E c \in Calls, ok \in BOOLEAN : AcSettles(c, ok)
    \/ \E c \in Calls : AcListReturns(c)
    \/ AcClose
    \/ AcTick

AcSpec == AcInit /\ [][AcNext]_acVars
-----------------------------------------------------------------------------
(* Properties. *)

\* active-captain-source.ts:177-180: an answer holds every usable point of the
\* types its own caller asked for that the rating lets through, and every one of
\* an unratable type whatever the rating: a chart call without hazards never
\* blinds a later hazard scan of the same box, nor does a quality filter.
AnsweredForItsTypes ==
    \A c \in Calls : listed[c].ok =>
        listed[c].found = {poi \in Pois : /\ poi.usable
                                          /\ poi.type \in Boxed[asked[c]].types
                                          /\ poi.type \notin Ratable \/ poi.rating >= MinRating}
=============================================================================
