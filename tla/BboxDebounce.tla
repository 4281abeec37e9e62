---------------------------- MODULE BboxDebounce ----------------------------
(***************************************************************************)
(* src/shared/bbox-debounce.ts: the per-bbox cache in front of a source's  *)
(* list query.  It holds the promise of a fetch, not its value, so calls   *)
(* for a box whose fetch is pending join it; an entry lives Ttl from the   *)
(* moment its fetch starts; a rejected fetch takes its own entry out.      *)
(* A box stands for a cache key, poiTypes discriminator included.          *)
(***************************************************************************)
EXTENDS Integers, SequencesExt

CONSTANTS
    Calls,          \* list calls of a behaviour
    Boxes,          \* cache keys
    Ttl,            \* ttlSeconds; 0 turns the cache off
    MaxEntries,     \* MAX_BBOX_CACHE_ENTRIES
    None,
    MaxTime         \* bound: the clock stops there

ASSUME TtlIsNat == Ttl \in Nat /\ MaxEntries \in Nat \ {0} /\ MaxTime \in Nat

VARIABLES
    now,
    slots,      \* the LRU cache, least recently used first
    fetches,    \* the upstream fetch each call started, or None
    joined      \* the call whose fetch each call awaits, or None

debounceVars == <<now, slots, fetches, joined>>

Fresh(entry) == now - entry.at <= Ttl

\* The slots without the one of a box, of which there is at most one.
Others(box) ==
    LET of == {i \in DOMAIN slots : slots[i].box = box}
    IN  IF of = {} THEN slots ELSE RemoveAt(slots, CHOOSE i \in of : TRUE)
Held(box) == {entry \in ToSet(slots) : entry.box = box /\ Fresh(entry)}

\* The slots with room for one more entry.
Room(entries) == IF Len(entries) < MaxEntries THEN entries ELSE Tail(entries)

\* get: a hit joins the held promise, a miss starts a fetch and holds it.
Get(c, box) ==
    /\ joined[c] = None
    /\ IF Held(box) # {}
       THEN \E entry \in Held(box) :
              /\ joined' = [joined EXCEPT ![c] = entry.call]
              /\ slots' = Append(Others(box), entry)
              /\ UNCHANGED fetches
       ELSE /\ joined' = [joined EXCEPT ![c] = c]
            /\ fetches' = [fetches EXCEPT ![c] = [box |-> box, at |-> now, state |-> "pending"]]
            /\ slots' = IF Ttl = 0 THEN slots
                        ELSE Append(Room(Others(box)), [box |-> box, call |-> c, at |-> now])
    /\ UNCHANGED now

\* Mutation of AfterRejection: whatever is held for the box is evicted.
AfterRejectionOfAny(f) == Others(fetches[f].box)

\* The rejected promise is evicted unless a newer one has taken its slot.
AfterRejection(f) ==
    LET box == fetches[f].box
        newer == {entry \in Held(box) : entry.call # f}
    IN  IF newer = {} THEN Others(box)
        ELSE Append(Others(box), CHOOSE entry \in newer : TRUE)

Settle(f, ok) ==
    /\ fetches' = [fetches EXCEPT ![f].state = IF ok THEN "value" ELSE "failed"]
    /\ slots' = IF ok THEN slots ELSE AfterRejection(f)

Pending(f) == fetches[f] # None /\ fetches[f].state = "pending"

Clear == slots' = <<>>

Tick ==
    /\ now < MaxTime
    /\ now' = now + 1
    /\ UNCHANGED <<slots, fetches, joined>>

DebounceInit ==
    /\ now = 0
    /\ slots = <<>>
    /\ fetches = [c \in Calls |-> None]
    /\ joined = [c \in Calls |-> None]
-----------------------------------------------------------------------------
(* Properties. *)

\* A call that starts a fetch while the boxes fit: every earlier fetch of its box
\* has failed or began before the window, in whatever order they end.
FetchIsDue(c) ==
    \A f \in Calls :
        (fetches[f] # None /\ fetches[f].box = fetches'[c].box)
        => fetches[f].state = "failed" \/ now - fetches[f].at > Ttl

\* A call that joins another's fetch: that fetch began within the window and has
\* not failed.
JoinIsGood(c) ==
    /\ now - fetches[joined'[c]].at <= Ttl
    /\ fetches[joined'[c]].state # "failed"

\* A burst of calls for a box is one upstream fetch per window, whatever fetches
\* overlap and in whatever order they end, and neither a stale list nor a
\* failure is replayed (bbox-debounce.ts:128-154).
OneFetchPerWindow ==
    [][\A c \in Calls :
         joined[c] = None /\ joined'[c] # None
         => IF joined'[c] = c
            THEN Ttl > 0 /\ Cardinality(Boxes) <= MaxEntries => FetchIsDue(c)
            ELSE JoinIsGood(c)]_debounceVars
=============================================================================
