---------------------------- MODULE InputsProofs ----------------------------
(***************************************************************************)
(* What the sources list and keep.                                         *)
(*                                                                         *)
(* The two tiers of ActiveCaptain's details for every set of ids and every *)
(* number of runs, faults and clock steps: the age of an entry is bounded  *)
(* through both tiers, as the stamp on disk lags the load by at most what  *)
(* the wall clock has been set back, and the window that a restart grants  *)
(* ends at most that much too late.                                        *)
(*                                                                         *)
(* Its debounced lists for any number of calls and boxes, any window and   *)
(* any cache size: the cache is a sequence of slots with distinct boxes,   *)
(* each the promise of a fetch that has not failed; as long as the boxes   *)
(* fit, no promise that is still good is out of it.                        *)
(*                                                                         *)
(* The Light List's index for any aids, pages and tile size: the map of    *)
(* records, the tiles and the tile of each record hold the same records    *)
(* once, and the cells a scan visits are the tiles of its box, once each.  *)
(*                                                                         *)
(* NOAA ENC's lists, with the order of source dates that its year filter   *)
(* compares.                                                               *)
(***************************************************************************)
EXTENDS PoiTiers, ActiveCaptainList, LightListTiles, NoaaEnc, FoldFacts,
        FiniteSetTheorems, SequenceTheorems
-----------------------------------------------------------------------------
(* The detail tiers. *)

InMemory == [until : Int, born : 0 .. MaxClock]
OnDisk == [stamp : Int, born : 0 .. MaxClock]

TiersTypeOK ==
    /\ clock \in 0 .. MaxClock /\ back \in 0 .. MaxStepsBack
    /\ run \in 0 .. MaxRuns /\ faults \in Nat
    /\ state \in [Runs -> {"unborn", "open", "closed", "crashed"}]
    /\ timer \in [Runs -> BOOLEAN]
    /\ memory \in [Runs -> [Ids -> InMemory \cup {Nothing}]]
    /\ mirror \in [Runs -> [Ids -> OnDisk \cup {Nothing}]]
    /\ disk \in [Ids -> OnDisk \cup {Nothing}]

\* Only the latest run is open, and only an open run has a write pending.
OneRunIsOpen ==
    \A r \in Runs : (Open(r) => r = run) /\ (timer[r] => Open(r))

\* The entries of a store were stamped at their load, by a clock that lagged by
\* no more than it does now.
Stamped(store) ==
    \A id \in Ids : store[id] # Nothing =>
        store[id].born - back <= store[id].stamp /\ store[id].stamp <= store[id].born

\* The entries of a cache expire TtlMs after their load, or late by the setback.
Aging(cache) ==
    \A id \in Ids : cache[id] # Nothing => cache[id].until <= cache[id].born + TtlMs + back

AgesAreBounded ==
    /\ Stamped(disk)
    /\ \A r \in Runs : Stamped(mirror[r]) /\ Aging(memory[r])

\* What the run now, or the last one unless it crashed, has not yet to write is
\* in the file.
Written ==
    run > 0 /\ state[run] \in {"open", "closed"} /\ ~timer[run] /\ faults = 0
    => \A id \in Ids : mirror[run][id] # Nothing => disk[id] = mirror[run][id]

TiersInv == TiersTypeOK /\ OneRunIsOpen /\ AgesAreBounded /\ Written
-----------------------------------------------------------------------------
\* What load() keeps is as it was on disk.
LEMMA LoadedIsFromDisk ==
    ASSUME TiersTypeOK, Stamped(disk)
    PROVE  /\ Loaded \in [Ids -> OnDisk \cup {Nothing}]
           /\ \A id \in Ids : Loaded[id] # Nothing => Loaded[id] = disk[id]
           /\ Stamped(Loaded)
<1>1. \A id \in Ids : Loaded[id] = disk[id] \/ Loaded[id] = Nothing
  BY DEF Loaded
<1>2. Loaded \in [Ids -> OnDisk \cup {Nothing}]
  BY DEF Loaded, TiersTypeOK
<1> QED  BY <1>1, <1>2 DEF Stamped

\* Hydration grants no entry more than what is left of its window, and no more
\* than a whole one.
LEMMA HydratedAges ==
    ASSUME TiersTypeOK, Stamped(disk)
    PROVE  Hydrated \in [Ids -> InMemory \cup {Nothing}] /\ Aging(Hydrated)
<1>1. TtlMs \in Nat /\ MaxStepsBack \in Nat /\ MaxClock \in Nat
  BY TierBounds
<1>2. clock \in Int /\ back \in Int
  BY <1>1 DEF TiersTypeOK
<1>3. ASSUME NEW id \in Ids
      PROVE  /\ Hydrated[id] \in InMemory \cup {Nothing}
             /\ Hydrated[id] # Nothing => Hydrated[id].until <= Hydrated[id].born + TtlMs + back
  <2>1. CASE Hydrated[id] = Nothing
    BY <2>1
  <2>2. CASE Hydrated[id] # Nothing
    <3> DEFINE entry == Loaded[id]
    <3>1. entry # Nothing /\ Hydrated[id] = [until |-> clock + Remaining(entry), born |-> entry.born]
      BY <2>2 DEF Hydrated
    <3>2. entry \in OnDisk /\ entry.stamp <= entry.born
      BY <3>1, LoadedIsFromDisk DEF Stamped
    <3>3. entry.stamp \in Int /\ entry.born \in 0 .. MaxClock
      BY <3>2 DEF OnDisk
    <3> HIDE DEF entry
    <3>4. /\ Remaining(entry) \in Int /\ Remaining(entry) <= TtlMs
          /\ Remaining(entry) <= TtlMs - (clock - back - entry.stamp)
      BY <1>1, <1>2, <3>3 DEF Remaining, Wall
    <3>5. clock + Remaining(entry) <= entry.born + TtlMs + back
      BY <1>1, <1>2, <3>2, <3>3, <3>4
    <3> QED  BY <1>1, <1>2, <3>1, <3>3, <3>4, <3>5 DEF InMemory
  <2> QED  BY <2>1, <2>2
<1>4. Hydrated \in [Ids -> InMemory \cup {Nothing}]
  <2>1. Hydrated = [id \in Ids |-> Hydrated[id]]
    BY DEF Hydrated
  <2> QED  BY <1>3, <2>1
<1> QED  BY <1>3, <1>4 DEF Aging

LEMMA TiersInitKeepsInv == TierInit => TiersInv
<1> SUFFICES ASSUME TierInit PROVE TiersInv
  OBVIOUS
<1>1. /\ clock = 0 /\ back = 0 /\ run = 0 /\ faults = 0
      /\ state = [r \in Runs |-> "unborn"]
      /\ memory = [r \in Runs |-> Empty]
      /\ mirror = [r \in Runs |-> Empty]
      /\ timer = [r \in Runs |-> FALSE]
      /\ disk = Empty
  BY DEF TierInit
<1>2. Empty = [id \in Ids |-> Nothing]
  BY DEF Empty
<1>3. MaxClock \in Nat /\ MaxStepsBack \in Nat /\ MaxRuns \in Nat
  BY TierBounds
<1>4. TiersTypeOK
  BY <1>1, <1>2, <1>3 DEF TiersTypeOK
<1>5. OneRunIsOpen
  BY <1>1 DEF OneRunIsOpen, Open
<1>6. AgesAreBounded
  BY <1>1, <1>2 DEF AgesAreBounded, Stamped, Aging
<1>7. Written
  BY <1>1 DEF Written
<1> QED  BY <1>4, <1>5, <1>6, <1>7 DEF TiersInv

\* A write of the only run that may write keeps what is known of the file.
LEMMA WriteKeepsFile ==
    ASSUME TiersInv, NEW r \in Runs, r = run, WriteFile(r)
    PROVE  /\ disk' \in [Ids -> OnDisk \cup {Nothing}] /\ faults' \in Nat
           /\ Stamped(disk')
           /\ disk' = mirror[r] \/ faults' # 0
<1>1. CASE disk' = mirror[r] /\ faults' = faults
  BY <1>1 DEF TiersInv, TiersTypeOK, AgesAreBounded, Stamped
<1>2. CASE faults' = faults + 1 /\ disk' = disk
  <2>1. faults \in Nat /\ disk \in [Ids -> OnDisk \cup {Nothing}] /\ Stamped(disk)
    BY DEF TiersInv, TiersTypeOK, AgesAreBounded
  <2> QED  BY <1>2, <2>1 DEF Stamped
<1> QED  BY <1>1, <1>2 DEF WriteFile

LEMMA LoadSucceedsKeepsInv ==
    ASSUME TiersInv, NEW r \in Runs, NEW id \in Ids, LoadSucceeds(r, id)
    PROVE  TiersInv'
<1> DEFINE fresh == [until |-> clock + TtlMs, born |-> clock]
           stored == [stamp |-> Wall, born |-> clock]
<1>1. /\ UNCHANGED <<clock, back, run, state, disk, faults>>
      /\ memory' = [memory EXCEPT ![r][id] = fresh]
      /\ Persist(r, id)
  BY DEF LoadSucceeds
<1>2. /\ TiersTypeOK /\ OneRunIsOpen /\ AgesAreBounded /\ Written
  BY DEF TiersInv
<1>3. TtlMs \in Nat /\ MaxStepsBack \in Nat /\ MaxClock \in Nat
  BY TierBounds
<1>4. clock \in 0 .. MaxClock /\ clock \in Int /\ back \in Nat
  BY <1>2, <1>3 DEF TiersTypeOK
<1>5. fresh \in InMemory /\ fresh.until <= fresh.born + TtlMs + back
  BY <1>3, <1>4 DEF InMemory
<1>6. stored \in OnDisk /\ stored.born - back <= stored.stamp /\ stored.stamp <= stored.born
  BY <1>4 DEF OnDisk, Wall
<1>7. memory \in [Runs -> [Ids -> InMemory \cup {Nothing}]]
  BY <1>2 DEF TiersTypeOK
<1>8. mirror \in [Runs -> [Ids -> OnDisk \cup {Nothing}]] /\ timer \in [Runs -> BOOLEAN]
  BY <1>2 DEF TiersTypeOK
<1>9. \/ UNCHANGED <<mirror, timer>>
      \/ /\ Open(r)
         /\ mirror' = [mirror EXCEPT ![r][id] = stored]
         /\ timer' = [timer EXCEPT ![r] = TRUE]
  BY <1>1 DEF Persist
<1> HIDE DEF fresh, stored
<1>10. memory' \in [Runs -> [Ids -> InMemory \cup {Nothing}]]
  BY <1>1, <1>5, <1>7
<1>11. mirror' \in [Runs -> [Ids -> OnDisk \cup {Nothing}]] /\ timer' \in [Runs -> BOOLEAN]
  <2>1. CASE UNCHANGED <<mirror, timer>>
    BY <1>8, <2>1
  <2>2. CASE mirror' = [mirror EXCEPT ![r][id] = stored] /\ timer' = [timer EXCEPT ![r] = TRUE]
    <3>1. mirror' \in [Runs -> [Ids -> OnDisk \cup {Nothing}]]
      BY <1>6, <1>8, <2>2
    <3>2. timer' \in [Runs -> BOOLEAN]
      BY <1>8, <2>2
    <3> QED  BY <3>1, <3>2
  <2> QED  BY <1>9, <2>1, <2>2
<1>12. TiersTypeOK'
  BY <1>1, <1>2, <1>10, <1>11 DEF TiersTypeOK
<1>13. OneRunIsOpen'
  BY <1>1, <1>2, <1>8, <1>9 DEF OneRunIsOpen, Open
<1>14. \A q \in Runs, i \in Ids : memory'[q][i] = memory[q][i] \/ memory'[q][i] = fresh
  BY <1>1, <1>7
<1>15. \A q \in Runs, i \in Ids : mirror'[q][i] = mirror[q][i] \/ mirror'[q][i] = stored
  BY <1>8, <1>9
<1>16. AgesAreBounded'
  <2>1. Stamped(disk)'
    BY <1>1, <1>2 DEF AgesAreBounded, Stamped
  <2>2. \A q \in Runs : Stamped(mirror[q])'
    BY <1>1, <1>2, <1>6, <1>15 DEF AgesAreBounded, Stamped
  <2>3. \A q \in Runs : Aging(memory[q])'
    BY <1>1, <1>2, <1>5, <1>14 DEF AgesAreBounded, Aging
  <2> QED  BY <2>1, <2>2, <2>3 DEF AgesAreBounded
<1>17. Written'
  <2>1. CASE UNCHANGED <<mirror, timer>>
    BY <1>1, <1>2, <2>1 DEF Written
  <2>2. CASE Open(r) /\ timer' = [timer EXCEPT ![r] = TRUE]
    <3>1. r = run /\ timer'[run]
      BY <1>2, <1>8, <2>2 DEF OneRunIsOpen
    <3> QED  BY <1>1, <3>1 DEF Written
  <2> QED  BY <1>9, <2>1, <2>2
<1> QED  BY <1>12, <1>13, <1>16, <1>17 DEF TiersInv

LEMMA LoadFailsKeepsInv ==
    ASSUME TiersInv, NEW r \in Runs, NEW id \in Ids, NEW notFound \in BOOLEAN,
           LoadFails(r, id, notFound)
    PROVE  TiersInv'
<1>1. /\ UNCHANGED <<clock, back, run, state, mirror, timer, disk, faults>>
      /\ memory' = [memory EXCEPT ![r][id] = Nothing]
  BY DEF LoadFails
<1>2. /\ TiersTypeOK /\ OneRunIsOpen /\ AgesAreBounded /\ Written
  BY DEF TiersInv
<1>3. memory \in [Runs -> [Ids -> InMemory \cup {Nothing}]]
  BY <1>2 DEF TiersTypeOK
<1>4. /\ memory' \in [Runs -> [Ids -> InMemory \cup {Nothing}]]
      /\ \A q \in Runs, i \in Ids : memory'[q][i] = memory[q][i] \/ memory'[q][i] = Nothing
  BY <1>1, <1>3
<1>5. TiersTypeOK'
  BY <1>1, <1>2, <1>4 DEF TiersTypeOK
<1>6. OneRunIsOpen'
  BY <1>1, <1>2 DEF OneRunIsOpen, Open
<1>7. AgesAreBounded'
  <2>1. Stamped(disk)' /\ \A q \in Runs : Stamped(mirror[q])'
    BY <1>1, <1>2 DEF AgesAreBounded, Stamped
  <2>2. \A q \in Runs : Aging(memory[q])'
    BY <1>1, <1>2, <1>4 DEF AgesAreBounded, Aging
  <2> QED  BY <2>1, <2>2 DEF AgesAreBounded
<1>8. Written'
  BY <1>1, <1>2 DEF Written
<1> QED  BY <1>5, <1>6, <1>7, <1>8 DEF TiersInv

\* The debounced write, and the close of the source.
LEMMA WritingKeepsInv ==
    ASSUME TiersInv, NEW r \in Runs, TimerFires(r) \/ (CloseSource /\ r = run)
    PROVE  TiersInv'
<1>1. /\ TiersTypeOK /\ OneRunIsOpen /\ AgesAreBounded /\ Written
  BY DEF TiersInv
<1>2. /\ UNCHANGED <<clock, back, run, memory, mirror>>
      /\ timer' = [timer EXCEPT ![r] = FALSE]
      /\ state' = state \/ state' = [state EXCEPT ![r] = "closed"]
      /\ WriteFile(r) \/ (~timer[r] /\ UNCHANGED <<disk, faults>>)
      /\ Open(r)
  BY <1>1 DEF TimerFires, CloseSource, FlushOnClose, OneRunIsOpen
<1>3. r = run
  BY <1>1, <1>2 DEF OneRunIsOpen
<1>4. /\ disk' \in [Ids -> OnDisk \cup {Nothing}] /\ faults' \in Nat
      /\ Stamped(disk')
  <2>1. CASE WriteFile(r)
    BY <1>3, <2>1, WriteKeepsFile
  <2>2. CASE UNCHANGED <<disk, faults>>
    BY <1>1, <2>2 DEF TiersTypeOK, AgesAreBounded
  <2> QED  BY <1>2, <2>1, <2>2
<1>5. TiersTypeOK'
  BY <1>1, <1>2, <1>4 DEF TiersTypeOK
<1>6. OneRunIsOpen'
  <2>1. state \in [Runs -> {"unborn", "open", "closed", "crashed"}] /\ timer \in [Runs -> BOOLEAN]
    BY <1>1 DEF TiersTypeOK
  <2>2. \A q \in Runs : /\ state'[q] = "open" => state[q] = "open"
                        /\ timer'[q] => timer[q] /\ q # r
                        /\ q # r => state'[q] = state[q]
    BY <1>2, <2>1
  <2> QED  BY <1>1, <1>2, <2>2 DEF OneRunIsOpen, Open
<1>7. AgesAreBounded'
  BY <1>1, <1>2, <1>4 DEF AgesAreBounded, Stamped, Aging
<1>8. Written'
  <2> SUFFICES ASSUME faults' = 0, NEW id \in Ids, mirror[run][id] # Nothing
               PROVE  disk'[id] = mirror[run][id]
    BY <1>2 DEF Written
  <2>1. CASE WriteFile(r)
    BY <1>3, <2>1, WriteKeepsFile
  <2>2. CASE ~timer[r] /\ UNCHANGED <<disk, faults>>
    BY <1>1, <1>2, <1>3, <2>2 DEF Written, Open, Runs
  <2> QED  BY <1>2, <2>1, <2>2
<1> QED  BY <1>5, <1>6, <1>7, <1>8 DEF TiersInv

LEMMA CrashKeepsInv == TiersInv /\ Crash => TiersInv'
<1> SUFFICES ASSUME TiersInv, Crash PROVE TiersInv'
  OBVIOUS
<1>1. /\ TiersTypeOK /\ OneRunIsOpen /\ AgesAreBounded /\ Written
  BY DEF TiersInv
<1>2. /\ UNCHANGED <<clock, back, run, memory, mirror, disk, faults>>
      /\ state' = [r \in Runs |-> IF r > run THEN "unborn" ELSE "crashed"]
      /\ timer' = [r \in Runs |-> FALSE]
  BY DEF Crash
<1>3. \A r \in Runs : state'[r] \in {"unborn", "crashed"} /\ ~timer'[r]
  BY <1>2
<1>4. TiersTypeOK'
  BY <1>1, <1>2 DEF TiersTypeOK
<1>5. OneRunIsOpen'
  BY <1>2, <1>3 DEF OneRunIsOpen, Open
<1>6. AgesAreBounded'
  BY <1>1, <1>2 DEF AgesAreBounded, Stamped, Aging
<1>7. Written'
  <2>1. run > 0 => run \in Runs
    BY <1>1 DEF TiersTypeOK, Runs
  <2> QED  BY <1>2, <1>3, <2>1 DEF Written
<1> QED  BY <1>4, <1>5, <1>6, <1>7 DEF TiersInv

LEMMA StartKeepsInv == TiersInv /\ Start => TiersInv'
<1> SUFFICES ASSUME TiersInv, Start PROVE TiersInv'
  OBVIOUS
<1> DEFINE next == run + 1
<1>1. /\ TiersTypeOK /\ OneRunIsOpen /\ AgesAreBounded
  BY DEF TiersInv
<1>2. /\ UNCHANGED <<clock, back, timer, disk, faults>>
      /\ run' = next
      /\ state' = [state EXCEPT ![next] = "open"]
      /\ mirror' = [mirror EXCEPT ![next] = Loaded]
      /\ memory' = [memory EXCEPT ![next] = Hydrated]
      /\ run < MaxRuns /\ (run > 0 => ~Open(run))
  BY DEF Start
<1>3. next \in Runs /\ next \in 0 .. MaxRuns
  BY <1>1, <1>2, TierBounds DEF TiersTypeOK, Runs
<1>4. /\ Loaded \in [Ids -> OnDisk \cup {Nothing}] /\ Stamped(Loaded)
      /\ \A id \in Ids : Loaded[id] # Nothing => Loaded[id] = disk[id]
  BY <1>1, LoadedIsFromDisk DEF AgesAreBounded
<1>5. Hydrated \in [Ids -> InMemory \cup {Nothing}] /\ Aging(Hydrated)
  BY <1>1, HydratedAges DEF AgesAreBounded
<1>6. /\ state \in [Runs -> {"unborn", "open", "closed", "crashed"}]
      /\ memory \in [Runs -> [Ids -> InMemory \cup {Nothing}]]
      /\ mirror \in [Runs -> [Ids -> OnDisk \cup {Nothing}]]
  BY <1>1 DEF TiersTypeOK
<1>7. \A r \in Runs : ~Open(r) /\ ~timer[r]
  BY <1>1, <1>2 DEF OneRunIsOpen, Runs
<1> HIDE DEF next
<1>8. TiersTypeOK'
  BY <1>1, <1>2, <1>3, <1>4, <1>5, <1>6 DEF TiersTypeOK
<1>9. OneRunIsOpen'
  BY <1>2, <1>3, <1>6, <1>7 DEF OneRunIsOpen, Open
<1>10. AgesAreBounded'
  <2>1. \A r \in Runs : /\ mirror'[r] = IF r = next THEN Loaded ELSE mirror[r]
                        /\ memory'[r] = IF r = next THEN Hydrated ELSE memory[r]
    BY <1>2, <1>3, <1>6
  <2>2. Stamped(disk)' /\ \A r \in Runs : Stamped(mirror[r])'
    BY <1>1, <1>2, <1>4, <2>1 DEF AgesAreBounded, Stamped
  <2>3. \A r \in Runs : Aging(memory[r])'
    BY <1>1, <1>2, <1>5, <2>1 DEF AgesAreBounded, Aging
  <2> QED  BY <2>2, <2>3 DEF AgesAreBounded
<1>11. Written'
  BY <1>2, <1>3, <1>4, <1>6 DEF Written
<1> QED  BY <1>8, <1>9, <1>10, <1>11 DEF TiersInv

LEMMA DamageFileKeepsInv == TiersInv /\ DamageFile => TiersInv'
<1> SUFFICES ASSUME TiersInv, DamageFile PROVE TiersInv'
  OBVIOUS
<1>1. /\ TiersTypeOK /\ OneRunIsOpen /\ AgesAreBounded
  BY DEF TiersInv
<1>2. /\ UNCHANGED <<clock, back, run, state, memory, mirror, timer>>
      /\ disk' = [id \in Ids |-> Nothing] /\ faults' = faults + 1
  BY DEF DamageFile, Empty
<1>3. TiersTypeOK' /\ faults' # 0
  BY <1>1, <1>2 DEF TiersTypeOK
<1>4. OneRunIsOpen'
  BY <1>1, <1>2 DEF OneRunIsOpen, Open
<1>5. AgesAreBounded'
  BY <1>1, <1>2 DEF AgesAreBounded, Stamped, Aging
<1>6. Written'
  BY <1>3 DEF Written
<1> QED  BY <1>3, <1>4, <1>5, <1>6 DEF TiersInv

LEMMA AdvanceKeepsInv == ASSUME TiersInv, NEW setBack \in BOOLEAN, Advance(setBack) PROVE TiersInv'
<1>1. /\ TiersTypeOK /\ OneRunIsOpen /\ AgesAreBounded /\ Written
  BY DEF TiersInv
<1>2. /\ UNCHANGED <<run, state, memory, mirror, timer, disk, faults>>
      /\ clock < MaxClock /\ clock' = clock + 1
      /\ \/ back' = back
         \/ back' = back + 1 /\ back < MaxStepsBack
  BY DEF Advance
<1>3. MaxStepsBack \in Nat /\ MaxClock \in Nat /\ TtlMs \in Nat
  BY TierBounds
<1>4. clock' \in 0 .. MaxClock /\ back \in Nat /\ back' \in 0 .. MaxStepsBack /\ back <= back'
  BY <1>1, <1>2, <1>3 DEF TiersTypeOK
<1>5. TiersTypeOK'
  BY <1>1, <1>2, <1>4 DEF TiersTypeOK
<1>6. OneRunIsOpen'
  BY <1>1, <1>2 DEF OneRunIsOpen, Open
<1>7. AgesAreBounded'
  <2>1. ASSUME NEW store \in [Ids -> OnDisk \cup {Nothing}], Stamped(store)
        PROVE  \A id \in Ids : store[id] # Nothing =>
                  store[id].born - back' <= store[id].stamp /\ store[id].stamp <= store[id].born
    <3>1. \A id \in Ids : store[id] # Nothing => store[id].born \in Int /\ store[id].stamp \in Int
      BY DEF OnDisk
    <3> QED  BY <1>3, <1>4, <2>1, <3>1 DEF Stamped
  <2>2. ASSUME NEW cache \in [Ids -> InMemory \cup {Nothing}], Aging(cache)
        PROVE  \A id \in Ids : cache[id] # Nothing =>
                  cache[id].until <= cache[id].born + TtlMs + back'
    <3>1. \A id \in Ids : cache[id] # Nothing => cache[id].born \in Int /\ cache[id].until \in Int
      BY DEF InMemory
    <3> QED  BY <1>3, <1>4, <2>2, <3>1 DEF Aging
  <2>3. Stamped(disk)'
    BY <1>1, <1>2, <2>1 DEF AgesAreBounded, Stamped, TiersTypeOK
  <2>4. \A r \in Runs : Stamped(mirror[r])'
    BY <1>1, <1>2, <2>1 DEF AgesAreBounded, Stamped, TiersTypeOK
  <2>5. \A r \in Runs : Aging(memory[r])'
    BY <1>1, <1>2, <2>2 DEF AgesAreBounded, Aging, TiersTypeOK
  <2> QED  BY <2>3, <2>4, <2>5 DEF AgesAreBounded
<1>8. Written'
  BY <1>1, <1>2 DEF Written
<1> QED  BY <1>5, <1>6, <1>7, <1>8 DEF TiersInv

\* Every step of the specification keeps the invariant.
LEMMA TiersNextKeepsInv == TiersInv /\ [TierNext]_tierVars => TiersInv'
<1> SUFFICES ASSUME TiersInv, [TierNext]_tierVars PROVE TiersInv'
  OBVIOUS
<1>1. ASSUME NEW id \in Ids, StartLoad(id) PROVE TiersInv'
  BY <1>1 DEF StartLoad, TiersInv, TiersTypeOK, OneRunIsOpen, Open, AgesAreBounded, Stamped, Aging, Written
<1>2. ASSUME NEW r \in Runs, NEW id \in Ids, LoadSucceeds(r, id) PROVE TiersInv'
  BY <1>2, LoadSucceedsKeepsInv
<1>3. ASSUME NEW r \in Runs, NEW id \in Ids, NEW notFound \in BOOLEAN, LoadFails(r, id, notFound)
      PROVE TiersInv'
  BY <1>3, LoadFailsKeepsInv
<1>4. ASSUME NEW r \in Runs, TimerFires(r) PROVE TiersInv'
  BY <1>4, WritingKeepsInv
<1>5. CASE CloseSource
  <2>1. run \in Runs
    BY <1>5 DEF CloseSource, TiersInv, TiersTypeOK, Runs
  <2> QED  BY <1>5, <2>1, WritingKeepsInv
<1>6. CASE Crash
  BY <1>6, CrashKeepsInv
<1>7. CASE Start
  BY <1>7, StartKeepsInv
<1>8. CASE DamageFile
  BY <1>8, DamageFileKeepsInv
<1>9. ASSUME NEW setBack \in BOOLEAN, Advance(setBack) PROVE TiersInv'
  BY <1>9, AdvanceKeepsInv
<1>10. CASE UNCHANGED tierVars
  BY <1>10 DEF tierVars, TiersInv, TiersTypeOK, OneRunIsOpen, Open, AgesAreBounded, Stamped, Aging, Written
<1> QED
  BY <1>1, <1>2, <1>3, <1>4, <1>5, <1>6, <1>7, <1>8, <1>9, <1>10 DEF TierNext

LEMMA TiersInvariance == TierSpec => []TiersInv
<1> QED  BY TiersInitKeepsInv, TiersNextKeepsInv, PTL DEF TierSpec
-----------------------------------------------------------------------------
ServedNearlyWithinTtl ==
    \A r \in Runs, id \in Ids :
        Open(r) /\ Serves(r, id) => clock - memory[r][id].born <= TtlMs + back

\* However often the wall clock is set back and the plugin crashes, restarts or
\* finds a damaged file, a detail is served at most the TTL and the total setback
\* after its load (poi-cache.ts:82-84, poi-store.ts load).
THEOREM DetailsAreNearlyFresh == TierSpec => []ServedNearlyWithinTtl
<1>1. TiersInv => ServedNearlyWithinTtl
  <2> SUFFICES ASSUME TiersInv, NEW r \in Runs, NEW id \in Ids, Serves(r, id)
               PROVE  clock - memory[r][id].born <= TtlMs + back
    BY DEF ServedNearlyWithinTtl
  <2>1. TiersTypeOK /\ Aging(memory[r])
    BY DEF TiersInv, AgesAreBounded
  <2>2. /\ memory[r][id] \in InMemory
        /\ clock <= memory[r][id].until
        /\ memory[r][id].until <= memory[r][id].born + TtlMs + back
    BY <2>1 DEF Serves, TiersTypeOK, Aging
  <2>3. memory[r][id].until \in Int /\ memory[r][id].born \in Int
    BY <2>2, TierBounds DEF InMemory
  <2>4. clock \in Int /\ back \in Int /\ TtlMs \in Int
    BY <2>1, TierBounds DEF TiersTypeOK
  <2> QED  BY <2>2, <2>3, <2>4
<1> QED  BY <1>1, TiersInvariance, PTL

\* While the wall clock is never set back, no detail is served that was loaded
\* more than the TTL ago (poi-cache.ts:82-84).
THEOREM DetailsAreFresh ==
    ASSUME MaxStepsBack = 0
    PROVE  TierSpec => []ServedWithinTtl
<1>1. TiersInv /\ ServedNearlyWithinTtl => ServedWithinTtl
  <2> SUFFICES ASSUME TiersInv, ServedNearlyWithinTtl PROVE ServedWithinTtl
    OBVIOUS
  <2>1. back = 0
    BY DEF TiersInv, TiersTypeOK
  <2>2. TtlMs + back = TtlMs
    BY <2>1, TierBounds
  <2> QED  BY <2>2 DEF ServedNearlyWithinTtl, ServedWithinTtl
<1> QED  BY <1>1, TiersInvariance, DetailsAreNearlyFresh, PTL

\* A run that is over writes no file and records no outcome
\* (active-captain-source.ts:131-150).
THEOREM ClosedRunsAreSilent == TierSpec => OverIsSilent
<1> DEFINE Silence == /\ disk' # disk /\ faults' = faults => run > 0 /\ Open(run)
                      /\ outcome'.of # 0 => Open(outcome'.of)
<1>1. TiersInv /\ [TierNext]_tierVars => [Silence]_tierVars
  <2> SUFFICES ASSUME TiersInv, TierNext PROVE Silence
    OBVIOUS
  <2>1. /\ TiersTypeOK /\ \A r \in Runs : (Open(r) => r = run) /\ (timer[r] => Open(r))
    BY DEF TiersInv, OneRunIsOpen
  <2>2. ASSUME NEW r \in Runs, Open(r) PROVE run > 0 /\ Open(run)
    BY <2>1, <2>2, TierBounds DEF Runs
  <2>3. Silent.of = 0
    BY DEF Silent
  <2>4. ASSUME NEW id \in Ids, StartLoad(id) PROVE Silence
    BY <2>3, <2>4 DEF StartLoad
  <2>5. ASSUME NEW r \in Runs, NEW said, Record(r, said) PROVE outcome'.of # 0 => Open(outcome'.of)
    BY <2>3, <2>5 DEF Record
  <2>6. ASSUME NEW r \in Runs, NEW id \in Ids, LoadSucceeds(r, id) PROVE Silence
    BY <2>5, <2>6 DEF LoadSucceeds
  <2>7. ASSUME NEW r \in Runs, NEW id \in Ids, NEW notFound \in BOOLEAN, LoadFails(r, id, notFound)
        PROVE Silence
    BY <2>5, <2>7 DEF LoadFails
  <2>8. ASSUME NEW r \in Runs, TimerFires(r) PROVE Silence
    BY <2>1, <2>2, <2>3, <2>8 DEF TimerFires
  <2>9. CASE CloseSource
    BY <2>3, <2>9 DEF CloseSource
  <2>10. CASE Crash \/ Start
    BY <2>3, <2>10 DEF Crash, Start
  <2>11. CASE DamageFile
    <3>1. faults' # faults
      BY <2>1, <2>11 DEF DamageFile, TiersTypeOK
    <3> QED  BY <2>3, <2>11, <3>1 DEF DamageFile
  <2>12. ASSUME NEW setBack \in BOOLEAN, Advance(setBack) PROVE Silence
    BY <2>3, <2>12 DEF Advance
  <2> QED
    BY <2>4, <2>6, <2>7, <2>8, <2>9, <2>10, <2>11, <2>12 DEF TierNext
<1> QED  BY <1>1, TiersInvariance, PTL DEF TierSpec, OverIsSilent

\* After a clean stop the next run serves, without a request, every detail the
\* stopped run had and that is still fresh, also when the wall clock has been set
\* back (poi-store.ts:15-18).
THEOREM CleanRestartsKeepDetails == TierSpec => CleanRestartKeepsFresh
<1> DEFINE Kept ==
      (run > 0 /\ run' = run + 1 /\ state[run] = "closed" /\ faults = 0)
       => \A id \in Ids :
            mirror[run][id] # Nothing /\ clock - mirror[run][id].born < TtlMs
            => memory'[run'][id] # Nothing /\ clock <= memory'[run'][id].until
<1>1. TiersInv /\ [TierNext]_tierVars => [Kept]_tierVars
  <2> SUFFICES ASSUME TiersInv, TierNext, run > 0, run' = run + 1, state[run] = "closed", faults = 0,
                      NEW id \in Ids, mirror[run][id] # Nothing,
                      clock - mirror[run][id].born < TtlMs
               PROVE  memory'[run'][id] # Nothing /\ clock <= memory'[run'][id].until
    OBVIOUS
  <2>1. TiersTypeOK /\ OneRunIsOpen /\ AgesAreBounded /\ Written
    BY DEF TiersInv
  <2>2. run \in Runs /\ run \in Int
    BY <2>1 DEF TiersTypeOK, Runs
  <2>3. Start
    <3>1. run' # run
      BY <2>2
    <3> QED  BY <3>1 DEF TierNext, StartLoad, LoadSucceeds, LoadFails, TimerFires, CloseSource,
                         Crash, DamageFile, Advance
  <2> DEFINE entry == mirror[run][id]
  <2>4. entry \in OnDisk /\ entry.born - back <= entry.stamp /\ entry.stamp <= entry.born
    BY <2>1, <2>2 DEF TiersTypeOK, AgesAreBounded, Stamped
  <2>5. disk[id] = entry
    <3>1. ~timer[run]
      BY <2>1, <2>2 DEF OneRunIsOpen, Open
    <3> QED  BY <2>1, <3>1 DEF Written
  <2>6. entry # Nothing /\ clock - entry.born < TtlMs
    OBVIOUS
  <2>7. entry.born \in 0 .. MaxClock /\ entry.stamp \in Int
    BY <2>4 DEF OnDisk
  <2>8. memory'[run'] = Hydrated
    BY <2>1, <2>3, TierBounds DEF Start, TiersTypeOK, Runs
  <2> HIDE DEF entry
  <2>9. clock \in 0 .. MaxClock /\ back \in Nat /\ TtlMs \in Nat \ {0} /\ MaxClock \in Nat
    BY <2>1, TierBounds DEF TiersTypeOK
  <2>10. Loaded[id] = entry
    BY <2>4, <2>5, <2>6, <2>7, <2>9 DEF Loaded, Wall
  <2>11. Remaining(entry) \in 1 .. TtlMs
    BY <2>4, <2>6, <2>7, <2>9 DEF Remaining, Wall
  <2>12. Hydrated[id] = [until |-> clock + Remaining(entry), born |-> entry.born]
    BY <2>6, <2>10, <2>11 DEF Hydrated
  <2>13. clock + Remaining(entry) \in 0 .. MaxClock + TtlMs /\ clock <= clock + Remaining(entry)
    BY <2>9, <2>11
  <2>14. Hydrated[id] # Nothing
    BY <2>7, <2>12, <2>13, NothingIsNoEntry
  <2> QED  BY <2>8, <2>12, <2>13, <2>14
<1> QED  BY <1>1, TiersInvariance, PTL DEF TierSpec, CleanRestartKeepsFresh
-----------------------------------------------------------------------------
(* The lists. *)

Entry == [box : Boxes, call : Calls, at : Nat]
Fetch == [box : Boxes, at : Nat, state : {"pending", "value", "failed"}]

TypeOK ==
    /\ now \in Nat
    /\ slots \in Seq(Entry)
    /\ fetches \in [Calls -> Fetch \cup {None}]
    /\ joined \in [Calls -> Calls \cup {None}]
    /\ asked \in [Calls -> Boxes \cup {None}]
    /\ listed \in [Calls -> [back : BOOLEAN, ok : BOOLEAN, found : SUBSET Pois]]
    /\ acClosed \in BOOLEAN

Distinct(s) == \A i, j \in DOMAIN s : s[i].box = s[j].box => i = j

\* A slot holds a promise that was not rejected, of the call that made the fetch.
HoldsPromise(entry) ==
    /\ fetches[entry.call] \in Fetch
    /\ fetches[entry.call].box = entry.box
    /\ fetches[entry.call].at = entry.at
    /\ fetches[entry.call].state # "failed"
    /\ joined[entry.call] = entry.call

\* A call that was made awaits a fetch for the key it asked for.
CallsAwaitTheirKey ==
    \A c \in Calls :
        /\ joined[c] = None => asked[c] = None /\ ~listed[c].ok
        /\ joined[c] # None =>
             /\ asked[c] # None
             /\ asked[joined[c]] = asked[c]
             /\ fetches[joined[c]] \in Fetch
             /\ fetches[joined[c]].box = asked[c]

\* A fetch that a further call could still share.
Good(f) ==
    fetches[f] # None /\ fetches[f].state # "failed" /\ now - fetches[f].at <= Ttl

GoodIsHeld ==
    ~acClosed /\ Ttl > 0 /\ IsFiniteSet(Boxes) /\ Cardinality(Boxes) <= MaxEntries =>
        \A f \in Calls : Good(f) => \E entry \in ToSet(slots) : entry.call = f

PromisesAreHeld == \A entry \in ToSet(slots) : HoldsPromise(entry)

Inv ==
    /\ TypeOK
    /\ Distinct(slots)
    /\ PromisesAreHeld
    /\ CallsAwaitTheirKey
    /\ GoodIsHeld
    /\ AnsweredForItsTypes
-----------------------------------------------------------------------------
(* The slots as a sequence. *)

LEMMA SlotsOf ==
    ASSUME NEW s \in Seq(Entry)
    PROVE  /\ DOMAIN s = 1 .. Len(s) /\ Len(s) \in Nat
           /\ \A i \in 1 .. Len(s) : s[i] \in Entry /\ s[i] \in ToSet(s)
           /\ \A e \in ToSet(s) : e \in Entry /\ \E i \in 1 .. Len(s) : s[i] = e
<1> QED  BY DEF ToSet

LEMMA AppendSlot ==
    ASSUME NEW s \in Seq(Entry), Distinct(s), NEW e \in Entry,
           \A x \in ToSet(s) : x.box # e.box
    PROVE  /\ Append(s, e) \in Seq(Entry) /\ Distinct(Append(s, e))
           /\ ToSet(Append(s, e)) = ToSet(s) \cup {e}
<1> DEFINE t == Append(s, e)
<1>1. /\ t \in Seq(Entry) /\ Len(t) = Len(s) + 1 /\ DOMAIN t = 1 .. Len(s) + 1
      /\ \A i \in 1 .. Len(s) : t[i] = s[i]
      /\ t[Len(s) + 1] = e
  OBVIOUS
<1>2. DOMAIN s = 1 .. Len(s) /\ Len(s) \in Nat
  OBVIOUS
<1>3. \A i \in 1 .. Len(s) : s[i] \in ToSet(s)
  BY SlotsOf
<1> HIDE DEF t
<1>4. Distinct(t)
  <2> SUFFICES ASSUME NEW i \in DOMAIN t, NEW j \in DOMAIN t, t[i].box = t[j].box PROVE i = j
    BY DEF Distinct
  <2>1. CASE i \in 1 .. Len(s) /\ j \in 1 .. Len(s)
    BY <1>1, <1>2, <2>1 DEF Distinct
  <2>2. CASE i = Len(s) + 1 \/ j = Len(s) + 1
    BY <1>1, <1>2, <1>3, <2>2
  <2> QED  BY <1>1, <1>2, <2>1, <2>2
<1>5. ToSet(t) = ToSet(s) \cup {e}
  BY <1>1, <1>2 DEF ToSet
<1> QED  BY <1>1, <1>4, <1>5 DEF t

LEMMA TailOfSlots ==
    ASSUME NEW s \in Seq(Entry), Distinct(s), s # <<>>
    PROVE  Tail(s) \in Seq(Entry) /\ Distinct(Tail(s)) /\ ToSet(Tail(s)) \subseteq ToSet(s)
<1> DEFINE t == Tail(s)
<1>1. /\ t \in Seq(Entry) /\ DOMAIN t = 1 .. Len(s) - 1
      /\ \A i \in 1 .. Len(s) - 1 : t[i] = s[i + 1]
      /\ Len(s) \in Nat /\ DOMAIN s = 1 .. Len(s)
  OBVIOUS
<1> HIDE DEF t
<1>2. Distinct(t)
  <2> SUFFICES ASSUME NEW i \in DOMAIN t, NEW j \in DOMAIN t, t[i].box = t[j].box PROVE i = j
    BY DEF Distinct
  <2>1. i + 1 \in DOMAIN s /\ j + 1 \in DOMAIN s /\ s[i + 1].box = s[j + 1].box
    BY <1>1
  <2>2. i + 1 = j + 1
    BY <2>1 DEF Distinct
  <2> QED  BY <1>1, <2>2
<1>3. ToSet(t) \subseteq ToSet(s)
  BY <1>1 DEF ToSet
<1> QED  BY <1>1, <1>2, <1>3 DEF t

LEMMA RearOfSlots ==
    ASSUME NEW s \in Seq(Entry), NEW m \in 1 .. Len(s) + 1
    PROVE  LET rear == SubSeq(s, m, Len(s)) IN
           /\ rear \in Seq(Entry) /\ Len(rear) = Len(s) + 1 - m
           /\ \A i \in 1 .. Len(s) + 1 - m : rear[i] = s[m + i - 1]
<1> DEFINE k == Len(s)
<1>1. m \in Int /\ k \in Int /\ k \in Nat /\ \A i \in m .. k : s[i] \in Entry
  OBVIOUS
<1> HIDE DEF k
<1>2. /\ SubSeq(s, m, k) \in Seq(Entry)
      /\ Len(SubSeq(s, m, k)) = IF m <= k THEN k - m + 1 ELSE 0
      /\ \A i \in 1 .. k - m + 1 : SubSeq(s, m, k)[i] = s[m + i - 1]
  <2>1. SubSeq(s, m, k) \in Seq(Entry)
    BY <1>1
  <2>2. Len(SubSeq(s, m, k)) = IF m <= k THEN k - m + 1 ELSE 0
    BY <1>1
  <2>3. \A i \in 1 .. k - m + 1 : SubSeq(s, m, k)[i] = s[m + i - 1]
    BY <1>1
  <2>4. QED BY <2>1, <2>2, <2>3
<1>3. m \in 1 .. k + 1
  BY DEF k
<1>4. (IF m <= k THEN k - m + 1 ELSE 0) = k + 1 - m /\ k - m + 1 = k + 1 - m
  BY <1>1, <1>3
<1> DEFINE rear == SubSeq(s, m, k)
<1> HIDE DEF rear
<1>5. rear \in Seq(Entry) /\ Len(rear) = k + 1 - m
  BY <1>2, <1>4 DEF rear
<1>6. \A i \in 1 .. k + 1 - m : rear[i] = s[m + i - 1]
  BY <1>2, <1>4 DEF rear
<1> QED  BY <1>5, <1>6 DEF rear, k

LEMMA OthersOfSlots ==
    ASSUME slots \in Seq(Entry), Distinct(slots), NEW box \in Boxes
    PROVE  /\ Others(box) \in Seq(Entry) /\ Distinct(Others(box))
           /\ ToSet(Others(box)) = {e \in ToSet(slots) : e.box # box}
<1> DEFINE of == {i \in DOMAIN slots : slots[i].box = box}
           n == CHOOSE i \in of : TRUE
<1>1. DOMAIN slots = 1 .. Len(slots) /\ Len(slots) \in Nat
  OBVIOUS
<1>2. CASE of = {}
  <2>1. Others(box) = slots
    BY <1>2 DEF Others
  <2> QED  BY <1>2, <2>1 DEF ToSet
<1>3. CASE of # {}
  <2>1. n \in 1 .. Len(slots) /\ slots[n].box = box
    BY <1>1, <1>3
  <2> DEFINE t == Others(box)
  <2>2. t = SubSeq(slots, 1, n - 1) \o SubSeq(slots, n + 1, Len(slots))
    BY <1>3 DEF Others, RemoveAt
  <2> HIDE DEF n, of
  <2>3. /\ t \in Seq(Entry) /\ DOMAIN t = 1 .. Len(slots) - 1
        /\ \A i \in 1 .. Len(slots) - 1 : t[i] = IF i < n THEN slots[i] ELSE slots[i + 1]
    <3> DEFINE front == SubSeq(slots, 1, n - 1)
               rear == SubSeq(slots, n + 1, Len(slots))
    <3>1. /\ front \in Seq(Entry) /\ Len(front) = n - 1
          /\ \A i \in 1 .. n - 1 : front[i] = slots[i]
      BY <1>1, <2>1
    <3>2. /\ rear \in Seq(Entry) /\ Len(rear) = Len(slots) - n
          /\ \A i \in 1 .. Len(slots) - n : rear[i] = slots[n + i]
      <4> DEFINE m == n + 1
      <4>1. m \in 1 .. Len(slots) + 1 /\ m = n + 1
        BY <1>1, <2>1
      <4>2. rear = SubSeq(slots, m, Len(slots))
        OBVIOUS
      <4> HIDE DEF m, rear
      <4>3. rear \in Seq(Entry) /\ Len(rear) = Len(slots) + 1 - m
        BY <4>1, <4>2, RearOfSlots, Zenon
      <4>4. \A i \in 1 .. Len(slots) + 1 - m : rear[i] = slots[m + i - 1]
        BY <4>1, <4>2, RearOfSlots, Zenon
      <4>5. Len(slots) + 1 - m = Len(slots) - n
        <5>1. \A a, b \in Int : a + 1 - (b + 1) = a - b
          OBVIOUS
        <5>2. Len(slots) \in Int /\ n \in Int
          BY <1>1, <2>1
        <5> QED  BY <4>1, <5>1, <5>2
      <4>6. \A i \in 1 .. Len(slots) - n : rear[i] = slots[m + i - 1] /\ m + i - 1 = n + i
        BY <1>1, <2>1, <4>1, <4>4, <4>5
      <4> QED  BY <4>3, <4>5, <4>6
    <3>3. t = front \o rear
      BY <2>2
    <3> HIDE DEF front, rear, t
    <3>4. /\ t \in Seq(Entry) /\ Len(t) = Len(slots) - 1 /\ DOMAIN t = 1 .. Len(slots) - 1
          /\ \A i \in 1 .. Len(slots) - 1 :
               t[i] = IF i <= n - 1 THEN front[i] ELSE rear[i - (n - 1)]
      <4>1. /\ t \in Seq(Entry)
            /\ Len(t) = Len(front) + Len(rear)
            /\ \A i \in 1 .. Len(front) + Len(rear) : t[i] =
                 IF i <= Len(front) THEN front[i] ELSE rear[i - Len(front)]
        BY <3>1, <3>2, <3>3, ConcatProperties, Zenon
      <4>2. Len(front) + Len(rear) = Len(slots) - 1
        BY <1>1, <2>1, <3>1, <3>2
      <4>3. DOMAIN t = 1 .. Len(t)
        BY <4>1
      <4> QED  BY <3>1, <4>1, <4>2, <4>3
    <3>5. ASSUME NEW i \in 1 .. Len(slots) - 1
          PROVE  t[i] = IF i < n THEN slots[i] ELSE slots[i + 1]
      <4>1. CASE i < n
        BY <1>1, <2>1, <3>1, <3>4, <4>1
      <4>2. CASE ~(i < n)
        <5>1. i - (n - 1) \in 1 .. Len(slots) - n /\ n + (i - (n - 1)) = i + 1
          BY <1>1, <2>1, <4>2
        <5>2. t[i] = rear[i - (n - 1)]
          BY <1>1, <2>1, <3>4, <4>2
        <5>3. rear[i - (n - 1)] = slots[n + (i - (n - 1))]
          BY <3>2, <5>1
        <5> QED  BY <4>2, <5>1, <5>2, <5>3
      <4> QED  BY <4>1, <4>2
    <3> QED  BY <1>1, <3>4, <3>5
  <2> HIDE DEF t
  <2>4. \A i \in 1 .. Len(slots) : i # n => slots[i].box # box
    BY <1>1, <2>1 DEF Distinct
  <2>5. Distinct(t)
    <3> SUFFICES ASSUME NEW i \in DOMAIN t, NEW j \in DOMAIN t, t[i].box = t[j].box PROVE i = j
      BY DEF Distinct
    <3> DEFINE old(k) == IF k < n THEN k ELSE k + 1
    <3>1. old(i) \in 1 .. Len(slots) /\ old(j) \in 1 .. Len(slots)
      BY <1>1, <2>1, <2>3
    <3>2. t[i] = slots[old(i)] /\ t[j] = slots[old(j)]
      BY <2>3
    <3>3. old(i) = old(j)
      BY <1>1, <3>1, <3>2 DEF Distinct
    <3> QED  BY <1>1, <2>1, <2>3, <3>3
  <2>6. ToSet(t) = {e \in ToSet(slots) : e.box # box}
    <3>1. ASSUME NEW i \in 1 .. Len(slots) - 1
          PROVE  t[i] \in ToSet(slots) /\ t[i].box # box
      <4>1. CASE i < n
        BY <1>1, <2>1, <2>3, <2>4, <4>1 DEF ToSet
      <4>2. CASE ~(i < n)
        BY <1>1, <2>1, <2>3, <2>4, <4>2 DEF ToSet
      <4> QED  BY <4>1, <4>2
    <3>2. ASSUME NEW i \in 1 .. Len(slots), slots[i].box # box
          PROVE  slots[i] \in ToSet(t)
      <4>1. i # n
        BY <2>1, <3>2
      <4>2. CASE i < n
        <5>1. i \in 1 .. Len(slots) - 1 /\ t[i] = slots[i]
          BY <1>1, <2>1, <2>3, <4>2
        <5> QED  BY <2>3, <5>1 DEF ToSet
      <4>3. CASE i > n
        <5>1. i - 1 \in 1 .. Len(slots) - 1 /\ t[i - 1] = slots[i]
          BY <1>1, <2>1, <2>3, <4>3
        <5> QED  BY <2>3, <5>1 DEF ToSet
      <4> QED  BY <1>1, <2>1, <4>1, <4>2, <4>3
    <3> QED  BY <1>1, <2>3, <3>1, <3>2 DEF ToSet
  <2> QED  BY <2>3, <2>5, <2>6 DEF t
<1> QED  BY <1>2, <1>3

\* Slots of distinct boxes, none of them box, leave room while the boxes fit.
LEMMA BoxesLeaveRoom ==
    ASSUME IsFiniteSet(Boxes), Cardinality(Boxes) <= MaxEntries, NEW box \in Boxes,
           NEW s \in Seq(Entry), Distinct(s), \A e \in ToSet(s) : e.box # box
    PROVE  Len(s) < MaxEntries
<1>1. Cardinality(Boxes) \in Nat /\ MaxEntries \in Nat /\ Len(s) \in Nat
  BY FS_CardinalityType, TtlIsNat
<1>2. IsFiniteSet(Boxes \ {box}) /\ Cardinality(Boxes \ {box}) = Cardinality(Boxes) - 1
  BY FS_RemoveElement
<1>3. IsFiniteSet(1 .. Len(s)) /\ Cardinality(1 .. Len(s)) = Len(s)
  <2>1. 1 \in Int /\ Len(s) \in Int
    BY <1>1
  <2>2. /\ IsFiniteSet(1 .. Len(s))
        /\ Cardinality(1 .. Len(s)) = IF 1 > Len(s) THEN 0 ELSE Len(s) - 1 + 1
    BY <2>1, FS_Interval, Zenon
  <2> QED  BY <1>1, <2>2
<1> DEFINE boxOf == [i \in 1 .. Len(s) |-> s[i].box]
<1>4. boxOf \in [1 .. Len(s) -> Boxes \ {box}]
  BY SlotsOf DEF Entry
<1>5. \A x, y \in 1 .. Len(s) : x # y => boxOf[x] # boxOf[y]
  BY DEF Distinct
<1> HIDE DEF boxOf
<1>6. ~(Cardinality(Boxes \ {box}) < Cardinality(1 .. Len(s)))
  BY <1>2, <1>3, <1>4, <1>5, FS_PigeonHole
<1> QED  BY <1>1, <1>2, <1>3, <1>6
-----------------------------------------------------------------------------
(* The steps. *)

LEMMA OneSlotPerBox ==
    ASSUME NEW s \in Seq(Entry), Distinct(s)
    PROVE  \A x, y \in ToSet(s) : x.box = y.box => x = y
<1> SUFFICES ASSUME NEW x \in ToSet(s), NEW y \in ToSet(s), x.box = y.box PROVE x = y
  OBVIOUS
<1>1. PICK i \in DOMAIN s : s[i] = x
  BY SlotsOf
<1>2. PICK j \in DOMAIN s : s[j] = y
  BY SlotsOf
<1> QED  BY <1>1, <1>2 DEF Distinct

\* What the invariant says of a slot.
LEMMA SlotFacts ==
    ASSUME Inv
    PROVE  \A e \in ToSet(slots) :
             /\ e \in Entry /\ e.call \in Calls /\ e.call # None
             /\ joined[e.call] = e.call /\ asked[e.call] = e.box
             /\ fetches[e.call] \in Fetch /\ fetches[e.call].box = e.box
<1> SUFFICES ASSUME NEW e \in ToSet(slots)
             PROVE  /\ e \in Entry /\ e.call \in Calls /\ e.call # None
                    /\ joined[e.call] = e.call /\ asked[e.call] = e.box
                    /\ fetches[e.call] \in Fetch /\ fetches[e.call].box = e.box
  OBVIOUS
<1>1. e \in Entry
  BY SlotsOf DEF Inv, TypeOK
<1>2. e.call \in Calls /\ e.call # None
  BY <1>1, NoneIsNoCall DEF Entry
<1>3. HoldsPromise(e)
  BY DEF Inv, PromisesAreHeld
<1>4. asked[e.call] = e.box
  BY <1>2, <1>3 DEF Inv, CallsAwaitTheirKey, HoldsPromise
<1> QED  BY <1>1, <1>2, <1>3, <1>4 DEF HoldsPromise

\* A good fetch has its slot, and a slot of it is fresh.
LEMMA GoodIsFresh ==
    ASSUME Inv, NEW f \in Calls, Good(f), NEW e \in ToSet(slots), e.call = f
    PROVE  Fresh(e) /\ fetches[f].box = e.box
<1> QED  BY DEF Inv, PromisesAreHeld, HoldsPromise, Good, Fresh

LEMMA HitStep ==
    ASSUME Inv, NEW c \in Calls, NEW key \in Boxes, AcList(c, key), Held(key) # {}
    PROVE  Inv' /\ joined'[c] # c /\ JoinIsGood(c)
<1>1. /\ joined[c] = None /\ asked[c] = None /\ ~acClosed
      /\ fetches' = fetches /\ now' = now /\ listed' = listed /\ acClosed' = acClosed
      /\ asked' = [asked EXCEPT ![c] = key]
  BY DEF AcList, Get, KeyOf
<1>2. PICK e \in Held(key) : /\ joined' = [joined EXCEPT ![c] = e.call]
                             /\ slots' = Append(Others(key), e)
  BY DEF AcList, Get, KeyOf
<1>3. TypeOK /\ Distinct(slots) /\ PromisesAreHeld /\ CallsAwaitTheirKey /\ GoodIsHeld
      /\ AnsweredForItsTypes
  BY DEF Inv
<1>4. e \in ToSet(slots) /\ e.box = key /\ Fresh(e)
  BY DEF Held
<1>5. /\ e \in Entry /\ e.call \in Calls /\ e.call # c /\ HoldsPromise(e)
      /\ asked[e.call] = key
  BY <1>1, <1>3, <1>4, SlotFacts DEF PromisesAreHeld
<1>6. /\ Others(key) \in Seq(Entry) /\ Distinct(Others(key))
      /\ ToSet(Others(key)) = {x \in ToSet(slots) : x.box # key}
  BY <1>3, OthersOfSlots DEF TypeOK
<1>7. slots' \in Seq(Entry) /\ Distinct(slots') /\ ToSet(slots') = ToSet(Others(key)) \cup {e}
  BY <1>2, <1>4, <1>5, <1>6, AppendSlot
<1>8. ToSet(slots') = ToSet(slots)
  BY <1>3, <1>4, <1>6, <1>7, OneSlotPerBox DEF TypeOK
<1>9. TypeOK'
  BY <1>1, <1>2, <1>3, <1>5, <1>7 DEF TypeOK
<1>10. PromisesAreHeld'
  <2> SUFFICES ASSUME NEW x \in ToSet(slots) PROVE HoldsPromise(x)'
    BY <1>8 DEF PromisesAreHeld
  <2>1. HoldsPromise(x) /\ x.call # c /\ x.call \in Calls
    BY <1>1, <1>3, SlotFacts DEF PromisesAreHeld
  <2> QED  BY <1>1, <1>2, <1>3, <2>1 DEF HoldsPromise, TypeOK
<1>11. CallsAwaitTheirKey'
  <2> SUFFICES ASSUME NEW d \in Calls
               PROVE  /\ joined'[d] = None => asked'[d] = None /\ ~listed'[d].ok
                      /\ joined'[d] # None =>
                           /\ asked'[d] # None
                           /\ asked'[joined'[d]] = asked'[d]
                           /\ fetches'[joined'[d]] \in Fetch
                           /\ fetches'[joined'[d]].box = asked'[d]
    BY DEF CallsAwaitTheirKey
  <2>1. CASE d = c
    <3>1. joined'[c] = e.call /\ asked'[c] = key /\ asked'[e.call] = key
      BY <1>1, <1>2, <1>3, <1>5 DEF TypeOK
    <3> QED  BY <1>1, <1>4, <1>5, <2>1, <3>1, NoneIsNoCall DEF HoldsPromise
  <2>2. CASE d # c
    <3>1. joined'[d] = joined[d] /\ asked'[d] = asked[d]
      BY <1>1, <1>2, <1>3, <2>2 DEF TypeOK
    <3>2. joined[d] # None => joined[d] \in Calls /\ joined[d] # c
      BY <1>1, <1>3 DEF TypeOK, CallsAwaitTheirKey
    <3>3. joined[d] # None => asked'[joined[d]] = asked[joined[d]]
      BY <1>1, <1>3, <3>2 DEF TypeOK
    <3> QED  BY <1>1, <1>3, <3>1, <3>3 DEF CallsAwaitTheirKey
  <2> QED  BY <2>1, <2>2
<1>12. GoodIsHeld'
  BY <1>1, <1>3, <1>8 DEF GoodIsHeld, Good
<1>13. AnsweredForItsTypes'
  <2> SUFFICES ASSUME NEW d \in Calls, listed[d].ok PROVE asked'[d] = asked[d]
    BY <1>1, <1>3 DEF AnsweredForItsTypes
  <2>1. d # c
    BY <1>1, <1>3 DEF CallsAwaitTheirKey
  <2> QED  BY <1>1, <1>3, <2>1 DEF TypeOK
<1>14. joined'[c] # c /\ JoinIsGood(c)
  <2>1. joined'[c] = e.call
    BY <1>2, <1>3 DEF TypeOK
  <2> QED  BY <1>4, <1>5, <2>1 DEF JoinIsGood, HoldsPromise, Fresh
<1> QED  BY <1>7, <1>9, <1>10, <1>11, <1>12, <1>13, <1>14 DEF Inv

LEMMA MissStep ==
    ASSUME Inv, NEW c \in Calls, NEW key \in Boxes, AcList(c, key), Held(key) = {}
    PROVE  /\ Inv' /\ joined'[c] = c
           /\ Ttl > 0 /\ IsFiniteSet(Boxes) /\ Cardinality(Boxes) <= MaxEntries => FetchIsDue(c)
<1> DEFINE fetch == [box |-> key, at |-> now, state |-> "pending"]
           e == [box |-> key, call |-> c, at |-> now]
           rest == Room(Others(key))
<1>1. /\ joined[c] = None /\ asked[c] = None /\ ~acClosed
      /\ now' = now /\ listed' = listed /\ acClosed' = acClosed
      /\ asked' = [asked EXCEPT ![c] = key]
      /\ joined' = [joined EXCEPT ![c] = c]
      /\ fetches' = [fetches EXCEPT ![c] = fetch]
      /\ slots' = IF Ttl = 0 THEN slots ELSE Append(rest, e)
  BY DEF AcList, Get, KeyOf
<1>2. TypeOK /\ Distinct(slots) /\ PromisesAreHeld /\ CallsAwaitTheirKey /\ GoodIsHeld
      /\ AnsweredForItsTypes
  BY DEF Inv
<1>3. fetch \in Fetch /\ e \in Entry /\ e.box = key /\ e.call = c /\ e.at = now
  BY <1>2 DEF TypeOK, Fetch, Entry
<1>4. fetch.box = key /\ fetch.at = now /\ fetch.state = "pending"
  OBVIOUS
<1> HIDE DEF fetch, e
<1>5. /\ Others(key) \in Seq(Entry) /\ Distinct(Others(key))
      /\ ToSet(Others(key)) = {x \in ToSet(slots) : x.box # key}
  BY <1>2, OthersOfSlots DEF TypeOK
<1>6. /\ rest \in Seq(Entry) /\ Distinct(rest)
      /\ ToSet(rest) \subseteq {x \in ToSet(slots) : x.box # key}
  <2>1. CASE Len(Others(key)) < MaxEntries
    BY <1>5, <2>1 DEF Room
  <2>2. CASE ~(Len(Others(key)) < MaxEntries)
    <3>1. Others(key) # <<>>
      BY <2>2, TtlIsNat
    <3> QED  BY <1>5, <2>2, <3>1, TailOfSlots DEF Room
  <2> QED  BY <2>1, <2>2
<1>7. /\ IsFiniteSet(Boxes) /\ Cardinality(Boxes) <= MaxEntries
      => ToSet(rest) = {x \in ToSet(slots) : x.box # key}
  BY <1>5, BoxesLeaveRoom DEF Room
<1> HIDE DEF rest
<1>8. slots' \in Seq(Entry) /\ Distinct(slots') /\ ToSet(slots') \subseteq ToSet(slots) \cup {e}
  BY <1>1, <1>2, <1>3, <1>6, AppendSlot DEF TypeOK
<1>9. Ttl > 0 => ToSet(slots') = ToSet(rest) \cup {e}
  BY <1>1, <1>3, <1>6, AppendSlot
<1>10. /\ joined'[c] = c /\ asked'[c] = key /\ fetches'[c] = fetch
       /\ \A d \in Calls : d # c =>
            joined'[d] = joined[d] /\ asked'[d] = asked[d] /\ fetches'[d] = fetches[d]
  BY <1>1, <1>2 DEF TypeOK
<1>11. TypeOK'
  BY <1>1, <1>2, <1>3, <1>8 DEF TypeOK
<1>12. PromisesAreHeld'
  <2> SUFFICES ASSUME NEW x \in ToSet(slots) \cup {e} PROVE HoldsPromise(x)'
    BY <1>8 DEF PromisesAreHeld
  <2>1. CASE x = e
    BY <1>3, <1>4, <1>10, <2>1 DEF HoldsPromise
  <2>2. CASE x \in ToSet(slots)
    <3>1. HoldsPromise(x) /\ x.call # c /\ x.call \in Calls
      BY <1>1, <1>2, <2>2, SlotFacts DEF PromisesAreHeld
    <3> QED  BY <1>10, <3>1 DEF HoldsPromise
  <2> QED  BY <2>1, <2>2
<1>13. CallsAwaitTheirKey'
  <2> SUFFICES ASSUME NEW d \in Calls
               PROVE  /\ joined'[d] = None => asked'[d] = None /\ ~listed'[d].ok
                      /\ joined'[d] # None =>
                           /\ asked'[d] # None
                           /\ asked'[joined'[d]] = asked'[d]
                           /\ fetches'[joined'[d]] \in Fetch
                           /\ fetches'[joined'[d]].box = asked'[d]
    BY DEF CallsAwaitTheirKey
  <2>1. CASE d = c
    BY <1>3, <1>4, <1>10, <2>1, NoneIsNoCall
  <2>2. CASE d # c
    <3>1. joined[d] # None => joined[d] \in Calls /\ joined[d] # c
      BY <1>1, <1>2 DEF TypeOK, CallsAwaitTheirKey
    <3> QED  BY <1>1, <1>2, <1>10, <2>2, <3>1 DEF CallsAwaitTheirKey
  <2> QED  BY <2>1, <2>2
<1>14. ASSUME Ttl > 0, IsFiniteSet(Boxes), Cardinality(Boxes) <= MaxEntries,
              NEW f \in Calls, Good(f)
       PROVE  /\ fetches[f].box # key
              /\ \E x \in ToSet(rest) : x.call = f
  <2>1. PICK x \in ToSet(slots) : x.call = f
    BY <1>1, <1>2, <1>14 DEF GoodIsHeld
  <2>2. Fresh(x) /\ fetches[f].box = x.box
    BY <1>14, <2>1, GoodIsFresh
  <2>3. x.box # key
    BY <2>1, <2>2 DEF Held
  <2> QED  BY <1>7, <1>14, <2>1, <2>2, <2>3
<1>15. GoodIsHeld'
  <2> SUFFICES ASSUME Ttl > 0, IsFiniteSet(Boxes), Cardinality(Boxes) <= MaxEntries,
                      NEW f \in Calls, Good(f)'
               PROVE  \E x \in ToSet(slots') : x.call = f
    BY DEF GoodIsHeld
  <2>1. CASE f = c
    BY <1>3, <1>9, <2>1
  <2>2. CASE f # c
    <3>1. Good(f)
      BY <1>1, <1>10, <2>2 DEF Good
    <3> QED  BY <1>9, <1>14, <3>1
  <2> QED  BY <2>1, <2>2
<1>16. AnsweredForItsTypes'
  <2> SUFFICES ASSUME NEW d \in Calls, listed[d].ok PROVE asked'[d] = asked[d]
    BY <1>1, <1>2 DEF AnsweredForItsTypes
  <2>1. d # c
    BY <1>1, <1>2 DEF CallsAwaitTheirKey
  <2> QED  BY <1>10, <2>1
<1>17. Ttl > 0 /\ IsFiniteSet(Boxes) /\ Cardinality(Boxes) <= MaxEntries => FetchIsDue(c)
  <2> SUFFICES ASSUME Ttl > 0, IsFiniteSet(Boxes), Cardinality(Boxes) <= MaxEntries,
                      NEW f \in Calls, fetches[f] # None, fetches[f].box = key,
                      fetches[f].state # "failed"
               PROVE  now - fetches[f].at > Ttl
    BY <1>4, <1>10 DEF FetchIsDue
  <2>1. ~Good(f)
    BY <1>14
  <2>2. ~(now - fetches[f].at <= Ttl)
    BY <2>1 DEF Good
  <2>3. fetches[f].at \in Nat /\ now \in Nat /\ Ttl \in Nat
    BY <1>2, TtlIsNat DEF TypeOK, Fetch
  <2> QED  BY <2>2, <2>3
<1> QED  BY <1>8, <1>10, <1>11, <1>12, <1>13, <1>15, <1>16, <1>17 DEF Inv

LEMMA SettlesStep ==
    ASSUME Inv, NEW f \in Calls, NEW ok \in BOOLEAN, AcSettles(f, ok)
    PROVE  Inv' /\ joined' = joined
<1>1. /\ fetches[f] # None /\ fetches[f].state = "pending"
      /\ now' = now /\ joined' = joined /\ asked' = asked /\ listed' = listed
      /\ acClosed' = acClosed
      /\ fetches' = [fetches EXCEPT ![f].state = IF ok THEN "value" ELSE "failed"]
      /\ slots' = IF ok THEN slots ELSE AfterRejection(f)
  BY DEF AcSettles, Settle, Pending
<1>2. TypeOK /\ Distinct(slots) /\ PromisesAreHeld /\ CallsAwaitTheirKey /\ GoodIsHeld
      /\ AnsweredForItsTypes
  BY DEF Inv
<1>3. fetches[f] \in Fetch
  BY <1>1, <1>2 DEF TypeOK
<1>4. /\ fetches'[f] \in Fetch /\ fetches'[f].box = fetches[f].box
      /\ fetches'[f].at = fetches[f].at
      /\ fetches'[f].state = IF ok THEN "value" ELSE "failed"
      /\ \A g \in Calls : g # f => fetches'[g] = fetches[g]
  BY <1>1, <1>2, <1>3 DEF TypeOK, Fetch
<1>5. fetches' \in [Calls -> Fetch \cup {None}]
  BY <1>1, <1>2, <1>3 DEF TypeOK, Fetch
<1> DEFINE box == fetches[f].box
           newer == {x \in Held(box) : x.call # f}
<1>6. box \in Boxes
  BY <1>3 DEF Fetch
<1>7. /\ Others(box) \in Seq(Entry) /\ Distinct(Others(box))
      /\ ToSet(Others(box)) = {x \in ToSet(slots) : x.box # box}
  BY <1>2, <1>6, OthersOfSlots DEF TypeOK
<1>8. /\ slots' \in Seq(Entry) /\ Distinct(slots') /\ ToSet(slots') \subseteq ToSet(slots)
      /\ ~ok => \A x \in ToSet(slots') : x.call # f
      /\ \A x \in ToSet(slots) : x.call # f /\ Fresh(x) => x \in ToSet(slots')
  <2>1. CASE ok
    BY <1>1, <1>2, <2>1 DEF TypeOK
  <2>2. CASE ~ok /\ newer = {}
    <3>1. slots' = Others(box)
      BY <1>1, <2>2 DEF AfterRejection
    <3>2. \A x \in ToSet(slots') : x.call # f
      BY <1>1, <1>7, <3>1, SlotFacts
    <3>3. \A x \in ToSet(slots) : x.call # f /\ Fresh(x) => x \in ToSet(slots')
      BY <1>7, <2>2, <3>1 DEF Held
    <3> QED  BY <1>7, <3>1, <3>2, <3>3
  <2>3. CASE ~ok /\ newer # {}
    <3>1. PICK e \in newer : slots' = Append(Others(box), e)
      BY <1>1, <2>3 DEF AfterRejection
    <3>2. e \in ToSet(slots) /\ e.box = box /\ e.call # f
      BY <3>1 DEF Held
    <3>3. e \in Entry
      BY <3>2, SlotFacts
    <3>4. slots' \in Seq(Entry) /\ Distinct(slots') /\ ToSet(slots') = ToSet(Others(box)) \cup {e}
      BY <1>7, <3>1, <3>2, <3>3, AppendSlot
    <3>5. \A x \in ToSet(Others(box)) : x.call # f
      BY <1>1, <1>7, SlotFacts
    <3>6. \A x \in ToSet(slots) : x.box = box => x = e
      BY <1>2, <3>2, OneSlotPerBox DEF TypeOK
    <3> QED  BY <1>7, <3>2, <3>4, <3>5, <3>6
  <2> QED  BY <2>1, <2>2, <2>3
<1> HIDE DEF box, newer
<1>9. TypeOK'
  BY <1>1, <1>2, <1>5, <1>8 DEF TypeOK
<1>10. PromisesAreHeld'
  <2> SUFFICES ASSUME NEW x \in ToSet(slots') PROVE HoldsPromise(x)'
    BY DEF PromisesAreHeld
  <2>1. HoldsPromise(x) /\ x.call \in Calls
    BY <1>2, <1>8, SlotFacts DEF PromisesAreHeld
  <2>2. x.call = f => ok
    BY <1>8
  <2> QED  BY <1>1, <1>4, <2>1, <2>2 DEF HoldsPromise
<1>11. CallsAwaitTheirKey'
  <2>1. \A g \in Calls : fetches[g] \in Fetch =>
          fetches'[g] \in Fetch /\ fetches'[g].box = fetches[g].box
    BY <1>4
  <2>2. \A d \in Calls : joined[d] # None => joined[d] \in Calls
    BY <1>2 DEF TypeOK
  <2> QED  BY <1>1, <1>2, <2>1, <2>2 DEF CallsAwaitTheirKey
<1>12. GoodIsHeld'
  <2> SUFFICES ASSUME ~acClosed, Ttl > 0, IsFiniteSet(Boxes), Cardinality(Boxes) <= MaxEntries,
                      NEW g \in Calls, Good(g)'
               PROVE  \E x \in ToSet(slots') : x.call = g
    BY <1>1 DEF GoodIsHeld
  <2>1. Good(g)
    BY <1>1, <1>4 DEF Good
  <2>2. PICK x \in ToSet(slots) : x.call = g
    BY <1>2, <2>1 DEF GoodIsHeld
  <2>3. CASE g = f
    <3>1. ok
      BY <1>4, <2>3 DEF Good
    <3> QED  BY <1>1, <2>2, <3>1
  <2>4. CASE g # f
    <3>1. Fresh(x)
      BY <2>1, <2>2, GoodIsFresh
    <3> QED  BY <1>8, <2>2, <2>4, <3>1
  <2> QED  BY <2>3, <2>4
<1>13. AnsweredForItsTypes'
  BY <1>1, <1>2 DEF AnsweredForItsTypes
<1> QED  BY <1>1, <1>8, <1>9, <1>10, <1>11, <1>12, <1>13 DEF Inv

LEMMA ReturnsStep ==
    ASSUME Inv, NEW c \in Calls, AcListReturns(c)
    PROVE  Inv' /\ joined' = joined
<1>1. /\ now' = now /\ slots' = slots /\ fetches' = fetches /\ joined' = joined
      /\ asked' = asked /\ acClosed' = acClosed /\ asked[c] # None
  BY DEF AcListReturns, debounceVars
<1>2. TypeOK /\ Distinct(slots) /\ PromisesAreHeld /\ CallsAwaitTheirKey /\ GoodIsHeld
      /\ AnsweredForItsTypes
  BY DEF Inv
<1>3. joined[c] # None /\ asked[joined[c]] = asked[c]
  BY <1>1, <1>2 DEF CallsAwaitTheirKey
<1> DEFINE found == FilterByRating(Upstream(Boxed[asked[c]].types))
<1>4. PICK given \in [back : BOOLEAN, ok : BOOLEAN, found : SUBSET Pois] :
        /\ listed' = [listed EXCEPT ![c] = given]
        /\ given.ok => given.found = found
  <2>1. found \subseteq Pois
    BY DEF FilterByRating, Upstream
  <2> DEFINE answer == [back |-> TRUE, ok |-> TRUE, found |-> found]
             refusal == [back |-> TRUE, ok |-> FALSE, found |-> {}]
  <2>2. listed' = [listed EXCEPT ![c] = answer] \/ listed' = [listed EXCEPT ![c] = refusal]
    BY <1>3 DEF AcListReturns
  <2> HIDE DEF found
  <2>3. /\ answer \in [back : BOOLEAN, ok : BOOLEAN, found : SUBSET Pois]
        /\ answer.found = found
    BY <2>1
  <2>4. /\ refusal \in [back : BOOLEAN, ok : BOOLEAN, found : SUBSET Pois]
        /\ ~refusal.ok
    OBVIOUS
  <2> HIDE DEF answer, refusal
  <2> QED  BY <2>2, <2>3, <2>4
<1>5. found = {poi \in Pois : /\ poi.usable
                              /\ poi.type \in Boxed[asked[c]].types
                              /\ poi.type \notin Ratable \/ poi.rating >= MinRating}
  <2>1. \A poi \in Pois : ~(MinRating > 0) => poi.rating >= MinRating
    BY RatingsAreNat
  <2> QED  BY <2>1 DEF FilterByRating, Upstream
<1> HIDE DEF found
<1>6. listed' \in [Calls -> [back : BOOLEAN, ok : BOOLEAN, found : SUBSET Pois]]
  BY <1>2, <1>4 DEF TypeOK
<1>7. listed'[c] = given /\ \A d \in Calls : d # c => listed'[d] = listed[d]
  BY <1>2, <1>4 DEF TypeOK
<1>8. TypeOK'
  BY <1>1, <1>2, <1>6 DEF TypeOK
<1>9. CallsAwaitTheirKey'
  BY <1>1, <1>2, <1>3, <1>7 DEF CallsAwaitTheirKey
<1>10. AnsweredForItsTypes'
  <2> SUFFICES ASSUME NEW d \in Calls, listed'[d].ok
               PROVE  listed'[d].found = {poi \in Pois :
                        /\ poi.usable
                        /\ poi.type \in Boxed[asked[d]].types
                        /\ poi.type \notin Ratable \/ poi.rating >= MinRating}
    BY <1>1 DEF AnsweredForItsTypes
  <2>1. CASE d = c
    BY <1>4, <1>5, <1>7, <2>1
  <2>2. CASE d # c
    BY <1>2, <1>7, <2>2 DEF AnsweredForItsTypes
  <2> QED  BY <2>1, <2>2
<1>11. PromisesAreHeld' /\ GoodIsHeld' /\ Distinct(slots')
  BY <1>1, <1>2 DEF PromisesAreHeld, HoldsPromise, GoodIsHeld, Good
<1> QED  BY <1>1, <1>8, <1>9, <1>10, <1>11 DEF Inv

LEMMA CloseStep ==
    ASSUME Inv, AcClose
    PROVE  Inv' /\ joined' = joined
<1>1. /\ now' = now /\ slots' = <<>> /\ fetches' = fetches /\ joined' = joined
      /\ asked' = asked /\ listed' = listed /\ acClosed' = TRUE
  BY DEF AcClose, Clear
<1>2. slots' \in Seq(Entry) /\ ToSet(slots') = {} /\ Distinct(slots')
  BY <1>1 DEF ToSet, Distinct
<1> QED  BY <1>1, <1>2 DEF Inv, TypeOK, PromisesAreHeld, CallsAwaitTheirKey, GoodIsHeld,
             AnsweredForItsTypes

LEMMA TickStep ==
    ASSUME Inv, AcTick
    PROVE  Inv' /\ joined' = joined
<1>1. /\ now' = now + 1 /\ slots' = slots /\ fetches' = fetches /\ joined' = joined
      /\ asked' = asked /\ listed' = listed /\ acClosed' = acClosed
  BY DEF AcTick, Tick
<1>2. TypeOK /\ Distinct(slots) /\ PromisesAreHeld /\ CallsAwaitTheirKey /\ GoodIsHeld
      /\ AnsweredForItsTypes
  BY DEF Inv
<1>3. TypeOK'
  BY <1>1, <1>2 DEF TypeOK
<1>4. ASSUME NEW f \in Calls, Good(f)' PROVE Good(f)
  <2>1. fetches[f] # None /\ fetches[f].state # "failed" /\ now' - fetches[f].at <= Ttl
    <3>1. /\ fetches'[f] # None /\ fetches'[f].state # "failed"
          /\ now' - fetches'[f].at <= Ttl
      BY <1>4 DEF Good
    <3> QED  BY <1>1, <3>1
  <2>2. fetches[f].at \in Nat /\ now \in Nat /\ Ttl \in Nat
    BY <1>2, <2>1, TtlIsNat DEF TypeOK, Fetch
  <2>3. now - fetches[f].at <= Ttl
    BY <1>1, <2>1, <2>2
  <2> QED  BY <2>1, <2>3 DEF Good
<1>5. GoodIsHeld'
  BY <1>1, <1>2, <1>4 DEF GoodIsHeld
<1>6. PromisesAreHeld' /\ CallsAwaitTheirKey' /\ AnsweredForItsTypes' /\ Distinct(slots')
  BY <1>1, <1>2 DEF PromisesAreHeld, HoldsPromise, CallsAwaitTheirKey, AnsweredForItsTypes
<1> QED  BY <1>1, <1>3, <1>5, <1>6 DEF Inv

LEMMA InvStep == Inv /\ [AcNext]_acVars => Inv'
<1> SUFFICES ASSUME Inv, [AcNext]_acVars PROVE Inv'
  OBVIOUS
<1>1. ASSUME NEW c \in Calls, NEW key \in Boxes, AcList(c, key) PROVE Inv'
  BY <1>1, HitStep, MissStep
<1>2. ASSUME NEW c \in Calls, NEW ok \in BOOLEAN, AcSettles(c, ok) PROVE Inv'
  BY <1>2, SettlesStep
<1>3. ASSUME NEW c \in Calls, AcListReturns(c) PROVE Inv'
  BY <1>3, ReturnsStep
<1>4. CASE UNCHANGED acVars
  BY <1>4 DEF acVars, Inv, TypeOK, PromisesAreHeld, HoldsPromise, CallsAwaitTheirKey,
              GoodIsHeld, Good, AnsweredForItsTypes
<1> QED  BY <1>1, <1>2, <1>3, <1>4, CloseStep, TickStep DEF AcNext

LEMMA InvInit == AcInit => Inv
<1> SUFFICES ASSUME AcInit PROVE Inv
  OBVIOUS
<1>1. /\ now = 0 /\ slots = <<>> /\ fetches = [c \in Calls |-> None]
      /\ joined = [c \in Calls |-> None] /\ asked = [c \in Calls |-> None]
      /\ listed = [c \in Calls |-> [back |-> FALSE, ok |-> FALSE, found |-> {}]]
      /\ acClosed = FALSE
  BY DEF AcInit, DebounceInit
<1>2. slots \in Seq(Entry) /\ ToSet(slots) = {} /\ Distinct(slots)
  BY <1>1 DEF ToSet, Distinct
<1>3. TypeOK
  BY <1>1, <1>2 DEF TypeOK
<1>4. GoodIsHeld
  BY <1>1 DEF GoodIsHeld, Good
<1> QED  BY <1>1, <1>2, <1>3, <1>4 DEF Inv, PromisesAreHeld, CallsAwaitTheirKey,
             AnsweredForItsTypes

LEMMA Invariance == AcSpec => []Inv
<1> QED  BY InvInit, InvStep, PTL DEF AcSpec
-----------------------------------------------------------------------------
(* The theorems. *)

\* Every answer is complete for the types its caller asked for, whichever call's
\* fetch it shares and whatever was evicted, expired or rejected meanwhile
\* (active-captain-source.ts:177-180).
THEOREM AnswersAreComplete == AcSpec => []AnsweredForItsTypes
<1>1. Inv => AnsweredForItsTypes
  BY DEF Inv
<1> QED  BY <1>1, Invariance, PTL

\* For finitely many cache keys: calls for a key within a window share one fetch,
\* in whatever order fetches overlap and end, and no call joins a failed or an
\* expired one (bbox-debounce.ts:128-154).
THEOREM BurstsShareAFetch ==
    ASSUME IsFiniteSet(Boxes)
    PROVE  AcSpec => OneFetchPerWindow
<1> DEFINE Due(c) == joined[c] = None /\ joined'[c] # None
                     => IF joined'[c] = c
                        THEN Ttl > 0 /\ Cardinality(Boxes) <= MaxEntries => FetchIsDue(c)
                        ELSE JoinIsGood(c)
<1>1. ASSUME Inv, [AcNext]_acVars, NEW c \in Calls PROVE Due(c)
  <2>1. ASSUME NEW d \in Calls, NEW key \in Boxes, AcList(d, key) PROVE Due(c)
    <3>1. CASE d = c
      BY <1>1, <2>1, <3>1, HitStep, MissStep
    <3>2. CASE d # c
      <4>1. joined'[c] = joined[c]
        BY <1>1, <2>1, <3>2 DEF AcList, Get, Inv, TypeOK
      <4> QED  BY <4>1
    <3> QED  BY <3>1, <3>2
  <2>2. CASE joined' = joined
    BY <2>2
  <2> HIDE DEF Due
  <2> QED  BY <1>1, <2>1, <2>2, SettlesStep, ReturnsStep, CloseStep, TickStep DEF AcNext, acVars
<1> HIDE DEF Due
<1>2. ASSUME Inv, [AcNext]_acVars
      PROVE  [\A c \in Calls : Due(c)]_debounceVars
  BY <1>1, <1>2
<1>3. ([][\A c \in Calls : Due(c)]_debounceVars) => OneFetchPerWindow
  BY DEF OneFetchPerWindow, Due
<1> QED  BY <1>2, <1>3, Invariance, PTL DEF AcSpec
-----------------------------------------------------------------------------
(* The tiles of the Light List. *)

\* What the store keeps: valid positions and dates a comparison can read.
Positions == [latitude : -Pole .. Pole, longitude : -HalfCircle .. HalfCircle]
Stamps == [year : Nat, month : Int, day : Int] \cup {Undated}
Records == [llnr : Llnrs, position : Positions, modifiedDate : Stamps]

\* What NAVCEN publishes, FeaturesAreTyped.
Published == [llnr : Llnrs, numbered : BOOLEAN, volume : BOOLEAN, modified : Int,
             position : [latitude : Int, longitude : Int]]

\* Records map, tiles and tile bookkeeping hold the same records: each once, in the
\* tile of its position.
Mirrored(index) ==
    /\ DOMAIN index.recordTile = DOMAIN index.aids
    /\ \A l \in DOMAIN index.aids :
         /\ index.aids[l].llnr = l
         /\ index.recordTile[l] = TileKey(index.aids[l].position)
         /\ index.recordTile[l] \in DOMAIN index.tiles
         /\ \E i \in DOMAIN index.tiles[index.recordTile[l]] :
              index.tiles[index.recordTile[l]][i] = index.aids[l]
    /\ \A k \in DOMAIN index.tiles : \A i \in DOMAIN index.tiles[k] :
         /\ index.tiles[k][i].llnr \in DOMAIN index.aids
         /\ index.aids[index.tiles[k][i].llnr] = index.tiles[k][i]
         /\ index.recordTile[index.tiles[k][i].llnr] = k
         /\ \A j \in DOMAIN index.tiles[k] :
              index.tiles[k][j].llnr = index.tiles[k][i].llnr => j = i

Aids == UNION {[S -> Records] : S \in SUBSET Llnrs}
Tiles == UNION {[K -> Seq(Records)] : K \in SUBSET Int}
Placings == UNION {[S -> Int] : S \in SUBSET Llnrs}

Indexes ==
    {index \in [aids : Aids, tiles : Tiles, recordTile : Placings] : Mirrored(index)}
-----------------------------------------------------------------------------
LEMMA RemovedAt ==
    ASSUME NEW R, NEW s \in Seq(R), NEW i \in 1 .. Len(s)
    PROVE  /\ RemoveAt(s, i) \in Seq(R)
           /\ Len(RemoveAt(s, i)) = Len(s) - 1
           /\ \A j \in 1 .. Len(s) - 1 :
                RemoveAt(s, i)[j] = IF j < i THEN s[j] ELSE s[j + 1]
<1> DEFINE front == SubSeq(s, 1, i - 1)
           rear == SubSeq(s, i + 1, Len(s))
<1>1. /\ front \in Seq(R) /\ Len(front) = i - 1
      /\ \A j \in 1 .. i - 1 : front[j] = s[j]
  OBVIOUS
<1>2. /\ rear \in Seq(R) /\ Len(rear) = Len(s) - i
      /\ \A j \in 1 .. Len(s) - i : rear[j] = s[i + j]
  OBVIOUS
<1>3. RemoveAt(s, i) = front \o rear
  BY DEF RemoveAt
<1> HIDE DEF front, rear
<1>4. RemoveAt(s, i) \in Seq(R) /\ Len(RemoveAt(s, i)) = Len(s) - 1
  BY <1>1, <1>2, <1>3
<1>5. ASSUME NEW j \in 1 .. Len(s) - 1
      PROVE  RemoveAt(s, i)[j] = IF j < i THEN s[j] ELSE s[j + 1]
  <2>1. CASE j < i
    <3>1. j \in 1 .. i - 1
      BY <2>1
    <3> QED  BY <1>1, <1>2, <1>3, <2>1, <3>1
  <2>2. CASE ~(j < i)
    <3>1. j - (i - 1) \in 1 .. Len(s) - i /\ i + (j - (i - 1)) = j + 1
      BY <2>2
    <3>2. (front \o rear)[j] = rear[j - (i - 1)]
      BY <1>1, <1>2, <2>2, <3>1
    <3> QED  BY <1>2, <1>3, <2>2, <3>1, <3>2
  <2> QED  BY <2>1, <2>2
<1> QED  BY <1>4, <1>5

\* Cells are whole numbers.
LEMMA CellsAreWhole ==
    /\ \A a \in Int : a \div CellSize \in Int
    /\ LonCells \in Int
    /\ \A p \in Positions : /\ LatCell(p.latitude) \in Int /\ LonCell(p.longitude) \in Int
                            /\ TileKey(p) \in Int
<1>1. CellSize \in Nat \ {0} /\ HalfCircle \in Nat /\ Pole \in Nat
  BY TilesCoverTheGlobe
<1>2. \A a \in Int : a \div CellSize \in Int
  BY <1>1
<1>3. LonCells \in Int
  BY <1>1, <1>2 DEF LonCells
<1>4. ASSUME NEW p \in Positions
      PROVE  /\ LatCell(p.latitude) \in Int /\ LonCell(p.longitude) \in Int
             /\ TileKey(p) \in Int
  <2>1. p.latitude + Pole \in Int /\ p.longitude + HalfCircle \in Int
    BY <1>1 DEF Positions
  <2>2. LatCell(p.latitude) \in Int /\ LonCell(p.longitude) \in Int
    BY <1>2, <2>1 DEF LatCell, LonCell
  <2> QED  BY <1>3, <2>2 DEF TileKey
<1> QED  BY <1>2, <1>3, <1>4

\* What removing a number's first entry leaves of a bucket that has it once.
LEMMA RemovedFromBucket ==
    ASSUME NEW bucket \in Seq(Records), NEW llnr, NEW i \in 1 .. Len(bucket),
           bucket[i].llnr = llnr,
           \A j \in 1 .. Len(bucket) : bucket[j].llnr = llnr => j = i
    PROVE  Without(bucket, llnr) = RemoveAt(bucket, i)
<1> DEFINE matches == {j \in 1 .. Len(bucket) : bucket[j].llnr = llnr}
<1>1. matches = {i}
  OBVIOUS
<1>2. Min({i}) = i
  BY DEF Min
<1>3. SelectInSeq(bucket, LAMBDA record : record.llnr = llnr) =
        IF matches # {} THEN Min(matches) ELSE 0
  BY DEF SelectInSeq
<1>4. SelectInSeq(bucket, LAMBDA record : record.llnr = llnr) = i
  BY <1>1, <1>2, <1>3
<1> QED  BY <1>4 DEF Without, RemoveFirstMatch

\* A bucket without one entry, that entry being the only one of its number.
LEMMA BucketShrinks ==
    ASSUME NEW bucket \in Seq(Records), NEW i \in 1 .. Len(bucket),
           \A j, k \in 1 .. Len(bucket) : bucket[j].llnr = bucket[k].llnr => j = k
    PROVE  /\ RemoveAt(bucket, i) \in Seq(Records)
           /\ RemoveAt(bucket, i) = <<>> => \A j \in 1 .. Len(bucket) : j = i
           /\ \A j \in DOMAIN RemoveAt(bucket, i) :
                /\ \E k \in 1 .. Len(bucket) : k # i /\ RemoveAt(bucket, i)[j] = bucket[k]
                /\ \A k \in DOMAIN RemoveAt(bucket, i) :
                     RemoveAt(bucket, i)[j].llnr = RemoveAt(bucket, i)[k].llnr => j = k
           /\ \A k \in 1 .. Len(bucket) : k # i =>
                \E j \in DOMAIN RemoveAt(bucket, i) : RemoveAt(bucket, i)[j] = bucket[k]
<1> DEFINE rest == RemoveAt(bucket, i)
           from == [j \in 1 .. Len(bucket) - 1 |-> IF j < i THEN j ELSE j + 1]
<1>1. /\ rest \in Seq(Records) /\ Len(rest) = Len(bucket) - 1
      /\ \A j \in 1 .. Len(bucket) - 1 :
            rest[j] = IF j < i THEN bucket[j] ELSE bucket[j + 1]
  BY RemovedAt
<1> HIDE DEF rest
<1>2. Len(bucket) \in Nat /\ DOMAIN rest = 1 .. Len(bucket) - 1
  BY <1>1
<1>3. \A j \in DOMAIN rest : /\ from[j] \in 1 .. Len(bucket) /\ from[j] # i
                             /\ rest[j] = bucket[from[j]]
  BY <1>1, <1>2
<1>4. \A j, k \in DOMAIN rest : from[j] = from[k] => j = k
  BY <1>2
<1>5. ASSUME NEW k \in 1 .. Len(bucket), k # i
      PROVE  \E j \in DOMAIN rest : rest[j] = bucket[k]
  <2>1. CASE k < i
    <3>1. k \in DOMAIN rest /\ rest[k] = bucket[k]
      BY <1>1, <1>2, <2>1
    <3> QED  BY <3>1
  <2>2. CASE k > i
    <3>1. k - 1 \in DOMAIN rest /\ rest[k - 1] = bucket[k]
      BY <1>1, <1>2, <2>2
    <3> QED  BY <3>1
  <2> QED  BY <1>5, <2>1, <2>2
<1>6. rest = <<>> => \A j \in 1 .. Len(bucket) : j = i
  <2> SUFFICES ASSUME rest = <<>>, NEW j \in 1 .. Len(bucket) PROVE j = i
    OBVIOUS
  <2>1. Len(rest) = 0
    OBVIOUS
  <2>2. Len(bucket) = 1
    BY <1>1, <1>2, <2>1
  <2> QED  BY <2>2
<1> HIDE DEF from
<1>7. \A j \in DOMAIN rest : \A k \in DOMAIN rest : rest[j].llnr = rest[k].llnr => j = k
  BY <1>3, <1>4
<1>8. \A j \in DOMAIN rest : \E k \in 1 .. Len(bucket) : k # i /\ rest[j] = bucket[k]
  BY <1>3
<1> QED  BY <1>1, <1>5, <1>6, <1>7, <1>8 DEF rest

\* Removing a number keeps the three in step and takes that number out.
LEMMA RemoveKeepsMirror ==
    ASSUME NEW index \in Indexes, NEW llnr
    PROVE  /\ RemoveRecord(index, llnr) \in Indexes
           /\ DOMAIN RemoveRecord(index, llnr).aids = DOMAIN index.aids \ {llnr}
<1> DEFINE next == RemoveRecord(index, llnr)
<1>1. /\ index \in [aids : Aids, tiles : Tiles, recordTile : Placings]
      /\ Mirrored(index)
  BY DEF Indexes
<1>2. DOMAIN index.recordTile = DOMAIN index.aids
  BY <1>1 DEF Mirrored
<1>3. CASE llnr \notin DOMAIN index.recordTile
  BY <1>2, <1>3 DEF RemoveRecord
<1>4. CASE llnr \in DOMAIN index.recordTile
  <2> DEFINE key == index.recordTile[llnr]
             old == index.tiles[key]
  <2>1. /\ index.aids[llnr].llnr = llnr
        /\ key \in DOMAIN index.tiles
        /\ \E i \in DOMAIN old : old[i] = index.aids[llnr]
    BY <1>1, <1>2, <1>4 DEF Mirrored
  <2>2. PICK i \in DOMAIN old : old[i] = index.aids[llnr]
    BY <2>1
  <2>3. old \in Seq(Records) /\ DOMAIN old = 1 .. Len(old)
    BY <1>1, <2>1 DEF Tiles
  <2>4. \A j, k \in 1 .. Len(old) : old[j].llnr = old[k].llnr => j = k
    BY <1>1, <2>1, <2>3 DEF Mirrored
  <2>5. i \in 1 .. Len(old) /\ old[i].llnr = llnr
    BY <2>1, <2>2, <2>3
  <2> DEFINE bucket == RemoveAt(old, i)
             aids2 == Dropping(index.aids, llnr)
             tile2 == Dropping(index.recordTile, llnr)
             tiles2 == IF bucket = <<>> THEN Dropping(index.tiles, key)
                       ELSE [index.tiles EXCEPT ![key] = bucket]
  <2>6. Without(Bucket(index, key), llnr) = bucket
    <3>1. Bucket(index, key) = old
      BY <2>1 DEF Bucket
    <3>2. \A j \in 1 .. Len(old) : old[j].llnr = llnr => j = i
      BY <2>4, <2>5
    <3> HIDE DEF old
    <3>3. Without(old, llnr) = RemoveAt(old, i)
      BY <2>3, <2>5, <3>2, RemovedFromBucket
    <3> HIDE DEF key
    <3> QED  BY <3>1, <3>3 DEF bucket
  <2>7. next = [aids |-> aids2, tiles |-> tiles2, recordTile |-> tile2]
    <3> HIDE DEF bucket
    <3> QED  BY <1>4, <2>6 DEF RemoveRecord
  <2>8. /\ bucket \in Seq(Records)
        /\ bucket = <<>> => \A j \in 1 .. Len(old) : j = i
        /\ \A j \in DOMAIN bucket : \E k \in 1 .. Len(old) : k # i /\ bucket[j] = old[k]
        /\ \A j, k \in DOMAIN bucket : bucket[j].llnr = bucket[k].llnr => j = k
        /\ \A k \in 1 .. Len(old) : k # i => \E j \in DOMAIN bucket : bucket[j] = old[k]
    <3> HIDE DEF old
    <3> QED  BY <2>3, <2>4, <2>5, BucketShrinks
  <2>9. /\ aids2 \in Aids /\ DOMAIN aids2 = DOMAIN index.aids \ {llnr}
        /\ \A l \in DOMAIN aids2 : aids2[l] = index.aids[l]
    <3>1. PICK S \in SUBSET Llnrs : index.aids \in [S -> Records]
      BY <1>1 DEF Aids
    <3>2. aids2 \in [S \ {llnr} -> Records] /\ \A l \in S \ {llnr} : aids2[l] = index.aids[l]
      BY <3>1 DEF Dropping
    <3>3. S \ {llnr} \in SUBSET Llnrs
      OBVIOUS
    <3> HIDE DEF aids2
    <3> QED  BY <3>1, <3>2, <3>3 DEF Aids
  <2>10. /\ tile2 \in Placings /\ DOMAIN tile2 = DOMAIN index.aids \ {llnr}
         /\ \A l \in DOMAIN tile2 : tile2[l] = index.recordTile[l]
    <3>1. PICK S \in SUBSET Llnrs : index.recordTile \in [S -> Int]
      BY <1>1 DEF Placings
    <3>2. tile2 \in [S \ {llnr} -> Int] /\ \A l \in S \ {llnr} : tile2[l] = index.recordTile[l]
      BY <3>1 DEF Dropping
    <3>3. S \ {llnr} \in SUBSET Llnrs
      OBVIOUS
    <3> HIDE DEF tile2
    <3> QED  BY <1>2, <3>1, <3>2, <3>3 DEF Placings
  <2>11. /\ tiles2 \in Tiles
         /\ \A k \in DOMAIN tiles2 : k \in DOMAIN index.tiles
         /\ \A k \in DOMAIN index.tiles : k # key =>
              k \in DOMAIN tiles2 /\ tiles2[k] = index.tiles[k]
         /\ key \in DOMAIN tiles2 <=> bucket # <<>>
         /\ key \in DOMAIN tiles2 => tiles2[key] = bucket
    <3>1. CASE bucket = <<>>
      <4>1. tiles2 = Dropping(index.tiles, key)
        BY <3>1
      <4>2. /\ tiles2 \in Tiles /\ DOMAIN tiles2 = DOMAIN index.tiles \ {key}
            /\ \A k \in DOMAIN index.tiles \ {key} : tiles2[k] = index.tiles[k]
        <5>1. PICK K \in SUBSET Int : index.tiles \in [K -> Seq(Records)]
          BY <1>1 DEF Tiles
        <5> HIDE DEF key, old, bucket, tiles2
        <5>2. /\ tiles2 \in [K \ {key} -> Seq(Records)]
              /\ \A k \in K \ {key} : tiles2[k] = index.tiles[k]
          BY <4>1, <5>1 DEF Dropping
        <5>3. K \ {key} \in SUBSET Int
          OBVIOUS
        <5> QED  BY <5>1, <5>2, <5>3 DEF Tiles
      <4> HIDE DEF key, old, bucket, tiles2
      <4> QED  BY <3>1, <4>2
    <3>2. CASE bucket # <<>>
      <4>1. tiles2 = [index.tiles EXCEPT ![key] = bucket]
        BY <3>2
      <4>2. PICK K \in SUBSET Int : index.tiles \in [K -> Seq(Records)]
        BY <1>1 DEF Tiles
      <4> HIDE DEF key, old, bucket, tiles2
      <4>3. tiles2 \in [K -> Seq(Records)]
        BY <2>8, <4>1, <4>2
      <4> QED  BY <2>1, <3>2, <4>1, <4>2, <4>3 DEF Tiles
    <3> QED  BY <3>1, <3>2
  <2>12. /\ next.aids = aids2 /\ next.tiles = tiles2 /\ next.recordTile = tile2
         /\ next \in [aids : Aids, tiles : Tiles, recordTile : Placings]
    <3> HIDE DEF aids2, tiles2, tile2, next
    <3> QED  BY <2>7, <2>9, <2>10, <2>11
  <2> HIDE DEF next, bucket, aids2, tile2, tiles2
  <2>13. ASSUME NEW l \in DOMAIN aids2
         PROVE  /\ aids2[l].llnr = l
                /\ tile2[l] = TileKey(aids2[l].position)
                /\ tile2[l] \in DOMAIN tiles2
                /\ \E j \in DOMAIN tiles2[tile2[l]] : tiles2[tile2[l]][j] = aids2[l]
    <3>1. /\ l \in DOMAIN index.aids /\ l # llnr
          /\ aids2[l] = index.aids[l] /\ tile2[l] = index.recordTile[l]
      BY <2>9, <2>10
    <3>2. /\ index.aids[l].llnr = l
          /\ index.recordTile[l] = TileKey(index.aids[l].position)
          /\ index.recordTile[l] \in DOMAIN index.tiles
          /\ \E j \in DOMAIN index.tiles[index.recordTile[l]] :
               index.tiles[index.recordTile[l]][j] = index.aids[l]
      BY <1>1, <3>1 DEF Mirrored
    <3>3. CASE index.recordTile[l] # key
      BY <2>11, <3>1, <3>2, <3>3
    <3>4. CASE index.recordTile[l] = key
      <4>1. PICK j \in 1 .. Len(old) : old[j] = index.aids[l]
        BY <2>3, <3>2, <3>4
      <4>2. j # i
        BY <2>5, <3>1, <3>2, <4>1
      <4>3. \E k \in DOMAIN bucket : bucket[k] = old[j]
        BY <2>8, <4>2
      <4>4. bucket # <<>>
        BY <2>8, <4>1, <4>2
      <4> QED  BY <2>11, <3>1, <3>2, <3>4, <4>1, <4>3, <4>4
    <3> QED  BY <3>3, <3>4
  <2>14. ASSUME NEW k \in DOMAIN tiles2, NEW j \in DOMAIN tiles2[k]
         PROVE  /\ tiles2[k][j].llnr \in DOMAIN aids2
                /\ aids2[tiles2[k][j].llnr] = tiles2[k][j]
                /\ tile2[tiles2[k][j].llnr] = k
                /\ \A h \in DOMAIN tiles2[k] : tiles2[k][h].llnr = tiles2[k][j].llnr => h = j
    <3>1. \A h \in DOMAIN index.tiles : \A m \in DOMAIN index.tiles[h] :
             /\ index.tiles[h][m].llnr \in DOMAIN index.aids
             /\ index.aids[index.tiles[h][m].llnr] = index.tiles[h][m]
             /\ index.recordTile[index.tiles[h][m].llnr] = h
             /\ \A n \in DOMAIN index.tiles[h] :
                  index.tiles[h][n].llnr = index.tiles[h][m].llnr => n = m
      BY <1>1 DEF Mirrored
    <3>2. CASE k # key
      <4>1. k \in DOMAIN index.tiles /\ tiles2[k] = index.tiles[k]
        BY <2>11, <3>2
      <4>2. /\ tiles2[k][j].llnr \in DOMAIN index.aids
            /\ index.aids[tiles2[k][j].llnr] = tiles2[k][j]
            /\ index.recordTile[tiles2[k][j].llnr] = k
            /\ \A h \in DOMAIN tiles2[k] : tiles2[k][h].llnr = tiles2[k][j].llnr => h = j
        BY <3>1, <4>1
      <4>3. tiles2[k][j].llnr # llnr
        BY <3>2, <4>2
      <4> QED  BY <2>9, <2>10, <4>2, <4>3
    <3>3. CASE k = key
      <4>1. tiles2[k] = bucket /\ key \in DOMAIN index.tiles
        BY <2>1, <2>11, <3>3
      <4>2. PICK m \in 1 .. Len(old) : m # i /\ bucket[j] = old[m]
        BY <2>8, <4>1
      <4>3. /\ old[m].llnr \in DOMAIN index.aids
            /\ index.aids[old[m].llnr] = old[m]
            /\ index.recordTile[old[m].llnr] = key
        BY <2>3, <3>1, <4>1
      <4>4. old[m].llnr # llnr
        BY <2>4, <2>5, <4>2
      <4>5. \A h \in DOMAIN bucket : bucket[h].llnr = bucket[j].llnr => h = j
        BY <2>8, <4>1
      <4> QED  BY <2>9, <2>10, <3>3, <4>1, <4>2, <4>3, <4>4, <4>5
    <3> QED  BY <3>2, <3>3
  <2>15. Mirrored(next)
    BY <2>9, <2>10, <2>12, <2>13, <2>14 DEF Mirrored
  <2> QED  BY <2>9, <2>12, <2>15 DEF Indexes, next
<1> QED  BY <1>3, <1>4

\* A record of a new number goes last into the bucket of its tile.
LEMMA PlacedKeepsMirror ==
    ASSUME NEW index \in Indexes, NEW record \in Records, record.llnr \notin DOMAIN index.aids
    PROVE  Placed(index, record) \in Indexes
<1> DEFINE key == TileKey(record.position)
           old == Bucket(index, key)
           bucket == Append(old, record)
           aids2 == Setting(index.aids, record.llnr, record)
           tiles2 == Setting(index.tiles, key, bucket)
           tile2 == Setting(index.recordTile, record.llnr, key)
           next == Placed(index, record)
<1>1. /\ index \in [aids : Aids, tiles : Tiles, recordTile : Placings]
      /\ Mirrored(index) /\ DOMAIN index.recordTile = DOMAIN index.aids
  BY DEF Indexes, Mirrored
<1>2. next = [aids |-> aids2, tiles |-> tiles2, recordTile |-> tile2]
  BY DEF Placed
<1>3. record.llnr \in Llnrs /\ key \in Int
  BY TilesCoverTheGlobe, CellsAreWhole DEF Records
<1>4. old \in Seq(Records)
  BY <1>1 DEF Bucket, Tiles
<1>5. /\ bucket \in Seq(Records) /\ Len(old) \in Nat
      /\ DOMAIN bucket = 1 .. Len(old) + 1 /\ DOMAIN old = 1 .. Len(old)
      /\ bucket[Len(old) + 1] = record
      /\ \A i \in 1 .. Len(old) : bucket[i] = old[i]
  BY <1>4
<1> HIDE DEF key, old, bucket
<1>6. /\ aids2 \in Aids /\ DOMAIN aids2 = DOMAIN index.aids \cup {record.llnr}
      /\ aids2[record.llnr] = record
      /\ \A l \in DOMAIN index.aids : aids2[l] = index.aids[l]
  <2>1. PICK S \in SUBSET Llnrs : index.aids \in [S -> Records]
    BY <1>1 DEF Aids
  <2>2. aids2 = [l \in S \cup {record.llnr} |-> IF l = record.llnr THEN record ELSE index.aids[l]]
    BY <2>1 DEF Setting
  <2>3. aids2 \in [S \cup {record.llnr} -> Records] /\ S \cup {record.llnr} \in SUBSET Llnrs
    BY <1>3, <2>1, <2>2
  <2> HIDE DEF aids2
  <2> QED  BY <2>1, <2>2, <2>3 DEF Aids
<1>7. /\ tile2 \in Placings /\ DOMAIN tile2 = DOMAIN index.aids \cup {record.llnr}
      /\ tile2[record.llnr] = key
      /\ \A l \in DOMAIN index.aids : tile2[l] = index.recordTile[l]
  <2>1. PICK S \in SUBSET Llnrs : index.recordTile \in [S -> Int]
    BY <1>1 DEF Placings
  <2>2. tile2 = [l \in S \cup {record.llnr} |-> IF l = record.llnr THEN key ELSE index.recordTile[l]]
    BY <2>1 DEF Setting
  <2>3. tile2 \in [S \cup {record.llnr} -> Int] /\ S \cup {record.llnr} \in SUBSET Llnrs
    BY <1>3, <2>1, <2>2
  <2> HIDE DEF tile2
  <2> QED  BY <1>1, <2>1, <2>2, <2>3 DEF Placings
<1>8. /\ tiles2 \in Tiles /\ DOMAIN tiles2 = DOMAIN index.tiles \cup {key}
      /\ tiles2[key] = bucket
      /\ \A k \in DOMAIN index.tiles : k # key => tiles2[k] = index.tiles[k]
  <2>1. PICK K \in SUBSET Int : index.tiles \in [K -> Seq(Records)]
    BY <1>1 DEF Tiles
  <2>2. tiles2 = [k \in K \cup {key} |-> IF k = key THEN bucket ELSE index.tiles[k]]
    BY <2>1 DEF Setting
  <2>3. tiles2 \in [K \cup {key} -> Seq(Records)] /\ K \cup {key} \in SUBSET Int
    BY <1>3, <1>5, <2>1, <2>2
  <2> HIDE DEF tiles2
  <2> QED  BY <2>1, <2>2, <2>3 DEF Tiles
<1> HIDE DEF aids2, tiles2, tile2, next
<1>9. /\ next.aids = aids2 /\ next.tiles = tiles2 /\ next.recordTile = tile2
      /\ next \in [aids : Aids, tiles : Tiles, recordTile : Placings]
  BY <1>2, <1>6, <1>7, <1>8
<1>10. /\ key \in DOMAIN index.tiles => old = index.tiles[key]
       /\ key \notin DOMAIN index.tiles => Len(old) = 0
  BY DEF Bucket, old
<1>11. ASSUME NEW l \in DOMAIN aids2
       PROVE  /\ aids2[l].llnr = l
              /\ tile2[l] = TileKey(aids2[l].position)
              /\ tile2[l] \in DOMAIN tiles2
              /\ \E i \in DOMAIN tiles2[tile2[l]] : tiles2[tile2[l]][i] = aids2[l]
  <2>1. CASE l = record.llnr
    BY <1>5, <1>6, <1>7, <1>8, <2>1 DEF key
  <2>2. CASE l # record.llnr
    <3>1. /\ l \in DOMAIN index.aids
          /\ aids2[l] = index.aids[l] /\ tile2[l] = index.recordTile[l]
      BY <1>6, <1>7, <2>2
    <3>2. /\ index.aids[l].llnr = l
          /\ index.recordTile[l] = TileKey(index.aids[l].position)
          /\ index.recordTile[l] \in DOMAIN index.tiles
          /\ \E i \in DOMAIN index.tiles[index.recordTile[l]] :
               index.tiles[index.recordTile[l]][i] = index.aids[l]
      BY <1>1, <3>1 DEF Mirrored
    <3>3. CASE index.recordTile[l] # key
      BY <1>8, <3>1, <3>2, <3>3
    <3>4. CASE index.recordTile[l] = key
      <4>1. PICK i \in 1 .. Len(old) : old[i] = index.aids[l]
        BY <1>5, <1>10, <3>2, <3>4
      <4>2. i \in DOMAIN bucket /\ bucket[i] = index.aids[l]
        BY <1>5, <4>1
      <4> QED  BY <1>8, <3>1, <3>2, <3>4, <4>2
    <3> QED  BY <3>3, <3>4
  <2> QED  BY <2>1, <2>2
<1>12. ASSUME NEW k \in DOMAIN tiles2, NEW i \in DOMAIN tiles2[k]
       PROVE  /\ tiles2[k][i].llnr \in DOMAIN aids2
              /\ aids2[tiles2[k][i].llnr] = tiles2[k][i]
              /\ tile2[tiles2[k][i].llnr] = k
              /\ \A j \in DOMAIN tiles2[k] : tiles2[k][j].llnr = tiles2[k][i].llnr => j = i
  <2>1. \A h \in DOMAIN index.tiles : \A m \in DOMAIN index.tiles[h] :
           /\ index.tiles[h][m].llnr \in DOMAIN index.aids
           /\ index.aids[index.tiles[h][m].llnr] = index.tiles[h][m]
           /\ index.recordTile[index.tiles[h][m].llnr] = h
           /\ \A n \in DOMAIN index.tiles[h] :
                index.tiles[h][n].llnr = index.tiles[h][m].llnr => n = m
    BY <1>1 DEF Mirrored
  <2>2. CASE k # key
    <3>1. k \in DOMAIN index.tiles /\ tiles2[k] = index.tiles[k]
      BY <1>8, <2>2
    <3>2. /\ tiles2[k][i].llnr \in DOMAIN index.aids
          /\ index.aids[tiles2[k][i].llnr] = tiles2[k][i]
          /\ index.recordTile[tiles2[k][i].llnr] = k
          /\ \A j \in DOMAIN tiles2[k] : tiles2[k][j].llnr = tiles2[k][i].llnr => j = i
      BY <2>1, <3>1
    <3> QED  BY <1>6, <1>7, <3>2
  <2>3. CASE k = key
    <3>1. tiles2[k] = bucket
      BY <1>8, <2>3
    <3>2. \A m \in 1 .. Len(old) :
             /\ old[m].llnr \in DOMAIN index.aids
             /\ index.aids[old[m].llnr] = old[m]
             /\ index.recordTile[old[m].llnr] = key
             /\ \A n \in 1 .. Len(old) : old[n].llnr = old[m].llnr => n = m
      BY <1>5, <1>10, <2>1
    <3>3. \A m \in 1 .. Len(old) : old[m].llnr # record.llnr
      BY <3>2
    <3>4. CASE i = Len(old) + 1
      <4>1. \A j \in DOMAIN bucket : bucket[j].llnr = bucket[i].llnr => j = i
        BY <1>5, <3>3, <3>4
      <4> QED  BY <1>5, <1>6, <1>7, <2>3, <3>1, <3>4, <4>1
    <3>5. CASE i \in 1 .. Len(old)
      <4>1. \A j \in DOMAIN bucket : bucket[j].llnr = bucket[i].llnr => j = i
        BY <1>5, <3>2, <3>3, <3>5
      <4> QED  BY <1>5, <1>6, <1>7, <2>3, <3>1, <3>2, <3>5, <4>1
    <3>6. i \in 1 .. Len(old) \/ i = Len(old) + 1
      BY <1>5, <3>1
    <3> QED  BY <3>4, <3>5, <3>6
  <2> QED  BY <2>2, <2>3
<1>13. Mirrored(next)
  BY <1>1, <1>6, <1>7, <1>9, <1>11, <1>12 DEF Mirrored
<1> QED  BY <1>9, <1>13 DEF Indexes, next

\* A record of any number replaces the one there was.
LEMMA AddKeepsMirror ==
    ASSUME NEW index \in Indexes, NEW record \in Records
    PROVE  AddRecord(index, record) \in Indexes
<1>1. /\ RemoveRecord(index, record.llnr) \in Indexes
      /\ record.llnr \notin DOMAIN RemoveRecord(index, record.llnr).aids
  BY RemoveKeepsMirror
<1> QED  BY <1>1, PlacedKeepsMirror DEF AddRecord

\* Adding the records of a page one after the other.
LEMMA AddsKeepMirror ==
    ASSUME NEW base \in Indexes, NEW seq \in Seq(Records)
    PROVE  FoldLeft(AddRecord, base, seq) \in Indexes
<1> DEFINE n == Len(seq)
           f == [pair \in Indexes \X (1 .. n) |-> AddRecord(pair[1], seq[pair[2]])]
           Computes(iter) == iter = [S \in SUBSET (1 .. n) |->
               IF S = {} THEN base ELSE AddRecord(iter[S \ {Max(S)}], seq[Max(S)])]
           iter == CHOOSE iter : Computes(iter)
<1>1. n \in Nat /\ DOMAIN seq = 1 .. n /\ \A k \in 1 .. n : seq[k] \in Records
  OBVIOUS
<1> HIDE DEF n
<1>2. FoldLeft(AddRecord, base, seq) = iter[1 .. n]
  BY <1>1, Zenon DEF FoldLeft, MapThenFoldSet
<1>3. PICK table \in [SUBSET (1 .. n) -> Indexes] : IsTable(table, n, base, f)
  <2>1. \A a \in Indexes, k \in 1 .. n : f[<<a, k>>] \in Indexes
    BY <1>1, AddKeepsMirror
  <2> HIDE DEF f
  <2> QED  BY <1>1, <2>1, FoldTable
<1>4. Computes(table)
  <2> SUFFICES ASSUME NEW S \in SUBSET (1 .. n), S # {}
               PROVE  table[S] = AddRecord(table[S \ {Max(S)}], seq[Max(S)])
    BY <1>3 DEF IsTable
  <2>1. Max(S) \in 1 .. n /\ S \ {Max(S)} \in SUBSET (1 .. n)
    BY <1>1, MaxOfIndices
  <2>2. table[S] = f[<<table[S \ {Max(S)}], Max(S)>>]
    BY <1>3 DEF IsTable
  <2> QED  BY <1>1, <2>1, <2>2
<1>5. Computes(iter)
  BY <1>4, Zenon
<1> HIDE DEF iter
<1>6. iter[1 .. 0] \in Indexes
  BY <1>5
<1>7. ASSUME NEW k \in 1 .. n, iter[1 .. (k - 1)] \in Indexes PROVE iter[1 .. k] \in Indexes
  <2>1. /\ 1 .. k \in SUBSET (1 .. n) /\ 1 .. k # {}
        /\ Max(1 .. k) = k /\ (1 .. k) \ {Max(1 .. k)} = 1 .. (k - 1)
    BY <1>1, InitialSegment
  <2>2. iter[1 .. k] = AddRecord(iter[(1 .. k) \ {Max(1 .. k)}], seq[Max(1 .. k)])
    BY <1>5, <2>1
  <2>3. iter[1 .. k] = AddRecord(iter[1 .. (k - 1)], seq[k])
    BY <2>1, <2>2, Zenon
  <2> QED  BY <1>1, <1>7, <2>3, AddKeepsMirror
<1>8. iter[1 .. n] \in Indexes
  BY <1>1, <1>6, <1>7, ChainStays
<1> QED  BY <1>2, <1>8

\* Removing the numbers a page held.
LEMMA RemovesKeepMirror ==
    ASSUME NEW base \in Indexes, NEW seq \in Seq(Llnrs)
    PROVE  FoldLeft(RemoveRecord, base, seq) \in Indexes
<1> DEFINE n == Len(seq)
           f == [pair \in Indexes \X (1 .. n) |-> RemoveRecord(pair[1], seq[pair[2]])]
           Computes(iter) == iter = [S \in SUBSET (1 .. n) |->
               IF S = {} THEN base ELSE RemoveRecord(iter[S \ {Max(S)}], seq[Max(S)])]
           iter == CHOOSE iter : Computes(iter)
<1>1. n \in Nat /\ DOMAIN seq = 1 .. n /\ \A k \in 1 .. n : seq[k] \in Llnrs
  OBVIOUS
<1> HIDE DEF n
<1>2. FoldLeft(RemoveRecord, base, seq) = iter[1 .. n]
  BY <1>1, Zenon DEF FoldLeft, MapThenFoldSet
<1>3. PICK table \in [SUBSET (1 .. n) -> Indexes] : IsTable(table, n, base, f)
  <2>1. \A a \in Indexes, k \in 1 .. n : f[<<a, k>>] \in Indexes
    BY <1>1, RemoveKeepsMirror
  <2> HIDE DEF f
  <2> QED  BY <1>1, <2>1, FoldTable
<1>4. Computes(table)
  <2> SUFFICES ASSUME NEW S \in SUBSET (1 .. n), S # {}
               PROVE  table[S] = RemoveRecord(table[S \ {Max(S)}], seq[Max(S)])
    BY <1>3 DEF IsTable
  <2>1. Max(S) \in 1 .. n /\ S \ {Max(S)} \in SUBSET (1 .. n)
    BY <1>1, MaxOfIndices
  <2>2. table[S] = f[<<table[S \ {Max(S)}], Max(S)>>]
    BY <1>3 DEF IsTable
  <2> QED  BY <1>1, <2>1, <2>2
<1>5. Computes(iter)
  BY <1>4, Zenon
<1> HIDE DEF iter
<1>6. iter[1 .. 0] \in Indexes
  BY <1>5
<1>7. ASSUME NEW k \in 1 .. n, iter[1 .. (k - 1)] \in Indexes PROVE iter[1 .. k] \in Indexes
  <2>1. /\ 1 .. k \in SUBSET (1 .. n) /\ 1 .. k # {}
        /\ Max(1 .. k) = k /\ (1 .. k) \ {Max(1 .. k)} = 1 .. (k - 1)
    BY <1>1, InitialSegment
  <2>2. iter[1 .. k] = RemoveRecord(iter[(1 .. k) \ {Max(1 .. k)}], seq[Max(1 .. k)])
    BY <1>5, <2>1
  <2>3. iter[1 .. k] = RemoveRecord(iter[1 .. (k - 1)], seq[k])
    BY <2>1, <2>2, Zenon
  <2> QED  BY <1>1, <1>7, <2>3, RemoveKeepsMirror
<1>8. iter[1 .. n] \in Indexes
  BY <1>1, <1>6, <1>7, ChainStays
<1> QED  BY <1>2, <1>8

\* A year on its own is a date, its first of January.
LEMMA YearIsStamped ==
    ASSUME NEW m \in Int, m > 0
    PROVE  DateUtc(m, 1, 1) \in Stamps
<1> DEFINE year == IF m \in 0 .. 99 THEN 1900 + m ELSE m
<1>1. year \in Nat
  OBVIOUS
<1>2. (1 - 1) \div 12 = 0 /\ ((1 - 1) % 12) + 1 = 1
  OBVIOUS
<1>3. \A y : DaysIn(y, 1) = 31
  BY DEF DaysIn
<1>4. DateUtc(m, 1, 1) = [year |-> year + 0, month |-> 1, day |-> 1]
  BY <1>2, <1>3 DEF DateUtc
<1> HIDE DEF year
<1> QED  BY <1>1, <1>4 DEF Stamps

LEMMA PushedIsRecords ==
    ASSUME NEW records \in Seq(Records), NEW feature \in Published
    PROVE  Pushed(records, feature) \in Seq(Records)
<1>1. CASE Parses(feature)
  <2>1. feature.position \in Positions
    BY <1>1 DEF Parses, ValidPosition, Published, Positions
  <2>2. feature.modified > 0 => DateUtc(feature.modified, 1, 1) \in Stamps
    BY YearIsStamped DEF Published
  <2>3. ModifiedDate(feature) \in Stamps
    BY <2>2 DEF ModifiedDate, Stamps
  <2>4. ParseFeature(feature) \in Records
    BY <2>1, <2>3 DEF ParseFeature, Records, Published
  <2> QED  BY <1>1, <2>4 DEF Pushed
<1>2. CASE ~Parses(feature)
  BY <1>2 DEF Pushed
<1> QED  BY <1>1, <1>2

\* What a download pushes feature by feature.
LEMMA PushesAreRecords ==
    ASSUME NEW base \in Seq(Records), NEW seq \in Seq(Published)
    PROVE  FoldLeft(Pushed, base, seq) \in Seq(Records)
<1> DEFINE n == Len(seq)
           f == [pair \in Seq(Records) \X (1 .. n) |-> Pushed(pair[1], seq[pair[2]])]
           Computes(iter) == iter = [S \in SUBSET (1 .. n) |->
               IF S = {} THEN base ELSE Pushed(iter[S \ {Max(S)}], seq[Max(S)])]
           iter == CHOOSE iter : Computes(iter)
<1>1. n \in Nat /\ DOMAIN seq = 1 .. n /\ \A k \in 1 .. n : seq[k] \in Published
  OBVIOUS
<1> HIDE DEF n
<1>2. FoldLeft(Pushed, base, seq) = iter[1 .. n]
  BY <1>1, Zenon DEF FoldLeft, MapThenFoldSet
<1>3. PICK table \in [SUBSET (1 .. n) -> Seq(Records)] : IsTable(table, n, base, f)
  <2>1. \A a \in Seq(Records), k \in 1 .. n : f[<<a, k>>] \in Seq(Records)
    BY <1>1, PushedIsRecords
  <2> HIDE DEF f
  <2> QED  BY <1>1, <2>1, FoldTable
<1>4. Computes(table)
  <2> SUFFICES ASSUME NEW S \in SUBSET (1 .. n), S # {}
               PROVE  table[S] = Pushed(table[S \ {Max(S)}], seq[Max(S)])
    BY <1>3 DEF IsTable
  <2>1. Max(S) \in 1 .. n /\ S \ {Max(S)} \in SUBSET (1 .. n)
    BY <1>1, MaxOfIndices
  <2>2. table[S] = f[<<table[S \ {Max(S)}], Max(S)>>]
    BY <1>3 DEF IsTable
  <2> QED  BY <1>1, <2>1, <2>2
<1>5. Computes(iter)
  BY <1>4, Zenon
<1> HIDE DEF iter
<1>6. iter[1 .. 0] \in Seq(Records)
  BY <1>5
<1>7. ASSUME NEW k \in 1 .. n, iter[1 .. (k - 1)] \in Seq(Records) PROVE iter[1 .. k] \in Seq(Records)
  <2>1. /\ 1 .. k \in SUBSET (1 .. n) /\ 1 .. k # {}
        /\ Max(1 .. k) = k /\ (1 .. k) \ {Max(1 .. k)} = 1 .. (k - 1)
    BY <1>1, InitialSegment
  <2>2. iter[1 .. k] = Pushed(iter[(1 .. k) \ {Max(1 .. k)}], seq[Max(1 .. k)])
    BY <1>5, <2>1
  <2>3. iter[1 .. k] = Pushed(iter[1 .. (k - 1)], seq[k])
    BY <2>1, <2>2, Zenon
  <2>4. seq[k] \in Published /\ iter[1 .. (k - 1)] \in Seq(Records)
    BY <1>1, <1>7
  <2> DEFINE before == iter[1 .. (k - 1)]
  <2>5. Pushed(before, seq[k]) \in Seq(Records)
    <3> HIDE DEF before
    <3> QED  BY <2>4, PushedIsRecords DEF before
  <2> QED  BY <2>3, <2>5
<1>8. iter[1 .. n] \in Seq(Records)
  BY <1>1, <1>6, <1>7, ChainStays
<1> QED  BY <1>2, <1>8

LEMMA DownloadIsRecords ==
    ASSUME NEW features \in Districts
    PROVE  Download(features) \in Seq(Records)
<1>1. features \in Seq(Published)
  BY FeaturesAreTyped DEF Published
<1>2. <<>> \in Seq(Records)
  OBVIOUS
<1> QED  BY <1>1, <1>2, PushesAreRecords DEF Download
-----------------------------------------------------------------------------
TilesInv ==
    /\ Index \in Indexes
    /\ districts \in [PageKeys -> Seq(Llnrs)]
    /\ diskPages \in [PageKeys -> Seq(Records)]

LEMMA BecomesKeepsMirror ==
    ASSUME NEW index \in Indexes, Becomes(index)
    PROVE  Index' \in Indexes
<1>1. index \in [aids : Aids, tiles : Tiles, recordTile : Placings]
  BY DEF Indexes
<1>2. index = [aids |-> aids', tiles |-> tiles', recordTile |-> recordTile']
  BY <1>1 DEF Becomes
<1> QED  BY <1>2 DEF Index

LEMMA NumbersOfRecords ==
    ASSUME NEW records \in Seq(Records)
    PROVE  [i \in DOMAIN records |-> records[i].llnr] \in Seq(Llnrs)
<1> DEFINE numbers == [i \in DOMAIN records |-> records[i].llnr]
<1>1. /\ Len(records) \in Nat /\ DOMAIN records = 1 .. Len(records)
      /\ \A i \in 1 .. Len(records) : records[i].llnr \in Llnrs
  <2>1. /\ Len(records) \in Nat /\ DOMAIN records = 1 .. Len(records)
        /\ \A i \in 1 .. Len(records) : records[i] \in Records
    OBVIOUS
  <2> QED  BY <2>1 DEF Records
<1>2. numbers \in [1 .. Len(records) -> Llnrs]
  BY <1>1
<1> HIDE DEF numbers
<1>3. numbers \in Seq(Llnrs)
  BY <1>1, <1>2
<1> QED  BY <1>3 DEF numbers

LEMMA TilesInitKeepsInv == TilesInit => TilesInv
<1> SUFFICES ASSUME TilesInit PROVE TilesInv
  OBVIOUS
<1>1. diskPages \in [PageKeys -> Seq(Records)]
  BY DownloadIsRecords DEF TilesInit, PageRecords
<1>2. districts \in [PageKeys -> Seq(Llnrs)]
  BY DEF TilesInit
<1>3. /\ aids \in [{} -> Records] /\ tiles \in [{} -> Seq(Records)] /\ recordTile \in [{} -> Int]
      /\ DOMAIN aids = {} /\ DOMAIN tiles = {} /\ DOMAIN recordTile = {}
  BY DEF TilesInit
<1>4. aids \in Aids /\ tiles \in Tiles /\ recordTile \in Placings
  BY <1>3 DEF Aids, Tiles, Placings
<1>5. Mirrored(Index)
  BY <1>3 DEF Mirrored, Index
<1>6. Index \in [aids : Aids, tiles : Tiles, recordTile : Placings]
  BY <1>4 DEF Index
<1> QED  BY <1>1, <1>2, <1>5, <1>6 DEF TilesInv, Indexes

LEMMA UpsertKeepsInv ==
    ASSUME TilesInv, NEW page \in PageKeys, NEW records \in Seq(Records),
           UpsertDistrict(page, records)
    PROVE  TilesInv'
<1> DEFINE without == FoldLeft(RemoveRecord, Index, districts[page])
           with == FoldLeft(AddRecord, without, records)
<1>1. without \in Indexes
  BY RemovesKeepMirror DEF TilesInv
<1>2. with \in Indexes
  <2> HIDE DEF without
  <2> QED  BY <1>1, AddsKeepMirror
<1>3. Becomes(with)
  BY DEF UpsertDistrict
<1> HIDE DEF with
<1>4. Index' \in Indexes
  BY <1>2, <1>3, BecomesKeepsMirror
<1> DEFINE numbers == [i \in DOMAIN records |-> records[i].llnr]
<1>5. numbers \in Seq(Llnrs)
  BY NumbersOfRecords
<1>6. districts' = [districts EXCEPT ![page] = numbers] /\ diskPages' = diskPages
  BY DEF UpsertDistrict
<1> HIDE DEF numbers
<1>7. districts' \in [PageKeys -> Seq(Llnrs)]
  BY <1>5, <1>6 DEF TilesInv
<1> QED  BY <1>4, <1>6, <1>7 DEF TilesInv

LEMMA ReadPagesKeepsInv ==
    ASSUME TilesInv, ReadPages
    PROVE  TilesInv'
<1>1. PICK order \in SetToSeqs(PageKeys) :
        Becomes(FoldLeft(AddRecord, Index,
                         FlattenSeq([i \in DOMAIN order |-> diskPages[order[i]]])))
  BY DEF ReadPages
<1> DEFINE n == Cardinality(PageKeys)
           read == [i \in DOMAIN order |-> diskPages[order[i]]]
           records == FlattenSeq(read)
<1>2. n \in Nat
  BY PagesAreFinite, FS_CardinalityType
<1>3. order \in [1 .. n -> PageKeys]
  BY DEF SetToSeqs
<1> HIDE DEF n
<1>4. read \in [1 .. n -> Seq(Records)]
  BY <1>3 DEF TilesInv
<1>5. read \in Seq(Seq(Records))
  BY <1>2, <1>4
<1> HIDE DEF read
<1>6. records \in Seq(Records)
  BY <1>5, FlattenedIsSeq
<1> HIDE DEF records
<1>7. FoldLeft(AddRecord, Index, records) \in Indexes
  BY <1>6, AddsKeepMirror DEF TilesInv
<1>8. Becomes(FoldLeft(AddRecord, Index, records))
  BY <1>1 DEF records, read
<1>9. Index' \in Indexes
  BY <1>7, <1>8, BecomesKeepsMirror
<1> QED  BY <1>9 DEF TilesInv, ReadPages

LEMMA TilesNextKeepsInv == TilesInv /\ [TilesNext]_tileVars => TilesInv'
<1> SUFFICES ASSUME TilesInv, [TilesNext]_tileVars PROVE TilesInv'
  OBVIOUS
<1>1. CASE ReadIndex
  <2> DEFINE numbers(page) == [i \in DOMAIN diskPages[page] |-> diskPages[page][i].llnr]
  <2>1. ASSUME NEW page \in PageKeys PROVE numbers(page) \in Seq(Llnrs)
    BY NumbersOfRecords DEF TilesInv
  <2>2. districts' = [page \in PageKeys |-> numbers(page)]
    BY <1>1 DEF ReadIndex
  <2> HIDE DEF numbers
  <2>3. districts' \in [PageKeys -> Seq(Llnrs)]
    BY <2>1, <2>2
  <2>4. Index' = Index /\ diskPages' = diskPages
    BY <1>1 DEF ReadIndex, Index
  <2> QED  BY <2>3, <2>4 DEF TilesInv
<1>2. CASE NoIndexFile
  BY <1>2 DEF NoIndexFile, TilesInv, Index
<1>3. CASE ReadPages
  BY <1>3, ReadPagesKeepsInv
<1>4. ASSUME NEW page \in PageKeys, NEW features \in Districts,
             UpsertDistrict(page, Download(features))
      PROVE  TilesInv'
  <2>1. Download(features) \in Seq(Records)
    BY DownloadIsRecords
  <2> QED  BY <1>4, <2>1, UpsertKeepsInv
<1>5. CASE UNCHANGED tileVars
  BY <1>5 DEF tileVars, TilesInv, Index
<1> QED  BY <1>1, <1>2, <1>3, <1>4, <1>5 DEF TilesNext

LEMMA TilesInvariance == TilesSpec => []TilesInv
BY TilesInitKeepsInv, TilesNextKeepsInv, PTL DEF TilesSpec
-----------------------------------------------------------------------------
(* The box of a scan. *)

\* Where the longitude of a box edge comes back onto the globe.
LEMMA NormalizedLongitude ==
    ASSUME NEW q \in Int, -(2 * HalfCircle) <= q, q < 2 * HalfCircle
    PROVE  NormalizeLongitude(q) = IF q < -HalfCircle THEN q + 2 * HalfCircle
                                   ELSE IF q >= HalfCircle THEN q - 2 * HalfCircle ELSE q
BY TilesCoverTheGlobe DEF NormalizeLongitude

\* A box is on the globe; it crosses the antimeridian exactly where its west edge
\* does or its east edge does, and its edges then are in different cells.
LEMMA BoxOfScan ==
    ASSUME NEW vessel \in Positions, NEW reach \in Reaches
    PROVE  LET bbox == PositionToBbox(vessel, reach) IN
           /\ bbox.south \in -Pole .. Pole /\ bbox.north \in -Pole .. Pole
           /\ bbox.west \in -HalfCircle .. HalfCircle - 1
           /\ bbox.east \in -HalfCircle .. HalfCircle - 1
           /\ bbox.east < bbox.west => bbox.east + CellSize <= bbox.west
           /\ \A p \in Positions : InBbox(p, bbox) => WithinReach(p, vessel, reach)
           /\ \A p \in Positions :
                WithinReach(p, vessel, reach) /\ p.longitude # HalfCircle => InBbox(p, bbox)
<1> DEFINE bbox == PositionToBbox(vessel, reach)
<1>1. /\ HalfCircle \in Nat \ {0} /\ Pole \in Nat \ {0} /\ CellSize \in Nat \ {0}
      /\ reach \in Nat /\ 2 * reach + CellSize <= 2 * HalfCircle
      /\ vessel.latitude \in -Pole .. Pole /\ vessel.longitude \in -HalfCircle .. HalfCircle
  BY TilesCoverTheGlobe DEF Positions
<1> DEFINE west == vessel.longitude - reach
           east == vessel.longitude + reach
<1>2. /\ bbox.west = IF west < -HalfCircle THEN west + 2 * HalfCircle
                     ELSE IF west >= HalfCircle THEN west - 2 * HalfCircle ELSE west
      /\ bbox.east = IF east < -HalfCircle THEN east + 2 * HalfCircle
                     ELSE IF east >= HalfCircle THEN east - 2 * HalfCircle ELSE east
  BY <1>1, NormalizedLongitude DEF PositionToBbox
<1>3. /\ bbox.south = IF Pole < reach - vessel.latitude THEN -Pole ELSE -(reach - vessel.latitude)
      /\ bbox.north = IF Pole < vessel.latitude + reach THEN Pole ELSE vessel.latitude + reach
  BY <1>1 DEF PositionToBbox, AtMost
<1> HIDE DEF bbox
<1>4. /\ bbox.south \in -Pole .. Pole /\ bbox.north \in -Pole .. Pole
      /\ bbox.west \in -HalfCircle .. HalfCircle - 1
      /\ bbox.east \in -HalfCircle .. HalfCircle - 1
      /\ bbox.east < bbox.west => bbox.east + CellSize <= bbox.west
  BY <1>1, <1>2, <1>3
<1>5. ASSUME NEW p \in Positions, InBbox(p, bbox) PROVE WithinReach(p, vessel, reach)
  <2>1. p.latitude \in -Pole .. Pole /\ p.longitude \in -HalfCircle .. HalfCircle
    BY DEF Positions
  <2>2. Distance(p.latitude, vessel.latitude) <= reach
    BY <1>1, <1>3, <1>5, <2>1 DEF InBbox, Distance
  <2>3. LongitudeInBbox(p.longitude, bbox)
    BY <1>5 DEF InBbox
  <2>4. LET apart == Distance(p.longitude, vessel.longitude)
        IN  AtMost(apart, 2 * HalfCircle - apart) <= reach
    BY <1>1, <1>2, <2>1, <2>3 DEF LongitudeInBbox, Distance, AtMost
  <2> QED  BY <2>2, <2>4 DEF WithinReach
<1>6. ASSUME NEW p \in Positions, WithinReach(p, vessel, reach), p.longitude # HalfCircle
      PROVE  InBbox(p, bbox)
  <2>1. p.latitude \in -Pole .. Pole /\ p.longitude \in -HalfCircle .. HalfCircle
    BY DEF Positions
  <2>2. p.latitude \in bbox.south .. bbox.north
    BY <1>1, <1>3, <1>4, <1>6, <2>1 DEF WithinReach, Distance
  <2>3. LongitudeInBbox(p.longitude, bbox)
    BY <1>1, <1>2, <1>4, <1>6, <2>1 DEF LongitudeInBbox, WithinReach, Distance, AtMost
  <2> QED  BY <2>2, <2>3 DEF InBbox
<1> QED  BY <1>4, <1>5, <1>6 DEF bbox

LEMMA CellOrder ==
    /\ LonCells \in Nat \ {0}
    /\ \A a \in Int : a \div CellSize \in Int
    /\ \A a, b \in Int : a <= b => a \div CellSize <= b \div CellSize
    /\ \A a, b \in Int : a + CellSize <= b => a \div CellSize < b \div CellSize
    /\ \A a \in 0 .. 2 * HalfCircle - 1 : a \div CellSize \in 0 .. LonCells - 1
<1>1. /\ CellSize \in Nat /\ CellSize > 0 /\ HalfCircle \in Nat /\ HalfCircle > 0
      /\ (2 * HalfCircle) % CellSize = 0
  BY TilesCoverTheGlobe
<1>2. \A a \in Int : a \div CellSize \in Int
  BY <1>1
<1>3. ASSUME NEW a \in Int, NEW b \in Int, a <= b PROVE a \div CellSize <= b \div CellSize
  BY <1>1, <1>3
<1>4. ASSUME NEW a \in Int, NEW b \in Int, a + CellSize <= b
      PROVE  a \div CellSize < b \div CellSize
  BY <1>1, <1>4
<1>5. ASSUME NEW a \in 0 .. 2 * HalfCircle - 1
      PROVE  a \div CellSize <= ((2 * HalfCircle) \div CellSize) - 1
  BY <1>1, <1>5
<1>6. ASSUME NEW a \in 0 .. 2 * HalfCircle - 1 PROVE a \div CellSize >= 0
  BY <1>1, <1>6
<1>7. LonCells \in Int /\ \A a \in 0 .. 2 * HalfCircle - 1 : a \div CellSize \in 0 .. LonCells - 1
  BY <1>1, <1>2, <1>5, <1>6 DEF LonCells
<1>8. 0 \in 0 .. 2 * HalfCircle - 1
  BY <1>1
<1>9. LonCells \in Nat \ {0}
  BY <1>7, <1>8
<1> QED  BY <1>2, <1>3, <1>4, <1>7, <1>9

\* The cells of a box: ranges of whole rows, none twice, with the cell of every
\* position in the box.
LEMMA CellsOfBox ==
    ASSUME NEW vessel \in Positions, NEW reach \in Reaches, NEW p \in Positions,
           p.longitude # HalfCircle, InBbox(p, PositionToBbox(vessel, reach))
    PROVE  LET bbox == PositionToBbox(vessel, reach)
               ranges == LonCellRanges(bbox)
           IN  /\ LatCell(p.latitude) \in LatCellRange(bbox)
               /\ LatCellRange(bbox) \subseteq Int
               /\ LonCell(p.longitude) \in 0 .. LonCells - 1
               /\ \A range \in DOMAIN ranges : ranges[range] \subseteq 0 .. LonCells - 1
               /\ \E range \in DOMAIN ranges :
                    /\ LonCell(p.longitude) \in ranges[range]
                    /\ \A other \in DOMAIN ranges :
                         LonCell(p.longitude) \in ranges[other] => other = range
<1> DEFINE bbox == PositionToBbox(vessel, reach)
           ranges == LonCellRanges(bbox)
           cell == LonCell(p.longitude)
           westCell == LonCell(bbox.west)
           eastCell == LonCell(bbox.east)
<1>1. /\ HalfCircle \in Nat \ {0} /\ Pole \in Nat \ {0} /\ CellSize \in Nat \ {0}
      /\ p.latitude \in -Pole .. Pole /\ p.longitude \in -HalfCircle .. HalfCircle - 1
  <2>1. /\ HalfCircle \in Nat \ {0} /\ Pole \in Nat \ {0} /\ CellSize \in Nat \ {0}
        /\ p.latitude \in -Pole .. Pole /\ p.longitude \in -HalfCircle .. HalfCircle
    BY TilesCoverTheGlobe DEF Positions
  <2> QED  BY <2>1
<1>2. /\ bbox.south \in -Pole .. Pole /\ bbox.north \in -Pole .. Pole
      /\ bbox.west \in -HalfCircle .. HalfCircle - 1
      /\ bbox.east \in -HalfCircle .. HalfCircle - 1
      /\ bbox.east < bbox.west => bbox.east + CellSize <= bbox.west
  BY BoxOfScan
<1>3. /\ p.latitude \in bbox.south .. bbox.north
      /\ LongitudeInBbox(p.longitude, bbox)
  BY DEF InBbox
<1>13. ranges = IF bbox.east >= bbox.west THEN <<westCell .. eastCell>>
                ELSE <<westCell .. LonCells - 1, 0 .. eastCell>>
  BY DEF LonCellRanges
<1> HIDE DEF bbox, ranges
<1>4. /\ LatCell(bbox.south) <= LatCell(p.latitude)
      /\ LatCell(p.latitude) <= LatCell(bbox.north)
      /\ LatCell(p.latitude) \in Int /\ LatCell(bbox.south) \in Int /\ LatCell(bbox.north) \in Int
  <2>1. /\ bbox.south + Pole \in Int /\ p.latitude + Pole \in Int /\ bbox.north + Pole \in Int
        /\ bbox.south + Pole <= p.latitude + Pole /\ p.latitude + Pole <= bbox.north + Pole
    BY <1>1, <1>2, <1>3
  <2> QED  BY <2>1, CellOrder DEF LatCell
<1>5. /\ cell \in 0 .. LonCells - 1 /\ westCell \in 0 .. LonCells - 1
      /\ eastCell \in 0 .. LonCells - 1 /\ LonCells \in Nat
  <2>1. /\ p.longitude + HalfCircle \in 0 .. 2 * HalfCircle - 1
        /\ bbox.west + HalfCircle \in 0 .. 2 * HalfCircle - 1
        /\ bbox.east + HalfCircle \in 0 .. 2 * HalfCircle - 1
    BY <1>1, <1>2
  <2> QED  BY <2>1, CellOrder DEF LonCell
<1>6. /\ bbox.west <= p.longitude => westCell <= cell
      /\ p.longitude <= bbox.east => cell <= eastCell
      /\ bbox.east < bbox.west => eastCell < westCell
  <2>1. /\ p.longitude + HalfCircle \in Int /\ bbox.west + HalfCircle \in Int
        /\ bbox.east + HalfCircle \in Int
        /\ bbox.west <= p.longitude => bbox.west + HalfCircle <= p.longitude + HalfCircle
        /\ p.longitude <= bbox.east => p.longitude + HalfCircle <= bbox.east + HalfCircle
        /\ bbox.east < bbox.west => bbox.east + HalfCircle + CellSize <= bbox.west + HalfCircle
    BY <1>1, <1>2
  <2> QED  BY <2>1, CellOrder DEF LonCell
<1> HIDE DEF cell, westCell, eastCell
<1>7. CASE bbox.east >= bbox.west
  <2>1. cell \in westCell .. eastCell
    BY <1>1, <1>2, <1>3, <1>5, <1>6, <1>7 DEF LongitudeInBbox
  <2>2. westCell .. eastCell \subseteq 0 .. LonCells - 1
    BY <1>5
  <2>3. DOMAIN ranges = {1} /\ ranges[1] = westCell .. eastCell
    BY <1>7, <1>13
  <2>4. /\ \A range \in DOMAIN ranges : ranges[range] \subseteq 0 .. LonCells - 1
        /\ \E range \in DOMAIN ranges :
             /\ cell \in ranges[range]
             /\ \A other \in DOMAIN ranges : cell \in ranges[other] => other = range
    BY <2>1, <2>2, <2>3
  <2> QED  BY <1>4, <1>5, <2>4 DEF bbox, ranges, cell, LatCellRange
<1>8. CASE ~(bbox.east >= bbox.west)
  <2>1. eastCell < westCell
    BY <1>2, <1>6, <1>8
  <2>2. cell >= westCell \/ cell <= eastCell
    BY <1>1, <1>2, <1>3, <1>6, <1>8 DEF LongitudeInBbox
  <2>3. /\ westCell .. LonCells - 1 \subseteq 0 .. LonCells - 1
        /\ 0 .. eastCell \subseteq 0 .. LonCells - 1
    BY <1>5
  <2>4. /\ DOMAIN ranges = {1, 2}
        /\ ranges[1] = westCell .. LonCells - 1 /\ ranges[2] = 0 .. eastCell
    BY <1>8, <1>13
  <2>5. \/ cell \in ranges[1] /\ cell \notin ranges[2]
        \/ cell \in ranges[2] /\ cell \notin ranges[1]
    BY <1>5, <2>1, <2>2, <2>4
  <2>6. /\ \A range \in DOMAIN ranges : ranges[range] \subseteq 0 .. LonCells - 1
        /\ \E range \in DOMAIN ranges :
             /\ cell \in ranges[range]
             /\ \A other \in DOMAIN ranges : cell \in ranges[other] => other = range
    BY <2>3, <2>4, <2>5
  <2> QED  BY <1>4, <1>5, <2>6 DEF bbox, ranges, cell, LatCellRange
<1> QED  BY <1>7, <1>8

\* The tile of a position in the box is visited exactly once.
LEMMA OneVisit ==
    ASSUME NEW vessel \in Positions, NEW reach \in Reaches, NEW p \in Positions,
           p.longitude # HalfCircle, InBbox(p, PositionToBbox(vessel, reach)),
           TileKey(p) \in DOMAIN tiles
    PROVE  \E visit \in Visits(PositionToBbox(vessel, reach)) :
             /\ visit.key = TileKey(p)
             /\ \A other \in Visits(PositionToBbox(vessel, reach)) :
                  other.key = TileKey(p) => other = visit
<1> DEFINE bbox == PositionToBbox(vessel, reach)
           ranges == LonCellRanges(bbox)
           bands == LatCellRange(bbox)
           row == LatCell(p.latitude)
           cell == LonCell(p.longitude)
<1>1. /\ row \in bands /\ bands \subseteq Int /\ cell \in 0 .. LonCells - 1
      /\ \A range \in DOMAIN ranges : ranges[range] \subseteq 0 .. LonCells - 1
      /\ \E range \in DOMAIN ranges :
           /\ cell \in ranges[range]
           /\ \A other \in DOMAIN ranges : cell \in ranges[other] => other = range
  BY CellsOfBox
<1>2. PICK range \in DOMAIN ranges :
        /\ cell \in ranges[range]
        /\ \A other \in DOMAIN ranges : cell \in ranges[other] => other = range
  BY <1>1
<1>3. TileKey(p) = row * LonCells + cell
  BY DEF TileKey
<1>4. Visits(bbox) = {visit \in [key : DOMAIN tiles, row : bands, range : DOMAIN ranges] :
                        visit.key - visit.row * LonCells \in ranges[visit.range]}
  BY DEF Visits
<1>5. LonCells \in Nat \ {0}
  BY CellOrder
<1> DEFINE visit == [key |-> TileKey(p), row |-> row, range |-> range]
<1> HIDE DEF bbox, ranges, bands, row, cell
<1>6. row \in Int /\ cell \in Int
  BY <1>1, <1>5
<1>7. TileKey(p) - row * LonCells = cell
  <2>1. row * LonCells \in Int
    BY <1>5, <1>6
  <2> QED  BY <1>3, <1>6, <2>1
<1>8. visit \in Visits(bbox) /\ visit.key = TileKey(p)
  BY <1>1, <1>2, <1>4, <1>7
<1>9. ASSUME NEW other \in Visits(bbox), other.key = TileKey(p) PROVE other = visit
  <2>1. /\ other \in [key : DOMAIN tiles, row : bands, range : DOMAIN ranges]
        /\ TileKey(p) - other.row * LonCells \in ranges[other.range]
    BY <1>4, <1>9
  <2>2. /\ other.row \in Int /\ other.range \in DOMAIN ranges
        /\ TileKey(p) - other.row * LonCells \in 0 .. LonCells - 1
    BY <1>1, <2>1
  <2>3. other.row = row
    <3> DEFINE k == row - other.row
    <3>1. k \in Int /\ k * LonCells = row * LonCells - other.row * LonCells
      BY <1>5, <1>6, <2>2
    <3>2. -LonCells < k * LonCells /\ k * LonCells < LonCells
      <4>1. row * LonCells \in Int /\ other.row * LonCells \in Int
        BY <1>5, <1>6, <2>2
      <4> QED  BY <1>1, <1>3, <1>5, <1>6, <2>2, <3>1, <4>1
    <3> HIDE DEF k
    <3>3. k = 0
      BY <1>5, <3>1, <3>2
    <3> QED  BY <1>6, <2>2, <3>3 DEF k
  <2>4. other.range = range
    BY <1>2, <1>7, <2>1, <2>2, <2>3
  <2> QED  BY <1>9, <2>1, <2>3, <2>4
<1> QED  BY <1>8, <1>9 DEF bbox

LEMMA ListedIsFound ==
    ASSUME TilesInv, NEW vessel \in Vessels, NEW reach \in Reaches
    PROVE  LET found == ListAids(PositionToBbox(vessel, reach))
               due == {l \in DOMAIN aids :
                         /\ WithinReach(aids[l].position, vessel, reach)
                         /\ \/ aids[l].modifiedDate = Undated
                            \/ aids[l].modifiedDate.year >= MinimumYear}
           IN  /\ \A hit \in found : hit.record.llnr \in due /\ GetAid(hit.record.llnr) = hit.record
               /\ \A l \in due : aids[l].position.longitude # HalfCircle =>
                    Cardinality({hit \in found : hit.record.llnr = l}) = 1
<1> DEFINE bbox == PositionToBbox(vessel, reach)
           found == ListAids(bbox)
           due == {l \in DOMAIN aids :
                     /\ WithinReach(aids[l].position, vessel, reach)
                     /\ \/ aids[l].modifiedDate = Undated
                        \/ aids[l].modifiedDate.year >= MinimumYear}
<1>1. vessel \in Positions
  BY VesselsAreOnTheGlobe DEF Positions
<1>2. /\ Index.aids = aids /\ Index.tiles = tiles /\ Index.recordTile = recordTile
      /\ Index \in [aids : Aids, tiles : Tiles, recordTile : Placings] /\ Mirrored(Index)
  BY DEF TilesInv, Indexes, Index
<1>3. \A l \in DOMAIN aids : aids[l] \in Records
  <2>1. PICK S \in SUBSET Llnrs : aids \in [S -> Records]
    BY <1>2 DEF Aids
  <2> QED  BY <2>1
<1>4. \A l \in DOMAIN aids :
        /\ aids[l].llnr = l /\ recordTile[l] = TileKey(aids[l].position)
        /\ recordTile[l] \in DOMAIN tiles
        /\ \E i \in DOMAIN tiles[recordTile[l]] : tiles[recordTile[l]][i] = aids[l]
  BY <1>2 DEF Mirrored
<1>5. \A k \in DOMAIN tiles : \A i \in DOMAIN tiles[k] :
        /\ tiles[k][i].llnr \in DOMAIN aids
        /\ aids[tiles[k][i].llnr] = tiles[k][i]
        /\ recordTile[tiles[k][i].llnr] = k
        /\ \A j \in DOMAIN tiles[k] : tiles[k][j].llnr = tiles[k][i].llnr => j = i
  BY <1>2 DEF Mirrored
<1>6. \A r \in Records : YearFilter(r.modifiedDate) <=>
        (r.modifiedDate = Undated \/ r.modifiedDate.year >= MinimumYear)
  BY MinimumYearIsNat DEF Records, Stamps, YearFilter, IsOnOrAfter
<1>7. /\ \A p \in Positions : InBbox(p, bbox) => WithinReach(p, vessel, reach)
      /\ \A p \in Positions :
           WithinReach(p, vessel, reach) /\ p.longitude # HalfCircle => InBbox(p, bbox)
  BY <1>1, BoxOfScan
<1>8. \A r \in Records : r.position \in Positions
  BY DEF Records
<1>9. \A visit \in Visits(bbox) : visit.key \in DOMAIN tiles
  BY DEF Visits
<1> HIDE DEF bbox
<1>10. \A hit : hit \in found <=>
         \E visit \in Visits(bbox) : \E i \in DOMAIN tiles[visit.key] :
           /\ InBbox(tiles[visit.key][i].position, bbox)
           /\ YearFilter(tiles[visit.key][i].modifiedDate)
           /\ hit = [visit |-> visit, at |-> i, record |-> tiles[visit.key][i]]
  <2> DEFINE hits(visit) ==
               {[visit |-> visit, at |-> i, record |-> tiles[visit.key][i]] :
                  i \in {j \in DOMAIN tiles[visit.key] : InBbox(tiles[visit.key][j].position, bbox)}}
  <2>1. ASSUME NEW visit, NEW hit
        PROVE  hit \in hits(visit) <=>
                 \E i \in DOMAIN tiles[visit.key] :
                   /\ InBbox(tiles[visit.key][i].position, bbox)
                   /\ hit = [visit |-> visit, at |-> i, record |-> tiles[visit.key][i]]
    OBVIOUS
  <2>2. QueryBbox(bbox) = UNION {hits(visit) : visit \in Visits(bbox)}
    BY DEF QueryBbox
  <2> HIDE DEF hits
  <2>3. \A hit : hit \in QueryBbox(bbox) <=> \E visit \in Visits(bbox) : hit \in hits(visit)
    BY <2>2
  <2>4. \A hit : hit \in found <=> hit \in QueryBbox(bbox) /\ YearFilter(hit.record.modifiedDate)
    BY DEF ListAids
  <2>5. ASSUME NEW hit, NEW visit, hit \in hits(visit)
        PROVE  YearFilter(hit.record.modifiedDate) <=>
                 \E i \in DOMAIN tiles[visit.key] :
                   /\ InBbox(tiles[visit.key][i].position, bbox)
                   /\ YearFilter(tiles[visit.key][i].modifiedDate)
                   /\ hit = [visit |-> visit, at |-> i, record |-> tiles[visit.key][i]]
    <3>1. PICK i \in DOMAIN tiles[visit.key] :
            /\ InBbox(tiles[visit.key][i].position, bbox)
            /\ hit = [visit |-> visit, at |-> i, record |-> tiles[visit.key][i]]
      BY <2>1, <2>5
    <3>2. hit.record = tiles[visit.key][i]
      BY <3>1
    <3> QED  BY <3>1, <3>2
  <2> HIDE DEF found
  <2> DEFINE is(hit, visit) == \E i \in DOMAIN tiles[visit.key] :
                   /\ InBbox(tiles[visit.key][i].position, bbox)
                   /\ YearFilter(tiles[visit.key][i].modifiedDate)
                   /\ hit = [visit |-> visit, at |-> i, record |-> tiles[visit.key][i]]
  <2>6. ASSUME NEW hit, NEW visit \in Visits(bbox), is(hit, visit) PROVE hit \in found
    <3>1. hit \in hits(visit)
      BY <2>1, <2>6
    <3>2. YearFilter(hit.record.modifiedDate)
      BY <2>5, <2>6, <3>1
    <3> QED  BY <2>3, <2>4, <3>1, <3>2
  <2>7. ASSUME NEW hit \in found PROVE \E visit \in Visits(bbox) : is(hit, visit)
    <3>1. PICK visit \in Visits(bbox) : hit \in hits(visit)
      BY <2>3, <2>4
    <3>2. is(hit, visit)
      BY <2>4, <2>5, <3>1
    <3> QED  BY <3>1, <3>2
  <2> QED  BY <2>6, <2>7, Zenon
<1> HIDE DEF found
<1>11. ASSUME NEW hit \in found
       PROVE  hit.record.llnr \in due /\ GetAid(hit.record.llnr) = hit.record
  <2>1. PICK visit \in Visits(bbox) : \E i \in DOMAIN tiles[visit.key] :
           /\ InBbox(tiles[visit.key][i].position, bbox)
           /\ YearFilter(tiles[visit.key][i].modifiedDate)
           /\ hit = [visit |-> visit, at |-> i, record |-> tiles[visit.key][i]]
    BY <1>10
  <2>2. PICK i \in DOMAIN tiles[visit.key] :
           /\ InBbox(tiles[visit.key][i].position, bbox)
           /\ YearFilter(tiles[visit.key][i].modifiedDate)
           /\ hit = [visit |-> visit, at |-> i, record |-> tiles[visit.key][i]]
    BY <2>1
  <2>3. /\ hit.record = tiles[visit.key][i] /\ hit.record.llnr \in DOMAIN aids
        /\ aids[hit.record.llnr] = hit.record
    BY <1>5, <1>9, <2>2
  <2>4. hit.record \in Records
    BY <1>3, <2>3
  <2>5. hit.record.llnr \in due
    BY <1>6, <1>7, <1>8, <2>2, <2>3, <2>4
  <2> QED  BY <2>3, <2>5 DEF GetAid
<1>12. ASSUME NEW l \in due, aids[l].position.longitude # HalfCircle
       PROVE  Cardinality({hit \in found : hit.record.llnr = l}) = 1
  <2> DEFINE record == aids[l]
             key == recordTile[l]
  <2>1. /\ l \in DOMAIN aids /\ record \in Records /\ record.llnr = l
        /\ key = TileKey(record.position) /\ key \in DOMAIN tiles
    BY <1>3, <1>4
  <2>2. PICK i \in DOMAIN tiles[key] : tiles[key][i] = record
    BY <1>4, <2>1
  <2>3. InBbox(record.position, bbox) /\ YearFilter(record.modifiedDate)
    BY <1>6, <1>7, <1>8, <1>12, <2>1
  <2>4. PICK visit \in Visits(bbox) :
          visit.key = key /\ \A other \in Visits(bbox) : other.key = key => other = visit
    BY <1>1, <1>8, <1>12, <2>1, <2>3, OneVisit DEF bbox
  <2> DEFINE only == [visit |-> visit, at |-> i, record |-> record]
  <2>5. only \in found /\ only.record.llnr = l
    BY <1>10, <2>1, <2>2, <2>3, <2>4
  <2>6. ASSUME NEW hit \in found, hit.record.llnr = l PROVE hit = only
    <3>1. PICK other \in Visits(bbox) : \E j \in DOMAIN tiles[other.key] :
             hit = [visit |-> other, at |-> j, record |-> tiles[other.key][j]]
      BY <1>10
    <3>2. PICK j \in DOMAIN tiles[other.key] :
             hit = [visit |-> other, at |-> j, record |-> tiles[other.key][j]]
      BY <3>1
    <3>3. tiles[other.key][j].llnr = l /\ other.key \in DOMAIN tiles
      BY <1>9, <2>6, <3>2
    <3>4. other.key = key
      BY <1>5, <3>3
    <3>5. other = visit
      BY <2>4, <3>4
    <3>6. j = i
      BY <1>5, <2>1, <2>2, <3>3, <3>4
    <3> QED  BY <2>2, <3>2, <3>4, <3>5, <3>6
  <2> HIDE DEF only
  <2>7. {hit \in found : hit.record.llnr = l} = {only}
    BY <2>5, <2>6
  <2> QED  BY <2>7, FS_Singleton
<1> HIDE DEF due
<1>13. /\ \A hit \in found : hit.record.llnr \in due /\ GetAid(hit.record.llnr) = hit.record
       /\ \A l \in due : aids[l].position.longitude # HalfCircle =>
            Cardinality({hit \in found : hit.record.llnr = l}) = 1
  BY <1>11, <1>12
<1> QED  BY <1>13 DEF found, due, bbox

\* Whatever pages were loaded, replaced or moved an aid between them, a scan around
\* any vessel lists each aid within reach once, and nothing else, for any number of
\* aids and pages, any globe and any size of tile (light-list-store.ts:91-147, 201-239).
THEOREM EveryQueryFindsAll == TilesSpec => []QueryFindsAll
<1>1. TilesInv => QueryFindsAll
  BY ListedIsFound DEF QueryFindsAll
<1> QED  BY <1>1, TilesInvariance, PTL
-----------------------------------------------------------------------------
(* The lists of NOAA ENC. *)

\* The year of a date that parses is that of its timestamp.
LEMMA StampHasItsYear ==
    ASSUME NEW raw \in Sordats, Readable(raw), raw.year \notin 0 .. 99
    PROVE  /\ SordatToIsoTimestamp(raw) # Undated
           /\ SordatToIsoTimestamp(raw).year = raw.year
<1> DEFINE parts == ParseSordat(raw)
           stamp == SordatToIsoTimestamp(raw)
<1>1. /\ raw # Undated /\ raw.length \in {6, 8} /\ raw.year # NaN /\ raw.month \in 1 .. 12
      /\ raw.length = 8 => raw.day \in 1 .. 31
      /\ raw.year \in Int
  BY DEF Readable, Sordats
<1>2. parts \in [year : Int, month : Int, day : Int] /\ parts.year = raw.year /\ parts.month = raw.month
  BY <1>1 DEF ParseSordat
<1>3. parts # Undated
  BY <1>2, UndatedIsNoDate
<1> HIDE DEF parts
<1>4. stamp = DateUtc(parts.year, parts.month, parts.day)
  BY <1>3 DEF SordatToIsoTimestamp, parts
<1> DEFINE year == (IF parts.year \in 0 .. 99 THEN 1900 + parts.year ELSE parts.year)
                     + (parts.month - 1) \div 12
           month == ((parts.month - 1) % 12) + 1
<1>5. (parts.month - 1) \div 12 = 0
  BY <1>1, <1>2
<1>6. year = raw.year
  BY <1>1, <1>2, <1>5
<1>7. stamp.year = year
  BY <1>4 DEF DateUtc
<1>8. stamp # Undated
  <2>1. month \in Int /\ parts.day \in Int /\ year \in Int
    BY <1>1, <1>2, <1>6
  <2>2. DaysIn(year, month) \in Int
    BY DEF DaysIn
  <2>3. stamp \in {[year |-> year, month |-> month, day |-> parts.day],
                    [year |-> year, month |-> month + 1, day |-> parts.day - DaysIn(year, month)]}
    BY <1>4 DEF DateUtc
  <2> HIDE DEF month, year
  <2> QED  BY <2>1, <2>2, <2>3, UndatedIsNoDate
<1> QED  BY <1>6, <1>7, <1>8

\* Of what is not misread the filter drops exactly what is too old.
LEMMA FilterDropsTooOld ==
    ASSUME NEW x \in Features, ~Misread(x)
    PROVE  YearFilter(StampOf[x]) <=> ~TooOld(x)
<1> DEFINE raw == SordatOf[x]
           stamp == SordatToIsoTimestamp(raw)
<1>1. StampOf[x] = stamp
  BY DEF StampOf
<1>2. MinimumYear \in Nat /\ (raw \in Sordats \/ raw = Undated)
  BY MinimumYearIsNat, SordatsAreTyped
<1>3. CASE ~Readable(raw)
  <2>1. ParseSordat(raw) = Undated
    BY <1>3 DEF ParseSordat, Readable
  <2>2. stamp = Undated
    BY <2>1 DEF SordatToIsoTimestamp
  <2> QED  BY <1>1, <1>3, <2>2 DEF YearFilter, IsOnOrAfter, TooOld
<1>4. CASE Readable(raw)
  <2>1. raw \in Sordats /\ ~(raw.year < 100)
    BY <1>2, <1>4 DEF Readable, Misread
  <2>2. raw.year \in Int
    BY <1>4, <2>1 DEF Readable, Sordats
  <2>3. stamp # Undated /\ stamp.year = raw.year
    BY <1>4, <2>1, <2>2, StampHasItsYear
  <2>4. TooOld(x) <=> raw.year < MinimumYear
    BY <1>4 DEF TooOld
  <2> HIDE DEF raw, stamp
  <2>5. YearFilter(stamp) <=> MinimumYear <= 0 \/ raw.year >= MinimumYear
    BY <2>3 DEF YearFilter, IsOnOrAfter
  <2> QED  BY <1>1, <1>2, <2>1, <2>2, <2>4, <2>5
<1> QED  BY <1>3, <1>4

\* Replies are of their type: the fetch a call joined is in joined.
EncInv == reply \in [Calls -> [state : {"idle", "waiting", "answered", "refused"},
                               found : SUBSET Features]]

\* What Standing and Answer make.
LEMMA RepliesAreTyped ==
    /\ \A word \in {"idle", "waiting", "refused"} :
         Standing(word) \in [state : {"idle", "waiting", "answered", "refused"},
                              found : SUBSET Features]
    /\ \A found \in SUBSET Features :
         Answer(found) \in [state : {"idle", "waiting", "answered", "refused"},
                            found : SUBSET Features]
BY DEF Standing, Answer

\* The reply of a call that waits changes only when that call continues.
LEMMA EncStepKeepsInv == EncInv /\ [EncNext]_encVars => EncInv'
<1> SUFFICES ASSUME EncInv, [EncNext]_encVars PROVE EncInv'
  OBVIOUS
<1>1. ASSUME NEW c \in Calls, NEW answer \in [state : {"idle", "waiting", "answered", "refused"},
                                             found : SUBSET Features],
             reply' = [reply EXCEPT ![c] = answer]
      PROVE  EncInv'
  BY <1>1 DEF EncInv
<1>2. CASE reply' = reply
  BY <1>2 DEF EncInv
<1>3. ASSUME NEW c \in Calls, ListOutsideUs(c) PROVE EncInv'
  BY <1>1, <1>3, RepliesAreTyped DEF ListOutsideUs
<1>4. ASSUME NEW c \in Calls, NEW box \in Boxes, List(c, box) PROVE EncInv'
  BY <1>1, <1>4, RepliesAreTyped DEF List
<1>5. ASSUME NEW c \in Calls, ListReturns(c) PROVE EncInv'
  <2> DEFINE found == FilterByMinimumYear(Summaries(joined[c]), StampOf)
  <2>1. found \in SUBSET Features
    BY FeaturesAreNamed DEF FilterByMinimumYear, Summaries
  <2>2. \/ reply' = [reply EXCEPT ![c] = Standing("refused")]
        \/ reply' = [reply EXCEPT ![c] = Answer(found)]
    BY <1>5 DEF ListReturns
  <2> HIDE DEF found
  <2> QED  BY <1>1, <2>1, <2>2, RepliesAreTyped
<1>6. ASSUME NEW f \in Calls, NEW l \in Layers, NEW page \in PageOutcomes, PageArrives(f, l, page)
      PROVE  reply' = reply
  BY <1>6 DEF PageArrives, sourceVars
<1>7. ASSUME NEW f \in Calls, FetchSettles(f) PROVE reply' = reply
  BY <1>7 DEF FetchSettles
<1>8. ASSUME NEW id \in Features, NEW ok \in BOOLEAN, Lookup(id) \/ LookupReturns(id, ok)
      PROVE  reply' = reply
  BY <1>8 DEF Lookup, LookupReturns
<1>9. CASE CrossBoundary \/ Close \/ Passes \/ UNCHANGED encVars
  BY <1>2, <1>9 DEF CrossBoundary, Close, Passes, TimePasses, encVars, sourceVars
<1> QED  BY <1>2, <1>3, <1>4, <1>5, <1>6, <1>7, <1>8, <1>9 DEF EncNext, EncProgress

\* The step that answers a call is its own ListReturns.
LEMMA ListStepIsDue ==
    ASSUME EncInv, [EncNext]_encVars, NEW c \in Calls,
           Lists(c)
    PROVE  /\ {x \in Answered(c) : ~TooOld(x) /\ ~Misread(x)} \subseteq reply'[c].found
           /\ reply'[c].found \subseteq {x \in Answered(c) : ~TooOld(x) \/ Misread(x)}
           /\ Cardinality(Answered(c)) <= MaxDetails => Answered(c) \subseteq known'
<1>1. reply[c].state = "waiting" /\ reply'[c].state = "answered" /\ reply' # reply
  BY DEF Lists, Waiting
<1>2. ASSUME NEW d \in Calls, NEW answer, reply' = [reply EXCEPT ![d] = answer] PROVE d = c
  BY <1>1, <1>2 DEF EncInv
<1>3. ASSUME NEW d \in Calls, ListOutsideUs(d) PROVE FALSE
  <2>1. d = c /\ reply[d].state = "idle"
    BY <1>2, <1>3 DEF ListOutsideUs, Idle
  <2> QED  BY <1>1, <2>1
<1>4. ASSUME NEW d \in Calls, NEW box \in Boxes, List(d, box) PROVE FALSE
  <2>1. d = c /\ reply[d].state = "idle"
    BY <1>2, <1>4 DEF List, Idle
  <2> QED  BY <1>1, <2>1
<1>5. ~(\/ \E f \in Calls, l \in Layers, page \in PageOutcomes : PageArrives(f, l, page)
        \/ \E f \in Calls : FetchSettles(f)
        \/ \E id \in Features : Lookup(id)
        \/ \E id \in Features, ok \in BOOLEAN : LookupReturns(id, ok)
        \/ CrossBoundary \/ Close \/ Passes \/ UNCHANGED encVars)
  BY <1>1 DEF PageArrives, FetchSettles, Lookup, LookupReturns, CrossBoundary, Close, Passes,
              TimePasses, encVars, sourceVars
<1>6. \E d \in Calls : ListReturns(d)
  BY <1>3, <1>4, <1>5 DEF EncNext, EncProgress
<1>7. ListReturns(c)
  <2>1. PICK d \in Calls : ListReturns(d)
    BY <1>6
  <2>2. \E answer : reply' = [reply EXCEPT ![d] = answer]
    BY <2>1 DEF ListReturns
  <2> QED  BY <1>2, <2>1, <2>2
<1> DEFINE summaries == Summaries(joined[c])
           found == FilterByMinimumYear(summaries, StampOf)
<1>8. \/ reply' = [reply EXCEPT ![c] = Standing("refused")]
      \/ reply' = [reply EXCEPT ![c] = Answer(found)] /\ known' \in Reseeded(summaries)
  BY <1>7 DEF ListReturns
<1> HIDE DEF found, summaries
<1>9. reply'[c].found = found /\ known' \in Reseeded(summaries)
  BY <1>1, <1>8 DEF EncInv, Standing, Answer
<1>10. summaries = Answered(c) /\ \A x \in summaries : x \in Features
  BY FeaturesAreNamed DEF Answered, Summaries, summaries
<1>11. found = {x \in summaries : YearFilter(StampOf[x])}
  BY DEF found, FilterByMinimumYear, summaries
<1>12. Cardinality(summaries) <= MaxDetails => summaries \subseteq known'
  BY <1>9 DEF Reseeded
<1> QED  BY <1>9, <1>10, <1>11, <1>12, FilterDropsTooOld

\* A call that joined a fetch with a layer that answered lists every usable feature of
\* the layers that answered whose date, if it has one that parses, is neither too old
\* nor misread, and of the others none but misread ones; and what it lists can be
\* looked up unless it is more than the detail cache holds; whichever calls share the
\* fetch, whatever the pages, layers and boxes, what was looked up before, and what is
\* driven out (noaa-enc-source.ts, the debounced list, its detail cache and its year
\* filter).
THEOREM EncListsWhatIsDue == EncSpec => ListsWhatIsDue
<1>1. EncInit => EncInv
  BY DEF EncInit, SourceInit, EncInv, Standing
<1>2. EncInv /\ [EncNext]_encVars =>
        [\A c \in Calls : Lists(c) =>
           /\ {x \in Answered(c) : ~TooOld(x) /\ ~Misread(x)} \subseteq reply'[c].found
           /\ reply'[c].found \subseteq {x \in Answered(c) : ~TooOld(x) \/ Misread(x)}
           /\ Cardinality(Answered(c)) <= MaxDetails => Answered(c) \subseteq known']_encVars
  BY ListStepIsDue
<1> QED  BY <1>1, <1>2, EncStepKeepsInv, PTL DEF EncSpec, ListsWhatIsDue
=============================================================================
