--------------------------- MODULE LightListStore ---------------------------
(***************************************************************************)
(* The USCG Light List: the periodic refresh of uscg-light-list-source.ts  *)
(* and uscg-light-list-input.ts over the store of light-list-store.ts.     *)
(* NAVCEN publishes one file per page; a refresh pass asks for every page  *)
(* with the validator of the copy it holds, replaces the pages that        *)
(* changed, and flushes them to disk: the page files first, then the index *)
(* file that lists them.  The plugin may stop between any two steps, and   *)
(* the next run loads what the disk holds.                                 *)
(*                                                                         *)
(* A record is its LLNR.  An absent index file reads as an empty index and *)
(* an absent page file as an empty page, so neither has a value of its     *)
(* own.  The spatial tiles mirror the records map: see LightListTiles.     *)
(***************************************************************************)
EXTENDS Integers, FiniteSets

CONSTANTS
    Pages,          \* DISTRICT_PAGES
    Records,        \* LLNRs
    Editions,       \* what a page's file may hold: Pages -> set of record sets
    Workers,        \* REFRESH_CONCURRENCY
    NoTag,          \* no Last-Modified or ETag held
    MaxChanges,     \* bound: new editions NAVCEN publishes
    MaxFaults       \* bound: failed requests and writes, lost files, restarts

ASSUME PagesAreFinite == IsFiniteSet(Pages)
ASSUME RecordsAreFinite == IsFiniteSet(Records)
ASSUME EditionsHoldRecords == Editions \in [Pages -> SUBSET SUBSET Records]
ASSUME WorkersArePositive == Workers \in Nat \ {0}
ASSUME NoTagIsNotATag == NoTag \notin Nat

VARIABLES
    published,  \* NAVCEN: the tag and the records of each page's current file
    districts,  \* index.districts: tag and llnrs of each page upserted
    records,    \* keys of index.records
    dirtyPages,
    metadataDirty,
    loading,    \* what load() awaits: the index file, files of some pages, nothing
    pass,       \* where the refresh pass is with each page
    writes,     \* content of the page writes of the flush still under way
    flushing,   \* flush() is under way
    pageFile,   \* disk: the records of each page file
    indexFile,  \* disk: the districts of the index file
    faults      \* history: faults so far

memoryVars == <<districts, records, dirtyPages, metadataDirty>>
diskVars == <<pageFile, indexFile>>
vars == <<published, districts, records, dirtyPages, metadataDirty, loading, pass,
          writes, flushing, pageFile, indexFile, faults>>

\* A page the index does not know.
Unknown == [tag |-> NoTag, llnrs |-> {}]

NoDistricts == [p \in Pages |-> Unknown]

\* A page no refresh pass is working on, and one already dealt with.
Idle == [phase |-> "idle", tag |-> NoTag]
Done == [phase |-> "done", tag |-> NoTag]

\* load() awaits the index file; it is over.
IndexRead == [awaits |-> "index", keys |-> {}]
Loaded == [awaits |-> "nothing", keys |-> {}]

Quiet == \A p \in Pages : pass[p] = Idle
Asked == {p \in Pages : pass[p].phase = "asked"}

Fault == faults < MaxFaults /\ faults' = faults + 1

\* NAVCEN publishes a new edition of some pages at once; an aid may move from
\* one page to another as the list grows.
Publish(pages) ==
    /\ \A p \in pages : published[p].tag < MaxChanges
    /\ \E edition \in [pages -> SUBSET Records] :
         /\ \A p \in pages : edition[p] \in Editions[p]
         /\ published' = [p \in Pages |->
              IF p \in pages THEN [tag |-> published[p].tag + 1, llnrs |-> edition[p]]
                             ELSE published[p]]
    /\ \A p, q \in Pages : p # q => published'[p].llnrs \cap published'[q].llnrs = {}
    /\ UNCHANGED <<memoryVars, loading, pass, writes, flushing, diskVars, faults>>
-----------------------------------------------------------------------------
(* The refresh pass. *)

\* The timer fires and no pass is running.
StartRefresh ==
    /\ Quiet /\ ~flushing
    /\ pass' = [p \in Pages |-> [phase |-> "todo", tag |-> NoTag]]
    /\ UNCHANGED <<published, memoryVars, loading, writes, flushing, diskVars, faults>>

\* A worker takes a page and sends the validator of the copy in the index.
Ask(p) ==
    /\ pass[p].phase = "todo"
    /\ Cardinality(Asked) < Workers
    /\ pass' = [pass EXCEPT ![p] = [phase |-> "asked", tag |-> districts[p].tag]]
    /\ UNCHANGED <<published, memoryVars, loading, writes, flushing, diskVars, faults>>

\* Mutation of UpsertDistrict: the previous records are removed after the new
\* ones have been added.
UpsertRemovesLast(p, llnrs, tag) ==
    /\ records' = (records \cup llnrs) \ districts[p].llnrs
    /\ districts' = [districts EXCEPT ![p] = [tag |-> tag, llnrs |-> llnrs]]
    /\ dirtyPages' = dirtyPages \cup {p}
    /\ metadataDirty' = TRUE

\* upsertDistrict: what the page held before goes, what it holds now comes in.
UpsertDistrict(p, llnrs, tag) ==
    /\ records' = (records \ districts[p].llnrs) \cup llnrs
    /\ districts' = [districts EXCEPT ![p] = [tag |-> tag, llnrs |-> llnrs]]
    /\ dirtyPages' = dirtyPages \cup {p}
    /\ metadataDirty' = TRUE

\* 200: the current file and its validator.
AnswersOk(p) ==
    /\ pass[p].phase = "asked"
    /\ UpsertDistrict(p, published[p].llnrs, published[p].tag)
    /\ pass' = [pass EXCEPT ![p] = Done]
    /\ UNCHANGED <<published, loading, writes, flushing, diskVars, faults>>

\* 304: the copy held when the page was asked for is current; nothing changes.
AnswersNotModified(p) ==
    /\ pass[p].phase = "asked"
    /\ pass[p].tag = published[p].tag
    /\ pass' = [pass EXCEPT ![p] = Done]
    /\ UNCHANGED <<published, memoryVars, loading, writes, flushing, diskVars, faults>>

\* The error is recorded; the pass goes on with the other pages.
AnswersError(p) ==
    /\ pass[p].phase = "asked"
    /\ Fault
    /\ pass' = [pass EXCEPT ![p] = Done]
    /\ UNCHANGED <<published, memoryVars, loading, writes, flushing, diskVars>>
-----------------------------------------------------------------------------
(* flush(). *)

EndPass == pass' = [p \in Pages |-> Idle]

\* What the flush writes for a page: those of its llnrs the records map has.
PageContent(p) == districts[p].llnrs \cap records

\* All workers are done: write the dirty pages, or nothing at all.
StartFlush ==
    /\ ~flushing /\ \A p \in Pages : pass[p] = Done
    /\ IF metadataDirty \/ dirtyPages # {}
       THEN /\ flushing' = TRUE
            /\ writes' = {[page |-> p, llnrs |-> PageContent(p)] : p \in dirtyPages}
            /\ UNCHANGED pass
       ELSE EndPass /\ UNCHANGED <<flushing, writes>>
    /\ UNCHANGED <<published, memoryVars, loading, diskVars, faults>>

Written(done) ==
    [p \in Pages |-> IF \E w \in done : w.page = p
                     THEN (CHOOSE w \in done : w.page = p).llnrs ELSE pageFile[p]]

\* The temp file of one page is renamed over its target.
WritePage(w) ==
    /\ pageFile' = Written({w})
    /\ writes' = writes \ {w}
    /\ UNCHANGED <<published, memoryVars, loading, pass, flushing, indexFile, faults>>

\* Mutation of WriteIndex: the index does not wait for the page files.
WriteIndexEarly ==
    /\ flushing
    /\ indexFile' = districts
    /\ dirtyPages' = {}
    /\ metadataDirty' = FALSE
    /\ flushing' = FALSE
    /\ writes' = {}
    /\ EndPass
    /\ UNCHANGED <<published, districts, records, loading, pageFile, faults>>

\* Every page is written: write the index, then forget what was dirty.
WriteIndex ==
    /\ flushing /\ writes = {}
    /\ indexFile' = districts
    /\ dirtyPages' = {}
    /\ metadataDirty' = FALSE
    /\ flushing' = FALSE
    /\ EndPass
    /\ UNCHANGED <<published, districts, records, loading, writes, pageFile, faults>>

\* A write fails and the flush rejects; the other page writes complete or not.
\* Everything stays dirty for the next pass.
FlushFails ==
    /\ flushing
    /\ Fault
    /\ \E done \in SUBSET writes : pageFile' = Written(done)
    /\ writes' = {}
    /\ flushing' = FALSE
    /\ EndPass
    /\ UNCHANGED <<published, memoryVars, loading, indexFile>>
-----------------------------------------------------------------------------
(* Restart and load(). *)

\* The process ends at any point and a new run begins: load() starts from an
\* empty index, and awaits the disk.
Restart ==
    /\ Fault
    /\ districts' = NoDistricts
    /\ records' = {}
    /\ dirtyPages' = {}
    /\ metadataDirty' = FALSE
    /\ loading' = IndexRead
    /\ EndPass
    /\ writes' = {}
    /\ flushing' = FALSE
    /\ UNCHANGED <<published, diskVars>>

\* The index file is read: its districts replace those in memory, whatever a
\* refresh has upserted meanwhile.  Without a usable one load() is over.
LoadIndex ==
    /\ loading = IndexRead
    /\ IF indexFile = NoDistricts
       THEN loading' = Loaded /\ UNCHANGED districts
       ELSE /\ loading' = [awaits |-> "pages", keys |-> {p \in Pages : indexFile[p] # Unknown}]
            /\ districts' = indexFile
    /\ UNCHANGED <<published, records, dirtyPages, metadataDirty, pass, writes, flushing,
                   diskVars, faults>>

\* Mutation of Complete: only an empty page counts as incomplete.
CompleteUnlessEmpty(p, meta) == pageFile[p] # {} \/ meta.llnrs = {}

\* A page file with as many records as the index says.
Complete(p, meta) == Cardinality(pageFile[p]) = Cardinality(meta.llnrs)

\* The page files are read and their records join those in memory; a page that
\* is not complete loses its validator, so that the next pass fetches it whole.
LoadPages ==
    /\ loading.awaits = "pages"
    /\ districts' = [p \in Pages |->
         IF p \in loading.keys /\ ~Complete(p, districts[p])
         THEN [districts[p] EXCEPT !.tag = NoTag] ELSE districts[p]]
    /\ records' = records \cup UNION {pageFile[p] : p \in loading.keys}
    /\ metadataDirty' = (metadataDirty \/ districts' # districts)
    /\ loading' = Loaded
    /\ UNCHANGED <<published, dirtyPages, pass, writes, flushing, diskVars, faults>>

\* A page file is lost or truncated behind the plugin's back.
DamagePage(p) ==
    /\ Fault
    /\ \E kept \in SUBSET pageFile[p] :
         kept # pageFile[p] /\ pageFile' = [pageFile EXCEPT ![p] = kept]
    /\ UNCHANGED <<published, memoryVars, loading, pass, writes, flushing, indexFile>>

\* So is the index file.
DamageIndex ==
    /\ Fault
    /\ indexFile' = NoDistricts
    /\ UNCHANGED <<published, memoryVars, loading, pass, writes, flushing, pageFile>>
-----------------------------------------------------------------------------
\* A first run: nothing on disk.
Init ==
    /\ published \in [Pages -> [tag : {0}, llnrs : SUBSET Records]]
    /\ \A p \in Pages : published[p].llnrs \in Editions[p]
    /\ \A p, q \in Pages : p # q => published[p].llnrs \cap published[q].llnrs = {}
    /\ districts = NoDistricts
    /\ records = {}
    /\ dirtyPages = {}
    /\ metadataDirty = FALSE
    /\ loading = IndexRead
    /\ pass = [p \in Pages |-> Idle]
    /\ writes = {}
    /\ flushing = FALSE
    /\ pageFile = [p \in Pages |-> {}]
    /\ indexFile = NoDistricts
    /\ faults = 0

Answers(p) == AnswersOk(p) \/ AnswersNotModified(p) \/ AnswersError(p)

Flush == StartFlush \/ WriteIndex \/ FlushFails \/ \E w \in writes : WritePage(w)

Next ==
    \/ \E pages \in SUBSET Pages \ {{}} : Publish(pages)
    \/ StartRefresh
    \/ \E p \in Pages : Ask(p) \/ Answers(p) \/ DamagePage(p)
    \/ Flush
    \/ Restart \/ LoadIndex \/ LoadPages
    \/ DamageIndex

Spec == Init /\ [][Next]_vars

\* The refresh timer keeps firing, requests time out at the latest, and disk
\* calls return.
Fairness ==
    /\ WF_vars(StartRefresh)
    /\ \A p \in Pages : WF_vars(Ask(p)) /\ WF_vars(Answers(p))
    /\ WF_vars(Flush)
    /\ WF_vars(LoadIndex) /\ WF_vars(LoadPages)

FairSpec == Spec /\ Fairness
-----------------------------------------------------------------------------
(* Properties. *)

Meta == [tag : Nat \cup {NoTag}, llnrs : SUBSET Records]

\* The index, the pass, the flush and the disk have their types.
TypeOK ==
    /\ published \in [Pages -> [tag : Nat, llnrs : SUBSET Records]]
    /\ districts \in [Pages -> Meta]
    /\ records \subseteq Records
    /\ dirtyPages \subseteq Pages
    /\ metadataDirty \in BOOLEAN
    /\ loading \in [awaits : {"index", "pages", "nothing"}, keys : SUBSET Pages]
    /\ pass \in [Pages -> [phase : {"idle", "todo", "asked", "done"},
                           tag : Nat \cup {NoTag}]]
    /\ writes \subseteq [page : Pages, llnrs : SUBSET Records]
    /\ flushing \in BOOLEAN
    /\ pageFile \in [Pages -> SUBSET Records]
    /\ indexFile \in [Pages -> Meta]
    /\ faults \in Nat

\* A page that the server would answer with 304 has all its records in memory,
\* or in a page file load() has still to read, so that no crash between two
\* writes, failed flush, damaged file or slow load leaves "records permanently
\* missing" (light-list-store.ts:298-307); nor does another page take them away:
\* "a record from one (district, page) is not confused with one from another
\* page" (light-list-store.ts:21-24).
NotModifiedIsSafe ==
    \A p \in Pages : districts[p].tag = published[p].tag /\ loading.awaits # "pages"
                       => published[p].llnrs \subseteq records

\* What is on disk is never newer in the index than in the page files: an index
\* entry whose validator would survive a load stands for records that are there.
DiskIsSafe ==
    \A p \in Pages : Complete(p, indexFile[p]) /\ indexFile[p].tag = published[p].tag
                       => pageFile[p] = published[p].llnrs

\* Once NAVCEN and the faults are quiet, every record published is in memory for
\* good (light-list-store.ts:282-286: "an empty index forces a full reload").
EventuallyComplete ==
    <>[](\A p \in Pages : published[p].llnrs \subseteq records)
=============================================================================
