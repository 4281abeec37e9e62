------------------------ MODULE LightListStoreProofs ------------------------
(***************************************************************************)
(* No record is lost by the Light List store, for any set of pages and     *)
(* records, any number of new editions and any number of faults, as long   *)
(* as every aid stays on its page.  The run LightListMoved shows that the  *)
(* restriction is needed.                                                  *)
(***************************************************************************)
EXTENDS LightListStore, FiniteSetTheorems, TLAPS

\* What page p may ever hold.
Home(p) == UNION Editions[p]

\* No aid moves from one page to another.
AidsStay == \A p, q \in Pages : p # q => Home(p) \cap Home(q) = {}

\* The index entry stands for the file NAVCEN has now.
IsCurrent(meta, p) == meta.tag = published[p].tag

\* An index entry, in memory or on disk, is no newer than what is published
\* and lists exactly its records when it is current.
MetaOk(meta, p) ==
    /\ meta.tag \in Nat => meta.tag <= published[p].tag
    /\ IsCurrent(meta, p) => meta.llnrs = published[p].llnrs
    /\ meta.llnrs \subseteq Home(p)

PublishedOk == \A p \in Pages : published[p].llnrs \in Editions[p]

\* A page file next to a current entry holds no record of another edition, and
\* what the next flush would write in its place does not either.
DiskOk ==
    \A p \in Pages :
        /\ MetaOk(indexFile[p], p)
        /\ IsCurrent(indexFile[p], p) =>
             /\ pageFile[p] \subseteq published[p].llnrs
             /\ p \in dirtyPages => districts[p].llnrs = published[p].llnrs

\* The flush writes dirty pages only, and each write suits the index on disk
\* now and the one the flush ends with.
WritesOk ==
    \A w \in writes :
        /\ flushing /\ w.page \in dirtyPages
        /\ IsCurrent(indexFile[w.page], w.page) \/ IsCurrent(districts[w.page], w.page)
             => w.llnrs \subseteq published[w.page].llnrs

\* Page p's file is up to date with the index in memory, unless it is dirty and
\* this flush has not written it.
OnDisk(p) == p \in dirtyPages => flushing /\ \A w \in writes : w.page # p

FlushOk ==
    /\ flushing => \A p \in Pages : pass[p] = Done
    /\ \A p \in Pages :
         OnDisk(p) /\ IsCurrent(districts[p], p) => pageFile[p] \subseteq published[p].llnrs

\* The records of a current page are in memory, or in a file load() will read.
MemoryOk ==
    /\ loading.awaits # "pages" => loading.keys = {}
    /\ \A p \in Pages :
         /\ MetaOk(districts[p], p)
         /\ IsCurrent(districts[p], p) =>
              \/ published[p].llnrs \subseteq records
              \/ p \in loading.keys /\ pageFile[p] \subseteq published[p].llnrs

Inv == TypeOK /\ PublishedOk /\ DiskOk /\ WritesOk /\ FlushOk /\ MemoryOk
-----------------------------------------------------------------------------
(* Facts used throughout. *)

LEMMA Types ==
    ASSUME TypeOK
    PROVE  /\ published \in [Pages -> [tag : Nat, llnrs : SUBSET Records]]
           /\ districts \in [Pages -> Meta]
           /\ indexFile \in [Pages -> Meta]
           /\ pageFile \in [Pages -> SUBSET Records]
           /\ records \subseteq Records /\ dirtyPages \subseteq Pages
           /\ writes \subseteq [page : Pages, llnrs : SUBSET Records]
           /\ \A p \in Pages :
                /\ published[p].tag \in Nat /\ published[p].llnrs \subseteq Records
                /\ districts[p].llnrs \subseteq Records
                /\ indexFile[p].llnrs \subseteq Records
                /\ pageFile[p] \subseteq Records
BY DEF TypeOK, Meta

\* An unknown page is not current, and is the same whatever is published.
LEMMA UnknownIsNotCurrent ==
    ASSUME TypeOK, NEW p \in Pages
    PROVE  Unknown \in Meta /\ ~IsCurrent(Unknown, p) /\ MetaOk(Unknown, p)
BY NoTagIsNotATag, Types DEF Unknown, Meta, IsCurrent, MetaOk

\* A current entry whose page file has the right count has the right file.
LEMMA CountTells ==
    ASSUME NEW S \in SUBSET Records, NEW T \in SUBSET S,
           Cardinality(T) = Cardinality(S)
    PROVE  T = S
<1>1. IsFiniteSet(S)
  BY RecordsAreFinite, FS_Subset
<1> QED  BY <1>1, FS_Subset
-----------------------------------------------------------------------------
(* Every step preserves the invariant. *)

LEMMA InitInv == Init => Inv
<1> SUFFICES ASSUME Init PROVE Inv
  OBVIOUS
<1>1. TypeOK
  <2>1. Unknown \in Meta /\ NoDistricts \in [Pages -> Meta]
    BY DEF Unknown, Meta, NoDistricts
  <2>2. published \in [Pages -> [tag : Nat, llnrs : SUBSET Records]]
    BY DEF Init
  <2> QED  BY <2>1, <2>2 DEF Init, TypeOK, IndexRead, Idle
<1>2. \A p \in Pages : districts[p] = Unknown /\ indexFile[p] = Unknown
  BY DEF Init, NoDistricts
<1>3. /\ writes = {} /\ dirtyPages = {} /\ flushing = FALSE
      /\ loading.keys = {}
  BY DEF Init, IndexRead
<1>4. PublishedOk
  BY DEF Init, PublishedOk
<1> QED  BY <1>1, <1>2, <1>3, <1>4, UnknownIsNotCurrent
          DEF Inv, DiskOk, WritesOk, FlushOk, MemoryOk

\* A new edition makes the entries of its pages stale, and leaves the others.
LEMMA PublishKeepsInv ==
    ASSUME Inv, NEW pages \in SUBSET Pages, Publish(pages)
    PROVE  Inv'
<1>1. /\ UNCHANGED <<memoryVars, loading, pass, writes, flushing, diskVars, faults>>
      /\ \A p \in Pages \ pages : published'[p] = published[p]
      /\ \A p \in pages : published'[p].tag = published[p].tag + 1
      /\ published' \in [Pages -> [tag : Nat, llnrs : SUBSET Records]]
      /\ PublishedOk'
  <2>1. PICK edition \in [pages -> SUBSET Records] :
          /\ \A p \in pages : edition[p] \in Editions[p]
          /\ published' = [p \in Pages |->
               IF p \in pages THEN [tag |-> published[p].tag + 1, llnrs |-> edition[p]]
                              ELSE published[p]]
    BY DEF Publish
  <2>2. TypeOK /\ PublishedOk
    BY DEF Inv
  <2> QED  BY <2>1, <2>2, Types DEF Publish, PublishedOk
<1>2. TypeOK'
  BY <1>1 DEF Inv, TypeOK, memoryVars, diskVars
<1>3. ASSUME NEW meta \in Meta, NEW p \in Pages, MetaOk(meta, p)
      PROVE  /\ MetaOk(meta, p)'
             /\ IsCurrent(meta, p)' => IsCurrent(meta, p) /\ published'[p] = published[p]
  <2>1. CASE p \in pages
    <3>1. ~IsCurrent(meta, p)'
      BY <1>1, <1>3, <2>1, Types, NoTagIsNotATag DEF Inv, MetaOk, IsCurrent, Meta
    <3> QED  BY <1>1, <1>3, <2>1, <3>1, Types DEF Inv, MetaOk, IsCurrent, Meta
  <2>2. CASE p \notin pages
    BY <1>1, <1>3, <2>2 DEF MetaOk, IsCurrent
  <2> QED  BY <2>1, <2>2
<1>4. \A p \in Pages : districts[p] \in Meta /\ indexFile[p] \in Meta
  BY Types DEF Inv
<1>5. \A w \in writes : w.page \in Pages
  BY Types DEF Inv
<1>6. DiskOk' /\ MemoryOk'
  BY <1>1, <1>3, <1>4 DEF Inv, DiskOk, MemoryOk, memoryVars, diskVars
<1>7. FlushOk'
  BY <1>1, <1>3, <1>4 DEF Inv, FlushOk, MemoryOk, OnDisk, memoryVars, diskVars
<1>8. WritesOk'
  BY <1>1, <1>3, <1>4, <1>5 DEF Inv, WritesOk, DiskOk, MemoryOk, memoryVars, diskVars
<1> QED  BY <1>1, <1>2, <1>6, <1>7, <1>8 DEF Inv

\* A step of the pass that changes no page keeps everything else as it is.
LEMMA PassStepKeepsInv ==
    ASSUME Inv, ~flushing \/ UNCHANGED pass,
           pass' \in [Pages -> [phase : {"idle", "todo", "asked", "done"},
                                tag : Nat \cup {NoTag}]],
           faults' \in Nat,
           UNCHANGED <<published, memoryVars, loading, writes, flushing, diskVars>>
    PROVE  Inv'
<1>1. TypeOK'
  BY DEF Inv, TypeOK, memoryVars, diskVars
<1>2. FlushOk'
  BY DEF Inv, FlushOk, OnDisk, IsCurrent, memoryVars, diskVars
<1>3. PublishedOk' /\ WritesOk'
  BY DEF Inv, PublishedOk, WritesOk, IsCurrent, memoryVars, diskVars
<1>4. DiskOk' /\ MemoryOk'
  BY DEF Inv, DiskOk, MemoryOk, MetaOk, IsCurrent, memoryVars, diskVars
<1> QED  BY <1>1, <1>2, <1>3, <1>4 DEF Inv

LEMMA StartRefreshKeepsInv == ASSUME Inv, StartRefresh PROVE Inv'
BY PassStepKeepsInv DEF StartRefresh, Inv, TypeOK

LEMMA AskKeepsInv == ASSUME Inv, NEW p \in Pages, Ask(p) PROVE Inv'
<1>1. ~flushing
  BY DEF Ask, Inv, FlushOk, Done
<1>2. districts[p].tag \in Nat \cup {NoTag}
  BY Types DEF Inv, Meta
<1>3. pass' \in [Pages -> [phase : {"idle", "todo", "asked", "done"},
                           tag : Nat \cup {NoTag}]] /\ faults' \in Nat
  BY <1>2 DEF Ask, Inv, TypeOK
<1> QED  BY <1>1, <1>3, PassStepKeepsInv DEF Ask

\* The records of another page are not among those an upsert removes.
LEMMA UpsertKeepsOthers ==
    ASSUME AidsStay, TypeOK, PublishedOk, NEW p \in Pages, NEW q \in Pages, p # q,
           districts[p].llnrs \subseteq Home(p), published[q].llnrs \subseteq records,
           NEW llnrs, NEW tag, UpsertDistrict(p, llnrs, tag)
    PROVE  published[q].llnrs \subseteq records'
<1>1. published[q].llnrs \subseteq Home(q)
  BY DEF PublishedOk, Home
<1>2. records' = (records \ districts[p].llnrs) \cup llnrs
  BY DEF UpsertDistrict
<1> QED  BY <1>1, <1>2 DEF AidsStay

LEMMA AnswersOkKeepsInv ==
    ASSUME AidsStay, Inv, NEW p \in Pages, AnswersOk(p)
    PROVE  Inv'
<1>1. /\ UNCHANGED <<published, loading, writes, flushing, pageFile, indexFile, faults>>
      /\ pass' = [pass EXCEPT ![p] = Done]
      /\ UpsertDistrict(p, published[p].llnrs, published[p].tag)
  BY DEF AnswersOk, diskVars
<1>2. ~flushing /\ writes = {}
  BY DEF AnswersOk, Inv, FlushOk, WritesOk, Done
<1>3. /\ districts' \in [Pages -> Meta] /\ records' \subseteq Records
      /\ dirtyPages' = dirtyPages \cup {p} /\ metadataDirty' = TRUE
      /\ districts'[p].tag = published[p].tag /\ districts'[p].llnrs = published[p].llnrs
      /\ \A q \in Pages : q # p => districts'[q] = districts[q]
      /\ published[p].llnrs \subseteq records'
  BY <1>1, Types DEF Inv, UpsertDistrict, Meta
<1>4. TypeOK'
  <2>1. pass' \in [Pages -> [phase : {"idle", "todo", "asked", "done"},
                             tag : Nat \cup {NoTag}]]
    BY <1>1 DEF Inv, TypeOK, Done
  <2> QED  BY <1>1, <1>3, <2>1 DEF Inv, TypeOK
<1>5. published[p].tag \in Nat /\ published[p].llnrs \subseteq Home(p)
  BY Types DEF Inv, PublishedOk, Home
<1>6. \A q \in Pages : MetaOk(districts[q], q)' /\ MetaOk(indexFile[q], q)'
  BY <1>1, <1>3, <1>5 DEF Inv, MemoryOk, DiskOk, MetaOk, IsCurrent
<1>7. PublishedOk' /\ WritesOk'
  BY <1>1, <1>2 DEF Inv, PublishedOk, WritesOk
<1>8. DiskOk'
  <2> SUFFICES ASSUME NEW q \in Pages, IsCurrent(indexFile[q], q)'
               PROVE  /\ pageFile'[q] \subseteq published'[q].llnrs
                      /\ q \in dirtyPages' => districts'[q].llnrs = published'[q].llnrs
    BY <1>6 DEF DiskOk
  <2> QED  BY <1>1, <1>3 DEF Inv, DiskOk, IsCurrent
<1>9. FlushOk'
  BY <1>1, <1>2, <1>3 DEF Inv, FlushOk, OnDisk, IsCurrent
<1>10. MemoryOk'
  <2> SUFFICES ASSUME NEW q \in Pages, IsCurrent(districts[q], q)'
               PROVE  \/ published[q].llnrs \subseteq records'
                      \/ q \in loading.keys /\ pageFile[q] \subseteq published[q].llnrs
    BY <1>1, <1>6 DEF Inv, MemoryOk
  <2>1. CASE q = p
    BY <1>3, <2>1
  <2>2. CASE q # p
    BY <1>1, <1>3, <2>2, UpsertKeepsOthers DEF Inv, MemoryOk, MetaOk, IsCurrent
  <2> QED  BY <2>1, <2>2
<1> QED  BY <1>4, <1>7, <1>8, <1>9, <1>10 DEF Inv

LEMMA AnswersKeepInv ==
    ASSUME AidsStay, Inv, NEW p \in Pages, Answers(p)
    PROVE  Inv'
<1>1. CASE AnswersOk(p)
  BY <1>1, AnswersOkKeepsInv
<1>2. CASE AnswersNotModified(p) \/ AnswersError(p)
  <2>1. ~flushing /\ pass' = [pass EXCEPT ![p] = Done]
        /\ UNCHANGED <<published, memoryVars, loading, writes, flushing, diskVars>>
        /\ faults' \in Nat
    BY <1>2 DEF AnswersNotModified, AnswersError, Fault, Inv, TypeOK, FlushOk, Done
  <2>2. pass' \in [Pages -> [phase : {"idle", "todo", "asked", "done"},
                             tag : Nat \cup {NoTag}]]
    BY <2>1 DEF Inv, TypeOK, Done
  <2> QED  BY <2>1, <2>2, PassStepKeepsInv
<1> QED  BY <1>1, <1>2 DEF Answers

\* Nothing is flushing after the pass has ended.
LEMMA EndedPass ==
    ASSUME EndPass
    PROVE  pass' \in [Pages -> [phase : {"idle", "todo", "asked", "done"},
                                tag : Nat \cup {NoTag}]]
BY DEF EndPass, Idle

LEMMA StartFlushKeepsInv == ASSUME Inv, StartFlush PROVE Inv'
<1>1. /\ ~flushing /\ \A p \in Pages : pass[p] = Done
      /\ UNCHANGED <<published, districts, records, dirtyPages, metadataDirty, loading,
                     pageFile, indexFile, faults>>
  BY DEF StartFlush, memoryVars, diskVars
<1>2. CASE metadataDirty \/ dirtyPages # {}
  <2>1. /\ flushing' = TRUE /\ pass' = pass
        /\ writes' = {[page |-> p, llnrs |-> PageContent(p)] : p \in dirtyPages}
    BY <1>2 DEF StartFlush
  <2>2. TypeOK'
    BY <1>1, <2>1, Types DEF Inv, TypeOK, PageContent
  <2>3. WritesOk'
    <3> SUFFICES ASSUME NEW p \in dirtyPages
                 PROVE  IsCurrent(indexFile[p], p) \/ IsCurrent(districts[p], p)
                          => PageContent(p) \subseteq published[p].llnrs
      BY <1>1, <2>1 DEF WritesOk, IsCurrent
    <3>1. p \in Pages
      BY Types DEF Inv
    <3> QED  BY <3>1 DEF Inv, DiskOk, MemoryOk, MetaOk, PageContent
  <2>4. FlushOk'
    <3>1. ASSUME NEW p \in dirtyPages PROVE \E w \in writes' : w.page = p
      <4>1. [page |-> p, llnrs |-> PageContent(p)] \in writes'
        BY <2>1
      <4> QED  BY <4>1
    <3>2. ASSUME NEW p \in Pages, OnDisk(p)' PROVE OnDisk(p)
      BY <1>1, <3>1, <3>2 DEF OnDisk
    <3> QED  BY <1>1, <2>1, <3>2 DEF Inv, FlushOk, IsCurrent
  <2>5. PublishedOk' /\ DiskOk' /\ MemoryOk'
    BY <1>1 DEF Inv, PublishedOk, DiskOk, MemoryOk, MetaOk, IsCurrent
  <2> QED  BY <2>2, <2>3, <2>4, <2>5 DEF Inv
<1>3. CASE ~(metadataDirty \/ dirtyPages # {})
  <2>1. EndPass /\ flushing' = flushing /\ writes' = writes
    BY <1>3 DEF StartFlush
  <2> QED  BY <1>1, <2>1, EndedPass, PassStepKeepsInv DEF memoryVars, diskVars, Inv, TypeOK
<1> QED  BY <1>2, <1>3

\* Writing pages that suit the index leaves the others alone.
LEMMA WrittenPages ==
    ASSUME Inv, NEW done \in SUBSET writes
    PROVE  /\ Written(done) \in [Pages -> SUBSET Records]
           /\ \A p \in Pages :
                \/ /\ \A w \in done : w.page # p
                   /\ Written(done)[p] = pageFile[p]
                \/ \E w \in done : w.page = p /\ Written(done)[p] = w.llnrs
<1>1. \A p \in Pages :
         \/ (\A w \in done : w.page # p) /\ Written(done)[p] = pageFile[p]
         \/ \E w \in done : w.page = p /\ Written(done)[p] = w.llnrs
  <2> TAKE p \in Pages
  <2>1. CASE \E w \in done : w.page = p
    BY <2>1 DEF Written
  <2>2. CASE \A w \in done : w.page # p
    BY <2>2 DEF Written
  <2> QED  BY <2>1, <2>2
<1>2. \A p \in Pages : Written(done)[p] \subseteq Records
  BY <1>1, Types DEF Inv
<1> QED  BY <1>1, <1>2 DEF Written

\* Page files that go to disk during a flush agree with both indexes.
LEMMA WritingKeepsDisk ==
    ASSUME Inv, NEW done \in SUBSET writes, pageFile' = Written(done),
           UNCHANGED <<published, districts, records, dirtyPages, metadataDirty, loading,
                       indexFile>>
    PROVE  /\ PublishedOk' /\ DiskOk' /\ MemoryOk'
           /\ \A p \in Pages :
                IsCurrent(districts[p], p) /\ (\E w \in done : w.page = p)
                  => pageFile'[p] \subseteq published'[p].llnrs
<1>1. ASSUME NEW p \in Pages
      PROVE  /\ IsCurrent(indexFile[p], p) => pageFile'[p] \subseteq published[p].llnrs
             /\ IsCurrent(districts[p], p) =>
                  \/ pageFile'[p] \subseteq published[p].llnrs
                  \/ pageFile'[p] = pageFile[p] /\ \A w \in done : w.page # p
  <2>1. CASE \E w \in done : w.page = p /\ pageFile'[p] = w.llnrs
    BY <2>1 DEF Inv, WritesOk
  <2>2. CASE (\A w \in done : w.page # p) /\ pageFile'[p] = pageFile[p]
    BY <2>2 DEF Inv, DiskOk
  <2> QED  BY <2>1, <2>2, WrittenPages
<1>2. PublishedOk' /\ DiskOk'
  BY <1>1 DEF Inv, PublishedOk, DiskOk, MetaOk, IsCurrent
<1>3. MemoryOk'
  BY <1>1 DEF Inv, MemoryOk, MetaOk, IsCurrent
<1> QED  BY <1>1, <1>2, <1>3

LEMMA WritePageKeepsInv == ASSUME Inv, NEW w \in writes, WritePage(w) PROVE Inv'
<1>1. /\ pageFile' = Written({w}) /\ writes' = writes \ {w} /\ {w} \in SUBSET writes
      /\ UNCHANGED <<published, districts, records, dirtyPages, metadataDirty, loading,
                     pass, flushing, indexFile, faults>>
  BY DEF WritePage, memoryVars
<1>2. TypeOK'
  BY <1>1, WrittenPages DEF Inv, TypeOK
<1>3. PublishedOk' /\ DiskOk' /\ MemoryOk'
  BY <1>1, WritingKeepsDisk
<1>4. WritesOk'
  BY <1>1 DEF Inv, WritesOk, IsCurrent
<1>5. FlushOk'
  <2>1. ASSUME NEW p \in Pages, OnDisk(p)', IsCurrent(districts[p], p)
        PROVE  pageFile'[p] \subseteq published'[p].llnrs
    <3>1. CASE w.page = p
      BY <1>1, <2>1, <3>1, WritingKeepsDisk
    <3>2. CASE w.page # p
      <4>1. pageFile'[p] = pageFile[p] /\ OnDisk(p)
        BY <1>1, <2>1, <3>2, WrittenPages DEF OnDisk
      <4> QED  BY <1>1, <2>1, <4>1 DEF Inv, FlushOk
    <3> QED  BY <3>1, <3>2
  <2> QED  BY <1>1, <2>1 DEF Inv, FlushOk, IsCurrent
<1> QED  BY <1>2, <1>3, <1>4, <1>5 DEF Inv

LEMMA WriteIndexKeepsInv == ASSUME Inv, WriteIndex PROVE Inv'
<1>1. /\ flushing /\ writes = {} /\ indexFile' = districts /\ dirtyPages' = {}
      /\ metadataDirty' = FALSE /\ flushing' = FALSE /\ EndPass
      /\ UNCHANGED <<published, districts, records, loading, writes, pageFile, faults>>
  BY DEF WriteIndex
<1>2. TypeOK'
  BY <1>1, EndedPass DEF Inv, TypeOK
<1>3. \A p \in Pages :
         IsCurrent(districts[p], p) => pageFile[p] \subseteq published[p].llnrs
  BY <1>1 DEF Inv, FlushOk, OnDisk
<1>4. DiskOk'
  BY <1>1, <1>3 DEF Inv, MemoryOk, DiskOk, MetaOk, IsCurrent
<1>5. MemoryOk' /\ PublishedOk'
  BY <1>1 DEF Inv, MemoryOk, PublishedOk, MetaOk, IsCurrent
<1>6. WritesOk' /\ FlushOk'
  BY <1>1, <1>3 DEF WritesOk, FlushOk, IsCurrent
<1> QED  BY <1>2, <1>4, <1>5, <1>6 DEF Inv

LEMMA FlushFailsKeepsInv == ASSUME Inv, FlushFails PROVE Inv'
<1>1. PICK done \in SUBSET writes : pageFile' = Written(done)
  BY DEF FlushFails
<1>2. /\ writes' = {} /\ flushing' = FALSE /\ EndPass /\ faults' = faults + 1
      /\ UNCHANGED <<published, districts, records, dirtyPages, metadataDirty, loading,
                     indexFile>>
  BY DEF FlushFails, Fault, memoryVars
<1>3. TypeOK'
  <2>1. pageFile' \in [Pages -> SUBSET Records]
    BY <1>1, WrittenPages
  <2>2. faults' \in Nat
    BY <1>2 DEF Inv, TypeOK
  <2>3. pass' \in [Pages -> [phase : {"idle", "todo", "asked", "done"},
                             tag : Nat \cup {NoTag}]]
    BY <1>2, EndedPass
  <2> QED  BY <1>2, <2>1, <2>2, <2>3 DEF Inv, TypeOK
<1>4. PublishedOk' /\ DiskOk' /\ MemoryOk'
  BY <1>1, <1>2, WritingKeepsDisk
<1>5. FlushOk'
  <2>1. ASSUME NEW p \in Pages, OnDisk(p)'
        PROVE  OnDisk(p) /\ pageFile'[p] = pageFile[p]
    <3>1. p \notin dirtyPages
      BY <1>2, <2>1 DEF OnDisk
    <3>2. \A w \in done : w.page # p
      BY <3>1 DEF Inv, WritesOk
    <3> QED  BY <1>1, <3>1, <3>2, WrittenPages DEF OnDisk
  <2> QED  BY <1>2, <2>1 DEF Inv, FlushOk, IsCurrent
<1>6. WritesOk'
  BY <1>2 DEF WritesOk
<1> QED  BY <1>3, <1>4, <1>5, <1>6 DEF Inv

LEMMA RestartKeepsInv == ASSUME Inv, Restart PROVE Inv'
<1>1. /\ districts' = NoDistricts /\ records' = {} /\ dirtyPages' = {}
      /\ metadataDirty' = FALSE /\ loading' = IndexRead /\ EndPass
      /\ writes' = {} /\ flushing' = FALSE /\ faults' = faults + 1
      /\ UNCHANGED <<published, pageFile, indexFile>>
  BY DEF Restart, Fault, diskVars
<1>2. \A p \in Pages : districts'[p] = Unknown
  BY <1>1 DEF NoDistricts
<1>3. \A p \in Pages : Unknown \in Meta /\ ~IsCurrent(Unknown, p) /\ MetaOk(Unknown, p)
  BY UnknownIsNotCurrent DEF Inv
<1>4. TypeOK'
  <2>1. districts' \in [Pages -> Meta]
    BY <1>1 DEF NoDistricts, Unknown, Meta
  <2>2. loading' \in [awaits : {"index", "pages", "nothing"}, keys : SUBSET Pages]
    BY <1>1 DEF IndexRead
  <2>3. faults' \in Nat
    BY <1>1 DEF Inv, TypeOK
  <2>4. pass' \in [Pages -> [phase : {"idle", "todo", "asked", "done"},
                             tag : Nat \cup {NoTag}]]
    BY <1>1, EndedPass
  <2> QED  BY <1>1, <2>1, <2>2, <2>3, <2>4 DEF Inv, TypeOK
<1>5. PublishedOk' /\ DiskOk' /\ WritesOk'
  BY <1>1 DEF Inv, PublishedOk, DiskOk, WritesOk, MetaOk, IsCurrent
<1>6. FlushOk' /\ MemoryOk'
  BY <1>1, <1>2, <1>3 DEF FlushOk, MemoryOk, MetaOk, IsCurrent, IndexRead
<1> QED  BY <1>4, <1>5, <1>6 DEF Inv

LEMMA LoadIndexKeepsInv == ASSUME Inv, LoadIndex PROVE Inv'
<1>1. /\ loading = IndexRead
      /\ UNCHANGED <<published, records, dirtyPages, metadataDirty, pass, writes,
                     flushing, pageFile, indexFile, faults>>
  BY DEF LoadIndex, diskVars
<1>2. CASE indexFile = NoDistricts
  <2>1. loading' = Loaded /\ districts' = districts
    BY <1>2 DEF LoadIndex
  <2>2. TypeOK'
    BY <1>1, <2>1 DEF Inv, TypeOK, Loaded
  <2>3. PublishedOk' /\ DiskOk' /\ WritesOk' /\ FlushOk'
    BY <1>1, <2>1 DEF Inv, PublishedOk, DiskOk, WritesOk, FlushOk, OnDisk, MetaOk, IsCurrent
  <2>4. MemoryOk'
    BY <1>1, <2>1 DEF Inv, MemoryOk, MetaOk, IsCurrent, IndexRead, Loaded
  <2> QED  BY <2>2, <2>3, <2>4 DEF Inv
<1>3. CASE indexFile # NoDistricts
  <2>1. /\ loading' = [awaits |-> "pages", keys |-> {p \in Pages : indexFile[p] # Unknown}]
        /\ districts' = indexFile
    BY <1>3 DEF LoadIndex
  <2>2. TypeOK'
    BY <1>1, <2>1 DEF Inv, TypeOK
  <2>3. \A p \in Pages : IsCurrent(indexFile[p], p) => p \in loading'.keys
    BY <2>1, UnknownIsNotCurrent DEF Inv
  <2>4. PublishedOk' /\ DiskOk' /\ MemoryOk'
    BY <1>1, <2>1, <2>3 DEF Inv, PublishedOk, DiskOk, MemoryOk, MetaOk, IsCurrent
  <2>5. WritesOk'
    BY <1>1, <2>1 DEF Inv, WritesOk, IsCurrent
  <2>6. FlushOk'
    BY <1>1, <2>1 DEF Inv, FlushOk, DiskOk, IsCurrent
  <2> QED  BY <2>2, <2>4, <2>5, <2>6 DEF Inv
<1> QED  BY <1>2, <1>3

LEMMA LoadPagesKeepsInv == ASSUME Inv, LoadPages PROVE Inv'
<1>1. /\ loading' = Loaded
      /\ metadataDirty' = (metadataDirty \/ districts' # districts)
      /\ records' = records \cup UNION {pageFile[p] : p \in loading.keys}
      /\ UNCHANGED <<published, dirtyPages, pass, writes, flushing, pageFile, indexFile,
                     faults>>
  BY DEF LoadPages, diskVars
<1>2. /\ loading.keys \subseteq Pages
      /\ districts \in [Pages -> Meta]
  BY DEF Inv, TypeOK
<1>3. /\ districts' \in [Pages -> Meta]
      /\ \A p \in Pages :
           /\ districts'[p].llnrs = districts[p].llnrs
           /\ districts'[p].tag \in {NoTag, districts[p].tag}
           /\ p \in loading.keys /\ districts'[p].tag # NoTag => Complete(p, districts[p])
  <2>1. \A p \in Pages :
          districts'[p] = IF p \in loading.keys /\ ~Complete(p, districts[p])
                          THEN [districts[p] EXCEPT !.tag = NoTag] ELSE districts[p]
    BY DEF LoadPages
  <2>2. \A p \in Pages :
          /\ [districts[p] EXCEPT !.tag = NoTag] \in Meta
          /\ [districts[p] EXCEPT !.tag = NoTag].tag = NoTag
          /\ [districts[p] EXCEPT !.tag = NoTag].llnrs = districts[p].llnrs
    BY <1>2 DEF Meta
  <2>3. districts' \in [Pages -> Meta]
    BY <1>2, <2>1, <2>2 DEF LoadPages
  <2> QED  BY <2>1, <2>2, <2>3
<1>4. \A p \in Pages : IsCurrent(districts[p], p)' => IsCurrent(districts[p], p)
                                                     /\ districts'[p].tag # NoTag
  BY <1>1, <1>3, Types, NoTagIsNotATag DEF Inv, IsCurrent
<1>5. TypeOK'
  <2>1. records' \subseteq Records
    BY <1>1, <1>2, Types DEF Inv
  <2>2. metadataDirty' \in BOOLEAN
    BY <1>1 DEF Inv, TypeOK
  <2>3. loading' \in [awaits : {"index", "pages", "nothing"}, keys : SUBSET Pages]
    BY <1>1 DEF Loaded
  <2> QED  BY <1>1, <1>3, <2>1, <2>2, <2>3 DEF Inv, TypeOK
<1>6. \A p \in Pages : MetaOk(districts[p], p)' /\ MetaOk(indexFile[p], p)'
  BY <1>1, <1>3, <1>4, NoTagIsNotATag DEF Inv, MemoryOk, DiskOk, MetaOk, IsCurrent
<1>7. DiskOk'
  BY <1>1, <1>3, <1>6 DEF Inv, DiskOk, IsCurrent
<1>8. PublishedOk' /\ WritesOk' /\ FlushOk'
  <2>1. PublishedOk'
    BY <1>1 DEF Inv, PublishedOk
  <2>2. WritesOk'
    <3>1. \A w \in writes : w.page \in Pages
      BY Types DEF Inv
    <3> QED  BY <1>1, <1>4, <3>1 DEF Inv, WritesOk, IsCurrent
  <2>3. FlushOk'
    BY <1>1, <1>4 DEF Inv, FlushOk, OnDisk
  <2> QED  BY <2>1, <2>2, <2>3
<1>9. MemoryOk'
  <2>1. ASSUME NEW p \in Pages, IsCurrent(districts[p], p)'
        PROVE  published[p].llnrs \subseteq records'
    <3>1. CASE published[p].llnrs \subseteq records
      BY <1>1, <3>1
    <3>2. CASE p \in loading.keys /\ pageFile[p] \subseteq published[p].llnrs
      <4>1. Cardinality(pageFile[p]) = Cardinality(published[p].llnrs)
        BY <1>3, <1>4, <2>1, <3>2 DEF Complete, Inv, MemoryOk, MetaOk
      <4>2. pageFile[p] = published[p].llnrs
        BY <3>2, <4>1, CountTells, Types DEF Inv
      <4> QED  BY <1>1, <3>2, <4>2
    <3> QED  BY <1>4, <2>1, <3>1, <3>2 DEF Inv, MemoryOk
  <2> QED  BY <1>1, <1>6, <2>1 DEF MemoryOk, Loaded
<1> QED  BY <1>5, <1>7, <1>8, <1>9 DEF Inv

LEMMA DamagePageKeepsInv == ASSUME Inv, NEW p \in Pages, DamagePage(p) PROVE Inv'
<1>1. PICK kept \in SUBSET pageFile[p] : pageFile' = [pageFile EXCEPT ![p] = kept]
  BY DEF DamagePage
<1>2. /\ UNCHANGED <<published, districts, records, dirtyPages, metadataDirty, loading,
                     pass, writes, flushing, indexFile>>
      /\ faults' = faults + 1
  BY DEF DamagePage, Fault, memoryVars
<1>3. /\ pageFile' \in [Pages -> SUBSET Records]
      /\ \A q \in Pages : pageFile'[q] \subseteq pageFile[q]
  BY <1>1, Types DEF Inv
<1>4. TypeOK'
  BY <1>2, <1>3 DEF Inv, TypeOK
<1>5. PublishedOk' /\ DiskOk' /\ MemoryOk'
  BY <1>2, <1>3 DEF Inv, PublishedOk, DiskOk, MemoryOk, MetaOk, IsCurrent
<1>6. WritesOk' /\ FlushOk'
  BY <1>2, <1>3 DEF Inv, WritesOk, FlushOk, OnDisk, IsCurrent
<1> QED  BY <1>4, <1>5, <1>6 DEF Inv

LEMMA DamageIndexKeepsInv == ASSUME Inv, DamageIndex PROVE Inv'
<1>1. /\ UNCHANGED <<published, districts, records, dirtyPages, metadataDirty, loading,
                     pass, writes, flushing, pageFile>>
      /\ faults' = faults + 1 /\ indexFile' = NoDistricts
  BY DEF DamageIndex, Fault, memoryVars
<1>2. \A p \in Pages : /\ indexFile'[p] = Unknown
                       /\ Unknown \in Meta /\ ~IsCurrent(Unknown, p) /\ MetaOk(Unknown, p)
  BY <1>1, UnknownIsNotCurrent DEF NoDistricts, Inv
<1>3. TypeOK'
  <2>1. indexFile' \in [Pages -> Meta]
    BY <1>1, <1>2 DEF NoDistricts
  <2> QED  BY <1>1, <2>1 DEF Inv, TypeOK
<1>4. PublishedOk' /\ DiskOk' /\ MemoryOk'
  BY <1>1, <1>2 DEF Inv, PublishedOk, DiskOk, MemoryOk, MetaOk, IsCurrent
<1>5. WritesOk'
  <2>1. \A w \in writes : w.page \in Pages
    BY Types DEF Inv
  <2> QED  BY <1>1, <1>2, <2>1 DEF Inv, WritesOk, IsCurrent
<1>6. FlushOk'
  BY <1>1 DEF Inv, FlushOk, OnDisk, IsCurrent
<1> QED  BY <1>3, <1>4, <1>5, <1>6 DEF Inv

LEMMA NextKeepsInv == ASSUME AidsStay, Inv, [Next]_vars PROVE Inv'
<1>1. ASSUME NEW pages \in SUBSET Pages \ {{}}, Publish(pages) PROVE Inv'
  BY <1>1, PublishKeepsInv
<1>2. ASSUME NEW p \in Pages, Ask(p) \/ Answers(p) \/ DamagePage(p) PROVE Inv'
  BY <1>2, AskKeepsInv, AnswersKeepInv, DamagePageKeepsInv
<1>3. CASE Flush
  BY <1>3, StartFlushKeepsInv, WriteIndexKeepsInv, FlushFailsKeepsInv, WritePageKeepsInv
     DEF Flush
<1>4. CASE StartRefresh \/ Restart \/ LoadIndex \/ LoadPages \/ DamageIndex
  BY <1>4, StartRefreshKeepsInv, RestartKeepsInv, LoadIndexKeepsInv, LoadPagesKeepsInv,
     DamageIndexKeepsInv
<1>5. CASE UNCHANGED vars
  <2>1. pass' \in [Pages -> [phase : {"idle", "todo", "asked", "done"},
                             tag : Nat \cup {NoTag}]] /\ faults' \in Nat
    BY <1>5 DEF Inv, TypeOK, vars
  <2> QED  BY <1>5, <2>1, PassStepKeepsInv DEF vars, memoryVars, diskVars
<1> QED  BY <1>1, <1>2, <1>3, <1>4, <1>5 DEF Next
-----------------------------------------------------------------------------
(* Theorems. *)

\* While every aid stays on its page, the invariant holds throughout.
THEOREM InvHolds ==
    ASSUME AidsStay
    PROVE  Spec => []Inv
<1>1. Init => Inv
  BY InitInv
<1>2. Inv /\ [Next]_vars => Inv'
  BY NextKeepsInv
<1> QED  BY <1>1, <1>2, PTL DEF Spec

\* The index, the pass, the flush and the disk keep their types
\* (light-list-store.ts:188-207).
THEOREM TypeCorrect ==
    ASSUME AidsStay
    PROVE  Spec => []TypeOK
<1>1. Inv => TypeOK
  BY DEF Inv
<1> QED  BY <1>1, InvHolds, PTL

\* A page the server would answer with 304 has its records in memory, or in a
\* file load() has still to read, whatever crashed, failed or was damaged before
\* (light-list-store.ts:298-319, 324-380).
THEOREM NotModifiedStaysSafe ==
    ASSUME AidsStay
    PROVE  Spec => []NotModifiedIsSafe
<1>1. Inv => NotModifiedIsSafe
  BY DEF Inv, MemoryOk, IsCurrent, NotModifiedIsSafe
<1> QED  BY <1>1, InvHolds, PTL

\* The index on disk never claims a page file it does not have: the pages are
\* written first (light-list-store.ts:362-377).
THEOREM DiskStaysSafe ==
    ASSUME AidsStay
    PROVE  Spec => []DiskIsSafe
<1>1. ASSUME Inv PROVE DiskIsSafe
  <2> SUFFICES ASSUME NEW p \in Pages, Complete(p, indexFile[p]),
                      indexFile[p].tag = published[p].tag
               PROVE  pageFile[p] = published[p].llnrs
    BY DEF DiskIsSafe
  <2>1. /\ pageFile[p] \subseteq published[p].llnrs
        /\ indexFile[p].llnrs = published[p].llnrs
    BY <1>1 DEF Inv, DiskOk, MetaOk, IsCurrent
  <2> QED  BY <1>1, <2>1, CountTells, Types DEF Complete, Inv
<1> QED  BY <1>1, InvHolds, PTL
=============================================================================
