-------------------------- MODULE HttpClientProofs --------------------------
(***************************************************************************)
(* The safety of the HTTP client for any number of calls and every choice  *)
(* of rate limits, and its refinement of the FIFO pool.                    *)
(***************************************************************************)
EXTENDS HttpClient, FiniteSetTheorems, TLAPS

Holding == {"starting", "fetching", "cancelling", "sleeping"}
Phases == {"idle", "queued", "done"} \cup Holding

HoldersOf(ph) == {r \in Requests : ph[r] \in Holding}

-----------------------------------------------------------------------------
(* The inductive invariant. *)

\* The queue's books: the counter is the number of holders, the calls in the
\* queue are the queued ones, each once.
QueueOk(ph, w, a) ==
    /\ ph \in [Requests -> Phases]
    /\ w \in Seq(Requests)
    /\ a = Cardinality(HoldersOf(ph)) /\ a <= MaxConcurrency
    /\ \A i \in 1 .. Len(w) : ph[w[i]] = "queued"
    /\ \A i, j \in 1 .. Len(w) : w[i] = w[j] => i = j

\* The granted calls are spaced among themselves, from the last start, and from
\* the next slot that pump() will grant.
SpacingOk(ph) ==
    /\ sinceStart + gap >= MinDelay
    /\ \A r \in Requests :
         ph[r] = "starting" => /\ sinceStart + timer[r] >= MinDelay
                               /\ gap >= timer[r] + MinDelay
    /\ \A r, s \in Requests :
         (r # s /\ ph[r] = "starting" /\ ph[s] = "starting") =>
            \/ timer[r] >= timer[s] + MinDelay
            \/ timer[s] >= timer[r] + MinDelay

\* A call that has fetched on the closed client waits for that fetch or is done.
LateOk ==
    \A r \in Requests :
        /\ lateFetches[r] <= 1
        /\ lateFetches[r] = 1 => closed /\ phase[r] \in {"fetching", "done"}

\* A call between two attempts has an attempt left.
RetryOk ==
    \A r \in Requests :
        phase[r] \in {"cancelling", "sleeping"} => attempt[r] < MaxRetries

Inv ==
    /\ TypeOK
    /\ QueueOk(phase, waiting, active)
    /\ NoLostWakeup
    /\ SpacingOk(phase)
    /\ LateOk
    /\ RetryOk
-----------------------------------------------------------------------------
(* Who holds a slot. *)

LEMMA Limits ==
    /\ MaxConcurrency \in Nat \ {0} /\ MinDelay \in Nat /\ BackoffBase \in Nat
    /\ MaxBackoff \in Nat /\ MaxRetries \in Nat /\ MaxRetryAfter \in Nat
    /\ RetryAfters \subseteq Nat
BY LimitsAreNat

LEMMA HoldersAreFinite ==
    ASSUME NEW ph
    PROVE  IsFiniteSet(HoldersOf(ph)) /\ Cardinality(HoldersOf(ph)) \in Nat
<1>1. HoldersOf(ph) \subseteq Requests
  BY DEF HoldersOf
<1> QED  BY <1>1, RequestsAreFinite, FS_Subset, FS_CardinalityType

\* A call that takes a slot adds itself to the holders.
LEMMA HolderEnters ==
    ASSUME NEW ph \in [Requests -> Phases], NEW r \in Requests,
           ph[r] \notin Holding, NEW p \in Holding
    PROVE  /\ HoldersOf([ph EXCEPT ![r] = p]) = HoldersOf(ph) \cup {r}
           /\ Cardinality(HoldersOf([ph EXCEPT ![r] = p]))
                = Cardinality(HoldersOf(ph)) + 1
<1>1. HoldersOf([ph EXCEPT ![r] = p]) = HoldersOf(ph) \cup {r}
  BY DEF HoldersOf
<1>2. r \notin HoldersOf(ph)
  BY DEF HoldersOf
<1> QED  BY <1>1, <1>2, HoldersAreFinite, FS_AddElement

\* A call that gives its slot back removes itself from the holders.
LEMMA HolderLeaves ==
    ASSUME NEW ph \in [Requests -> Phases], NEW r \in Requests,
           ph[r] \in Holding, NEW p \in Phases \ Holding
    PROVE  /\ HoldersOf([ph EXCEPT ![r] = p]) = HoldersOf(ph) \ {r}
           /\ Cardinality(HoldersOf([ph EXCEPT ![r] = p]))
                = Cardinality(HoldersOf(ph)) - 1
<1>1. HoldersOf([ph EXCEPT ![r] = p]) = HoldersOf(ph) \ {r}
  BY DEF HoldersOf
<1>2. r \in HoldersOf(ph)
  BY DEF HoldersOf
<1> QED  BY <1>1, <1>2, HoldersAreFinite, FS_RemoveElement

\* Any other change of phase leaves the holders as they are.
LEMMA HolderStays ==
    ASSUME NEW ph \in [Requests -> Phases], NEW r \in Requests, NEW p \in Phases,
           ph[r] \in Holding <=> p \in Holding
    PROVE  HoldersOf([ph EXCEPT ![r] = p]) = HoldersOf(ph)
BY DEF HoldersOf

LEMMA HoldersAreHolders == Holders = HoldersOf(phase)
BY DEF Holders, HoldersOf, Holding

-----------------------------------------------------------------------------
(* pump(). *)

\* pump() with a slot free or at most one call waiting keeps the books and the
\* spacing, and leaves no call waiting beside a free slot.
LEMMA PumpKeepsQueue ==
    ASSUME NEW ph, NEW w, NEW a, QueueOk(ph, w, a), SpacingOk(ph),
           gap \in Nat, timer \in [Requests -> Nat], sinceStart \in 0 .. MinDelay,
           Len(w) > 1 => a >= MaxConcurrency - 1,
           Pump(ph, w, a), UNCHANGED sinceStart
    PROVE  /\ QueueOk(phase', waiting', active')
           /\ SpacingOk(phase)'
           /\ NoLostWakeup'
           /\ gap' \in Nat /\ timer' \in [Requests -> Nat]
           /\ \A q \in Requests :
                phase'[q] = ph[q] \/ (ph[q] = "queued" /\ phase'[q] = "starting")
<1>1. /\ ph \in [Requests -> Phases] /\ w \in Seq(Requests) /\ a \in Nat
      /\ a <= MaxConcurrency /\ MaxConcurrency \in Nat /\ MinDelay \in Nat
  BY Limits, HoldersAreFinite DEF QueueOk
<1>2. CASE CanPump(w, a)
  <2> DEFINE h == Head(w)
  <2>1. /\ w # <<>> /\ a < MaxConcurrency
        /\ phase' = [ph EXCEPT ![h] = "starting"] /\ waiting' = Tail(w)
        /\ active' = a + 1 /\ timer' = [timer EXCEPT ![h] = gap]
        /\ gap' = gap + MinDelay
    BY <1>2 DEF Pump, CanPump
  <2>2. /\ Len(w) \in Nat \ {0} /\ 1 \in 1 .. Len(w)
        /\ h = w[1] /\ h \in Requests /\ ph[h] = "queued"
    BY <1>1, <2>1 DEF QueueOk
  <2>3. /\ waiting' \in Seq(Requests) /\ Len(waiting') = Len(w) - 1
        /\ \A i \in 1 .. Len(waiting') : i + 1 \in 1 .. Len(w) /\ waiting'[i] = w[i + 1]
    BY <1>1, <2>1, <2>2
  <2> HIDE DEF h
  <2>4. \A i \in 1 .. Len(waiting') : waiting'[i] # h /\ phase'[waiting'[i]] = "queued"
    <3> TAKE i \in 1 .. Len(waiting')
    <3>1. i + 1 \in 1 .. Len(w) /\ waiting'[i] = w[i + 1] /\ i + 1 # 1
      BY <2>3
    <3>2. w[i + 1] # w[1] /\ ph[w[i + 1]] = "queued" /\ w[i + 1] \in Requests
      BY <1>1, <2>2, <3>1 DEF QueueOk
    <3> QED  BY <1>1, <2>1, <2>2, <3>1, <3>2
  <2>5. \A i, j \in 1 .. Len(waiting') : waiting'[i] = waiting'[j] => i = j
    <3> TAKE i, j \in 1 .. Len(waiting')
    <3>1. /\ i + 1 \in 1 .. Len(w) /\ waiting'[i] = w[i + 1]
          /\ j + 1 \in 1 .. Len(w) /\ waiting'[j] = w[j + 1]
      BY <2>3
    <3>2. w[i + 1] = w[j + 1] => i + 1 = j + 1
      BY <3>1 DEF QueueOk
    <3> QED  BY <3>1, <3>2
  <2>6. active' = Cardinality(HoldersOf(phase'))
    BY <1>1, <2>1, <2>2, HolderEnters DEF QueueOk, Holding
  <2>7. QueueOk(phase', waiting', active')
    <3>1. phase' \in [Requests -> Phases]
      BY <1>1, <2>1 DEF Phases, Holding
    <3> QED  BY <1>1, <2>1, <2>3, <2>4, <2>5, <2>6, <3>1 DEF QueueOk
  <2>8. NoLostWakeup'
    BY <1>1, <2>1, <2>2, <2>3 DEF NoLostWakeup
  <2>9. /\ phase'[h] = "starting" /\ timer'[h] = gap
        /\ \A r \in Requests \ {h} : phase'[r] = ph[r] /\ timer'[r] = timer[r]
        /\ \A r \in Requests : timer[r] \in Nat
        /\ sinceStart \in Nat
    BY <1>1, <2>1, <2>2
  <2>10. SpacingOk(phase)'
    BY <1>1, <2>1, <2>2, <2>9 DEF SpacingOk
  <2>11. gap' \in Nat
    BY <1>1, <2>1
  <2>12. timer' \in [Requests -> Nat]
    BY <2>1, <2>2
  <2>13. \A q \in Requests :
            phase'[q] = ph[q] \/ (ph[q] = "queued" /\ phase'[q] = "starting")
    BY <2>2, <2>9
  <2> QED  BY <2>7, <2>8, <2>10, <2>11, <2>12, <2>13
<1>3. CASE ~CanPump(w, a)
  <2>1. phase' = ph /\ waiting' = w /\ active' = a /\ UNCHANGED <<timer, gap>>
    BY <1>3 DEF Pump
  <2>2. NoLostWakeup'
    BY <1>1, <1>3, <2>1 DEF CanPump, NoLostWakeup
  <2> QED  BY <2>1, <2>2 DEF SpacingOk
<1> QED  BY <1>2, <1>3

-----------------------------------------------------------------------------
(* Every step preserves the invariant. *)

LEMMA InvParts ==
    ASSUME Inv
    PROVE  /\ phase \in [Requests -> Phases] /\ attempt \in [Requests -> 0 .. MaxRetries]
           /\ timer \in [Requests -> Nat] /\ waiting \in Seq(Requests)
           /\ active \in Nat /\ gap \in Nat /\ closed \in BOOLEAN
           /\ sinceStart \in 0 .. MinDelay /\ lateFetches \in [Requests -> Nat]
           /\ QueueOk(phase, waiting, active) /\ NoLostWakeup
           /\ SpacingOk(phase) /\ LateOk /\ RetryOk
BY Zenon DEF Inv, TypeOK, Phases, Holding, QueueOk

LEMMA PartsGiveInv ==
    ASSUME QueueOk(phase', waiting', active'), NoLostWakeup', SpacingOk(phase)', LateOk',
           RetryOk',
           attempt' \in [Requests -> 0 .. MaxRetries], timer' \in [Requests -> Nat],
           gap' \in Nat, closed' \in BOOLEAN, sinceStart' \in 0 .. MinDelay,
           lateFetches' \in [Requests -> Nat]
    PROVE  Inv'
<1>1. /\ phase' \in [Requests -> {"idle", "queued", "starting", "fetching",
                                  "cancelling", "sleeping", "done"}]
      /\ waiting' \in Seq(Requests) /\ active' \in Nat
  BY HoldersAreFinite DEF QueueOk, Phases, Holding
<1> QED  BY <1>1 DEF Inv, TypeOK

LEMMA AcquireKeepsInv ==
    ASSUME Inv, NEW r \in Requests, Acquire(r)
    PROVE  Inv'
<1> DEFINE ph == [phase EXCEPT ![r] = "queued"]
           w  == Append(waiting, r)
<1>1. /\ phase[r] = "idle" /\ Pump(ph, w, active)
      /\ UNCHANGED <<attempt, closed, sinceStart, lateFetches>>
  BY DEF Acquire
<1>2. /\ ph \in [Requests -> Phases] /\ HoldersOf(ph) = HoldersOf(phase)
      /\ ph[r] = "queued" /\ \A q \in Requests : q # r => ph[q] = phase[q]
  BY <1>1, InvParts, HolderStays DEF Phases, Holding
<1>3. /\ w \in Seq(Requests) /\ Len(w) = Len(waiting) + 1
      /\ w[Len(w)] = r
      /\ \A i \in 1 .. Len(w) : i # Len(w) =>
            i \in 1 .. Len(waiting) /\ w[i] = waiting[i]
  <2>1. waiting \in Seq(Requests) /\ r \in Requests
    BY InvParts
  <2>2. w \in Seq(Requests) /\ Len(w) = Len(waiting) + 1 /\ w[Len(w)] = r
    BY <2>1
  <2>3. \A i \in 1 .. Len(w) : i # Len(w) =>
           i \in 1 .. Len(waiting) /\ w[i] = waiting[i]
    BY <2>1
  <2> QED  BY <2>2, <2>3
<1>4. \A i \in 1 .. Len(waiting) : waiting[i] \in Requests /\ waiting[i] # r
                                  /\ phase[waiting[i]] = "queued"
  BY <1>1, InvParts DEF QueueOk
<1> HIDE DEF ph, w
<1>5. QueueOk(ph, w, active)
  <2>1. \A i \in 1 .. Len(w) : ph[w[i]] = "queued"
    BY <1>2, <1>3, <1>4
  <2>2. \A i, j \in 1 .. Len(w) : w[i] = w[j] => i = j
    <3>1. \A i, j \in 1 .. Len(waiting) : waiting[i] = waiting[j] => i = j
      BY InvParts DEF QueueOk
    <3>2. \A i \in 1 .. Len(w) : i # Len(w) => w[i] # r
      BY <1>3, <1>4
    <3>3. SUFFICES ASSUME NEW i \in 1 .. Len(w), NEW j \in 1 .. Len(w), w[i] = w[j]
                   PROVE  i = j
      OBVIOUS
    <3>4. CASE i # Len(w) /\ j # Len(w)
      BY <1>3, <3>1, <3>3, <3>4
    <3>5. CASE i = Len(w) \/ j = Len(w)
      BY <1>3, <3>2, <3>3, <3>5
    <3> QED  BY <3>4, <3>5
  <2>3. active = Cardinality(HoldersOf(ph)) /\ active <= MaxConcurrency
    BY <1>2, InvParts DEF QueueOk
  <2> QED  BY <1>2, <1>3, <2>1, <2>2, <2>3 DEF QueueOk
<1>6. SpacingOk(ph)
  BY <1>2, InvParts DEF SpacingOk
<1>7. Len(w) > 1 => active >= MaxConcurrency - 1
  <2>1. Len(waiting) \in Nat /\ (Len(waiting) > 0 => waiting # <<>>)
    BY InvParts
  <2> QED  BY <1>3, <2>1, Limits, InvParts DEF NoLostWakeup
<1>8. /\ QueueOk(phase', waiting', active') /\ SpacingOk(phase)' /\ NoLostWakeup'
      /\ gap' \in Nat /\ timer' \in [Requests -> Nat]
      /\ \A q \in Requests :
           phase'[q] = ph[q] \/ (ph[q] = "queued" /\ phase'[q] = "starting")
  BY <1>1, <1>5, <1>6, <1>7, InvParts, PumpKeepsQueue
<1>9. \A q \in Requests :
         phase'[q] = phase[q] \/ phase'[q] \in {"queued", "starting"}
  BY <1>2, <1>8
<1>10. LateOk'
  <2>1. \A q \in Requests : lateFetches[q] = 1 => phase'[q] = phase[q]
    BY <1>1, <1>2, <1>8, InvParts DEF LateOk
  <2> QED  BY <1>1, <2>1, InvParts DEF LateOk
<1>11. RetryOk'
  BY <1>1, <1>9, InvParts DEF RetryOk
<1> QED  BY <1>1, <1>8, <1>10, <1>11, InvParts, PartsGiveInv

LEMMA ReleaseKeepsInv ==
    ASSUME Inv, NEW r \in Requests, phase[r] \in Holding, Release(r)
    PROVE  Inv'
<1> DEFINE ph == [phase EXCEPT ![r] = "done"]
<1>1. /\ Pump(ph, waiting, active - 1)
      /\ UNCHANGED <<attempt, closed, sinceStart, lateFetches>>
  BY DEF Release
<1>2. /\ ph \in [Requests -> Phases] /\ ph[r] = "done"
      /\ \A q \in Requests : q # r => ph[q] = phase[q]
      /\ Cardinality(HoldersOf(ph)) = active - 1
      /\ active - 1 \in Nat /\ active <= MaxConcurrency
  <2>1. "done" \in Phases \ Holding
    BY DEF Phases, Holding
  <2>2. phase \in [Requests -> Phases] /\ active = Cardinality(HoldersOf(phase))
    BY InvParts DEF QueueOk
  <2>3. Cardinality(HoldersOf(ph)) = active - 1
    BY <2>1, <2>2, HolderLeaves
  <2>4. active - 1 \in Nat
    BY <2>3, HoldersAreFinite
  <2> QED  BY <2>1, <2>2, <2>3, <2>4, InvParts DEF QueueOk
<1>3. \A i \in 1 .. Len(waiting) : waiting[i] \in Requests /\ waiting[i] # r
                                  /\ phase[waiting[i]] = "queued"
  BY InvParts DEF QueueOk, Holding
<1> HIDE DEF ph
<1>4. QueueOk(ph, waiting, active - 1)
  <2>1. active - 1 <= MaxConcurrency
    BY <1>2, Limits, InvParts
  <2> QED  BY <1>2, <1>3, <2>1, InvParts DEF QueueOk
<1>5. SpacingOk(ph)
  <2>1. \A q \in Requests : ph[q] = "starting" => phase[q] = "starting"
    BY <1>2
  <2> QED  BY <2>1, InvParts DEF SpacingOk
<1>6. Len(waiting) > 1 => active - 1 >= MaxConcurrency - 1
  <2>1. Len(waiting) > 1 => waiting # <<>>
    BY InvParts
  <2> QED  BY <2>1, Limits, InvParts DEF NoLostWakeup
<1>7. /\ QueueOk(phase', waiting', active') /\ SpacingOk(phase)' /\ NoLostWakeup'
      /\ gap' \in Nat /\ timer' \in [Requests -> Nat]
      /\ \A q \in Requests :
           phase'[q] = ph[q] \/ (ph[q] = "queued" /\ phase'[q] = "starting")
  BY <1>1, <1>4, <1>5, <1>6, InvParts, PumpKeepsQueue
<1>8. LateOk'
  <2>1. \A q \in Requests : lateFetches[q] = 1 => phase'[q] \in {"fetching", "done"}
    BY <1>2, <1>7, InvParts DEF LateOk
  <2> QED  BY <1>1, <2>1, InvParts DEF LateOk
<1>9. RetryOk'
  BY <1>1, <1>2, <1>7, InvParts DEF RetryOk
<1> QED  BY <1>1, <1>7, <1>8, <1>9, InvParts, PartsGiveInv

\* A holder that goes on to another phase of its own, with a new timer if it
\* goes to sleep, changes neither the queue's books nor the spacing.
LEMMA HolderGoesOn ==
    ASSUME Inv, NEW r \in Requests, phase[r] \in Holding,
           NEW p \in Holding \ {"starting"}, phase' = [phase EXCEPT ![r] = p],
           UNCHANGED <<waiting, active, gap>>,
           \A q \in Requests : q # r => timer'[q] = timer[q]
    PROVE  /\ QueueOk(phase', waiting', active') /\ NoLostWakeup'
           /\ UNCHANGED sinceStart => SpacingOk(phase)'
<1>1. /\ phase' \in [Requests -> Phases] /\ phase'[r] = p
      /\ HoldersOf(phase') = HoldersOf(phase)
      /\ \A q \in Requests : q # r => phase'[q] = phase[q]
  BY InvParts, HolderStays DEF Phases
<1>2. \A i \in 1 .. Len(waiting) : waiting[i] \in Requests /\ waiting[i] # r
  BY InvParts DEF QueueOk, Holding
<1>3. QueueOk(phase', waiting', active')
  BY <1>1, <1>2, InvParts DEF QueueOk
<1>4. NoLostWakeup'
  BY InvParts DEF NoLostWakeup
<1>5. UNCHANGED sinceStart => SpacingOk(phase)'
  <2> SUFFICES ASSUME UNCHANGED sinceStart PROVE SpacingOk(phase)'
    OBVIOUS
  <2>1. \A q \in Requests : phase'[q] = "starting" =>
           phase[q] = "starting" /\ timer'[q] = timer[q]
    BY <1>1
  <2> QED  BY <2>1, InvParts DEF SpacingOk
<1> QED  BY <1>3, <1>4, <1>5

\* A timer granted by pump() fires: the task starts, and every other granted
\* call and the next slot are a full gap away.
LEMMA StartKeepsInv ==
    ASSUME Inv, NEW r \in Requests, Start(r)
    PROVE  Inv' /\ sinceStart = MinDelay
<1>1. /\ phase[r] = "starting" /\ timer[r] = 0 /\ sinceStart' = 0
      /\ phase' = [phase EXCEPT ![r] = "fetching"] /\ CallsFetch(r)
      /\ UNCHANGED <<attempt, timer, waiting, active, gap, closed>>
  BY DEF Start
<1>2. QueueOk(phase', waiting', active') /\ NoLostWakeup'
  BY <1>1, HolderGoesOn DEF Holding
<1>3. /\ \A q \in Requests : q # r => phase'[q] = phase[q]
      /\ phase'[r] = "fetching"
  BY <1>1, InvParts
<1>4. /\ MinDelay \in Nat /\ sinceStart \in 0 .. MinDelay
      /\ \A q \in Requests : timer[q] \in Nat
  BY Limits, InvParts
<1>5. sinceStart = MinDelay
  BY <1>1, <1>4, InvParts DEF SpacingOk
<1>6. SpacingOk(phase)'
  <2>1. gap >= MinDelay
    BY <1>1, <1>4, InvParts DEF SpacingOk
  <2>2. \A q \in Requests : phase'[q] = "starting" => q # r /\ phase[q] = "starting"
    BY <1>3
  <2>3. \A q \in Requests : phase'[q] = "starting" => timer[q] >= MinDelay
    BY <1>1, <1>4, <2>2, InvParts DEF SpacingOk
  <2>4. sinceStart' + gap' >= MinDelay
    BY <1>1, <1>4, <2>1, InvParts
  <2>5. \A q \in Requests : phase'[q] = "starting" =>
           sinceStart' + timer'[q] >= MinDelay /\ gap' >= timer'[q] + MinDelay
    BY <1>1, <1>4, <2>2, <2>3, InvParts DEF SpacingOk
  <2>6. \A q, s \in Requests :
           (q # s /\ phase'[q] = "starting" /\ phase'[s] = "starting") =>
              \/ timer'[q] >= timer'[s] + MinDelay
              \/ timer'[s] >= timer'[q] + MinDelay
    BY <1>1, <2>2, InvParts DEF SpacingOk
  <2> QED  BY <2>4, <2>5, <2>6 DEF SpacingOk
<1>7. LateOk' /\ lateFetches' \in [Requests -> Nat]
  <2>1. lateFetches[r] = 0
    <3>1. lateFetches[r] \in Nat /\ lateFetches[r] <= 1
      BY InvParts DEF LateOk
    <3>2. lateFetches[r] # 1
      BY <1>1, InvParts DEF LateOk
    <3> QED  BY <3>1, <3>2
  <2> QED  BY <1>1, <1>3, <2>1, InvParts DEF LateOk, CallsFetch
<1>8. sinceStart' \in 0 .. MinDelay
  BY <1>1, <1>4
<1>9. RetryOk'
  BY <1>1, <1>3, InvParts DEF RetryOk
<1> QED  BY <1>1, <1>2, <1>5, <1>6, <1>7, <1>8, <1>9, InvParts, PartsGiveInv

\* The retryable response of an open client: no late fetch can be waiting.
LEMMA RespondsRetryableKeepsInv ==
    ASSUME Inv, NEW r \in Requests, RespondsRetryable(r)
    PROVE  Inv'
<1>1. /\ phase[r] = "fetching" /\ ~closed /\ attempt[r] < MaxRetries
      /\ phase' = [phase EXCEPT ![r] = "cancelling"]
      /\ UNCHANGED <<attempt, timer, waiting, active, gap, closed, sinceStart,
                     lateFetches>>
  BY DEF RespondsRetryable, CanRetry
<1>2. QueueOk(phase', waiting', active') /\ NoLostWakeup' /\ SpacingOk(phase)'
  BY <1>1, HolderGoesOn DEF Holding
<1>3. LateOk'
  BY <1>1, InvParts DEF LateOk
<1>4. RetryOk'
  BY <1>1, InvParts DEF RetryOk
<1> QED  BY <1>1, <1>2, <1>3, <1>4, InvParts, PartsGiveInv

\* Going to sleep, from a cancelled body or from the catch.
LEMMA SleepKeepsInv ==
    ASSUME Inv, NEW r \in Requests, phase[r] \in {"fetching", "cancelling"},
           NEW wait \in Nat, Sleep(r, wait), attempt[r] < MaxRetries,
           lateFetches[r] = 0
    PROVE  Inv'
<1>1. /\ phase' = [phase EXCEPT ![r] = "sleeping"]
      /\ timer' = [timer EXCEPT ![r] = wait]
      /\ UNCHANGED <<attempt, waiting, active, gap, closed, sinceStart, lateFetches>>
  BY DEF Sleep
<1>2. /\ timer' \in [Requests -> Nat]
      /\ \A q \in Requests : q # r => timer'[q] = timer[q]
  BY <1>1, InvParts
<1>3. QueueOk(phase', waiting', active') /\ NoLostWakeup' /\ SpacingOk(phase)'
  BY <1>1, <1>2, HolderGoesOn DEF Holding
<1>4. LateOk'
  BY <1>1, InvParts DEF LateOk
<1>5. RetryOk'
  BY <1>1, InvParts DEF RetryOk
<1> QED  BY <1>1, <1>2, <1>3, <1>4, <1>5, InvParts, PartsGiveInv

LEMMA WaitsAreNat ==
    /\ \A n \in Nat : BackoffDelay(n) \subseteq Nat
    /\ \A h \in RetryAfters : RetryAfterDelay(h) \in Nat
<1>1. \A n \in Nat : BackoffDelay(n) \subseteq Nat
  BY Limits DEF BackoffDelay
<1>2. \A h \in RetryAfters : RetryAfterDelay(h) \in Nat
  BY Limits DEF RetryAfterDelay, Larger, Smaller
<1> QED  BY <1>1, <1>2

LEMMA BodyIsCancelledKeepsInv ==
    ASSUME Inv, NEW r \in Requests, BodyIsCancelled(r)
    PROVE  Inv'
<1>1. attempt[r] \in Nat /\ attempt[r] < MaxRetries /\ lateFetches[r] = 0
  <2>1. attempt[r] \in Nat /\ lateFetches[r] \in Nat /\ phase[r] = "cancelling"
    BY Limits, InvParts DEF BodyIsCancelled
  <2>2. lateFetches[r] # 1 /\ lateFetches[r] <= 1
    BY <2>1, InvParts DEF LateOk
  <2> QED  BY <2>1, <2>2, InvParts DEF RetryOk
<1>2. PICK wait \in Nat : Sleep(r, wait)
  BY <1>1, WaitsAreNat DEF BodyIsCancelled
<1> QED  BY <1>1, <1>2, SleepKeepsInv DEF BodyIsCancelled

LEMMA RejectsKeepsInv ==
    ASSUME Inv, NEW r \in Requests, Rejects(r)
    PROVE  Inv'
<1>1. CASE Release(r)
  BY <1>1, ReleaseKeepsInv DEF Rejects, Holding
<1>2. CASE ~GivesUp(r) /\ \E wait \in BackoffDelay(attempt[r]) : Sleep(r, wait)
  <2>1. /\ attempt[r] \in Nat /\ attempt[r] < MaxRetries /\ ~closed
        /\ lateFetches[r] \in Nat
    BY <1>2, Limits, InvParts DEF GivesUp, CanRetry
  <2>2. lateFetches[r] = 0
    BY <2>1, InvParts DEF LateOk
  <2>3. PICK wait \in Nat : Sleep(r, wait)
    BY <1>2, <2>1, WaitsAreNat
  <2> QED  BY <2>1, <2>2, <2>3, SleepKeepsInv DEF Rejects
<1> QED  BY <1>1, <1>2 DEF Rejects

LEMMA RespondsKeepsInv ==
    ASSUME Inv, NEW r \in Requests, Responds(r)
    PROVE  Inv'
BY ReleaseKeepsInv DEF Responds, Holding

LEMMA WakeKeepsInv ==
    ASSUME Inv, NEW r \in Requests, Wake(r)
    PROVE  Inv'
<1>1. /\ phase[r] = "sleeping" /\ phase' = [phase EXCEPT ![r] = "fetching"]
      /\ attempt' = [attempt EXCEPT ![r] = @ + 1] /\ CallsFetch(r)
      /\ UNCHANGED <<timer, waiting, active, gap, closed, sinceStart>>
  BY DEF Wake
<1>2. QueueOk(phase', waiting', active') /\ NoLostWakeup' /\ SpacingOk(phase)'
  BY <1>1, HolderGoesOn DEF Holding
<1>3. LateOk' /\ lateFetches' \in [Requests -> Nat]
  <2>1. lateFetches[r] \in Nat /\ lateFetches[r] # 1 /\ lateFetches[r] <= 1
    BY <1>1, InvParts DEF LateOk
  <2>2. \A q \in Requests : q # r => phase'[q] = phase[q]
    BY <1>1, InvParts
  <2> QED  BY <1>1, <2>1, <2>2, InvParts DEF LateOk, CallsFetch
<1>4. attempt' \in [Requests -> 0 .. MaxRetries]
  <2>1. attempt[r] < MaxRetries
    BY <1>1, InvParts DEF RetryOk
  <2> QED  BY <1>1, <2>1, Limits, InvParts
<1>5. RetryOk'
  BY <1>1, InvParts DEF RetryOk
<1> QED  BY <1>1, <1>2, <1>3, <1>4, <1>5, InvParts, PartsGiveInv

LEMMA CloseKeepsInv ==
    ASSUME Inv, Close
    PROVE  Inv'
BY InvParts, PartsGiveInv
   DEF Close, QueueOk, NoLostWakeup, SpacingOk, LateOk, RetryOk

\* Time passes alike for every granted call and for the next slot.
LEMMA TickKeepsInv ==
    ASSUME Inv, Tick
    PROVE  Inv'
<1>1. /\ \A q \in Requests : phase[q] = "starting" => timer[q] > 0
      /\ timer' = [q \in Requests |-> Larger(0, timer[q] - 1)]
      /\ gap' = Larger(0, gap - 1) /\ sinceStart' = Smaller(MinDelay, sinceStart + 1)
      /\ UNCHANGED <<phase, attempt, waiting, active, closed, lateFetches>>
  BY DEF Tick, Timed
<1>2. /\ MinDelay \in Nat /\ gap \in Nat /\ sinceStart \in 0 .. MinDelay
      /\ \A q \in Requests : timer[q] \in Nat
  BY Limits, InvParts
<1>3. /\ timer' \in [Requests -> Nat] /\ gap' \in Nat
      /\ sinceStart' \in 0 .. MinDelay
  BY <1>1, <1>2 DEF Larger, Smaller
<1>4. SpacingOk(phase)'
  <2>1. sinceStart' + gap' >= MinDelay
    BY <1>1, <1>2, InvParts DEF SpacingOk, Larger, Smaller
  <2>2. \A q \in Requests : phase[q] = "starting" => timer'[q] = timer[q] - 1
    BY <1>1, <1>2 DEF Larger
  <2>3. \A q \in Requests : phase[q] = "starting" =>
           sinceStart' + timer'[q] >= MinDelay /\ gap' >= timer'[q] + MinDelay
    BY <1>1, <1>2, <2>2, InvParts DEF SpacingOk, Larger, Smaller
  <2>4. \A q, s \in Requests :
           (q # s /\ phase[q] = "starting" /\ phase[s] = "starting") =>
              \/ timer'[q] >= timer'[s] + MinDelay
              \/ timer'[s] >= timer'[q] + MinDelay
    <3> TAKE q, s \in Requests
    <3> HAVE q # s /\ phase[q] = "starting" /\ phase[s] = "starting"
    <3>1. timer[q] >= timer[s] + MinDelay \/ timer[s] >= timer[q] + MinDelay
      BY InvParts DEF SpacingOk
    <3>2. timer'[q] = timer[q] - 1 /\ timer'[s] = timer[s] - 1
      BY <2>2
    <3>3. timer[q] \in Nat /\ timer[s] \in Nat /\ MinDelay \in Nat
      BY <1>2
    <3> QED  BY <3>1, <3>2, <3>3
  <2> QED  BY <1>1, <2>1, <2>3, <2>4 DEF SpacingOk
<1>5. QueueOk(phase', waiting', active') /\ NoLostWakeup' /\ LateOk' /\ RetryOk'
  BY <1>1, InvParts DEF QueueOk, NoLostWakeup, LateOk, RetryOk
<1> QED  BY <1>1, <1>3, <1>4, <1>5, InvParts, PartsGiveInv

LEMMA InitInv == Init => Inv
<1> SUFFICES ASSUME Init PROVE Inv
  OBVIOUS
<1>1. HoldersOf(phase) = {}
  BY DEF Init, HoldersOf, Holding
<1>2. QueueOk(phase, waiting, active)
  <2>1. active = Cardinality(HoldersOf(phase)) /\ active <= MaxConcurrency
    BY <1>1, Limits, FS_EmptySet DEF Init
  <2> QED  BY <2>1 DEF Init, QueueOk, Phases
<1>3. TypeOK
  <2>1. sinceStart \in 0 .. MinDelay /\ 0 \in 0 .. MaxRetries /\ 0 \in Nat
    BY Limits DEF Init
  <2>2. waiting \in Seq(Requests)
    BY DEF Init
  <2> QED  BY <2>1, <2>2, Zenon DEF Init, TypeOK
<1>4. NoLostWakeup /\ SpacingOk(phase) /\ LateOk /\ RetryOk
  BY Limits DEF Init, NoLostWakeup, SpacingOk, LateOk, RetryOk
<1> QED  BY <1>2, <1>3, <1>4 DEF Inv

LEMMA NextInv == Inv /\ [Next]_vars => Inv'
<1> SUFFICES ASSUME Inv, [Next]_vars PROVE Inv'
  OBVIOUS
<1>1. CASE \E r \in Requests : Acquire(r)
  BY <1>1, AcquireKeepsInv
<1>2. CASE \E r \in Requests : Start(r)
  BY <1>2, StartKeepsInv
<1>3. CASE \E r \in Requests : Settle(r)
  BY <1>3, RespondsKeepsInv, RespondsRetryableKeepsInv, BodyIsCancelledKeepsInv,
     RejectsKeepsInv DEF Settle
<1>4. CASE \E r \in Requests : Wake(r)
  BY <1>4, WakeKeepsInv
<1>5. CASE Close
  BY <1>5, CloseKeepsInv
<1>6. CASE Tick
  BY <1>6, TickKeepsInv
<1>7. CASE UNCHANGED vars
  BY <1>7, InvParts, PartsGiveInv
     DEF vars, QueueOk, NoLostWakeup, SpacingOk, LateOk, RetryOk
<1> QED  BY <1>1, <1>2, <1>3, <1>4, <1>5, <1>6, <1>7 DEF Next

\* Every reachable state of the client satisfies the invariant.
THEOREM InvHolds == Spec => []Inv
BY InitInv, NextInv, PTL DEF Spec
-----------------------------------------------------------------------------
(* What follows from it. *)

\* The queue and every retry loop have their types (http-client.ts:68-76).
THEOREM TypeCorrect == Spec => []TypeOK
<1>1. Inv => TypeOK
  BY DEF Inv
<1> QED  BY <1>1, InvHolds, PTL

\* No slot leaks and none is given back twice (http-client.ts:78-113).
THEOREM SlotsAreCounted == Spec => []ActiveCountsHolders
<1>1. Inv => ActiveCountsHolders
  BY InvParts, HoldersAreHolders DEF QueueOk, ActiveCountsHolders
<1> QED  BY <1>1, InvHolds, PTL

\* At most maxConcurrency calls run, backoff waits included
\* (http-client.ts:94-101, 176-179).
THEOREM LimitIsKept == Spec => []ConcurrencyLimit
<1>1. Inv => ConcurrencyLimit
  BY InvParts, HoldersAreHolders DEF QueueOk, ConcurrencyLimit
<1> QED  BY <1>1, InvHolds, PTL

\* No call waits beside a free slot (http-client.ts:87-113).
THEOREM NoWakeupIsLost == Spec => []NoLostWakeup
<1>1. Inv => NoLostWakeup
  BY DEF Inv
<1> QED  BY <1>1, InvHolds, PTL

\* close() leaves each call one fetch at most, which its signal rejects
\* (http-client.ts:194-199, 281-286).
THEOREM CloseStopsRetries == Spec => []OneFetchAfterClose
<1>1. Inv => OneFetchAfterClose
  BY DEF Inv, LateOk, OneFetchAfterClose
<1> QED  BY <1>1, InvHolds, PTL

\* A step that ends in pump() makes no call fetch: the caller moves r to a phase
\* that is not fetching, and pump() moves a queued call to starting.
LEMMA PumpGrantsOnly ==
    ASSUME phase \in [Requests -> Phases],
           NEW r \in Requests, NEW p \in Phases \ {"fetching"}, NEW w, NEW a,
           Pump([phase EXCEPT ![r] = p], w, a)
    PROVE  \A q \in Requests : phase'[q] = "fetching" => phase[q] = "fetching"
<1> DEFINE ph == [phase EXCEPT ![r] = p]
<1>1. \A q \in Requests : ph[q] = "fetching" => phase[q] = "fetching"
  OBVIOUS
<1>2. ph \in [Requests -> Phases]
  OBVIOUS
<1>3. phase' = ph \/ phase' = [ph EXCEPT ![Head(w)] = "starting"]
  BY DEF Pump
<1> HIDE DEF ph
<1> QED  BY <1>1, <1>2, <1>3

\* Tasks start at least minDelayMs apart (http-client.ts:103-106).
THEOREM StartsAreSpaced == Spec => StartsSpaced
<1>1. ASSUME Inv, [Next]_vars, NEW r \in Requests,
             phase[r] = "starting", phase'[r] = "fetching"
      PROVE  sinceStart = MinDelay
  <2> USE InvParts
  <2>1. CASE \E q \in Requests : Acquire(q)
    <3>1. PICK q \in Requests : Acquire(q)
      BY <2>1
    <3>2. phase'[r] # "fetching"
      BY <1>1, <3>1, PumpGrantsOnly DEF Acquire, Phases
    <3> QED  BY <1>1, <3>2
  <2>2. CASE \E q \in Requests : Start(q)
    BY <1>1, <2>2, StartKeepsInv
  <2>3. CASE \E q \in Requests : Settle(q)
    <3>1. PICK q \in Requests : Settle(q)
      BY <2>3
    <3>2. CASE Release(q)
      BY <1>1, <3>2, PumpGrantsOnly DEF Release, Phases
    <3>3. CASE RespondsRetryable(q)
      BY <1>1, <3>3 DEF RespondsRetryable
    <3>4. CASE \E wait : Sleep(q, wait)
      BY <1>1, <3>4 DEF Sleep
    <3> QED  BY <3>1, <3>2, <3>3, <3>4 DEF Settle, Responds, BodyIsCancelled, Rejects
  <2>4. CASE \E q \in Requests : Wake(q)
    BY <1>1, <2>4 DEF Wake
  <2>5. CASE Close \/ Tick \/ UNCHANGED vars
    BY <1>1, <2>5 DEF Close, Tick, vars
  <2> QED  BY <1>1, <2>1, <2>2, <2>3, <2>4, <2>5 DEF Next
<1>2. Inv /\ [Next]_vars =>
        [\A r \in Requests :
           (phase[r] = "starting" /\ phase'[r] = "fetching")
             => sinceStart = MinDelay]_vars
  BY <1>1
<1> QED  BY <1>2, InvHolds, PTL DEF Spec, StartsSpaced
-----------------------------------------------------------------------------
(* The client implements the pool. *)

\* The pool's Cardinality is the library's.
LEMMA PoolCounts == Pool!Cardinality(Holders) = Cardinality(Holders)
BY DEF Pool!Cardinality, Cardinality

LEMMA AcquireEnters ==
    ASSUME Inv, NEW r \in Requests, Acquire(r)
    PROVE  Pool!Enter(r)
<1> DEFINE ph == [phase EXCEPT ![r] = "queued"]
           w  == Append(waiting, r)
<1>1. phase[r] = "idle" /\ Pump(ph, w, active)
  BY DEF Acquire
<1>2. /\ phase \in [Requests -> Phases] /\ waiting \in Seq(Requests)
      /\ MaxConcurrency \in Nat /\ active \in Nat
      /\ active = Cardinality(Holders)
  BY InvParts, Limits, HoldersAreHolders DEF QueueOk
<1>3. r \notin Pool!Known
  BY <1>1, InvParts DEF Pool!Known, Holders, Finished, QueueOk
<1>4. /\ ph \in [Requests -> Phases] /\ ph[r] = "queued"
      /\ \A q \in Requests : q # r => ph[q] = phase[q]
  BY <1>2 DEF Phases
<1>5. w # <<>>
  BY <1>2
<1> HIDE DEF ph
<1>6. CASE active < MaxConcurrency
  <2>1. waiting = <<>>
    BY <1>2, <1>6, InvParts DEF NoLostWakeup
  <2>2. w = <<r>> /\ Head(<<r>>) = r /\ Tail(<<r>>) = <<>>
    BY <2>1
  <2> HIDE DEF w
  <2>3. phase' = [ph EXCEPT ![r] = "starting"] /\ waiting' = <<>>
    BY <1>1, <1>5, <1>6, <2>2 DEF Pump, CanPump
  <2>4. /\ phase'[r] = "starting"
        /\ \A q \in Requests : q # r => phase'[q] = phase[q]
    BY <1>4, <2>3
  <2>5. Holders' = Holders \cup {r} /\ Finished' = Finished
    BY <1>1, <2>4 DEF Holders, Finished
  <2> QED  BY <1>2, <1>3, <1>6, <2>1, <2>3, <2>5, PoolCounts DEF Pool!Enter
<1>7. CASE ~(active < MaxConcurrency)
  <2>1. phase' = ph /\ waiting' = Append(waiting, r)
    BY <1>1, <1>7 DEF Pump, CanPump
  <2>2. Holders' = Holders /\ Finished' = Finished
    BY <1>1, <1>4, <2>1 DEF Holders, Finished
  <2>3. Pool!Cardinality(Holders) >= MaxConcurrency
    BY <1>2, <1>7, PoolCounts
  <2> QED  BY <1>3, <2>1, <2>2, <2>3, Zenon DEF Pool!Enter
<1> QED  BY <1>6, <1>7

LEMMA ReleaseLeaves ==
    ASSUME Inv, NEW r \in Requests, phase[r] \in Holding, Release(r)
    PROVE  Pool!Leave(r)
<1> DEFINE ph == [phase EXCEPT ![r] = "done"]
<1>1. Pump(ph, waiting, active - 1)
  BY DEF Release
<1>2. /\ r \in Holders /\ active - 1 < MaxConcurrency
      /\ phase \in [Requests -> Phases] /\ waiting \in Seq(Requests)
  BY InvParts, Limits, HoldersAreHolders DEF Holders, Holding, QueueOk
<1>3. /\ ph[r] = "done" /\ \A q \in Requests : q # r => ph[q] = phase[q]
      /\ ph \in [Requests -> Phases]
  BY <1>2 DEF Phases
<1> HIDE DEF ph
<1>4. CASE waiting = <<>>
  <2>1. phase' = ph /\ waiting' = waiting
    BY <1>1, <1>4 DEF Pump, CanPump
  <2>2. Holders' = Holders \ {r} /\ Finished' = Finished \cup {r}
    BY <1>3, <2>1 DEF Holders, Finished
  <2> QED  BY <1>2, <1>4, <2>1, <2>2 DEF Pool!Leave
<1>5. CASE waiting # <<>>
  <2> DEFINE h == Head(waiting)
  <2>1. phase' = [ph EXCEPT ![h] = "starting"] /\ waiting' = Tail(waiting)
    BY <1>1, <1>2, <1>5 DEF Pump, CanPump
  <2>2. h \in Requests /\ phase[h] = "queued" /\ h # r
    <3>1. h = waiting[1] /\ 1 \in 1 .. Len(waiting)
      BY <1>2, <1>5
    <3> QED  BY <1>2, <3>1, InvParts DEF QueueOk, Holding
  <2> HIDE DEF h
  <2>3. /\ phase'[h] = "starting" /\ phase'[r] = "done"
        /\ \A q \in Requests \ {h, r} : phase'[q] = phase[q]
    BY <1>3, <2>1, <2>2
  <2>4. Holders' = (Holders \ {r}) \cup {h} /\ Finished' = Finished \cup {r}
    BY <2>2, <2>3 DEF Holders, Finished
  <2> QED  BY <1>2, <1>5, <2>1, <2>4 DEF Pool!Leave, h
<1> QED  BY <1>4, <1>5

\* The steps that are not the pool's.
LEMMA HolderStutters ==
    ASSUME Inv, NEW r \in Requests, phase[r] \in Holding, NEW p \in Holding,
           phase' = [phase EXCEPT ![r] = p], UNCHANGED waiting
    PROVE  UNCHANGED <<Holders, waiting, Finished>>
BY InvParts DEF Holders, Finished, Holding

\* Callers of fetch() see a work-conserving first-in first-out pool, through
\* every retry, error and close (http-client.ts:78-113, 241-301).
THEOREM ClientIsAPool == Spec => ImplementsPool
<1>1. Init => Pool!PoolInit
  BY DEF Init, Pool!PoolInit, Holders, Finished
<1>2. ASSUME Inv, [Next]_vars
      PROVE  [Pool!PoolNext]_<<Holders, waiting, Finished>>
  <2>1. CASE \E r \in Requests : Acquire(r)
    BY <1>2, <2>1, AcquireEnters DEF Pool!PoolNext
  <2>2. CASE \E r \in Requests : Start(r)
    BY <1>2, <2>2, HolderStutters DEF Start, Holding
  <2>3. CASE \E r \in Requests : Settle(r)
    <3>1. PICK r \in Requests : Settle(r)
      BY <2>3
    <3>2. CASE Responds(r)
      BY <1>2, <3>2, ReleaseLeaves DEF Responds, Holding, Pool!PoolNext
    <3>3. CASE RespondsRetryable(r)
      BY <1>2, <3>3, HolderStutters DEF RespondsRetryable, Holding
    <3>4. CASE BodyIsCancelled(r)
      BY <1>2, <3>4, HolderStutters DEF BodyIsCancelled, Sleep, Holding
    <3>5. CASE Rejects(r)
      BY <1>2, <3>5, ReleaseLeaves, HolderStutters
         DEF Rejects, Sleep, Holding, Pool!PoolNext
    <3> QED  BY <3>1, <3>2, <3>3, <3>4, <3>5 DEF Settle
  <2>4. CASE \E r \in Requests : Wake(r)
    BY <1>2, <2>4, HolderStutters DEF Wake, Holding
  <2>5. CASE Close \/ Tick \/ UNCHANGED vars
    BY <2>5 DEF Close, Tick, vars, Holders, Finished
  <2> QED  BY <1>2, <2>1, <2>2, <2>3, <2>4, <2>5 DEF Next
<1>3. Inv /\ [Next]_vars => [Pool!PoolNext]_Pool!poolVars
  BY <1>2 DEF Pool!poolVars
<1> QED  BY <1>1, <1>3, InvHolds, PTL DEF Spec, ImplementsPool, Pool!PoolSpec
=============================================================================
