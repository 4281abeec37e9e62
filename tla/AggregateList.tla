--------------------------- MODULE AggregateList ---------------------------
(***************************************************************************)
(* The aggregate POI source of src/inputs/input-registry.ts: one list      *)
(* request fans out to every source, races each against a timeout, and     *)
(* records each source's outcome on the status.  Several requests overlap: *)
(* the position monitor's scans, and the chart plotter's through the notes *)
(* resource.  Detail requests run beside them and record outcomes too.     *)
(*                                                                         *)
(* A source covering US waters only answers [] at once, and records a skip *)
(* as it does, when the vessel is outside them (shared/us-waters.ts).      *)
(***************************************************************************)
EXTENDS PluginStatus

CONSTANTS
    Calls,          \* overlapping list requests
    UsOnly,         \* sources gated by the US-waters check
    MaxErrors       \* bound: failed requests of a behaviour

ASSUME UsOnlyAreSources == UsOnly \subseteq Sources

VARIABLES
    inUsWaters,     \* the gate's answer for the current fix
    outcome,        \* of each source in each open request
    refused,        \* requests that ended in a rejection
    failures        \* history: failed requests, to bound them

listVars == <<inUsWaters, outcome, refused, failures>>
vars == <<rows, recentErrors, inUsWaters, outcome, refused, failures>>

\* Where one source stands in one request.  A gated source has fulfilled with [].
Outcome == {"idle", "pending", "value", "gated", "error", "timeout"}

Idle(c) == \A s \in Sources : outcome[c][s] = "idle"
Settled(c) == \A s \in Sources : outcome[c][s] \notin {"idle", "pending"}

Gated == IF inUsWaters THEN {} ELSE UsOnly

\* The synchronous part: the fan-out, in which a gated source records a skip.
Open(c) ==
    /\ Idle(c)
    /\ outcome' = [outcome EXCEPT ![c] =
         [s \in Sources |-> IF s \in Gated THEN "gated" ELSE "pending"]]
    /\ rows' = [s \in Sources |->
                  IF s \in Gated THEN Skipped(rows[s]) ELSE rows[s]]
    /\ refused' = refused \ {c}
    /\ UNCHANGED <<recentErrors, inUsWaters, failures>>

SourceAnswers(c, s) ==
    /\ outcome[c][s] = "pending"
    /\ outcome' = [outcome EXCEPT ![c][s] = "value"]
    /\ UNCHANGED <<rows, recentErrors, inUsWaters, refused, failures>>

SourceFails(c, s) ==
    /\ outcome[c][s] = "pending"
    /\ failures < MaxErrors
    /\ failures' = failures + 1
    /\ outcome' = [outcome EXCEPT ![c][s] = "error"]
    /\ UNCHANGED <<rows, recentErrors, inUsWaters, refused>>

\* Mutation of Timeout: no timer; a request waits for every source.
TimeoutNever(c) == FALSE /\ UNCHANGED vars

\* The timers of one request start together, so they expire together.
Timeout(c) ==
    /\ \E s \in Sources : outcome[c][s] = "pending"
    /\ outcome' = [outcome EXCEPT ![c] =
         [s \in Sources |-> IF @[s] = "pending" THEN "timeout" ELSE @[s]]]
    /\ UNCHANGED <<rows, recentErrors, inUsWaters, refused, failures>>

\* What the aggregate records for a source: a fulfilled source counts as a
\* fetch only when its row does not say that it just skipped.
Recorded(row, o) ==
    CASE o = "timeout" -> Skipped(row)
      [] o \in {"value", "gated"} /\ row.justSkipped -> row
      [] o \in {"value", "gated"} /\ ~row.justSkipped -> ListFetched(row)
      [] o = "error" -> Failed(row)

Failing(c) == {s \in Sources : outcome[c][s] = "error"}

\* No source fulfilled and none timed out.
Rejects(c) == Failing(c) = Sources

(***************************************************************************)
(* All sources have settled: record each outcome in turn, return the union *)
(* of the lists, or reject when there is nothing to hope for.              *)
(***************************************************************************)
Close(c) ==
    /\ Settled(c)
    /\ rows' = [s \in Sources |-> Recorded(rows[s], outcome[c][s])]
    /\ recentErrors' = FoldLeft(WithError, recentErrors, SetToSeq(Failing(c)))
    /\ refused' = IF Rejects(c) THEN refused \cup {c} ELSE refused
    /\ outcome' = [outcome EXCEPT ![c] = [s \in Sources |-> "idle"]]
    /\ UNCHANGED <<inUsWaters, failures>>

\* getDetails of one source succeeded or failed.
DetailSucceeds(s) ==
    /\ rows' = [rows EXCEPT ![s] = DetailFetched(@)]
    /\ UNCHANGED <<recentErrors, inUsWaters, outcome, refused, failures>>

DetailFails(s) ==
    /\ failures < MaxErrors
    /\ rows' = [rows EXCEPT ![s] = Failed(@)]
    /\ recentErrors' = WithError(recentErrors, s)
    /\ failures' = failures + 1
    /\ UNCHANGED <<inUsWaters, outcome, refused>>

CrossBoundary ==
    /\ inUsWaters' = ~inUsWaters
    /\ UNCHANGED <<rows, recentErrors, outcome, refused, failures>>
-----------------------------------------------------------------------------
Init ==
    /\ rows = NewRows
    /\ recentErrors = <<>>
    /\ inUsWaters \in BOOLEAN
    /\ outcome = [c \in Calls |-> [s \in Sources |-> "idle"]]
    /\ refused = {}
    /\ failures = 0

Next ==
    \/ \E c \in Calls : Open(c) \/ Timeout(c) \/ Close(c)
    \/ \E c \in Calls, s \in Sources : SourceAnswers(c, s) \/ SourceFails(c, s)
    \/ \E s \in Sources : DetailSucceeds(s) \/ DetailFails(s)
    \/ CrossBoundary

Spec == Init /\ [][Next]_vars

\* The timer fires and the continuation runs.  No source is assumed to answer.
FairSpec == Spec /\ \A c \in Calls : WF_vars(Timeout(c)) /\ WF_vars(Close(c))
-----------------------------------------------------------------------------
(* Properties. *)

\* Each source's row, each request's outcomes and the bound are well formed.
TypeOK ==
    /\ StatusTypeOK
    /\ inUsWaters \in BOOLEAN
    /\ outcome \in [Calls -> [Sources -> Outcome]]
    /\ refused \subseteq Calls
    /\ failures \in 0 .. MaxErrors

\* No source can stall a chart load or a scan: every list request comes back,
\* although nothing is assumed about any source (input-registry.ts:128-175).
EveryListReturns == \A c \in Calls : ~Idle(c) ~> Idle(c)
=============================================================================
