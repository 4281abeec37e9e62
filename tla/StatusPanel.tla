----------------------------- MODULE StatusPanel -----------------------------
(***************************************************************************)
(* The configuration panel's view of the sources' health: the polling hook *)
(* src/panel/hooks/use-status.ts over GET /status, and the pill each card  *)
(* shows (source-status-pill.ts).  The panel may be hidden, closed and     *)
(* opened again, requests may fail or time out, and meanwhile the sources' *)
(* rows change and a plugin restart clears them.                           *)
(***************************************************************************)
EXTENDS PluginStatus

CONSTANTS
    Unseen,         \* no snapshot yet
    MaxOutcomes,    \* bound: upstream outcomes and plugin restarts
    MaxLosses       \* bound: polls that fail

ASSUME PanelBoundsAreNat == MaxOutcomes \in Nat /\ MaxLosses \in Nat

VARIABLES
    everListed, \* sources whose lastListFetch is not null
    poll,       \* the request: "idle", "asked" or "answered"
    body,       \* what it was answered with
    shown,      \* status of useStatus
    problem,    \* its error is not null
    mounted,
    hidden,     \* document.hidden
    outcomes, losses,
    failedLast  \* history: sources whose most recent attempt in this run failed

panelVars == <<rows, recentErrors, everListed, poll, body, shown, problem, mounted,
               hidden, outcomes, losses, failedLast>>

serverVars == <<rows, recentErrors, everListed, outcomes, failedLast>>
viewVars == <<shown, problem, mounted, hidden>>
pollVars == <<poll, body, losses>>

\* snapshot, as much of it as the pills read.
Snapshot == [s \in Sources |-> [reachable |-> rows[s].reachable, listed |-> s \in everListed]]
-----------------------------------------------------------------------------
(* The plugin. *)

Attempt(s, row, failed) ==
    /\ outcomes < MaxOutcomes /\ outcomes' = outcomes + 1
    /\ rows' = [rows EXCEPT ![s] = row]
    /\ failedLast' = IF failed THEN failedLast \cup {s} ELSE failedLast \ {s}
    /\ UNCHANGED <<pollVars, viewVars>>

\* A source that is marked as just skipped is taken for having skipped again.
RecordedAnswer(row) == IF row.justSkipped THEN row ELSE ListFetched(row)

\* The list of a source comes in time.
ListFetchSucceeds(s) ==
    /\ Attempt(s, RecordedAnswer(rows[s]), FALSE)
    /\ everListed' = IF rows[s].justSkipped THEN everListed ELSE everListed \cup {s}
    /\ UNCHANGED recentErrors

\* It does not, or the source is gated and answers with nothing: no request of its has
\* succeeded or failed.
ListIsSkipped(s) ==
    /\ outcomes < MaxOutcomes /\ outcomes' = outcomes + 1
    /\ rows' = [rows EXCEPT ![s] = Skipped(@)]
    /\ UNCHANGED <<recentErrors, everListed, failedLast, pollVars, viewVars>>

DetailFetchSucceeds(s) ==
    /\ Attempt(s, DetailFetched(rows[s]), FALSE)
    /\ UNCHANGED <<everListed, recentErrors>>

FetchFails(s) ==
    /\ Attempt(s, Failed(rows[s]), TRUE)
    /\ recentErrors' = WithError(recentErrors, s)
    /\ UNCHANGED everListed

\* The plugin restarts with a recorder of its own.
PluginRestarts ==
    /\ outcomes < MaxOutcomes /\ outcomes' = outcomes + 1
    /\ rows' = NewRows /\ recentErrors' = <<>>
    /\ everListed' = {} /\ failedLast' = {}
    /\ UNCHANGED <<pollVars, viewVars>>
-----------------------------------------------------------------------------
(* The hook. *)

\* poll: nothing while one is under way.
Polled == IF poll = "idle" THEN "asked" ELSE poll

\* The interval fires and the tab is visible.
PollDue ==
    /\ mounted /\ ~hidden /\ poll = "idle"
    /\ poll' = Polled
    /\ UNCHANGED <<serverVars, viewVars, body, losses>>

\* The router answers with the snapshot of that moment.
Answers ==
    /\ poll = "asked"
    /\ poll' = "answered" /\ body' = Snapshot
    /\ UNCHANGED <<serverVars, viewVars, losses>>

\* setStatus, unless the body is what is shown already, and setError(null).
Arrives ==
    /\ poll = "answered"
    /\ poll' = "idle" /\ body' = Unseen
    /\ shown' = body /\ problem' = FALSE
    /\ UNCHANGED <<serverVars, mounted, hidden, losses>>

\* Mutation of Fails: the in-flight flag is cleared by a success only.
FailsInFlight ==
    /\ poll # "idle" /\ losses < MaxLosses
    /\ poll' = "in flight" /\ body' = Unseen
    /\ problem' = TRUE
    /\ losses' = losses + 1
    /\ UNCHANGED <<serverVars, shown, mounted, hidden>>

\* A refusal, a timeout or a body that does not parse; what is shown stays.
Fails ==
    /\ poll # "idle" /\ losses < MaxLosses
    /\ poll' = "idle" /\ body' = Unseen
    /\ problem' = TRUE
    /\ losses' = losses + 1
    /\ UNCHANGED <<serverVars, shown, mounted, hidden>>

HideTab ==
    /\ mounted /\ ~hidden
    /\ hidden' = TRUE
    /\ UNCHANGED <<serverVars, pollVars, shown, problem, mounted>>

\* visibilitychange: poll at once.
ShowTab ==
    /\ mounted /\ hidden
    /\ hidden' = FALSE
    /\ poll' = Polled
    /\ UNCHANGED <<serverVars, body, shown, problem, mounted, losses>>

\* Unmounting aborts the request; its rejection is not shown.
Unmount ==
    /\ mounted
    /\ mounted' = FALSE /\ poll' = "idle" /\ body' = Unseen
    /\ UNCHANGED <<serverVars, shown, problem, hidden, losses>>

\* A new panel polls at once, also in a hidden tab.
Mount ==
    /\ ~mounted
    /\ mounted' = TRUE /\ poll' = "asked"
    /\ shown' = Unseen /\ problem' = FALSE
    /\ UNCHANGED <<serverVars, body, hidden, losses>>
-----------------------------------------------------------------------------
(* The cards. *)

PillVariant(status) ==
    IF status.reachable = "no" THEN "error" ELSE IF ~status.listed THEN "idle" ELSE "ok"

\* useStatusBySource: a card without an entry shows no pill.
PillOf(s) == IF shown = Unseen THEN "none" ELSE PillVariant(shown[s])
-----------------------------------------------------------------------------
PanelInit ==
    /\ rows = NewRows /\ recentErrors = <<>> /\ everListed = {}
    /\ poll = "idle" /\ body = Unseen /\ shown = Unseen /\ problem = FALSE
    /\ mounted = FALSE /\ hidden = FALSE
    /\ outcomes = 0 /\ losses = 0 /\ failedLast = {}

Progress == PollDue \/ Answers \/ Arrives \/ Fails

PanelNext ==
    \/ Progress
    \/ \E s \in Sources : ListFetchSucceeds(s) \/ ListIsSkipped(s)
                        \/ DetailFetchSucceeds(s) \/ FetchFails(s)
    \/ PluginRestarts
    \/ HideTab \/ ShowTab \/ Unmount \/ Mount

\* The interval keeps firing and the browser's request times out at the latest.
PanelSpec == PanelInit /\ [][PanelNext]_panelVars /\ WF_panelVars(Progress)
-----------------------------------------------------------------------------
(* Properties. *)

\* A panel left open and visible ends up showing the sources as they are, with no
\* error of its own, an error pill on each whose most recent request failed, and none
\* on another unless it is marked as just skipped, however many polls were lost,
\* skipped while hidden or under way when the rows changed (use-status.ts:22-24,
\* 51-57; source-status-pill.ts:18-20; input-registry.ts:193-209).
PanelCatchesUp ==
    <>[](mounted /\ ~hidden) =>
        <>[](/\ shown = Snapshot /\ ~problem
             /\ \A s \in Sources :
                   /\ s \in failedLast => PillOf(s) = "error"
                   /\ PillOf(s) = "error" => s \in failedLast \/ rows[s].justSkipped)

\* As plugin-status.ts:6-8 has it, "each source's `apiReachable` is derived passively
\* from whether that source's most recent request succeeded or failed", a panel that is
\* up to date has an error pill on just those sources whose last request failed.  It
\* has not: input-registry.ts:207 records no list of a source that is marked as just
\* skipped, and a list in time does not take the mark of an earlier timeout away.
PillsAreOfTheLast ==
    mounted /\ shown = Snapshot =>
        \A s \in Sources : PillOf(s) = "error" <=> s \in failedLast
=============================================================================
