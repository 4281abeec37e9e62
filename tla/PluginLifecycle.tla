-------------------------- MODULE PluginLifecycle --------------------------
(***************************************************************************)
(* src/plugin/plugin.ts: start(), stop() and restarts, with whatever of a  *)
(* start or a stop may throw, next to the requests of the notes resource   *)
(* and the detail loads, which may outlive the run that issued them.       *)
(*                                                                         *)
(* A part is a source, an output handle or the monitor of one run.  It is  *)
(* live while it holds a subscription, a timer, a provider or an open      *)
(* client.  Every run builds its own status recorder, named by the run;    *)
(* recorder 0 is the empty one a teardown leaves.                          *)
(***************************************************************************)
EXTENDS PoiTypeSelection, StatusRouter, FiniteSets

CONSTANTS
    Sources,        \* input modules
    Outputs,        \* output modules
    TypesOf,        \* poiTypes of each output's contributor, {} without one
    Notes,          \* the notes-resource output
    ActiveCaptain,  \* the source whose detail loads report to the plugin status
    Configs,        \* configurations the user saves
    None,
    MaxStarts,      \* bound: starts in a behaviour
    MaxFaults       \* bound: calls that throw in a behaviour

ASSUME ModulesAreApart ==
    /\ Sources \cap Outputs = {}
    /\ Notes \in Outputs /\ ActiveCaptain \in Sources
    /\ "monitor" \notin Sources \cup Outputs
    /\ "dataDir" \notin Sources \cup Outputs
ASSUME BoundsAreNat == MaxStarts \in Nat /\ MaxFaults \in Nat
ASSUME EveryOutputHasTypes == TypesOf \in [Outputs -> SUBSET PoiTypes]

\* ActiveCaptain and the notes resource have no off switch.
ASSUME ConfigsAreResolved ==
    \A c \in Configs : /\ c.sources \subseteq Sources /\ ActiveCaptain \in c.sources
                       /\ c.outputs \subseteq Outputs /\ Notes \in c.outputs
                       /\ DOMAIN c.flags \subseteq PoiTypes

VARIABLES
    run,        \* starts so far
    runtime,    \* the plugin's runtime reference
    recorder,   \* the recorder the status router reads
    records,    \* outcomes on each recorder, as <<source, run it comes from>>
    live,       \* parts that are running
    leaked,     \* history: parts whose own stop() threw
    shown,      \* the server's plugin status line: what it says, and of which run
    pending,    \* list and detail requests in flight, by run
    faults      \* history: calls that threw

lifecycleVars == <<run, runtime, recorder, records, live, leaked, shown, pending, faults>>
vars == <<run, runtime, recorder, records, live, leaked, shown, pending, faults,
          pathAdminGated, gates, mounted>>

Runs == 1 .. MaxStarts

Runtimes == [run : Runs, sources : SUBSET Sources, outputs : SUBSET Outputs,
             enabled : SUBSET Outputs, asks : (SUBSET PoiTypes) \cup {NoTypes}]

ASSUME NoneIsNoRuntime == None \notin Runtimes

Handles(rt) == {<<rt.run, o>> : o \in rt.outputs}
Monitor(rt) == IF rt.asks = NoTypes THEN {} ELSE {<<rt.run, "monitor">>}
Owned(rt) ==
    IF rt = None THEN {}
    ELSE {<<rt.run, s>> : s \in rt.sources} \cup Handles(rt) \cup Monitor(rt)

\* What may throw in a teardown: a handle's stop() and the monitor's.  The
\* close() of this version's sources swallows its errors.
Stoppable(rt) == IF rt = None THEN {} ELSE Handles(rt) \cup Monitor(rt)

\* Mutation of Remaining: one failing stop() aborts the rest of the teardown.
RemainingAborted(throws) == IF throws = {} THEN live \ Owned(runtime) ELSE live

\* Each stop is tried whatever the others do; one that throws leaves its part.
Remaining(throws) == live \ (Owned(runtime) \ throws)

Stop(throws) ==
    /\ throws \subseteq Stoppable(runtime)
    /\ faults + Cardinality(throws) <= MaxFaults
    /\ faults' = faults + Cardinality(throws)
    /\ live' = Remaining(throws)
    /\ leaked' = leaked \cup throws
    /\ runtime' = None
    /\ recorder' = 0
    /\ UNCHANGED <<run, records, shown, pending, routerVars>>

\* Mutation of StatusAfterStart: outputs that failed to start go unreported.
StatusAfterMonitor(fails) == IF "monitor" \in fails THEN "error" ELSE "ready"

StatusAfterStart(fails) == IF fails = {} THEN "ready" ELSE "error"

\* The types the monitor asks the aggregate source for.
MonitorTypes(config, started) ==
    EnsurePoiTypes(BuildPoiTypesString(config.flags),
                   UNION {TypesOf[o] : o \in started})

(***************************************************************************)
(* start(): a teardown, a fresh recorder, the sources, the enabled outputs *)
(* whose start() does not throw, the monitor.  fails holds what throws: an *)
(* output's start, the monitor's creation, or the server's data directory, *)
(* which ends the start and which the server reports.                      *)
(***************************************************************************)
Start(config, fails, throws) ==
    LET started == config.outputs \ fails
        built == [run |-> run + 1, sources |-> config.sources, outputs |-> started,
                  enabled |-> config.outputs,
                  asks |-> IF "monitor" \in fails THEN NoTypes
                           ELSE MonitorTypes(config, started)]
    IN  /\ run < MaxStarts
        /\ fails \subseteq config.outputs \cup {"monitor", "dataDir"}
        /\ throws \subseteq Stoppable(runtime)
        /\ faults + Cardinality(fails) + Cardinality(throws) <= MaxFaults
        /\ faults' = faults + Cardinality(fails) + Cardinality(throws)
        /\ run' = run + 1
        /\ recorder' = run + 1
        /\ leaked' = leaked \cup throws
        /\ runtime' = IF "dataDir" \in fails THEN None ELSE built
        /\ live' = Remaining(throws) \cup (IF "dataDir" \in fails THEN {} ELSE Owned(built))
        /\ shown' = [says |-> StatusAfterStart(fails), by |-> run + 1]
        /\ UNCHANGED <<records, pending, routerVars>>

\* A source records on the recorder of the run that created it.
Record(s, r) == [records EXCEPT ![r] = @ \cup {<<s, r>>}]

\* The server asks the provider that the current run registered.
Request(kind) ==
    /\ runtime # None /\ Notes \in runtime.outputs
    /\ pending' = pending \cup {[kind |-> kind, run |-> runtime.run]}
    /\ UNCHANGED <<run, runtime, recorder, records, live, leaked, shown, faults, routerVars>>

\* listResources continues: a success or a failure goes to the status line,
\* whether or not its run is still the current one.
ListSettles(r, ok) ==
    /\ [kind |-> "list", run |-> r] \in pending
    /\ pending' = pending \ {[kind |-> "list", run |-> r]}
    /\ records' = Record(ActiveCaptain, r)
    /\ shown' = [says |-> IF ok THEN "found" ELSE "error", by |-> r]
    /\ UNCHANGED <<run, runtime, recorder, live, leaked, faults, routerVars>>

\* Mutation of Closed: close() does not mark the source.
NeverClosed(r) == FALSE

Closed(r) == <<r, ActiveCaptain>> \notin live

\* A detail load ends: dropped once its source is closed.
DetailSettles(r, ok) ==
    /\ [kind |-> "detail", run |-> r] \in pending
    /\ pending' = pending \ {[kind |-> "detail", run |-> r]}
    /\ records' = IF Closed(r) THEN records ELSE Record(ActiveCaptain, r)
    /\ shown' = IF Closed(r) \/ ok THEN shown ELSE [says |-> "error", by |-> r]
    /\ UNCHANGED <<run, runtime, recorder, live, leaked, faults, routerVars>>

HandOver(r, installs) ==
    /\ RegisterWithRouter(r, installs)
    /\ UNCHANGED lifecycleVars
-----------------------------------------------------------------------------
Init ==
    /\ run = 0 /\ runtime = None /\ recorder = 0
    /\ records = [r \in 0 .. MaxStarts |-> {}]
    /\ live = {} /\ leaked = {} /\ pending = {}
    /\ shown = [says |-> "nothing", by |-> 0]
    /\ faults = 0
    /\ RouterInit

Next ==
    \/ \E throws \in SUBSET Stoppable(runtime) :
         \/ Stop(throws)
         \/ \E c \in Configs :
              \E fails \in SUBSET (c.outputs \cup {"monitor", "dataDir"}) :
                Start(c, fails, throws)
    \/ \E kind \in {"list", "detail"} : Request(kind)
    \/ \E r \in Runs, ok \in BOOLEAN : ListSettles(r, ok) \/ DetailSettles(r, ok)
    \/ \E r \in Routers, installs \in BOOLEAN : HandOver(r, installs)

Spec == Init /\ [][Next]_vars
-----------------------------------------------------------------------------
(* Properties. *)

\* Runs and parts are well formed.
TypeOK ==
    /\ run \in 0 .. MaxStarts /\ recorder \in 0 .. run
    /\ runtime = None \/ runtime.run = run
    /\ Owned(runtime) \subseteq live
    /\ live \subseteq Runs \X (Sources \cup Outputs \cup {"monitor"})
    /\ leaked \subseteq live

\* A second start, a failing stop or a start that throws leaves nothing of an
\* earlier run running, except a part whose own stop() threw
\* (plugin.ts:72-115, "cannot abort the teardown and leak the remaining handles").
NothingOutlivesItsRun == live \subseteq Owned(runtime) \cup leaked

\* While the status line says "Ready" of the current run, every enabled output
\* runs, and the monitor asks for every type an output acts on, also when the
\* user selected none (plugin.ts:168-208, poi-type-selection.ts:62-87).
ReadyMeansDriven ==
    shown = [says |-> "ready", by |-> run] /\ runtime # None =>
        /\ runtime.outputs = runtime.enabled
        /\ runtime.asks # NoTypes
        /\ \A o \in runtime.outputs : TypesOf[o] \subseteq runtime.asks

\* A detail load that ends after its source was closed changes neither the
\* status line nor any recorder (active-captain-source.ts:108-158, "its outcome
\* must not touch a later run's status").
ClosedRunStaysSilent ==
    [][\A r \in Runs :
         /\ [kind |-> "detail", run |-> r] \in pending \ pending'
         /\ runtime = None \/ r # runtime.run
         => UNCHANGED <<records, shown>>]_vars

\* plugin.ts:193-195: a failure is surfaced as a plugin error "rather than
\* reporting a bland "Ready" status that would mask dead safety alarms"; so the
\* status line says error while an enabled output or the monitor is missing.
DeadAlarmStaysReported ==
    runtime # None /\ (runtime.outputs # runtime.enabled \/ runtime.asks = NoTypes)
        => shown.says = "error"
=============================================================================
