----------------------- MODULE PluginLifecycleProofs -----------------------
(***************************************************************************)
(* The plugin's lifecycle for any sources, outputs and configurations, any *)
(* number of starts and any number of calls that throw.  A part that leaks *)
(* bears the number of a run that is over, so that no later teardown can   *)
(* touch it and no part of the current run can be taken for it.  Then the  *)
(* configuration panel: what it holds is what the plugin reads once saved. *)
(***************************************************************************)
EXTENDS PluginLifecycle, ConfigPanel, TLAPS

LeaksAreOld ==
    /\ leaked \subseteq (0 .. run) \X (Outputs \cup {"monitor"})
    /\ runtime # None => \A part \in leaked : part[1] < run

RuntimeOK == runtime # None => runtime \in Runtimes

\* The route is behind the gate, which is installed once.
Gated ==
    /\ pathAdminGated \in BOOLEAN
    /\ gates = IF pathAdminGated THEN 1 ELSE 0
    /\ mounted \in [Routers -> {0, 1}]
    /\ \A r \in Routers : mounted[r] = 1 => pathAdminGated

Inv ==
    /\ TypeOK /\ RuntimeOK /\ LeaksAreOld
    /\ NothingOutlivesItsRun
    /\ ReadyMeansDriven
-----------------------------------------------------------------------------
LEMMA StartsAreCounted == MaxStarts \in Nat
<1> QED  BY BoundsAreNat

\* What a runtime owns are parts of its own run.
LEMMA OwnedAreOfTheRun ==
    ASSUME NEW rt \in Runtimes
    PROVE  /\ Owned(rt) \subseteq {rt.run} \X (Sources \cup Outputs \cup {"monitor"})
           /\ Stoppable(rt) \subseteq {rt.run} \X (Outputs \cup {"monitor"})
           /\ Stoppable(rt) \subseteq Owned(rt)
<1>1. rt # None /\ rt.sources \subseteq Sources /\ rt.outputs \subseteq Outputs
  BY NoneIsNoRuntime DEF Runtimes
<1>2. Handles(rt) \subseteq {rt.run} \X Outputs
  BY <1>1 DEF Handles
<1>3. Monitor(rt) \subseteq {rt.run} \X {"monitor"}
  BY DEF Monitor
<1> QED  BY <1>1, <1>2, <1>3 DEF Owned, Stoppable

\* The monitor asks for a set of types that holds all an output acts on.
LEMMA MonitorAsksForAll ==
    ASSUME NEW config \in Configs, NEW started \in SUBSET Outputs
    PROVE  /\ MonitorTypes(config, started) \in SUBSET PoiTypes
           /\ MonitorTypes(config, started) # NoTypes
           /\ \A o \in started : TypesOf[o] \subseteq MonitorTypes(config, started)
<1> DEFINE required == UNION {TypesOf[o] : o \in started}
           chosen == BuildPoiTypesString(config.flags)
<1>1. required \subseteq PoiTypes /\ \A o \in started : TypesOf[o] \subseteq required
  BY EveryOutputHasTypes
<1>2. chosen = NoTypes \/ chosen \in SUBSET PoiTypes
  BY ConfigsAreResolved DEF BuildPoiTypesString, Selected
<1>3. MonitorTypes(config, started) = (IF chosen = NoTypes THEN {} ELSE chosen) \cup required
  BY DEF MonitorTypes, EnsurePoiTypes
<1> HIDE DEF required, chosen
<1>4. MonitorTypes(config, started) \in SUBSET PoiTypes
  BY <1>1, <1>2, <1>3
<1> QED  BY <1>1, <1>3, <1>4, NoTypesIsNoSet

\* A teardown leaves what had leaked before and what now throws.
LEMMA TeardownLeaves ==
    ASSUME Inv, NEW throws \in SUBSET Stoppable(runtime)
    PROVE  /\ leaked \cup throws \subseteq Remaining(throws)
           /\ Remaining(throws) \subseteq leaked \cup throws
           /\ leaked \cup throws \subseteq (0 .. run) \X (Outputs \cup {"monitor"})
<1>1. TypeOK /\ RuntimeOK /\ LeaksAreOld /\ NothingOutlivesItsRun
  BY DEF Inv
<1>2. CASE runtime = None
  BY <1>1, <1>2 DEF Stoppable, Owned, Remaining, TypeOK, LeaksAreOld, NothingOutlivesItsRun
<1>3. CASE runtime # None
  <2>1. runtime \in Runtimes /\ runtime.run = run
    BY <1>1, <1>3 DEF RuntimeOK, TypeOK
  <2>2. run \in Nat
    BY <1>1, StartsAreCounted DEF TypeOK
  <2>3. \A part \in leaked : part[1] # run
    BY <1>1, <1>3, <2>2 DEF LeaksAreOld
  <2>4. \A part \in Owned(runtime) : part[1] = run
    BY <2>1, OwnedAreOfTheRun
  <2>5. throws \subseteq Owned(runtime) /\ throws \subseteq {run} \X (Outputs \cup {"monitor"})
    BY <2>1, OwnedAreOfTheRun
  <2>6. leaked \cap Owned(runtime) = {}
    BY <2>3, <2>4
  <2>7. leaked \cup throws \subseteq (0 .. run) \X (Outputs \cup {"monitor"})
    BY <1>1, <2>2, <2>5 DEF LeaksAreOld
  <2> QED
    BY <1>1, <2>5, <2>6, <2>7 DEF TypeOK, NothingOutlivesItsRun, Remaining
<1> QED  BY <1>2, <1>3
-----------------------------------------------------------------------------
LEMMA InitKeepsInv == Init => Inv
<1> SUFFICES ASSUME Init PROVE Inv
  OBVIOUS
<1>1. /\ run = 0 /\ runtime = None /\ recorder = 0 /\ live = {} /\ leaked = {}
      /\ shown = [says |-> "nothing", by |-> 0]
  BY DEF Init
<1>2. TypeOK
  BY <1>1, StartsAreCounted DEF TypeOK, Owned
<1> QED
  BY <1>1, <1>2 DEF Inv, RuntimeOK, LeaksAreOld, NothingOutlivesItsRun, ReadyMeansDriven

LEMMA StopKeepsInv ==
    ASSUME Inv, NEW throws \in SUBSET Stoppable(runtime), Stop(throws)
    PROVE  Inv'
<1>1. /\ run' = run /\ shown' = shown /\ runtime' = None /\ recorder' = 0
      /\ live' = Remaining(throws) /\ leaked' = leaked \cup throws
  BY DEF Stop
<1>2. /\ leaked' \subseteq live' /\ live' \subseteq leaked'
      /\ leaked' \subseteq (0 .. run) \X (Outputs \cup {"monitor"})
  BY <1>1, TeardownLeaves
<1>3. TypeOK
  BY DEF Inv
<1>4. live' \subseteq live
  BY <1>1 DEF Remaining
<1>5. TypeOK'
  BY <1>1, <1>2, <1>3, <1>4, StartsAreCounted DEF TypeOK, Owned
<1>6. LeaksAreOld'
  BY <1>1, <1>2 DEF LeaksAreOld
<1>7. NothingOutlivesItsRun'
  BY <1>2 DEF NothingOutlivesItsRun
<1> QED
  BY <1>1, <1>5, <1>6, <1>7 DEF Inv, RuntimeOK, ReadyMeansDriven

LEMMA StartKeepsInv ==
    ASSUME Inv, NEW throws \in SUBSET Stoppable(runtime), NEW config \in Configs,
           NEW fails \in SUBSET (config.outputs \cup {"monitor", "dataDir"}),
           Start(config, fails, throws)
    PROVE  Inv'
<1> DEFINE started == config.outputs \ fails
           built == [run |-> run + 1, sources |-> config.sources, outputs |-> started,
                     enabled |-> config.outputs,
                     asks |-> IF "monitor" \in fails THEN NoTypes
                              ELSE MonitorTypes(config, started)]
<1>1. /\ run < MaxStarts /\ run' = run + 1 /\ recorder' = run + 1
      /\ leaked' = leaked \cup throws
      /\ runtime' = IF "dataDir" \in fails THEN None ELSE built
      /\ live' = Remaining(throws) \cup (IF "dataDir" \in fails THEN {} ELSE Owned(built))
      /\ shown' = [says |-> StatusAfterStart(fails), by |-> run + 1]
  BY DEF Start
<1>2. TypeOK
  BY DEF Inv
<1>3. run \in Nat /\ run' \in Runs /\ run' \in 0 .. MaxStarts
  BY <1>1, <1>2, StartsAreCounted DEF TypeOK, Runs
<1>4. /\ leaked' \subseteq Remaining(throws) /\ Remaining(throws) \subseteq leaked'
      /\ leaked' \subseteq (0 .. run) \X (Outputs \cup {"monitor"})
  BY <1>1, TeardownLeaves
<1>5. /\ config.sources \subseteq Sources /\ config.outputs \subseteq Outputs
      /\ started \in SUBSET Outputs
  BY ConfigsAreResolved
<1>6. /\ MonitorTypes(config, started) \in SUBSET PoiTypes
      /\ MonitorTypes(config, started) # NoTypes
      /\ \A o \in started : TypesOf[o] \subseteq MonitorTypes(config, started)
  BY <1>5, MonitorAsksForAll
<1>7. built \in Runtimes /\ built.run = run'
  BY <1>1, <1>3, <1>5, <1>6 DEF Runtimes
<1>8. /\ built.outputs = started /\ built.enabled = config.outputs
      /\ "monitor" \notin fails => built.asks = MonitorTypes(config, started)
  OBVIOUS
<1>9. started \subseteq config.outputs /\ (fails = {} => started = config.outputs)
  OBVIOUS
<1> HIDE DEF started, built
<1>10. built # None
  BY <1>7, NoneIsNoRuntime
<1>11. Owned(built) \subseteq {run'} \X (Sources \cup Outputs \cup {"monitor"})
  BY <1>7, OwnedAreOfTheRun
<1>12. /\ runtime' = None \/ runtime' = built
       /\ live' = Remaining(throws) \cup Owned(runtime')
  BY <1>1 DEF Owned
<1>13. TypeOK'
  <2>1. live' \subseteq Runs \X (Sources \cup Outputs \cup {"monitor"})
    <3>1. Remaining(throws) \subseteq Runs \X (Sources \cup Outputs \cup {"monitor"})
      BY <1>2 DEF TypeOK, Remaining
    <3>2. Owned(runtime') \subseteq Runs \X (Sources \cup Outputs \cup {"monitor"})
      BY <1>3, <1>11, <1>12 DEF Owned
    <3> QED  BY <1>12, <3>1, <3>2
  <2>2. runtime' = None \/ runtime'.run = run'
    BY <1>7, <1>12
  <2>3. Owned(runtime)' = Owned(runtime')
    BY DEF Owned, Handles, Monitor
  <2> QED  BY <1>1, <1>3, <1>4, <1>12, <2>1, <2>2, <2>3 DEF TypeOK
<1>14. RuntimeOK'
  BY <1>7, <1>12 DEF RuntimeOK, Runtimes, Runs
<1>15. LeaksAreOld'
  <2>1. \A part \in leaked' : part[1] \in 0 .. run /\ part[2] \in Outputs \cup {"monitor"}
                              /\ part = <<part[1], part[2]>>
    BY <1>4
  <2>2. \A part \in leaked' : part[1] < run' /\ part[1] \in 0 .. run'
    BY <1>1, <1>3, <2>1
  <2>3. leaked' \subseteq (0 .. run') \X (Outputs \cup {"monitor"})
    BY <2>1, <2>2
  <2> QED  BY <2>2, <2>3 DEF LeaksAreOld
<1>16. NothingOutlivesItsRun'
  <2>1. Owned(runtime)' = Owned(runtime')
    BY DEF Owned, Handles, Monitor
  <2> QED  BY <1>4, <1>12, <2>1 DEF NothingOutlivesItsRun
<1>17. ReadyMeansDriven'
  <2> SUFFICES ASSUME (shown = [says |-> "ready", by |-> run])', runtime' # None
               PROVE  /\ runtime'.outputs = runtime'.enabled
                      /\ runtime'.asks # NoTypes
                      /\ \A o \in runtime'.outputs : TypesOf[o] \subseteq runtime'.asks
    BY DEF ReadyMeansDriven
  <2>1. StatusAfterStart(fails) = "ready"
    <3>1. shown'.says = "ready"
      OBVIOUS
    <3> QED  BY <1>1, <3>1
  <2>2. fails = {}
    BY <2>1 DEF StatusAfterStart
  <2> QED  BY <1>6, <1>8, <1>9, <1>12, <2>2
<1> QED  BY <1>13, <1>14, <1>15, <1>16, <1>17 DEF Inv

\* A request, its end and a hand-over of the router leave the run as it is, and
\* never make the status line say Ready.
LEMMA OtherStepsKeepInv ==
    ASSUME Inv, UNCHANGED <<run, runtime, recorder, live, leaked>>,
           \/ shown' = shown
           \/ shown'.says \in {"error", "found"}
    PROVE  Inv'
<1>1. TypeOK' /\ RuntimeOK' /\ LeaksAreOld' /\ NothingOutlivesItsRun'
  BY DEF Inv, TypeOK, RuntimeOK, LeaksAreOld, NothingOutlivesItsRun, Owned, Handles, Monitor,
         Runtimes, Runs
<1>2. ReadyMeansDriven'
  <2>1. CASE shown' = shown
    BY <2>1 DEF Inv, ReadyMeansDriven
  <2>2. CASE shown'.says \in {"error", "found"}
    <3>1. (shown # [says |-> "ready", by |-> run])'
      BY <2>2
    <3> QED  BY <3>1 DEF ReadyMeansDriven
  <2> QED  BY <2>1, <2>2
<1> QED  BY <1>1, <1>2 DEF Inv

LEMMA NextKeepsInv == Inv /\ [Next]_vars => Inv'
<1> SUFFICES ASSUME Inv, [Next]_vars PROVE Inv'
  OBVIOUS
<1>1. ASSUME NEW throws \in SUBSET Stoppable(runtime), Stop(throws) PROVE Inv'
  BY <1>1, StopKeepsInv
<1>2. ASSUME NEW throws \in SUBSET Stoppable(runtime), NEW c \in Configs,
             NEW fails \in SUBSET (c.outputs \cup {"monitor", "dataDir"}), Start(c, fails, throws)
      PROVE Inv'
  BY <1>2, StartKeepsInv
<1>3. ASSUME NEW kind \in {"list", "detail"}, Request(kind) PROVE Inv'
  BY <1>3, OtherStepsKeepInv DEF Request
<1>4. ASSUME NEW r \in Runs, NEW ok \in BOOLEAN, ListSettles(r, ok) PROVE Inv'
  <2>1. shown'.says \in {"error", "found"}
    BY <1>4 DEF ListSettles
  <2> QED  BY <1>4, <2>1, OtherStepsKeepInv DEF ListSettles
<1>5. ASSUME NEW r \in Runs, NEW ok \in BOOLEAN, DetailSettles(r, ok) PROVE Inv'
  <2>1. shown' = shown \/ shown'.says \in {"error", "found"}
    BY <1>5 DEF DetailSettles
  <2> QED  BY <1>5, <2>1, OtherStepsKeepInv DEF DetailSettles
<1>6. ASSUME NEW r \in Routers, NEW installs \in BOOLEAN, HandOver(r, installs) PROVE Inv'
  BY <1>6, OtherStepsKeepInv DEF HandOver, lifecycleVars
<1>7. CASE UNCHANGED vars
  BY <1>7, OtherStepsKeepInv DEF vars
<1> QED  BY <1>1, <1>2, <1>3, <1>4, <1>5, <1>6, <1>7 DEF Next

LEMMA Invariance == Spec => []Inv
<1> QED  BY InitKeepsInv, NextKeepsInv, PTL DEF Spec
-----------------------------------------------------------------------------
\* Runs and parts are well formed (plugin.ts start and teardown).
THEOREM TypeCorrect == Spec => []TypeOK
<1>1. Inv => TypeOK
  BY DEF Inv
<1> QED  BY <1>1, Invariance, PTL

\* A second start, a failing stop or a start that throws leaves nothing of an
\* earlier run running, except a part whose own stop() threw (plugin.ts:72-115).
THEOREM NothingOutlives == Spec => []NothingOutlivesItsRun
<1>1. Inv => NothingOutlivesItsRun
  BY DEF Inv
<1> QED  BY <1>1, Invariance, PTL

\* While the status line says Ready of the current run, its outputs all run and
\* the monitor asks for every type they act on (plugin.ts:168-208).
THEOREM ReadyIsDriven == Spec => []ReadyMeansDriven
<1>1. Inv => ReadyMeansDriven
  BY DEF Inv
<1> QED  BY <1>1, Invariance, PTL

\* The source of an earlier run is closed: it is not live.
LEMMA EarlierRunsAreClosed ==
    ASSUME Inv, NEW r \in Runs, runtime = None \/ r # runtime.run
    PROVE  Closed(r)
<1>1. TypeOK /\ RuntimeOK /\ LeaksAreOld /\ NothingOutlivesItsRun
  BY DEF Inv
<1>2. ActiveCaptain \notin Outputs \cup {"monitor"}
  BY ModulesAreApart
<1>3. <<r, ActiveCaptain>> \notin leaked
  BY <1>1, <1>2 DEF LeaksAreOld
<1>4. <<r, ActiveCaptain>> \notin Owned(runtime)
  <2>1. CASE runtime = None
    BY <2>1 DEF Owned
  <2>2. CASE runtime # None
    BY <1>1, <2>2, OwnedAreOfTheRun DEF RuntimeOK
  <2> QED  BY <2>1, <2>2
<1> QED  BY <1>1, <1>3, <1>4 DEF NothingOutlivesItsRun, Closed

\* A detail load that ends after its source was closed changes neither the
\* status line nor any recorder (active-captain-source.ts:108-158).
THEOREM ClosedRunIsSilent == Spec => ClosedRunStaysSilent
<1> DEFINE Silence ==
      \A r \in Runs :
         /\ [kind |-> "detail", run |-> r] \in pending \ pending'
         /\ runtime = None \/ r # runtime.run
         => UNCHANGED <<records, shown>>
<1>1. Inv /\ [Next]_vars => [Silence]_vars
  <2> SUFFICES ASSUME Inv, Next, NEW r \in Runs,
                      [kind |-> "detail", run |-> r] \in pending,
                      [kind |-> "detail", run |-> r] \notin pending',
                      runtime = None \/ r # runtime.run
               PROVE  UNCHANGED <<records, shown>>
    OBVIOUS
  <2>1. Closed(r)
    BY EarlierRunsAreClosed
  <2>2. \E ok \in BOOLEAN : DetailSettles(r, ok)
    <3>1. ASSUME NEW q \in Runs, NEW ok \in BOOLEAN, ListSettles(q, ok) PROVE FALSE
      BY <3>1 DEF ListSettles
    <3>2. ASSUME NEW q \in Runs, NEW ok \in BOOLEAN, DetailSettles(q, ok), q # r PROVE FALSE
      <4>1. [kind |-> "detail", run |-> q] # [kind |-> "detail", run |-> r]
        BY <3>2
      <4> QED  BY <3>2, <4>1 DEF DetailSettles
    <3>3. ASSUME NEW kind \in {"list", "detail"}, Request(kind) PROVE FALSE
      BY <3>3 DEF Request
    <3>4. ASSUME UNCHANGED pending PROVE FALSE
      BY <3>4
    <3> QED
      BY <3>1, <3>2, <3>3, <3>4 DEF Next, Stop, Start, HandOver, lifecycleVars
  <2> QED  BY <2>1, <2>2 DEF DetailSettles
<1> QED  BY <1>1, Invariance, PTL DEF Spec, ClosedRunStaysSilent
-----------------------------------------------------------------------------
\* Nobody reaches the status without the admin gate, and neither gates nor
\* handlers pile up over any number of hand-overs, some of which fail to install
\* the gate (status-router.ts:37-84).
THEOREM StatusIsGated == Spec => []StatusIsGatedOnce
<1>1. Init => Gated
  <2> SUFFICES ASSUME RouterInit PROVE Gated
    BY DEF Init
  <2>1. ~pathAdminGated /\ pathAdminGated \in BOOLEAN
    BY DEF RouterInit
  <2>2. gates = 0 /\ mounted \in [Routers -> {0, 1}] /\ \A r \in Routers : mounted[r] # 1
    BY DEF RouterInit
  <2> QED  BY <2>1, <2>2 DEF Gated
<1>2. Gated /\ [Next]_vars => Gated'
  <2> SUFFICES ASSUME Gated, [Next]_vars PROVE Gated'
    OBVIOUS
  <2>1. ASSUME NEW r \in Routers, NEW installs \in BOOLEAN, HandOver(r, installs) PROVE Gated'
    <3>1. /\ pathAdminGated' = (pathAdminGated \/ installs)
          /\ gates' = IF ~pathAdminGated /\ installs THEN gates + 1 ELSE gates
          /\ mounted' = IF pathAdminGated' /\ mounted[r] = 0
                        THEN [mounted EXCEPT ![r] = @ + 1] ELSE mounted
      BY <2>1 DEF HandOver, RegisterWithRouter
    <3>2. /\ pathAdminGated \in BOOLEAN /\ gates = IF pathAdminGated THEN 1 ELSE 0
          /\ mounted \in [Routers -> {0, 1}]
          /\ \A q \in Routers : mounted[q] = 1 => pathAdminGated
      BY DEF Gated
    <3>3. pathAdminGated' \in BOOLEAN /\ gates' = IF pathAdminGated' THEN 1 ELSE 0
      BY <3>1, <3>2
    <3>4. mounted' \in [Routers -> {0, 1}] /\ \A q \in Routers : mounted'[q] = 1 => pathAdminGated'
      BY <3>1, <3>2
    <3> QED  BY <3>3, <3>4 DEF Gated
  <2>2. ASSUME UNCHANGED routerVars PROVE Gated'
    BY <2>2 DEF routerVars, Gated
  <2> QED
    BY <2>1, <2>2 DEF Next, Stop, Start, Request, ListSettles, DetailSettles, vars, routerVars
<1>3. Gated => StatusIsGatedOnce
  BY DEF Gated, StatusIsGatedOnce
<1> QED  BY <1>1, <1>2, <1>3, PTL DEF Spec
-----------------------------------------------------------------------------
(* The configuration panel, for any keys, stored values, texts and edits. *)

ExactForms == {"positive", "clamped", "atLeastZero", "optIn", "optOut", "text", "choice", "groups"}

LEMMA WholeIsWhole ==
    ASSUME NEW n \in Int
    PROVE  Whole(n) \in Int /\ Whole(Whole(n)) = Whole(n) /\ Whole(n) <= n /\ n <= Whole(n) + 1
BY DEF Whole

\* Truncating a number that has an even bound below it stays above that bound.
LEMMA WholeStaysAbove ==
    ASSUME NEW n \in Int, NEW low \in Int, Whole(low) = low, low <= n
    PROVE  low <= Whole(n)
BY DEF Whole

\* A clamped number is one that clamping leaves alone.
LEMMA ClampIsIdempotent ==
    ASSUME NEW f \in Fields, Forms[f].form \in NumberForms, NEW raw \in Int \cup {Absent, Junk}
    PROVE  /\ ClampNumber(raw, Forms[f]) \in Int
           /\ ClampNumber(ClampNumber(raw, Forms[f]), Forms[f]) = ClampNumber(raw, Forms[f])
<1> DEFINE form == Forms[f]
           InBounds(n) == form.min <= n /\ n <= form.max /\ (form.truncate => Whole(n) = n)
           value == IF raw < form.min THEN form.min ELSE IF raw > form.max THEN form.max ELSE raw
<1>1. /\ form.default \in Int /\ form.min \in Int /\ form.max \in Int
      /\ form.min <= form.default /\ form.default <= form.max
      /\ form.truncate => Whole(form.min) = form.min /\ Whole(form.default) = form.default
  BY FormsAreSound
<1>2. \A n \in Int : Usable(n)
  BY MarksAreNoValues DEF Usable
<1> HIDE DEF form
<1>3. ASSUME NEW n \in Int, InBounds(n) PROVE ClampNumber(n, form) = n
  BY <1>1, <1>2, <1>3 DEF ClampNumber
<1>4. ClampNumber(raw, form) \in Int /\ InBounds(ClampNumber(raw, form))
  <2>1. CASE ~Usable(raw)
    <3>1. ClampNumber(raw, form) = form.default
      BY <2>1 DEF ClampNumber
    <3> QED  BY <1>1, <3>1
  <2>2. CASE Usable(raw)
    <3>1. raw \in Int
      BY <2>2 DEF Usable
    <3>2. value \in Int /\ form.min <= value /\ value <= form.max
      BY <1>1, <3>1
    <3>3. ClampNumber(raw, form) = IF form.truncate THEN Whole(value) ELSE value
      BY <2>2 DEF ClampNumber
    <3> HIDE DEF value
    <3>4. CASE form.truncate
      <4>1. ClampNumber(raw, form) = Whole(value)
        BY <3>3, <3>4
      <4>2. /\ Whole(value) \in Int /\ Whole(value) <= form.max
            /\ Whole(Whole(value)) = Whole(value)
        BY <1>1, <3>2, WholeIsWhole
      <4>3. form.min <= Whole(value)
        BY <1>1, <3>2, <3>4, WholeStaysAbove
      <4> QED  BY <4>1, <4>2, <4>3
    <3>5. CASE ~form.truncate
      BY <3>2, <3>3, <3>5
    <3> QED  BY <3>4, <3>5
  <2> QED  BY <2>1, <2>2
<1>5. ClampNumber(ClampNumber(raw, form), form) = ClampNumber(raw, form)
  BY <1>3, <1>4
<1> QED  BY <1>4, <1>5 DEF form

\* What the panel shows of a stored value is read as the value itself is, key by
\* key: for all forms but the refresh period and the POI types.
LEMMA ShownIsReadAlike ==
    ASSUME NEW f \in Fields, Forms[f].form \in ExactForms, NEW raw,
           \/ raw \in {Absent, Junk}
           \/ /\ Forms[f].form \in NumberForms => raw \in Int
              /\ Forms[f].form \in {"optIn", "optOut", "poiType"} => raw \in BOOLEAN
    PROVE  ResolveField(Forms[f], NormalizeField(Forms[f], raw)) = ResolveField(Forms[f], raw)
<1> DEFINE form == Forms[f]
<1>1. CASE form.form = "positive"
  <2>1. /\ \A v : NormalizeField(form, v) = PositiveFiniteNumber(v, form.default)
        /\ \A v : ResolveField(form, v) = PositiveFiniteNumber(v, form.default)
    BY <1>1 DEF NormalizeField, ResolveField
  <2>2. PositiveFiniteNumber(PositiveFiniteNumber(raw, form.default), form.default)
          = PositiveFiniteNumber(raw, form.default)
    <3> HIDE DEF form
    <3> QED  BY DEF PositiveFiniteNumber
  <2> QED  BY <2>1, <2>2
<1>2. CASE form.form = "clamped"
  <2>1. /\ \A v : NormalizeField(form, v) = ClampNumber(v, form)
        /\ \A v : ResolveField(form, v) = ClampNumber(v, form)
    BY <1>2 DEF NormalizeField, ResolveField
  <2>2. form.form \in NumberForms /\ raw \in Int \cup {Absent, Junk}
    BY <1>2 DEF NumberForms
  <2> QED  BY <2>1, <2>2, ClampIsIdempotent
<1>3. CASE form.form = "atLeastZero"
  <2>1. /\ NormalizeField(form, raw) = IF ~Usable(raw) THEN 0 ELSE IF raw >= 0 THEN raw ELSE 0
        /\ \A v : ResolveField(form, v) = PositiveFiniteNumber(v, 0)
    BY <1>3 DEF NormalizeField, ResolveField, ResolveAirDraft
  <2>2. Usable(raw) => raw \in Int
    BY <1>3 DEF Usable, NumberForms
  <2>3. Usable(0)
    BY MarksAreNoValues DEF Usable
  <2> HIDE DEF form
  <2> QED  BY <2>1, <2>2, <2>3 DEF PositiveFiniteNumber, form
<1>4. CASE form.form = "optIn"
  <2>1. NormalizeField(form, raw) = OptIn(raw) /\ \A v : ResolveField(form, v) = OptIn(v)
    BY <1>4 DEF NormalizeField, ResolveField
  <2>2. OptIn(raw) \in BOOLEAN /\ \A b \in BOOLEAN : OptIn(b) = b
    BY MarksAreNoValues DEF OptIn
  <2> QED  BY <2>1, <2>2
<1>5. CASE form.form = "optOut"
  <2>1. NormalizeField(form, raw) = OptOut(raw) /\ \A v : ResolveField(form, v) = IsLeftOn(v)
    BY <1>5 DEF NormalizeField, ResolveField
  <2>2. raw \in {Absent, Junk} \cup BOOLEAN
    BY <1>5
  <2>3. \A b \in BOOLEAN : IsLeftOn(b) = b
    BY DEF IsLeftOn
  <2>4. CASE raw = FALSE
    <3>1. raw \notin {Absent, Junk, TRUE}
      BY <2>4, MarksAreNoValues
    <3>2. OptOut(raw) \in BOOLEAN
      BY <3>1 DEF OptOut
    <3>3. ~OptOut(raw)
      BY <3>1 DEF OptOut
    <3>4. OptOut(raw) = FALSE
      BY <3>2, <3>3
    <3> QED  BY <2>1, <2>3, <2>4, <3>4
  <2>5. CASE raw # FALSE
    <3>1. raw \in {Absent, Junk, TRUE}
      BY <2>2, <2>5
    <3>2. OptOut(raw) = TRUE /\ IsLeftOn(raw) = TRUE
      BY <2>5, <3>1 DEF OptOut, IsLeftOn
    <3> QED  BY <2>1, <2>3, <3>2
  <2> QED  BY <2>4, <2>5
<1>6. CASE form.form = "text"
  <2>1. /\ NormalizeField(form, raw) = IF ~Usable(raw) THEN form.default
                                       ELSE IF Trim(raw) # "" THEN raw ELSE form.default
        /\ \A v : ResolveField(form, v) = ResolveEndpoint(form, v)
    BY <1>6 DEF NormalizeField, ResolveField
  <2>2. Trim(form.default) = form.default
    BY <1>6, FormsAreSound DEF Trim
  <2> HIDE DEF form
  <2> QED  BY <2>1, <2>2 DEF ResolveEndpoint, form
<1>7. CASE form.form = "choice"
  <2>1. /\ NormalizeField(form, raw) = IF ~Usable(raw) THEN form.default
                                       ELSE IF raw \in form.known THEN raw ELSE form.default
        /\ \A v : ResolveField(form, v) = ResolveBand(form, v)
    BY <1>7 DEF NormalizeField, ResolveField
  <2> HIDE DEF form
  <2> QED  BY <2>1 DEF ResolveBand, form
<1>8. CASE form.form = "groups"
  <2>1. /\ NormalizeField(form, raw) = IF ~Usable(raw) THEN form.known ELSE raw \cap form.known
        /\ \A v : ResolveField(form, v) = ResolveSeamarkGroups(form, v)
    BY <1>8 DEF NormalizeField, ResolveField
  <2>2. \A groups \in SUBSET form.known : Usable(groups)
    BY <1>8, MarksAreNoValues DEF Usable
  <2> HIDE DEF form
  <2>3. ResolveSeamarkGroups(form, form.known) = form.known
    BY <2>2 DEF ResolveSeamarkGroups
  <2>4. ResolveSeamarkGroups(form, raw \cap form.known) = raw \cap form.known
    BY <2>2 DEF ResolveSeamarkGroups
  <2> QED  BY <2>1, <2>3, <2>4 DEF ResolveSeamarkGroups, form
<1> QED
  BY <1>1, <1>2, <1>3, <1>4, <1>5, <1>6, <1>7, <1>8 DEF ExactForms
-----------------------------------------------------------------------------
(* A clean panel. *)

\* Identities are handed out once: equal ones belong to equal states.  What was
\* saved last, or what the panel mounted on, is what the plugin runs with.
IdentityInv ==
    /\ edits \in Nat
    /\ working.id \in 0 .. edits /\ snapshot.id \in 0 .. edits
    /\ working.id = snapshot.id => working.config = snapshot.config
    /\ stored => running = snapshot.config
    /\ ~stored => running \in Raws /\ snapshot.config = NormalizeConfig(running)

LEMMA InitHasIdentity == PanelInit => IdentityInv
BY DEF PanelInit, IdentityInv

LEMMA EditKeepsIdentity ==
    ASSUME IdentityInv, NEW config, NEW drafts, NEW tags, Dispatch(Stamped(config), drafts, tags)
    PROVE  IdentityInv'
<1>1. /\ edits' = IF Stamped(config) = working THEN edits ELSE edits + 1
      /\ working' = Stamped(config)
      /\ UNCHANGED <<running, snapshot, stored>>
  BY DEF Dispatch, Render
<1>2. CASE config = working.config
  <2>1. working' = working /\ edits' = edits
    BY <1>1, <1>2 DEF Stamped
  <2> QED  BY <1>1, <2>1 DEF IdentityInv
<1>3. CASE config # working.config
  <2>1. working' = [config |-> config, id |-> edits + 1] /\ working'.config # working.config
    BY <1>1, <1>3 DEF Stamped
  <2>2. edits' = edits + 1
    BY <1>1, <2>1
  <2>3. edits' \in Nat /\ working'.id \in 0 .. edits' /\ snapshot'.id \in 0 .. edits'
        /\ working'.id # snapshot'.id
    BY <1>1, <2>1, <2>2 DEF IdentityInv
  <2> QED  BY <1>1, <2>3 DEF IdentityInv
<1> QED  BY <1>2, <1>3

\* The steps of the panel: one state rendered by an event, or one of three others.
LEMMA PanelSteps ==
    ASSUME [PanelNext]_panelVars
    PROVE  \/ \E config, drafts, tags : Dispatch(Stamped(config), drafts, tags)
           \/ \E f \in NumberFields : Blur(f)
           \/ Save \/ Discard
           \/ UNCHANGED panelVars
<1>1. ASSUME NEW f, NEW value, Set(f, value)
      PROVE  \E config, drafts, tags : Dispatch(Stamped(config), drafts, tags)
  BY <1>1 DEF Set, Edit
<1>2. ASSUME NEW enabled \in BOOLEAN, SetAllPoiTypes(enabled)
      PROVE  \E config, drafts, tags : Dispatch(Stamped(config), drafts, tags)
  BY <1>2 DEF SetAllPoiTypes, WithAllPoiTypes, Edit
<1>3. ASSUME NEW f \in NumberFields, NEW text, Type(f, text)
      PROVE  \E config, drafts, tags : Dispatch(Stamped(config), drafts, tags)
  BY <1>3 DEF Type
<1> QED  BY <1>1, <1>2, <1>3 DEF PanelNext

LEMMA StepKeepsIdentity == IdentityInv /\ [PanelNext]_panelVars => IdentityInv'
<1> SUFFICES ASSUME IdentityInv, [PanelNext]_panelVars PROVE IdentityInv'
  OBVIOUS
<1>1. ASSUME NEW config, NEW drafts, NEW tags, Dispatch(Stamped(config), drafts, tags)
      PROVE  IdentityInv'
  BY <1>1, EditKeepsIdentity
<1>2. ASSUME NEW f \in NumberFields, Blur(f) PROVE IdentityInv'
  BY <1>2 DEF Blur, IdentityInv
<1>3. CASE Save
  BY <1>3 DEF Save, IdentityInv
<1>4. CASE Discard
  BY <1>4 DEF Discard, Render, IdentityInv
<1>5. CASE UNCHANGED panelVars
  BY <1>5 DEF panelVars, IdentityInv
<1> QED  BY <1>1, <1>2, <1>3, <1>4, <1>5, PanelSteps

LEMMA CleanPanelAgrees ==
    ASSUME IdentityInv PROVE CleanPanelShowsWhatRuns
<1> SUFFICES ASSUME ~Dirty, NEW f \in Fields,
                    stored \/ Forms[f].form \notin {"refresh", "poiType"}
             PROVE  Agrees(f)
  BY DEF CleanPanelShowsWhatRuns
<1>1. working.config = snapshot.config
  BY DEF Dirty, IdentityInv
<1>2. CASE stored
  <2>1. running = working.config
    BY <1>1, <1>2 DEF IdentityInv
  <2> QED  BY <2>1 DEF Agrees
<1>3. CASE ~stored
  <2>1. running \in Raws /\ working.config = NormalizeConfig(running)
    BY <1>1, <1>3 DEF IdentityInv
  <2>2. Forms[f].form \in ExactForms /\ f \notin PoiFlags
    BY <1>3, FormsAreSound DEF ExactForms, NumberForms, PoiFlags
  <2>3. working.config[f] = NormalizeField(Forms[f], running[f])
    BY <2>1 DEF NormalizeConfig
  <2>4. \/ running[f] \in {Absent, Junk}
        \/ /\ Forms[f].form \in NumberForms => running[f] \in Int
           /\ Forms[f].form \in {"optIn", "optOut", "poiType"} => running[f] \in BOOLEAN
    BY <2>1, RawsAreTyped
  <2>5. ResolveField(Forms[f], working.config[f]) = ResolveField(Forms[f], running[f])
    BY <2>2, <2>3, <2>4, ShownIsReadAlike
  <2> QED  BY <2>2, <2>5 DEF Agrees
<1> QED  BY <1>2, <1>3

\* A panel without unsaved changes shows what the plugin runs with, for every
\* stored configuration and after any edits, saves and discards; until the first
\* save, up to the keys that the panel and the plugin read apart.
THEOREM CleanPanelIsTrue == PanelSpec => []CleanPanelShowsWhatRuns
<1>1. PanelSpec => []IdentityInv
  BY InitHasIdentity, StepKeepsIdentity, PTL DEF PanelSpec
<1> QED  BY <1>1, CleanPanelAgrees, PTL
-----------------------------------------------------------------------------
(* The text of number fields. *)

IsState(state) ==
    DOMAIN state.config = Fields /\ \A f \in NumberFields : state.config[f] \in Int

\* A draft shows the value of its field; a tag that is left names that value.
DraftInv ==
    /\ DOMAIN draft = NumberFields /\ DOMAIN tag = NumberFields
    /\ IsState(working) /\ IsState(snapshot)
    /\ ShownTextIsTheValue
    /\ \A f \in NumberFields : draft[f] # Unset => tag[f] \in {Unset, working.config[f]}

LEMMA NumbersStayNumbers ==
    ASSUME NEW f \in NumberFields
    PROVE  /\ f \in Fields
           /\ \A raw \in Raws : NormalizeField(Forms[f], raw[f]) \in Int
           /\ \A text \in Texts : CommitNumberDraft(Forms[f], text) \in Int
<1> DEFINE form == Forms[f]
<1>1. f \in Fields /\ form.form \in NumberForms
  BY DEF NumberFields
<1>2. /\ form.default \in Int /\ form.fallback \in Int /\ form.min \in Int /\ form.max \in Int
  BY <1>1, FormsAreSound
<1>3. ASSUME NEW raw \in Raws PROVE NormalizeField(form, raw[f]) \in Int
  <2>1. raw[f] \in Int \cup {Absent, Junk}
    BY <1>1, RawsAreTyped
  <2>2. Usable(raw[f]) => raw[f] \in Int
    BY <2>1 DEF Usable
  <2>3. CASE form.form = "positive"
    BY <1>2, <2>2, <2>3 DEF NormalizeField, PositiveFiniteNumber
  <2>4. CASE form.form = "clamped"
    BY <1>1, <2>1, <2>4, ClampIsIdempotent DEF NormalizeField
  <2>5. CASE form.form = "atLeastZero"
    BY <2>2, <2>5 DEF NormalizeField
  <2>6. CASE form.form = "refresh"
    BY <1>2, <2>2, <2>6 DEF NormalizeField
  <2> QED  BY <1>1, <2>3, <2>4, <2>5, <2>6 DEF NumberForms
<1>4. ASSUME NEW text \in Texts PROVE CommitNumberDraft(form, text) \in Int
  <2>1. CASE text = Blank
    BY <1>2, <2>1 DEF CommitNumberDraft
  <2>2. CASE text # Blank
    <3>1. text \in Int /\ Whole(text) \in Int
      BY <2>2, NumbersAreTyped, WholeIsWhole
    <3> HIDE DEF form
    <3> QED  BY <1>2, <2>2, <3>1 DEF CommitNumberDraft
  <2> QED  BY <2>1, <2>2
<1> QED  BY <1>1, <1>3, <1>4

\* What an event leaves of drafts and tags before the panel renders the next state:
\* a field is as it was, or it has just been typed into.
IsUpdate(next, drafts, tags) ==
    \A f \in NumberFields :
        \/ drafts[f] = draft[f] /\ tags[f] = tag[f]
        \/ /\ CommitNumberDraft(Forms[f], drafts[f]) = next.config[f]
           /\ tags[f] = next.config[f]

LEMMA RenderKeepsDrafts ==
    ASSUME DraftInv, NEW next, NEW drafts, NEW tags, Render(next, drafts, tags),
           IsState(next), snapshot' = snapshot, IsUpdate(next, drafts, tags)
    PROVE  DraftInv'
<1>1. /\ working' = next
      /\ draft' = DraftsAfter(drafts, tags, next) /\ tag' = TagsAfter(tags, next)
  BY DEF Render
<1>2. IsState(working') /\ IsState(snapshot')
  BY <1>1 DEF DraftInv, IsState
<1>3. ASSUME NEW f \in NumberFields, draft'[f] # Unset
      PROVE  /\ CommitNumberDraft(Forms[f], draft'[f]) = next.config[f]
             /\ tag'[f] \in {Unset, next.config[f]}
  <2> DEFINE changed == next.config[f] # working.config[f]
  <2>1. /\ draft'[f] = IF changed /\ tags[f] # next.config[f] THEN Unset ELSE drafts[f]
        /\ tag'[f] = IF changed /\ tags[f] = next.config[f] THEN Unset ELSE tags[f]
    BY <1>1 DEF DraftsAfter, TagsAfter
  <2>2. next.config[f] \in Int /\ next.config[f] # Unset
    BY MarksAreNoValues DEF IsState
  <2>3. CASE drafts[f] = draft[f] /\ tags[f] = tag[f]
    <3>1. draft'[f] = draft[f] /\ draft[f] # Unset
      BY <1>3, <2>1, <2>3
    <3>2. /\ tag[f] \in {Unset, working.config[f]}
          /\ CommitNumberDraft(Forms[f], draft[f]) = working.config[f]
      BY <3>1 DEF DraftInv, ShownTextIsTheValue
    <3>3. ~changed
      BY <1>3, <2>1, <2>2, <2>3, <3>2
    <3> QED  BY <2>1, <2>3, <3>1, <3>2, <3>3
  <2>4. CASE CommitNumberDraft(Forms[f], drafts[f]) = next.config[f] /\ tags[f] = next.config[f]
    BY <2>1, <2>4
  <2> QED  BY <2>3, <2>4 DEF IsUpdate
<1>4. DOMAIN draft' = NumberFields /\ DOMAIN tag' = NumberFields
  BY <1>1 DEF DraftsAfter, TagsAfter
<1> QED  BY <1>1, <1>2, <1>3, <1>4 DEF DraftInv, IsState, ShownTextIsTheValue

LEMMA EditKeepsDrafts ==
    ASSUME DraftInv, NEW config, Edit(Stamped(config)), DOMAIN config = Fields,
           \A f \in NumberFields : config[f] = working.config[f]
    PROVE  DraftInv'
<1>1. Render(Stamped(config), draft, tag) /\ snapshot' = snapshot
  BY DEF Edit, Dispatch
<1>2. Stamped(config).config = config
  BY DEF Stamped
<1>3. IsState(Stamped(config))
  BY <1>2 DEF IsState, DraftInv
<1>4. IsUpdate(Stamped(config), draft, tag)
  BY DEF IsUpdate
<1> QED  BY <1>1, <1>3, <1>4, RenderKeepsDrafts

LEMMA StepKeepsDrafts == DraftInv /\ [PanelNext]_panelVars => DraftInv'
<1> SUFFICES ASSUME DraftInv, [PanelNext]_panelVars PROVE DraftInv'
  OBVIOUS
<1>0. DOMAIN working.config = Fields
  BY DEF DraftInv, IsState
<1>1. ASSUME NEW f \in DOMAIN Edits, NEW value \in Edits[f], Set(f, value) PROVE DraftInv'
  <2> DEFINE config == [working.config EXCEPT ![f] = value]
  <2>1. Edit(Stamped(config))
    BY <1>1 DEF Set
  <2>2. \A g \in NumberFields : g # f
    BY NumbersAreTyped
  <2>3. DOMAIN config = Fields /\ \A g \in NumberFields : config[g] = working.config[g]
    BY <1>0, <2>2 DEF NumberFields
  <2> HIDE DEF config
  <2> QED  BY <2>1, <2>3, EditKeepsDrafts
<1>2. ASSUME NEW enabled \in BOOLEAN, SetAllPoiTypes(enabled) PROVE DraftInv'
  <2> DEFINE config == [f \in Fields |-> IF f \in PoiFlags THEN enabled ELSE working.config[f]]
  <2>1. Edit(Stamped(config))
    BY <1>2 DEF SetAllPoiTypes, WithAllPoiTypes
  <2>2. DOMAIN config = Fields /\ \A g \in NumberFields : config[g] = working.config[g]
    BY DEF NumberFields, PoiFlags, NumberForms
  <2> HIDE DEF config
  <2> QED  BY <2>1, <2>2, EditKeepsDrafts
<1>3. ASSUME NEW f \in NumberFields, NEW text \in Texts, Type(f, text) PROVE DraftInv'
  <2> DEFINE value == CommitNumberDraft(Forms[f], text)
             config == [working.config EXCEPT ![f] = value]
             next == Stamped(config)
             drafts == [draft EXCEPT ![f] = text]
             tags == [tag EXCEPT ![f] = value]
  <2>1. Render(next, drafts, tags) /\ snapshot' = snapshot
    BY <1>3 DEF Type, Dispatch
  <2>2. value \in Int /\ f \in Fields
    BY NumbersStayNumbers
  <2>3. DOMAIN draft = NumberFields /\ DOMAIN tag = NumberFields
    BY DEF DraftInv
  <2> HIDE DEF value
  <2>4. /\ DOMAIN config = Fields /\ config[f] = value
        /\ \A g \in NumberFields : g # f => config[g] = working.config[g]
    BY <1>0, <2>2
  <2>5. next.config = config
    BY DEF Stamped
  <2>6. /\ drafts[f] = text /\ tags[f] = value
        /\ \A g \in NumberFields : g # f => drafts[g] = draft[g] /\ tags[g] = tag[g]
    BY <2>3
  <2> HIDE DEF config, next, drafts, tags
  <2>7. IsState(next)
    BY <2>2, <2>4, <2>5 DEF IsState, DraftInv
  <2>8. IsUpdate(next, drafts, tags)
    BY <2>4, <2>5, <2>6 DEF IsUpdate, value
  <2> QED  BY <2>1, <2>7, <2>8, RenderKeepsDrafts
<1>4. ASSUME NEW f \in NumberFields, Blur(f) PROVE DraftInv'
  <2>1. /\ draft' = [draft EXCEPT ![f] = Unset]
        /\ UNCHANGED <<working, snapshot, tag>>
    BY <1>4 DEF Blur
  <2> QED  BY <2>1 DEF DraftInv, IsState, ShownTextIsTheValue
<1>5. CASE Save
  BY <1>5 DEF Save, DraftInv, IsState, ShownTextIsTheValue
<1>6. CASE Discard
  <2>1. Render(snapshot, draft, tag) /\ snapshot' = snapshot
    BY <1>6 DEF Discard
  <2>2. IsState(snapshot) /\ IsUpdate(snapshot, draft, tag)
    BY DEF DraftInv, IsUpdate
  <2> QED  BY <2>1, <2>2, RenderKeepsDrafts
<1>7. CASE UNCHANGED panelVars
  BY <1>7 DEF panelVars, DraftInv, IsState, ShownTextIsTheValue
<1> QED  BY <1>1, <1>2, <1>3, <1>4, <1>5, <1>6, <1>7 DEF PanelNext

LEMMA InitHasDrafts == PanelInit => DraftInv
<1> SUFFICES ASSUME PanelInit PROVE DraftInv
  OBVIOUS
<1>1. /\ running \in Raws /\ working.config = NormalizeConfig(running)
      /\ snapshot = working
      /\ draft = [f \in NumberFields |-> Unset] /\ tag = draft
  BY DEF PanelInit
<1>2. IsState(working)
  BY <1>1, NumbersStayNumbers DEF IsState, NormalizeConfig
<1> QED  BY <1>1, <1>2 DEF DraftInv, ShownTextIsTheValue

\* No number field goes on showing text that stands for another value than the
\* one in the state: for any fields, bounds and texts, however typing, blurs,
\* discards and other controls follow each other.
THEOREM DraftsTellTheValue == PanelSpec => []ShownTextIsTheValue
<1>1. DraftInv => ShownTextIsTheValue
  BY DEF DraftInv
<1> QED  BY <1>1, InitHasDrafts, StepKeepsDrafts, PTL DEF PanelSpec
=============================================================================
