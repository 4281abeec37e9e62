------------------------- MODULE MCPluginLifecycle -------------------------
(* One behaviour of the plugin (two sources, the notes resource and one alarm
   output, two starts) or of its configuration panel: part says which, and never
   changes. *)
EXTENDS PluginLifecycle, ConfigPanel

VARIABLE part

MCTypesOf == [o \in Outputs |-> IF o = "alarm" THEN {"Hazard"} ELSE {}]

\* Everything on and nothing selected; alarms off; a configuration that was
\* saved before the toggles existed.
MCConfigs ==
    {[sources |-> Sources, outputs |-> Outputs, flags |-> [t \in PoiTypes |-> FALSE]],
     [sources |-> {ActiveCaptain}, outputs |-> {Notes}, flags |-> [t \in {"Marina"} |-> TRUE]],
     [sources |-> {ActiveCaptain}, outputs |-> Outputs, flags |-> <<>>]}

Number(form, default, min, max) ==
    [form |-> form, default |-> default, min |-> min, max |-> max, fallback |-> min,
     integer |-> form # "atLeastZero", truncate |-> form = "clamped"]
Choice(form, default, known) == [form |-> form, default |-> default, known |-> known]
Toggle(form) == [form |-> form]

\* One key or two of each form.
MCForms ==
    [f \in {"cachingDurationMinutes", "noaaEncMinimumSurveyYear", "vesselAirDraftMeters",
            "uscgLightListRefreshHours", "noaaEncIncludeRocks", "openSeaMapDedupe",
            "Marina", "Hazard", "openSeaMapEndpoint", "noaaEncScaleBand",
            "openSeaMapSeamarkGroups"} |->
        CASE f = "cachingDurationMinutes" -> Number("positive", 120, 2, 10000)
          [] f = "noaaEncMinimumSurveyYear" -> Number("clamped", 0, 0, 19998)
          [] f = "vesselAirDraftMeters" -> Number("atLeastZero", 0, 0, 10000)
          [] f = "uscgLightListRefreshHours" -> Number("refresh", 12, 2, 336)
          [] f = "noaaEncIncludeRocks" -> Toggle("optIn")
          [] f = "openSeaMapDedupe" -> Toggle("optOut")
          [] f \in {"Marina", "Hazard"} -> Toggle("poiType")
          [] f = "openSeaMapEndpoint" -> Choice("text", "default", {})
          [] f = "noaaEncScaleBand" -> Choice("choice", "coastal", {"coastal", "harbour"})
          [] f = "openSeaMapSeamarkGroups" -> Choice("groups", {}, {"hazards", "navaids"})]

RawsOf(f) ==
    {Absent, Junk} \cup
    CASE f = "openSeaMapEndpoint" -> {"", " own ", "own"}
      [] f = "noaaEncScaleBand" -> {"harbour", "none"}
      [] f = "openSeaMapSeamarkGroups" -> {{}, {"hazards", "former"}}
      [] Forms[f].form \in NumberForms -> {-2, 0, 5, 400, 20001}
      [] OTHER -> BOOLEAN

Alone(f, raw) == [g \in Fields |-> IF g = f THEN raw ELSE Absent]
MCRaws == UNION {{Alone(f, raw) : raw \in RawsOf(f)} : f \in Fields}

MCTrimmed == [text \in {" own ", " "} |-> IF text = " " THEN "" ELSE "own"]
MCEdits ==
    [f \in {"openSeaMapEndpoint", "openSeaMapSeamarkGroups", "openSeaMapDedupe", "Hazard"} |->
        CASE f = "openSeaMapEndpoint" -> {" own ", " "}
          [] f = "openSeaMapSeamarkGroups" -> {{}, {"navaids"}}
          [] OTHER -> BOOLEAN]

mcVars == <<vars, panelVars, part>>

MCInit ==
    /\ Init /\ PanelInit
    /\ \/ part = "plugin" /\ running = Alone("Hazard", Absent)
       \/ part = "panel"

OfPlugin(step) == part = "plugin" /\ step /\ UNCHANGED <<panelVars, part>>
OfPanel(step) == part = "panel" /\ step /\ UNCHANGED <<vars, part>>

MCNext == OfPlugin(Next) \/ OfPanel(PanelNext)

MCSpec == MCInit /\ [][MCNext]_mcVars
=============================================================================
