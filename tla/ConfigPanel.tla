----------------------------- MODULE ConfigPanel -----------------------------
(***************************************************************************)
(* The configuration panel of src/panel next to the configuration that the *)
(* plugin runs with: what normalize-config.ts makes of a stored value and  *)
(* what the module that owns the key makes of it, the reducer's edits with *)
(* their dirty check by identity, Save, Discard, and the text of a number  *)
(* field while it is edited.                                               *)
(*                                                                         *)
(* Forms[f] says how a key is read.  A stored value is Absent, Junk (of a  *)
(* type the key does not take) or of the key's own type; numbers are in    *)
(* halves, so that truncation shows.  JSON holds no NaN and no infinity.   *)
(***************************************************************************)
EXTENDS PoiTypeSelection, Integers, FiniteSets

CONSTANTS
    Forms,      \* the keys of the configuration, and the form of each
    Raws,       \* configurations the server may have stored
    Trimmed,    \* texts that trim() changes, and what it makes of them
    Edits,      \* values the controls that are no number fields offer, by key
    Texts,      \* what the user types into a number field: Blank or a number
    Absent, Junk, Unset, Blank,
    MaxEdits    \* bound: states that edits make in a behaviour

ASSUME EditsAreCounted == MaxEdits \in Nat

Fields == DOMAIN Forms
NumberForms == {"positive", "clamped", "atLeastZero", "refresh"}
NumberFields == {f \in Fields : Forms[f].form \in NumberForms}
PoiFlags == {f \in Fields : Forms[f].form = "poiType"}

ASSUME FlagsAreTypes == PoiFlags = PoiTypes
ASSUME BlankIsTrimmed == \A text \in DOMAIN Trimmed : Trimmed[text] \notin DOMAIN Trimmed
ASSUME MarksAreNoValues ==
    /\ \A mark \in {Absent, Junk, Unset} : mark \notin Int /\ mark \notin BOOLEAN
    /\ \A f \in Fields : Forms[f].form = "groups" =>
         \A groups \in SUBSET Forms[f].known : groups # Absent /\ groups # Junk

\* Of a number in halves.
Whole(n) == n - (n % 2)

\* The forms of the table in normalize-config.ts, with the bounds and the defaults
\* of the schema: a default is a value its own key takes.
ASSUME FormsAreSound ==
    \A f \in Fields :
        LET form == Forms[f] IN
        /\ form.form \in NumberForms
             \cup {"optIn", "optOut", "poiType", "text", "choice", "groups"}
        /\ form.form \in NumberForms =>
             /\ form.default \in Int /\ form.fallback \in Int
             /\ form.min \in Int /\ form.max \in Int
             /\ form.min <= form.default /\ form.default <= form.max
             /\ form.truncate => Whole(form.min) = form.min /\ Whole(form.default) = form.default
        /\ form.form = "text" => form.default \notin DOMAIN Trimmed

\* What is stored under a key is Absent, Junk or of the key's type.
ASSUME RawsAreTyped ==
    \A raw \in Raws, f \in Fields :
        \/ raw[f] \in {Absent, Junk}
        \/ /\ Forms[f].form \in NumberForms => raw[f] \in Int
           /\ Forms[f].form \in {"optIn", "optOut", "poiType"} => raw[f] \in BOOLEAN

\* Number fields are edited by typing a number, or nothing.
ASSUME NumbersAreTyped ==
    /\ Texts \ {Blank} \subseteq Int
    /\ DOMAIN Edits \cap NumberFields = {}

VARIABLES
    running,    \* what the server stored and the plugin runs with
    working,    \* the reducer's state, with its object identity
    snapshot,   \* savedState
    draft,      \* literal text in each number field, or Unset
    tag,        \* lastCommittedFromHere of each number field, or Unset
    edits,      \* states that edits have made
    stored      \* history: the panel has saved

panelVars == <<running, working, snapshot, draft, tag, edits, stored>>

Usable(raw) == raw \notin {Absent, Junk}
Trim(text) == IF text \in DOMAIN Trimmed THEN Trimmed[text] ELSE text

PositiveFiniteNumber(raw, fallback) ==
    IF Usable(raw) THEN (IF raw > 0 THEN raw ELSE fallback) ELSE fallback

\* clampNumber; minima are not negative, so truncating rounds down.
ClampNumber(raw, form) ==
    IF ~Usable(raw) THEN form.default
    ELSE LET value == IF raw < form.min THEN form.min
                      ELSE IF raw > form.max THEN form.max ELSE raw
         IN  IF form.truncate THEN Whole(value) ELSE value

OptIn(raw) == raw \notin {Absent, Junk, FALSE}

\* Mutation of OptOut: an absent flag is off.
OptOutAsIn(raw) == OptIn(raw)

OptOut(raw) == raw \in {Absent, Junk, TRUE}

\* What one key of the panel's state starts as.
NormalizeField(form, raw) ==
    CASE form.form = "positive" -> PositiveFiniteNumber(raw, form.default)
      [] form.form = "clamped" -> ClampNumber(raw, form)
      [] form.form = "atLeastZero" -> IF ~Usable(raw) THEN 0 ELSE IF raw >= 0 THEN raw ELSE 0
      [] form.form = "refresh" -> IF ~Usable(raw) THEN form.default
                                  ELSE IF raw \in form.min .. form.max THEN raw ELSE form.default
      [] form.form = "optIn" -> OptIn(raw)
      [] form.form \in {"optOut", "poiType"} -> OptOut(raw)
      [] form.form = "text" -> IF ~Usable(raw) THEN form.default
                               ELSE IF Trim(raw) # "" THEN raw ELSE form.default
      [] form.form = "choice" -> IF ~Usable(raw) THEN form.default
                                 ELSE IF raw \in form.known THEN raw ELSE form.default
      [] form.form = "groups" -> IF ~Usable(raw) THEN form.known ELSE raw \cap form.known

NormalizeConfig(raw) == [f \in Fields |-> NormalizeField(Forms[f], raw[f])]

(* The plugin's own reading: the resolve helpers of its modules. *)

\* Every module clamps the refresh period itself.
ResolveRefreshHours(form, raw) == ClampNumber(raw, form)

\* An air draft or a radius of 0 or less is none.
ResolveAirDraft(raw) == PositiveFiniteNumber(raw, 0)

\* isDedupeEnabled and the included layers: only FALSE turns them off.
IsLeftOn(raw) == raw # FALSE

ResolveEndpoint(form, raw) ==
    IF Usable(raw) /\ Trim(raw) # "" THEN Trim(raw) ELSE form.default

ResolveBand(form, raw) ==
    IF Usable(raw) /\ raw \in form.known THEN raw ELSE form.default

\* Unknown groups are kept, and ignored by the query.
ResolveSeamarkGroups(form, raw) == IF Usable(raw) THEN raw \cap form.known ELSE form.known

\* What the plugin makes of one key.
ResolveField(form, raw) ==
    CASE form.form = "positive" -> PositiveFiniteNumber(raw, form.default)
      [] form.form = "clamped" -> ClampNumber(raw, form)
      [] form.form = "atLeastZero" -> ResolveAirDraft(raw)
      [] form.form = "refresh" -> ResolveRefreshHours(form, raw)
      [] form.form = "optIn" -> OptIn(raw)
      [] form.form = "optOut" -> IsLeftOn(raw)
      [] form.form = "text" -> ResolveEndpoint(form, raw)
      [] form.form = "choice" -> ResolveBand(form, raw)
      [] form.form = "groups" -> ResolveSeamarkGroups(form, raw)

\* The POI types the plugin asks for: only flags that are present and TRUE count.
TypesAsked(config) ==
    BuildPoiTypesString([f \in {p \in PoiFlags : config[p] # Absent} |-> OptIn(config[f])])

\* The plugin does with the stored configuration what it would with the shown one.
Agrees(f) ==
    IF f \in PoiFlags THEN TypesAsked(running) = TypesAsked(working.config)
    ELSE ResolveField(Forms[f], running[f]) = ResolveField(Forms[f], working.config[f])

Dirty == working.id # snapshot.id

\* The reducer: an identity of its own for a state that differs, and only then.
Stamped(config) ==
    IF config = working.config THEN working ELSE [config |-> config, id |-> edits + 1]

\* Mutation of WithAllPoiTypes: the toggles are set in the object at hand.
AllPoiTypesInPlace(enabled) ==
    [config |-> [f \in Fields |-> IF f \in PoiFlags THEN enabled ELSE working.config[f]],
     id |-> working.id]

WithAllPoiTypes(enabled) ==
    Stamped([f \in Fields |-> IF f \in PoiFlags THEN enabled ELSE working.config[f]])

\* Mutation of DraftsAfter: nothing watches for changes from outside the field.
DraftsKept(drafts, tags, next) == drafts

\* The effect on a new value: a draft stays only over a value that its own field
\* committed.
DraftsAfter(drafts, tags, next) ==
    [f \in NumberFields |->
        IF next.config[f] # working.config[f] /\ tags[f] # next.config[f]
        THEN Unset ELSE drafts[f]]

TagsAfter(tags, next) ==
    [f \in NumberFields |->
        IF next.config[f] # working.config[f] /\ tags[f] = next.config[f]
        THEN Unset ELSE tags[f]]

\* The panel renders a new state; drafts and tags are as the event left them.
Render(next, drafts, tags) ==
    /\ working' = next
    /\ draft' = DraftsAfter(drafts, tags, next)
    /\ tag' = TagsAfter(tags, next)

\* One event of a control: an edit that changes nothing makes no state.
Dispatch(next, drafts, tags) ==
    /\ edits' = IF next = working THEN edits ELSE edits + 1
    /\ edits' <= MaxEdits
    /\ Render(next, drafts, tags)
    /\ UNCHANGED <<running, snapshot, stored>>

Edit(next) == Dispatch(next, draft, tag)

\* Each key's own reducer case, from a checkbox, a select or a text input.
Set(f, value) == Edit(Stamped([working.config EXCEPT ![f] = value]))

SetAllPoiTypes(enabled) == Edit(WithAllPoiTypes(enabled))

\* commitNumberDraft.
CommitNumberDraft(form, text) ==
    IF text = Blank THEN form.fallback
    ELSE LET whole == IF form.integer THEN Whole(text) ELSE text
             low == IF whole > form.max THEN form.max ELSE whole
         IN  IF low < form.min THEN form.min ELSE low

\* handleChange: the text, and the value it commits to, in one event.
Type(f, text) ==
    LET next == CommitNumberDraft(Forms[f], text)
    IN  Dispatch(Stamped([working.config EXCEPT ![f] = next]),
                 [draft EXCEPT ![f] = text], [tag EXCEPT ![f] = next])

Blur(f) ==
    /\ draft[f] # Unset
    /\ draft' = [draft EXCEPT ![f] = Unset]
    /\ UNCHANGED <<running, working, snapshot, tag, edits, stored>>

\* Save and Discard are disabled while nothing is dirty.
Save ==
    /\ Dirty
    /\ running' = working.config
    /\ snapshot' = working
    /\ stored' = TRUE
    /\ UNCHANGED <<working, draft, tag, edits>>

Discard ==
    /\ Dirty
    /\ Render(snapshot, draft, tag)
    /\ UNCHANGED <<running, snapshot, edits, stored>>
-----------------------------------------------------------------------------
\* The panel mounts on whatever the server stored.
PanelInit ==
    /\ running \in Raws
    /\ working = [config |-> NormalizeConfig(running), id |-> 0]
    /\ snapshot = working
    /\ draft = [f \in NumberFields |-> Unset] /\ tag = draft
    /\ edits = 0 /\ stored = FALSE

PanelNext ==
    \/ \E f \in DOMAIN Edits : \E value \in Edits[f] : Set(f, value)
    \/ \E enabled \in BOOLEAN : SetAllPoiTypes(enabled)
    \/ \E f \in NumberFields : Blur(f) \/ \E text \in Texts : Type(f, text)
    \/ Save
    \/ Discard

PanelSpec == PanelInit /\ [][PanelNext]_panelVars
-----------------------------------------------------------------------------
(* Properties. *)

\* A panel without unsaved changes shows what the plugin runs with: a sound dirty
\* check (PluginConfigurationPanel.tsx:58-60) over two readings of each key.  Until
\* the first save the keys PanelAgrees fails for are excepted.
CleanPanelShowsWhatRuns ==
    ~Dirty => \A f \in Fields :
        \/ Agrees(f)
        \/ ~stored /\ Forms[f].form \in {"refresh", "poiType"}

\* No number field goes on showing text that stands for another value than the
\* one in the state, however edits, saves and discards follow each other
\* (use-number-draft.ts:76-90).
ShownTextIsTheValue ==
    \A f \in NumberFields :
        draft[f] # Unset =>
            CommitNumberDraft(Forms[f], draft[f]) = working.config[f]

\* normalize-config.ts:58-62: the refresh period's fallback mirrors the schema's,
\* "so the panel and the plugin agree".
PanelAgrees == ~Dirty => \A f \in NumberFields : Agrees(f)
=============================================================================
