-------------------------- MODULE PoiTypeSelection --------------------------
(***************************************************************************)
(* src/shared/poi-type-selection.ts: the POI types a configuration asks    *)
(* for.  A comma-separated list is the set of its members; null is NoTypes.*)
(* `flags` maps the toggles present in the saved configuration to their    *)
(* values; one saved before the toggles existed has none of them.          *)
(***************************************************************************)
CONSTANTS PoiTypes, NoTypes

ASSUME NoTypesIsNoSet == \A types \in SUBSET PoiTypes : NoTypes # types

Selected(flags) == {t \in DOMAIN flags : flags[t]}

BuildPoiTypesString(flags) ==
    IF Selected(flags) # {} THEN Selected(flags)
    ELSE IF DOMAIN flags # {} THEN NoTypes ELSE PoiTypes

EnsurePoiTypes(types, required) ==
    (IF types = NoTypes THEN {} ELSE types) \cup required
=============================================================================
