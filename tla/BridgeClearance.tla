--------------------------- MODULE BridgeClearance ---------------------------
(***************************************************************************)
(* What the plugin knows of a bridge's vertical clearance: the parsers of  *)
(* src/inputs/openseamap/clearance.ts and inputs/active-captain/           *)
(* bridge-clearance.ts, the comparison of src/shared/bridge-clearance.ts,  *)
(* and the resolver of src/outputs/bridge-air-draft, one per output.       *)
(* Lengths are tenths of a millimetre, so that a foot is an integer.       *)
(***************************************************************************)
EXTENDS Integers, Sequences, FiniteSets

CONSTANTS
    Points,         \* ids of the points of interest
    IsBridge,       \* their type
    FromBase,       \* those of ActiveCaptain
    Tags,           \* clearance tags by priority: of a bridge of OpenSeaMap, and of
                    \* the OpenSeaMap twin of one of ActiveCaptain
    Navigation,     \* ActiveCaptain: bridge height and unit of the detail
    Outputs,        \* outputs with a resolver of their own
    Fallback,       \* vesselAirDraftMeters
    Margin,         \* marginMeters
    None

ASSUME LengthsAreNat == Margin \in Nat /\ Fallback \in Nat

VARIABLES
    cached,     \* of each resolver: clearances that details gave, or None
    fetching    \* of each resolver: detail requests in flight, by point

resolverVars == <<cached, fetching>>

Meter == 10000
Foot == 3048
Inch == 254

Positive(length) == IF length > 0 THEN length ELSE None

\* parseClearanceValue; a placeholder or garbage has no unit.
ParseClearanceValue(tag) ==
    CASE tag.unit \in {"m", "bare"} -> Positive(tag.value * Meter)
      [] tag.unit = "ft" -> Positive(tag.value * Foot)
      [] tag.unit = "ftin" -> Positive(tag.value * Foot + tag.inches * Inch)
      [] OTHER -> None

Usable(tags) == {i \in DOMAIN tags : ParseClearanceValue(tags[i]) # None}

\* Mutation of ParseOsmClearance: the first tag present decides.
ParseOsmClearanceFirstTag(tags) ==
    IF tags = <<>> THEN None ELSE ParseClearanceValue(tags[1])

\* parseOsmClearanceMeters: the first tag that parses.
ParseOsmClearance(tags) ==
    IF Usable(tags) = {} THEN None
    ELSE ParseClearanceValue(tags[CHOOSE i \in Usable(tags) :
                                    \A j \in Usable(tags) : i <= j])

\* Mutation of BridgeHeight: a unit nobody knows is taken for metres.
BridgeHeightGuessed(section) ==
    IF section.unit = "ft" THEN Positive(section.height * Foot)
    ELSE Positive(section.height * Meter)

\* bridgeHeightToMeters: the unit is never guessed.
BridgeHeight(section) ==
    CASE section.unit = "ft" -> Positive(section.height * Foot)
      [] section.unit = "m" -> Positive(section.height * Meter)
      [] OTHER -> None

\* readVesselAirDraft: the data model first, then the configured fallback.
AirDraft(model) == IF model # None /\ model > 0 THEN model ELSE Positive(Fallback)

\* bridgeBlocksVessel.
Blocks(clearance, airDraft) ==
    clearance # None /\ airDraft # None /\ clearance <= airDraft + Margin

\* Bridges of ActiveCaptain with a twin in OpenSeaMap, which the dedupe pass
\* merges when a list brings both.
WithTwin == {p \in FromBase \cap DOMAIN Tags : IsBridge[p]}

\* Mutation of OnSummary: a twin's clearance is not carried onto the base.
OnSummaryUncarried(p, merged) ==
    IF IsBridge[p] /\ p \notin FromBase THEN ParseOsmClearance(Tags[p]) ELSE None

\* verticalClearanceMeters of a summary of a list in which these were merged: a
\* bridge of ActiveCaptain carries one only from its twin.
OnSummary(p, merged) ==
    IF IsBridge[p] /\ (p \notin FromBase \/ p \in merged)
    THEN ParseOsmClearance(Tags[p]) ELSE None

\* clearanceMeters of a resolver, for this tick: the summary comes first.
ClearanceMeters(o, p, merged) ==
    IF OnSummary(p, merged) # None THEN OnSummary(p, merged)
    ELSE IF cached[o][p] # None THEN cached[o][p].clearance ELSE None

NeedsDetail(o, p, merged) ==
    IsBridge[p] /\ p \in FromBase /\ OnSummary(p, merged) = None /\ cached[o][p] = None

\* startFetch for the points a tick resolved and nobody is fetching.
Asks(o, points, merged) == {p \in points : NeedsDetail(o, p, merged) /\ fetching[o][p] = 0}

\* The requests in flight after each output has resolved its points.
Fetching(resolved, merged) ==
    [o \in Outputs |-> [p \in Points |->
        IF p \in Asks(o, resolved[o], merged) THEN fetching[o][p] + 1 ELSE fetching[o][p]]]

\* Mutation of Remembers: a failed detail is kept as "no clearance".
RemembersFailures(o, p, ok) ==
    cached' = [cached EXCEPT ![o][p] =
        [clearance |-> IF ok THEN BridgeHeight(Navigation[p]) ELSE None]]

\* Only an answer is kept, also one without a clearance.
Remembers(o, p, ok) ==
    cached' = IF ok THEN [cached EXCEPT ![o][p] = [clearance |-> BridgeHeight(Navigation[p])]]
              ELSE cached

DetailReturns(o, p, ok) ==
    /\ fetching[o][p] > 0
    /\ fetching' = [fetching EXCEPT ![o][p] = @ - 1]
    /\ Remembers(o, p, ok)

ResolverInit ==
    /\ cached = [o \in Outputs |-> [p \in Points |-> None]]
    /\ fetching = [o \in Outputs |-> [p \in Points |-> 0]]
=============================================================================
