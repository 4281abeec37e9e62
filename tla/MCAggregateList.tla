--------------------------- MODULE MCAggregateList ---------------------------
(* One behaviour of the aggregate: of its timing (two overlapping list requests
   over one worldwide source and one that only covers US waters), of what a list
   holds, or of the panel that shows its sources' health.  part says which, and
   never changes.  The points are bridges along a river: two of the base source,
   two anywhere of a source that merges widely, one of a source that merges
   tightly, one that never merges. *)
EXTENDS AggregateList, NotesResource, StatusPanel

VARIABLE part

Point(source, id, x, y, clearance) ==
    [source |-> source, id |-> id, type |-> "Bridge", at |-> [x |-> x, y |-> y],
     clearance |-> clearance, sources |-> <<>>]

Ac == <<Point("activecaptain", <<"1">>, 2, 2, None), Point("activecaptain", <<"2">>, 4, 2, None)>>
Osm == {<<Point("openseamap", <<"node", "_", "7">>, x, IF x = 6 THEN 3 ELSE 2, c),
          Point("openseamap", <<"way", "_", "7">>, y, 2, 4)>> :
            x \in {1, 6}, y \in {-8, 0, 3, 5, 7}, c \in {None, 5}}
Uscg == {<<Point("uscg", <<"100">>, x, 2, 3)>> : x \in {3, 6}}
Enc == <<Point("noaaenc", <<"wreck", "_", "9">>, 2, 0, None)>>

MCFeeds ==
    {[s \in {"activecaptain", "openseamap", "uscg", "noaaenc"} |->
        CASE s = "activecaptain" -> Ac [] s = "openseamap" -> osm
          [] s = "uscg" -> uscg [] s = "noaaenc" -> Enc] : osm \in Osm, uscg \in Uscg}

AnyFeed == CHOOSE f \in MCFeeds : TRUE

MCTokens == {"activecaptain", "openseamap", "noaaenc", "uscg", "-", "_", "node", "way", "wreck",
             "1", "2", "7", "9", "100"}
MCSourceIds == <<"activecaptain", "openseamap", "noaaenc", "uscg">>
MCRadiusOf == [s \in {"openseamap"} |-> 22]

\* A globe of 16 units round, of ten metres each on its sphere and eleven on its grid.
MCCosOf == [y \in -3 .. 3 |-> CASE y = 0 -> 100 [] y \in {-1, 1} -> 92
                              [] y \in {-2, 2} -> 71 [] OTHER -> 38]

\* The whole river, a view that cuts it between a bridge and its duplicate, and
\* queries that give no box.
MCQueries ==
    {[form |-> "bbox", parts |-> <<-8, 0, 8, 3>>],
     [form |-> "near", position |-> [x |-> 6, y |-> 2], distance |-> 2],
     [form |-> "near", position |-> [x |-> 6, y |-> 2], distance |-> 0],
     [form |-> "bbox", parts |-> <<0, 0, 8>>]}

ownVars == <<inUsWaters, outcome, refused, failures>>
panelOwnVars == <<everListed, poll, body, shown, problem, mounted, hidden, outcomes, losses,
                  failedLast>>
mcVars == <<vars, notesVars, panelOwnVars, part>>

MCInit ==
    /\ Init /\ NotesInit /\ PanelInit
    /\ \/ part = "list" /\ feed = AnyFeed
       \/ part = "panel" /\ feed = AnyFeed /\ inUsWaters
       \/ part = "notes" /\ inUsWaters

OfList(step) == part = "list" /\ step /\ UNCHANGED <<notesVars, panelOwnVars, part>>
OfNotes(step) == part = "notes" /\ step /\ UNCHANGED <<vars, panelOwnVars, part>>
OfPanel(step) == part = "panel" /\ step /\ UNCHANGED <<ownVars, notesVars, part>>

MCNext == OfList(Next) \/ OfNotes(NotesNext) \/ OfPanel(PanelNext)

MCSpec ==
    /\ MCInit /\ [][MCNext]_mcVars
    /\ \A c \in Calls : WF_mcVars(OfList(Timeout(c))) /\ WF_mcVars(OfList(Close(c)))
    /\ WF_mcVars(OfPanel(Progress))
=============================================================================
