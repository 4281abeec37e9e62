-------------------------- MODULE MCLightListStore --------------------------
(* Two pages and three aids.  MCEditions keeps every aid on its own page; in *)
(* MCMovedEditions aid a2 is on either.                                      *)
EXTENDS LightListStore

CONSTANTS a1, a2, a3

MCEditions == [p \in Pages |-> IF p = "D01_1" THEN {{a1}, {a2}, {a1, a2}} ELSE {{a3}}]

MCMovedEditions ==
    [p \in Pages |-> IF p = "D01_1" THEN {{a1, a2}, {a1}} ELSE {{a3}, {a2, a3}}]
=============================================================================
