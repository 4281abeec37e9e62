---------------------------- MODULE PluginStatus ----------------------------
(***************************************************************************)
(* src/status/plugin-status.ts: the per-source status rows and the global  *)
(* list of recent errors, as the recording methods leave them.  An error   *)
(* stands for its source; times of day, counts and wording are left out.   *)
(***************************************************************************)
EXTENDS Integers, SequencesExt

CONSTANTS
    Sources,            \* sources enabled for the run
    MaxRecentErrors     \* MAX_RECENT_ERRORS

ASSUME ErrorsAreKept == MaxRecentErrors \in Nat \ {0}

VARIABLES
    rows,           \* apiReachable ("unknown" for null) and justSkipped of
                    \* each source
    recentErrors    \* newest first

statusVars == <<rows, recentErrors>>

Row == [reachable : {"unknown", "yes", "no"}, justSkipped : BOOLEAN]

NewRows == [s \in Sources |-> [reachable |-> "unknown", justSkipped |-> FALSE]]

ListFetched(row) == [row EXCEPT !.reachable = "yes", !.justSkipped = FALSE]

\* A detail success says nothing about a skip: the flag stays.
DetailFetched(row) == [row EXCEPT !.reachable = "yes"]

Failed(row) == [row EXCEPT !.reachable = "no", !.justSkipped = FALSE]

Skipped(row) == [row EXCEPT !.justSkipped = TRUE]

\* unshift, then cut to the cap.
WithError(errors, message) ==
    SubSeq(Cons(message, errors), 1,
           IF Len(errors) < MaxRecentErrors THEN Len(errors) + 1
                                            ELSE MaxRecentErrors)

StatusTypeOK ==
    /\ rows \in [Sources -> Row]
    /\ recentErrors \in Seq(Sources)
    /\ Len(recentErrors) <= MaxRecentErrors
=============================================================================
