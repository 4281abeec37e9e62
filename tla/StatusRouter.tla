---------------------------- MODULE StatusRouter ----------------------------
(***************************************************************************)
(* src/status/status-router.ts: the server hands the plugin a router, in   *)
(* which it mounts the status route behind the admin gate.  The path is    *)
(* gated once for the life of the plugin; a router may be handed over more *)
(* than once, and the gate may be unavailable or throw at any call.        *)
(***************************************************************************)
EXTENDS Naturals

CONSTANT Routers

VARIABLES
    pathAdminGated,
    gates,      \* gates installed on the path
    mounted     \* status handlers on each router

routerVars == <<pathAdminGated, gates, mounted>>

RouterInit ==
    /\ pathAdminGated = FALSE
    /\ gates = 0
    /\ mounted = [r \in Routers |-> 0]

RegisterWithRouter(r, installs) ==
    /\ pathAdminGated' = (pathAdminGated \/ installs)
    /\ gates' = IF ~pathAdminGated /\ installs THEN gates + 1 ELSE gates
    /\ mounted' = IF pathAdminGated' /\ mounted[r] = 0
                  THEN [mounted EXCEPT ![r] = @ + 1]
                  ELSE mounted

\* Nobody reaches the status without the admin gate, and neither gates nor
\* handlers pile up over any number of disable and enable cycles, one of whose
\* gates may fail to install (status-router.ts:37-84).
StatusIsGatedOnce ==
    /\ \A r \in Routers : mounted[r] > 0 => gates = 1
    /\ \A r \in Routers : mounted[r] <= 1
    /\ gates <= 1
=============================================================================
