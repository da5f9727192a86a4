----------------------------- MODULE PermissionGate ----------------------------
(***************************************************************************)
(* What AuthorityService promises to the services that ask it: a set of    *)
(* exact permissions that are granted, and a set whose capability is       *)
(* suspended.  Each is given, or resumed, in a step of its own that does   *)
(* nothing else: suspending takes no grant back, and resuming gives none.  *)
(***************************************************************************)
CONSTANT Permission   \* exact scopes

VARIABLES
    granted,     \* the permissions with an active grant that has not expired
    suspended    \* the permissions whose capability is suspended

gateVars == <<granted, suspended>>

GateInit == granted = {} /\ suspended = {}

Grant(p) ==
    /\ p \notin granted
    /\ granted' = granted \cup {p}
    /\ UNCHANGED suspended

\* A revocation takes one permission; a moment may be the expiry of several.
Withdraw(P) ==
    /\ P # {}
    /\ granted' = granted \ P
    /\ UNCHANGED suspended

Suspend(p) ==
    /\ suspended' = suspended \cup {p}
    /\ UNCHANGED granted

Resume(p) ==
    /\ suspended' = suspended \ {p}
    /\ UNCHANGED granted

GateNext ==
    \/ \E p \in Permission : Grant(p) \/ Suspend(p) \/ Resume(p)
    \/ \E P \in SUBSET granted : Withdraw(P)

GateSpec == GateInit /\ [][GateNext]_gateVars
===============================================================================
