---------------------------- MODULE BusinessPromise ----------------------------
(***************************************************************************)
(* What a business is promised, without transactions, rows or locks: for   *)
(* one request key at most one promise is ever made; it is active or waits *)
(* on the business until a manager reports it complete or cancels it; and  *)
(* whoever moves it holds the role for that move at that very moment.      *)
(***************************************************************************)
CONSTANTS User, Key, WorkRole, ManageRole

VARIABLES
    role,      \* what each user is in the organization
    standing,  \* for each key: {} or the status of its one promise
    attested   \* for each key: who reported the promise complete

vars == <<role, standing, attested>>

Init ==
    /\ standing = [k \in Key |-> {}]
    /\ attested = [k \in Key |-> {}]

Holds(u, allowed) == role[u] \in allowed

Becomes(k, from, to) ==
    /\ standing[k] \in from
    /\ standing' = [standing EXCEPT ![k] = {to}]
    /\ UNCHANGED role

Accept(u, k) ==
    Holds(u, WorkRole) /\ Becomes(k, {{}}, "ACTIVE") /\ UNCHANGED attested

NeedsYou(u, k) ==
    Holds(u, WorkRole) /\ Becomes(k, {{"ACTIVE"}}, "WAITING_ON_USER") /\ UNCHANGED attested

Resume(u, k) ==
    Holds(u, WorkRole) /\ Becomes(k, {{"WAITING_ON_USER"}}, "ACTIVE") /\ UNCHANGED attested

Complete(u, k) ==
    /\ Holds(u, ManageRole)
    /\ Becomes(k, {{"ACTIVE"}, {"WAITING_ON_USER"}}, "COMPLETED")
    /\ attested' = [attested EXCEPT ![k] = {u}]

Cancel(u, k) ==
    /\ Holds(u, ManageRole)
    /\ Becomes(k, {{"ACTIVE"}, {"WAITING_ON_USER"}}, "CANCELLED")
    /\ UNCHANGED attested

RolesChange == UNCHANGED <<standing, attested>>

Next ==
    \/ \E u \in User, k \in Key :
          \/ Accept(u, k) \/ NeedsYou(u, k) \/ Resume(u, k)
          \/ Complete(u, k) \/ Cancel(u, k)
    \/ RolesChange

Spec == Init /\ [][Next]_vars
===============================================================================
