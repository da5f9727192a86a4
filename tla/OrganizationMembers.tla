-------------------------- MODULE OrganizationMembers --------------------------
(***************************************************************************)
(* OrganizationMembersService: who belongs to an organization, in which    *)
(* role, and who owns it.                                                  *)
(*                                                                         *)
(* Adding, changing and removing a member are a few reads, one write that  *)
(* does not look at what was read, and an audit entry, each an await of    *)
(* its own.  Only a transfer of the ownership is a transaction; it locks   *)
(* the organization, which no other operation does.                        *)
(***************************************************************************)
EXTENDS Naturals, Sequences, FiniteSets

CONSTANTS
    Call,       \* requests that may be served at the same time
    User,
    Founder,    \* the user who created the organization
    Moderator,  \* stewards and administrators of the platform
    RoleInUse,  \* the roles requests name
    MaxTrail    \* bound on the audit trail

ASSUME FounderAssumption == Founder \in User
ASSUME ModeratorAssumption == Moderator \subseteq User
ASSUME RoleAssumption ==
    RoleInUse \subseteq {"OWNER", "ADMIN", "MANAGER", "OPERATOR", "VIEWER", "MEMBER"}
ASSUME MaxTrailAssumption == MaxTrail \in Nat

VARIABLES
    role,   \* the role of each user in the organization, or that it has none
    trail,  \* the TenantAuditEvent rows of the organization, in order
    svc     \* where each request stands, and what it has read

vars == <<role, trail, svc>>

MANAGING_MEMBER_ROLES == {"OWNER", "ADMIN"}
NoRole == "NONE"
Role == RoleInUse \cup {"OWNER", "ADMIN", NoRole}
Granted == Role \ {"OWNER"}

Idle == [at |-> "idle"]
\* A request about the membership of user u; of a transfer, who asked is kept.
Service == [at : {"addCreate", "updateTarget", "updateCount", "updateWrite",
                  "removeTarget", "removeCountAdmins", "removeCountOwners", "removeWrite",
                  "audit"}, u : User, new : Granted, from : Role] \cup
           [at : {"transferTarget", "transferWrite"}, u : User, by : User]
Request(at, u, new) == [at |-> at, u |-> u, new |-> new, from |-> NoRole]

\* Only of a transfer the parties are kept.
Audited == {"MEMBER_ADDED", "MEMBER_ROLE_CHANGED", "MEMBER_REMOVED"}
Transfer(by, to) == [action |-> "OWNERSHIP_TRANSFERRED", by |-> by, to |-> to]
AuditEvent == [action : Audited] \cup
              [action : {"OWNERSHIP_TRANSFERRED"}, by : User, to : User]

Init ==
    /\ role = [u \in User |-> IF u = Founder THEN "OWNER" ELSE NoRole]
    /\ trail = <<>>
    /\ svc = [c \in Call |-> Idle]

Holding(roles) == {u \in User : role[u] \in roles}

\* assertIsOrgAdminOrPrivileged.
MayManage(u) == u \in Moderator \/ role[u] \in MANAGING_MEMBER_ROLES

-----------------------------------------------------------------------------
(* Steps of a request: what it read or wrote, and where it goes on *)

Begin(c, s) ==
    /\ svc[c] = Idle
    /\ svc' = [svc EXCEPT ![c] = s]
    /\ UNCHANGED <<role, trail>>

Goto(c, at) == svc' = [svc EXCEPT ![c].at = at] /\ UNCHANGED <<role, trail>>
Refuse(c) == svc' = [svc EXCEPT ![c] = Idle] /\ UNCHANGED <<role, trail>>

\* The target as it is now goes into the request.
Keep(c, at) ==
    /\ svc' = [svc EXCEPT ![c].at = at, ![c].from = role[svc[c].u]]
    /\ UNCHANGED <<role, trail>>

Write(c, new) ==
    /\ role' = [role EXCEPT ![svc[c].u] = new]
    /\ svc' = [svc EXCEPT ![c].at = "audit", ![c].new = new]
    /\ UNCHANGED trail

-----------------------------------------------------------------------------
(* add *)

Add(c, by, u, new) ==
    /\ by \in Moderator /\ new # "OWNER" /\ role[u] = NoRole
    /\ Begin(c, Request("addCreate", u, new))

\* The membership has a unique key.
AddCreate(c) ==
    /\ svc[c].at = "addCreate"
    /\ IF role[svc[c].u] = NoRole THEN Write(c, svc[c].new) ELSE Refuse(c)

-----------------------------------------------------------------------------
(* updateRole *)

UpdateRole(c, by, u, new) ==
    /\ MayManage(by) /\ new # "OWNER"
    /\ Begin(c, Request("updateTarget", u, new))

UpdateRoleTarget(c) ==
    /\ svc[c].at = "updateTarget"
    /\ LET role_u == role[svc[c].u]
       IN IF role_u \in {NoRole, "OWNER"} THEN Refuse(c)
          ELSE IF role_u \in MANAGING_MEMBER_ROLES /\ svc[c].new \notin MANAGING_MEMBER_ROLES
          THEN Keep(c, "updateCount")
          ELSE Keep(c, "updateWrite")

UpdateRoleCount(c) ==
    /\ svc[c].at = "updateCount"
    /\ IF Cardinality(Holding(MANAGING_MEMBER_ROLES)) <= 1 THEN Refuse(c)
       ELSE Goto(c, "updateWrite")

\* The update names the member only; it fails if there is none any more.
UpdateRoleWrite(c) ==
    /\ svc[c].at = "updateWrite"
    /\ IF role[svc[c].u] = NoRole THEN Refuse(c) ELSE Write(c, svc[c].new)

-----------------------------------------------------------------------------
(* remove *)

Remove(c, by, u) ==
    /\ by = u \/ MayManage(by)
    /\ Begin(c, Request("removeTarget", u, NoRole))

RemoveTarget(c) ==
    /\ svc[c].at = "removeTarget"
    /\ LET role_u == role[svc[c].u]
       IN IF role_u = NoRole THEN Refuse(c)
          ELSE IF role_u \in MANAGING_MEMBER_ROLES THEN Keep(c, "removeCountAdmins")
          ELSE Keep(c, "removeWrite")

RemoveCountAdmins(c) ==
    /\ svc[c].at = "removeCountAdmins"
    /\ IF Cardinality(Holding(MANAGING_MEMBER_ROLES)) <= 1 THEN Refuse(c)
       ELSE Goto(c, IF svc[c].from = "OWNER" THEN "removeCountOwners" ELSE "removeWrite")

RemoveCountOwners(c) ==
    /\ svc[c].at = "removeCountOwners"
    /\ IF Cardinality(Holding({"OWNER"})) <= 1 THEN Refuse(c) ELSE Goto(c, "removeWrite")

RemoveWrite(c) ==
    /\ svc[c].at = "removeWrite"
    /\ IF role[svc[c].u] = NoRole THEN Refuse(c) ELSE Write(c, NoRole)

-----------------------------------------------------------------------------
(* The audit entry of the three *)

AuditAction(s) == IF s.from = NoRole THEN "MEMBER_ADDED"
                  ELSE IF s.new = NoRole THEN "MEMBER_REMOVED" ELSE "MEMBER_ROLE_CHANGED"

Audit(c) ==
    /\ svc[c].at = "audit" /\ Len(trail) < MaxTrail
    /\ trail' = Append(trail, [action |-> AuditAction(svc[c])])
    /\ svc' = [svc EXCEPT ![c] = Idle]
    /\ UNCHANGED role

-----------------------------------------------------------------------------
(* transferOwnership *)

(* Mutant: the organization is not locked. *)
LockNever == TRUE

\* FOR UPDATE on the organization: one transfer at a time.
Lock == \A d \in Call : svc[d].at \notin {"transferTarget", "transferWrite"}

TransferOwnership(c, by, new) ==
    /\ Lock
    /\ role[by] = "OWNER"
    /\ Begin(c, [at |-> "transferTarget", u |-> new, by |-> by])

TransferTarget(c) ==
    /\ svc[c].at = "transferTarget"
    /\ IF role[svc[c].u] \in {NoRole, "OWNER"} THEN Refuse(c) ELSE Goto(c, "transferWrite")

(* Mutant: the former owner remains one. *)
TransferWriteAdding(c) ==
    /\ svc[c].at = "transferWrite" /\ Len(trail) < MaxTrail
    /\ role' = [role EXCEPT ![svc[c].u] = "OWNER"]
    /\ trail' = Append(trail, Transfer(svc[c].by, svc[c].u))
    /\ svc' = [svc EXCEPT ![c] = Idle]

(* The demotion locks the rows of the owners and nobody else makes one, so *)
(* demotion, promotion, entry and commit are one step.                     *)
TransferWrite(c) ==
    /\ svc[c].at = "transferWrite" /\ Len(trail) < MaxTrail
    /\ LET new == svc[c].u
       IN IF role[new] = NoRole THEN Refuse(c)
          ELSE /\ role' = [u \in User |-> IF u = new THEN "OWNER"
                                          ELSE IF role[u] = "OWNER" THEN "ADMIN"
                                          ELSE role[u]]
               /\ trail' = Append(trail, Transfer(svc[c].by, new))
               /\ svc' = [svc EXCEPT ![c] = Idle]

-----------------------------------------------------------------------------
\* The process dies, or an awaited statement fails; a transfer is rolled back.
Crash(c) == svc[c] # Idle /\ Refuse(c)

Step(c) ==
    \/ AddCreate(c)
    \/ UpdateRoleTarget(c) \/ UpdateRoleCount(c) \/ UpdateRoleWrite(c)
    \/ RemoveTarget(c) \/ RemoveCountAdmins(c) \/ RemoveCountOwners(c) \/ RemoveWrite(c)
    \/ Audit(c)
    \/ TransferTarget(c) \/ TransferWrite(c)
    \/ Crash(c)

Next == \E c \in Call :
    \/ \E by, u \in User :
        \/ \E new \in RoleInUse : Add(c, by, u, new) \/ UpdateRole(c, by, u, new)
        \/ Remove(c, by, u)
        \/ TransferOwnership(c, by, u)
    \/ Step(c)

Spec == Init /\ [][Next]_vars

-----------------------------------------------------------------------------
(* Properties *)

\* Roles, entries and requests keep their shape, and no request but a transfer
\* is about to grant OWNER.
TypeOK ==
    /\ role \in [User -> Role]
    /\ trail \in Seq(AuditEvent)
    /\ svc \in [Call -> Service \cup {Idle}]

Transfers == {i \in DOMAIN trail : trail[i].action = "OWNERSHIP_TRANSFERRED"}

\* Whom the trail names as the owner after its first n entries.
Titled(u, n) ==
    \/ u = Founder /\ \A i \in Transfers : i > n
    \/ \E i \in Transfers :
        /\ i <= n /\ trail[i].to = u
        /\ \A j \in Transfers : j <= n => j <= i

\* Nobody is OWNER but the one the trail names: the founder, or the one the
\* latest audited transfer was made to.  In particular there is never a second.
OwnerIsTitled == \A u \in User : role[u] = "OWNER" => Titled(u, Len(trail))

\* Every transfer was made by the owner the one before it had made: no stale
\* owner, however many transfers are requested at once, hands the title on.
TitlePassesOn == \A i \in Transfers : Titled(trail[i].by, i - 1)

\* The organization's sole owner is neither demoted nor removed: somebody owns
\* the organization, and can transfer it.
OwnerRemains == Holding({"OWNER"}) # {}
================================================================================
