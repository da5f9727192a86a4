----------------------- MODULE OrganizationMembersProofs -----------------------
(***************************************************************************)
(* Who owns an organization, for any number of requests, users and audit   *)
(* entries.                                                                *)
(***************************************************************************)
EXTENDS OrganizationMembers, TLAPS

Transferring(c) == svc[c].at \in {"transferTarget", "transferWrite"}

OneTransfers == \A c, d \in Call : Transferring(c) /\ Transferring(d) => c = d
\* The title does not move while a transfer is under way.
TitledTransfers == \A c \in Call : Transferring(c) => Titled(svc[c].by, Len(trail))

Inv == TypeOK /\ OneTransfers /\ TitledTransfers /\ OwnerIsTitled /\ TitlePassesOn

-----------------------------------------------------------------------------
(* The trail *)

\* What an earlier part of the trail says of the title stays so.
LEMMA TitleKept ==
    ASSUME TypeOK, NEW e \in AuditEvent, trail' = Append(trail, e),
           NEW u \in User, NEW n \in 0 .. Len(trail), Titled(u, n)
    PROVE  Titled(u, n)'
<1>1. /\ Len(trail') = Len(trail) + 1
      /\ DOMAIN trail = 1 .. Len(trail) /\ DOMAIN trail' = 1 .. (Len(trail) + 1)
      /\ \A i \in DOMAIN trail : trail'[i] = trail[i]
    BY DEF TypeOK
<1>2. \A i \in Nat : i <= n => (i \in Transfers <=> i \in Transfers')
    BY <1>1 DEF Transfers
<1>3. CASE u = Founder /\ \A i \in Transfers : i > n
    BY <1>1, <1>2, <1>3 DEF Titled, Transfers
<1>4. CASE \E i \in Transfers : i <= n /\ trail[i].to = u
                                /\ \A j \in Transfers : j <= n => j <= i
  <2>1. PICK i \in Transfers : i <= n /\ trail[i].to = u
                                /\ \A j \in Transfers : j <= n => j <= i
      BY <1>4
  <2>2. i \in Transfers' /\ trail'[i].to = u
      BY <1>1, <1>2, <2>1 DEF Transfers
  <2>3. \A j \in Transfers' : j <= n => j <= i
      BY <1>1, <1>2, <2>1 DEF Transfers
  <2> QED BY <2>1, <2>2, <2>3 DEF Titled
<1> QED BY <1>3, <1>4 DEF Titled

\* An entry that is not a transfer leaves the title where it is.
LEMMA TitleUnmoved ==
    ASSUME TypeOK, NEW e \in AuditEvent, e.action # "OWNERSHIP_TRANSFERRED",
           trail' = Append(trail, e), NEW u \in User, Titled(u, Len(trail))
    PROVE  Titled(u, Len(trail))'
<1>1. /\ Len(trail) \in Nat /\ Len(trail') = Len(trail) + 1
      /\ DOMAIN trail = 1 .. Len(trail) /\ DOMAIN trail' = 1 .. (Len(trail) + 1)
      /\ \A i \in DOMAIN trail : trail'[i] = trail[i]
      /\ trail'[Len(trail) + 1] = e
    BY DEF TypeOK
<1>2. Transfers' = Transfers
    BY <1>1 DEF Transfers
<1>3. Transfers \subseteq 1 .. Len(trail)
    BY <1>1 DEF Transfers
<1>4. CASE u = Founder /\ \A i \in Transfers : i > Len(trail)
    BY <1>1, <1>2, <1>3, <1>4 DEF Titled
<1>5. CASE \E i \in Transfers : i <= Len(trail) /\ trail[i].to = u
                                /\ \A j \in Transfers : j <= Len(trail) => j <= i
  <2>1. PICK i \in Transfers : i <= Len(trail) /\ trail[i].to = u
                                /\ \A j \in Transfers : j <= Len(trail) => j <= i
      BY <1>5
  <2>2. i \in Transfers' /\ i <= Len(trail') /\ trail'[i].to = u
      BY <1>1, <1>2, <1>3, <2>1
  <2>3. \A j \in Transfers' : j <= i
      BY <1>2, <1>3, <2>1
  <2> QED BY <2>2, <2>3 DEF Titled
<1> QED BY <1>4, <1>5 DEF Titled

\* A transfer moves the title to its recipient.
LEMMA TitleMoved ==
    ASSUME TypeOK, NEW by \in User, NEW to \in User,
           trail' = Append(trail, Transfer(by, to))
    PROVE  Titled(to, Len(trail))'
<1>1. /\ Len(trail) \in Nat /\ Len(trail') = Len(trail) + 1
      /\ DOMAIN trail' = 1 .. (Len(trail) + 1)
      /\ trail'[Len(trail) + 1] = Transfer(by, to)
    BY DEF TypeOK, AuditEvent, Transfer
<1>2. Len(trail) + 1 \in Transfers'
    BY <1>1 DEF Transfers, Transfer
<1>3. \A j \in Transfers' : j <= Len(trail) + 1
    BY <1>1 DEF Transfers
<1> QED BY <1>1, <1>2, <1>3 DEF Titled, Transfer

-----------------------------------------------------------------------------
(* Steps by what they change *)

\* A request goes on or ends and leaves members and trail alone.
LEMMA QuietStep ==
    ASSUME Inv, TypeOK', NEW c \in Call, UNCHANGED <<role, trail>>,
           \A d \in Call : d # c => svc'[d] = svc[d],
           Transferring(c)' => Transferring(c) /\ svc'[c].by = svc[c].by
    PROVE  Inv'
<1>1. \A d \in Call : Transferring(d)' => Transferring(d) /\ svc'[d].by = svc[d].by
    BY DEF Transferring
<1>2. OneTransfers'
    BY <1>1 DEF Inv, OneTransfers
<1>3. \A u \in User, n \in Nat : Titled(u, n)' <=> Titled(u, n)
    BY DEF Titled, Transfers
<1>4. Len(trail) \in Nat /\ Len(trail') = Len(trail)
    BY DEF Inv, TypeOK
<1>5. TitledTransfers'
  <2> SUFFICES ASSUME NEW d \in Call, Transferring(d)'
               PROVE  Titled(svc[d].by, Len(trail))'
      BY DEF TitledTransfers
  <2>1. Transferring(d) /\ svc'[d].by = svc[d].by
      BY <1>1
  <2>2. Titled(svc[d].by, Len(trail))
      BY <2>1 DEF Inv, TitledTransfers
  <2> QED BY <2>1, <2>2 DEF Titled, Transfers
<1>6. OwnerIsTitled'
    BY DEF Inv, OwnerIsTitled, Titled, Transfers
<1>7. TitlePassesOn'
    BY DEF Inv, TitlePassesOn, Titled, Transfers
<1> QED BY <1>2, <1>5, <1>6, <1>7 DEF Inv

\* A member is given a role other than OWNER, or none.
LEMMA GrantingStep ==
    ASSUME Inv, TypeOK', NEW c \in Call, NEW new \in Granted, svc[c] \in Service,
           svc[c].at \notin {"transferTarget", "transferWrite"}, Write(c, new)
    PROVE  Inv'
<1>1. /\ UNCHANGED trail
      /\ \A d \in Call : Transferring(d)' => Transferring(d) /\ svc'[d] = svc[d]
    BY DEF Write, Transferring, Inv, TypeOK
<1>2. \A u \in User : role'[u] = "OWNER" => role[u] = "OWNER"
    BY DEF Write, Granted, Inv, TypeOK
<1>3. OneTransfers'
    BY <1>1 DEF Inv, OneTransfers
<1>4. TitledTransfers'
    BY <1>1 DEF Inv, TitledTransfers, Titled, Transfers
<1>5. OwnerIsTitled'
    BY <1>1, <1>2 DEF Inv, OwnerIsTitled, Titled, Transfers
<1>6. TitlePassesOn'
    BY <1>1 DEF Inv, TitlePassesOn, Titled, Transfers
<1> QED BY <1>3, <1>4, <1>5, <1>6 DEF Inv

\* An audit entry of a member's addition, change or removal.
LEMMA AuditStep ==
    ASSUME Inv, TypeOK', NEW c \in Call, Audit(c)
    PROVE  Inv'
<1> DEFINE e == [action |-> AuditAction(svc[c])]
<1>1. /\ e \in AuditEvent /\ e.action # "OWNERSHIP_TRANSFERRED"
      /\ trail' = Append(trail, e) /\ UNCHANGED role
    BY DEF Audit, AuditAction, AuditEvent, Audited
<1>2. \A d \in Call : Transferring(d)' => Transferring(d) /\ svc'[d] = svc[d]
    BY DEF Audit, Transferring, Idle, Inv, TypeOK
<1>3. /\ Len(trail) \in Nat /\ Len(trail') = Len(trail) + 1
      /\ \A i \in 1 .. Len(trail) : trail'[i] = trail[i]
      /\ trail'[Len(trail) + 1] = e
    BY <1>1 DEF Inv, TypeOK
<1>4. OneTransfers'
    BY <1>2 DEF Inv, OneTransfers
<1>5. TitledTransfers'
  <2> SUFFICES ASSUME NEW d \in Call, Transferring(d)'
               PROVE  Titled(svc[d].by, Len(trail))'
      BY DEF TitledTransfers
  <2>1. Transferring(d) /\ svc'[d] = svc[d] /\ svc[d].by \in User
      BY <1>2 DEF Inv, TypeOK, Service, Idle, Transferring
  <2>2. Titled(svc[d].by, Len(trail))
      BY <2>1 DEF Inv, TitledTransfers
  <2>3. ASSUME NEW v \in User, Titled(v, Len(trail))
        PROVE  Titled(v, Len(trail))'
      BY <1>1, <2>3, TitleUnmoved DEF Inv
  <2> QED BY <2>1, <2>2, <2>3 DEF Titled, Transfers
<1>6. OwnerIsTitled'
  <2> SUFFICES ASSUME NEW u \in User, role[u] = "OWNER"
               PROVE  Titled(u, Len(trail))'
      BY <1>1 DEF OwnerIsTitled
  <2>1. Titled(u, Len(trail))
      BY DEF Inv, OwnerIsTitled
  <2> QED BY <1>1, <2>1, TitleUnmoved DEF Inv
<1>7. TitlePassesOn'
  <2> SUFFICES ASSUME NEW i \in Transfers'
               PROVE  Titled(trail[i].by, i - 1)'
      BY DEF TitlePassesOn
  <2>1. i \in Transfers /\ i \in 1 .. Len(trail) /\ trail'[i] = trail[i]
      BY <1>1, <1>3 DEF Transfers, Inv, TypeOK
  <2>2. Titled(trail[i].by, i - 1) /\ trail[i].by \in User
      BY <2>1 DEF Inv, TitlePassesOn, TypeOK, Transfers, AuditEvent, Audited
  <2> QED BY <1>1, <1>3, <2>1, <2>2, TitleKept DEF Inv
<1> QED BY <1>4, <1>5, <1>6, <1>7 DEF Inv

\* A transfer begins: the owner who asks is the one the trail names.
LEMMA TransferOwnershipStep ==
    ASSUME Inv, TypeOK', NEW c \in Call, NEW by \in User, NEW new \in User,
           TransferOwnership(c, by, new)
    PROVE  Inv'
<1>1. /\ UNCHANGED <<role, trail>>
      /\ svc'[c] = [at |-> "transferTarget", u |-> new, by |-> by]
      /\ \A d \in Call : d # c => svc'[d] = svc[d]
      /\ \A d \in Call : ~Transferring(d)
    BY DEF TransferOwnership, Lock, Begin, Transferring, Inv, TypeOK
<1>2. OneTransfers'
    BY <1>1 DEF OneTransfers, Transferring
<1>3. Titled(by, Len(trail))
    BY DEF TransferOwnership, Inv, OwnerIsTitled
<1>4. TitledTransfers'
  <2> SUFFICES ASSUME NEW d \in Call, Transferring(d)'
               PROVE  Titled(svc[d].by, Len(trail))'
      BY DEF TitledTransfers
  <2>1. d = c
      BY <1>1 DEF Transferring
  <2>2. svc'[d].by = by
      BY <1>1, <2>1
  <2> QED BY <1>1, <1>3, <2>2 DEF Titled, Transfers
<1>5. OwnerIsTitled'
    BY <1>1 DEF Inv, OwnerIsTitled, Titled, Transfers
<1>6. TitlePassesOn'
    BY <1>1 DEF Inv, TitlePassesOn, Titled, Transfers
<1> QED BY <1>2, <1>4, <1>5, <1>6 DEF Inv

\* A transfer commits: the title moves to the only owner left.
LEMMA TransferWriteStep ==
    ASSUME Inv, TypeOK', NEW c \in Call, TransferWrite(c), svc[c] \in Service,
           role[svc[c].u] # NoRole
    PROVE  Inv'
<1>1. PICK by \in User, new \in User : by = svc[c].by /\ new = svc[c].u
    BY DEF TransferWrite, Service
<1>2. /\ trail' = Append(trail, Transfer(by, new))
      /\ \A u \in User : role'[u] = "OWNER" => u = new
      /\ svc' = [svc EXCEPT ![c] = Idle]
    BY SMTT(30), <1>1 DEF TransferWrite, Inv, TypeOK
<1>3. \A d \in Call : ~Transferring(d)'
    BY <1>2 DEF Inv, OneTransfers, Transferring, TransferWrite, Idle, TypeOK
<1>4. OneTransfers' /\ TitledTransfers'
    BY <1>3 DEF OneTransfers, TitledTransfers
<1>5. Transfer(by, new) \in AuditEvent
    BY <1>1 DEF Transfer, AuditEvent
<1>6. Titled(new, Len(trail))'
    BY <1>1, <1>2, TitleMoved DEF Inv
<1>7. OwnerIsTitled'
    BY <1>2, <1>6 DEF OwnerIsTitled
<1>8. /\ Len(trail) \in Nat /\ Len(trail') = Len(trail) + 1
      /\ DOMAIN trail' = 1 .. (Len(trail) + 1)
      /\ \A i \in 1 .. Len(trail) : trail'[i] = trail[i]
      /\ trail'[Len(trail) + 1] = Transfer(by, new)
    BY <1>2, <1>5 DEF Inv, TypeOK
<1>9. TitlePassesOn'
  <2> SUFFICES ASSUME NEW i \in Transfers'
               PROVE  Titled(trail[i].by, i - 1)'
      BY DEF TitlePassesOn
  <2>1. CASE i = Len(trail) + 1
    <3>1. trail'[i].by = by /\ i - 1 = Len(trail)
        BY <1>8, <2>1 DEF Transfer
    <3>2. Titled(by, Len(trail))
        BY <1>1 DEF Inv, TitledTransfers, TransferWrite, Transferring
    <3>3. PICK n \in 0 .. Len(trail) : n = Len(trail)
        BY <1>8
    <3>4. Titled(by, n)'
        BY <1>2, <1>5, <3>2, <3>3, TitleKept DEF Inv
    <3> QED BY <3>1, <3>3, <3>4 DEF Titled, Transfers
  <2>2. CASE i # Len(trail) + 1
    <3>1. i \in Transfers /\ i \in 1 .. Len(trail) /\ trail'[i] = trail[i]
        BY <1>8, <2>2 DEF Transfers, Inv, TypeOK
    <3>2. Titled(trail[i].by, i - 1) /\ trail[i].by \in User
        BY <3>1 DEF Inv, TitlePassesOn, TypeOK, Transfers, AuditEvent, Audited
    <3> QED BY <1>2, <1>5, <1>8, <3>1, <3>2, TitleKept DEF Inv
  <2> QED BY <2>1, <2>2
<1> QED BY <1>4, <1>7, <1>9 DEF Inv

-----------------------------------------------------------------------------
(* Shape *)

\* Whatever a request does next, members, trail and requests keep their shape.
LEMMA StepTypes ==
    ASSUME TypeOK, NEW c \in Call, Step(c)
    PROVE  TypeOK'
<1> USE DEF TypeOK
<1>1. svc[c] \in Service
    BY DEF Step, AddCreate, UpdateRoleTarget, UpdateRoleCount, UpdateRoleWrite, RemoveTarget,
           RemoveCountAdmins, RemoveCountOwners, RemoveWrite, Audit, TransferTarget,
           TransferWrite, Crash, Idle
<1>2. ASSUME Refuse(c) PROVE TypeOK'
    BY <1>2 DEF Refuse
<1>3. ASSUME NEW new \in Granted, Write(c, new),
             svc[c].at \notin {"transferTarget", "transferWrite"} PROVE TypeOK'
  <2>1. [svc[c] EXCEPT !.at = "audit", !.new = new] \in Service
      BY <1>1, <1>3 DEF Service
  <2>2. svc' = [svc EXCEPT ![c] = [svc[c] EXCEPT !.at = "audit", !.new = new]]
      BY <1>1, <1>3 DEF Write
  <2> QED BY <1>1, <1>3, <2>1, <2>2 DEF Write, Granted, Service
<1>4. ASSUME NEW at \in {"updateWrite", "removeCountOwners", "removeWrite"}, Goto(c, at),
             svc[c].at \notin {"transferTarget", "transferWrite"} PROVE TypeOK'
    BY <1>1, <1>4 DEF Goto, Service
<1>5. ASSUME NEW at \in {"updateCount", "updateWrite", "removeCountAdmins", "removeWrite"},
             Keep(c, at), svc[c].at \notin {"transferTarget", "transferWrite"} PROVE TypeOK'
  <2>1. svc' = [svc EXCEPT ![c] = [svc[c] EXCEPT !.at = at, !.from = role[svc[c].u]]]
      BY <1>1, <1>5 DEF Keep
  <2>2. [svc[c] EXCEPT !.at = at, !.from = role[svc[c].u]] \in Service
      BY <1>1, <1>5 DEF Service
  <2> QED BY <1>5, <2>1, <2>2 DEF Keep
<1>6. CASE AddCreate(c)
    BY <1>1, <1>2, <1>3, <1>6 DEF AddCreate, Service
<1>7. CASE UpdateRoleTarget(c)
    BY <1>2, <1>5, <1>7 DEF UpdateRoleTarget
<1>8. CASE UpdateRoleCount(c)
    BY <1>2, <1>4, <1>8 DEF UpdateRoleCount
<1>9. CASE UpdateRoleWrite(c)
    BY <1>1, <1>2, <1>3, <1>9 DEF UpdateRoleWrite, Service
<1>10. CASE RemoveTarget(c)
    BY <1>2, <1>5, <1>10 DEF RemoveTarget
<1>11. CASE RemoveCountAdmins(c)
    BY <1>2, <1>4, <1>11 DEF RemoveCountAdmins
<1>12. CASE RemoveCountOwners(c)
    BY <1>2, <1>4, <1>12 DEF RemoveCountOwners
<1>13. CASE RemoveWrite(c)
    BY <1>2, <1>3, <1>13 DEF RemoveWrite, Granted, Role, NoRole
<1>14. CASE Audit(c)
    BY <1>14 DEF Audit, AuditAction, AuditEvent, Audited
<1>15. CASE TransferTarget(c)
  <2>1. ASSUME Goto(c, "transferWrite") PROVE TypeOK'
      BY <1>1, <1>15, <2>1 DEF Goto, Service, TransferTarget
  <2> QED BY <1>2, <1>15, <2>1 DEF TransferTarget
<1>16. CASE TransferWrite(c)
  <2>1. svc[c].by \in User /\ svc[c].u \in User
      BY <1>1, <1>16 DEF Service, TransferWrite
  <2>2. Transfer(svc[c].by, svc[c].u) \in AuditEvent
      BY <2>1 DEF Transfer, AuditEvent
  <2>3. CASE role[svc[c].u] = NoRole
      BY <1>2, <1>16, <2>3 DEF TransferWrite
  <2>4. CASE role[svc[c].u] # NoRole
    <3>1. role' \in [User -> Role]
        BY <1>16, <2>4 DEF TransferWrite, Role
    <3>2. trail' \in Seq(AuditEvent)
        BY SMTT(30), <1>16, <2>2, <2>4 DEF TransferWrite
    <3>3. svc' \in [Call -> Service \cup {Idle}]
        BY <1>16, <2>4 DEF TransferWrite
    <3> QED BY <3>1, <3>2, <3>3
  <2> QED BY <2>3, <2>4
<1>17. CASE Crash(c)
    BY <1>2, <1>17 DEF Crash
<1> QED BY <1>6, <1>7, <1>8, <1>9, <1>10, <1>11, <1>12, <1>13, <1>14, <1>15, <1>16, <1>17 DEF Step

\* A request that begins has a shape, too.
LEMMA BeginTypes ==
    ASSUME TypeOK, NEW c \in Call, NEW s \in Service, Begin(c, s)
    PROVE  TypeOK'
  BY DEF TypeOK, Begin

-----------------------------------------------------------------------------
(* Invariance *)

\* A request that is under way keeps the invariant.
LEMMA StepKeeps ==
    ASSUME Inv, NEW c \in Call, Step(c)
    PROVE  Inv'
<1>1. TypeOK' /\ TypeOK
    BY StepTypes DEF Inv
<1>2. svc[c] \in Service
    BY <1>1 DEF Step, AddCreate, UpdateRoleTarget, UpdateRoleCount, UpdateRoleWrite,
           RemoveTarget, RemoveCountAdmins, RemoveCountOwners, RemoveWrite, Audit,
           TransferTarget, TransferWrite, Crash, Idle, TypeOK
<1>3. ASSUME Refuse(c) PROVE Inv'
    BY <1>1, <1>3, QuietStep DEF Refuse, Transferring, Idle, TypeOK
<1>4. ASSUME NEW at, at \notin {"transferTarget", "transferWrite"}, Goto(c, at) PROVE Inv'
    BY <1>1, <1>2, <1>4, QuietStep DEF Goto, Transferring, TypeOK
<1>5. ASSUME NEW at, at \notin {"transferTarget", "transferWrite"}, Keep(c, at) PROVE Inv'
    BY <1>1, <1>2, <1>5, QuietStep DEF Keep, Transferring, TypeOK
<1>6. CASE AddCreate(c)
    BY <1>1, <1>2, <1>3, <1>6, GrantingStep DEF AddCreate, Service
<1>7. CASE UpdateRoleTarget(c)
    BY <1>3, <1>5, <1>7 DEF UpdateRoleTarget
<1>8. CASE UpdateRoleCount(c)
    BY <1>3, <1>4, <1>8 DEF UpdateRoleCount
<1>9. CASE UpdateRoleWrite(c)
    BY <1>1, <1>2, <1>3, <1>9, GrantingStep DEF UpdateRoleWrite, Service
<1>10. CASE RemoveTarget(c)
    BY <1>3, <1>5, <1>10 DEF RemoveTarget
<1>11. CASE RemoveCountAdmins(c)
    BY <1>3, <1>4, <1>11 DEF RemoveCountAdmins
<1>12. CASE RemoveCountOwners(c)
    BY <1>3, <1>4, <1>12 DEF RemoveCountOwners
<1>13. CASE RemoveWrite(c)
  <2>1. NoRole \in Granted
      BY DEF NoRole, Granted, Role
  <2> QED BY <1>1, <1>2, <1>3, <1>13, <2>1, GrantingStep DEF RemoveWrite
<1>14. CASE Audit(c)
    BY <1>1, <1>14, AuditStep
<1>15. CASE TransferTarget(c)
  <2>1. ASSUME Goto(c, "transferWrite") PROVE Inv'
      BY <1>1, <1>2, <1>15, <2>1, QuietStep DEF Goto, Transferring, TypeOK, TransferTarget
  <2> QED BY <1>3, <1>15, <2>1 DEF TransferTarget
<1>16. CASE TransferWrite(c)
    BY <1>1, <1>2, <1>3, <1>16, TransferWriteStep DEF TransferWrite
<1>17. CASE Crash(c)
    BY <1>3, <1>17 DEF Crash
<1> QED BY <1>6, <1>7, <1>8, <1>9, <1>10, <1>11, <1>12, <1>13, <1>14, <1>15, <1>16, <1>17 DEF Step

\* So does one that begins: it grants OWNER only as a transfer.
LEMMA BeginKeeps ==
    ASSUME Inv, NEW c \in Call, NEW by \in User, NEW u \in User,
           \/ \E new \in RoleInUse : Add(c, by, u, new) \/ UpdateRole(c, by, u, new)
           \/ Remove(c, by, u)
           \/ TransferOwnership(c, by, u)
    PROVE  Inv'
<1>1. ASSUME NEW at \in {"addCreate", "updateTarget", "removeTarget"}, NEW new \in Granted,
             Begin(c, Request(at, u, new))
      PROVE  Inv'
  <2>1. Request(at, u, new) \in Service
      BY DEF Request, Service, Role, NoRole
  <2>2. TypeOK'
      BY <1>1, <2>1, BeginTypes DEF Inv
  <2>3. ~Transferring(c)'
      BY <1>1 DEF Begin, Transferring, Request, Inv, TypeOK
  <2> QED BY <1>1, <2>2, <2>3, QuietStep DEF Begin, Inv, TypeOK
<1>2. ASSUME NEW new \in RoleInUse, Add(c, by, u, new) \/ UpdateRole(c, by, u, new)
      PROVE  Inv'
    BY <1>1, <1>2 DEF Add, UpdateRole, Granted, Role
<1>3. CASE Remove(c, by, u)
  <2>1. NoRole \in Granted
      BY DEF NoRole, Granted, Role
  <2> QED BY <1>1, <1>3, <2>1 DEF Remove
<1>4. CASE TransferOwnership(c, by, u)
  <2>1. [at |-> "transferTarget", u |-> u, by |-> by] \in Service
      BY DEF Service
  <2>2. TypeOK'
      BY <1>4, <2>1, BeginTypes DEF TransferOwnership, Inv
  <2> QED BY <1>4, <2>2, TransferOwnershipStep
<1> QED BY <1>2, <1>3, <1>4

\* The founder alone is a member at first, and holds the title.
LEMMA InitHolds == Init => Inv
<1> SUFFICES ASSUME Init PROVE Inv
    OBVIOUS
<1>1. TypeOK
    BY DEF Init, TypeOK, Role, Idle
<1>2. Transfers = {}
    BY DEF Init, Transfers
<1>3. OneTransfers /\ TitledTransfers
    BY DEF Init, OneTransfers, TitledTransfers, Transferring, Idle
<1>4. OwnerIsTitled
    BY <1>2 DEF Init, OwnerIsTitled, Titled, NoRole
<1>5. TitlePassesOn
    BY <1>2 DEF TitlePassesOn
<1> QED BY <1>1, <1>3, <1>4, <1>5 DEF Inv

\* The invariant holds in every reachable state of OrganizationMembersService,
\* whatever requests overlap.
THEOREM Invariance == Spec => []Inv
<1>1. Inv /\ [Next]_vars => Inv'
  <2> SUFFICES ASSUME Inv, [Next]_vars PROVE Inv'
      OBVIOUS
  <2>1. CASE Next
    <3>1. PICK c \in Call :
            \/ \E by, u \in User :
                \/ \E new \in RoleInUse : Add(c, by, u, new) \/ UpdateRole(c, by, u, new)
                \/ Remove(c, by, u)
                \/ TransferOwnership(c, by, u)
            \/ Step(c)
        BY <2>1 DEF Next
    <3>2. CASE Step(c)
        BY <3>2, StepKeeps
    <3>3. ASSUME NEW by \in User, NEW u \in User,
                 \/ \E new \in RoleInUse : Add(c, by, u, new) \/ UpdateRole(c, by, u, new)
                 \/ Remove(c, by, u)
                 \/ TransferOwnership(c, by, u)
          PROVE  Inv'
        BY <3>3, BeginKeeps
    <3> QED BY <3>1, <3>2, <3>3
  <2>2. CASE UNCHANGED vars
      BY <2>2 DEF vars, Inv, TypeOK, OneTransfers, TitledTransfers, Transferring,
                  OwnerIsTitled, TitlePassesOn, Titled, Transfers
  <2> QED BY <2>1, <2>2
<1> QED BY <1>1, InitHolds, PTL DEF Spec

\* Tables and requests keep their shape; no request but a transfer is about to
\* grant OWNER.
THEOREM TypeCorrect == Spec => []TypeOK
<1>1. Inv => TypeOK
    BY DEF Inv
<1> QED BY <1>1, Invariance, PTL

\* Nobody is OWNER but the founder or the recipient of the latest audited
\* transfer, so there is never a second owner.
THEOREM OwnerTitled == Spec => []OwnerIsTitled
<1>1. Inv => OwnerIsTitled
    BY DEF Inv
<1> QED BY <1>1, Invariance, PTL

\* Each transfer was made by the owner whom the one before it had made: stale
\* ownership is never handed on, however many transfers are asked for at once.
THEOREM TitlePasses == Spec => []TitlePassesOn
<1>1. Inv => TitlePassesOn
    BY DEF Inv
<1> QED BY <1>1, Invariance, PTL
================================================================================
