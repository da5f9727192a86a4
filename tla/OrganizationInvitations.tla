------------------------ MODULE OrganizationInvitations ------------------------
(***************************************************************************)
(* OrganizationInvitationsService: invitations of one organization to the  *)
(* addresses of users, from PENDING to one closing status.                 *)
(*                                                                         *)
(* Every await is a step.  Acceptance and the replacement of a stale       *)
(* invitation are transactions: the invitation row they update first stays *)
(* locked, and unchanged for everybody else, until they commit.            *)
(* Memberships also change by the other services, at any time.             *)
(***************************************************************************)
EXTENDS Naturals, Sequences

CONSTANTS
    Call,           \* requests that may be served at the same time
    User,
    Invitee,        \* the users whose e-mail addresses are invited
    Founder,
    Moderator,
    RoleInUse,
    MaxInvitations  \* bound on the invitations made

ASSUME FounderAssumption == Founder \in User
ASSUME InviteeAssumption == Invitee \subseteq User
ASSUME MaxInvitationsAssumption == MaxInvitations \in Nat

VARIABLES
    role,        \* the role of each user in the organization, or that it has none
    invitation,  \* the OrganizationInvitation rows, in order of creation
    trail,       \* the audit entries: which action, on which invitation
    ask          \* where each request stands, and what it has read

vars == <<role, invitation, trail, ask>>

Closed == {"ACCEPTED", "DECLINED", "EXPIRED", "REVOKED"}
OrganizationInvitationStatus == {"PENDING"} \cup Closed
NoRole == "NONE"
MANAGING_MEMBER_ROLES == {"OWNER", "ADMIN"}
Id == 1 .. MaxInvitations
\* stale: expiresAt has passed.
Invitation == [to : Invitee, role : RoleInUse, status : OrganizationInvitationStatus,
               stale : BOOLEAN]
AuditEvent == [action : {"MEMBER_INVITED"} \cup (Closed \ {"EXPIRED"}), i : Id]

Idle == [at |-> "idle"]
Invite == [at : {"inviteMember", "inviteCreate"}, to : Invitee, role : RoleInUse]
Replace == [at : {"retire"}, to : Invitee, role : RoleInUse, i : Id] \cup
           [at : {"replace"}, to : Invitee, role : RoleInUse, i : Id, retired : BOOLEAN]
Answer == [at : {"accept", "acceptFind", "EXPIRED", "DECLINED", "REVOKED"}, i : Id]
          \cup [at : {"acceptJoin"}, i : Id, member : BOOLEAN]
Entry == [at : {"audit"}, action : {"MEMBER_INVITED", "DECLINED", "REVOKED"}, i : Id]

Init ==
    /\ role = [u \in User |-> IF u = Founder THEN "OWNER" ELSE NoRole]
    /\ invitation = <<>>
    /\ trail = {}
    /\ ask = [c \in Call |-> Idle]

-----------------------------------------------------------------------------
(* The table *)

PendingTo(u) ==
    {i \in DOMAIN invitation : invitation[i].to = u /\ invitation[i].status = "PENDING"}

\* The rows transactions of other requests have updated but not committed.
LockedFor(c) ==
    {ask[d].i : d \in {e \in Call \ {c} :
        \/ ask[e].at \in {"acceptFind", "acceptJoin"}
        \/ ask[e].at = "replace" /\ ask[e].retired}}

MayManage(u) == u \in Moderator \/ role[u] \in MANAGING_MEMBER_ROLES

Goto(c, s) == ask' = [ask EXCEPT ![c] = s]
Reads == UNCHANGED <<role, invitation, trail>>
Refuse(c) == Goto(c, Idle) /\ Reads

\* A request that finds its row locked waits.
Free(c) == ask[c].i \notin LockedFor(c)
Close(c, status) == invitation' = [invitation EXCEPT ![ask[c].i].status = status]

New(u, r) == Append(invitation, [to |-> u, role |-> r, status |-> "PENDING", stale |-> FALSE])

-----------------------------------------------------------------------------
(* invite *)

InviteFind(c, by, u, r) ==
    /\ ask[c] = Idle /\ MayManage(by) /\ r # "OWNER"
    /\ \/ PendingTo(u) = {} /\ Goto(c, [at |-> "inviteMember", to |-> u, role |-> r])
       \/ \E i \in PendingTo(u) :
            /\ invitation[i].stale
            /\ Goto(c, [at |-> "retire", to |-> u, role |-> r, i |-> i])
    /\ Reads

InviteMember(c) ==
    /\ ask[c].at = "inviteMember"
    /\ Goto(c, IF role[ask[c].to] = NoRole THEN [ask[c] EXCEPT !.at = "inviteCreate"] ELSE Idle)
    /\ Reads

(* Mutant: the partial unique index is missing. *)
InviteCreateUnindexed(c) ==
    /\ ask[c].at = "inviteCreate" /\ Len(invitation) < MaxInvitations
    /\ invitation' = New(ask[c].to, ask[c].role)
    /\ Goto(c, [at |-> "audit", action |-> "MEMBER_INVITED", i |-> Len(invitation) + 1])
    /\ UNCHANGED <<role, trail>>

(* The partial unique index refuses a second pending invitation, after it  *)
(* waited for the transaction that may be closing the first.               *)
InviteCreate(c) ==
    /\ ask[c].at = "inviteCreate" /\ Len(invitation) < MaxInvitations
    /\ PendingTo(ask[c].to) \cap LockedFor(c) = {}
    /\ IF PendingTo(ask[c].to) # {} THEN Refuse(c)
       ELSE /\ invitation' = New(ask[c].to, ask[c].role)
            /\ Goto(c, [at |-> "audit", action |-> "MEMBER_INVITED", i |-> Len(invitation) + 1])
            /\ UNCHANGED <<role, trail>>

\* The transaction's first statement; it locks the row if it is still pending.
Retire(c) ==
    /\ ask[c].at = "retire" /\ Free(c)
    /\ LET s == ask[c]
       IN Goto(c, [at |-> "replace", to |-> s.to, role |-> s.role, i |-> s.i,
                   retired |-> invitation[s.i].status = "PENDING"])
    /\ Reads

(* The rest of the transaction.  The conflicts it throws roll the          *)
(* retirement back.  A membership made between its last read and its       *)
(* commit leaves the tables as one made just after the commit does.        *)
ReplaceStale(c) ==
    /\ ask[c].at = "replace" /\ Len(invitation) < MaxInvitations
    /\ LET s == ask[c]
           others == PendingTo(s.to) \ (IF s.retired THEN {s.i} ELSE {})
       IN /\ others \cap LockedFor(c) = {}
          /\ IF others # {} \/ role[s.to] # NoRole THEN Refuse(c)
             ELSE /\ invitation' = Append(
                        IF s.retired THEN [invitation EXCEPT ![s.i].status = "EXPIRED"]
                                     ELSE invitation,
                        [to |-> s.to, role |-> s.role, status |-> "PENDING", stale |-> FALSE])
                  /\ trail' = trail \cup {[action |-> "MEMBER_INVITED", i |-> Len(invitation) + 1]}
                  /\ Goto(c, Idle)
                  /\ UNCHANGED role

-----------------------------------------------------------------------------
(* accept *)

AcceptFind(c, i) ==
    /\ ask[c] = Idle
    /\ \/ invitation[i].stale /\ Goto(c, [at |-> "EXPIRED", i |-> i])
       \/ /\ ~invitation[i].stale /\ invitation[i].status = "PENDING"
          /\ Goto(c, [at |-> "accept", i |-> i])
    /\ Reads

\* The claim: the row is locked if it is still pending.
AcceptClaim(c) ==
    /\ ask[c].at = "accept" /\ Free(c)
    /\ Goto(c, IF invitation[ask[c].i].status = "PENDING"
               THEN [ask[c] EXCEPT !.at = "acceptFind"] ELSE Idle)
    /\ Reads

AcceptFindMembership(c) ==
    /\ ask[c].at = "acceptFind"
    /\ LET i == ask[c].i
       IN Goto(c, [at |-> "acceptJoin", i |-> i, member |-> role[invitation[i].to] # NoRole])
    /\ Reads

\* Membership, entry and commit; a membership made meanwhile rolls all back.
AcceptJoin(c) ==
    /\ ask[c].at = "acceptJoin"
    /\ LET inv == invitation[ask[c].i]
       IN IF ~ask[c].member /\ role[inv.to] # NoRole THEN Refuse(c)
          ELSE /\ role' = IF ask[c].member THEN role ELSE [role EXCEPT ![inv.to] = inv.role]
               /\ Close(c, "ACCEPTED")
               /\ trail' = trail \cup {[action |-> "ACCEPTED", i |-> ask[c].i]}
               /\ Goto(c, Idle)

-----------------------------------------------------------------------------
(* decline, revoke, listMine *)

Decline(c, i) == ask[c] = Idle /\ Goto(c, [at |-> "DECLINED", i |-> i]) /\ Reads

Revoke(c, by, i) ==
    /\ ask[c] = Idle /\ MayManage(by)
    /\ Goto(c, [at |-> "REVOKED", i |-> i])
    /\ Reads

\* Of the pending invitations the list has read, a stale one is expired.
ListMine(c, u) ==
    /\ ask[c] = Idle
    /\ \E i \in PendingTo(u) : invitation[i].stale /\ Goto(c, [at |-> "EXPIRED", i |-> i])
    /\ Reads

(* Mutant: a lost claim is audited like a won one. *)
ClaimTransitionSilent(c) ==
    /\ ask[c].at \in {"EXPIRED", "DECLINED", "REVOKED"} /\ Free(c)
    /\ IF invitation[ask[c].i].status # "PENDING" THEN UNCHANGED invitation
       ELSE Close(c, ask[c].at)
    /\ Goto(c, IF ask[c].at = "EXPIRED" THEN Idle
               ELSE [at |-> "audit", action |-> ask[c].at, i |-> ask[c].i])
    /\ UNCHANGED <<role, trail>>

\* A claim that finds the invitation closed fails the request.
ClaimTransition(c) ==
    /\ ask[c].at \in {"EXPIRED", "DECLINED", "REVOKED"} /\ Free(c)
    /\ IF invitation[ask[c].i].status # "PENDING" THEN Refuse(c)
       ELSE /\ Close(c, ask[c].at)
            /\ Goto(c, IF ask[c].at = "EXPIRED" THEN Idle
                       ELSE [at |-> "audit", action |-> ask[c].at, i |-> ask[c].i])
            /\ UNCHANGED <<role, trail>>

Audit(c) ==
    /\ ask[c].at = "audit"
    /\ trail' = trail \cup {[action |-> ask[c].action, i |-> ask[c].i]}
    /\ Goto(c, Idle)
    /\ UNCHANGED <<role, invitation>>

-----------------------------------------------------------------------------
\* The process dies or a statement fails; an open transaction is rolled back.
Crash(c) == ask[c] # Idle /\ Refuse(c)

\* Fourteen days pass.
Lapse(i) ==
    /\ ~invitation[i].stale
    /\ invitation' = [invitation EXCEPT ![i].stale = TRUE]
    /\ UNCHANGED <<role, trail, ask>>

\* Memberships are added, changed and removed by the members' service.
ChangeRole(u, new) ==
    /\ role[u] # new
    /\ role' = [role EXCEPT ![u] = new]
    /\ UNCHANGED <<invitation, trail, ask>>

Next ==
    \/ \E c \in Call :
        \/ \E by \in User, u \in Invitee, r \in RoleInUse : InviteFind(c, by, u, r)
        \/ InviteMember(c) \/ InviteCreate(c) \/ Retire(c) \/ ReplaceStale(c)
        \/ \E i \in DOMAIN invitation :
            \/ AcceptFind(c, i) \/ Decline(c, i)
            \/ \E by \in User : Revoke(c, by, i)
        \/ AcceptClaim(c) \/ AcceptFindMembership(c) \/ AcceptJoin(c)
        \/ \E u \in Invitee : ListMine(c, u)
        \/ ClaimTransition(c) \/ Audit(c) \/ Crash(c)
    \/ \E i \in DOMAIN invitation : Lapse(i)
    \/ \E u \in User, new \in RoleInUse \cup {NoRole} : ChangeRole(u, new)

Spec == Init /\ [][Next]_vars

-----------------------------------------------------------------------------
(* Properties *)

\* Rows, entries and requests keep their shape.
TypeOK ==
    /\ role \in [User -> RoleInUse \cup {"OWNER", NoRole}]
    /\ invitation \in Seq(Invitation) /\ Len(invitation) <= MaxInvitations
    /\ trail \subseteq AuditEvent
    /\ ask \in [Call -> Invite \cup Replace \cup Answer \cup Entry \cup {Idle}]

\* Of the invitations to one address only the newest can be pending, also when
\* two requests replace the same stale one or invite at once.
OnlyNewestPends ==
    \A i, j \in DOMAIN invitation :
        i < j /\ invitation[i].to = invitation[j].to => invitation[i].status # "PENDING"

\* An acceptance and its audit entry are never without each other, and an entry
\* of a refusal or revocation tells of one that took effect.
AuditAgrees ==
    \A i \in DOMAIN invitation :
        LET audited == {e.action : e \in {f \in trail : f.i = i}}
        IN /\ "ACCEPTED" \in audited <=> invitation[i].status = "ACCEPTED"
           /\ audited \cap Closed \subseteq {invitation[i].status}

================================================================================
