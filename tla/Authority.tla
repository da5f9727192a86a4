------------------------------- MODULE Authority -------------------------------
(***************************************************************************)
(* AuthorityService: a permission is asked for, approved or denied by who  *)
(* controls it, revoked, and its capability suspended or resumed; evaluate *)
(* is the gateway other services call before they act.                     *)
(*                                                                         *)
(* A Permission is one exact scope: subject or organization, capability,   *)
(* resource, recipient and purpose.  Those the organization owns are       *)
(* controlled by its current OWNER, the others by the Subject.  Each has a *)
(* capability of its own here.  A person's resource within a business,     *)
(* which asks for a membership besides, is left out, and so are the rows   *)
(* written for the record of suspensions and evaluations.                  *)
(*                                                                         *)
(* evaluate only reads, and records its decision; the state it reads is    *)
(* that of PermissionGate, which this module implements.                   *)
(*                                                                         *)
(* A request is its checks and its transaction, one action each; refusals  *)
(* are left out.  What may increase authority is two: who controls it is   *)
(* looked at under the lock of the Organization, and then it is written.   *)
(* Ownership passes on under that lock too, but the role writes of         *)
(* OrganizationMembers, which do not take it, may unseat the OWNER.        *)
(***************************************************************************)
EXTENDS Naturals, Sequences

CONSTANTS
    Call,                \* requests being served
    Person,              \* users
    Subject,             \* the person whose permissions these are
    Permission,          \* exact scopes
    OrganizationOwned,   \* those that belong to the organization
    NoOwner,             \* nobody is the OWNER any more
    Expiry,              \* when requests expire, or Never
    Never,               \* the null of an expiry
    MaxRequests,         \* bound on the requests for permission
    MaxTime              \* bound on the clock

ASSUME PersonAssumption == Subject \in Person /\ NoOwner \notin Person
ASSUME PermissionAssumption == OrganizationOwned \subseteq Permission
ASSUME ExpiryAssumption == Never \notin Nat /\ Expiry \subseteq Nat \cup {Never}
ASSUME BoundAssumption == MaxRequests \in Nat /\ MaxTime \in Nat

VARIABLES
    now,        \* the clock
    owner,      \* the OWNER of the organization, or NoOwner
    request,    \* the AuthorityRequest rows, each with its grant and events
    suspended,  \* the permissions whose capability is suspended
    call        \* what each request has read and will do next

vars == <<now, owner, request, suspended, call>>

RequestStatus == {"PENDING", "APPROVED", "DENIED"}
GrantStatus == {"NONE", "ACTIVE", "REVOKED"}
AuthorityEvent == {"REQUEST_CREATED", "REQUEST_APPROVED", "REQUEST_DENIED",
                   "GRANT_CREATED", "GRANT_REVOKED"}
AuthorityRequest == [permission : Permission, expires : Expiry, status : RequestStatus,
                     grant : GrantStatus, events : Seq(AuthorityEvent)]
Idle == [at |-> "idle"]

-----------------------------------------------------------------------------
Init ==
    /\ now = 0
    /\ owner \in Person
    /\ request = <<>>
    /\ suspended = {}
    /\ call = [c \in Call |-> Idle]

Proceed(c, state) == call' = [call EXCEPT ![c] = state]

Controls(u, p) == u = IF p \in OrganizationOwned THEN owner ELSE Subject

Expired(e) == e # Never /\ e <= now

\* The active grants of exactly one permission, by their requests.
ActiveGrants(p) ==
    {i \in DOMAIN request : request[i].permission = p /\ request[i].grant = "ACTIVE"}

\* One transaction; asking gives nothing yet.
CreateRequest(p, e) ==
    /\ Len(request) < MaxRequests
    /\ ~Expired(e)
    /\ request' = Append(request, [permission |-> p, expires |-> e, status |-> "PENDING",
                                   grant |-> "NONE", events |-> <<"REQUEST_CREATED">>])
    /\ UNCHANGED <<now, owner, suspended, call>>

(* approve and deny: the request is read, and the caller controls it.      *)
DecideRead(c, u, i, decision) ==
    /\ call[c] = Idle
    /\ Controls(u, request[i].permission)
    /\ request[i].status = "PENDING"
    /\ decision = "approve" => ~Expired(request[i].expires)
    /\ Proceed(c, [at |-> decision, by |-> u, i |-> i])
    /\ UNCHANGED <<now, owner, request, suspended>>

\* A request that is decided, with the events written for it.
Decided(r, status, events) == [r EXCEPT !.status = status, !.events = @ \o events]

Approved(r) ==
    [Decided(r, "APPROVED", <<"REQUEST_APPROVED", "GRANT_CREATED">>) EXCEPT !.grant = "ACTIVE"]

Denied(r) == Decided(r, "DENIED", <<"REQUEST_DENIED">>)

\* Nobody needs the lock of the organization for what is the Subject's.
NeedsLock(state) ==
    \/ state.at = "approveClaim" /\ request[state.i].permission \in OrganizationOwned
    \/ state.at = "resumeWrite" /\ state.permission \in OrganizationOwned

(* Mutant: no transaction locks the Organization. *)
NeverLocked == FALSE

\* A transaction that has looked at the owner holds the lock until it commits.
Locked == \E c \in Call : NeedsLock(call[c])

\* approve: the owner is read again, under the lock of the organization ...
ApproveCheck(c) ==
    LET i == call[c].i  p == request[i].permission IN
    /\ call[c].at = "approve"
    /\ p \in OrganizationOwned => ~Locked
    /\ Proceed(c, IF Controls(call[c].by, p)
                  THEN [at |-> "approveClaim", by |-> call[c].by, i |-> i]
                  ELSE Idle)
    /\ UNCHANGED <<now, owner, request, suspended>>

\* ... and the request is claimed while it is pending.
Approve(c) ==
    LET i == call[c].i IN
    /\ call[c].at = "approveClaim"
    /\ request' = IF request[i].status = "PENDING"
                  THEN [request EXCEPT ![i] = Approved(@)]
                  ELSE request
    /\ Proceed(c, Idle)
    /\ UNCHANGED <<now, owner, suspended>>

(* Mutant: the status is not looked at again either. *)
DenyAnyhow(c) ==
    LET i == call[c].i IN
    /\ call[c].at = "deny"
    /\ request' = [request EXCEPT ![i] = Denied(@)]
    /\ Proceed(c, Idle)
    /\ UNCHANGED <<now, owner, suspended>>

\* Who denies is not looked at again, the status is.
Deny(c) ==
    LET i == call[c].i IN
    /\ call[c].at = "deny"
    /\ request' = IF request[i].status = "PENDING"
                  THEN [request EXCEPT ![i] = Denied(@)]
                  ELSE request
    /\ Proceed(c, Idle)
    /\ UNCHANGED <<now, owner, suspended>>

\* revoke: one grant is named, and the permission it gives is controlled by
\* the caller.  before is for RevokedIsGone only.
RevokeRead(c, u, i) ==
    /\ call[c] = Idle
    /\ request[i].grant # "NONE"
    /\ Controls(u, request[i].permission)
    /\ Proceed(c, [at |-> "revokeFind", i |-> i, before |-> ActiveGrants(request[i].permission)])
    /\ UNCHANGED <<now, owner, request, suspended>>

(* Mutant: only the grant that was named is looked at. *)
RevokeFindSelected(c) ==
    LET found == ActiveGrants(request[call[c].i].permission) \cap {call[c].i} IN
    /\ call[c].at = "revokeFind"
    /\ Proceed(c, IF found = {} THEN Idle
                  ELSE [at |-> "revokeUpdate", found |-> found, before |-> call[c].before])
    /\ UNCHANGED <<now, owner, request, suspended>>

\* The transaction finds every active duplicate ...
RevokeFind(c) ==
    LET found == ActiveGrants(request[call[c].i].permission) IN
    /\ call[c].at = "revokeFind"
    /\ Proceed(c, IF found = {} THEN Idle
                  ELSE [at |-> "revokeUpdate", found |-> found, before |-> call[c].before])
    /\ UNCHANGED <<now, owner, request, suspended>>

Revoked(r) == [r EXCEPT !.grant = "REVOKED", !.events = Append(@, "GRANT_REVOKED")]

\* ... and updates those it found, whether or not they still are.
RevokeUpdate(c) ==
    /\ call[c].at = "revokeUpdate"
    /\ request' = [i \in DOMAIN request |->
            IF i \in call[c].found
            THEN Revoked(request[i])
            ELSE request[i]]
    /\ Proceed(c, Idle)
    /\ UNCHANGED <<now, owner, suspended>>

\* suspend and resume: the caller controls the scope.
ControlRead(c, u, p, control) ==
    /\ call[c] = Idle
    /\ Controls(u, p)
    /\ Proceed(c, [at |-> control, by |-> u, permission |-> p])
    /\ UNCHANGED <<now, owner, request, suspended>>

Suspend(c) ==
    /\ call[c].at = "suspend"
    /\ suspended' = suspended \cup {call[c].permission}
    /\ Proceed(c, Idle)
    /\ UNCHANGED <<now, owner, request>>

\* resume: only what may increase authority reads the owner again ...
ResumeCheck(c) ==
    LET p == call[c].permission IN
    /\ call[c].at = "resume"
    /\ p \in OrganizationOwned => ~Locked
    /\ Proceed(c, IF Controls(call[c].by, p)
                  THEN [at |-> "resumeWrite", by |-> call[c].by, permission |-> p]
                  ELSE Idle)
    /\ UNCHANGED <<now, owner, request, suspended>>

(* Mutant: what was granted before is granted again. *)
ResumeGranting(c) ==
    LET p == call[c].permission  again == {i \in DOMAIN request :
             request[i].permission = p /\ request[i].grant = "REVOKED"}
    IN /\ call[c].at = "resumeWrite"
       /\ suspended' = suspended \ {p}
       /\ request' = [i \in DOMAIN request |->
             IF i \in again THEN [request[i] EXCEPT !.grant = "ACTIVE"] ELSE request[i]]
       /\ Proceed(c, Idle)
       /\ UNCHANGED <<now, owner>>

\* ... and restores the capability.
Resume(c) ==
    /\ call[c].at = "resumeWrite"
    /\ suspended' = suspended \ {call[c].permission}
    /\ Proceed(c, Idle)
    /\ UNCHANGED <<now, owner, request>>

\* The ownership passes on: another request, under the lock.
TransferOwnership(u) ==
    /\ owner # NoOwner /\ u # owner
    /\ ~Locked
    /\ owner' = u
    /\ UNCHANGED <<now, request, suspended, call>>

\* updateRole and remove write the row of an OWNER they have read as another
\* role, and take no lock.
LoseOwner ==
    /\ owner # NoOwner
    /\ owner' = NoOwner
    /\ UNCHANGED <<now, request, suspended, call>>

Tick ==
    /\ now < MaxTime
    /\ now' = now + 1
    /\ UNCHANGED <<owner, request, suspended, call>>

\* The process dies between two awaits.
Abandon(c) ==
    /\ call[c] # Idle
    /\ Proceed(c, Idle)
    /\ UNCHANGED <<now, owner, request, suspended>>

Request ==
    \/ \E p \in Permission, e \in Expiry : CreateRequest(p, e)
    \/ \E c \in Call, u \in Person :
        \/ \E i \in DOMAIN request :
            \/ DecideRead(c, u, i, "approve") \/ DecideRead(c, u, i, "deny")
            \/ RevokeRead(c, u, i)
        \/ \E p \in Permission : ControlRead(c, u, p, "suspend") \/ ControlRead(c, u, p, "resume")

Next ==
    \/ Request
    \/ \E c \in Call : \/ ApproveCheck(c) \/ Approve(c) \/ Deny(c)
                       \/ RevokeFind(c) \/ RevokeUpdate(c)
                       \/ Suspend(c) \/ ResumeCheck(c) \/ Resume(c) \/ Abandon(c)
    \/ \E u \in Person : TransferOwnership(u)
    \/ LoseOwner \/ Tick

Spec == Init /\ [][Next]_vars

-----------------------------------------------------------------------------
(* Properties *)

\* The rows keep their shape.
TypeOK ==
    /\ now \in 0 .. MaxTime
    /\ owner \in Person \cup {NoOwner}
    /\ request \in Seq(AuthorityRequest)
    /\ suspended \subseteq Permission

\* The permission is u's to give, and has not become anybody else's: u may
\* have lost the organization, but no other has it.
NobodyElses(u, p) ==
    IF p \in OrganizationOwned THEN owner \in {u, NoOwner} ELSE u = Subject

\* Authority does not cross a change of ownership: a grant comes into being,
\* from a pending request, and a capability is restored, only by the decision
\* of one whose permission it was and whose place nobody has taken since.
ApprovalIsCurrent ==
    [][/\ \A i \in DOMAIN request :
             request[i].grant = "NONE" /\ request'[i].grant # "NONE" =>
                 /\ request[i].status = "PENDING"
                 /\ \E c \in Call : /\ call[c].at = "approveClaim" /\ call[c].i = i
                                    /\ call'[c] = Idle
                                    /\ NobodyElses(call[c].by, request[i].permission)
       /\ \A p \in suspended \ suspended' :
             \E c \in Call : /\ call[c].at = "resumeWrite" /\ call[c].permission = p
                            /\ call'[c] = Idle
                            /\ NobodyElses(call[c].by, p)]_<<request, suspended, call>>

\* A revocation takes back the permission, not one row: whatever was active
\* when it was asked for is revoked when it is done, and stays so.
RevokedIsGone ==
    [][/\ \A c \in Call :
             (RevokeFind(c) /\ call'[c] = Idle) \/ RevokeUpdate(c) =>
                 \A i \in call[c].before : request'[i].grant = "REVOKED"
       /\ \A i \in DOMAIN request :
             request[i].grant = "REVOKED" => request'[i].grant = "REVOKED"]_<<request, call>>

\* What the events of a request begin with, by its status.
Deciding(status) ==
    CASE status = "PENDING" -> <<"REQUEST_CREATED">>
      [] status = "DENIED" -> <<"REQUEST_CREATED", "REQUEST_DENIED">>
      [] status = "APPROVED" -> <<"REQUEST_CREATED", "REQUEST_APPROVED", "GRANT_CREATED">>

\* What was decided and revoked is what the events of a request tell: it is
\* decided once, and what follows that are its revocations, if it is revoked.
DecisionsAreRecorded ==
    \A i \in DOMAIN request :
        LET r == request[i]  decided == Deciding(r.status)  n == Len(decided) IN
        /\ DOMAIN decided \subseteq DOMAIN r.events
        /\ \A k \in DOMAIN r.events :
              r.events[k] = IF k <= n THEN decided[k] ELSE "GRANT_REVOKED"
        /\ Len(r.events) > n <=> r.grant = "REVOKED"
        /\ r.grant = "NONE" <=> r.status # "APPROVED"

\* What evaluate finds: an active grant that has not expired.
Permitting(p) == {i \in ActiveGrants(p) : ~Expired(request[i].expires)}

Granted == {p \in Permission : Permitting(p) # {}}

Gate == INSTANCE PermissionGate WITH granted <- Granted

\* To who asks, the service is the gate: every step grants, withdraws,
\* suspends or resumes, and none does two of these.
ImplementsGate == Gate!GateSpec
===============================================================================
