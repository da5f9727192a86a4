------------------------- MODULE BusinessResponsibility -------------------------
(***************************************************************************)
(* The Business Responsibilities of one organization, as                   *)
(* BusinessResponsibilitiesService keeps them in the tables of the ledger. *)
(*                                                                         *)
(* A mutation is one transaction: FOR SHARE locks on the organization and  *)
(* on the caller's membership, which last until the commit, a role check,  *)
(* an unlocked read of the row, an update that compares the row's status   *)
(* with the one read, the ledger events, the commit.  Nothing of it shows  *)
(* before the commit, and the update keeps the row locked until then: an   *)
(* operation is two actions, <Op>Read up to the read and <Op>Write from    *)
(* the update on.  Requests refused by the checks change nothing and are   *)
(* left out.  Creation holds an advisory lock on its request key.          *)
(***************************************************************************)
EXTENDS Naturals, Sequences

CONSTANTS
    Call,       \* requests being served
    User,       \* users of the platform
    Resp,       \* ids of Responsibility rows
    Key,        \* request keys of the clients
    RoleInUse,  \* the roles members are given
    MaxEvents   \* bound on the ledger of one row

OrganizationMemberRole ==
    {"OWNER", "ADMIN", "MANAGER", "OPERATOR", "VIEWER", "MEMBER"}
WORK_ROLES == {"OWNER", "ADMIN", "MANAGER", "OPERATOR"}
MANAGE_ROLES == {"OWNER", "ADMIN", "MANAGER"}

ASSUME RoleAssumption == RoleInUse \subseteq OrganizationMemberRole
ASSUME MaxEventsAssumption == MaxEvents \in Nat

VARIABLES
    role,    \* the role of each user in the organization, or that it has none
    closed,  \* whether the organization is deleted
    row,     \* its Responsibility rows
    ledger,  \* the ResponsibilityEvent rows of each, in order
    tx,      \* the transaction each call has open
    reply    \* the row the last transaction of each call returned

vars == <<role, closed, row, ledger, tx, reply>>

Open == {"ACTIVE", "WAITING_ON_USER"}
TERMINAL == {"COMPLETED", "RESPONSIBLY_EXHAUSTED", "CANCELLED"}
Status == Open \cup TERMINAL \cup
          {"WAITING_ON_AUREUS", "WAITING_ON_THIRD_PARTY", "BLOCKED"}

NoRole == "NONE"
NoStatus == "NULL"
NoUser == "NULL"
NoRow == [status |-> "ABSENT"]
Row == [key : Key, status : Status]

EventType == {"ACCEPTED", "COMMITMENT_RECORDED", "USER_INPUT_REQUIRED",
              "STATE_CHANGED", "ACTION_EVIDENCED", "COMPLETED", "CANCELLED"}
\* "by" is the acting or the attesting user the event names.
Event == [type : EventType, from : Status \cup {NoStatus},
          to : Status \cup {NoStatus}, by : User \cup {NoUser}]

Idle == [op |-> "idle"]
Creation == [op : {"create"}, user : User, key : Key]
Move == [op : {"markNeedsYou", "resume", "complete", "cancel"},
         user : User, r : Resp, seen : Status]

NoReply == [kind |-> "none"]
Reply == [kind : {"row"}, r : Resp] \cup {[kind |-> "conflict"]}

Evt(type, from, to, by) == [type |-> type, from |-> from, to |-> to, by |-> by]
Exists(r) == row[r] # NoRow

-----------------------------------------------------------------------------
Init ==
    /\ role \in [User -> RoleInUse \cup {NoRole}]
    /\ closed = FALSE
    /\ row = [r \in Resp |-> NoRow]
    /\ ledger = [r \in Resp |-> <<>>]
    /\ tx = [c \in Call |-> Idle]
    /\ reply = [c \in Call |-> NoReply]

Proceed(c, state) ==
    /\ tx' = [tx EXCEPT ![c] = state]
    /\ reply' = [reply EXCEPT ![c] = NoReply]

Return(c, result) ==
    /\ tx' = [tx EXCEPT ![c] = Idle]
    /\ reply' = [reply EXCEPT ![c] = result]

RowReply(r) == [kind |-> "row", r |-> r]

\* lockCurrentMember and assertRole.
MayBegin(c, u, allowed) ==
    tx[c] = Idle /\ ~closed /\ role[u] \in allowed

-----------------------------------------------------------------------------
(* Mutant: the request key is not locked. *)
CreateFindUnserialized(c, u, k) ==
    /\ MayBegin(c, u, WORK_ROLES)
    /\ \/ \E r \in Resp : Exists(r) /\ row[r].key = k /\ Return(c, RowReply(r))
       \/ /\ \A r \in Resp : Exists(r) => row[r].key # k
          /\ Proceed(c, [op |-> "create", user |-> u, key |-> k])
    /\ UNCHANGED <<role, closed, row, ledger>>

(* create: a promise made for the key before, open or terminal, is the     *)
(* answer.  Another creation with the key is waited for.                   *)
CreateFind(c, u, k) ==
    /\ MayBegin(c, u, WORK_ROLES)
    /\ \A d \in Call : tx[d].op = "create" => tx[d].key # k
    /\ \/ \E r \in Resp : Exists(r) /\ row[r].key = k /\ Return(c, RowReply(r))
       \/ /\ \A r \in Resp : Exists(r) => row[r].key # k
          /\ Proceed(c, [op |-> "create", user |-> u, key |-> k])
    /\ UNCHANGED <<role, closed, row, ledger>>

CreateInsert(c) ==
    /\ tx[c].op = "create"
    /\ \E r \in Resp :
          /\ row[r] = NoRow
          /\ row' = [row EXCEPT ![r] = [key |-> tx[c].key, status |-> "ACTIVE"]]
          /\ ledger' = [ledger EXCEPT ![r] =
                <<Evt("ACCEPTED", NoStatus, "ACTIVE", tx[c].user),
                  Evt("COMMITMENT_RECORDED", NoStatus, NoStatus, NoUser)>>]
          /\ Return(c, RowReply(r))
    /\ UNCHANGED <<role, closed>>

(* The read of a status change: settled is answered at once, any other     *)
(* status than those of from is a conflict.                                *)
ReadCurrent(c, u, r, allowed, op, settled, from) ==
    /\ MayBegin(c, u, allowed)
    /\ Exists(r)
    /\ \/ row[r].status = settled /\ Return(c, RowReply(r))
       \/ /\ row[r].status \in from
          /\ Len(ledger[r]) < MaxEvents
          /\ Proceed(c, [op |-> op, user |-> u, r |-> r, seen |-> row[r].status])
    /\ UNCHANGED <<role, closed, row, ledger>>

(* Mutant: the update accepts every open status. *)
CompareAndSetLoose(c, to, events) ==
    LET r == tx[c].r IN
    /\ \/ /\ row[r].status \notin TERMINAL
          /\ row' = [row EXCEPT ![r].status = to]
          /\ ledger' = [ledger EXCEPT ![r] = @ \o events]
          /\ Return(c, RowReply(r))
       \/ /\ row[r].status \in TERMINAL
          /\ Return(c, [kind |-> "conflict"])
          /\ UNCHANGED <<row, ledger>>
    /\ UNCHANGED <<role, closed>>

(* Mutant: the count of the update is not looked at. *)
CompareAndSetUncounted(c, to, events) ==
    LET r == tx[c].r IN
    /\ row' = IF row[r].status = tx[c].seen THEN [row EXCEPT ![r].status = to] ELSE row
    /\ ledger' = [ledger EXCEPT ![r] = @ \o events]
    /\ Return(c, RowReply(r))
    /\ UNCHANGED <<role, closed>>

(* The update compares the status with the one read; a row that changed is *)
(* a conflict and rolls the transaction back.                              *)
CompareAndSet(c, to, events) ==
    LET r == tx[c].r IN
    /\ \/ /\ row[r].status = tx[c].seen
          /\ row' = [row EXCEPT ![r].status = to]
          /\ ledger' = [ledger EXCEPT ![r] = @ \o events]
          /\ Return(c, RowReply(r))
       \/ /\ row[r].status # tx[c].seen
          /\ Return(c, [kind |-> "conflict"])
          /\ UNCHANGED <<row, ledger>>
    /\ UNCHANGED <<role, closed>>

MarkNeedsYouRead(c, u, r) ==
    ReadCurrent(c, u, r, WORK_ROLES, "markNeedsYou", "WAITING_ON_USER", {"ACTIVE"})

MarkNeedsYouWrite(c) ==
    /\ tx[c].op = "markNeedsYou"
    /\ CompareAndSet(c, "WAITING_ON_USER",
          <<Evt("USER_INPUT_REQUIRED", "ACTIVE", "WAITING_ON_USER", NoUser)>>)

ResumeRead(c, u, r) ==
    ReadCurrent(c, u, r, WORK_ROLES, "resume", "ACTIVE", {"WAITING_ON_USER"})

ResumeWrite(c) ==
    /\ tx[c].op = "resume"
    /\ CompareAndSet(c, "ACTIVE",
          <<Evt("STATE_CHANGED", "WAITING_ON_USER", "ACTIVE", tx[c].user)>>)

CompleteRead(c, u, r) ==
    ReadCurrent(c, u, r, MANAGE_ROLES, "complete", "COMPLETED", Open)

CompleteWrite(c) ==
    /\ tx[c].op = "complete"
    /\ CompareAndSet(c, "COMPLETED",
          <<Evt("ACTION_EVIDENCED", NoStatus, NoStatus, tx[c].user),
            Evt("COMPLETED", tx[c].seen, "COMPLETED", tx[c].user)>>)

CancelRead(c, u, r) ==
    ReadCurrent(c, u, r, MANAGE_ROLES, "cancel", "CANCELLED", Status \ TERMINAL)

CancelWrite(c) ==
    /\ tx[c].op = "cancel"
    /\ CompareAndSet(c, "CANCELLED",
          <<Evt("CANCELLED", tx[c].seen, "CANCELLED", tx[c].user)>>)

(* The process dies or the transaction times out before the commit. *)
Abandon(c) ==
    /\ tx[c] # Idle
    /\ Return(c, NoReply)
    /\ UNCHANGED <<role, closed, row, ledger>>

-----------------------------------------------------------------------------
(* Membership and the organization, written by other services *)

(* Mutant: the membership is read without a lock. *)
ShareLockedNever(u) == FALSE

\* An open transaction shares the lock of its user's membership row.
ShareLocked(u) == \E c \in Call : tx[c] # Idle /\ tx[c].user = u

\* A membership is added, changed or removed.
ChangeRole(u, new) ==
    /\ ~ShareLocked(u)
    /\ role[u] # new
    /\ role' = [role EXCEPT ![u] = new]
    /\ UNCHANGED <<closed, row, ledger, tx, reply>>

\* The organization is soft-deleted: an update of the row every open
\* transaction has locked.
CloseOrganization ==
    /\ ~closed
    /\ \A c \in Call : tx[c] = Idle
    /\ closed' = TRUE
    /\ UNCHANGED <<role, row, ledger, tx, reply>>

Next ==
    \/ \E c \in Call :
        \/ \E u \in User, k \in Key : CreateFind(c, u, k)
        \/ CreateInsert(c)
        \/ \E u \in User, r \in Resp : MarkNeedsYouRead(c, u, r)
        \/ MarkNeedsYouWrite(c)
        \/ \E u \in User, r \in Resp : ResumeRead(c, u, r)
        \/ ResumeWrite(c)
        \/ \E u \in User, r \in Resp : CompleteRead(c, u, r)
        \/ CompleteWrite(c)
        \/ \E u \in User, r \in Resp : CancelRead(c, u, r)
        \/ CancelWrite(c)
        \/ Abandon(c)
    \/ \E u \in User, new \in RoleInUse \cup {NoRole} : ChangeRole(u, new)
    \/ CloseOrganization

Spec == Init /\ [][Next]_vars

-----------------------------------------------------------------------------
(* Properties *)

\* The tables keep their shape and an open transaction names a row it read.
TypeOK ==
    /\ role \in [User -> RoleInUse \cup {NoRole}]
    /\ closed \in BOOLEAN
    /\ row \in [Resp -> Row \cup {NoRow}]
    /\ ledger \in [Resp -> Seq(Event)]
    /\ tx \in [Call -> Creation \cup Move \cup {Idle}]
    /\ reply \in [Call -> Reply \cup {NoReply}]
    /\ \A c \in Call : tx[c] \in Move => Exists(tx[c].r)

\* Creation is idempotent by request key, concurrent requests and closed
\* promises included: the advisory lock covers the lookup and the insert.
OnePromisePerKey ==
    \A r1, r2 \in Resp :
        Exists(r1) /\ Exists(r2) /\ row[r1].key = row[r2].key => r1 = r2

\* The next status event after position i of a ledger.
Continues(l, i, j) ==
    /\ i < j /\ l[i].to # NoStatus /\ l[j].to # NoStatus
    /\ \A k \in (i + 1) .. (j - 1) : l[k].to = NoStatus

\* The ledger is a chain of transitions that ends in the row's status: each
\* event leaves from the status the one before it reached, however the
\* transactions overlap, because the update compares with the status read.
LedgerIsChain ==
    \A r \in Resp : LET l == ledger[r] IN
        /\ \A i, j \in DOMAIN l : Continues(l, i, j) => l[j].from = l[i].to
        /\ Exists(r) => \E i \in DOMAIN l :
              /\ l[i].to = row[r].status
              /\ \A k \in DOMAIN l : k > i => l[k].to = NoStatus

\* Whoever moves a promise is still allowed to when the move commits: no
\* demotion or removal slips in between the role check and the commit.
AuthorityAtCommit ==
    [][\A c \in Call :
          /\ tx[c] # Idle /\ ledger' # ledger /\ tx'[c] = Idle
          => role[tx[c].user] \in
                IF tx[c].op \in {"complete", "cancel"} THEN MANAGE_ROLES ELSE WORK_ROLES]_vars

\* What the abstract promise sees of the tables.
StandingOf(k) == {row[r].status : r \in {q \in Resp : Exists(q) /\ row[q].key = k}}
AttestedBy(k) ==
    UNION {{ledger[r][i].by : i \in {j \in DOMAIN ledger[r] : ledger[r][j].type = "COMPLETED"}} :
           r \in {q \in Resp : Exists(q) /\ row[q].key = k}}

Promise == INSTANCE BusinessPromise WITH
    WorkRole <- WORK_ROLES, ManageRole <- MANAGE_ROLES,
    standing <- [k \in Key |-> StandingOf(k)],
    attested <- [k \in Key |-> AttestedBy(k)]

\* Every transaction takes effect at once, at its commit, by a user who may
\* make that move then.
ImplementsPromise == Promise!Spec
===============================================================================
