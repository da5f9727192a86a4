-------------------------------- MODULE Evidence -------------------------------
(***************************************************************************)
(* EvidenceService: what is required as proof for one Personal Need        *)
(* Responsibility, the items submitted for it and the verdicts on them.    *)
(*                                                                         *)
(* A request reads the requirement or item, passes its gate, and writes in *)
(* one transaction.  That locks the Responsibility first, so it is one     *)
(* step: <Op>Begin and <Op>.  Checks the transaction repeats are made only *)
(* there, and refusals leave nothing.                                      *)
(*                                                                         *)
(* A steward's gate is an active relationship and two reads of evaluate;   *)
(* what it finds may change at any moment and is not looked at again, so   *)
(* a steward's request may be refused or go on at any time.                *)
(*                                                                         *)
(* A caller has several roles or none, the Subject too, and they come and  *)
(* go between requests: of who may have a role, each request says whether  *)
(* it uses it.  Of the documents only the Subject's matter: no permission  *)
(* covers another's.  A verdict FLAGGED_FOR_REVIEW is as REJECTED.         *)
(* Labels, sources, hashes and reasons are left out, and so are reads,     *)
(* which change nothing.                                                   *)
(***************************************************************************)
EXTENDS Naturals, Sequences

CONSTANTS
    Call,                \* requests being served
    Person,              \* users
    Subject,             \* the member whose Responsibility it is
    Steward, Admin,      \* users who have these roles at times
    Requirement,         \* requirements that can be opened
    Validity,            \* until when items say they are valid, or Never
    Never,               \* the null of a validity
    MaxItems,            \* bound on the items of one requirement
    MaxVerdicts,         \* bound on the verdicts on one item
    MaxTime              \* bound on the clock

ASSUME RoleAssumption ==
    Subject \in Person /\ Steward \subseteq Person /\ Admin \subseteq Person
ASSUME ValidityAssumption == Never \notin Nat /\ Validity \subseteq Nat \cup {Never}
ASSUME BoundAssumption == MaxItems \in Nat /\ MaxVerdicts \in Nat /\ MaxTime \in Nat

VARIABLES
    open,         \* the Responsibility is not terminal
    requirement,  \* the EvidenceRequirement rows with their items and verdicts
    ledger,       \* the ACTION_EVIDENCED events about each, in order
    call,         \* what each request has read and will do next
    now           \* the clock

vars == <<open, requirement, ledger, call, now>>

Idle == [at |-> "idle"]

RequirementStatus == {"OPEN", "WAIVER_REQUESTED", "WAIVED"}
Sufficiency == {"MISSING", "PRESENT_UNVERIFIED", "INSUFFICIENT", "ADEQUATE"}
VerificationResult == {"VERIFIED", "REJECTED"}
VerificationMethod == {"PLATFORM_ADMIN_REVIEW", "HUMAN_STEWARD_REVIEW"}
Verification == [result : VerificationResult, by : Person, method : VerificationMethod]
Item == [by : Person, document : BOOLEAN, until : Validity,
         status : {"SUBMITTED", "SUPERSEDED"}, verdicts : Seq(Verification)]
EvidenceRequirement ==
    [status : RequirementStatus, sufficiency : Sufficiency, items : Seq(Item)]
NoRequirement == [status |-> "ABSENT"]
NoItem == 0
Event == [state : {"REQUIRED", "WAIVER_REQUESTED", "WAIVED", "SUBMITTED"} \cup VerificationResult,
          item : Nat]

Opened == {q \in Requirement : requirement[q] # NoRequirement}

-----------------------------------------------------------------------------
Init ==
    /\ now = 0
    /\ call = [c \in Call |-> Idle]
    /\ open = TRUE
    /\ requirement = [q \in Requirement |-> NoRequirement]
    /\ ledger = [q \in Requirement |-> <<>>]

Proceed(c, state) == call' = [call EXCEPT ![c] = state]

\* The current items; one at most.
CurrentOf(items) == {i \in DOMAIN items : items[i].status = "SUBMITTED"}

\* The first current item, of which the latest verdict counts.
SufficiencyOf(items) ==
    IF CurrentOf(items) = {} THEN "MISSING"
    ELSE LET item == items[CHOOSE i \in CurrentOf(items) : \A j \in CurrentOf(items) : i <= j]
             n == Len(item.verdicts)
         IN CASE n = 0 -> "PRESENT_UNVERIFIED"
              [] n > 0 /\ item.verdicts[n].result # "VERIFIED" -> "INSUFFICIENT"
              [] n > 0 /\ item.verdicts[n].result = "VERIFIED" ->
                    IF item.until # Never /\ item.until < now THEN "INSUFFICIENT" ELSE "ADEQUATE"

\* Items as a transaction leaves them, with the sufficiency recomputed.
Recomputed(r, items) == [r EXCEPT !.items = items, !.sufficiency = SufficiencyOf(items)]

Evidenced(q, state, item) ==
    ledger' = [ledger EXCEPT ![q] = Append(@, [state |-> state, item |-> item])]

Begin(c, state) ==
    /\ call[c] = Idle
    /\ Proceed(c, state)
    /\ UNCHANGED <<open, requirement, ledger, now>>

(* Mutant: whether it has ended is only looked at before the transaction. *)
CommittedAnyhow(c, op) ==
    /\ call[c].at = op
    /\ Proceed(c, Idle)
    /\ UNCHANGED <<open, now>>

\* The transaction of a request: it locks the Responsibility, which is open.
Committed(c, op) ==
    /\ call[c].at = op
    /\ open
    /\ Proceed(c, Idle)
    /\ UNCHANGED <<open, now>>

-----------------------------------------------------------------------------
(* createRequirement: the Subject may only as an administrator, or as their  *)
(* own steward.                                                              *)

MayManage(u) == u \in Steward \cup Admin

CreateBegin(c, u) ==
    /\ MayManage(u)
    /\ Begin(c, [at |-> "create"])

Create(c, q) ==
    /\ Committed(c, "create")
    /\ q \notin Opened
    /\ requirement' = [requirement EXCEPT ![q] =
            [status |-> "OPEN", sufficiency |-> "MISSING", items |-> <<>>]]
    /\ Evidenced(q, "REQUIRED", NoItem)

(* waiveRequirement: an administrator decides, the Subject asks. *)

MayWaive(u, target) ==
    \/ u \in Admin /\ target = "WAIVED"
    \/ u = Subject /\ target = "WAIVER_REQUESTED"

AllowedFrom(target) ==
    {"OPEN"} \cup IF target = "WAIVED" THEN {"WAIVER_REQUESTED"} ELSE {}

WaiveBegin(c, u, q, target) ==
    /\ q \in Opened
    /\ MayWaive(u, target)
    /\ requirement[q].status \in AllowedFrom(target)
    /\ Begin(c, [at |-> "waive", q |-> q, target |-> target])

(* Mutant: the status was looked at before the transaction. *)
WaiveAsRead(c) ==
    LET q == call[c].q  target == call[c].target
    IN /\ Committed(c, "waive")
       /\ requirement' = [requirement EXCEPT ![q].status = target]
       /\ Evidenced(q, target, NoItem)

\* The status is read again under the lock.
Waive(c) ==
    LET q == call[c].q  target == call[c].target
    IN /\ Committed(c, "waive")
       /\ requirement[q].status \in AllowedFrom(target)
       /\ requirement' = [requirement EXCEPT ![q].status = target]
       /\ Evidenced(q, target, NoItem)

(* submitItem: it replaces the item that was current when it was read, if  *)
(* there was one.                                                          *)

MaySubmit(u, document) ==
    /\ u \in Steward \cup Admin \cup {Subject}
    /\ document => u = Subject

SubmitBegin(c, u, q, document, until) ==
    /\ q \in Opened
    /\ MaySubmit(u, document)
    /\ LET items == requirement[q].items  current == CurrentOf(items) IN
       /\ Len(items) < MaxItems
       /\ Begin(c, [at |-> "submit", by |-> u, q |-> q, document |-> document, until |-> until,
                    previous |-> IF current = {} THEN NoItem ELSE CHOOSE i \in current : TRUE])

\* The status is read again; the previous item is claimed while it is current,
\* and no other may be when the new one is inserted: a unique index.
Submit(c) ==
    LET t == call[c]  q == t.q  items == requirement[q].items
        claimed == IF t.previous = NoItem THEN items
                   ELSE [items EXCEPT ![t.previous].status = "SUPERSEDED"]
        item == [by |-> t.by, document |-> t.document, until |-> t.until,
                 status |-> "SUBMITTED", verdicts |-> <<>>]
    IN /\ Committed(c, "submit")
       /\ requirement[q].status = "OPEN"
       /\ t.previous # NoItem => items[t.previous].status = "SUBMITTED"
       /\ CurrentOf(claimed) = {}
       /\ requirement' = [requirement EXCEPT ![q] = Recomputed(@, Append(claimed, item))]
       /\ Evidenced(q, "SUBMITTED", Len(items) + 1)

(* verifyItem: never by who provided it.  An administrator may be the      *)
(* Subject; a steward may not, and reviews only a document.                *)

MayVerify(u, item, method) ==
    /\ item.by # u
    /\ \/ u \in Admin /\ method = "PLATFORM_ADMIN_REVIEW"
       \/ /\ u \in Steward /\ method = "HUMAN_STEWARD_REVIEW"
          /\ u # Subject
          /\ item.document

VerifyBegin(c, u, q, i, result, method) ==
    /\ q \in Opened
    /\ LET item == requirement[q].items[i] IN
       /\ MayVerify(u, item, method)
       /\ Len(item.verdicts) < MaxVerdicts
       /\ Begin(c, [at |-> "verify", q |-> q, i |-> i,
                    verdict |-> [result |-> result, by |-> u, method |-> method]])

(* Mutant: the sufficiency is recomputed before the verdict is inserted. *)
VerifyLate(c) ==
    LET t == call[c]  q == t.q  items == requirement[q].items IN
    /\ Committed(c, "verify")
    /\ items[t.i].status = "SUBMITTED"
    /\ requirement' = [requirement EXCEPT ![q] =
          [Recomputed(@, items) EXCEPT !.items =
             [items EXCEPT ![t.i].verdicts = Append(@, t.verdict)]]]
    /\ Evidenced(q, t.verdict.result, t.i)

\* The item is read again under the lock.
Verify(c) ==
    LET t == call[c]  q == t.q  items == requirement[q].items IN
    /\ Committed(c, "verify")
    /\ items[t.i].status = "SUBMITTED"
    /\ requirement' = [requirement EXCEPT ![q] = Recomputed(@,
          [items EXCEPT ![t.i].verdicts = Append(@, t.verdict)])]
    /\ Evidenced(q, t.verdict.result, t.i)

-----------------------------------------------------------------------------
(* The rest of the platform *)

\* The Responsibility is completed, exhausted or cancelled.
Close ==
    /\ open
    /\ open' = FALSE
    /\ UNCHANGED <<requirement, ledger, call, now>>

Tick ==
    /\ now < MaxTime
    /\ now' = now + 1
    /\ UNCHANGED <<open, requirement, ledger, call>>

\* The gate or the transaction refuses, or the process dies between two awaits.
Abandon(c) ==
    /\ call[c] # Idle
    /\ Proceed(c, Idle)
    /\ UNCHANGED <<open, requirement, ledger, now>>

Request(c) ==
    \/ \E u \in Person : CreateBegin(c, u)
    \/ \E u \in Person, q \in Requirement, target \in RequirementStatus :
          WaiveBegin(c, u, q, target)
    \/ \E u \in Person, q \in Requirement, document \in BOOLEAN, until \in Validity :
          SubmitBegin(c, u, q, document, until)
    \/ \E u \in Person, q \in Opened, result \in VerificationResult,
          method \in VerificationMethod :
          \E i \in DOMAIN requirement[q].items : VerifyBegin(c, u, q, i, result, method)

Next ==
    \/ \E c \in Call :
        \/ Request(c)
        \/ \E q \in Requirement : Create(c, q)
        \/ Waive(c) \/ Submit(c) \/ Verify(c) \/ Abandon(c)
    \/ Close \/ Tick

Spec == Init /\ [][Next]_vars

-----------------------------------------------------------------------------
(* Properties *)

\* Rows and events keep their shape.
TypeOK ==
    /\ now \in 0 .. MaxTime
    /\ open \in BOOLEAN
    /\ requirement \in [Requirement -> EvidenceRequirement \cup {NoRequirement}]
    /\ ledger \in [Requirement -> Seq(Event)]

IsVerdict(e) == e.state \in VerificationResult
IsDecision(e) == e.item = NoItem
Latest(K) == CHOOSE k \in K : \A j \in K : j <= k

\* The items submitted before position n of a ledger, and its decisions.
SubmittedIn(l, n) == {k \in 1 .. (n - 1) : l[k].state = "SUBMITTED"}
DecisionsIn(l) == {k \in DOMAIN l : IsDecision(l[k])}

\* Event k of a ledger may follow those before it: no item is submitted after
\* a waiver was asked for, and a verdict is on the item current at the time.
InCourse(l, k) ==
    /\ l[k].state = "SUBMITTED" =>
          /\ \A j \in 1 .. k : l[j].state \notin {"WAIVER_REQUESTED", "WAIVED"}
          /\ \A j \in SubmittedIn(l, k) : l[j].item < l[k].item
    /\ IsVerdict(l[k]) => /\ SubmittedIn(l, k) # {}
                          /\ l[k].item = l[Latest(SubmittedIn(l, k))].item

\* The verdicts on item i are those the ledger has, in its order.
VerdictsTold(l, i, verdicts) ==
    \E at \in [DOMAIN verdicts -> DOMAIN l] :
        /\ \A j, k \in DOMAIN verdicts : j < k => at[j] < at[k]
        /\ \A k \in DOMAIN verdicts : l[at[k]] = [state |-> verdicts[k].result, item |-> i]
        /\ \A n \in DOMAIN l : IsVerdict(l[n]) /\ l[n].item = i =>
              \E k \in DOMAIN verdicts : at[k] = n

\* The ledger tells the evidence, and a lawful course of it: a requirement is
\* waived once and for all, takes no item from a waiver request on, has one
\* current item, the last, and verdicts only on the item current at the time.
LedgerTellsEvidence ==
    \A q \in Opened :
        LET l == ledger[q]  r == requirement[q]  last == Latest(DecisionsIn(l)) IN
        /\ l[1] = [state |-> "REQUIRED", item |-> NoItem]
        /\ r.status = IF l[last].state = "REQUIRED" THEN "OPEN" ELSE l[last].state
        /\ \A k \in DecisionsIn(l) : l[k].state = "WAIVED" => k = last
        /\ \A k \in DOMAIN l : InCourse(l, k)
        /\ CurrentOf(r.items) = IF r.items = <<>> THEN {} ELSE {Len(r.items)}
        /\ \A i \in DOMAIN r.items : VerdictsTold(l, i, r.items[i].verdicts)

\* The sufficiency kept with a requirement is that of its items, but for one
\* that was adequate and has expired; and adequate is only what somebody else
\* than its provider has verified, an administrator, or of a document a steward
\* other than the Subject.
SufficiencyIsEarned ==
    \A q \in Opened :
        LET r == requirement[q]  item == r.items[Len(r.items)] IN
        /\ \/ r.sufficiency = SufficiencyOf(r.items)
           \/ r.sufficiency = "ADEQUATE" /\ item.until # Never /\ item.until < now
        /\ r.sufficiency = "ADEQUATE" =>
              LET verdict == item.verdicts[Len(item.verdicts)] IN
              /\ verdict.result = "VERIFIED"
              /\ verdict.by # item.by
              /\ verdict.method = "HUMAN_STEWARD_REVIEW" =>
                    item.document /\ verdict.by # Subject

\* Nothing is required, submitted, waived or verified once the Responsibility
\* has ended, whatever had been checked before it did.
ClosedIsFinal == [][~open => UNCHANGED <<requirement, ledger>>]_vars
===============================================================================
