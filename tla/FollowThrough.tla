----------------------------- MODULE FollowThrough -----------------------------
(***************************************************************************)
(* PeopleFollowThroughService: the one sourced Obligation a Personal Need  *)
(* Responsibility may carry (People Step 5), kept as a contract inside the *)
(* responsibility's row, and the sweep that runs every five minutes.       *)
(*                                                                         *)
(* A request is a transaction that reads the row, decides, and updates the *)
(* row only where updatedAt and the revision are still those read: two     *)
(* actions, <Op>Read and Write.  One that names a revision other than the  *)
(* one it reads is refused and left out, as are all refusals.              *)
(* The sweep selects the open rows, oldest update first and Batch at most, *)
(* and works through that snapshot one await at a time; a row that looks   *)
(* overdue is read again in a transaction of its own.                      *)
(*                                                                         *)
(* Texts, time zones, owners and attempt counts are left out.  Who may     *)
(* verify is checked long before the transaction and not looked at again,  *)
(* so a verification may come at any time; a steward may be assigned or    *)
(* not whenever one is to be notified.  Recipients have in-app             *)
(* notifications on, as is the default.                                    *)
(***************************************************************************)
EXTENDS Naturals, Sequences, FiniteSets

CONSTANTS
    MemberCall,      \* requests of members being served
    StaffCall,       \* requests of stewards and administrators being served
    Row,             \* open Personal Need Responsibilities
    Due,             \* the dates callers name
    NextAttempt,     \* the dates members name for a next attempt, or NoDate
    NoDate,          \* the null of a date
    Batch,           \* how many rows one pass of the sweep takes (500)
    Soon,            \* how long before its date an obligation is due soon
    MaxTime,         \* bound on the clock
    MaxRevision,     \* bound on the revisions of one contract
    MaxDisturbances  \* bound on failures and on writes of other services

ASSUME DueAssumption ==
    Due \subseteq Nat /\ NoDate \notin Nat /\ NextAttempt \subseteq Nat \cup {NoDate}
ASSUME BoundAssumption ==
    /\ Batch \in Nat \ {0} /\ Soon \in Nat
    /\ MaxTime \in Nat /\ MaxRevision \in Nat /\ MaxDisturbances \in Nat

VARIABLES
    now,        \* the clock
    open,       \* the rows that are not terminal
    order,      \* the rows by updatedAt, oldest first
    contract,   \* the contract of each row, or that it has none
    dueAt,      \* the dueAt column of each row
    evidence,   \* the levels of its ACTION_EVIDENCED events, in order
    tx,         \* the transaction each call has open
    pass,       \* where the sweep is
    told,       \* the Notification rows, by dedupe key
    disturbed   \* failures and foreign writes so far

rowVars == <<open, order, contract, dueAt, evidence>>
vars == <<now, rowVars, tx, pass, told, disturbed>>

SATISFIED_STATES == {"SATISFIED_REPORTED", "SATISFIED_VERIFIED"}
State == {"PENDING", "WAITING", "BLOCKED", "DISPUTED", "MISSED"} \cup SATISFIED_STATES
Provenance == {"REPORTED", "VERIFIED"}
HistoryEvent == {"OBLIGATION_RECORDED", "ATTEMPT_RECORDED",
                 "DUE_CHANGE_REPORTED_AGAINST_VERIFIED_DATE",
                 "REPORTED_DUE_DATE_CORRECTED", "DUE_DATE_VERIFIED",
                 "SATISFACTION_REPORTED", "SATISFACTION_VERIFIED",
                 "DUE_TIME_PASSED_WITHOUT_SATISFACTION_EVIDENCE"}

Date == Due \cup NextAttempt \cup {NoDate}
Entry == [event : HistoryEvent, due : Due]
Contract == [revision : Nat, state : State, due : Due, provenance : Provenance,
             nextAttempt : Date, review : BOOLEAN, history : Seq(Entry)]
NoContract == [state |-> "ABSENT"]

\* A notification, by its dedupe key; a review also names the state it is of.
Notice == [row : Row, kind : {"retry", "due", "missed"}, date : Date] \cup
          [row : Row, kind : {"review"}, date : Due, state : State]

Call == MemberCall \cup StaffCall
Idle == [op |-> "idle"]
NoPass == [at |-> "idle"]

Has(r) == contract[r] # NoContract
\* What a transaction finds: an open row with a contract.
Held(r) == r \in open /\ Has(r)
Unsatisfied(k) == k # NoContract /\ k.state \notin SATISFIED_STATES

-----------------------------------------------------------------------------
Init ==
    /\ now = 0
    /\ open = Row
    /\ order \in {s \in [1 .. Cardinality(Row) -> Row] :
                     \A r \in Row : \E i \in DOMAIN s : s[i] = r}
    /\ contract = [r \in Row |-> NoContract]
    /\ dueAt = [r \in Row |-> NoDate]
    /\ evidence = [r \in Row |-> <<>>]
    /\ tx = [c \in Call |-> Idle]
    /\ pass = NoPass
    /\ told = {}
    /\ disturbed = 0

Proceed(c, state) == tx' = [tx EXCEPT ![c] = state]

\* What an open transaction on r knows once somebody else has written r.
Outdated(t, r) ==
    IF "fresh" \in DOMAIN t /\ t.r = r THEN [t EXCEPT !.fresh = FALSE] ELSE t

\* An update of r moves its updatedAt.
Updated(r) == order' = Append(SelectSeq(order, LAMBDA q : q # r), r)

\* No call: the update is another service's.
Nobody == "NOBODY"

\* An update of r by call c, which goes on with state.
UpdatedBy(c, r, state) ==
    /\ Updated(r)
    /\ tx' = [d \in Call |-> IF d = c THEN state ELSE Outdated(tx[d], r)]
    /\ pass' = Outdated(pass, r)

Revised(k, event) ==
    [k EXCEPT !.history = Append(@, [event |-> event, due |-> k.due])]

-----------------------------------------------------------------------------
(* What each request makes of the contract it reads: the same contract, or *)
(* one with an entry more.                                                 *)

Attempted(k, blocked, next) ==
    IF k.state \in SATISFIED_STATES THEN k
    ELSE Revised([k EXCEPT
           !.state = IF @ = "DISPUTED" THEN "DISPUTED"
                     ELSE IF blocked THEN "BLOCKED" ELSE "WAITING",
           !.nextAttempt = next,
           !.review = @ \/ blocked], "ATTEMPT_RECORDED")

\* A verified date is kept and disputed, a reported one is replaced.
DueReported(k, date) ==
    IF k.provenance = "VERIFIED"
    THEN Revised([k EXCEPT !.state = "DISPUTED", !.review = TRUE],
                 "DUE_CHANGE_REPORTED_AGAINST_VERIFIED_DATE")
    ELSE Revised([k EXCEPT !.state = IF @ = "MISSED" THEN "PENDING" ELSE @,
                           !.due = date, !.review = FALSE],
                 "REPORTED_DUE_DATE_CORRECTED")

\* The same source verifying the same date again changes nothing.
DueVerified(k, date, sameSource) ==
    IF /\ sameSource /\ k.provenance = "VERIFIED" /\ k.due = date
       /\ k.history[Len(k.history)].event = "DUE_DATE_VERIFIED"
    THEN k
    ELSE Revised([k EXCEPT
           !.state = IF @ \in {"DISPUTED", "MISSED"} THEN "PENDING" ELSE @,
           !.due = date, !.provenance = "VERIFIED", !.review = FALSE],
           "DUE_DATE_VERIFIED")

(* Mutant: the due date is cleared, not the next attempt. *)
SatisfactionReportedUndated(k) ==
    IF k.state \in SATISFIED_STATES THEN k
    ELSE Revised([k EXCEPT !.state = "SATISFIED_REPORTED",
                           !.due = NoDate, !.review = FALSE],
                 "SATISFACTION_REPORTED")

SatisfactionReported(k) ==
    IF k.state \in SATISFIED_STATES THEN k
    ELSE Revised([k EXCEPT !.state = "SATISFIED_REPORTED",
                           !.nextAttempt = NoDate, !.review = FALSE],
                 "SATISFACTION_REPORTED")

SatisfactionVerified(k) ==
    IF k.state = "SATISFIED_VERIFIED" THEN k
    ELSE Revised([k EXCEPT !.state = "SATISFIED_VERIFIED",
                           !.nextAttempt = NoDate, !.review = FALSE],
                 "SATISFACTION_VERIFIED")

\* The sweep's change: what is satisfied or not yet due by now is left alone.
Missed(k, at) ==
    IF k.state \in SATISFIED_STATES \cup {"MISSED"} \/ k.due >= at THEN k
    ELSE Revised([k EXCEPT !.state = "MISSED", !.review = TRUE],
                 "DUE_TIME_PASSED_WITHOUT_SATISFACTION_EVIDENCE")

-----------------------------------------------------------------------------
(* Requests *)

NoLevel == "NONE"
\* The operations that name a revision, and those that are evidence.
Mutation == {"recordAttempt", "reportDueChange", "verifyDue",
             "reportSatisfied", "verifySatisfied"}

(* createHousingObligation: the checks and the read of the row; it has no  *)
(* contract yet.                                                           *)
CreateRead(c, r, date) ==
    /\ tx[c] = Idle
    /\ r \in open /\ ~Has(r)
    /\ Proceed(c, [op |-> "create", r |-> r, fresh |-> TRUE, due |-> date])
    /\ UNCHANGED <<now, rowVars, pass, told, disturbed>>

\* The responsibility's waiting state is aligned with the owner afterwards.
CreateWrite(c) ==
    LET r == tx[c].r IN
    /\ tx[c].op = "create"
    /\ \/ /\ tx[c].fresh
          /\ contract' = [contract EXCEPT ![r] =
                [revision |-> 1, state |-> "PENDING", due |-> tx[c].due,
                 provenance |-> "REPORTED", nextAttempt |-> NoDate, review |-> FALSE,
                 history |-> <<[event |-> "OBLIGATION_RECORDED", due |-> tx[c].due]>>]]
          /\ dueAt' = [dueAt EXCEPT ![r] = tx[c].due]
          /\ UpdatedBy(c, r, [op |-> "align", r |-> r])
       \/ /\ ~tx[c].fresh
          /\ Proceed(c, Idle)
          /\ UNCHANGED <<order, contract, dueAt, pass>>
    /\ UNCHANGED <<now, open, evidence, told, disturbed>>

\* Status and event are the ledger's; here the row is touched, or, with the
\* status already right or a steward as the owner, it is not.
Align(c) ==
    /\ tx[c].op = "align"
    /\ \/ tx[c].r \in open /\ UpdatedBy(c, tx[c].r, Idle)
       \/ Proceed(c, Idle) /\ UNCHANGED <<order, pass>>
    /\ UNCHANGED <<now, open, contract, dueAt, evidence, told, disturbed>>

(* The read of a mutation: a closed row is not found, and where there is   *)
(* nothing to change the contract is the answer.                           *)
Read(c, r, op, next, date, level) ==
    /\ tx[c] = Idle
    /\ Held(r)
    /\ contract[r].revision < MaxRevision
    /\ next # contract[r]
    /\ Proceed(c, [op |-> op, r |-> r, seen |-> contract[r].revision, fresh |-> TRUE,
                   next |-> next, date |-> date, level |-> level])
    /\ UNCHANGED <<now, rowVars, pass, told, disturbed>>

RecordAttemptRead(c, r, blocked, next) ==
    Read(c, r, "recordAttempt", Attempted(contract[r], blocked, next), NoDate, NoLevel)

\* Only a date that replaces one is written to the column.
ReportDueChangeRead(c, r, date) ==
    Read(c, r, "reportDueChange", DueReported(contract[r], date),
         IF contract[r].provenance = "VERIFIED" THEN NoDate ELSE date, NoLevel)

VerifyDueRead(c, r, date, sameSource) ==
    Read(c, r, "verifyDue", DueVerified(contract[r], date, sameSource), date, "VERIFIED")

ReportSatisfiedRead(c, r) ==
    Read(c, r, "reportSatisfied", SatisfactionReported(contract[r]), NoDate, "REPORTED")

VerifySatisfiedRead(c, r) ==
    Read(c, r, "verifySatisfied", SatisfactionVerified(contract[r]), NoDate, "VERIFIED")

(* Mutant: the update names the row only. *)
UnchangedAnyhow(t, r) == TRUE

(* Mutant: updatedAt is not compared. *)
UnchangedByRevision(t, r) == contract[r].revision = t.seen

\* The update names the updatedAt and the revision read.
UnchangedSince(t, r) == t.fresh /\ contract[r].revision = t.seen

(* Mutant: the event is made before the count of the update is looked at. *)
WriteEvidenceAnyhow(c) ==
    LET t == tx[c]  r == tx[c].r IN
    /\ t.op \in Mutation
    /\ evidence' = IF t.level = NoLevel THEN evidence
                   ELSE [evidence EXCEPT ![r] = Append(@, t.level)]
    /\ \/ /\ UnchangedSince(t, r)
          /\ contract' = [contract EXCEPT ![r] = [t.next EXCEPT !.revision = t.seen + 1]]
          /\ dueAt' = IF t.date = NoDate THEN dueAt ELSE [dueAt EXCEPT ![r] = t.date]
          /\ UpdatedBy(c, r, Idle)
       \/ /\ ~UnchangedSince(t, r)
          /\ Proceed(c, Idle)
          /\ UNCHANGED <<order, contract, dueAt, pass>>
    /\ UNCHANGED <<now, open, told, disturbed>>

(* The update and, where the request is evidence, its event.  A lost race  *)
(* is a conflict.  The steward is told of a disputed date afterwards.      *)
Write(c) ==
    LET t == tx[c]  r == tx[c].r IN
    /\ t.op \in Mutation
    /\ \/ /\ UnchangedSince(t, r)
          /\ contract' = [contract EXCEPT ![r] = [t.next EXCEPT !.revision = t.seen + 1]]
          /\ dueAt' = IF t.date = NoDate THEN dueAt ELSE [dueAt EXCEPT ![r] = t.date]
          /\ evidence' = IF t.level = NoLevel THEN evidence
                         ELSE [evidence EXCEPT ![r] = Append(@, t.level)]
          /\ UpdatedBy(c, r, IF t.op = "reportDueChange" /\ t.next.review
                             THEN [op |-> "notifySteward", r |-> r, date |-> t.next.due]
                             ELSE Idle)
       \/ /\ ~UnchangedSince(t, r)
          /\ Proceed(c, Idle)
          /\ UNCHANGED <<order, contract, dueAt, evidence, pass>>
    /\ UNCHANGED <<now, open, told, disturbed>>

Review(r, date, state) == [row |-> r, kind |-> "review", date |-> date, state |-> state]

\* The steward assigned by now is notified, if there is one.
NotifySteward(c) ==
    /\ tx[c].op = "notifySteward"
    /\ \/ told' = told \cup {Review(tx[c].r, tx[c].date, "DISPUTED")}
       \/ UNCHANGED told
    /\ Proceed(c, Idle)
    /\ UNCHANGED <<now, rowVars, pass, disturbed>>

(* The process dies, or the transaction times out, between two awaits. *)
Abandon(c) ==
    /\ tx[c] # Idle
    /\ Proceed(c, Idle)
    /\ UNCHANGED <<now, rowVars, pass, told, disturbed>>

-----------------------------------------------------------------------------
(* runFollowThroughSweep *)

NextRow(p) == IF Len(p.rows) = 1 THEN NoPass
              ELSE [at |-> "remind", started |-> p.started, rows |-> Tail(p.rows)]

\* The dedupe keys of the reminders a contract calls for.
RetryDue(r, k) ==
    IF k.nextAttempt # NoDate /\ k.nextAttempt <= now
    THEN {[row |-> r, kind |-> "retry", date |-> k.nextAttempt]} ELSE {}
DueSoon(r, k) ==
    IF k.due \in now .. (now + Soon)
    THEN {[row |-> r, kind |-> "due", date |-> k.due]} ELSE {}

\* What the pass will do for a row, by the row as it is selected.  What is
\* satisfied or has no contract is passed over.
Task(r) ==
    IF Unsatisfied(contract[r])
    THEN [r |-> r, retry |-> RetryDue(r, contract[r]), soon |-> DueSoon(r, contract[r]),
          overdue |-> contract[r].due < now]
    ELSE [r |-> r, retry |-> {}, soon |-> {}, overdue |-> FALSE]

\* r was updated after q.
Older(q, r) == \E i, j \in DOMAIN order : i < j /\ order[i] = q /\ order[j] = r

\* n open rows, those updated longest ago and in that order, with none left
\* out unless they are a batch.
Selected(rows, n) ==
    /\ \A i, j \in 1 .. n : i < j => Older(rows[i], rows[j])
    /\ \A r \in open : \/ \E i \in 1 .. n : rows[i] = r
                       \/ n = Batch /\ Older(rows[n], r)

SweepSelect ==
    /\ pass = NoPass
    /\ open # {}
    /\ \E n \in 1 .. Batch : \E rows \in [1 .. n -> open] :
          /\ Selected(rows, n)
          /\ pass' = [at |-> "remind", started |-> now,
                      rows |-> [i \in 1 .. n |-> Task(rows[i])]]
    /\ UNCHANGED <<now, rowVars, tx, told, disturbed>>

Turn == pass.rows[1]

\* The reminders of one row; what looked overdue is read again.
SweepRemind ==
    /\ pass.at = "remind"
    /\ told' = told \cup Turn.retry \cup Turn.soon
    /\ pass' = IF Turn.overdue THEN [pass EXCEPT !.at = "overdue"] ELSE NextRow(pass)
    /\ UNCHANGED <<now, rowVars, tx, disturbed>>

(* Mutant: a row that was marked before is not announced again. *)
SweepReadOnce ==
    LET r == Turn.r IN
    /\ pass.at = "overdue"
    /\ LET k == contract[r]  next == Missed(k, pass.started) IN
       \/ /\ Held(r) /\ next # k
          /\ pass' = [at |-> "mark", started |-> pass.started, rows |-> pass.rows,
                      r |-> r, fresh |-> TRUE, seen |-> k.revision, next |-> next]
       \/ /\ Held(r) /\ next = k
          /\ pass' = NextRow(pass)
       \/ ~Held(r) /\ pass' = NoPass
    /\ UNCHANGED <<now, rowVars, tx, told, disturbed>>

(* Mutant: what the row is found to be is not looked at. *)
SweepReadRegardless ==
    LET r == Turn.r IN
    /\ pass.at = "overdue"
    /\ LET k == contract[r]  next == Missed(k, pass.started) IN
       \/ /\ Held(r) /\ next # k
          /\ pass' = [at |-> "mark", started |-> pass.started, rows |-> pass.rows,
                      r |-> r, fresh |-> TRUE, seen |-> k.revision, next |-> next]
       \/ /\ Held(r) /\ next = k
          /\ pass' = [at |-> "announce", started |-> pass.started,
                      rows |-> pass.rows, date |-> k.due]
       \/ ~Held(r) /\ pass' = NoPass
    /\ UNCHANGED <<now, rowVars, tx, told, disturbed>>

(* The overdue row is read again.  One that is closed ends the pass, one     *)
(* no longer overdue is left, one marked before is only announced.         *)
SweepRead ==
    LET r == Turn.r IN
    /\ pass.at = "overdue"
    /\ LET k == contract[r]  next == Missed(k, pass.started) IN
       \/ /\ Held(r) /\ next # k
          /\ pass' = [at |-> "mark", started |-> pass.started, rows |-> pass.rows,
                      r |-> r, fresh |-> TRUE, seen |-> k.revision, next |-> next]
       \/ /\ Held(r) /\ next = k
          /\ pass' = IF k.state = "MISSED"
                     THEN [at |-> "announce", started |-> pass.started,
                           rows |-> pass.rows, date |-> k.due]
                     ELSE NextRow(pass)
       \/ ~Held(r) /\ pass' = NoPass
    /\ UNCHANGED <<now, rowVars, tx, told, disturbed>>

\* The row is marked as missed, or it has changed again and is passed over.
SweepMark ==
    LET r == pass.r IN
    /\ pass.at = "mark"
    /\ \/ /\ UnchangedSince(pass, r)
          /\ contract' = [contract EXCEPT ![r] = [pass.next EXCEPT !.revision = pass.seen + 1]]
          /\ Updated(r)
          /\ tx' = [d \in Call |-> Outdated(tx[d], r)]
          /\ pass' = [at |-> "announce", started |-> pass.started,
                      rows |-> pass.rows, date |-> pass.next.due]
       \/ /\ ~UnchangedSince(pass, r)
          /\ pass' = NextRow(pass)
          /\ UNCHANGED <<order, contract, tx>>
    /\ UNCHANGED <<now, open, dueAt, evidence, told, disturbed>>

MissedNotice(r, date) == [row |-> r, kind |-> "missed", date |-> date]

SweepAnnounce ==
    /\ pass.at = "announce"
    /\ told' = told \cup {MissedNotice(Turn.r, pass.date)}
    /\ pass' = [pass EXCEPT !.at = "review"]
    /\ UNCHANGED <<now, rowVars, tx, disturbed>>

SweepReview ==
    /\ pass.at = "review"
    /\ \/ told' = told \cup {Review(Turn.r, pass.date, "MISSED")}
       \/ UNCHANGED told
    /\ pass' = NextRow(pass)
    /\ UNCHANGED <<now, rowVars, tx, disturbed>>

Sweep == \/ SweepSelect \/ SweepRemind \/ SweepRead \/ SweepMark
         \/ SweepAnnounce \/ SweepReview

(* A notification that is not accepted, an error of the database or a      *)
(* restart ends the pass; of two reminders the first may have been made.   *)
SweepFail ==
    /\ pass # NoPass
    /\ disturbed < MaxDisturbances
    /\ disturbed' = disturbed + 1
    /\ \/ UNCHANGED told
       \/ pass.at = "remind" /\ told' = told \cup Turn.retry
    /\ pass' = NoPass
    /\ UNCHANGED <<now, rowVars, tx>>

-----------------------------------------------------------------------------
(* The rest of the platform *)

\* Another service moves an open row's status, a Step 1 route for instance.
Touch(r) ==
    /\ r \in open
    /\ disturbed < MaxDisturbances
    /\ disturbed' = disturbed + 1
    /\ UpdatedBy(Nobody, r, Idle)
    /\ UNCHANGED <<now, open, contract, dueAt, evidence, told>>

\* The responsibility is completed, exhausted or cancelled.
Close(r) ==
    /\ r \in open
    /\ open' = open \ {r}
    /\ UpdatedBy(Nobody, r, Idle)
    /\ UNCHANGED <<now, contract, dueAt, evidence, told, disturbed>>

Tick ==
    /\ now < MaxTime
    /\ now' = now + 1
    /\ UNCHANGED <<rowVars, tx, pass, told, disturbed>>

Request ==
    \/ \E c \in MemberCall, r \in Row :
        \/ \E date \in Due : CreateRead(c, r, date) \/ ReportDueChangeRead(c, r, date)
        \/ \E blocked \in BOOLEAN, next \in NextAttempt :
              RecordAttemptRead(c, r, blocked, next)
        \/ ReportSatisfiedRead(c, r)
    \/ \E c \in StaffCall, r \in Row :
        \/ \E date \in Due, sameSource \in BOOLEAN : VerifyDueRead(c, r, date, sameSource)
        \/ VerifySatisfiedRead(c, r)
    \/ \E c \in Call : CreateWrite(c) \/ Align(c) \/ Write(c) \/ NotifySteward(c) \/ Abandon(c)

Next ==
    \/ Request
    \/ Sweep
    \/ SweepFail
    \/ \E r \in Row : Touch(r) \/ Close(r)
    \/ Tick

\* The scheduler starts a pass again and again, and an undisturbed pass goes
\* on to its end.
Spec == Init /\ [][Next]_vars /\ WF_vars(Sweep)

-----------------------------------------------------------------------------
(* Properties *)

\* Rows, notifications and transactions keep their shape.
TypeOK ==
    /\ now \in 0 .. MaxTime
    /\ open \subseteq Row
    /\ contract \in [Row -> Contract \cup {NoContract}]
    /\ dueAt \in [Row -> Date]
    /\ evidence \in [Row -> Seq(Provenance)]
    /\ told \subseteq Notice
    /\ disturbed \in 0 .. MaxDisturbances

\* The level of evidence an entry of a history tells of, if it is evidence.
LevelTold(e) ==
    IF e.event = "SATISFACTION_REPORTED" THEN "REPORTED"
    ELSE IF e.event \in {"SATISFACTION_VERIFIED", "DUE_DATE_VERIFIED"} THEN "VERIFIED"
    ELSE NoLevel

\* The levels are those of the entries of the history that are evidence: each
\* level is of an entry, in the order of the entries, and each entry has one.
Tells(history, levels) ==
    \E of \in [DOMAIN levels -> DOMAIN history] :
        /\ \A i, j \in DOMAIN levels : i < j => of[i] < of[j]
        /\ \A i \in DOMAIN levels : LevelTold(history[of[i]]) = levels[i]
        /\ \A k \in DOMAIN history : LevelTold(history[k]) # NoLevel =>
              \E i \in DOMAIN levels : of[i] = k

\* A revision for each entry, and the column on the contract's date.
ColumnsAgree ==
    \A r \in Row : Has(r) =>
        contract[r].revision = Len(contract[r].history) /\ dueAt[r] = contract[r].due

\* Contract, history, dueAt column and the shared ledger tell one story: a
\* revision per entry, the column on the contract's date, and one evidence
\* event for each report or verification in the history, in that order,
\* whatever requests and sweeps overlapped.
OneStory ==
    /\ ColumnsAgree
    /\ \A r \in Row : Has(r) => Tells(contract[r].history, evidence[r])

\* A verified date is only replaced by another verification, though reports
\* that saw the reported date before may still be under way; and what is
\* satisfied stays so unless the member disputes a verified date.
VerifiedTruthStands ==
    [][\A r \in Row : Has(r) =>
          /\ contract[r].provenance = "VERIFIED" /\ contract'[r].due # contract[r].due
             => \E c \in Call : tx[c].op = "verifyDue" /\ tx[c].r = r /\ tx'[c] = Idle
          /\ contract[r].state \in SATISFIED_STATES
             /\ contract'[r].state \notin SATISFIED_STATES
             => contract'[r].state = "DISPUTED" /\ contract[r].provenance = "VERIFIED"]_vars

\* The contract of a responsibility that has ended is final: a request or a
\* sweep that read it open comes too late.
EndedIsFinal ==
    [][\A r \in Row \ open :
          contract'[r] = contract[r] /\ dueAt'[r] = dueAt[r] /\ evidence'[r] = evidence[r]]_vars

MissedEntry(date) ==
    [event |-> "DUE_TIME_PASSED_WITHOUT_SATISFACTION_EVIDENCE", due |-> date]

\* Nobody is told that a date was missed unless the contract says so, also
\* when it was satisfied or rescheduled after the sweep selected it.
NoticeIsFounded ==
    \A n \in told : n.kind = "missed" =>
        \E i \in DOMAIN contract[n.row].history :
            contract[n.row].history[i] = MissedEntry(n.date)

Overdue(r) == r \in open /\ Unsatisfied(contract[r]) /\ contract[r].due < now

\* What stays overdue is announced as missed in the end: a pass that failed,
\* or lost its race, does not silence it for good.
OverdueIsAnnounced ==
    \A r \in Row :
        Overdue(r) ~> ~Overdue(r) \/ MissedNotice(r, contract[r].due) \in told
===============================================================================
