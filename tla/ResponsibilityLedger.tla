------------------------- MODULE ResponsibilityLedger -------------------------
(***************************************************************************)
(* The personal Responsibility rows and their append-only event ledger, as *)
(* PrismaResponsibilityRepository keeps them.                              *)
(*                                                                         *)
(* Every status change is an interactive transaction that reads the row    *)
(* without a lock, may return early, updates the row under a WHERE on a    *)
(* SET of statuses (not on the status it read), writes the ledger events   *)
(* when one row was updated and commits.  PostgreSQL runs it at READ       *)
(* COMMITTED, so another call may commit between the read and the update:  *)
(* an operation is two actions, <Op>Read and <Op>Write.  The update takes  *)
(* the row lock that later statements of the transaction keep, so update,  *)
(* events and commit are one action.  A CHECK constraint that an event     *)
(* violates rolls the whole transaction back.                              *)
(***************************************************************************)
EXTENDS Naturals, Sequences

CONSTANTS
    Call,         \* API calls in progress, one transaction at a time each
    Resp,         \* ids of Responsibility rows
    Slot,         \* keys of the partial unique indexes: kind, member, origin
    NeedSlot,     \* the slots of kind PERSONAL_NEED_RESOLUTION
    GuidanceSlot, \* the slots of kind OPPORTUNITY_APPLICATION_GUIDANCE
    Provenance,   \* what a row was accepted for: the stated need, the offer
    Record,       \* source records an evidence event may cite
    NoRecord,     \* the NULL source record
    MaxEvents     \* bound on the ledger of one row

ASSUME SlotAssumption == NeedSlot \subseteq Slot /\ GuidanceSlot \subseteq Slot
ASSUME NoRecordAssumption == NoRecord \notin Record
ASSUME MaxEventsAssumption == MaxEvents \in Nat

VARIABLES
    row,     \* the Responsibility table
    ledger,  \* the ResponsibilityEvent rows of each Responsibility, in order
    tx,      \* the transaction each call has open
    reply    \* how the last repository method of each call ended

vars == <<row, ledger, tx, reply>>

Open == {"ACTIVE", "WAITING_ON_AUREUS", "WAITING_ON_USER",
         "WAITING_ON_THIRD_PARTY", "BLOCKED"}
Terminal == {"COMPLETED", "RESPONSIBLY_EXHAUSTED", "CANCELLED"}
Status == Open \cup Terminal

NoStatus == "NULL"
NoRow == [status |-> "ABSENT"]
Row == [slot : Slot, prov : Provenance, status : Status]

Evidencing == {"ACTION_EVIDENCED", "COMPLETED", "RESPONSIBLY_EXHAUSTED"}
EventType == Evidencing \cup
    {"ACCEPTED", "COMMITMENT_RECORDED", "USER_INPUT_REQUIRED",
     "EXTERNAL_WAIT_STARTED", "STATE_CHANGED"}
Event == [type : EventType, from : Status \cup {NoStatus},
          to : Status \cup {NoStatus}, src : Record \cup {NoRecord}]

Idle == [op |-> "idle"]
Creation == [op : {"insert", "refind"}, slot : Slot, prov : Provenance]
Move == [op : {"markWaitingOnUser", "markWaitingOnThirdParty",
               "resumeFromWaitingOnUser", "completeWithEvidence",
               "responsiblyExhaustWithEvidence"},
         r : Resp, seen : Status]

NoReply == [kind |-> "none"]
Reply == [kind : {"row", "checkViolation"}, r : Resp] \cup
         {[kind |-> "duplicateKey"]}

-----------------------------------------------------------------------------
(* Reads *)

IsOpen(r) == row[r].status \in Open
Exists(r) == row[r] # NoRow

\* findOpenOpportunityResponsibility / findOpenConversationResponsibility.
OpenIn(s) == {r \in Resp : IsOpen(r) /\ row[r].slot = s}

-----------------------------------------------------------------------------
(* The CHECK constraints of the ResponsibilityEvent table *)

ShapeCheck(e) ==
    /\ e.type = "ACCEPTED" => e.from = NoStatus /\ e.to = "ACTIVE"
    /\ e.type \in {"COMMITMENT_RECORDED", "ACTION_EVIDENCED"} =>
          e.from = NoStatus /\ e.to = NoStatus
    /\ e.type = "USER_INPUT_REQUIRED" =>
          e.from = "ACTIVE" /\ e.to = "WAITING_ON_USER"
    /\ e.type = "STATE_CHANGED" =>
          e.from = "WAITING_ON_USER" /\ e.to = "ACTIVE"
    /\ e.type = "COMPLETED" =>
          e.from \in {"ACTIVE", "WAITING_ON_USER"} /\ e.to = "COMPLETED"

EvidenceShapeCheck(e) == (e.type \in Evidencing) <=> (e.src # NoRecord)

Accepted(e) == ShapeCheck(e) /\ EvidenceShapeCheck(e)

Evt(type, from, to, src) == [type |-> type, from |-> from, to |-> to, src |-> src]
Evidenced(src) == Evt("ACTION_EVIDENCED", NoStatus, NoStatus, src)

-----------------------------------------------------------------------------
Init ==
    /\ row = [r \in Resp |-> NoRow]
    /\ ledger = [r \in Resp |-> <<>>]
    /\ tx = [c \in Call |-> Idle]
    /\ reply = [c \in Call |-> NoReply]

(* The call's method returns, or throws, with this result. *)
Return(c, result) ==
    /\ tx' = [tx EXCEPT ![c] = Idle]
    /\ reply' = [reply EXCEPT ![c] = result]

Proceed(c, state) ==
    /\ tx' = [tx EXCEPT ![c] = state]
    /\ reply' = [reply EXCEPT ![c] = NoReply]

RowReply(r) == [kind |-> "row", r |-> r]

(* createAccepted: the duplicate lookup, outside the transaction. *)
CreateAcceptedFind(c, s, p) ==
    /\ tx[c] = Idle
    /\ \/ \E r \in OpenIn(s) : Return(c, RowReply(r))
       \/ /\ OpenIn(s) = {}
          /\ Proceed(c, [op |-> "insert", slot |-> s, prov |-> p])
    /\ UNCHANGED <<row, ledger>>

(* Mutant: the partial unique index is missing. *)
CreateAcceptedInsertUnindexed(c) ==
    /\ tx[c].op = "insert"
    /\ \E r \in Resp :
          /\ row[r] = NoRow
          /\ row' = [row EXCEPT ![r] =
                [slot |-> tx[c].slot, prov |-> tx[c].prov, status |-> "ACTIVE"]]
          /\ ledger' = [ledger EXCEPT ![r] =
                <<Evt("ACCEPTED", NoStatus, "ACTIVE", NoRecord),
                  Evt("COMMITMENT_RECORDED", NoStatus, NoStatus, NoRecord)>>]
          /\ Return(c, RowReply(r))

(* createAccepted: the row and its two first events in one transaction, or *)
(* the unique index refuses the row because another call won the race.     *)
CreateAcceptedInsert(c) ==
    /\ tx[c].op = "insert"
    /\ \/ /\ OpenIn(tx[c].slot) = {}
          /\ \E r \in Resp :
                /\ row[r] = NoRow
                /\ row' = [row EXCEPT ![r] =
                      [slot |-> tx[c].slot, prov |-> tx[c].prov, status |-> "ACTIVE"]]
                /\ ledger' = [ledger EXCEPT ![r] =
                      <<Evt("ACCEPTED", NoStatus, "ACTIVE", NoRecord),
                        Evt("COMMITMENT_RECORDED", NoStatus, NoStatus, NoRecord)>>]
                /\ Return(c, RowReply(r))
       \/ /\ OpenIn(tx[c].slot) # {}
          /\ Proceed(c, [tx[c] EXCEPT !.op = "refind"])
          /\ UNCHANGED <<row, ledger>>

(* createAccepted: look for the winner; it may have been closed meanwhile. *)
CreateAcceptedRefind(c) ==
    /\ tx[c].op = "refind"
    /\ \/ \E r \in OpenIn(tx[c].slot) : Return(c, RowReply(r))
       \/ OpenIn(tx[c].slot) = {} /\ Return(c, [kind |-> "duplicateKey"])
    /\ UNCHANGED <<row, ledger>>

(* The unlocked read every status change starts with, and its early return. *)
ReadCurrent(c, r, op, settled) ==
    /\ tx[c] = Idle
    /\ Exists(r)
    /\ \/ row[r].status \in settled /\ Return(c, RowReply(r))
       \/ /\ row[r].status \notin settled
          /\ Len(ledger[r]) < MaxEvents
          /\ Proceed(c, [op |-> op, r |-> r, seen |-> row[r].status])
    /\ UNCHANGED <<row, ledger>>

(* Mutant: the events are written whatever the update counted. *)
GuardedUpdateUncounted(c, from, to, events) ==
    LET r == tx[c].r IN
    /\ Return(c, RowReply(r))
    /\ row' = IF row[r].status \in from THEN [row EXCEPT ![r].status = to] ELSE row
    /\ ledger' = [ledger EXCEPT ![r] = @ \o events]

(* Mutant: row and events are written outside a transaction, so a refused  *)
(* event leaves the updated row behind.                                    *)
GuardedUpdateUnatomic(c, from, to, events) ==
    LET r == tx[c].r IN
    \/ row[r].status \notin from /\ Return(c, RowReply(r)) /\ UNCHANGED <<row, ledger>>
    \/ /\ row[r].status \in from
       /\ row' = [row EXCEPT ![r].status = to]
       /\ IF \A i \in DOMAIN events : Accepted(events[i])
             THEN ledger' = [ledger EXCEPT ![r] = @ \o events] /\ Return(c, RowReply(r))
             ELSE UNCHANGED ledger /\ Return(c, [kind |-> "checkViolation", r |-> r])

(* updateMany on a set of statuses, the events if it counted one row, and  *)
(* the commit; a refused event rolls the update back.                      *)
GuardedUpdate(c, from, to, events) ==
    LET r == tx[c].r IN
    \/ /\ row[r].status \notin from
       /\ Return(c, RowReply(r))
       /\ UNCHANGED <<row, ledger>>
    \/ /\ row[r].status \in from
       /\ \A i \in DOMAIN events : Accepted(events[i])
       /\ row' = [row EXCEPT ![r].status = to]
       /\ ledger' = [ledger EXCEPT ![r] = @ \o events]
       /\ Return(c, RowReply(r))
    \/ /\ row[r].status \in from
       /\ \E i \in DOMAIN events : ~Accepted(events[i])
       /\ Return(c, [kind |-> "checkViolation", r |-> r])
       /\ UNCHANGED <<row, ledger>>

MarkWaitingOnUserRead(c, r) ==
    ReadCurrent(c, r, "markWaitingOnUser", Terminal \cup {"WAITING_ON_USER"})

(* Mutant: the guard set forgets to exclude the target status. *)
MarkWaitingOnUserWriteRepeating(c) ==
    /\ tx[c].op = "markWaitingOnUser"
    /\ GuardedUpdate(c, Open, "WAITING_ON_USER",
         <<Evt("USER_INPUT_REQUIRED", tx[c].seen, "WAITING_ON_USER", NoRecord)>>)

MarkWaitingOnUserWrite(c) ==
    /\ tx[c].op = "markWaitingOnUser"
    /\ GuardedUpdate(c, Open \ {"WAITING_ON_USER"}, "WAITING_ON_USER",
         <<Evt("USER_INPUT_REQUIRED", tx[c].seen, "WAITING_ON_USER", NoRecord)>>)

(* Only a personal need may wait on a third party or be exhausted. *)
MarkWaitingOnThirdPartyRead(c, r) ==
    /\ Exists(r) /\ row[r].slot \in NeedSlot
    /\ ReadCurrent(c, r, "markWaitingOnThirdParty",
                   Terminal \cup {"WAITING_ON_THIRD_PARTY"})

(* Mutant: fromStatus copied from the resume method. *)
MarkWaitingOnThirdPartyWriteMislabelled(c) ==
    /\ tx[c].op = "markWaitingOnThirdParty"
    /\ GuardedUpdate(c, Open \ {"WAITING_ON_THIRD_PARTY"}, "WAITING_ON_THIRD_PARTY",
         <<Evt("EXTERNAL_WAIT_STARTED", "WAITING_ON_USER", "WAITING_ON_THIRD_PARTY", NoRecord)>>)

(* Mutant: the guard excludes only the target status. *)
MarkWaitingOnThirdPartyWriteReopening(c) ==
    /\ tx[c].op = "markWaitingOnThirdParty"
    /\ GuardedUpdate(c, Status \ {"WAITING_ON_THIRD_PARTY"}, "WAITING_ON_THIRD_PARTY",
         <<Evt("EXTERNAL_WAIT_STARTED", tx[c].seen, "WAITING_ON_THIRD_PARTY", NoRecord)>>)

MarkWaitingOnThirdPartyWrite(c) ==
    /\ tx[c].op = "markWaitingOnThirdParty"
    /\ GuardedUpdate(c, Open \ {"WAITING_ON_THIRD_PARTY"}, "WAITING_ON_THIRD_PARTY",
         <<Evt("EXTERNAL_WAIT_STARTED", tx[c].seen, "WAITING_ON_THIRD_PARTY", NoRecord)>>)

ResumeFromWaitingOnUserRead(c, r) ==
    /\ Exists(r) /\ row[r].slot \in NeedSlot \cup GuidanceSlot
    /\ ReadCurrent(c, r, "resumeFromWaitingOnUser", Status \ {"WAITING_ON_USER"})

ResumeFromWaitingOnUserWrite(c) ==
    /\ tx[c].op = "resumeFromWaitingOnUser"
    /\ GuardedUpdate(c, {"WAITING_ON_USER"}, "ACTIVE",
         <<Evt("STATE_CHANGED", "WAITING_ON_USER", "ACTIVE", NoRecord)>>)

CompleteWithEvidenceRead(c, r) ==
    ReadCurrent(c, r, "completeWithEvidence", {"COMPLETED"})

CompleteWithEvidenceWrite(c, src) ==
    /\ tx[c].op = "completeWithEvidence"
    /\ GuardedUpdate(c, Open, "COMPLETED",
         <<Evidenced(src), Evt("COMPLETED", tx[c].seen, "COMPLETED", src)>>)

ResponsiblyExhaustWithEvidenceRead(c, r) ==
    /\ Exists(r) /\ row[r].slot \in NeedSlot
    /\ ReadCurrent(c, r, "responsiblyExhaustWithEvidence", Terminal)

(* Mutant: the update relies on the status read before it. *)
ResponsiblyExhaustWithEvidenceWriteUnguarded(c, src, supporting) ==
    /\ tx[c].op = "responsiblyExhaustWithEvidence"
    /\ GuardedUpdate(c, Status, "RESPONSIBLY_EXHAUSTED",
         <<Evidenced(supporting), Evidenced(src),
           Evt("RESPONSIBLY_EXHAUSTED", tx[c].seen, "RESPONSIBLY_EXHAUSTED", src)>>)

(* The caller passes the no-route record and one supporting report. *)
ResponsiblyExhaustWithEvidenceWrite(c, src, supporting) ==
    /\ tx[c].op = "responsiblyExhaustWithEvidence"
    /\ GuardedUpdate(c, Open, "RESPONSIBLY_EXHAUSTED",
         <<Evidenced(supporting), Evidenced(src),
           Evt("RESPONSIBLY_EXHAUSTED", tx[c].seen, "RESPONSIBLY_EXHAUSTED", src)>>)

(* The process dies, the connection drops or the interactive transaction   *)
(* times out before the commit: nothing of it remains.                     *)
Abandon(c) ==
    /\ tx[c] # Idle
    /\ Return(c, NoReply)
    /\ UNCHANGED <<row, ledger>>

Next ==
    \E c \in Call :
        \/ \E s \in Slot, p \in Provenance : CreateAcceptedFind(c, s, p)
        \/ CreateAcceptedInsert(c)
        \/ CreateAcceptedRefind(c)
        \/ \E r \in Resp : MarkWaitingOnUserRead(c, r)
        \/ MarkWaitingOnUserWrite(c)
        \/ \E r \in Resp : MarkWaitingOnThirdPartyRead(c, r)
        \/ MarkWaitingOnThirdPartyWrite(c)
        \/ \E r \in Resp : ResumeFromWaitingOnUserRead(c, r)
        \/ ResumeFromWaitingOnUserWrite(c)
        \/ \E r \in Resp : CompleteWithEvidenceRead(c, r)
        \/ \E src \in Record : CompleteWithEvidenceWrite(c, src)
        \/ \E r \in Resp : ResponsiblyExhaustWithEvidenceRead(c, r)
        \/ \E src, supporting \in Record :
              ResponsiblyExhaustWithEvidenceWrite(c, src, supporting)
        \/ Abandon(c)

Spec == Init /\ [][Next]_vars

-----------------------------------------------------------------------------
(* Properties *)

\* The tables keep their shape, and every open transaction names a row it read.
TypeOK ==
    /\ row \in [Resp -> Row \cup {NoRow}]
    /\ ledger \in [Resp -> Seq(Event)]
    /\ tx \in [Call -> Creation \cup Move \cup {Idle}]
    /\ reply \in [Call -> Reply \cup {NoReply}]
    /\ \A c \in Call : tx[c] \in Move => Exists(tx[c].r)

\* Racing acceptances and retries never leave two open rows for one member,
\* kind and origin: createAccepted's unlocked lookup is backed by the index,
\* and no status change brings a closed row back beside a newer one.
OneOpenPerSlot ==
    \A r1, r2 \in Resp :
        IsOpen(r1) /\ IsOpen(r2) /\ row[r1].slot = row[r2].slot => r1 = r2

LastStatusIs(l, st) ==
    \E i \in DOMAIN l :
        /\ l[i].to = st
        /\ \A j \in DOMAIN l : j > i => l[j].to = NoStatus

\* The row and its ledger never disagree: the last event with a toStatus is
\* the row's status, whatever other transactions did between a read and an
\* update, and a transaction that fails a CHECK leaves neither behind.
LedgerTellsStatus ==
    \A r \in Resp :
        IF Exists(r) THEN LastStatusIs(ledger[r], row[r].status)
                     ELSE ledger[r] = <<>>

ClosesOnce(l) ==
    \A i \in DOMAIN l :
        l[i].type \in {"COMPLETED", "RESPONSIBLY_EXHAUSTED"} =>
            /\ i = Len(l) /\ i > 2
            /\ l[i].src \in Record
            /\ l[i - 1] = Evidenced(l[i].src)

\* A Responsibility is closed at most once, its closing event is the last of
\* the ledger, and the event just before it evidences the same source record:
\* two completions, or a completion racing an exhaustion, cannot both append.
ClosedOnceWithEvidence == \A r \in Resp : ClosesOnce(ledger[r])

Alternates(l) ==
    \A j \in DOMAIN l : \A i \in 1 .. (j - 1) :
        /\ l[j].type = "USER_INPUT_REQUIRED" /\ l[i].to = "WAITING_ON_USER" =>
              \E k \in (i + 1) .. (j - 1) : l[k].to \in Open \ {"WAITING_ON_USER"}
        /\ l[j].type = "STATE_CHANGED" /\ l[i].to \in Open \ {"WAITING_ON_USER"} =>
              \E k \in (i + 1) .. (j - 1) : l[k].to = "WAITING_ON_USER"

\* USER_INPUT_REQUIRED is appended once for each waiting state, and each
\* STATE_CHANGED answers exactly the pause it ends, however pauses, resumes
\* and third-party waits interleave.
PausesAlternate == \A r \in Resp : Alternates(ledger[r])

Held(l, st, n) == \E i \in 1 .. n : l[i].to = st

FromHeld(l) ==
    \A j \in DOMAIN l : l[j].from # NoStatus => Held(l, l[j].from, j - 1)

\* The fromStatus of an event may be stale (it is the status the transaction
\* read, not the one it updated), but never invented: the row held that
\* status at an earlier point of the same ledger.
FromStatusWasHeld == \A r \in Resp : FromHeld(ledger[r])

\* Terminal truth is final: no late, repeated or stale call changes a closed
\* row or appends to its ledger.
TerminalIsFinal ==
    [][\A r \in Resp : row[r].status \in Terminal =>
            row'[r] = row[r] /\ ledger'[r] = ledger[r]]_vars

\* What the abstract promise sees of the tables.
CarriedIn(s) == OpenIn(s)
InStatus(st) == {r \in Resp : row[r].status = st}
CitedFor(r) == {ledger[r][i].src : i \in DOMAIN ledger[r]} \ {NoRecord}

Promise == INSTANCE CarriedPromise WITH
    carried <- [s \in Slot |-> CarriedIn(s)],
    kept <- InStatus("COMPLETED"),
    ended <- InStatus("RESPONSIBLY_EXHAUSTED"),
    cited <- [r \in Resp |-> CitedFor(r)]

\* The repository implements the abstract promise: work is accepted once per
\* slot, carried until it is kept or ended with evidence, never dropped.
ImplementsPromise == Promise!Spec
===============================================================================
