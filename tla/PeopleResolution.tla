--------------------------- MODULE PeopleResolution ---------------------------
(***************************************************************************)
(* PeopleResolutionsService over the Responsibility ledger and the need's  *)
(* own records (NeedsService, NeedEscalationsService): how one StatedNeed  *)
(* is carried from acceptance to an outcome through verified resources,    *)
(* Human Stewards and reports of the member.                               *)
(*                                                                         *)
(* Every await of the service is a step of its own: what a call read (the  *)
(* row, the latest report, the escalations, the offers) may be stale when  *)
(* it acts on it.  The records of the need are one journal in the order of *)
(* their timestamps; an index of the journal is both a record's id and its *)
(* time, so an evidence event of the ledger cites an index.                *)
(***************************************************************************)
EXTENDS LedgerTables, Naturals, Sequences

CONSTANTS
    Resource,    \* City Sheet entries in the need's categories
    MaxJournal   \* bound on the records of the need

ASSUME MaxJournalAssumption == MaxJournal \in Nat

VARIABLES
    journal,     \* reports, escalations, offers, their answers, no-route record
    recognized,  \* whether the need's own words match a category
    safe,        \* active and verified resources of those categories
    reachable,   \* whether a steward or administrator account exists
    svc          \* where each service call stands, and what it has read

world == <<recognized, safe, reachable>>
vars == <<ledgerVars, journal, world, svc>>

Ledger == INSTANCE ResponsibilityLedger WITH
    Slot <- {"conversation"}, NeedSlot <- {"conversation"}, GuidanceSlot <- {},
    Provenance <- {"need"}, Record <- 1 .. MaxJournal, NoRecord <- 0

Outcome == {"RESOLVED", "STILL_UNRESOLVED"}
Handling == {"ACKNOWLEDGED", "HANDOFF_RESOLVED"}
Response == {"ACCEPTED", "DECLINED"}

NoCall == [at |-> "idle"]

-----------------------------------------------------------------------------
(* The need's records *)

At(kinds) == {i \in DOMAIN journal : journal[i].kind \in kinds}
Newest(S) == IF S = {} THEN 0 ELSE CHOOSE i \in S : \A j \in S : j <= i

LatestOutcome == Newest(At(Outcome))
Is(i, kind) == i # 0 /\ journal[i].kind = kind

\* The last change made to record i, whose status it therefore is.
Standing(i, kinds) == Newest({k \in At(kinds) : journal[k].on = i})

LatestEscalation == Newest(At({"ESCALATED"}))
EscalationOpen(i) == ~Is(Standing(i, Handling), "HANDOFF_RESOLVED")
EscalationResolved(i) == Is(Standing(i, Handling), "HANDOFF_RESOLVED")

Offers == At({"OFFERED"})
Pending(i) == Standing(i, Response) = 0
Accepted(i) == Is(Standing(i, Response), "ACCEPTED")
Declined(i) == Is(Standing(i, Response), "DECLINED")

\* findMatchingResources.
Matching == IF recognized THEN safe ELSE {}

NoRoute == Newest(At({"NO_ROUTE"}))

Add(kind, on) ==
    /\ Len(journal) < MaxJournal
    /\ journal' = Append(journal, [kind |-> kind, on |-> on])

-----------------------------------------------------------------------------
Init ==
    /\ Ledger!Init
    /\ journal = <<>>
    /\ recognized \in BOOLEAN
    /\ safe \in SUBSET Resource
    /\ reachable \in BOOLEAN
    /\ svc = [c \in Call |-> NoCall]

Goto(c, at, r, outcome, on) ==
    svc' = [svc EXCEPT ![c] = [at |-> at, r |-> r, outcome |-> outcome, on |-> on]]

(* Go on with what the call has read so far. *)
Then(c, at) == svc' = [svc EXCEPT ![c].at = at]

(* What the call does next needs no more than this record or resource. *)
Move(c, at, on) == Goto(c, at, svc[c].r, 0, on)

Done(c) == svc' = [svc EXCEPT ![c] = NoCall]

Terminal(r) == row[r].status \in Ledger!Terminal

-----------------------------------------------------------------------------
(* accept *)

\* A row of this need is returned in any status; otherwise createAccepted.
AcceptFind(c) ==
    /\ svc[c] = NoCall
    /\ \/ /\ \E r \in Resp : Ledger!Exists(r) /\ Goto(c, "row", r, 0, 0)
          /\ UNCHANGED ledgerVars
       \/ /\ \A r \in Resp : ~Ledger!Exists(r)
          /\ Ledger!CreateAcceptedFind(c, "conversation", "need")
          /\ svc' = [svc EXCEPT ![c] = [at |-> "create"]]
    /\ UNCHANGED <<journal, world>>

AcceptCreate(c) ==
    /\ svc[c].at = "create"
    /\ Ledger!CreateAcceptedInsert(c) \/ Ledger!CreateAcceptedRefind(c)
    /\ \/ tx'[c] # Ledger!Idle /\ UNCHANGED svc
       \/ /\ tx'[c] = Ledger!Idle /\ reply'[c].kind = "row"
          /\ Goto(c, "row", reply'[c].r, 0, 0)
       \/ tx'[c] = Ledger!Idle /\ reply'[c].kind = "duplicateKey" /\ Done(c)
    /\ UNCHANGED <<journal, world>>

-----------------------------------------------------------------------------
(* continue *)

ContinueRow(c, r) ==
    /\ \/ svc[c] = NoCall /\ Ledger!Exists(r)
       \/ svc[c].at = "row" /\ svc[c].r = r
    /\ \/ Terminal(r) /\ Done(c)
       \/ ~Terminal(r) /\ Goto(c, "outcome", r, 0, 0)
    /\ UNCHANGED <<ledgerVars, journal, world>>

ContinueOutcome(c) ==
    /\ svc[c].at = "outcome"
    /\ \/ /\ Is(LatestOutcome, "RESOLVED")
          /\ Move(c, "completeWithEvidence", LatestOutcome)
       \/ /\ ~Is(LatestOutcome, "RESOLVED")
          /\ Goto(c, "escalations", svc[c].r, LatestOutcome, 0)
    /\ UNCHANGED <<ledgerVars, journal, world>>

(* Mutant: a finished handoff completes the need. *)
ContinueEscalationsCompleting(c) ==
    /\ svc[c].at = "escalations"
    /\ LET e == LatestEscalation IN
       \/ e # 0 /\ EscalationOpen(e) /\ Move(c, "markWaitingOnThirdParty", 0)
       \/ e # 0 /\ EscalationResolved(e) /\ Move(c, "completeWithEvidence", e)
       \/ e = 0 /\ Then(c, "offers")
    /\ UNCHANGED <<ledgerVars, journal, world>>

\* Only the newest handoff routes; once resolved it asks for a newer report.
ContinueEscalations(c) ==
    /\ svc[c].at = "escalations"
    /\ LET e == LatestEscalation IN
       \/ e # 0 /\ EscalationOpen(e) /\ Move(c, "markWaitingOnThirdParty", 0)
       \/ /\ e # 0 /\ EscalationResolved(e)
          /\ svc[c].outcome <= Standing(e, {"HANDOFF_RESOLVED"})
          /\ Move(c, "markWaitingOnUser", 0)
       \/ /\ e # 0 => /\ EscalationResolved(e)
                      /\ svc[c].outcome > Standing(e, {"HANDOFF_RESOLVED"})
          /\ Then(c, "offers")
    /\ UNCHANGED <<ledgerVars, journal, world>>

\* The member reported after accepting that the need is still unresolved.
Superseded(i, outcome) ==
    Is(outcome, "STILL_UNRESOLVED") /\ outcome > Standing(i, Response)

InProgress(outcome) == {i \in Offers : Accepted(i) /\ ~Superseded(i, outcome)}
Presentable == {i \in Offers : Pending(i) /\ journal[i].on \in Matching}

Unoffered == Matching \ {journal[i].on : i \in Offers}
AllDeclined == \A x \in Matching : \E i \in Offers : journal[i].on = x /\ Declined(i)

\* The first of the unoffered resources in the order of their references.
ContinueOffers(c) ==
    /\ svc[c].at = "offers"
    /\ \/ InProgress(svc[c].outcome) # {} /\ Move(c, "markWaitingOnThirdParty", 0)
       \/ /\ InProgress(svc[c].outcome) = {}
          /\ \/ \E i \in Presentable : Move(c, "markWaitingOnUser", journal[i].on)
             \/ /\ Presentable = {}
                /\ \/ \E x \in Unoffered : Move(c, "offer", x)
                   \/ /\ Unoffered = {}
                      /\ \/ ~recognized /\ Move(c, "markWaitingOnUser", 0)
                         \/ recognized /\ Matching = {} /\ Then(c, "verifiedResource")
                         \/ Matching # {} /\ ~AllDeclined /\ Move(c, "markWaitingOnUser", 0)
                         \/ Matching # {} /\ AllDeclined /\ Move(c, "humanReachable", 0)
    /\ UNCHANGED <<ledgerVars, journal, world>>

\* offerResource looks at the entry once more, at its verification only: one
\* retired since is still offered, one no longer verified is Not Found.
OfferResource(c) ==
    /\ svc[c].at = "offer"
    /\ \/ Add("OFFERED", svc[c].on) /\ Then(c, "markWaitingOnUser")
       \/ svc[c].on \notin safe /\ Done(c) /\ UNCHANGED journal
    /\ UNCHANGED <<ledgerVars, world>>

\* checkSafeFailure: a verified resource, then a steward, then the record.
CheckVerifiedResource(c) ==
    /\ svc[c].at = "verifiedResource"
    /\ \/ safe # {} /\ Move(c, "humanReachable", 0)
       \/ safe = {} /\ Then(c, "stewardAccounts")
    /\ UNCHANGED <<ledgerVars, journal, world>>

CheckStewardAccounts(c) ==
    /\ svc[c].at = "stewardAccounts"
    /\ \/ reachable /\ Move(c, "humanReachable", 0)
       \/ ~reachable /\ Then(c, "noRoute")
    /\ UNCHANGED <<ledgerVars, journal, world>>

(* Mutant: the report need not be later than the record. *)
RecordNoRouteAnyReport(c) ==
    /\ svc[c].at = "noRoute"
    /\ LET durable == NoRoute # 0 /\ Is(svc[c].outcome, "STILL_UNRESOLVED")
       IN \/ /\ durable /\ UNCHANGED journal
             /\ Goto(c, "responsiblyExhaustWithEvidence", svc[c].r, svc[c].outcome, NoRoute)
          \/ /\ ~durable /\ Move(c, "resumeFromWaitingOnUser", 0)
             /\ IF NoRoute = 0 THEN Add("NO_ROUTE", 0) ELSE UNCHANGED journal
    /\ UNCHANGED <<ledgerVars, world>>

\* The no-route record is made once; it ends the work only when the member
\* reported the need unresolved after it was made.
RecordNoRoute(c) ==
    /\ svc[c].at = "noRoute"
    /\ LET durable == /\ NoRoute # 0
                      /\ Is(svc[c].outcome, "STILL_UNRESOLVED")
                      /\ svc[c].outcome > NoRoute
       IN \/ /\ durable /\ UNCHANGED journal
             /\ Goto(c, "responsiblyExhaustWithEvidence", svc[c].r, svc[c].outcome, NoRoute)
          \/ /\ ~durable /\ Move(c, "resumeFromWaitingOnUser", 0)
             /\ IF NoRoute = 0 THEN Add("NO_ROUTE", 0) ELSE UNCHANGED journal
    /\ UNCHANGED <<ledgerVars, world>>

CheckHumanReachable(c) ==
    /\ svc[c].at = "humanReachable"
    /\ \/ reachable /\ Move(c, "markWaitingOnUser", 0)
       \/ ~reachable /\ Move(c, "resumeFromWaitingOnUser", 0)
    /\ UNCHANGED <<ledgerVars, journal, world>>

-----------------------------------------------------------------------------
(* reportOutcome, respondToResource, requestHumanSteward *)

\* The owned, open row every member operation starts from.
Begins(c, r) == svc[c] = NoCall /\ Ledger!Exists(r) /\ ~Terminal(r)

ReportOutcome(c, r, outcome) ==
    /\ Begins(c, r)
    /\ Goto(c, outcome, r, 0, 0)
    /\ UNCHANGED <<ledgerVars, journal, world>>

RecordOutcome(c) ==
    /\ svc[c].at \in Outcome
    /\ Add(svc[c].at, 0)
    /\ IF svc[c].at = "RESOLVED" THEN Move(c, "completeWithEvidence", Len(journal'))
                                 ELSE Move(c, "row", 0)
    /\ UNCHANGED <<ledgerVars, world>>

RespondToResource(c, r, x, answer) ==
    /\ Begins(c, r)
    /\ Goto(c, answer, r, 0, x)
    /\ UNCHANGED <<ledgerVars, journal, world>>

\* The most recent pending offer of the resource, or Not Found.
FindPendingOffer(c) ==
    /\ svc[c].at \in {"accept", "decline"}
    /\ LET i == Newest({k \in Offers : journal[k].on = svc[c].on /\ Pending(k)}) IN
       \/ i = 0 /\ Done(c)
       \/ i # 0 /\ svc[c].at = "accept" /\ Move(c, "acceptOffer", i)
       \/ i # 0 /\ svc[c].at = "decline" /\ Move(c, "declineOffer", i)
    /\ UNCHANGED <<ledgerVars, journal, world>>

\* The answer is written to the offer whatever was answered meanwhile.
AcceptResource(c) ==
    /\ svc[c].at = "acceptOffer"
    /\ Add("ACCEPTED", svc[c].on)
    /\ Move(c, "markWaitingOnThirdParty", 0)
    /\ UNCHANGED <<ledgerVars, world>>

DeclineResource(c) ==
    /\ svc[c].at = "declineOffer"
    /\ Add("DECLINED", svc[c].on)
    /\ Move(c, "row", 0)
    /\ UNCHANGED <<ledgerVars, world>>

RequestHumanSteward(c, r) ==
    /\ Begins(c, r)
    /\ Goto(c, "request", r, 0, 0)
    /\ UNCHANGED <<ledgerVars, journal, world>>

FindHandoff(c) ==
    /\ svc[c].at = "request"
    /\ LET e == LatestEscalation IN
       \/ e # 0 /\ EscalationResolved(e) /\ Then(c, "row")
       \/ e # 0 /\ EscalationOpen(e) /\ Then(c, "markWaitingOnThirdParty")
       \/ e = 0 /\ Then(c, "reach")
    /\ UNCHANGED <<ledgerVars, journal, world>>

ReachSteward(c) ==
    /\ svc[c].at = "reach"
    /\ IF reachable THEN Then(c, "escalate") ELSE Then(c, "resumeFromWaitingOnUser")
    /\ UNCHANGED <<ledgerVars, journal, world>>

Escalate(c) ==
    /\ svc[c].at = "escalate"
    /\ Add("ESCALATED", 0)
    /\ Then(c, "markWaitingOnThirdParty")
    /\ UNCHANGED <<ledgerVars, world>>

-----------------------------------------------------------------------------
(* The Responsibility method a call ends with *)

MoveRead(c) ==
    /\ \/ svc[c].at = "markWaitingOnUser" /\ Ledger!MarkWaitingOnUserRead(c, svc[c].r)
       \/ svc[c].at = "markWaitingOnThirdParty"
             /\ Ledger!MarkWaitingOnThirdPartyRead(c, svc[c].r)
       \/ svc[c].at = "resumeFromWaitingOnUser"
             /\ Ledger!ResumeFromWaitingOnUserRead(c, svc[c].r)
       \/ svc[c].at = "completeWithEvidence"
             /\ Ledger!CompleteWithEvidenceRead(c, svc[c].r)
       \/ svc[c].at = "responsiblyExhaustWithEvidence"
             /\ Ledger!ResponsiblyExhaustWithEvidenceRead(c, svc[c].r)
    /\ IF tx'[c] = Ledger!Idle THEN Done(c) ELSE UNCHANGED svc
    /\ UNCHANGED <<journal, world>>

(* Mutant: the row is closed without its events. *)
MoveWriteSilently(c) ==
    /\ tx[c].op = "completeWithEvidence"
    /\ row' = [row EXCEPT ![svc[c].r].status = "COMPLETED"]
    /\ Ledger!Return(c, Ledger!RowReply(svc[c].r))
    /\ Done(c)
    /\ UNCHANGED <<ledger, journal, world>>

MoveWrite(c) ==
    /\ \/ Ledger!MarkWaitingOnUserWrite(c)
       \/ Ledger!MarkWaitingOnThirdPartyWrite(c)
       \/ Ledger!ResumeFromWaitingOnUserWrite(c)
       \/ svc[c].at = "completeWithEvidence"
             /\ Ledger!CompleteWithEvidenceWrite(c, svc[c].on)
       \/ svc[c].at = "responsiblyExhaustWithEvidence"
             /\ Ledger!ResponsiblyExhaustWithEvidenceWrite(c, svc[c].on, svc[c].outcome)
    /\ Done(c)
    /\ UNCHANGED <<journal, world>>

-----------------------------------------------------------------------------
(* Everyone else *)

\* A steward acts on an escalation in whatever status it is.
Acknowledge(e) ==
    /\ reachable /\ e \in At({"ESCALATED"})
    /\ Add("ACKNOWLEDGED", e)
    /\ UNCHANGED <<ledgerVars, world, svc>>

Resolve(e) ==
    /\ reachable /\ e \in At({"ESCALATED"})
    /\ Add("HANDOFF_RESOLVED", e)
    /\ UNCHANGED <<ledgerVars, world, svc>>

\* Resources are verified or retired, steward accounts come and go.
RoutesChange ==
    /\ \/ \E x \in Resource : safe' = safe \cup {x} /\ UNCHANGED reachable
       \/ \E x \in Resource : safe' = safe \ {x} /\ UNCHANGED reachable
       \/ reachable' = ~reachable /\ UNCHANGED safe
    /\ UNCHANGED <<ledgerVars, journal, recognized, svc>>

\* A request fails between two awaits; what it wrote before stays.
Crash(c) ==
    /\ svc[c] # NoCall
    /\ \/ Ledger!Abandon(c)
       \/ tx[c] = Ledger!Idle /\ UNCHANGED ledgerVars
    /\ Done(c)
    /\ UNCHANGED <<journal, world>>

Next ==
    \/ \E c \in Call :
        \/ AcceptFind(c) \/ AcceptCreate(c)
        \/ \E r \in Resp : ContinueRow(c, r)
        \/ ContinueOutcome(c) \/ ContinueEscalations(c) \/ ContinueOffers(c)
        \/ OfferResource(c) \/ CheckVerifiedResource(c) \/ CheckStewardAccounts(c)
        \/ RecordNoRoute(c) \/ CheckHumanReachable(c)
        \/ \E r \in Resp, outcome \in Outcome : ReportOutcome(c, r, outcome)
        \/ RecordOutcome(c)
        \/ \E r \in Resp, x \in Resource, answer \in {"accept", "decline"} :
              RespondToResource(c, r, x, answer)
        \/ FindPendingOffer(c) \/ AcceptResource(c) \/ DeclineResource(c)
        \/ \E r \in Resp : RequestHumanSteward(c, r)
        \/ FindHandoff(c) \/ ReachSteward(c) \/ Escalate(c)
        \/ MoveRead(c) \/ MoveWrite(c)
        \/ Crash(c)
    \/ \E e \in DOMAIN journal : Acknowledge(e) \/ Resolve(e)
    \/ RoutesChange

Spec == Init /\ [][Next]_vars

-----------------------------------------------------------------------------
(* Properties *)

\* The record cited by the event that closed row r.
ClosedBy(r) == ledger[r][Len(ledger[r])].src

\* A need is completed only on the member's own report that it is resolved:
\* an offer, an accepted resource or a finished handoff never completes it.
CompletedByReport ==
    \A r \in Resp : row[r].status = "COMPLETED" => Is(ClosedBy(r), "RESOLVED")

\* A need is exhausted only after a recorded no-route state and a report,
\* made after that record, that the need is still unresolved.
ExhaustedAfterConfirmation ==
    \A r \in Resp : row[r].status = "RESPONSIBLY_EXHAUSTED" =>
        /\ Is(ClosedBy(r), "NO_ROUTE")
        /\ \E k \in DOMAIN ledger[r] :
              /\ Is(ledger[r][k].src, "STILL_UNRESOLVED")
              /\ ledger[r][k].src > ClosedBy(r)

\* Every behaviour of the service is one of the ledger.
ImplementsLedger == Ledger!Spec

\* Continuation preserves one Responsibility while moving among valid routes:
\* the ledger never refuses the move the service chose.
RouteChangesAreRecorded == \A c \in Call : reply[c].kind # "checkViolation"
===============================================================================
