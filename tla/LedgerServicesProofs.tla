-------------------------- MODULE LedgerServicesProofs --------------------------
(***************************************************************************)
(* What the services over the personal Responsibilities keep true of them, *)
(* for any number of requests, rows and records: PeopleResolutionsService, *)
(* ResponsibilitiesService (NeedAcceptance) and PeopleHelpService          *)
(* (ApplicationHelp).  Each is a behaviour of the ledger; the ledger's own *)
(* theorems then hold of its tables.                                       *)
(***************************************************************************)
EXTENDS PeopleResolution, NeedAcceptance, ApplicationHelp,
        SequenceTheorems, WellFoundedInduction, TLAPS

-----------------------------------------------------------------------------
(* The newest of a set of records *)

\* A nonempty set of numbers up to n has a greatest one.
LEMMA GreatestExists ==
    ASSUME NEW n \in Nat, NEW S \in SUBSET (1 .. n), S # {}
    PROVE  \E i \in S : \A j \in S : j <= i
<1> DEFINE T == {k \in Nat : n - k \in S}
<1>1. PICK i \in S : TRUE
    OBVIOUS
<1>2. n - i \in Nat /\ n - (n - i) = i
    BY <1>1
<1>3. T # {} /\ T \subseteq Nat
    BY <1>1, <1>2
<1>4. PICK R : R = OpToRel(<, Nat)
    OBVIOUS
<1>5. IsWellFoundedOn(R, Nat)
    BY <1>4, NatLessThanWellFounded
<1>6. PICK x \in T : \A y \in T : ~(<<y, x>> \in R)
    BY <1>3, <1>5, WFMin
<1>7. \A y \in T : ~(y < x)
    BY <1>3, <1>4, <1>6 DEF OpToRel
<1>8. n - x \in S
    OBVIOUS
<1>9. ASSUME NEW j \in S PROVE j <= n - x
  <2>1. n - j \in T
    <3>1. j \in 1 .. n
        BY <1>9
    <3>2. n - j \in Nat /\ n - (n - j) = j
        BY <3>1
    <3> QED BY <1>9, <3>2
  <2>2. ~(n - j < x)
      BY <1>7, <2>1
  <2>3. j \in Nat /\ x \in Nat
      BY <1>9
  <2> QED BY <2>2, <2>3
<1> QED BY <1>8, <1>9

LEMMA NewestIs ==
    ASSUME NEW n \in Nat, NEW S \in SUBSET (1 .. n)
    PROVE  /\ S = {} => Newest(S) = 0
           /\ S # {} => Newest(S) \in S
           /\ Newest(S) \in Nat
<1>1. CASE S = {}
    BY <1>1 DEF Newest
<1>2. CASE S # {}
  <2>1. \E i \in S : \A j \in S : j <= i
      BY <1>2, GreatestExists
  <2>2. Newest(S) \in S
      BY <1>2, <2>1 DEF Newest
  <2>3. \A i \in S : i \in Nat
      OBVIOUS
  <2> QED BY <1>2, <2>2, <2>3
<1> QED BY <1>1, <1>2

-----------------------------------------------------------------------------
(* People resolutions are behaviours of the ledger *)

PeopleLedger == INSTANCE ResponsibilityLedgerProofs WITH
    Slot <- {"conversation"}, NeedSlot <- {"conversation"}, GuidanceSlot <- {},
    Provenance <- {"need"}, Record <- 1 .. MaxJournal, NoRecord <- 0

\* The ledger's assumptions, of the ledger of a need.
LEMMA PeopleLedgerAssumptions ==
    /\ {"conversation"} \subseteq {"conversation"} /\ {} \subseteq {"conversation"}
    /\ 0 \notin 1 .. MaxJournal
    /\ MaxEvents \in Nat
BY LedgerBoundAssumption, MaxJournalAssumption

\* Both instances of the ledger are the same.
LEMMA SamePeopleLedger ==
    /\ Ledger!Init <=> PeopleLedger!Init
    /\ Ledger!Next <=> PeopleLedger!Next
    /\ Ledger!vars = PeopleLedger!vars
    /\ Ledger!Idle = PeopleLedger!Idle
    /\ \A r : Ledger!Exists(r) <=> PeopleLedger!Exists(r)
BY DEF Ledger!Init, PeopleLedger!Init, Ledger!Next, PeopleLedger!Next,
       Ledger!vars, PeopleLedger!vars,
       Ledger!CreateAcceptedFind, PeopleLedger!CreateAcceptedFind,
       Ledger!CreateAcceptedInsert, PeopleLedger!CreateAcceptedInsert,
       Ledger!CreateAcceptedRefind, PeopleLedger!CreateAcceptedRefind,
       Ledger!MarkWaitingOnUserRead, PeopleLedger!MarkWaitingOnUserRead,
       Ledger!MarkWaitingOnUserWrite, PeopleLedger!MarkWaitingOnUserWrite,
       Ledger!MarkWaitingOnThirdPartyRead, PeopleLedger!MarkWaitingOnThirdPartyRead,
       Ledger!MarkWaitingOnThirdPartyWrite, PeopleLedger!MarkWaitingOnThirdPartyWrite,
       Ledger!ResumeFromWaitingOnUserRead, PeopleLedger!ResumeFromWaitingOnUserRead,
       Ledger!ResumeFromWaitingOnUserWrite, PeopleLedger!ResumeFromWaitingOnUserWrite,
       Ledger!CompleteWithEvidenceRead, PeopleLedger!CompleteWithEvidenceRead,
       Ledger!CompleteWithEvidenceWrite, PeopleLedger!CompleteWithEvidenceWrite,
       Ledger!ResponsiblyExhaustWithEvidenceRead,
       PeopleLedger!ResponsiblyExhaustWithEvidenceRead,
       Ledger!ResponsiblyExhaustWithEvidenceWrite,
       PeopleLedger!ResponsiblyExhaustWithEvidenceWrite,
       Ledger!Abandon, PeopleLedger!Abandon,
       Ledger!ReadCurrent, PeopleLedger!ReadCurrent,
       Ledger!GuardedUpdate, PeopleLedger!GuardedUpdate,
       Ledger!Accepted, PeopleLedger!Accepted, Ledger!ShapeCheck, PeopleLedger!ShapeCheck,
       Ledger!EvidenceShapeCheck, PeopleLedger!EvidenceShapeCheck,
       Ledger!Evidenced, PeopleLedger!Evidenced, Ledger!Evt, PeopleLedger!Evt,
       Ledger!Evidencing, PeopleLedger!Evidencing,
       Ledger!Return, PeopleLedger!Return, Ledger!Proceed, PeopleLedger!Proceed,
       Ledger!RowReply, PeopleLedger!RowReply, Ledger!Idle, PeopleLedger!Idle,
       Ledger!NoReply, PeopleLedger!NoReply, Ledger!NoRow, PeopleLedger!NoRow,
       Ledger!NoStatus, PeopleLedger!NoStatus, Ledger!OpenIn, PeopleLedger!OpenIn,
       Ledger!IsOpen, PeopleLedger!IsOpen, Ledger!Exists, PeopleLedger!Exists,
       Ledger!Open, PeopleLedger!Open, Ledger!Terminal, PeopleLedger!Terminal,
       Ledger!Status, PeopleLedger!Status

Routing == {"escalations", "offers", "verifiedResource", "stewardAccounts", "noRoute"}

Stage ==
    Routing \cup Outcome \cup
    {"row", "outcome", "offer", "humanReachable", "accept", "decline", "acceptOffer",
     "declineOffer", "request", "reach", "escalate", "markWaitingOnUser",
     "markWaitingOnThirdParty", "resumeFromWaitingOnUser", "completeWithEvidence",
     "responsiblyExhaustWithEvidence"}

Serving == [at : Stage, r : Resp, outcome : Nat, on : Nat \cup Resource]
Creating == [at |-> "create"]

Entry ==
    [kind : Outcome \cup Handling \cup Response \cup {"ESCALATED", "OFFERED", "NO_ROUTE"},
     on : Nat \cup Resource]

Recorded(i, kind, j) == i \in DOMAIN j /\ j[i].kind = kind

\* What a call rests its next step on is in the journal: the report it routes
\* by, if any, and what it will cite as evidence.
RestsOn(at, outcome, on, j) ==
    /\ at \in Routing => outcome \in {0} \cup DOMAIN j
    /\ at = "completeWithEvidence" => Recorded(on, "RESOLVED", j)
    /\ at = "responsiblyExhaustWithEvidence" =>
          /\ Recorded(on, "NO_ROUTE", j)
          /\ Recorded(outcome, "STILL_UNRESOLVED", j)
          /\ outcome > on

Rests(s, j) == RestsOn(s.at, s.outcome, s.on, j)

\* A closed row cites the records the journal has for it.
ClosedWith(l, status, j) ==
    /\ status = "COMPLETED" => Len(l) \in DOMAIN l /\ Recorded(l[Len(l)].src, "RESOLVED", j)
    /\ status = "RESPONSIBLY_EXHAUSTED" =>
          /\ Len(l) \in DOMAIN l /\ Recorded(l[Len(l)].src, "NO_ROUTE", j)
          /\ \E k \in DOMAIN l :
                Recorded(l[k].src, "STILL_UNRESOLVED", j) /\ l[k].src > l[Len(l)].src

Journaled == journal \in Seq(Entry) /\ Len(journal) <= MaxJournal

PeopleInv ==
    /\ Journaled
    /\ svc \in [Call -> Serving \cup {NoCall, Creating}]
    /\ \A c \in Call : Rests(svc[c], journal)
    /\ \A r \in Resp : ClosedWith(ledger[r], row[r].status, journal)

\* A call that is past its creation serves a row.
LEMMA Serves ==
    ASSUME PeopleInv, NEW c \in Call, svc[c].at \in Stage
    PROVE  /\ svc[c] \in Serving
           /\ svc[c].r \in Resp /\ svc[c].outcome \in Nat /\ svc[c].on \in Nat \cup Resource
<1>1. NoCall.at \notin Stage /\ Creating.at \notin Stage
    BY DEF NoCall, Creating, Stage, Routing, Outcome
<1>2. svc[c] \in Serving
    BY <1>1 DEF PeopleInv
<1> QED BY <1>2 DEF Serving

\* What it cites is the number of a record.
LEMMA Cites ==
    ASSUME PeopleInv, NEW c \in Call
    PROVE  /\ svc[c].at = "completeWithEvidence" => svc[c].on \in 1 .. MaxJournal
           /\ svc[c].at = "responsiblyExhaustWithEvidence" =>
                 svc[c].on \in 1 .. MaxJournal /\ svc[c].outcome \in 1 .. MaxJournal
<1>1. DOMAIN journal = 1 .. Len(journal) /\ Len(journal) \in Nat /\ Len(journal) <= MaxJournal
    BY DEF PeopleInv, Journaled
<1>2. \A i \in DOMAIN journal : i \in 1 .. MaxJournal
    BY <1>1, MaxJournalAssumption
<1>3. Rests(svc[c], journal)
    BY DEF PeopleInv
<1> QED BY <1>2, <1>3 DEF Rests, RestsOn, Recorded

LEMMA StepsOfPeople ==
    ASSUME PeopleInv, [Next]_vars
    PROVE  [Ledger!Next]_(Ledger!vars)
<1>1. ASSUME NEW c \in Call, AcceptFind(c) PROVE [Ledger!Next]_(Ledger!vars)
    BY <1>1 DEF AcceptFind, Ledger!Next, Ledger!vars, ledgerVars
<1>2. ASSUME NEW c \in Call, AcceptCreate(c) PROVE Ledger!Next
    BY <1>2 DEF AcceptCreate, Ledger!Next
<1>3. ASSUME NEW c \in Call, MoveRead(c) PROVE Ledger!Next
  <2>1. svc[c].r \in Resp
      BY <1>3, Serves DEF MoveRead, Stage
  <2> QED BY <1>3, <2>1 DEF MoveRead, Ledger!Next
<1>4. ASSUME NEW c \in Call, MoveWrite(c) PROVE Ledger!Next
    BY <1>4, Cites DEF MoveWrite, Ledger!Next
<1>5. ASSUME NEW c \in Call, Crash(c) PROVE [Ledger!Next]_(Ledger!vars)
    BY <1>5 DEF Crash, Ledger!Next, Ledger!vars, ledgerVars
<1>6. ASSUME UNCHANGED ledgerVars PROVE [Ledger!Next]_(Ledger!vars)
    BY <1>6 DEF Ledger!vars, ledgerVars
<1>7. CASE UNCHANGED vars
    BY <1>6, <1>7 DEF vars
<1> QED BY <1>1, <1>2, <1>3, <1>4, <1>5, <1>6, <1>7
    DEF Next, ContinueRow, ContinueOutcome, ContinueEscalations, ContinueOffers,
        OfferResource, CheckVerifiedResource, CheckStewardAccounts, RecordNoRoute,
        CheckHumanReachable, ReportOutcome, RecordOutcome, RespondToResource,
        FindPendingOffer, AcceptResource, DeclineResource, RequestHumanSteward,
        FindHandoff, ReachSteward, Escalate, Acknowledge, Resolve, RoutesChange

\* The records of a journal stay what they are when another is added.
Grown(j, k) == \A i \in DOMAIN j : i \in DOMAIN k /\ k[i] = j[i]

Writes ==
    \/ UNCHANGED journal
    \/ \E kind \in Outcome \cup Handling \cup Response \cup {"ESCALATED", "OFFERED", "NO_ROUTE"},
          on \in Nat \cup Resource : Add(kind, on)

LEMMA Journals ==
    ASSUME Journaled, Writes
    PROVE  Journaled' /\ Grown(journal, journal')
<1>1. CASE UNCHANGED journal
    BY <1>1 DEF Journaled, Grown
<1>2. ASSUME NEW e \in Entry, Len(journal) < MaxJournal, journal' = Append(journal, e)
      PROVE  Journaled' /\ Grown(journal, journal')
    BY <1>2, MaxJournalAssumption DEF Journaled, Grown
<1> QED BY <1>1, <1>2 DEF Writes, Add, Entry

LEMMA GrownKeeps ==
    ASSUME NEW j, NEW k, Grown(j, k)
    PROVE  /\ \A i, kind : Recorded(i, kind, j) => Recorded(i, kind, k)
           /\ \A s : Rests(s, j) => Rests(s, k)
           /\ \A l, status : ClosedWith(l, status, j) => ClosedWith(l, status, k)
<1>1. \A i, kind : Recorded(i, kind, j) => Recorded(i, kind, k)
    BY DEF Grown, Recorded
<1>2. \A s : Rests(s, j) => Rests(s, k)
    BY <1>1 DEF Rests, RestsOn, Grown
<1>3. \A l, status : ClosedWith(l, status, j) => ClosedWith(l, status, k)
    BY <1>1 DEF ClosedWith
<1> QED BY <1>1, <1>2, <1>3

Closings == \A r \in Resp : ClosedWith(ledger[r], row[r].status, journal)

\* One call goes on, others stay where they are.
LEMMA ServiceStep ==
    ASSUME PeopleInv, NEW c \in Call, NEW s \in Serving \cup {NoCall, Creating},
           svc' = [svc EXCEPT ![c] = s], Writes, Rests(s, journal'), Closings'
    PROVE  PeopleInv'
<1>1. Journaled' /\ Grown(journal, journal')
    BY Journals DEF PeopleInv
<1>2. svc' \in [Call -> Serving \cup {NoCall, Creating}]
    BY DEF PeopleInv
<1>3. ASSUME NEW d \in Call PROVE Rests(svc[d], journal)'
  <2>1. Rests(svc[d], journal')
      BY <1>1, GrownKeeps DEF PeopleInv
  <2>2. svc'[d] = IF d = c THEN s ELSE svc[d]
      BY DEF PeopleInv
  <2> QED BY <2>1, <2>2
<1> QED BY <1>1, <1>2, <1>3 DEF PeopleInv, Closings

LEMMA ClosingsStay ==
    ASSUME PeopleInv, Writes, UNCHANGED <<row, ledger>>
    PROVE  Closings'
<1>1. Grown(journal, journal')
    BY Journals DEF PeopleInv
<1> QED BY <1>1, GrownKeeps DEF PeopleInv, Closings

\* A call goes on with what it has read, in a step that leaves the ledger alone.
LEMMA QuietGoto ==
    ASSUME PeopleInv, NEW c \in Call, NEW at \in Stage, NEW r \in Resp, NEW outcome \in Nat,
           NEW on \in Nat \cup Resource, Goto(c, at, r, outcome, on),
           Writes, UNCHANGED <<row, ledger>>, RestsOn(at, outcome, on, journal')
    PROVE  PeopleInv'
<1>1. PICK s : s = [at |-> at, r |-> r, outcome |-> outcome, on |-> on]
    OBVIOUS
<1>2. s \in Serving /\ s.at = at /\ s.outcome = outcome /\ s.on = on
    BY <1>1 DEF Serving
<1>3. svc' = [svc EXCEPT ![c] = s] /\ Rests(s, journal')
    BY <1>1, <1>2 DEF Goto, Rests
<1> QED BY <1>2, <1>3, ServiceStep, ClosingsStay

LEMMA QuietDone ==
    ASSUME PeopleInv, NEW c \in Call, Done(c), Writes, UNCHANGED <<row, ledger>>
    PROVE  PeopleInv'
<1>1. Rests(NoCall, journal')
    BY DEF NoCall, Rests, RestsOn, Routing
<1> QED BY <1>1, ServiceStep, ClosingsStay DEF Done

LEMMA ThenIs ==
    ASSUME PeopleInv, NEW c \in Call, svc[c].at \in Stage, NEW at, Then(c, at)
    PROVE  Goto(c, at, svc[c].r, svc[c].outcome, svc[c].on)
<1>1. PICK s : s = svc[c]
    OBVIOUS
<1>2. s \in Serving
    BY <1>1, Serves
<1>3. [s EXCEPT !.at = at] = [at |-> at, r |-> s.r, outcome |-> s.outcome, on |-> s.on]
    BY <1>2 DEF Serving
<1>4. svc' = [svc EXCEPT ![c] = [s EXCEPT !.at = at]]
    BY <1>1 DEF Then, PeopleInv
<1> QED BY <1>1, <1>3, <1>4 DEF Goto

Plain == Stage \ (Routing \cup {"completeWithEvidence", "responsiblyExhaustWithEvidence"})

LEMMA PlainRests == ASSUME NEW at \in Plain PROVE \A outcome, on, j : RestsOn(at, outcome, on, j)
BY DEF Plain, RestsOn

LEMMA QuietMove ==
    ASSUME PeopleInv, NEW c \in Call, svc[c].at \in Stage, NEW at \in Stage,
           NEW on \in Nat \cup Resource, Move(c, at, on),
           Writes, UNCHANGED <<row, ledger>>, RestsOn(at, 0, on, journal')
    PROVE  PeopleInv'
BY Serves, QuietGoto DEF Move

LEMMA QuietThen ==
    ASSUME PeopleInv, NEW c \in Call, svc[c].at \in Stage, NEW at \in Stage, Then(c, at),
           Writes, UNCHANGED <<row, ledger>>,
           RestsOn(at, svc[c].outcome, svc[c].on, journal')
    PROVE  PeopleInv'
BY Serves, ThenIs, QuietGoto

LEMMA RecordsOf ==
    ASSUME Journaled, NEW kinds
    PROVE  /\ At(kinds) \in SUBSET (1 .. Len(journal)) /\ Len(journal) \in Nat
           /\ Newest(At(kinds)) \in Nat
           /\ Newest(At(kinds)) # 0 =>
                 /\ Newest(At(kinds)) \in DOMAIN journal
                 /\ journal[Newest(At(kinds))].kind \in kinds
<1>1. At(kinds) \in SUBSET (1 .. Len(journal)) /\ Len(journal) \in Nat
    BY DEF At, Journaled
<1>2. /\ At(kinds) = {} => Newest(At(kinds)) = 0
      /\ At(kinds) # {} => Newest(At(kinds)) \in At(kinds)
      /\ Newest(At(kinds)) \in Nat
    BY <1>1, NewestIs
<1> QED BY <1>1, <1>2 DEF At

LEMMA ReportsOf ==
    ASSUME PeopleInv
    PROVE  /\ LatestOutcome \in Nat /\ LatestOutcome \in {0} \cup DOMAIN journal
           /\ Is(LatestOutcome, "RESOLVED") => Recorded(LatestOutcome, "RESOLVED", journal)
           /\ NoRoute \in Nat
           /\ NoRoute # 0 => Recorded(NoRoute, "NO_ROUTE", journal)
BY RecordsOf DEF PeopleInv, LatestOutcome, NoRoute, Is, Recorded

\* The stages by name.
LEMMA Stages ==
    /\ Plain \subseteq Stage /\ Routing \subseteq Stage
    /\ Outcome \subseteq Plain
    /\ {"row", "outcome", "offer", "humanReachable", "accept", "decline", "acceptOffer",
        "declineOffer", "request", "reach", "escalate", "markWaitingOnUser",
        "markWaitingOnThirdParty", "resumeFromWaitingOnUser"} \subseteq Plain
    /\ {"completeWithEvidence", "responsiblyExhaustWithEvidence"} \subseteq Stage
    /\ 0 \in Nat
BY DEF Plain, Stage, Routing, Outcome

LEMMA ContinueRowInv ==
    ASSUME PeopleInv, NEW c \in Call, NEW r \in Resp, ContinueRow(c, r) PROVE PeopleInv'
<1>1. Writes /\ UNCHANGED <<row, ledger>>
    BY DEF ContinueRow, Writes, ledgerVars
<1>2. "outcome" \in Stage /\ RestsOn("outcome", 0, 0, journal')
    BY Stages, PlainRests
<1>3. CASE Done(c)
    BY <1>1, <1>3, QuietDone
<1>4. CASE Goto(c, "outcome", r, 0, 0)
    BY <1>1, <1>2, <1>4, QuietGoto
<1> QED BY <1>3, <1>4 DEF ContinueRow

LEMMA ContinueOutcomeInv ==
    ASSUME PeopleInv, NEW c \in Call, ContinueOutcome(c) PROVE PeopleInv'
<1>1. Writes /\ UNCHANGED <<row, ledger>> /\ UNCHANGED journal
    BY DEF ContinueOutcome, Writes, ledgerVars
<1>2. svc[c].at \in Stage /\ svc[c].r \in Resp
    BY Stages, Serves DEF ContinueOutcome
<1>3. CASE Is(LatestOutcome, "RESOLVED") /\ Move(c, "completeWithEvidence", LatestOutcome)
  <2>1. RestsOn("completeWithEvidence", 0, LatestOutcome, journal')
      BY <1>1, <1>3, ReportsOf DEF RestsOn, Routing
  <2> QED BY <1>1, <1>2, <1>3, <2>1, ReportsOf, Stages, QuietMove
<1>4. CASE Goto(c, "escalations", svc[c].r, LatestOutcome, 0)
  <2>1. RestsOn("escalations", LatestOutcome, 0, journal') /\ "escalations" \in Stage
      BY <1>1, ReportsOf DEF RestsOn, Routing, Stage
  <2> QED BY <1>1, <1>2, <1>4, <2>1, ReportsOf, Stages, QuietGoto
<1> QED BY <1>3, <1>4 DEF ContinueOutcome

\* The next stage rests on nothing.
LEMMA PlainMove ==
    ASSUME PeopleInv, NEW c \in Call, svc[c].at \in Stage, NEW at \in Plain,
           NEW on \in Nat \cup Resource, Move(c, at, on), Writes, UNCHANGED <<row, ledger>>
    PROVE  PeopleInv'
BY QuietMove, PlainRests, Stages

LEMMA PlainThen ==
    ASSUME PeopleInv, NEW c \in Call, svc[c].at \in Stage, NEW at \in Plain,
           Then(c, at), Writes, UNCHANGED <<row, ledger>>
    PROVE  PeopleInv'
BY QuietThen, PlainRests, Stages

\* Routing goes on with the report it started from.
LEMMA RoutingThen ==
    ASSUME PeopleInv, NEW c \in Call, svc[c].at \in Routing, NEW at \in Routing,
           Then(c, at), UNCHANGED journal, UNCHANGED <<row, ledger>>
    PROVE  PeopleInv'
<1>1. RestsOn(at, svc[c].outcome, svc[c].on, journal')
    BY DEF PeopleInv, Rests, RestsOn, Routing
<1> QED BY <1>1, QuietThen, Stages DEF Writes

LEMMA ContinueEscalationsInv ==
    ASSUME PeopleInv, NEW c \in Call, ContinueEscalations(c) PROVE PeopleInv'
<1>1. /\ Writes /\ UNCHANGED <<row, ledger>> /\ UNCHANGED journal
      /\ svc[c].at \in Routing /\ svc[c].at \in Stage /\ "offers" \in Routing
    BY Stages DEF ContinueEscalations, Writes, ledgerVars, Routing
<1>2. \/ Move(c, "markWaitingOnThirdParty", 0)
      \/ Move(c, "markWaitingOnUser", 0)
      \/ Then(c, "offers")
    BY DEF ContinueEscalations
<1> QED BY <1>1, <1>2, PlainMove, RoutingThen, Stages

LEMMA ContinueOffersInv ==
    ASSUME PeopleInv, NEW c \in Call, safe \subseteq Resource, ContinueOffers(c) PROVE PeopleInv'
<1>1. /\ Writes /\ UNCHANGED <<row, ledger>> /\ UNCHANGED journal
      /\ svc[c].at \in Routing /\ svc[c].at \in Stage /\ "verifiedResource" \in Routing
    BY Stages DEF ContinueOffers, Writes, ledgerVars, Routing
<1>2. Matching \subseteq Resource
    BY DEF Matching
<1>3. \/ \E at \in Plain, on \in Nat \cup Resource : Move(c, at, on)
      \/ Then(c, "verifiedResource")
    BY <1>2, Stages DEF ContinueOffers, Presentable, Unoffered
<1> QED BY <1>1, <1>3, PlainMove, RoutingThen

LEMMA OfferResourceInv ==
    ASSUME PeopleInv, NEW c \in Call, OfferResource(c) PROVE PeopleInv'
<1>1. svc[c].at \in Stage /\ svc[c].on \in Nat \cup Resource
    BY Stages, Serves DEF OfferResource
<1>2. UNCHANGED <<row, ledger>>
    BY DEF OfferResource, ledgerVars
<1>3. Writes
    BY <1>1 DEF OfferResource, Writes
<1> QED BY <1>1, <1>2, <1>3, PlainThen, QuietDone, Stages DEF OfferResource

LEMMA CheckVerifiedResourceInv ==
    ASSUME PeopleInv, NEW c \in Call, CheckVerifiedResource(c) PROVE PeopleInv'
<1>1. /\ Writes /\ UNCHANGED <<row, ledger>> /\ UNCHANGED journal
      /\ svc[c].at \in Routing /\ svc[c].at \in Stage /\ "stewardAccounts" \in Routing
    BY Stages DEF CheckVerifiedResource, Writes, ledgerVars, Routing
<1> QED BY <1>1, PlainMove, RoutingThen, Stages DEF CheckVerifiedResource

LEMMA CheckStewardAccountsInv ==
    ASSUME PeopleInv, NEW c \in Call, CheckStewardAccounts(c) PROVE PeopleInv'
<1>1. /\ Writes /\ UNCHANGED <<row, ledger>> /\ UNCHANGED journal
      /\ svc[c].at \in Routing /\ svc[c].at \in Stage /\ "noRoute" \in Routing
    BY Stages DEF CheckStewardAccounts, Writes, ledgerVars, Routing
<1> QED BY <1>1, PlainMove, RoutingThen, Stages DEF CheckStewardAccounts

LEMMA RecordNoRouteInv ==
    ASSUME PeopleInv, NEW c \in Call, RecordNoRoute(c) PROVE PeopleInv'
<1>1. svc[c].at \in Routing /\ svc[c].at \in Stage /\ UNCHANGED <<row, ledger>>
    BY Stages DEF RecordNoRoute, ledgerVars, Routing
<1>2. svc[c].r \in Resp /\ svc[c].outcome \in Nat
    BY <1>1, Serves
<1>3. CASE /\ NoRoute # 0 /\ Is(svc[c].outcome, "STILL_UNRESOLVED") /\ svc[c].outcome > NoRoute
           /\ UNCHANGED journal
           /\ Goto(c, "responsiblyExhaustWithEvidence", svc[c].r, svc[c].outcome, NoRoute)
  <2>1. svc[c].outcome \in DOMAIN journal
      BY <1>1, <1>3 DEF PeopleInv, Rests, RestsOn, Is
  <2>2. RestsOn("responsiblyExhaustWithEvidence", svc[c].outcome, NoRoute, journal')
      BY <1>3, <2>1, ReportsOf DEF RestsOn, Routing, Is, Recorded
  <2> QED BY <1>1, <1>2, <1>3, <2>2, ReportsOf, QuietGoto, Stages DEF Writes
<1>4. CASE /\ Move(c, "resumeFromWaitingOnUser", 0)
           /\ IF NoRoute = 0 THEN Add("NO_ROUTE", 0) ELSE UNCHANGED journal
  <2>1. Writes
      BY <1>4 DEF Writes
  <2> QED BY <1>1, <1>4, <2>1, PlainMove, Stages
<1> QED BY <1>3, <1>4 DEF RecordNoRoute

LEMMA CheckHumanReachableInv ==
    ASSUME PeopleInv, NEW c \in Call, CheckHumanReachable(c) PROVE PeopleInv'
<1>1. Writes /\ UNCHANGED <<row, ledger>> /\ svc[c].at \in Stage
    BY Stages DEF CheckHumanReachable, Writes, ledgerVars
<1> QED BY <1>1, PlainMove, Stages DEF CheckHumanReachable

LEMMA BeginsInv ==
    ASSUME PeopleInv, NEW c \in Call, NEW r \in Resp, NEW at \in Plain,
           NEW on \in Nat \cup Resource, Goto(c, at, r, 0, on),
           UNCHANGED <<ledgerVars, journal, world>>
    PROVE  PeopleInv'
<1>1. Writes /\ UNCHANGED <<row, ledger>>
    BY DEF Writes, ledgerVars
<1> QED BY <1>1, QuietGoto, PlainRests, Stages

LEMMA ReportOutcomeInv ==
    ASSUME PeopleInv, NEW c \in Call, NEW r \in Resp, NEW outcome \in Outcome,
           ReportOutcome(c, r, outcome)
    PROVE  PeopleInv'
<1>1. outcome \in Plain
    BY Stages
<1> QED BY <1>1, BeginsInv, Stages DEF ReportOutcome

LEMMA RecordOutcomeInv ==
    ASSUME PeopleInv, NEW c \in Call, RecordOutcome(c) PROVE PeopleInv'
<1>1. svc[c].at \in Outcome /\ svc[c].at \in Stage /\ UNCHANGED <<row, ledger>>
    BY Stages DEF RecordOutcome, ledgerVars
<1>2. Add(svc[c].at, 0) /\ Writes
    BY <1>1, Stages DEF RecordOutcome, Writes
<1>3. CASE svc[c].at = "RESOLVED" /\ Move(c, "completeWithEvidence", Len(journal'))
  <2>1. Recorded(Len(journal'), "RESOLVED", journal') /\ Len(journal') \in Nat
      BY <1>2, <1>3 DEF Add, Recorded, PeopleInv, Journaled
  <2>2. RestsOn("completeWithEvidence", 0, Len(journal'), journal')
      BY <2>1 DEF RestsOn, Routing
  <2> QED BY <1>1, <1>2, <1>3, <2>1, <2>2, QuietMove, Stages
<1>4. CASE Move(c, "row", 0)
    BY <1>1, <1>2, <1>4, PlainMove, Stages
<1> QED BY <1>3, <1>4 DEF RecordOutcome

LEMMA RespondToResourceInv ==
    ASSUME PeopleInv, NEW c \in Call, NEW r \in Resp, NEW x \in Resource,
           NEW answering \in {"accept", "decline"}, RespondToResource(c, r, x, answering)
    PROVE  PeopleInv'
BY BeginsInv, Stages DEF RespondToResource

LEMMA FindPendingOfferInv ==
    ASSUME PeopleInv, NEW c \in Call, FindPendingOffer(c) PROVE PeopleInv'
<1>1. Writes /\ UNCHANGED <<row, ledger>> /\ svc[c].at \in Stage
    BY Stages DEF FindPendingOffer, Writes, ledgerVars
<1>2. PICK S : S = {k \in Offers : journal[k].on = svc[c].on /\ Pending(k)}
    OBVIOUS
<1>3. S \in SUBSET (1 .. Len(journal)) /\ Len(journal) \in Nat
    BY <1>2, RecordsOf DEF PeopleInv, Offers
<1>4. Newest(S) \in Nat
    BY <1>3, NewestIs
<1>5. Done(c) \/ Move(c, "acceptOffer", Newest(S)) \/ Move(c, "declineOffer", Newest(S))
    BY <1>2 DEF FindPendingOffer
<1> QED BY <1>1, <1>4, <1>5, QuietDone, PlainMove, Stages

LEMMA AcceptResourceInv ==
    ASSUME PeopleInv, NEW c \in Call, AcceptResource(c) PROVE PeopleInv'
<1>1. UNCHANGED <<row, ledger>> /\ svc[c].at \in Stage /\ svc[c].on \in Nat \cup Resource
    BY Stages, Serves DEF AcceptResource, ledgerVars
<1>2. Writes
    BY <1>1 DEF AcceptResource, Writes, Response
<1> QED BY <1>1, <1>2, PlainMove, Stages DEF AcceptResource

LEMMA DeclineResourceInv ==
    ASSUME PeopleInv, NEW c \in Call, DeclineResource(c) PROVE PeopleInv'
<1>1. UNCHANGED <<row, ledger>> /\ svc[c].at \in Stage /\ svc[c].on \in Nat \cup Resource
    BY Stages, Serves DEF DeclineResource, ledgerVars
<1>2. Writes
    BY <1>1 DEF DeclineResource, Writes, Response
<1> QED BY <1>1, <1>2, PlainMove, Stages DEF DeclineResource

LEMMA RequestHumanStewardInv ==
    ASSUME PeopleInv, NEW c \in Call, NEW r \in Resp, RequestHumanSteward(c, r) PROVE PeopleInv'
BY BeginsInv, Stages DEF RequestHumanSteward

LEMMA HandoffInv ==
    ASSUME PeopleInv, NEW c \in Call, FindHandoff(c) \/ ReachSteward(c) \/ Escalate(c)
    PROVE  PeopleInv'
<1>1. UNCHANGED <<row, ledger>> /\ svc[c].at \in Stage
    BY Stages DEF FindHandoff, ReachSteward, Escalate, ledgerVars
<1>2. Writes
    BY DEF FindHandoff, ReachSteward, Escalate, Writes
<1>3. \E at \in Plain : Then(c, at)
    BY Stages DEF FindHandoff, ReachSteward, Escalate
<1> QED BY <1>1, <1>2, <1>3, PlainThen

\* Stewards and resources do what they do without a call.
LEMMA OthersInv ==
    ASSUME PeopleInv, Writes, UNCHANGED <<row, ledger, svc>>
    PROVE  PeopleInv'
<1>1. Journaled' /\ Grown(journal, journal')
    BY Journals DEF PeopleInv
<1>2. ASSUME NEW d \in Call PROVE Rests(svc[d], journal)'
    BY <1>1, GrownKeeps DEF PeopleInv
<1> QED BY <1>1, <1>2, ClosingsStay DEF PeopleInv, Closings

LEMMA StewardInv ==
    ASSUME PeopleInv, NEW e \in DOMAIN journal, Acknowledge(e) \/ Resolve(e)
    PROVE  PeopleInv'
<1>1. e \in Nat
    BY DEF PeopleInv, Journaled
<1>2. Writes /\ UNCHANGED <<row, ledger, svc>>
    BY <1>1 DEF Acknowledge, Resolve, Writes, Handling, ledgerVars
<1> QED BY <1>2, OthersInv

LEMMA RoutesChangeInv == ASSUME PeopleInv, RoutesChange PROVE PeopleInv'
BY OthersInv DEF RoutesChange, Writes, ledgerVars

-----------------------------------------------------------------------------
(* People resolutions: what the ledger's moves cite *)

\* A row is closed by the last of the events its update appends.
LEMMA UpdateCloses ==
    ASSUME PeopleInv, PeopleLedger!IInv, NEW c \in Call, tx[c] \in PeopleLedger!Move,
           UNCHANGED journal, NEW from, NEW to, NEW events \in Seq(PeopleLedger!Event),
           \A l \in Seq(PeopleLedger!Event) : ClosedWith(l \o events, to, journal),
           Ledger!GuardedUpdate(c, from, to, events)
    PROVE  Closings'
<1>1. PICK r \in Resp : r = tx[c].r
    BY DEF PeopleLedger!Move
<1>2. CASE UNCHANGED <<row, ledger>>
    BY <1>2, ClosingsStay DEF Writes
<1>3. CASE /\ row' = [row EXCEPT ![r].status = to]
           /\ ledger' = [ledger EXCEPT ![r] = @ \o events]
  <2>1. /\ row \in [Resp -> PeopleLedger!Row \cup {PeopleLedger!NoRow}]
        /\ ledger \in [Resp -> Seq(PeopleLedger!Event)]
        /\ row[r] # PeopleLedger!NoRow
      BY <1>1 DEF PeopleLedger!IInv, PeopleLedger!TypeOK, PeopleLedger!Exists
  <2>2. row[r] \in PeopleLedger!Row
      BY <2>1
  <2>3. row'[r].status = to /\ ledger'[r] = ledger[r] \o events
      BY <1>3, <2>1, <2>2 DEF PeopleLedger!Row
  <2>4. ClosedWith(ledger'[r], row'[r].status, journal)
      BY <2>1, <2>3
  <2>5. \A q \in Resp : q # r => row'[q] = row[q] /\ ledger'[q] = ledger[q]
      BY <1>3, <2>1
  <2>6. \A q \in Resp : q # r => ClosedWith(ledger'[q], row'[q].status, journal)
      BY <2>5 DEF PeopleInv
  <2> QED BY <2>4, <2>6 DEF Closings
<1> QED BY <1>1, <1>2, <1>3 DEF Ledger!GuardedUpdate

\* An update to an open status closes nothing.
LEMMA OpenUpdate ==
    ASSUME PeopleInv, PeopleLedger!IInv, NEW c \in Call, tx[c] \in PeopleLedger!Move,
           UNCHANGED journal, NEW from, NEW to \in PeopleLedger!Open,
           NEW e \in PeopleLedger!Event, Ledger!GuardedUpdate(c, from, to, <<e>>)
    PROVE  Closings'
<1>1. \A l : ClosedWith(l, to, journal)
    BY DEF ClosedWith, PeopleLedger!Open
<1>2. <<e>> \in Seq(PeopleLedger!Event)
    OBVIOUS
<1> QED BY <1>1, <1>2, UpdateCloses

LEMMA EventIs ==
    ASSUME NEW type \in PeopleLedger!EventType,
           NEW from \in PeopleLedger!Status \cup {PeopleLedger!NoStatus},
           NEW to \in PeopleLedger!Status \cup {PeopleLedger!NoStatus},
           NEW src \in 0 .. MaxJournal
    PROVE  /\ Ledger!Evt(type, from, to, src) \in PeopleLedger!Event
           /\ Ledger!Evt(type, from, to, src).src = src
<1>1. (1 .. MaxJournal) \cup {0} = 0 .. MaxJournal
    BY MaxJournalAssumption
<1> QED BY <1>1 DEF Ledger!Evt, PeopleLedger!Event

LEMMA WaitsClose ==
    ASSUME PeopleInv, PeopleLedger!IInv, NEW c \in Call, UNCHANGED journal,
           \/ Ledger!MarkWaitingOnUserWrite(c)
           \/ Ledger!MarkWaitingOnThirdPartyWrite(c)
           \/ Ledger!ResumeFromWaitingOnUserWrite(c)
    PROVE  Closings'
<1>1. tx[c] \in PeopleLedger!Move
    BY PeopleLedger!MoveOps, PeopleLedgerAssumptions DEF Ledger!MarkWaitingOnUserWrite,
       Ledger!MarkWaitingOnThirdPartyWrite, Ledger!ResumeFromWaitingOnUserWrite
<1>2. tx[c].seen \in PeopleLedger!Status
    BY <1>1 DEF PeopleLedger!Move
<1>3. /\ {"WAITING_ON_USER", "WAITING_ON_THIRD_PARTY", "ACTIVE"} \subseteq PeopleLedger!Open
      /\ {"WAITING_ON_USER", "WAITING_ON_THIRD_PARTY", "ACTIVE"} \subseteq PeopleLedger!Status
      /\ {"USER_INPUT_REQUIRED", "EXTERNAL_WAIT_STARTED", "STATE_CHANGED"}
            \subseteq PeopleLedger!EventType
      /\ 0 \in 0 .. MaxJournal
    BY MaxJournalAssumption DEF PeopleLedger!Open, PeopleLedger!Status, PeopleLedger!EventType
<1>4. CASE Ledger!MarkWaitingOnUserWrite(c)
  <2>1. PICK e : e = Ledger!Evt("USER_INPUT_REQUIRED", tx[c].seen, "WAITING_ON_USER", 0)
      OBVIOUS
  <2>2. e \in PeopleLedger!Event
      BY <1>2, <1>3, <2>1, EventIs
  <2> QED BY <1>1, <1>3, <1>4, <2>1, <2>2, OpenUpdate DEF Ledger!MarkWaitingOnUserWrite
<1>5. CASE Ledger!MarkWaitingOnThirdPartyWrite(c)
  <2>1. PICK e : e = Ledger!Evt("EXTERNAL_WAIT_STARTED", tx[c].seen,
                                "WAITING_ON_THIRD_PARTY", 0)
      OBVIOUS
  <2>2. e \in PeopleLedger!Event
      BY <1>2, <1>3, <2>1, EventIs
  <2> QED BY <1>1, <1>3, <1>5, <2>1, <2>2, OpenUpdate
          DEF Ledger!MarkWaitingOnThirdPartyWrite
<1>6. CASE Ledger!ResumeFromWaitingOnUserWrite(c)
  <2>1. PICK e : e = Ledger!Evt("STATE_CHANGED", "WAITING_ON_USER", "ACTIVE", 0)
      OBVIOUS
  <2>2. e \in PeopleLedger!Event
      BY <1>3, <2>1, EventIs
  <2> QED BY <1>1, <1>3, <1>6, <2>1, <2>2, OpenUpdate
          DEF Ledger!ResumeFromWaitingOnUserWrite
<1> QED BY <1>4, <1>5, <1>6

\* A completion cites the report the call has read.
LEMMA CompletionCloses ==
    ASSUME PeopleInv, PeopleLedger!IInv, NEW c \in Call, UNCHANGED journal,
           NEW src \in 1 .. MaxJournal, Recorded(src, "RESOLVED", journal),
           Ledger!CompleteWithEvidenceWrite(c, src)
    PROVE  Closings'
<1>1. tx[c] \in PeopleLedger!Move
    BY PeopleLedger!MoveOps, PeopleLedgerAssumptions DEF Ledger!CompleteWithEvidenceWrite
<1>2. tx[c].seen \in PeopleLedger!Status
    BY <1>1 DEF PeopleLedger!Move
<1>3. /\ {"ACTION_EVIDENCED", "COMPLETED"} \subseteq PeopleLedger!EventType
      /\ "COMPLETED" \in PeopleLedger!Status
      /\ Ledger!NoStatus = PeopleLedger!NoStatus /\ src \in 0 .. MaxJournal
    BY DEF PeopleLedger!EventType, PeopleLedger!Evidencing, PeopleLedger!Status,
           PeopleLedger!Terminal, Ledger!NoStatus, PeopleLedger!NoStatus
<1>4. PICK d : d = Ledger!Evidenced(src)
    OBVIOUS
<1>5. PICK e : e = Ledger!Evt("COMPLETED", tx[c].seen, "COMPLETED", src)
    OBVIOUS
<1>6. d \in PeopleLedger!Event /\ e \in PeopleLedger!Event /\ e.src = src
    BY <1>2, <1>3, <1>4, <1>5, EventIs DEF Ledger!Evidenced
<1>7. PICK events : events = <<d, e>>
    OBVIOUS
<1>8. events \in Seq(PeopleLedger!Event)
    BY <1>6, <1>7
<1>9. ASSUME NEW l \in Seq(PeopleLedger!Event)
      PROVE  ClosedWith(l \o events, "COMPLETED", journal)
  <2>1. PICK m : m = l \o events
      OBVIOUS
  <2>2. Len(m) = Len(l) + 2 /\ Len(l) \in Nat /\ Len(m) \in DOMAIN m /\ m[Len(m)] = e
      BY <1>6, <1>7, <2>1, PeopleLedger!AppendTwo, PeopleLedgerAssumptions
  <2> QED BY <1>6, <2>1, <2>2 DEF ClosedWith
<1> QED BY <1>1, <1>4, <1>5, <1>7, <1>8, <1>9, UpdateCloses DEF Ledger!CompleteWithEvidenceWrite

\* An exhaustion cites the no-route record, and the later report in support.
LEMMA ExhaustionCloses ==
    ASSUME PeopleInv, PeopleLedger!IInv, NEW c \in Call, UNCHANGED journal,
           NEW src \in 1 .. MaxJournal, Recorded(src, "NO_ROUTE", journal),
           NEW supporting \in 1 .. MaxJournal,
           Recorded(supporting, "STILL_UNRESOLVED", journal), supporting > src,
           Ledger!ResponsiblyExhaustWithEvidenceWrite(c, src, supporting)
    PROVE  Closings'
<1>1. tx[c] \in PeopleLedger!Move
    BY PeopleLedger!MoveOps, PeopleLedgerAssumptions DEF Ledger!ResponsiblyExhaustWithEvidenceWrite
<1>2. tx[c].seen \in PeopleLedger!Status
    BY <1>1 DEF PeopleLedger!Move
<1>3. /\ {"ACTION_EVIDENCED", "RESPONSIBLY_EXHAUSTED"} \subseteq PeopleLedger!EventType
      /\ "RESPONSIBLY_EXHAUSTED" \in PeopleLedger!Status
      /\ Ledger!NoStatus = PeopleLedger!NoStatus
      /\ src \in 0 .. MaxJournal /\ supporting \in 0 .. MaxJournal
    BY DEF PeopleLedger!EventType, PeopleLedger!Evidencing, PeopleLedger!Status,
           PeopleLedger!Terminal, Ledger!NoStatus, PeopleLedger!NoStatus
<1>4. PICK b : b = Ledger!Evidenced(supporting)
    OBVIOUS
<1>5. PICK d : d = Ledger!Evidenced(src)
    OBVIOUS
<1>6. PICK e : e = Ledger!Evt("RESPONSIBLY_EXHAUSTED", tx[c].seen,
                              "RESPONSIBLY_EXHAUSTED", src)
    OBVIOUS
<1>7. /\ b \in PeopleLedger!Event /\ d \in PeopleLedger!Event /\ e \in PeopleLedger!Event
      /\ b.src = supporting /\ e.src = src
    BY <1>2, <1>3, <1>4, <1>5, <1>6, EventIs DEF Ledger!Evidenced
<1>8. PICK events : events = <<b, d, e>>
    OBVIOUS
<1>9. events \in Seq(PeopleLedger!Event)
    BY <1>7, <1>8
<1>10. ASSUME NEW l \in Seq(PeopleLedger!Event)
       PROVE  ClosedWith(l \o events, "RESPONSIBLY_EXHAUSTED", journal)
  <2>1. PICK m : m = l \o events
      OBVIOUS
  <2>2. /\ Len(m) = Len(l) + 3 /\ Len(l) \in Nat /\ Len(m) \in DOMAIN m /\ m[Len(m)] = e
        /\ Len(l) + 1 \in DOMAIN m /\ m[Len(l) + 1] = b
      BY <1>7, <1>8, <2>1, PeopleLedger!AppendThree, PeopleLedgerAssumptions
  <2> QED BY <1>7, <2>1, <2>2 DEF ClosedWith
<1> QED BY <1>1, <1>4, <1>5, <1>6, <1>8, <1>9, <1>10, UpdateCloses
    DEF Ledger!ResponsiblyExhaustWithEvidenceWrite

LEMMA MoveWriteInv ==
    ASSUME PeopleInv, PeopleLedger!IInv, NEW c \in Call, MoveWrite(c)
    PROVE  PeopleInv'
<1>1. UNCHANGED journal /\ Writes /\ Done(c)
    BY DEF MoveWrite, Writes
<1>2. Rests(svc[c], journal)
    BY DEF PeopleInv
<1>3. ASSUME svc[c].at = "completeWithEvidence",
             Ledger!CompleteWithEvidenceWrite(c, svc[c].on)
      PROVE  Closings'
    BY <1>1, <1>2, <1>3, Cites, CompletionCloses DEF Rests, RestsOn
<1>4. ASSUME svc[c].at = "responsiblyExhaustWithEvidence",
             Ledger!ResponsiblyExhaustWithEvidenceWrite(c, svc[c].on, svc[c].outcome)
      PROVE  Closings'
    BY <1>1, <1>2, <1>4, Cites, ExhaustionCloses DEF Rests, RestsOn
<1>5. Closings'
    BY <1>1, <1>3, <1>4, WaitsClose DEF MoveWrite
<1>6. Rests(NoCall, journal')
    BY DEF NoCall, Rests, RestsOn, Routing
<1> QED BY <1>1, <1>5, <1>6, ServiceStep DEF Done

LEMMA MoveReadInv == ASSUME PeopleInv, NEW c \in Call, MoveRead(c) PROVE PeopleInv'
<1>1. UNCHANGED <<row, ledger>> /\ UNCHANGED journal /\ Writes
    BY DEF MoveRead, Writes, Ledger!MarkWaitingOnUserRead, Ledger!MarkWaitingOnThirdPartyRead,
           Ledger!ResumeFromWaitingOnUserRead, Ledger!CompleteWithEvidenceRead,
           Ledger!ResponsiblyExhaustWithEvidenceRead, Ledger!ReadCurrent
<1>2. CASE Done(c)
    BY <1>1, <1>2, QuietDone
<1>3. CASE UNCHANGED svc
    BY <1>1, <1>3, OthersInv
<1> QED BY <1>2, <1>3 DEF MoveRead

LEMMA AcceptFindInv == ASSUME PeopleInv, NEW c \in Call, AcceptFind(c) PROVE PeopleInv'
<1>1. UNCHANGED <<row, ledger>> /\ UNCHANGED journal /\ Writes
    BY DEF AcceptFind, Writes, ledgerVars, Ledger!CreateAcceptedFind
<1>2. ASSUME NEW r \in Resp, Goto(c, "row", r, 0, 0) PROVE PeopleInv'
    BY <1>1, <1>2, QuietGoto, PlainRests, Stages
<1>3. CASE svc' = [svc EXCEPT ![c] = Creating]
  <2>1. Rests(Creating, journal')
      BY DEF Creating, Rests, RestsOn, Routing
  <2> QED BY <1>1, <1>3, <2>1, ServiceStep, ClosingsStay
<1> QED BY <1>2, <1>3 DEF AcceptFind, Creating

\* An accepted row is open: it closes nothing.
LEMMA InsertCloses ==
    ASSUME PeopleInv, PeopleLedger!IInv, NEW c \in Call, UNCHANGED journal,
           Ledger!CreateAcceptedInsert(c)
    PROVE  Closings'
<1>1. CASE UNCHANGED <<row, ledger>>
    BY <1>1, ClosingsStay DEF Writes
<1>2. ASSUME NEW r \in Resp, NEW made, made.status = "ACTIVE", NEW events,
             row' = [row EXCEPT ![r] = made], ledger' = [ledger EXCEPT ![r] = events]
      PROVE  Closings'
  <2>1. /\ row \in [Resp -> PeopleLedger!Row \cup {PeopleLedger!NoRow}]
        /\ ledger \in [Resp -> Seq(PeopleLedger!Event)]
      BY DEF PeopleLedger!IInv, PeopleLedger!TypeOK
  <2>2. ClosedWith(ledger'[r], row'[r].status, journal)
      BY <1>2, <2>1 DEF ClosedWith
  <2>3. \A q \in Resp : q # r => ClosedWith(ledger'[q], row'[q].status, journal)
      BY <1>2, <2>1 DEF PeopleInv
  <2> QED BY <2>2, <2>3 DEF Closings
<1>3. ASSUME NEW r \in Resp,
             row' = [row EXCEPT ![r] =
                [slot |-> tx[c].slot, prov |-> tx[c].prov, status |-> "ACTIVE"]],
             \E events : ledger' = [ledger EXCEPT ![r] = events]
      PROVE  Closings'
  <2>1. PICK made : made = [slot |-> tx[c].slot, prov |-> tx[c].prov, status |-> "ACTIVE"]
      OBVIOUS
  <2>2. made.status = "ACTIVE"
      BY <2>1
  <2> QED BY <1>2, <1>3, <2>1, <2>2
<1> QED BY <1>1, <1>3 DEF Ledger!CreateAcceptedInsert

LEMMA AcceptCreateInv ==
    ASSUME PeopleInv, PeopleLedger!IInv, PeopleLedger!IInv', NEW c \in Call, AcceptCreate(c)
    PROVE  PeopleInv'
<1>1. UNCHANGED journal /\ Writes
    BY DEF AcceptCreate, Writes
<1>2. Closings'
    BY <1>1, InsertCloses, ClosingsStay DEF AcceptCreate, Ledger!CreateAcceptedRefind
<1>3. CASE UNCHANGED svc
  <2>1. \A d \in Call : Rests(svc[d], journal)'
      BY <1>1, <1>3 DEF PeopleInv
  <2> QED BY <1>1, <1>2, <1>3, <2>1 DEF PeopleInv, Closings, Journaled
<1>4. CASE Done(c)
  <2>1. Rests(NoCall, journal')
      BY DEF NoCall, Rests, RestsOn, Routing
  <2> QED BY <1>1, <1>2, <1>4, <2>1, ServiceStep DEF Done
<1>5. CASE reply'[c].kind = "row" /\ Goto(c, "row", reply'[c].r, 0, 0)
  <2>1. reply'[c] \in PeopleLedger!Reply \cup {PeopleLedger!NoReply}
      BY DEF PeopleLedger!IInv, PeopleLedger!TypeOK
  <2>2. reply'[c].r \in Resp
      BY <1>5, <2>1 DEF PeopleLedger!Reply, PeopleLedger!NoReply
  <2>3. PICK s : s = [at |-> "row", r |-> reply'[c].r, outcome |-> 0, on |-> 0]
      OBVIOUS
  <2>4. s \in Serving /\ Rests(s, journal')
      BY <2>2, <2>3, PlainRests, Stages DEF Serving, Rests
  <2> QED BY <1>1, <1>2, <1>5, <2>3, <2>4, ServiceStep DEF Goto
<1> QED BY <1>3, <1>4, <1>5 DEF AcceptCreate

LEMMA PeopleCrashInv == ASSUME PeopleInv, NEW c \in Call, Crash(c) PROVE PeopleInv'
<1>1. UNCHANGED <<row, ledger>> /\ Writes
    BY DEF Crash, Ledger!Abandon, ledgerVars, Writes
<1> QED BY <1>1, QuietDone DEF Crash

\* The City Sheet entries that are active and verified are entries.
SafeInv == safe \subseteq Resource

LEMMA SafeNext == SafeInv /\ [Next]_vars => SafeInv'
<1> SUFFICES ASSUME SafeInv, [Next]_vars PROVE SafeInv'
    OBVIOUS
<1>1. CASE RoutesChange
    BY <1>1 DEF RoutesChange, SafeInv
<1>2. ASSUME UNCHANGED safe PROVE SafeInv'
    BY <1>2 DEF SafeInv
<1>3. CASE UNCHANGED vars
    BY <1>2, <1>3 DEF vars, world
<1>4. ASSUME NEW c,
             \/ AcceptFind(c) \/ AcceptCreate(c) \/ ContinueOutcome(c)
             \/ ContinueEscalations(c) \/ ContinueOffers(c) \/ OfferResource(c)
             \/ \E r : ContinueRow(c, r)
      PROVE  UNCHANGED safe
    BY <1>4 DEF AcceptFind, AcceptCreate, ContinueOutcome, ContinueEscalations,
                ContinueOffers, OfferResource, ContinueRow, world
<1>5. ASSUME NEW c,
             \/ CheckVerifiedResource(c) \/ CheckStewardAccounts(c) \/ RecordNoRoute(c)
             \/ CheckHumanReachable(c) \/ RecordOutcome(c)
             \/ \E r, outcome : ReportOutcome(c, r, outcome)
      PROVE  UNCHANGED safe
    BY <1>5 DEF CheckVerifiedResource, CheckStewardAccounts, RecordNoRoute,
                CheckHumanReachable, RecordOutcome, ReportOutcome, world
<1>6. ASSUME NEW c,
             \/ FindPendingOffer(c) \/ AcceptResource(c) \/ DeclineResource(c)
             \/ \E r, x, said : RespondToResource(c, r, x, said)
             \/ \E r : RequestHumanSteward(c, r)
      PROVE  UNCHANGED safe
    BY <1>6 DEF FindPendingOffer, AcceptResource, DeclineResource, RespondToResource,
                RequestHumanSteward, world
<1>7. ASSUME NEW c,
             \/ FindHandoff(c) \/ ReachSteward(c) \/ Escalate(c)
             \/ MoveRead(c) \/ MoveWrite(c) \/ Crash(c)
      PROVE  UNCHANGED safe
    BY <1>7 DEF FindHandoff, ReachSteward, Escalate, MoveRead, MoveWrite, Crash, world
<1>8. ASSUME NEW e, Acknowledge(e) \/ Resolve(e) PROVE UNCHANGED safe
    BY <1>8 DEF Acknowledge, Resolve, world
<1>9. RoutesChange \/ UNCHANGED safe \/ UNCHANGED vars
    BY <1>4, <1>5, <1>6, <1>7, <1>8 DEF Next
<1> QED BY <1>1, <1>2, <1>3, <1>9

PeopleIInv == PeopleLedger!IInv /\ SafeInv /\ PeopleInv

LEMMA PeopleInit == Init => PeopleIInv
<1> SUFFICES ASSUME Init PROVE PeopleIInv
    OBVIOUS
<1>1. PeopleLedger!IInv
    BY SamePeopleLedger, PeopleLedger!InitInv, PeopleLedgerAssumptions DEF Init
<1>2. Journaled
    BY MaxJournalAssumption DEF Init, Journaled
<1>3. svc \in [Call -> Serving \cup {NoCall, Creating}]
    BY DEF Init
<1>4. \A c \in Call : Rests(svc[c], journal)
    BY DEF Init, NoCall, Rests, RestsOn, Routing
<1>5. \A r \in Resp : ClosedWith(ledger[r], row[r].status, journal)
    BY DEF Init, Ledger!Init, Ledger!NoRow, ClosedWith
<1>6. SafeInv
    BY DEF Init, SafeInv
<1> QED BY <1>1, <1>2, <1>3, <1>4, <1>5, <1>6 DEF PeopleIInv, PeopleInv

LEMMA PeopleNext == PeopleIInv /\ [Next]_vars => PeopleIInv'
<1> SUFFICES ASSUME PeopleIInv, [Next]_vars PROVE PeopleIInv'
    OBVIOUS
<1>1. PeopleInv /\ PeopleLedger!IInv /\ SafeInv
    BY DEF PeopleIInv
<1>2. PeopleLedger!IInv'
  <2>1. [Ledger!Next]_(Ledger!vars)
      BY <1>1, StepsOfPeople
  <2>2. [PeopleLedger!Next]_(PeopleLedger!vars)
      BY <2>1, SamePeopleLedger DEF Ledger!vars, PeopleLedger!vars
  <2> QED BY <1>1, <2>2, PeopleLedger!NextInv, PeopleLedgerAssumptions
<1>3. SafeInv'
    BY <1>1, SafeNext
<1>4. PeopleInv'
  <2>1. CASE UNCHANGED vars
      BY <1>1, <2>1, OthersInv DEF vars, ledgerVars, Writes
  <2>2. ASSUME NEW c \in Call, ContinueOffers(c) PROVE PeopleInv'
      BY <1>1, <2>2, ContinueOffersInv DEF SafeInv
  <2> QED BY <1>1, <1>2, <2>1, <2>2, AcceptFindInv, AcceptCreateInv, ContinueRowInv,
             ContinueOutcomeInv, ContinueEscalationsInv, OfferResourceInv,
             CheckVerifiedResourceInv, CheckStewardAccountsInv, RecordNoRouteInv,
             CheckHumanReachableInv, ReportOutcomeInv, RecordOutcomeInv,
             RespondToResourceInv, FindPendingOfferInv, AcceptResourceInv,
             DeclineResourceInv, RequestHumanStewardInv, HandoffInv, MoveReadInv,
             MoveWriteInv, PeopleCrashInv, StewardInv, RoutesChangeInv DEF Next
<1> QED BY <1>2, <1>3, <1>4 DEF PeopleIInv

LEMMA PeopleInvariance == Spec => []PeopleIInv
BY PeopleInit, PeopleNext, PTL DEF Spec

\* A need is completed by the member's own report that it is resolved, however
\* many requests, stewards and resources act on it and whatever was stale.
THEOREM NeedCompletedByReport == Spec => []CompletedByReport
<1>1. PeopleIInv => CompletedByReport
  <2> SUFFICES ASSUME PeopleIInv, NEW r \in Resp, row[r].status = "COMPLETED"
               PROVE  Is(ClosedBy(r), "RESOLVED")
      BY DEF CompletedByReport
  <2>1. Recorded(ClosedBy(r), "RESOLVED", journal)
      BY DEF PeopleIInv, PeopleInv, ClosedWith, ClosedBy
  <2>2. 0 \notin DOMAIN journal
      BY DEF PeopleIInv, PeopleInv, Journaled
  <2> QED BY <2>1, <2>2 DEF Recorded, Is
<1> QED BY <1>1, PeopleInvariance, PTL

\* A need is exhausted only by a recorded no-route state that the member has
\* confirmed since.
THEOREM NeedExhaustedAfterConfirmation == Spec => []ExhaustedAfterConfirmation
<1>1. PeopleIInv => ExhaustedAfterConfirmation
  <2> SUFFICES ASSUME PeopleIInv, NEW r \in Resp, row[r].status = "RESPONSIBLY_EXHAUSTED"
               PROVE  /\ Is(ClosedBy(r), "NO_ROUTE")
                      /\ \E k \in DOMAIN ledger[r] :
                            /\ Is(ledger[r][k].src, "STILL_UNRESOLVED")
                            /\ ledger[r][k].src > ClosedBy(r)
      BY DEF ExhaustedAfterConfirmation
  <2>1. /\ Recorded(ClosedBy(r), "NO_ROUTE", journal)
        /\ \E k \in DOMAIN ledger[r] :
              Recorded(ledger[r][k].src, "STILL_UNRESOLVED", journal)
              /\ ledger[r][k].src > ClosedBy(r)
      BY DEF PeopleIInv, PeopleInv, ClosedWith, ClosedBy
  <2>2. 0 \notin DOMAIN journal
      BY DEF PeopleIInv, PeopleInv, Journaled
  <2> QED BY <2>1, <2>2 DEF Recorded, Is
<1> QED BY <1>1, PeopleInvariance, PTL

\* Every step of the service is a step of the ledger or none, so that all that
\* is proved of the ledger holds of the needs.
THEOREM PeopleImplementsLedger == Spec => ImplementsLedger
<1>1. Init => Ledger!Init
    BY DEF Init
<1>2. PeopleIInv /\ [Next]_vars => [Ledger!Next]_(Ledger!vars)
    BY StepsOfPeople DEF PeopleIInv
<1> QED BY <1>1, <1>2, PeopleInvariance, PTL DEF Spec, ImplementsLedger, Ledger!Spec

\* A need that was accepted is carried until it is completed or exhausted, once
\* and for ever, however its requests, stewards and reports interleave.
THEOREM NeedsAreCarried ==
    Spec => /\ []PeopleLedger!TablesHold
            /\ PeopleLedger!TerminalIsFinal
            /\ PeopleLedger!ImplementsPromise
<1>1. PeopleIInv => PeopleLedger!IInv /\ PeopleLedger!TablesHold
    BY PeopleLedger!InvHolds, PeopleLedgerAssumptions DEF PeopleIInv
<1>2. Init => PeopleLedger!Init
    BY SamePeopleLedger DEF Init
<1>3. PeopleIInv /\ [Next]_vars => [PeopleLedger!Next]_(PeopleLedger!vars)
  <2> SUFFICES ASSUME PeopleIInv, [Next]_vars PROVE [PeopleLedger!Next]_(PeopleLedger!vars)
      OBVIOUS
  <2>1. [Ledger!Next]_(Ledger!vars)
      BY StepsOfPeople DEF PeopleIInv
  <2> QED BY <2>1, SamePeopleLedger DEF Ledger!vars, PeopleLedger!vars
<1>4. Init => PeopleLedger!Promise!Init
    BY <1>2, PeopleLedger!InitPromise, PeopleLedgerAssumptions
<1>5. PeopleIInv /\ [Next]_vars => [PeopleLedger!Promise!Next]_(PeopleLedger!Promise!vars)
    BY <1>1, <1>3, PeopleLedger!StepPromise, PeopleLedgerAssumptions
<1>6. PeopleIInv /\ [Next]_vars =>
        [\A r \in Resp : row[r].status \in PeopleLedger!Terminal =>
            row'[r] = row[r] /\ ledger'[r] = ledger[r]]_(PeopleLedger!vars)
    BY <1>1, <1>3, PeopleLedger!TerminalStep, PeopleLedgerAssumptions
<1> QED BY <1>1, <1>4, <1>5, <1>6, PeopleInvariance, PTL
    DEF Spec, PeopleLedger!TerminalIsFinal, PeopleLedger!ImplementsPromise,
        PeopleLedger!Promise!Spec

-----------------------------------------------------------------------------
(* Acceptances of needs are behaviours of the ledger *)

NeedTables == INSTANCE ResponsibilityLedgerProofs WITH
    Slot <- NeedConversation \cup {Decision}, NeedSlot <- NeedConversation, GuidanceSlot <- {},
    Provenance <- Need \cup {Decision}

\* The ledger's assumptions, of the ledger of conversations and decisions.
LEMMA NeedTablesAssumptions ==
    /\ NeedConversation \subseteq NeedConversation \cup {Decision}
    /\ {} \subseteq NeedConversation \cup {Decision}
    /\ NoRecord \notin Record
    /\ MaxEvents \in Nat
BY LedgerBoundAssumption, NullAssumption

\* Both instances of the ledger are the same.
LEMMA SameNeedLedger ==
    /\ NeedLedger!Init <=> NeedTables!Init
    /\ NeedLedger!Next <=> NeedTables!Next
    /\ NeedLedger!vars = NeedTables!vars
    /\ NeedLedger!Idle = NeedTables!Idle
    /\ \A r : NeedLedger!Exists(r) <=> NeedTables!Exists(r)
BY DEF NeedLedger!Init, NeedTables!Init, NeedLedger!Next, NeedTables!Next,
       NeedLedger!vars, NeedTables!vars,
       NeedLedger!CreateAcceptedFind, NeedTables!CreateAcceptedFind,
       NeedLedger!CreateAcceptedInsert, NeedTables!CreateAcceptedInsert,
       NeedLedger!CreateAcceptedRefind, NeedTables!CreateAcceptedRefind,
       NeedLedger!MarkWaitingOnUserRead, NeedTables!MarkWaitingOnUserRead,
       NeedLedger!MarkWaitingOnUserWrite, NeedTables!MarkWaitingOnUserWrite,
       NeedLedger!MarkWaitingOnThirdPartyRead, NeedTables!MarkWaitingOnThirdPartyRead,
       NeedLedger!MarkWaitingOnThirdPartyWrite, NeedTables!MarkWaitingOnThirdPartyWrite,
       NeedLedger!ResumeFromWaitingOnUserRead, NeedTables!ResumeFromWaitingOnUserRead,
       NeedLedger!ResumeFromWaitingOnUserWrite, NeedTables!ResumeFromWaitingOnUserWrite,
       NeedLedger!CompleteWithEvidenceRead, NeedTables!CompleteWithEvidenceRead,
       NeedLedger!CompleteWithEvidenceWrite, NeedTables!CompleteWithEvidenceWrite,
       NeedLedger!ResponsiblyExhaustWithEvidenceRead,
       NeedTables!ResponsiblyExhaustWithEvidenceRead,
       NeedLedger!ResponsiblyExhaustWithEvidenceWrite,
       NeedTables!ResponsiblyExhaustWithEvidenceWrite,
       NeedLedger!Abandon, NeedTables!Abandon,
       NeedLedger!ReadCurrent, NeedTables!ReadCurrent,
       NeedLedger!GuardedUpdate, NeedTables!GuardedUpdate,
       NeedLedger!Accepted, NeedTables!Accepted, NeedLedger!ShapeCheck, NeedTables!ShapeCheck,
       NeedLedger!EvidenceShapeCheck, NeedTables!EvidenceShapeCheck,
       NeedLedger!Evidenced, NeedTables!Evidenced, NeedLedger!Evt, NeedTables!Evt,
       NeedLedger!Evidencing, NeedTables!Evidencing,
       NeedLedger!Return, NeedTables!Return, NeedLedger!Proceed, NeedTables!Proceed,
       NeedLedger!RowReply, NeedTables!RowReply, NeedLedger!Idle, NeedTables!Idle,
       NeedLedger!NoReply, NeedTables!NoReply, NeedLedger!NoRow, NeedTables!NoRow,
       NeedLedger!NoStatus, NeedTables!NoStatus, NeedLedger!OpenIn, NeedTables!OpenIn,
       NeedLedger!IsOpen, NeedTables!IsOpen, NeedLedger!Exists, NeedTables!Exists,
       NeedLedger!Open, NeedTables!Open, NeedLedger!Terminal, NeedTables!Terminal,
       NeedLedger!Status, NeedTables!Status

Origin == NeedConversation \cup {Decision}
Purpose == Need \cup {Decision}

Asked ==
    {NoAsk}
    \cup [at : {"create", "check"}, conversation : Origin, need : Purpose]
    \cup [at : {"reconcile"}, r : Resp, seen : NeedTables!Status]
    \cup [at : {"reconciling"}, r : Resp, saved : Decided \cup {NoRecord}]

Answered == {NoAnswer, Refused} \cup [kind : {"row"}, r : Resp, need : Purpose]

\* The rows that were created are in the table.
BornExist == born \in Seq(Resp) /\ \A i \in DOMAIN born : row[born[i]] # NeedTables!NoRow

NeedInv ==
    /\ tracking \in Decided \cup {NoRecord}
    /\ ask \in [Call -> Asked]
    /\ answer \in [Call -> Answered]
    /\ BornExist
    /\ AnsweredForItsNeed
    /\ OnlyNewestIsOpen

NeedIInv == NeedTables!IInv /\ NeedTables!RepliesInv /\ NeedInv

\* What the request a call is serving was asked with.
LEMMA AskIs ==
    ASSUME NeedInv, NEW c \in Call
    PROVE  /\ ask[c] \in Asked
           /\ ask[c].at \in {"create", "check"} =>
                 /\ ask[c] \in [at : {"create", "check"}, conversation : Origin, need : Purpose]
                 /\ ask[c].conversation \in Origin /\ ask[c].need \in Purpose
           /\ ask[c].at = "reconcile" => ask[c].r \in Resp
           /\ ask[c].at = "reconciling" =>
                 ask[c].r \in Resp /\ ask[c].saved \in Decided \cup {NoRecord}
BY DEF NeedInv, Asked, NoAsk

LEMMA StepsOfNeeds ==
    ASSUME NeedInv, [NeedNext]_needVars
    PROVE  [NeedLedger!Next]_(NeedLedger!vars)
<1>1. ASSUME UNCHANGED ledgerVars PROVE [NeedLedger!Next]_(NeedLedger!vars)
    BY <1>1 DEF NeedLedger!vars, ledgerVars
<1>2. ASSUME NEW c \in Call, CreateFind(c) PROVE NeedLedger!Next
  <2>1. ask[c].conversation \in Origin /\ ask[c].need \in Purpose
      BY <1>2, AskIs DEF CreateFind
  <2> QED BY <1>2, <2>1 DEF CreateFind, NeedLedger!Next, Origin, Purpose
<1>3. ASSUME NEW c \in Call, CreateInsert(c) \/ CreateRefind(c) PROVE NeedLedger!Next
    BY <1>3 DEF CreateInsert, CreateRefind, NeedLedger!Next
<1>4. ASSUME NEW c \in Call, Complete(c) PROVE NeedLedger!Next
    BY <1>4 DEF Complete, NeedLedger!Next
<1>5. ASSUME NEW c \in Call, ReconcileMove(c) PROVE NeedLedger!Next
  <2>1. ask[c].r \in Resp /\ ask[c].saved \in Decided \cup {NoRecord}
      BY <1>5, AskIs DEF ReconcileMove
  <2>2. ask[c].saved = NoRecord \/ ask[c].saved \in Record
      BY <2>1, DecidedAssumption
  <2> QED BY <1>5, <2>1, <2>2 DEF ReconcileMove, NeedLedger!Next
<1>6. ASSUME NEW c \in Call, NeedCrash(c) PROVE [NeedLedger!Next]_(NeedLedger!vars)
  <2>1. NeedLedger!Abandon(c) \/ UNCHANGED ledgerVars
      BY <1>6 DEF NeedCrash
  <2> QED BY <1>1, <2>1 DEF NeedLedger!Next
<1>7. CASE UNCHANGED needVars
    BY <1>1, <1>7 DEF needVars
<1> QED BY <1>1, <1>2, <1>3, <1>4, <1>5, <1>6, <1>7
    DEF NeedNext, FindLatest, AcceptDecision, CheckProvenance, ReconcileRead,
        ReconcileSaved, ChangeTracking

LEMMA StepsOfNeedTables ==
    ASSUME NeedInv, [NeedNext]_needVars
    PROVE  [NeedTables!Next]_(NeedTables!vars)
<1>1. [NeedLedger!Next]_(NeedLedger!vars)
    BY StepsOfNeeds
<1> QED BY <1>1, SameNeedLedger DEF NeedLedger!vars, NeedTables!vars

\* No row that was accepted disappears or serves another need.
LEMMA NeedRowsStay ==
    ASSUME NeedIInv, [NeedNext]_needVars, NEW r \in Resp, row[r] # NeedTables!NoRow
    PROVE  /\ row'[r] # NeedTables!NoRow
           /\ row'[r].slot = row[r].slot /\ row'[r].prov = row[r].prov
           /\ row'[r].status \in NeedTables!Open => row[r].status \in NeedTables!Open
<1>1. NeedTables!IInv /\ [NeedTables!Next]_(NeedTables!vars) /\ NeedTables!Exists(r)
    BY StepsOfNeedTables DEF NeedIInv, NeedTables!Exists
<1> QED BY <1>1, NeedTables!RowsStay, NeedTablesAssumptions

\* r is the newest of its slot among the rows created.
IsNewest(r, b, rows) ==
    \E k \in DOMAIN b :
        b[k] = r /\ \A j \in DOMAIN b : j > k => rows[b[j]].slot # rows[r].slot

LEMMA NewestIsLatest ==
    ASSUME NEW r \in Resp
    PROVE  r \in LatestIn(row[r].slot) <=> IsNewest(r, born, row)
BY DEF LatestIn, IsNewest

LEMMA NewestIsLatestNext ==
    ASSUME NEW r \in Resp
    PROVE  (r \in LatestIn(row[r].slot))' <=> IsNewest(r, born', row')
BY DEF LatestIn, IsNewest

\* Where no row is created the newest stay the newest.
LEMMA NewestStay ==
    ASSUME NeedIInv, [NeedNext]_needVars, UNCHANGED born,
           \A r \in Resp : row[r] = NeedTables!NoRow => row'[r] = NeedTables!NoRow
    PROVE  BornExist' /\ OnlyNewestIsOpen'
<1>1. BornExist /\ born \in Seq(Resp) /\ \A i \in DOMAIN born : born[i] \in Resp
    BY DEF NeedIInv, NeedInv, BornExist
<1>2. \A i \in DOMAIN born : /\ row'[born[i]] # NeedTables!NoRow
                             /\ row'[born[i]].slot = row[born[i]].slot
    BY <1>1, NeedRowsStay DEF BornExist
<1>3. ASSUME NEW r \in Resp, NeedLedger!IsOpen(r)' PROVE (r \in LatestIn(row[r].slot))'
  <2>1. row'[r].status \in NeedTables!Open
      BY <1>3 DEF NeedLedger!IsOpen, NeedLedger!Open, NeedTables!Open
  <2>2. row[r] # NeedTables!NoRow
      BY <2>1 DEF NeedTables!NoRow, NeedTables!Open
  <2>3. row[r].status \in NeedTables!Open /\ row'[r].slot = row[r].slot
      BY <2>1, <2>2, NeedRowsStay
  <2>4. r \in LatestIn(row[r].slot)
      BY <2>3 DEF NeedIInv, NeedInv, OnlyNewestIsOpen, NeedLedger!IsOpen, NeedLedger!Open,
                  NeedTables!Open
  <2>5. IsNewest(r, born, row)
      BY <2>4, NewestIsLatest
  <2>6. IsNewest(r, born', row')
      BY <1>2, <2>3, <2>5 DEF IsNewest
  <2> QED BY <2>6, NewestIsLatestNext
<1> QED BY <1>1, <1>2, <1>3 DEF BornExist, OnlyNewestIsOpen

\* What was answered stays true of the table.
LEMMA AnswersStay ==
    ASSUME NeedIInv, [NeedNext]_needVars, NEW c \in Call, NEW a \in Answered,
           answer' = [answer EXCEPT ![c] = a] \/ UNCHANGED answer,
           a.kind = "row" => row'[a.r] # NeedTables!NoRow /\ row'[a.r].prov = a.need
    PROVE  answer' \in [Call -> Answered] /\ AnsweredForItsNeed'
<1>1. answer \in [Call -> Answered]
    BY DEF NeedIInv, NeedInv
<1>2. answer' \in [Call -> Answered]
    BY <1>1
<1>3. ASSUME NEW d \in Call, answer'[d].kind = "row"
      PROVE  row'[answer'[d].r] # NeedTables!NoRow /\ row'[answer'[d].r].prov = answer'[d].need
  <2>1. CASE answer'[d] = a
      BY <2>1, <1>3
  <2>2. CASE answer'[d] = answer[d]
    <3>1. PICK r \in Resp : r = answer[d].r
        BY <1>1, <1>3, <2>2 DEF Answered, NoAnswer, Refused
    <3>2. row[r] # NeedTables!NoRow /\ row[r].prov = answer[d].need
        BY <1>3, <2>2, <3>1 DEF NeedIInv, NeedInv, AnsweredForItsNeed, NeedLedger!Exists,
                                NeedLedger!NoRow, NeedTables!NoRow
    <3> QED BY <2>2, <3>1, <3>2, NeedRowsStay
  <2> QED BY <1>1, <2>1, <2>2
<1> QED BY <1>2, <1>3 DEF AnsweredForItsNeed, NeedLedger!Exists, NeedLedger!NoRow,
                          NeedTables!NoRow

\* A call goes on, or answers, in a step that creates no row.
LEMMA NeedStep ==
    ASSUME NeedIInv, [NeedNext]_needVars, NEW c \in Call, NEW q \in Asked, NEW a \in Answered,
           ask' = [ask EXCEPT ![c] = q] \/ UNCHANGED ask,
           answer' = [answer EXCEPT ![c] = a] \/ UNCHANGED answer,
           a.kind = "row" => row'[a.r] # NeedTables!NoRow /\ row'[a.r].prov = a.need,
           UNCHANGED <<born, tracking>>,
           \A r \in Resp : row[r] = NeedTables!NoRow => row'[r] = NeedTables!NoRow
    PROVE  NeedInv'
<1>1. answer' \in [Call -> Answered] /\ AnsweredForItsNeed'
    BY AnswersStay
<1>2. BornExist' /\ OnlyNewestIsOpen'
    BY NewestStay
<1>3. ask' \in [Call -> Asked]
    BY DEF NeedIInv, NeedInv
<1> QED BY <1>1, <1>2, <1>3 DEF NeedIInv, NeedInv

\* The same, where the ledger's rows are only read.
LEMMA NeedReads ==
    ASSUME NeedIInv, [NeedNext]_needVars, NEW c \in Call, NEW q \in Asked, NEW a \in Answered,
           ask' = [ask EXCEPT ![c] = q] \/ UNCHANGED ask,
           answer' = [answer EXCEPT ![c] = a] \/ UNCHANGED answer,
           a.kind = "row" => row[a.r] # NeedTables!NoRow /\ row[a.r].prov = a.need,
           UNCHANGED <<row, born, tracking>>
    PROVE  NeedInv'
BY NeedStep

LEMMA PlainAnswers ==
    /\ NoAsk \in Asked
    /\ NoAnswer \in Answered /\ NoAnswer.kind # "row"
    /\ Refused \in Answered /\ Refused.kind # "row"
    /\ \A r \in Resp, n \in Purpose :
          /\ Granted(r, n) \in Answered
          /\ Granted(r, n).r = r /\ Granted(r, n).need = n
BY DEF Asked, Answered, NoAnswer, Refused, Granted

LEMMA FindLatestInv ==
    ASSUME NeedIInv, [NeedNext]_needVars, NEW c \in Call, NEW s \in NeedConversation,
           NEW n \in Need, FindLatest(c, s, n)
    PROVE  NeedInv'
<1>1. UNCHANGED <<row, born, tracking>>
    BY DEF FindLatest, ledgerVars
<1>2. ASSUME NEW r \in LatestIn(s), row[r].prov = n, Respond(c, Granted(r, n)) PROVE NeedInv'
  <2>1. r \in Resp /\ row[r] # NeedTables!NoRow
      BY <1>2 DEF LatestIn, NeedIInv, NeedInv, BornExist
  <2>2. n \in Purpose
      BY DEF Purpose
  <2>3. PICK a \in Answered : a = Granted(r, n) /\ a.r = r /\ a.need = n
      BY <2>1, <2>2, PlainAnswers
  <2> QED BY <1>1, <1>2, <2>1, <2>3, PlainAnswers, NeedReads DEF Respond
<1>3. ASSUME Respond(c, Refused) PROVE NeedInv'
    BY <1>1, <1>3, PlainAnswers, NeedReads DEF Respond
<1>4. ASSUME ask' = [ask EXCEPT ![c] = [at |-> "create", conversation |-> s, need |-> n]],
             answer' = [answer EXCEPT ![c] = NoAnswer]
      PROVE  NeedInv'
  <2>1. PICK q \in Asked : q = [at |-> "create", conversation |-> s, need |-> n]
      BY DEF Asked, Origin, Purpose
  <2> QED BY <1>1, <1>4, <2>1, PlainAnswers, NeedReads
<1> QED BY <1>2, <1>3, <1>4 DEF FindLatest

LEMMA AcceptDecisionInv ==
    ASSUME NeedIInv, [NeedNext]_needVars, NEW c \in Call, AcceptDecision(c)
    PROVE  NeedInv'
<1>1. PICK q \in Asked : q = [at |-> "create", conversation |-> Decision, need |-> Decision]
    BY DEF Asked, Origin, Purpose
<1> QED BY <1>1, PlainAnswers, NeedReads DEF AcceptDecision, ledgerVars

LEMMA CreateFindInv ==
    ASSUME NeedIInv, [NeedNext]_needVars, NEW c \in Call, CreateFind(c)
    PROVE  NeedInv'
<1>1. ask[c] \in [at : {"create", "check"}, conversation : Origin, need : Purpose]
    BY AskIs DEF CreateFind, NeedIInv
<1>2. [ask[c] EXCEPT !.at = "check"] \in Asked
    BY <1>1 DEF Asked
<1>3. PICK q \in Asked : q = [ask[c] EXCEPT !.at = "check"]
    BY <1>2
<1>4. ask' = [ask EXCEPT ![c] = q]
    BY <1>3 DEF CreateFind
<1>5. UNCHANGED <<row, born, tracking, answer>>
    BY DEF CreateFind, NeedLedger!CreateAcceptedFind
<1> QED BY <1>4, <1>5, PlainAnswers, NeedReads

\* The row that is created becomes the newest, and no other of its slot is open.
LEMMA CreatedIsNewest ==
    ASSUME NeedIInv, [NeedNext]_needVars, NEW r \in Resp, row[r] = NeedTables!NoRow,
           NEW t \in Origin, NEW n,
           row' = [row EXCEPT ![r] = [slot |-> t, prov |-> n, status |-> "ACTIVE"]],
           NeedTables!OpenIn(t) = {}, born' = Append(born, r)
    PROVE  BornExist' /\ OnlyNewestIsOpen'
<1>1. born \in Seq(Resp) /\ \A i \in DOMAIN born : row[born[i]] # NeedTables!NoRow
    BY DEF NeedIInv, NeedInv, BornExist
<1>2. row \in [Resp -> NeedTables!Row \cup {NeedTables!NoRow}]
    BY DEF NeedIInv, NeedTables!IInv, NeedTables!TypeOK
<1>3. /\ row'[r].slot = t /\ row'[r] # NeedTables!NoRow
      /\ \A q \in Resp : q # r => row'[q] = row[q]
    BY <1>2 DEF NeedTables!NoRow
<1>4. /\ born' \in Seq(Resp) /\ Len(born) \in Nat
      /\ DOMAIN born = 1 .. Len(born) /\ DOMAIN born' = 1 .. (Len(born) + 1)
      /\ born'[Len(born) + 1] = r
      /\ \A i \in DOMAIN born : born'[i] = born[i] /\ born[i] \in Resp /\ born[i] # r
    BY <1>1
<1>5. BornExist'
    BY <1>1, <1>3, <1>4 DEF BornExist
<1>6. IsNewest(r, born', row')
    BY <1>4 DEF IsNewest
<1>7. ASSUME NEW q \in Resp, q # r, row'[q].status \in NeedTables!Open
      PROVE  IsNewest(q, born', row')
  <2>1. row'[q] = row[q] /\ row[q].slot # t
      BY <1>3, <1>7 DEF NeedTables!OpenIn, NeedTables!IsOpen
  <2>2. IsNewest(q, born, row)
    <3>1. NeedLedger!IsOpen(q)
        BY <1>7, <2>1 DEF NeedLedger!IsOpen, NeedLedger!Open, NeedTables!Open
    <3> QED BY <3>1, NewestIsLatest DEF NeedIInv, NeedInv, OnlyNewestIsOpen
  <2>3. PICK k \in DOMAIN born :
           born[k] = q /\ \A j \in DOMAIN born : j > k => row[born[j]].slot # row[q].slot
      BY <2>2 DEF IsNewest
  <2>4. ASSUME NEW j \in DOMAIN born', j > k PROVE row'[born'[j]].slot # row'[q].slot
    <3>1. CASE j \in DOMAIN born
        BY <1>3, <1>4, <2>1, <2>3, <2>4, <3>1
    <3>2. CASE j = Len(born) + 1
        BY <1>3, <1>4, <2>1, <3>2
    <3> QED BY <1>4, <3>1, <3>2
  <2> QED BY <1>4, <2>3, <2>4 DEF IsNewest
<1>8. OnlyNewestIsOpen'
  <2> SUFFICES ASSUME NEW q \in Resp, NeedLedger!IsOpen(q)'
               PROVE  (q \in LatestIn(row[q].slot))'
      BY DEF OnlyNewestIsOpen
  <2>1. row'[q].status \in NeedTables!Open
      BY DEF NeedLedger!IsOpen, NeedLedger!Open, NeedTables!Open
  <2>2. IsNewest(q, born', row')
      BY <1>6, <1>7, <2>1
  <2> QED BY <2>2, NewestIsLatestNext
<1> QED BY <1>5, <1>8

LEMMA CreateInsertInv ==
    ASSUME NeedIInv, [NeedNext]_needVars, NEW c \in Call, CreateInsert(c)
    PROVE  NeedInv'
<1>1. /\ tx \in [Call -> NeedTables!Creation \cup NeedTables!Move \cup {NeedTables!Idle}]
      /\ reply \in [Call -> NeedTables!Reply \cup {NeedTables!NoReply}]
    BY DEF NeedIInv, NeedTables!IInv, NeedTables!TypeOK
<1>2. tx[c] \in NeedTables!Creation
    BY <1>1 DEF CreateInsert, NeedLedger!CreateAcceptedInsert, NeedTables!Creation,
                NeedTables!Move, NeedTables!Idle
<1>3. UNCHANGED <<tracking, ask, answer>>
    BY DEF CreateInsert
<1>4. ASSUME NeedLedger!OpenIn(tx[c].slot) = {}, NEW r \in Resp, row[r] = NeedLedger!NoRow,
             row' = [row EXCEPT ![r] =
                 [slot |-> tx[c].slot, prov |-> tx[c].prov, status |-> "ACTIVE"]],
             NeedLedger!Return(c, NeedLedger!RowReply(r))
      PROVE  NeedInv'
  <2>1. PICK t \in Origin : t = tx[c].slot
      BY <1>2 DEF NeedTables!Creation, Origin
  <2>2. tx'[c] = NeedLedger!Idle /\ reply'[c].r = r
      BY <1>1, <1>4 DEF NeedLedger!Return, NeedLedger!RowReply
  <2>3. born' = Append(born, r)
      BY <2>2 DEF CreateInsert
  <2>4. row[r] = NeedTables!NoRow /\ NeedTables!OpenIn(t) = {}
      BY <1>4, <2>1 DEF NeedLedger!NoRow, NeedTables!NoRow, NeedLedger!OpenIn,
                        NeedTables!OpenIn, NeedLedger!IsOpen, NeedTables!IsOpen,
                        NeedLedger!Open, NeedTables!Open
  <2>5. BornExist' /\ OnlyNewestIsOpen'
      BY <1>4, <2>1, <2>3, <2>4, CreatedIsNewest
  <2>6. AnsweredForItsNeed'
      BY <1>3, PlainAnswers, AnswersStay
  <2> QED BY <1>3, <2>5, <2>6 DEF NeedIInv, NeedInv
<1>5. ASSUME NeedLedger!Proceed(c, [tx[c] EXCEPT !.op = "refind"]), UNCHANGED row
      PROVE  NeedInv'
  <2>1. tx'[c] # NeedLedger!Idle
      BY <1>1, <1>2, <1>5 DEF NeedLedger!Proceed, NeedLedger!Idle, NeedTables!Creation
  <2>2. UNCHANGED born
      BY <2>1 DEF CreateInsert
  <2> QED BY <1>3, <1>5, <2>2, PlainAnswers, NeedReads
<1> QED BY <1>4, <1>5 DEF CreateInsert, NeedLedger!CreateAcceptedInsert

LEMMA CreateRefindInv ==
    ASSUME NeedIInv, [NeedNext]_needVars, NEW c \in Call, CreateRefind(c)
    PROVE  NeedInv'
<1>1. UNCHANGED <<row, born, tracking>> /\ UNCHANGED ask /\ UNCHANGED answer
    BY DEF CreateRefind, NeedLedger!CreateAcceptedRefind
<1>2. PICK q \in Asked, a \in Answered : a.kind # "row"
    BY PlainAnswers
<1> QED BY <1>1, <1>2, NeedReads

LEMMA CheckProvenanceInv ==
    ASSUME NeedIInv, [NeedNext]_needVars, NEW c \in Call, CheckProvenance(c)
    PROVE  NeedInv'
<1>1. UNCHANGED <<row, born, tracking>>
    BY DEF CheckProvenance, ledgerVars
<1>2. ASSUME Respond(c, NoAnswer) PROVE NeedInv'
    BY <1>1, <1>2, PlainAnswers, NeedReads DEF Respond
<1>3. ASSUME Respond(c, Refused) PROVE NeedInv'
    BY <1>1, <1>3, PlainAnswers, NeedReads DEF Respond
<1>4. ASSUME reply[c].kind = "row", row[reply[c].r].prov = ask[c].need,
             Respond(c, Granted(reply[c].r, ask[c].need))
      PROVE  NeedInv'
  <2>1. reply[c].r \in Resp /\ row[reply[c].r] # NeedTables!NoRow
      BY <1>4 DEF NeedIInv, NeedTables!IInv, NeedTables!TypeOK, NeedTables!Reply,
                  NeedTables!NoReply, NeedTables!RepliesInv, NeedTables!Exists
  <2>2. ask[c].need \in Purpose
      BY AskIs DEF CheckProvenance, NeedIInv
  <2>3. PICK a \in Answered :
           /\ a = Granted(reply[c].r, ask[c].need)
           /\ a.r = reply[c].r /\ a.need = ask[c].need
      BY <2>1, <2>2, PlainAnswers
  <2>4. row[a.r] # NeedTables!NoRow /\ row[a.r].prov = a.need
      BY <1>4, <2>1, <2>3
  <2>5. answer' = [answer EXCEPT ![c] = a] /\ ask' = [ask EXCEPT ![c] = NoAsk]
      BY <1>4, <2>3 DEF Respond
  <2> QED BY <1>1, <2>4, <2>5, PlainAnswers, NeedReads
<1> QED BY <1>2, <1>3, <1>4 DEF CheckProvenance

\* The reads of the methods that move a row, and their writes.
LEMMA NeedMoves ==
    ASSUME NeedIInv, [NeedNext]_needVars, NEW c \in Call, NEW q \in Asked,
           ask' = [ask EXCEPT ![c] = q] \/ UNCHANGED ask,
           UNCHANGED <<tracking, born, answer>>,
           \/ \E r \in Resp : \/ NeedLedger!CompleteWithEvidenceRead(c, r)
                             \/ NeedLedger!MarkWaitingOnUserRead(c, r)
           \/ \E src : NeedLedger!CompleteWithEvidenceWrite(c, src)
           \/ NeedLedger!MarkWaitingOnUserWrite(c)
    PROVE  NeedInv'
<1>1. ASSUME UNCHANGED row PROVE NeedInv'
    BY <1>1, PlainAnswers, NeedReads
<1>2. ASSUME tx[c].op \in {"completeWithEvidence", "markWaitingOnUser"},
             NEW from, NEW to, NEW events, NeedLedger!GuardedUpdate(c, from, to, events)
      PROVE  NeedInv'
  <2>1. NeedTables!IInv /\ tx[c] \in NeedTables!Move
      BY <1>2, NeedTables!MoveOps, NeedTablesAssumptions DEF NeedIInv
  <2>2. NeedTables!GuardedUpdate(c, from, to, events)
      BY <1>2, SameNeedLedger
      DEF NeedLedger!GuardedUpdate, NeedTables!GuardedUpdate, NeedLedger!Return,
          NeedTables!Return, NeedLedger!RowReply, NeedTables!RowReply, NeedLedger!Accepted,
          NeedTables!Accepted, NeedLedger!ShapeCheck, NeedTables!ShapeCheck,
          NeedLedger!EvidenceShapeCheck, NeedTables!EvidenceShapeCheck, NeedLedger!NoStatus,
          NeedTables!NoStatus, NeedLedger!Evidencing, NeedTables!Evidencing
  <2>3. \A r \in Resp : row[r] = NeedTables!NoRow => row'[r] = NeedTables!NoRow
      BY <2>1, <2>2, NeedTables!UpdateAddsNoRow, NeedTablesAssumptions
  <2> QED BY <2>3, PlainAnswers, NeedStep
<1> QED BY <1>1, <1>2
    DEF NeedLedger!CompleteWithEvidenceRead, NeedLedger!MarkWaitingOnUserRead,
        NeedLedger!ReadCurrent, NeedLedger!CompleteWithEvidenceWrite,
        NeedLedger!MarkWaitingOnUserWrite

LEMMA CompleteInv ==
    ASSUME NeedIInv, [NeedNext]_needVars, NEW c \in Call, Complete(c)
    PROVE  NeedInv'
<1>1. UNCHANGED <<tracking, born, answer>> /\ UNCHANGED ask
    BY DEF Complete
<1>2. \/ \E r \in Resp : NeedLedger!CompleteWithEvidenceRead(c, r)
      \/ \E src : NeedLedger!CompleteWithEvidenceWrite(c, src)
    BY DEF Complete
<1>3. PICK q \in Asked : q = NoAsk
    BY PlainAnswers
<1> QED BY <1>1, <1>2, <1>3, NeedMoves

LEMMA ReconcileInv ==
    ASSUME NeedIInv, [NeedNext]_needVars, NEW c \in Call,
           (\E r \in Resp : ReconcileRead(c, r)) \/ ReconcileSaved(c) \/ ReconcileMove(c)
    PROVE  NeedInv'
<1>1. ASSUME NEW r \in Resp, ReconcileRead(c, r) PROVE NeedInv'
  <2>1. row[r].status \in NeedTables!Status
      BY <1>1 DEF ReconcileRead, NeedLedger!IsOpen, NeedLedger!Open, NeedTables!Status,
                  NeedTables!Open
  <2>2. PICK q \in Asked : q = [at |-> "reconcile", r |-> r, seen |-> row[r].status]
      BY <2>1 DEF Asked
  <2> QED BY <1>1, <2>2, PlainAnswers, NeedReads DEF ReconcileRead, ledgerVars
<1>2. ASSUME ReconcileSaved(c) PROVE NeedInv'
  <2>1. ask[c].r \in Resp /\ tracking \in Decided \cup {NoRecord}
      BY <1>2, AskIs DEF ReconcileSaved, NeedIInv, NeedInv
  <2>2. PICK q \in Asked :
           q = (IF tracking = NoRecord /\ ask[c].seen = "WAITING_ON_USER" THEN NoAsk
                ELSE [at |-> "reconciling", r |-> ask[c].r, saved |-> tracking])
      BY <2>1, PlainAnswers DEF Asked
  <2>3. ask' = [ask EXCEPT ![c] = q]
      BY <1>2, <2>2 DEF ReconcileSaved
  <2>4. UNCHANGED <<row, born, tracking>> /\ UNCHANGED answer
      BY <1>2 DEF ReconcileSaved, ledgerVars
  <2> QED BY <2>3, <2>4, PlainAnswers, NeedReads
<1>3. ASSUME ReconcileMove(c) PROVE NeedInv'
  <2>1. ask[c].r \in Resp
      BY <1>3, AskIs DEF ReconcileMove, NeedIInv
  <2>2. ask' = [ask EXCEPT ![c] = NoAsk] \/ UNCHANGED ask
      BY <1>3 DEF ReconcileMove
  <2> QED BY <1>3, <2>1, <2>2, PlainAnswers, NeedMoves DEF ReconcileMove
<1> QED BY <1>1, <1>2, <1>3

LEMMA NeedCrashInv ==
    ASSUME NeedIInv, [NeedNext]_needVars, NEW c \in Call, NeedCrash(c)
    PROVE  NeedInv'
<1>1. UNCHANGED <<row, born, tracking>>
    BY DEF NeedCrash, NeedLedger!Abandon, ledgerVars
<1> QED BY <1>1, PlainAnswers, NeedReads DEF NeedCrash, Respond

LEMMA ChangeTrackingInv ==
    ASSUME NeedIInv, [NeedNext]_needVars, NEW s \in Decided \cup {NoRecord}, ChangeTracking(s)
    PROVE  NeedInv'
<1>1. BornExist' /\ OnlyNewestIsOpen'
    BY NewestStay DEF ChangeTracking, ledgerVars
<1>2. AnsweredForItsNeed'
    BY DEF ChangeTracking, ledgerVars, NeedIInv, NeedInv, AnsweredForItsNeed, NeedLedger!Exists
<1> QED BY <1>1, <1>2 DEF ChangeTracking, NeedIInv, NeedInv

LEMMA NeedInitial == NeedInit => NeedIInv
<1> SUFFICES ASSUME NeedInit PROVE NeedIInv
    OBVIOUS
<1>1. NeedTables!Init
    BY SameNeedLedger DEF NeedInit
<1>2. NeedTables!IInv /\ NeedTables!RepliesInv
    BY <1>1, NeedTables!InitInv, NeedTables!RepliesInit, NeedTablesAssumptions
<1>3. BornExist
    BY DEF NeedInit, BornExist
<1>4. AnsweredForItsNeed /\ answer \in [Call -> Answered]
    BY PlainAnswers DEF NeedInit, AnsweredForItsNeed
<1>5. OnlyNewestIsOpen
    BY DEF NeedInit, OnlyNewestIsOpen, NeedLedger!Init, NeedLedger!NoRow, NeedLedger!IsOpen,
           NeedLedger!Open
<1> QED BY <1>2, <1>3, <1>4, <1>5, PlainAnswers DEF NeedInit, NeedIInv, NeedInv

LEMMA NeedIInvNext == NeedIInv /\ [NeedNext]_needVars => NeedIInv'
<1> SUFFICES ASSUME NeedIInv, [NeedNext]_needVars PROVE NeedIInv'
    OBVIOUS
<1>1. [NeedTables!Next]_(NeedTables!vars)
    BY StepsOfNeedTables DEF NeedIInv
<1>2. NeedTables!IInv' /\ NeedTables!RepliesInv'
    BY <1>1, NeedTables!NextInv, NeedTables!RepliesNext, NeedTablesAssumptions DEF NeedIInv
<1>3. NeedInv'
  <2>1. CASE UNCHANGED needVars
    <3>1. BornExist' /\ OnlyNewestIsOpen'
        BY <2>1, NewestStay DEF needVars, ledgerVars
    <3> QED BY <2>1, <3>1 DEF needVars, ledgerVars, NeedIInv, NeedInv, AnsweredForItsNeed,
                              NeedLedger!Exists
  <2> QED BY <2>1, FindLatestInv, AcceptDecisionInv, CreateFindInv, CreateInsertInv,
             CreateRefindInv, CheckProvenanceInv, CompleteInv, ReconcileInv, NeedCrashInv,
             ChangeTrackingInv DEF NeedNext
<1> QED BY <1>2, <1>3 DEF NeedIInv

LEMMA NeedInvariance == NeedSpec => []NeedIInv
BY NeedInitial, NeedIInvNext, PTL DEF NeedSpec

\* The answer to an acceptance is a Responsibility for the need that was
\* accepted, however many calls accept, complete and retry at once.
THEOREM AnswerIsForItsNeed == NeedSpec => []AnsweredForItsNeed
<1>1. NeedIInv => AnsweredForItsNeed
    BY DEF NeedIInv, NeedInv
<1> QED BY <1>1, NeedInvariance, PTL

\* The row that the service decides on, the newest, is the only one that can
\* be open.
THEOREM NewestDecides == NeedSpec => []OnlyNewestIsOpen
<1>1. NeedIInv => OnlyNewestIsOpen
    BY DEF NeedIInv, NeedInv
<1> QED BY <1>1, NeedInvariance, PTL

\* Every step of the service is a step of the ledger or none.
THEOREM NeedsImplementLedger == NeedSpec => NeedImplementsLedger
<1>1. NeedInit => NeedLedger!Init
    BY DEF NeedInit
<1>2. NeedIInv /\ [NeedNext]_needVars => [NeedLedger!Next]_(NeedLedger!vars)
    BY StepsOfNeeds DEF NeedIInv
<1> QED BY <1>1, <1>2, NeedInvariance, PTL DEF NeedSpec, NeedImplementsLedger, NeedLedger!Spec

\* What was accepted, a need or a decision, is carried until it is kept or ended,
\* whatever acceptances, retries and reconciliations overlap.
THEOREM AcceptedAreCarried ==
    NeedSpec => /\ []NeedTables!TablesHold
                /\ NeedTables!TerminalIsFinal
                /\ NeedTables!ImplementsPromise
<1>1. NeedIInv => NeedTables!IInv /\ NeedTables!TablesHold
    BY NeedTables!InvHolds, NeedTablesAssumptions DEF NeedIInv
<1>2. NeedInit => NeedTables!Init
    BY SameNeedLedger DEF NeedInit
<1>3. NeedIInv /\ [NeedNext]_needVars => [NeedTables!Next]_(NeedTables!vars)
    BY StepsOfNeedTables DEF NeedIInv
<1>4. NeedInit => NeedTables!Promise!Init
    BY <1>2, NeedTables!InitPromise, NeedTablesAssumptions
<1>5. NeedIInv /\ [NeedNext]_needVars => [NeedTables!Promise!Next]_(NeedTables!Promise!vars)
    BY <1>1, <1>3, NeedTables!StepPromise, NeedTablesAssumptions
<1>6. NeedIInv /\ [NeedNext]_needVars =>
        [\A r \in Resp : row[r].status \in NeedTables!Terminal =>
            row'[r] = row[r] /\ ledger'[r] = ledger[r]]_(NeedTables!vars)
    BY <1>1, <1>3, NeedTables!TerminalStep, NeedTablesAssumptions
<1> QED BY <1>1, <1>4, <1>5, <1>6, NeedInvariance, PTL
    DEF NeedSpec, NeedTables!TerminalIsFinal, NeedTables!ImplementsPromise,
        NeedTables!Promise!Spec

-----------------------------------------------------------------------------
(* The help with an application is a behaviour of the ledger *)

HelpTables == INSTANCE ResponsibilityLedgerProofs WITH
    Slot <- {"guidance"}, NeedSlot <- {}, GuidanceSlot <- {"guidance"},
    Provenance <- {"opportunity"}, Record <- PeopleApplicationOutcome, NoRecord <- NotSaved

\* The ledger's assumptions, of the ledger of an opportunity.
LEMMA HelpTablesAssumptions ==
    /\ {} \subseteq {"guidance"} /\ {"guidance"} \subseteq {"guidance"}
    /\ NotSaved \notin PeopleApplicationOutcome
    /\ MaxEvents \in Nat
BY LedgerBoundAssumption DEF NotSaved, PeopleApplicationOutcome

\* Both instances of the ledger are the same.
LEMMA SameHelpLedger ==
    /\ HelpLedger!Init <=> HelpTables!Init
    /\ HelpLedger!Next <=> HelpTables!Next
    /\ HelpLedger!vars = HelpTables!vars
    /\ HelpLedger!Idle = HelpTables!Idle
    /\ \A r : HelpLedger!Exists(r) <=> HelpTables!Exists(r)
BY DEF HelpLedger!Init, HelpTables!Init, HelpLedger!Next, HelpTables!Next,
       HelpLedger!vars, HelpTables!vars,
       HelpLedger!CreateAcceptedFind, HelpTables!CreateAcceptedFind,
       HelpLedger!CreateAcceptedInsert, HelpTables!CreateAcceptedInsert,
       HelpLedger!CreateAcceptedRefind, HelpTables!CreateAcceptedRefind,
       HelpLedger!MarkWaitingOnUserRead, HelpTables!MarkWaitingOnUserRead,
       HelpLedger!MarkWaitingOnUserWrite, HelpTables!MarkWaitingOnUserWrite,
       HelpLedger!MarkWaitingOnThirdPartyRead, HelpTables!MarkWaitingOnThirdPartyRead,
       HelpLedger!MarkWaitingOnThirdPartyWrite, HelpTables!MarkWaitingOnThirdPartyWrite,
       HelpLedger!ResumeFromWaitingOnUserRead, HelpTables!ResumeFromWaitingOnUserRead,
       HelpLedger!ResumeFromWaitingOnUserWrite, HelpTables!ResumeFromWaitingOnUserWrite,
       HelpLedger!CompleteWithEvidenceRead, HelpTables!CompleteWithEvidenceRead,
       HelpLedger!CompleteWithEvidenceWrite, HelpTables!CompleteWithEvidenceWrite,
       HelpLedger!ResponsiblyExhaustWithEvidenceRead,
       HelpTables!ResponsiblyExhaustWithEvidenceRead,
       HelpLedger!ResponsiblyExhaustWithEvidenceWrite,
       HelpTables!ResponsiblyExhaustWithEvidenceWrite,
       HelpLedger!Abandon, HelpTables!Abandon,
       HelpLedger!ReadCurrent, HelpTables!ReadCurrent,
       HelpLedger!GuardedUpdate, HelpTables!GuardedUpdate,
       HelpLedger!Accepted, HelpTables!Accepted, HelpLedger!ShapeCheck, HelpTables!ShapeCheck,
       HelpLedger!EvidenceShapeCheck, HelpTables!EvidenceShapeCheck,
       HelpLedger!Evidenced, HelpTables!Evidenced, HelpLedger!Evt, HelpTables!Evt,
       HelpLedger!Evidencing, HelpTables!Evidencing,
       HelpLedger!Return, HelpTables!Return, HelpLedger!Proceed, HelpTables!Proceed,
       HelpLedger!RowReply, HelpTables!RowReply, HelpLedger!Idle, HelpTables!Idle,
       HelpLedger!NoReply, HelpTables!NoReply, HelpLedger!NoRow, HelpTables!NoRow,
       HelpLedger!NoStatus, HelpTables!NoStatus, HelpLedger!OpenIn, HelpTables!OpenIn,
       HelpLedger!IsOpen, HelpTables!IsOpen, HelpLedger!Exists, HelpTables!Exists,
       HelpLedger!Open, HelpTables!Open, HelpLedger!Terminal, HelpTables!Terminal,
       HelpLedger!Status, HelpTables!Status

Late == {"bound", "save", "update", "end", "move"}

\* A call that goes on with the session it has read.
LateState ==
    [at : Late, what : PeopleApplicationOutcome \cup {"pause"}, i : Nat, active : BOOLEAN,
     updatedSaved : PeopleApplicationOutcome \cup {NotSaved}]

\* Only an outcome is saved; a call has one to cite once it has written it.
Written(s) ==
    /\ s.at \in {"save", "update"} => s.what # "pause"
    /\ s.at \in {"end", "move"} /\ s.what # "pause" => s.updatedSaved = s.what

HelpState ==
    {Idle}
    \cup [at : {"create"}, conversation : Conversation]
    \cup [at : {"resume"}, r : Resp, conversation : Conversation]
    \cup [at : {"session", "open"}, r : Resp \cup {NoResp}, conversation : Conversation]
    \cup [at : {"replace"}, i : Nat, r : Resp \cup {NoResp}, conversation : Conversation]
    \cup LateState

\* What a call remembers of its session, and of the transaction t it has open,
\* is true of the sessions whatever other calls did to them.
Stands(s, sessions, t) ==
    /\ s.at = "replace" => s.i \in DOMAIN sessions
    /\ s.at \in Late =>
          s.i \in DOMAIN sessions /\ (sessions[s.i].active => s.active) /\ Written(s)
    /\ s.at \in {"save", "update", "move"} => sessions[s.i].responsibility \in Resp
    /\ s.at = "move" => ~sessions[s.i].active
    /\ t # HelpTables!Idle =>
          /\ s.at \in {"resume", "create", "move"}
          /\ s.at = "move" => t.r = sessions[s.i].responsibility

HelpInv ==
    /\ session \in Seq(GuidedApplicationSession)
    /\ help \in [Call -> HelpState]
    /\ \A c \in Call : Stands(help[c], session, tx[c])
    /\ ConsentEndsWithSession

HelpIInv == HelpTables!IInv /\ HelpInv

LEMMA HelpIs ==
    ASSUME HelpInv, NEW c \in Call
    PROVE  /\ help[c] \in HelpState
           /\ help[c].at = "create" => help[c].conversation \in Conversation
           /\ help[c].at = "resume" => help[c].r \in Resp /\ help[c].conversation \in Conversation
           /\ help[c].at \in {"session", "open", "replace"} =>
                 help[c].r \in Resp \cup {NoResp} /\ help[c].conversation \in Conversation
           /\ help[c].at \in {"replace"} \cup Late => help[c].i \in DOMAIN session
           /\ help[c].at \in Late => help[c] \in LateState /\ Written(help[c])
           /\ help[c].at \in {"save", "update", "move"} => Work(help[c].i) \in Resp
<1>1. help[c] \in HelpState /\ Stands(help[c], session, tx[c])
    BY DEF HelpInv
<1> QED BY <1>1 DEF HelpState, LateState, Stands, Work, Late, Idle

LEMMA StepsOfHelp ==
    ASSUME HelpInv, [HelpNext]_helpVars
    PROVE  [HelpLedger!Next]_(HelpLedger!vars)
<1>1. ASSUME UNCHANGED ledgerVars PROVE [HelpLedger!Next]_(HelpLedger!vars)
    BY <1>1 DEF HelpLedger!vars, ledgerVars
<1>2. ASSUME NEW c \in Call, StartResume(c) PROVE HelpLedger!Next
  <2>1. help[c].r \in Resp
      BY <1>2, HelpIs DEF StartResume
  <2> QED BY <1>2, <2>1 DEF StartResume, HelpLedger!Next
<1>3. ASSUME NEW c \in Call, StartCreate(c) PROVE HelpLedger!Next
    BY <1>3 DEF StartCreate, HelpLedger!Next
<1>4. ASSUME NEW c \in Call, HelpMoveRead(c) PROVE HelpLedger!Next
  <2>1. HelpWork(c) \in Resp
      BY <1>4, HelpIs DEF HelpMoveRead, HelpWork
  <2> QED BY <1>4, <2>1 DEF HelpMoveRead, HelpLedger!Next
<1>5. ASSUME NEW c \in Call, HelpMoveWrite(c) PROVE HelpLedger!Next
  <2>1. Closing(c) => help[c].updatedSaved \in PeopleApplicationOutcome
    <3>1. help[c].at = "move" /\ Written(help[c])
        BY <1>5, HelpIs DEF HelpMoveWrite, Late
    <3> QED BY <3>1 DEF Written, Closing, PeopleApplicationOutcome
  <2> QED BY <1>5, <2>1 DEF HelpMoveWrite, HelpLedger!Next
<1>6. ASSUME NEW c \in Call, Fail(c) PROVE [HelpLedger!Next]_(HelpLedger!vars)
  <2>1. HelpLedger!Abandon(c) \/ UNCHANGED ledgerVars
      BY <1>6 DEF Fail
  <2> QED BY <1>1, <2>1 DEF HelpLedger!Next
<1>7. CASE UNCHANGED helpVars
    BY <1>1, <1>7 DEF helpVars
<1> QED BY <1>1, <1>2, <1>3, <1>4, <1>5, <1>6, <1>7
    DEF HelpNext, StartFind, StartDirect, SessionFind, SessionReplace, SessionOpen, HelpRead,
        HelpBound, HelpSave, HelpUpdate, HelpEnd, EndSession, SetConsent, Track

LEMMA StepsOfHelpTables ==
    ASSUME HelpInv, [HelpNext]_helpVars
    PROVE  [HelpTables!Next]_(HelpTables!vars)
<1>1. [HelpLedger!Next]_(HelpLedger!vars)
    BY StepsOfHelp
<1> QED BY <1>1, SameHelpLedger DEF HelpLedger!vars, HelpTables!vars

-----------------------------------------------------------------------------
(* Sessions *)

\* Later sessions: none disappears, changes its Responsibility or is opened
\* again.
Later(sessions, later) ==
    \A i \in DOMAIN sessions :
        /\ i \in DOMAIN later
        /\ later[i].responsibility = sessions[i].responsibility
        /\ later[i].active => sessions[i].active

LEMMA StandsLater ==
    ASSUME NEW s, NEW sessions, NEW later, NEW t, Later(sessions, later), Stands(s, sessions, t)
    PROVE  Stands(s, later, t)
BY DEF Later, Stands, Late

Consents(sessions) == \A i \in DOMAIN sessions : sessions[i].consent => sessions[i].active

LEMMA SessionWritten ==
    ASSUME HelpInv, NEW i \in DOMAIN session, NEW e \in GuidedApplicationSession,
           session' = [session EXCEPT ![i] = e],
           e.responsibility = session[i].responsibility, e.active => session[i].active,
           e.consent => e.active
    PROVE  /\ session' \in Seq(GuidedApplicationSession)
           /\ Later(session, session') /\ Consents(session')
<1>1. /\ session \in Seq(GuidedApplicationSession) /\ Consents(session)
      /\ DOMAIN session = 1 .. Len(session) /\ Len(session) \in Nat
    BY DEF HelpInv, ConsentEndsWithSession, Consents
<1>2. /\ DOMAIN session' = DOMAIN session
      /\ \A j \in DOMAIN session : session'[j] = IF j = i THEN e ELSE session[j]
    BY <1>1
<1> QED BY <1>1, <1>2 DEF Later, Consents

LEMMA SessionEnded ==
    ASSUME HelpInv, NEW i \in DOMAIN session, End(i)
    PROVE  /\ session' \in Seq(GuidedApplicationSession)
           /\ Later(session, session') /\ Consents(session')
           /\ ~session'[i].active /\ session'[i].responsibility = session[i].responsibility
<1>1. session[i] \in GuidedApplicationSession
    BY DEF HelpInv
<1>2. PICK e : e = [session[i] EXCEPT !.active = FALSE, !.consent = FALSE]
    OBVIOUS
<1>3. /\ e \in GuidedApplicationSession /\ e.responsibility = session[i].responsibility
      /\ e.active = FALSE /\ e.consent = FALSE
    BY <1>1, <1>2 DEF GuidedApplicationSession
<1>4. session' = [session EXCEPT ![i] = e]
    BY <1>2 DEF End
<1>5. session'[i] = e
    BY <1>4
<1> QED BY <1>3, <1>4, <1>5, SessionWritten

LEMMA SessionOpened ==
    ASSUME HelpInv, NEW e \in GuidedApplicationSession, session' = Append(session, e), ~e.consent
    PROVE  /\ session' \in Seq(GuidedApplicationSession)
           /\ Later(session, session') /\ Consents(session')
<1>1. session \in Seq(GuidedApplicationSession) /\ Consents(session)
    BY DEF HelpInv, ConsentEndsWithSession, Consents
<1>2. /\ Len(session) \in Nat /\ DOMAIN session = 1 .. Len(session)
      /\ session' \in Seq(GuidedApplicationSession)
      /\ DOMAIN session' = 1 .. (Len(session) + 1) /\ session'[Len(session) + 1] = e
      /\ \A j \in DOMAIN session : session'[j] = session[j]
    BY <1>1
<1>3. Later(session, session')
    BY <1>2 DEF Later
<1>4. Consents(session')
    BY <1>1, <1>2 DEF Consents
<1> QED BY <1>2, <1>3, <1>4

\* One call goes on, others stay where they are.
LEMMA HelpStep ==
    ASSUME HelpInv, NEW c \in Call, NEW s \in HelpState, help' = [help EXCEPT ![c] = s],
           session' \in Seq(GuidedApplicationSession), Later(session, session'),
           Consents(session'), \A d \in Call : d # c => tx'[d] = tx[d],
           Stands(s, session', tx'[c])
    PROVE  HelpInv'
<1>1. help' \in [Call -> HelpState] /\ ConsentEndsWithSession'
    BY DEF HelpInv, Consents, ConsentEndsWithSession
<1>2. ASSUME NEW d \in Call PROVE Stands(help'[d], session', tx'[d])
  <2>1. CASE d = c
    <3>1. help'[d] = s
        BY <2>1 DEF HelpInv
    <3> QED BY <2>1, <3>1
  <2>2. CASE d # c
    <3>1. help'[d] = help[d] /\ tx'[d] = tx[d]
        BY <2>2 DEF HelpInv
    <3>2. Stands(help[d], session, tx[d])
        BY DEF HelpInv
    <3> QED BY <3>1, <3>2, StandsLater
  <2> QED BY <2>1, <2>2
<1> QED BY <1>1, <1>2 DEF HelpInv

LEMMA SessionsSame ==
    ASSUME HelpInv, UNCHANGED session
    PROVE  /\ session' \in Seq(GuidedApplicationSession)
           /\ Later(session, session') /\ Consents(session')
BY DEF HelpInv, Later, Consents, ConsentEndsWithSession

LEMMA HelpGoes ==
    ASSUME HelpInv, NEW c \in Call, NEW s \in HelpState, help' = [help EXCEPT ![c] = s],
           UNCHANGED <<tx, session>>, Stands(s, session, tx[c])
    PROVE  HelpInv'
<1>1. /\ session' \in Seq(GuidedApplicationSession)
      /\ Later(session, session') /\ Consents(session')
    BY SessionsSame
<1> QED BY <1>1, HelpStep

LEMMA IdleStands ==
    /\ Idle \in HelpState
    /\ \A sessions : Stands(Idle, sessions, HelpTables!Idle)
BY DEF Idle, HelpState, Stands, Late

LEMMA NoneOpen ==
    ASSUME HelpInv, NEW c \in Call, help[c].at \notin {"resume", "create", "move"}
    PROVE  tx[c] = HelpTables!Idle
BY DEF HelpInv, Stands

\* States that claim nothing of a session.
LEMMA StartStands ==
    ASSUME NEW s, s.at \in {"idle", "create", "resume", "session", "open"}, NEW sessions, NEW t,
           t = HelpTables!Idle \/ s.at \in {"create", "resume"}
    PROVE  Stands(s, sessions, t)
BY DEF Stands, Late

LEMMA ThenStands ==
    ASSUME HelpInv, NEW c \in Call, NEW at, HelpThen(c, at)
    PROVE  help' = [help EXCEPT ![c] = [help[c] EXCEPT !.at = at]]
BY DEF HelpThen, HelpInv

LEMMA HelpEnds ==
    ASSUME HelpInv, NEW c \in Call, HelpDone(c), UNCHANGED session,
           tx'[c] = HelpTables!Idle, \A d \in Call : d # c => tx'[d] = tx[d]
    PROVE  HelpInv'
<1>1. /\ session' \in Seq(GuidedApplicationSession)
      /\ Later(session, session') /\ Consents(session')
    BY SessionsSame
<1>2. help' = [help EXCEPT ![c] = Idle]
    BY DEF HelpDone, HelpGoto
<1> QED BY <1>1, <1>2, IdleStands, HelpStep

LEMMA StartFindInv ==
    ASSUME HelpInv, NEW c \in Call, NEW k \in Conversation, StartFind(c, k) \/ StartDirect(c, k)
    PROVE  HelpInv'
<1>1. UNCHANGED <<tx, session>> /\ tx[c] = HelpTables!Idle
    BY NoneOpen DEF StartFind, StartDirect, ledgerVars, Idle
<1>2. ASSUME NEW s \in HelpState, s.at \in {"create", "resume", "session"}, HelpGoto(c, s)
      PROVE  HelpInv'
  <2>1. Stands(s, session, tx[c])
      BY <1>1, <1>2, StartStands
  <2>2. help' = [help EXCEPT ![c] = s]
      BY <1>2 DEF HelpGoto
  <2> QED BY <1>1, <2>1, <2>2, HelpGoes
<1>3. ASSUME NEW r \in Resp, HelpGoto(c, [at |-> "resume", r |-> r, conversation |-> k])
      PROVE  HelpInv'
  <2>1. PICK s \in HelpState : s = [at |-> "resume", r |-> r, conversation |-> k]
      BY DEF HelpState
  <2> QED BY <1>2, <1>3, <2>1
<1>4. ASSUME HelpGoto(c, [at |-> "create", conversation |-> k]) PROVE HelpInv'
  <2>1. PICK s \in HelpState : s = [at |-> "create", conversation |-> k]
      BY DEF HelpState
  <2> QED BY <1>2, <1>4, <2>1
<1>5. ASSUME HelpGoto(c, [at |-> "session", r |-> NoResp, conversation |-> k]) PROVE HelpInv'
  <2>1. PICK s \in HelpState : s = [at |-> "session", r |-> NoResp, conversation |-> k]
      BY DEF HelpState
  <2> QED BY <1>2, <1>5, <2>1
<1> QED BY <1>3, <1>4, <1>5 DEF StartFind, StartDirect, HelpLedger!OpenIn

\* A method of the ledger changes the transaction of its call only.
OwnTx(c) == \A d \in Call : d # c => tx'[d] = tx[d]

LEMMA LedgerOwnTx ==
    ASSUME HelpTables!IInv, NEW c \in Call,
           \/ \E result : HelpLedger!Return(c, result)
           \/ \E state : HelpLedger!Proceed(c, state)
    PROVE  OwnTx(c)
BY DEF HelpTables!IInv, HelpTables!TypeOK, HelpLedger!Return, HelpLedger!Proceed, OwnTx

\* The row that a method returned is a row.
LEMMA RepliedRow ==
    ASSUME HelpTables!IInv', NEW c \in Call, reply'[c].kind = "row"
    PROVE  reply'[c].r \in Resp
BY DEF HelpTables!IInv, HelpTables!TypeOK, HelpTables!Reply, HelpTables!NoReply

LEMMA StartStepInv ==
    ASSUME HelpInv, HelpTables!IInv', NEW c \in Call, OwnTx(c), UNCHANGED session,
           help[c].at \in {"create", "resume"},
           \/ tx'[c] # HelpLedger!Idle /\ UNCHANGED help
           \/ tx'[c] = HelpLedger!Idle /\ HelpDone(c)
           \/ /\ tx'[c] = HelpLedger!Idle
              /\ \E s \in HelpState : s.at = "session" /\ help' = [help EXCEPT ![c] = s]
    PROVE  HelpInv'
<1>1. /\ session' \in Seq(GuidedApplicationSession)
      /\ Later(session, session') /\ Consents(session')
    BY SessionsSame
<1>2. HelpLedger!Idle = HelpTables!Idle
    BY SameHelpLedger
<1>3. ASSUME UNCHANGED help PROVE HelpInv'
  <2>1. PICK s \in HelpState : s = help[c]
      BY HelpIs
  <2>2. help' = [help EXCEPT ![c] = s]
      BY <1>3, <2>1 DEF HelpInv
  <2>3. Stands(s, session', tx'[c])
      BY <2>1, StartStands
  <2> QED BY <1>1, <2>2, <2>3, HelpStep DEF OwnTx
<1>4. ASSUME NEW s \in HelpState, s.at = "session", help' = [help EXCEPT ![c] = s],
             tx'[c] = HelpTables!Idle
      PROVE  HelpInv'
  <2>1. Stands(s, session', tx'[c])
      BY <1>4, StartStands
  <2> QED BY <1>1, <1>4, <2>1, HelpStep DEF OwnTx
<1>5. ASSUME HelpDone(c), tx'[c] = HelpTables!Idle PROVE HelpInv'
    BY <1>5, HelpEnds DEF OwnTx
<1> QED BY <1>2, <1>3, <1>4, <1>5

LEMMA StartResumeInv ==
    ASSUME HelpInv, HelpTables!IInv, HelpTables!IInv', NEW c \in Call, StartResume(c)
    PROVE  HelpInv'
<1>1. OwnTx(c)
  <2>1. \/ \E result : HelpLedger!Return(c, result)
        \/ \E state : HelpLedger!Proceed(c, state)
      BY DEF StartResume, HelpLedger!ResumeFromWaitingOnUserRead, HelpLedger!ReadCurrent,
             HelpLedger!ResumeFromWaitingOnUserWrite, HelpLedger!GuardedUpdate
  <2> QED BY <2>1, LedgerOwnTx
<1>2. help[c].at = "resume" /\ UNCHANGED session
    BY DEF StartResume
<1>3. ASSUME HelpThen(c, "session")
      PROVE  \E s \in HelpState : s.at = "session" /\ help' = [help EXCEPT ![c] = s]
  <2>1. help[c] \in [at : {"resume"}, r : Resp, conversation : Conversation]
      BY <1>2, HelpIs DEF HelpState, LateState, Late, Idle
  <2>2. PICK s : s = [help[c] EXCEPT !.at = "session"]
      OBVIOUS
  <2>3. s \in HelpState /\ s.at = "session"
      BY <2>1, <2>2 DEF HelpState
  <2> QED BY <1>3, <2>2, <2>3, ThenStands
<1> QED BY <1>1, <1>2, <1>3, StartStepInv DEF StartResume

LEMMA StartCreateInv ==
    ASSUME HelpInv, HelpTables!IInv, HelpTables!IInv', NEW c \in Call, StartCreate(c)
    PROVE  HelpInv'
<1>1. OwnTx(c)
  <2>1. \/ \E result : HelpLedger!Return(c, result)
        \/ \E state : HelpLedger!Proceed(c, state)
      BY DEF StartCreate, HelpLedger!CreateAcceptedFind, HelpLedger!CreateAcceptedInsert,
             HelpLedger!CreateAcceptedRefind
  <2> QED BY <2>1, LedgerOwnTx
<1>2. help[c].at = "create" /\ UNCHANGED session
    BY DEF StartCreate
<1>3. ASSUME reply'[c].kind = "row",
             HelpGoto(c, [at |-> "session", r |-> reply'[c].r,
                          conversation |-> help[c].conversation])
      PROVE  \E s \in HelpState : s.at = "session" /\ help' = [help EXCEPT ![c] = s]
  <2>1. reply'[c].r \in Resp /\ help[c].conversation \in Conversation
      BY <1>2, <1>3, RepliedRow, HelpIs
  <2>2. PICK s : s = [at |-> "session", r |-> reply'[c].r, conversation |-> help[c].conversation]
      OBVIOUS
  <2>3. s \in HelpState /\ s.at = "session"
      BY <2>1, <2>2 DEF HelpState
  <2> QED BY <1>3, <2>2, <2>3 DEF HelpGoto
<1> QED BY <1>1, <1>2, <1>3, StartStepInv DEF StartCreate

LEMMA SessionFindInv ==
    ASSUME HelpInv, NEW c \in Call, SessionFind(c)
    PROVE  HelpInv'
<1>1. /\ help[c].at = "session" /\ UNCHANGED <<tx, session>>
      /\ help[c].r \in Resp \cup {NoResp} /\ help[c].conversation \in Conversation
    BY HelpIs DEF SessionFind, ledgerVars
<1>2. tx[c] = HelpTables!Idle
    BY <1>1, NoneOpen
<1>3. ASSUME HelpDone(c) PROVE HelpInv'
    BY <1>1, <1>2, <1>3, HelpEnds
<1>4. ASSUME NEW i \in ActiveIn(help[c].conversation),
             HelpGoto(c, [at |-> "replace", i |-> i, r |-> help[c].r,
                          conversation |-> help[c].conversation])
      PROVE  HelpInv'
  <2>1. i \in DOMAIN session /\ i \in Nat
      BY DEF ActiveIn, HelpInv
  <2>2. PICK s : s = [at |-> "replace", i |-> i, r |-> help[c].r,
                      conversation |-> help[c].conversation]
      OBVIOUS
  <2>3. s \in HelpState /\ s.at = "replace" /\ s.i = i
      BY <1>1, <2>1, <2>2 DEF HelpState
  <2>4. Stands(s, session, tx[c])
      BY <1>2, <2>1, <2>3 DEF Stands, Late
  <2>5. help' = [help EXCEPT ![c] = s]
      BY <1>4, <2>2 DEF HelpGoto
  <2> QED BY <1>1, <2>3, <2>4, <2>5, HelpGoes
<1>5. ASSUME HelpThen(c, "open") PROVE HelpInv'
  <2>1. help[c] \in [at : {"session", "open"}, r : Resp \cup {NoResp},
                     conversation : Conversation]
      BY <1>1, HelpIs DEF HelpState, LateState, Late, Idle
  <2>2. PICK s : s = [help[c] EXCEPT !.at = "open"]
      OBVIOUS
  <2>3. s \in HelpState /\ s.at = "open"
      BY <2>1, <2>2 DEF HelpState
  <2>4. Stands(s, session, tx[c])
      BY <1>2, <2>3, StartStands
  <2>5. help' = [help EXCEPT ![c] = s]
      BY <1>5, <2>2, ThenStands
  <2> QED BY <1>1, <2>3, <2>4, <2>5, HelpGoes
<1> QED BY <1>3, <1>4, <1>5 DEF SessionFind

LEMMA SessionReplaceInv ==
    ASSUME HelpInv, NEW c \in Call, SessionReplace(c)
    PROVE  HelpInv'
<1>1. /\ help[c].at = "replace" /\ UNCHANGED tx /\ help[c].i \in DOMAIN session
      /\ help[c].r \in Resp \cup {NoResp} /\ help[c].conversation \in Conversation
    BY HelpIs DEF SessionReplace, ledgerVars
<1>2. tx[c] = HelpTables!Idle /\ tx'[c] = HelpTables!Idle
    BY <1>1, NoneOpen
<1>3. ASSUME End(help[c].i),
             HelpGoto(c, [at |-> "open", r |-> help[c].r, conversation |-> help[c].conversation])
      PROVE  HelpInv'
  <2>1. PICK i \in DOMAIN session : i = help[c].i
      BY <1>1
  <2>2. /\ session' \in Seq(GuidedApplicationSession)
        /\ Later(session, session') /\ Consents(session')
      BY <1>3, <2>1, SessionEnded
  <2>3. PICK s \in HelpState :
           s = [at |-> "open", r |-> help[c].r, conversation |-> help[c].conversation]
      BY <1>1 DEF HelpState
  <2>4. Stands(s, session', tx'[c]) /\ help' = [help EXCEPT ![c] = s]
      BY <1>2, <1>3, <2>3, StartStands DEF HelpGoto
  <2> QED BY <1>1, <2>2, <2>4, HelpStep
<1>4. ASSUME HelpDone(c), UNCHANGED session PROVE HelpInv'
    BY <1>1, <1>2, <1>4, HelpEnds
<1> QED BY <1>3, <1>4 DEF SessionReplace

LEMMA SessionOpenInv ==
    ASSUME HelpInv, NEW c \in Call, SessionOpen(c)
    PROVE  HelpInv'
<1>1. /\ help[c].at = "open" /\ UNCHANGED tx
      /\ help[c].r \in Resp \cup {NoResp} /\ help[c].conversation \in Conversation
    BY HelpIs DEF SessionOpen, ledgerVars
<1>2. tx'[c] = HelpTables!Idle
    BY <1>1, NoneOpen
<1>3. PICK e : e = [conversation |-> help[c].conversation, responsibility |-> help[c].r,
                    active |-> TRUE, consent |-> FALSE]
    OBVIOUS
<1>4. e \in GuidedApplicationSession /\ ~e.consent
    BY <1>1, <1>3 DEF GuidedApplicationSession
<1>5. /\ session' \in Seq(GuidedApplicationSession)
      /\ Later(session, session') /\ Consents(session')
    BY <1>3, <1>4, SessionOpened DEF SessionOpen
<1>6. help' = [help EXCEPT ![c] = Idle]
    BY DEF SessionOpen, HelpDone, HelpGoto
<1> QED BY <1>1, <1>2, <1>5, <1>6, IdleStands, HelpStep

LEMMA LateGoes ==
    ASSUME HelpInv, NEW c \in Call, help[c].at \in Late \ {"move"}, NEW s \in LateState,
           help' = [help EXCEPT ![c] = s], UNCHANGED tx,
           s.i = help[c].i, s.active = help[c].active, Written(s),
           session' \in Seq(GuidedApplicationSession), Later(session, session'),
           Consents(session'),
           s.at \in {"save", "update", "move"} => Work(help[c].i) \in Resp,
           s.at = "move" => ~session'[help[c].i].active
    PROVE  HelpInv'
<1>1. help[c].i \in DOMAIN session /\ Stands(help[c], session, tx[c])
    BY HelpIs DEF HelpInv
<1>2. s \in HelpState
    BY DEF HelpState
<1>3. tx'[c] = HelpTables!Idle
    BY NoneOpen DEF Late
<1>4. Stands(help[c], session', tx[c])
    BY <1>1, StandsLater
<1>5. session'[s.i].responsibility = Work(help[c].i)
    BY <1>1 DEF Later, Work
<1>6. Stands(s, session', tx'[c])
    BY <1>3, <1>4, <1>5 DEF Stands, Late, LateState
<1> QED BY <1>2, <1>6, HelpStep

\* It only goes on to another step.
LEMMA LateThen ==
    ASSUME HelpInv, NEW c \in Call, help[c].at \in Late, NEW at \in Late, HelpThen(c, at),
           at \in {"end", "move"} => help[c].what = "pause" \/ help[c].at = "end",
           at \in {"save", "update"} => help[c].what # "pause"
    PROVE  \E s \in LateState :
               /\ help' = [help EXCEPT ![c] = s]
               /\ s.at = at /\ s.i = help[c].i /\ s.active = help[c].active /\ Written(s)
<1>1. help[c] \in LateState /\ Written(help[c])
    BY HelpIs
<1>2. PICK s : s = [help[c] EXCEPT !.at = at]
    OBVIOUS
<1>3. /\ s \in LateState /\ s.at = at /\ s.i = help[c].i /\ s.active = help[c].active
      /\ s.what = help[c].what /\ s.updatedSaved = help[c].updatedSaved
    BY <1>1, <1>2 DEF LateState
<1>4. Written(s)
    BY <1>1, <1>3 DEF Written
<1>5. help' = [help EXCEPT ![c] = s]
    BY <1>2, ThenStands
<1> QED BY <1>3, <1>4, <1>5

\* The same, where the sessions are only read.
LEMMA LateReads ==
    ASSUME HelpInv, NEW c \in Call, help[c].at \in Late \ {"move"}, NEW at \in Late,
           HelpThen(c, at), UNCHANGED <<tx, session>>,
           at \in {"end", "move"} => help[c].what = "pause" \/ help[c].at = "end",
           at \in {"save", "update"} => help[c].what # "pause",
           at \in {"save", "update", "move"} => Work(help[c].i) \in Resp,
           at = "move" => ~help[c].active
    PROVE  HelpInv'
<1>1. /\ session' \in Seq(GuidedApplicationSession)
      /\ Later(session, session') /\ Consents(session')
    BY SessionsSame
<1>2. session[help[c].i].active => help[c].active
    BY DEF HelpInv, Stands, Late
<1>3. PICK s \in LateState :
          /\ help' = [help EXCEPT ![c] = s]
          /\ s.at = at /\ s.i = help[c].i /\ s.active = help[c].active /\ Written(s)
    BY LateThen
<1> QED BY <1>1, <1>2, <1>3, LateGoes

LEMMA LateDone ==
    ASSUME HelpInv, NEW c \in Call, help[c].at \in Late \ {"move"}, HelpDone(c),
           UNCHANGED <<tx, session>>
    PROVE  HelpInv'
<1>1. tx'[c] = HelpTables!Idle
    BY NoneOpen DEF Late
<1> QED BY <1>1, HelpEnds

LEMMA WorkIs ==
    ASSUME HelpInv, NEW c \in Call, help[c].at \in Late
    PROVE  Work(help[c].i) \in Resp \cup {NoResp}
<1>1. PICK i \in DOMAIN session : i = help[c].i
    BY HelpIs
<1>2. session[i] \in GuidedApplicationSession
    BY DEF HelpInv
<1> QED BY <1>1, <1>2 DEF Work, GuidedApplicationSession

LEMMA HelpReadInv ==
    ASSUME HelpInv, NEW c \in Call, NEW i \in DOMAIN session,
           NEW what \in (PeopleApplicationOutcome \cap StatusInUse) \cup {"pause"},
           HelpRead(c, i, what)
    PROVE  HelpInv'
<1>1. /\ help[c] = Idle /\ UNCHANGED <<tx, session>>
    BY DEF HelpRead, ledgerVars
<1>2. tx[c] = HelpTables!Idle
    BY <1>1, NoneOpen DEF Idle
<1>3. i \in Nat /\ session[i].active \in BOOLEAN
  <2>1. session \in Seq(GuidedApplicationSession)
      BY DEF HelpInv
  <2>2. i \in Nat /\ session[i] \in GuidedApplicationSession
      BY <2>1
  <2> QED BY <2>2 DEF GuidedApplicationSession
<1>4. PICK s : s = [at |-> "bound", what |-> what, i |-> i, active |-> session[i].active,
                    updatedSaved |-> NotSaved]
    OBVIOUS
<1>5. s \in HelpState /\ s.at = "bound" /\ s.i = i /\ s.active = session[i].active
    BY <1>3, <1>4 DEF HelpState, LateState, Late
<1>6. Stands(s, session, tx[c])
    BY <1>2, <1>5 DEF Stands, Written, Late
<1>7. help' = [help EXCEPT ![c] = s]
    BY <1>4 DEF HelpRead, HelpGoto
<1> QED BY <1>1, <1>5, <1>6, <1>7, HelpGoes

LEMMA HelpBoundInv ==
    ASSUME HelpInv, NEW c \in Call, HelpBound(c)
    PROVE  HelpInv'
<1>1. /\ help[c].at \in Late \ {"move"} /\ UNCHANGED <<tx, session>>
      /\ Work(help[c].i) \in Resp \cup {NoResp}
    BY WorkIs DEF HelpBound, ledgerVars, Late
<1>2. ASSUME HelpDone(c) PROVE HelpInv'
    BY <1>1, <1>2, LateDone
<1>3. ~Closing(c) => help[c].what = "pause"
    BY <1>1, HelpIs DEF Closing, LateState
<1>4. ASSUME HelpThen(c, "end"), ~Closing(c) PROVE HelpInv'
    BY <1>1, <1>3, <1>4, LateReads DEF Late
<1>5. ASSUME HelpThen(c, "save"), Closing(c), Work(help[c].i) # NoResp PROVE HelpInv'
  <2>1. help[c].what # "pause"
      BY <1>5 DEF Closing, PeopleApplicationOutcome
  <2> QED BY <1>1, <1>5, <2>1, LateReads DEF Late
<1>6. ASSUME HelpThen(c, "move"), ~Closing(c), Work(help[c].i) # NoResp, ~help[c].active
      PROVE  HelpInv'
    BY <1>1, <1>3, <1>6, LateReads DEF Late
<1> QED BY <1>2, <1>4, <1>5, <1>6 DEF HelpBound

LEMMA HelpSaveInv ==
    ASSUME HelpInv, NEW c \in Call, HelpSave(c)
    PROVE  HelpInv'
<1>1. /\ help[c].at \in Late \ {"move"} /\ UNCHANGED <<tx, session>>
      /\ Work(help[c].i) \in Resp /\ help[c].what # "pause"
    BY HelpIs DEF HelpSave, ledgerVars, Late, Written
<1> QED BY <1>1, LateReads DEF HelpSave, Late

LEMMA HelpUpdateInv ==
    ASSUME HelpInv, NEW c \in Call, HelpUpdate(c)
    PROVE  HelpInv'
<1>1. /\ help[c].at \in Late \ {"move"} /\ UNCHANGED <<tx, session>>
      /\ Work(help[c].i) \in Resp
      /\ help[c] \in LateState /\ Stands(help[c], session, tx[c])
    BY HelpIs DEF HelpUpdate, ledgerVars, Late, HelpInv
<1>2. ASSUME HelpDone(c) PROVE HelpInv'
    BY <1>1, <1>2, LateDone
<1>3. PICK s : s = [help[c] EXCEPT !.at = IF help[c].active THEN "end" ELSE "move",
                                  !.updatedSaved = help[c].what]
    OBVIOUS
<1>4. ASSUME help' = [help EXCEPT ![c] = s], help[c].what # "pause" PROVE HelpInv'
  <2>1. /\ s \in LateState /\ s.i = help[c].i /\ s.active = help[c].active
        /\ s.at = "move" => ~help[c].active
        /\ Written(s)
      BY <1>1, <1>3, <1>4 DEF LateState, Late, Written
  <2>2. /\ session' \in Seq(GuidedApplicationSession)
        /\ Later(session, session') /\ Consents(session')
      BY <1>1, SessionsSame
  <2>3. s.at = "move" => ~session'[help[c].i].active
      BY <1>1, <2>1 DEF Stands
  <2> QED BY <1>1, <1>4, <2>1, <2>2, <2>3, LateGoes
<1>5. help[c].what # "pause"
    BY <1>1, HelpIs DEF Written, HelpUpdate
<1> QED BY <1>2, <1>3, <1>4, <1>5 DEF HelpUpdate, HelpGoto

LEMMA HelpEndInv ==
    ASSUME HelpInv, NEW c \in Call, HelpEnd(c)
    PROVE  HelpInv'
<1>1. /\ help[c].at \in Late \ {"move"} /\ UNCHANGED tx
      /\ Work(help[c].i) \in Resp \cup {NoResp}
    BY WorkIs DEF HelpEnd, ledgerVars, Late
<1>2. PICK i \in DOMAIN session : i = help[c].i
    BY <1>1, HelpIs
<1>3. ASSUME UNCHANGED session, HelpDone(c) PROVE HelpInv'
    BY <1>1, <1>3, LateDone
<1>4. ASSUME End(help[c].i) PROVE HelpInv'
  <2>1. /\ session' \in Seq(GuidedApplicationSession)
        /\ Later(session, session') /\ Consents(session')
        /\ ~session'[help[c].i].active
      BY <1>2, <1>4, SessionEnded
  <2>2. CASE HelpDone(c)
    <3>1. tx'[c] = HelpTables!Idle
        BY <1>1, NoneOpen DEF Late
    <3> QED BY <1>1, <2>1, <2>2, <3>1, IdleStands, HelpStep DEF HelpDone, HelpGoto
  <2>3. CASE HelpThen(c, "move") /\ Work(help[c].i) # NoResp
    <3>1. PICK s \in LateState :
              /\ help' = [help EXCEPT ![c] = s]
              /\ s.at = "move" /\ s.i = help[c].i /\ s.active = help[c].active /\ Written(s)
        BY <1>1, <2>3, LateThen DEF HelpEnd, Late
    <3> QED BY <1>1, <2>1, <2>3, <3>1, LateGoes
  <2> QED BY <1>4, <2>2, <2>3, <1>3 DEF HelpEnd
<1> QED BY <1>3, <1>4 DEF HelpEnd

LEMMA HelpMoveReadInv ==
    ASSUME HelpInv, HelpTables!IInv, NEW c \in Call, HelpMoveRead(c)
    PROVE  HelpInv'
<1>1. /\ help[c].at = "move" /\ UNCHANGED session /\ Stands(help[c], session, tx[c])
    BY DEF HelpMoveRead, HelpInv
<1>2. PICK op, settled : HelpLedger!ReadCurrent(c, HelpWork(c), op, settled)
    BY DEF HelpMoveRead, HelpLedger!CompleteWithEvidenceRead, HelpLedger!MarkWaitingOnUserRead
<1>3. OwnTx(c)
    BY <1>2, LedgerOwnTx DEF HelpLedger!ReadCurrent
<1>4. tx \in [Call -> HelpTables!Creation \cup HelpTables!Move \cup {HelpTables!Idle}]
    BY DEF HelpTables!IInv, HelpTables!TypeOK
<1>5. tx'[c] = HelpLedger!Idle \/ tx'[c].r = HelpWork(c)
    BY <1>2, <1>4 DEF HelpLedger!ReadCurrent, HelpLedger!Return, HelpLedger!Proceed
<1>6. HelpLedger!Idle = HelpTables!Idle
    BY SameHelpLedger
<1>7. CASE tx'[c] = HelpLedger!Idle
  <2>1. HelpDone(c)
      BY <1>7 DEF HelpMoveRead
  <2> QED BY <1>1, <1>3, <1>6, <1>7, <2>1, HelpEnds DEF OwnTx
<1>8. CASE tx'[c] # HelpLedger!Idle
  <2>1. PICK s \in HelpState : s = help[c]
      BY HelpIs
  <2>2. help' = [help EXCEPT ![c] = s]
      BY <1>8, <2>1 DEF HelpMoveRead, HelpInv
  <2>3. Stands(s, session', tx'[c])
      BY <1>1, <1>5, <1>8, <2>1 DEF Stands, HelpWork, Work, Late
  <2> QED BY <1>1, <1>3, <2>2, <2>3, SessionsSame, HelpStep DEF OwnTx
<1> QED BY <1>7, <1>8

LEMMA HelpMoveWriteInv ==
    ASSUME HelpInv, HelpTables!IInv, NEW c \in Call, HelpMoveWrite(c)
    PROVE  HelpInv'
<1>1. PICK result : HelpLedger!Return(c, result)
    BY DEF HelpMoveWrite, HelpLedger!CompleteWithEvidenceWrite,
           HelpLedger!MarkWaitingOnUserWrite, HelpLedger!GuardedUpdate
<1>2. OwnTx(c) /\ tx'[c] = HelpTables!Idle
    BY <1>1, LedgerOwnTx, SameHelpLedger
    DEF HelpLedger!Return, HelpTables!IInv, HelpTables!TypeOK
<1> QED BY <1>2, HelpEnds DEF HelpMoveWrite, OwnTx

LEMMA FailInv ==
    ASSUME HelpInv, HelpTables!IInv, NEW c \in Call, Fail(c)
    PROVE  HelpInv'
<1>1. UNCHANGED session /\ HelpDone(c)
    BY DEF Fail
<1>2. OwnTx(c) /\ tx'[c] = HelpTables!Idle
  <2>1. CASE HelpLedger!Abandon(c)
      BY <2>1, LedgerOwnTx, SameHelpLedger
      DEF HelpLedger!Abandon, HelpLedger!Return, HelpTables!IInv, HelpTables!TypeOK
  <2>2. CASE tx[c] = HelpLedger!Idle /\ UNCHANGED ledgerVars
      BY <2>2, SameHelpLedger DEF ledgerVars, OwnTx
  <2> QED BY <2>1, <2>2 DEF Fail
<1> QED BY <1>1, <1>2, HelpEnds DEF OwnTx

\* The sessions change under the calls.
LEMMA HelpStill ==
    ASSUME HelpInv, UNCHANGED <<help, tx>>, session' \in Seq(GuidedApplicationSession),
           Later(session, session'), Consents(session')
    PROVE  HelpInv'
<1>1. ASSUME NEW d \in Call PROVE Stands(help'[d], session', tx'[d])
  <2>1. Stands(help[d], session, tx[d])
      BY DEF HelpInv
  <2> QED BY <2>1, StandsLater
<1> QED BY <1>1 DEF HelpInv, Consents, ConsentEndsWithSession

LEMMA SetConsentInv ==
    ASSUME HelpInv, NEW i \in DOMAIN session, NEW granted \in BOOLEAN, SetConsent(i, granted)
    PROVE  HelpInv'
<1>1. PICK e : e = [session[i] EXCEPT !.consent = granted]
    OBVIOUS
<1>2. session[i] \in GuidedApplicationSession
    BY DEF HelpInv
<1>3. /\ e \in GuidedApplicationSession /\ e.responsibility = session[i].responsibility
      /\ e.active = session[i].active
    BY <1>1, <1>2 DEF GuidedApplicationSession
<1>4. session' = [session EXCEPT ![i] = e] /\ session[i].active /\ UNCHANGED <<help, tx>>
    BY <1>1 DEF SetConsent, ledgerVars
<1> QED BY <1>3, <1>4, SessionWritten, HelpStill

LEMMA EndSessionInv ==
    ASSUME HelpInv, NEW i \in DOMAIN session, EndSession(i)
    PROVE  HelpInv'
BY SessionEnded, HelpStill DEF EndSession, ledgerVars

LEMMA TrackInv == ASSUME HelpInv, NEW status, Track(status) PROVE HelpInv'
BY SessionsSame, HelpStill DEF Track, ledgerVars

LEMMA HelpInitial == HelpInit => HelpIInv
<1> SUFFICES ASSUME HelpInit PROVE HelpIInv
    OBVIOUS
<1>1. HelpTables!Init
    BY SameHelpLedger DEF HelpInit
<1>2. HelpTables!IInv
    BY <1>1, HelpTables!InitInv, HelpTablesAssumptions
<1>3. \A c \in Call : help[c] = Idle /\ tx[c] = HelpTables!Idle
    BY SameHelpLedger DEF HelpInit, HelpLedger!Init
<1>4. help \in [Call -> HelpState] /\ \A c \in Call : Stands(help[c], session, tx[c])
    BY <1>3, IdleStands DEF HelpInit
<1> QED BY <1>2, <1>4 DEF HelpInit, HelpIInv, HelpInv, ConsentEndsWithSession

LEMMA HelpIInvNext == HelpIInv /\ [HelpNext]_helpVars => HelpIInv'
<1> SUFFICES ASSUME HelpIInv, [HelpNext]_helpVars PROVE HelpIInv'
    OBVIOUS
<1>1. HelpInv /\ HelpTables!IInv /\ [HelpTables!Next]_(HelpTables!vars)
    BY StepsOfHelpTables DEF HelpIInv
<1>2. HelpTables!IInv'
    BY <1>1, HelpTables!NextInv, HelpTablesAssumptions
<1>3. CASE UNCHANGED helpVars
  <2>1. HelpInv'
      BY <1>1, <1>3, SessionsSame, HelpStill DEF helpVars, ledgerVars
  <2> QED BY <1>2, <2>1 DEF HelpIInv
<1>4. HelpNext => HelpInv'
    BY <1>1, <1>2, StartFindInv, StartResumeInv, StartCreateInv, SessionFindInv,
       SessionReplaceInv, SessionOpenInv, HelpReadInv, HelpBoundInv, HelpSaveInv,
       HelpUpdateInv, HelpEndInv, HelpMoveReadInv, HelpMoveWriteInv, FailInv,
       EndSessionInv, SetConsentInv, TrackInv DEF HelpNext
<1> QED BY <1>2, <1>3, <1>4 DEF HelpIInv

LEMMA HelpInvariance == HelpSpec => []HelpIInv
BY HelpInitial, HelpIInvNext, PTL DEF HelpSpec

\* Whoever ends a session, and whenever consent was asked for, the consent to
\* share the screen does not outlive it.
THEOREM ConsentEnds == HelpSpec => []ConsentEndsWithSession
<1>1. HelpIInv => ConsentEndsWithSession
    BY DEF HelpIInv, HelpInv
<1> QED BY <1>1, HelpInvariance, PTL

LEMMA ThenGoes ==
    ASSUME HelpInv, NEW c \in Call, NEW at, HelpThen(c, at)
    PROVE  help'[c].at = at /\ (help[c].at \in Late => help'[c].what = help[c].what)
<1>1. help[c] \in HelpState /\ help'[c] = [help[c] EXCEPT !.at = at]
    BY DEF HelpThen, HelpInv
<1> QED BY <1>1 DEF HelpState, LateState, Idle, Late

\* The steps that bring a request to the end of its session or to its move.
LEMMA OnlyThese ==
    ASSUME HelpInv, HelpNext, NEW c \in Call, help'[c] # help[c],
           help'[c].at \in {"end", "move"}
    PROVE  HelpBound(c) \/ HelpUpdate(c) \/ HelpEnd(c)
<1>1. help \in [Call -> HelpState] /\ help' # help
    BY DEF HelpInv
<1>2. ASSUME NEW d \in Call, d # c, NEW s, help' = [help EXCEPT ![d] = s] PROVE FALSE
    BY <1>1, <1>2
<1>3. ASSUME NEW d \in Call, NEW s, HelpGoto(d, s), s.at \notin {"end", "move"} PROVE FALSE
    BY <1>1, <1>2, <1>3 DEF HelpGoto
<1>4. ASSUME NEW d \in Call, NEW at, HelpThen(d, at), at \notin {"end", "move"} PROVE FALSE
  <2>1. d = c
      BY <1>2, <1>4, ThenStands
  <2> QED BY <1>4, <2>1, ThenGoes
<1>5. ASSUME NEW d \in Call, HelpDone(d) PROVE FALSE
    BY <1>3, <1>5 DEF HelpDone, Idle
<1>6. ASSUME NEW d \in Call, NEW k \in Conversation, StartFind(d, k) \/ StartDirect(d, k)
      PROVE  FALSE
  <2>1. ASSUME NEW r, HelpGoto(d, [at |-> "resume", r |-> r, conversation |-> k]) PROVE FALSE
      BY <1>3, <2>1
  <2>2. ASSUME HelpGoto(d, [at |-> "create", conversation |-> k]) PROVE FALSE
      BY <1>3, <2>2
  <2>3. ASSUME HelpGoto(d, [at |-> "session", r |-> NoResp, conversation |-> k]) PROVE FALSE
      BY <1>3, <2>3
  <2> QED BY <1>6, <2>1, <2>2, <2>3 DEF StartFind, StartDirect
<1>7. ASSUME NEW d \in Call, StartResume(d) PROVE FALSE
    BY <1>1, <1>4, <1>5, <1>7 DEF StartResume
<1>8. ASSUME NEW d \in Call, StartCreate(d) PROVE FALSE
  <2>1. HelpDone(d) \/ \E s : HelpGoto(d, s) /\ s.at = "session"
      BY <1>1, <1>8 DEF StartCreate
  <2> QED BY <1>3, <1>5, <2>1
<1>9. ASSUME NEW d \in Call, SessionFind(d) PROVE FALSE
  <2>1. ASSUME NEW i, HelpGoto(d, [at |-> "replace", i |-> i, r |-> help[d].r,
                                   conversation |-> help[d].conversation])
        PROVE  FALSE
      BY <1>3, <2>1
  <2> QED BY <1>4, <1>5, <1>9, <2>1 DEF SessionFind
<1>10. ASSUME NEW d \in Call, SessionReplace(d) PROVE FALSE
  <2>1. HelpDone(d) \/ \E s : HelpGoto(d, s) /\ s.at = "open"
      BY <1>10 DEF SessionReplace
  <2> QED BY <1>3, <1>5, <2>1
<1>11. ASSUME NEW d \in Call, SessionOpen(d) \/ HelpMoveRead(d) \/ HelpMoveWrite(d) \/ Fail(d)
       PROVE  FALSE
    BY <1>1, <1>5, <1>11 DEF SessionOpen, HelpMoveRead, HelpMoveWrite, Fail
<1>12. ASSUME NEW d \in Call, NEW i \in DOMAIN session,
              NEW what \in (PeopleApplicationOutcome \cap StatusInUse) \cup {"pause"},
              HelpRead(d, i, what)
       PROVE  FALSE
  <2>1. \E s : HelpGoto(d, s) /\ s.at = "bound"
      BY <1>12 DEF HelpRead
  <2> QED BY <1>3, <2>1
<1>13. ASSUME NEW d \in Call, HelpSave(d) PROVE FALSE
    BY <1>4, <1>13 DEF HelpSave
<1>14. ASSUME NEW d \in Call, d # c, HelpBound(d) \/ HelpUpdate(d) \/ HelpEnd(d) PROVE FALSE
  <2>1. \E s : help' = [help EXCEPT ![d] = s]
      BY <1>14, ThenStands DEF HelpBound, HelpUpdate, HelpEnd, HelpDone, HelpGoto
  <2> QED BY <1>2, <1>14, <2>1
<1>15. UNCHANGED help => FALSE
    BY <1>1
<1> QED BY <1>6, <1>7, <1>8, <1>9, <1>10, <1>11, <1>12, <1>13, <1>14, <1>15
    DEF HelpNext, EndSession, SetConsent, Track

\* A pause or an outcome moves the Responsibility only once its session is ended,
\* and an outcome only once this request has written it to the saved opportunity:
\* the evidence cites what was written.
THEOREM PrivacyComesFirst == HelpSpec => PrivacyFirst
<1> DEFINE Moves(c) ==
               HelpMoveWrite(c) /\ row' # row =>
                   /\ ~session[help[c].i].active
                   /\ Closing(c) => help[c].updatedSaved = help[c].what
           Updates(c) == ~HasOutcome(c) /\ HasOutcome(c)' => saved' = help'[c].what
<1>1. ASSUME HelpIInv, NEW c \in Call PROVE Moves(c)
  <2>1. SUFFICES ASSUME HelpMoveWrite(c) PROVE Moves(c)
      OBVIOUS
  <2>2. help[c].at = "move" /\ Stands(help[c], session, tx[c])
      BY <1>1, <2>1 DEF HelpIInv, HelpInv, HelpMoveWrite
  <2>3. ~session[help[c].i].active /\ Written(help[c])
      BY <2>2 DEF Stands, Late
  <2> QED BY <2>2, <2>3 DEF Written, Closing, PeopleApplicationOutcome
<1>2. ASSUME HelpIInv, HelpNext, NEW c \in Call PROVE Updates(c)
  <2>1. SUFFICES ASSUME ~HasOutcome(c), HasOutcome(c)' PROVE saved' = help'[c].what
      OBVIOUS
  <2>2. help'[c].at \in {"end", "move"} /\ help'[c].what \in PeopleApplicationOutcome
      BY <2>1 DEF HasOutcome, Closing
  <2>3. help'[c] # help[c] /\ help \in [Call -> HelpState] /\ HelpInv
      BY <1>2, <2>1 DEF HasOutcome, Closing, HelpIInv, HelpInv
  <2>4. CASE HelpUpdate(c)
    <3>1. help[c] \in LateState /\ help'[c] # Idle
        BY <2>2, <2>3, <2>4, HelpIs DEF HelpUpdate, Idle, Late
    <3>2. PICK at : help'[c] = [help[c] EXCEPT !.at = at, !.updatedSaved = saved']
        BY <2>3, <2>4, <3>1 DEF HelpUpdate, HelpDone, HelpGoto
    <3>3. saved' = help[c].what
        BY <2>3, <2>4, <3>1 DEF HelpUpdate, HelpDone, HelpGoto
    <3> QED BY <3>1, <3>2, <3>3 DEF LateState
  <2>5. CASE HelpBound(c) \/ HelpEnd(c)
    <3>1. PICK at : HelpThen(c, at)
        BY <2>2, <2>3, <2>5 DEF HelpBound, HelpEnd, HelpDone, HelpGoto, Idle
    <3>2. help'[c].at = at /\ help'[c].what = help[c].what
        BY <2>3, <2>5, <3>1, ThenGoes DEF HelpBound, HelpEnd, Late
    <3>3. Closing(c)
        BY <2>2, <3>2 DEF Closing
    <3>4. HelpBound(c) /\ HelpThen(c, "save")
        BY <2>1, <2>2, <2>3, <2>5, <3>3
        DEF HasOutcome, HelpBound, HelpEnd, HelpDone, HelpGoto, Idle
    <3> QED BY <2>2, <2>3, <3>4, ThenGoes
  <2> QED BY <1>2, <2>2, <2>3, <2>4, <2>5, OnlyThese
<1>3. HelpIInv /\ [HelpNext]_helpVars =>
        [\A c \in Call :
          /\ HelpMoveWrite(c) /\ row' # row =>
                /\ ~session[help[c].i].active
                /\ Closing(c) => help[c].updatedSaved = help[c].what
          /\ ~HasOutcome(c) /\ HasOutcome(c)' => saved' = help'[c].what]_helpVars
    BY <1>1, <1>2
<1> QED BY <1>3, HelpInvariance, PTL DEF HelpSpec, PrivacyFirst

\* What a session moves is the Responsibility it was opened for.
THEOREM SessionsMoveTheirWork == HelpSpec => SessionMovesItsWork
<1> DEFINE Moves == \A c \in Call, r \in Resp :
                       help[c].at = "move" /\ help'[c] = Idle /\ row'[r] # row[r] =>
                           r = session[help[c].i].responsibility
<1>1. ASSUME HelpIInv, [HelpNext]_helpVars, NEW c \in Call, NEW r \in Resp,
             help[c].at = "move", help'[c] = Idle, row'[r] # row[r]
      PROVE  r = session[help[c].i].responsibility
  <2>1. help \in [Call -> HelpState] /\ help'[c] # help[c]
      BY <1>1 DEF HelpIInv, HelpInv, Idle
  <2>2. row \in [Resp -> HelpTables!Row \cup {HelpTables!NoRow}]
      BY <1>1 DEF HelpIInv, HelpTables!IInv, HelpTables!TypeOK
  <2>3. row' # row /\ help' # help
      BY <1>1, <2>1
  <2>4. \E d \in Call : StartResume(d) \/ StartCreate(d) \/ HelpMoveWrite(d)
    <3>1. UNCHANGED row \/ UNCHANGED help \/
          \E d \in Call : StartResume(d) \/ StartCreate(d) \/ HelpMoveWrite(d)
        BY <1>1 DEF HelpNext, helpVars, ledgerVars, StartFind, StartDirect, SessionFind,
               SessionReplace, SessionOpen, HelpRead, HelpBound, HelpSave, HelpUpdate, HelpEnd,
               HelpMoveRead, HelpLedger!CompleteWithEvidenceRead,
               HelpLedger!MarkWaitingOnUserRead, HelpLedger!ReadCurrent, Fail,
               HelpLedger!Abandon, EndSession, SetConsent, Track
    <3> QED BY <2>3, <3>1
  <2>5. PICK d \in Call : StartResume(d) \/ StartCreate(d) \/ HelpMoveWrite(d)
      BY <2>4
  <2>6. d = c
    <3>1. UNCHANGED help \/ \E s : help' = [help EXCEPT ![d] = s]
        BY <2>1, <2>5, ThenStands, <1>1
        DEF StartResume, StartCreate, HelpMoveWrite, HelpDone, HelpGoto, HelpIInv
    <3> QED BY <2>1, <3>1
  <2>7. HelpMoveWrite(c)
      BY <1>1, <2>5, <2>6 DEF StartResume, StartCreate
  <2>8. tx[c] # HelpTables!Idle
      BY <2>7 DEF HelpMoveWrite, HelpLedger!CompleteWithEvidenceWrite,
                  HelpLedger!MarkWaitingOnUserWrite, HelpTables!Idle
  <2>9. tx[c].r = session[help[c].i].responsibility
      BY <1>1, <2>8 DEF HelpIInv, HelpInv, Stands
  <2>10. \E from, to, events : HelpLedger!GuardedUpdate(c, from, to, events)
      BY <2>7 DEF HelpMoveWrite, HelpLedger!CompleteWithEvidenceWrite,
                  HelpLedger!MarkWaitingOnUserWrite
  <2>11. r = tx[c].r
      BY <1>1, <2>2, <2>10 DEF HelpLedger!GuardedUpdate
  <2> QED BY <2>9, <2>11
<1>2. HelpIInv /\ [HelpNext]_helpVars => [Moves]_helpVars
    BY <1>1
<1> QED BY <1>2, HelpInvariance, PTL DEF HelpSpec, SessionMovesItsWork

\* Every step of the service is a step of the ledger or none.
THEOREM ApplicationsImplementLedger == HelpSpec => HelpImplementsLedger
<1>1. HelpInit => HelpLedger!Init
    BY DEF HelpInit
<1>2. HelpIInv /\ [HelpNext]_helpVars => [HelpLedger!Next]_(HelpLedger!vars)
    BY StepsOfHelp DEF HelpIInv
<1> QED BY <1>1, <1>2, HelpInvariance, PTL DEF HelpSpec, HelpImplementsLedger, HelpLedger!Spec

\* The help with an application is carried until its outcome is evidenced, though
\* a request may fail between any two of its writes.
THEOREM ApplicationsAreCarried ==
    HelpSpec => /\ []HelpTables!TablesHold
                /\ HelpTables!TerminalIsFinal
                /\ HelpTables!ImplementsPromise
<1>1. HelpIInv => HelpTables!IInv /\ HelpTables!TablesHold
    BY HelpTables!InvHolds, HelpTablesAssumptions DEF HelpIInv
<1>2. HelpInit => HelpTables!Init
    BY SameHelpLedger DEF HelpInit
<1>3. HelpIInv /\ [HelpNext]_helpVars => [HelpTables!Next]_(HelpTables!vars)
    BY StepsOfHelpTables DEF HelpIInv
<1>4. HelpInit => HelpTables!Promise!Init
    BY <1>2, HelpTables!InitPromise, HelpTablesAssumptions
<1>5. HelpIInv /\ [HelpNext]_helpVars => [HelpTables!Promise!Next]_(HelpTables!Promise!vars)
    BY <1>1, <1>3, HelpTables!StepPromise, HelpTablesAssumptions
<1>6. HelpIInv /\ [HelpNext]_helpVars =>
        [\A r \in Resp : row[r].status \in HelpTables!Terminal =>
            row'[r] = row[r] /\ ledger'[r] = ledger[r]]_(HelpTables!vars)
    BY <1>1, <1>3, HelpTables!TerminalStep, HelpTablesAssumptions
<1> QED BY <1>1, <1>4, <1>5, <1>6, HelpInvariance, PTL
    DEF HelpSpec, HelpTables!TerminalIsFinal, HelpTables!ImplementsPromise,
        HelpTables!Promise!Spec
===============================================================================
