---------------------------- MODULE NeedAcceptance ----------------------------
(***************************************************************************)
(* ResponsibilitiesService over the ledger: a member's acceptance of one   *)
(* StatedNeed of a conversation, its retries, the acceptances of other     *)
(* needs of the same conversation, and the completions that close what was *)
(* accepted; the decision about an opportunity, and its reconciliation     *)
(* with what the member tracks.  The help with an application, which goes  *)
(* with guide sessions, is in ApplicationHelp.                             *)
(*                                                                         *)
(* The newest row of the conversation is read first and decides; the       *)
(* createAccepted that follows reads and writes later, so other calls may  *)
(* create or close a row in between.  The answer is compared with the      *)
(* request once more.                                                      *)
(***************************************************************************)
EXTENDS LedgerTables, Naturals, Sequences

CONSTANTS
    NeedConversation,  \* conversations of the member
    Need,              \* stated needs
    Decision,          \* the opportunity, as the origin of a decision about it
    Record,            \* source records
    Decided,           \* those that are a tracking status which decides
    NoRecord           \* the NULL source record

ASSUME DecidedAssumption == Decided \subseteq Record
ASSUME NullAssumption == NoRecord \notin Record
ASSUME DecisionAssumption == Decision \notin NeedConversation \cup Need

VARIABLES
    tracking,  \* the tracking status of the SavedOpportunity: decided or not
    born,      \* the rows in createdAt order
    ask,       \* the request each call is serving
    answer     \* what the last acceptance of each call was answered

needVars == <<ledgerVars, tracking, born, ask, answer>>

NeedLedger == INSTANCE ResponsibilityLedger WITH
    Slot <- NeedConversation \cup {Decision}, NeedSlot <- NeedConversation, GuidanceSlot <- {},
    Provenance <- Need \cup {Decision}

NoAsk == [at |-> "nothing"]
NoAnswer == [kind |-> "none"]

(* Mutant: the rows are ordered the other way. *)
OldestIn(s) ==
    {born[i] : i \in {k \in DOMAIN born :
        /\ row[born[k]].slot = s
        /\ \A j \in DOMAIN born : j < k => row[born[j]].slot # s}}

(* findLatestPersonalByConversationKind: no row, or the newest. *)
LatestIn(s) ==
    {born[i] : i \in {k \in DOMAIN born :
        /\ row[born[k]].slot = s
        /\ \A j \in DOMAIN born : j > k => row[born[j]].slot # s}}

NeedInit ==
    /\ NeedLedger!Init
    /\ tracking \in Decided \cup {NoRecord}
    /\ born = <<>>
    /\ ask = [c \in Call |-> NoAsk]
    /\ answer = [c \in Call |-> NoAnswer]

Respond(c, a) ==
    /\ ask' = [ask EXCEPT ![c] = NoAsk]
    /\ answer' = [answer EXCEPT ![c] = a]

Granted(r, n) == [kind |-> "row", r |-> r, need |-> n]
Refused == [kind |-> "conflict"]

(* The newest row is this need's, or another need's still open one, or     *)
(* nothing stands in the way of a new row.                                 *)
FindLatest(c, s, n) ==
    /\ ask[c] = NoAsk /\ tx[c] = NeedLedger!Idle
    /\ \/ \E r \in LatestIn(s) :
             row[r].prov = n /\ Respond(c, Granted(r, n))
       \/ \E r \in LatestIn(s) :
             row[r].prov # n /\ NeedLedger!IsOpen(r) /\ Respond(c, Refused)
       \/ /\ \A r \in LatestIn(s) : row[r].prov # n /\ ~NeedLedger!IsOpen(r)
          /\ ask' = [ask EXCEPT ![c] = [at |-> "create", conversation |-> s, need |-> n]]
          /\ answer' = [answer EXCEPT ![c] = NoAnswer]
    /\ UNCHANGED <<ledgerVars, tracking, born>>

\* accept: the open decision about the opportunity, or a new one.
AcceptDecision(c) ==
    /\ ask[c] = NoAsk /\ tx[c] = NeedLedger!Idle
    /\ NeedLedger!OpenIn(Decision) = {}
    /\ ask' = [ask EXCEPT ![c] =
          [at |-> "create", conversation |-> Decision, need |-> Decision]]
    /\ answer' = [answer EXCEPT ![c] = NoAnswer]
    /\ UNCHANGED <<ledgerVars, tracking, born>>

CreateFind(c) ==
    /\ ask[c].at = "create"
    /\ NeedLedger!CreateAcceptedFind(c, ask[c].conversation, ask[c].need)
    /\ ask' = [ask EXCEPT ![c].at = "check"]
    /\ UNCHANGED <<tracking, born, answer>>

CreateInsert(c) ==
    /\ NeedLedger!CreateAcceptedInsert(c)
    /\ born' = IF tx'[c] = NeedLedger!Idle THEN Append(born, reply'[c].r) ELSE born
    /\ UNCHANGED <<tracking, ask, answer>>

CreateRefind(c) ==
    /\ NeedLedger!CreateAcceptedRefind(c)
    /\ UNCHANGED <<tracking, born, ask, answer>>

(* Mutant: whatever row createAccepted returned is the answer. *)
CheckProvenanceTrusting(c) ==
    /\ ask[c].at = "check" /\ tx[c] = NeedLedger!Idle
    /\ \/ reply[c].kind = "row" /\ Respond(c, Granted(reply[c].r, ask[c].need))
       \/ reply[c].kind = "duplicateKey" /\ Respond(c, NoAnswer)
    /\ UNCHANGED <<ledgerVars, tracking, born>>

\* The row createAccepted returned may have been accepted for another need;
\* of an opportunity there is only one decision.
CheckProvenance(c) ==
    /\ ask[c].at = "check" /\ tx[c] = NeedLedger!Idle
    /\ \/ /\ reply[c].kind = "row"
          /\ row[reply[c].r].prov = ask[c].need
          /\ Respond(c, IF ask[c].need = Decision THEN NoAnswer
                        ELSE Granted(reply[c].r, ask[c].need))
       \/ /\ reply[c].kind = "row"
          /\ row[reply[c].r].prov # ask[c].need
          /\ Respond(c, Refused)
       \/ /\ reply[c].kind = "duplicateKey"
          /\ Respond(c, NoAnswer)
    /\ UNCHANGED <<ledgerVars, tracking, born>>

(* Mutant: the row is closed without its events. *)
CompleteSilently(c) ==
    /\ ask[c] = NoAsk
    /\ \E r \in Resp :
          NeedLedger!IsOpen(r) /\ row' = [row EXCEPT ![r].status = "COMPLETED"]
    /\ UNCHANGED <<ledger, tx, reply, tracking, born, ask, answer>>

\* completePersonalNeedWithEvidence: a call of its own.
Complete(c) ==
    /\ ask[c] = NoAsk
    /\ \/ \E r \in Resp : /\ NeedLedger!Exists(r) /\ row[r].slot \in NeedConversation
                         /\ NeedLedger!CompleteWithEvidenceRead(c, r)
       \/ \E src \in Record \ Decided : NeedLedger!CompleteWithEvidenceWrite(c, src)
    /\ UNCHANGED <<tracking, born, ask, answer>>

\* reconcile: an open decision only.
ReconcileRead(c, r) ==
    /\ ask[c] = NoAsk /\ tx[c] = NeedLedger!Idle
    /\ NeedLedger!IsOpen(r) /\ row[r].slot = Decision
    /\ ask' = [ask EXCEPT ![c] = [at |-> "reconcile", r |-> r, seen |-> row[r].status]]
    /\ UNCHANGED <<ledgerVars, tracking, born, answer>>

\* Without a decision the member is asked, unless they were; with one the
\* work is done.
ReconcileSaved(c) ==
    /\ ask[c].at = "reconcile"
    /\ ask' = [ask EXCEPT ![c] =
          IF tracking = NoRecord /\ @.seen = "WAITING_ON_USER" THEN NoAsk
          ELSE [at |-> "reconciling", r |-> @.r, saved |-> tracking]]
    /\ UNCHANGED <<ledgerVars, tracking, born, answer>>

ReconcileMove(c) ==
    /\ ask[c].at = "reconciling"
    /\ IF ask[c].saved = NoRecord
       THEN \/ NeedLedger!MarkWaitingOnUserRead(c, ask[c].r)
            \/ NeedLedger!MarkWaitingOnUserWrite(c)
       ELSE \/ NeedLedger!CompleteWithEvidenceRead(c, ask[c].r)
            \/ NeedLedger!CompleteWithEvidenceWrite(c, ask[c].saved)
    /\ ask' = IF tx'[c] = NeedLedger!Idle THEN [ask EXCEPT ![c] = NoAsk] ELSE ask
    /\ UNCHANGED <<tracking, born, answer>>

\* The member tracks the opportunity, or stops to.
ChangeTracking(s) ==
    /\ s # tracking
    /\ tracking' = s
    /\ UNCHANGED <<ledgerVars, born, ask, answer>>

(* The process serving the call dies. *)
NeedCrash(c) ==
    /\ \/ NeedLedger!Abandon(c)
       \/ ask[c] # NoAsk /\ tx[c] = NeedLedger!Idle /\ UNCHANGED ledgerVars
    /\ Respond(c, NoAnswer)
    /\ UNCHANGED <<tracking, born>>

NeedNext ==
    \/ \E c \in Call :
        \/ \E s \in NeedConversation, n \in Need : FindLatest(c, s, n)
        \/ AcceptDecision(c)
        \/ CreateFind(c)
        \/ CreateInsert(c)
        \/ CreateRefind(c)
        \/ CheckProvenance(c)
        \/ Complete(c)
        \/ \E r \in Resp : ReconcileRead(c, r)
        \/ ReconcileSaved(c)
        \/ ReconcileMove(c)
        \/ NeedCrash(c)
    \/ \E s \in Decided \cup {NoRecord} : ChangeTracking(s)

NeedSpec == NeedInit /\ [][NeedNext]_needVars

-----------------------------------------------------------------------------
(* Properties *)

\* A member is never handed the Responsibility of another need as the answer
\* to an acceptance, whoever won the race to create the row.
AnsweredForItsNeed ==
    \A c \in Call : answer[c].kind = "row" =>
        NeedLedger!Exists(answer[c].r) /\ row[answer[c].r].prov = answer[c].need

\* Of each conversation only the newest row can be open, and of the decisions
\* about the opportunity: the row the service decides on is the one the unique
\* index protects.
OnlyNewestIsOpen ==
    \A r \in Resp : NeedLedger!IsOpen(r) => r \in LatestIn(row[r].slot)

\* Accepting, retrying, completing and reconciling are behaviours of the
\* ledger: all that is proved of it holds here.
NeedImplementsLedger == NeedLedger!Spec

===============================================================================
