----------------------------- MODULE ApplicationHelp ----------------------------
(***************************************************************************)
(* Help with the application for one Opportunity: PeopleHelpService over   *)
(* the guide sessions (GuidedApplicationService), the member's saved       *)
(* opportunity (SavedOpportunitiesService) and the Responsibilities of     *)
(* kind OPPORTUNITY_APPLICATION_GUIDANCE.                                  *)
(*                                                                         *)
(* Nothing here is a transaction but the ledger's methods: a call is its   *)
(* reads and writes in turn, and fails between any two of them (Fail).  A  *)
(* read that only repeats the guard of the write after it is part of that  *)
(* write.  The frames of the screen and the checks of the destination are  *)
(* left out; a destination may have changed since a session was opened.    *)
(***************************************************************************)
EXTENDS LedgerTables, Naturals, Sequences

CONSTANTS
    NoResp,         \* the NULL responsibilityId of a direct session
    Conversation,   \* conversations of the member
    StatusInUse,    \* the tracking statuses of an instance
    MaxSessions     \* bound on the sessions

ASSUME NoRespAssumption == NoResp \notin Resp
ASSUME MaxSessionsAssumption == MaxSessions \in Nat
ASSUME StatusAssumption == "SAVED" \in StatusInUse

VARIABLES
    session,    \* the GuidedApplicationSession rows, in the order of their creation
    saved,      \* trackingStatus of the SavedOpportunity
    help        \* where each call stands, and what it has read

helpVars == <<ledgerVars, session, saved, help>>

PeopleApplicationOutcome == {"APPLIED", "NOT_INTERESTED"}
NotSaved == "none"

\* Evidence cites the tracking status of the one SavedOpportunity.
HelpLedger == INSTANCE ResponsibilityLedger WITH
    Slot <- {"guidance"}, NeedSlot <- {}, GuidanceSlot <- {"guidance"},
    Provenance <- {"opportunity"}, Record <- PeopleApplicationOutcome, NoRecord <- NotSaved

GuidedApplicationSession ==
    [conversation : Conversation, responsibility : Resp \cup {NoResp},
     active : BOOLEAN, consent : BOOLEAN]

Idle == [at |-> "idle"]

-----------------------------------------------------------------------------
HelpInit ==
    /\ HelpLedger!Init
    /\ session = <<>>
    /\ saved = NotSaved
    /\ help = [c \in Call |-> Idle]

HelpGoto(c, state) == help' = [help EXCEPT ![c] = state]
HelpThen(c, at) == help' = [help EXCEPT ![c].at = at]
HelpDone(c) == HelpGoto(c, Idle)

\* findActiveByConversation: none, or the newest.
ActiveIn(k) ==
    {i \in DOMAIN session :
        /\ session[i].active /\ session[i].conversation = k
        /\ \A j \in DOMAIN session :
              session[j].active /\ session[j].conversation = k => j <= i}

\* The status makes ending final, and ending revokes the consent.
End(i) == session' = [session EXCEPT ![i].active = FALSE, ![i].consent = FALSE]

-----------------------------------------------------------------------------
(* start: the Responsibility first, then the session *)

StartFind(c, k) ==
    /\ help[c] = Idle
    /\ \/ \E r \in HelpLedger!OpenIn("guidance") :
             HelpGoto(c, [at |-> "resume", r |-> r, conversation |-> k])
       \/ /\ HelpLedger!OpenIn("guidance") = {}
          /\ HelpGoto(c, [at |-> "create", conversation |-> k])
    /\ UNCHANGED <<ledgerVars, session, saved>>

\* The row that was found may have been paused or completed since.
StartResume(c) ==
    /\ help[c].at = "resume"
    /\ \/ HelpLedger!ResumeFromWaitingOnUserRead(c, help[c].r)
       \/ HelpLedger!ResumeFromWaitingOnUserWrite(c)
    /\ \/ tx'[c] # HelpLedger!Idle /\ UNCHANGED help
       \/ tx'[c] = HelpLedger!Idle /\ reply'[c].kind = "row" /\ HelpThen(c, "session")
       \/ tx'[c] = HelpLedger!Idle /\ reply'[c].kind # "row" /\ HelpDone(c)
    /\ UNCHANGED <<session, saved>>

StartCreate(c) ==
    /\ help[c].at = "create"
    /\ \/ HelpLedger!CreateAcceptedFind(c, "guidance", "opportunity")
       \/ HelpLedger!CreateAcceptedInsert(c) \/ HelpLedger!CreateAcceptedRefind(c)
    /\ \/ tx'[c] # HelpLedger!Idle /\ UNCHANGED help
       \/ /\ tx'[c] = HelpLedger!Idle /\ reply'[c].kind = "row"
          /\ HelpGoto(c, [at |-> "session", r |-> reply'[c].r,
                          conversation |-> help[c].conversation])
       \/ tx'[c] = HelpLedger!Idle /\ reply'[c].kind # "row" /\ HelpDone(c)
    /\ UNCHANGED <<session, saved>>

\* A session without a Responsibility, opened outside of People help.
StartDirect(c, k) ==
    /\ help[c] = Idle
    /\ HelpGoto(c, [at |-> "session", r |-> NoResp, conversation |-> k])
    /\ UNCHANGED <<ledgerVars, session, saved>>

\* The active session is kept if it has the same destination and serves this
\* Responsibility (any, for a direct start); else it makes room.
SessionFind(c) ==
    LET current == ActiveIn(help[c].conversation)
        matching == {i \in current : help[c].r \in {NoResp, session[i].responsibility}}
    IN /\ help[c].at = "session"
       /\ \/ matching # {} /\ HelpDone(c)
          \/ \E i \in current : HelpGoto(c, [at |-> "replace", i |-> i, r |-> help[c].r,
                                         conversation |-> help[c].conversation])
          \/ current = {} /\ HelpThen(c, "open")
       /\ UNCHANGED <<ledgerVars, session, saved>>

SessionReplace(c) ==
    /\ help[c].at = "replace"
    /\ IF session[help[c].i].active
       THEN /\ End(help[c].i)
            /\ HelpGoto(c, [at |-> "open", r |-> help[c].r,
                            conversation |-> help[c].conversation])
       ELSE HelpDone(c) /\ UNCHANGED session
    /\ UNCHANGED <<ledgerVars, saved>>

SessionOpen(c) ==
    /\ help[c].at = "open"
    /\ Len(session) < MaxSessions
    /\ session' = Append(session, [conversation |-> help[c].conversation,
            responsibility |-> help[c].r, active |-> TRUE, consent |-> FALSE])
    /\ HelpDone(c)
    /\ UNCHANGED <<ledgerVars, saved>>

-----------------------------------------------------------------------------
(* pause and complete, asked for by the session *)

Work(i) == session[i].responsibility

\* getOwnedForCoordination: the session, active or ended.
HelpRead(c, i, what) ==
    /\ help[c] = Idle
    /\ HelpGoto(c, [at |-> "bound", what |-> what, i |-> i, active |-> session[i].active,
                    updatedSaved |-> NotSaved])
    /\ UNCHANGED <<ledgerVars, session, saved>>

Closing(c) == help[c].what \in PeopleApplicationOutcome

(* Mutant: the Responsibility is moved before the outcome is saved and the
   session is ended. *)
HelpBoundMovingFirst(c) ==
    LET w == Work(help[c].i) IN
    /\ help[c].at = "bound" /\ w # NoResp
    /\ Closing(c) => row[w].status # "COMPLETED"
    /\ HelpThen(c, "move")
    /\ UNCHANGED <<ledgerVars, session, saved>>

\* getBoundResponsibility: an outcome needs one, and one that is complete is
\* only compared with; a pause ends the session in any case.
HelpBound(c) ==
    LET w == Work(help[c].i) IN
    /\ help[c].at = "bound"
    /\ \/ Closing(c) /\ w # NoResp /\ row[w].status # "COMPLETED" /\ HelpThen(c, "save")
       \/ Closing(c) /\ (w # NoResp => row[w].status = "COMPLETED") /\ HelpDone(c)
       \/ ~Closing(c) /\ help[c].active /\ HelpThen(c, "end")
       \/ ~Closing(c) /\ ~help[c].active /\ w # NoResp /\ HelpThen(c, "move")
       \/ ~Closing(c) /\ ~help[c].active /\ w = NoResp /\ HelpDone(c)
    /\ UNCHANGED <<ledgerVars, session, saved>>

\* The opportunity is saved if it was not; another save may win, and counts.
HelpSave(c) ==
    /\ help[c].at = "save"
    /\ saved' = IF saved = NotSaved THEN "SAVED" ELSE saved
    /\ HelpThen(c, "update")
    /\ UNCHANGED <<ledgerVars, session>>

\* The outcome is written to the saved row, which may have been removed; the
\* evidence of the completion will cite the row that was written.
HelpUpdate(c) ==
    /\ help[c].at = "update"
    /\ IF saved = NotSaved THEN HelpDone(c) /\ UNCHANGED saved
       ELSE /\ saved' = help[c].what
            /\ HelpGoto(c, [help[c] EXCEPT !.at = IF help[c].active THEN "end" ELSE "move",
                                           !.updatedSaved = saved'])
    /\ UNCHANGED <<ledgerVars, session>>

\* endSession: a session that was ended since is Not Found.
HelpEnd(c) ==
    /\ help[c].at = "end"
    /\ \/ /\ session[help[c].i].active
          /\ End(help[c].i)
          /\ IF Work(help[c].i) = NoResp THEN HelpDone(c) ELSE HelpThen(c, "move")
       \/ ~session[help[c].i].active /\ HelpDone(c) /\ UNCHANGED session
    /\ UNCHANGED <<ledgerVars, saved>>

(* Mutant: the open Responsibility is inferred from the opportunity. *)
HelpWorkInferred(c) ==
    IF HelpLedger!OpenIn("guidance") = {} THEN Work(help[c].i)
    ELSE CHOOSE r \in HelpLedger!OpenIn("guidance") : TRUE

HelpWork(c) == Work(help[c].i)

\* pauseApplicationGuidance and completeApplicationGuidance.
HelpMoveRead(c) ==
    /\ help[c].at = "move"
    /\ IF Closing(c) THEN HelpLedger!CompleteWithEvidenceRead(c, HelpWork(c))
                     ELSE HelpLedger!MarkWaitingOnUserRead(c, HelpWork(c))
    /\ IF tx'[c] = HelpLedger!Idle THEN HelpDone(c) ELSE UNCHANGED help
    /\ UNCHANGED <<session, saved>>

(* Mutant: the row is closed without its events. *)
HelpMoveWriteSilently(c) ==
    /\ help[c].at = "move" /\ tx[c].op = "completeWithEvidence"
    /\ row' = [row EXCEPT ![tx[c].r].status = "COMPLETED"]
    /\ HelpLedger!Return(c, HelpLedger!RowReply(tx[c].r))
    /\ HelpDone(c)
    /\ UNCHANGED <<ledger, session, saved>>

HelpMoveWrite(c) ==
    /\ help[c].at = "move"
    /\ IF Closing(c) THEN HelpLedger!CompleteWithEvidenceWrite(c, help[c].updatedSaved)
                     ELSE HelpLedger!MarkWaitingOnUserWrite(c)
    /\ HelpDone(c)
    /\ UNCHANGED <<session, saved>>

-----------------------------------------------------------------------------
(* Single writes of the member's other requests *)

(* Mutant: the update names the session and not its status. *)
SetConsentAnyhow(i, granted) ==
    /\ session' = [session EXCEPT ![i].consent = granted]
    /\ UNCHANGED <<ledgerVars, saved, help>>

SetConsent(i, granted) ==
    /\ session[i].active
    /\ session' = [session EXCEPT ![i].consent = granted]
    /\ UNCHANGED <<ledgerVars, saved, help>>

\* By the member, or by findActive when the destination has changed.
EndSession(i) ==
    /\ session[i].active
    /\ End(i)
    /\ UNCHANGED <<ledgerVars, saved, help>>

\* The member saves, tracks or removes the opportunity.
Track(status) ==
    /\ status = "SAVED" \/ saved # NotSaved
    /\ saved' = status
    /\ UNCHANGED <<ledgerVars, session, help>>

\* The process dies or a statement fails between two awaits.
Fail(c) ==
    /\ help[c] # Idle
    /\ \/ HelpLedger!Abandon(c)
       \/ tx[c] = HelpLedger!Idle /\ UNCHANGED ledgerVars
    /\ HelpDone(c)
    /\ UNCHANGED <<session, saved>>

HelpNext ==
    \/ \E c \in Call :
        \/ \E k \in Conversation : StartFind(c, k) \/ StartDirect(c, k)
        \/ StartResume(c) \/ StartCreate(c)
        \/ SessionFind(c) \/ SessionReplace(c) \/ SessionOpen(c)
        \/ \E i \in DOMAIN session,
              what \in (PeopleApplicationOutcome \cap StatusInUse) \cup {"pause"} :
              HelpRead(c, i, what)
        \/ HelpBound(c) \/ HelpSave(c) \/ HelpUpdate(c) \/ HelpEnd(c)
        \/ HelpMoveRead(c) \/ HelpMoveWrite(c)
        \/ Fail(c)
    \/ \E i \in DOMAIN session :
          EndSession(i) \/ \E granted \in BOOLEAN : SetConsent(i, granted)
    \/ \E status \in StatusInUse \cup {NotSaved} : Track(status)

HelpSpec == HelpInit /\ [][HelpNext]_helpVars

-----------------------------------------------------------------------------
(* Properties *)

\* Consent to share the screen never outlives its session, whichever of pause,
\* outcome, replacement and the member's own requests ends it, and whenever
\* consent was asked for.
ConsentEndsWithSession ==
    \A i \in DOMAIN session : session[i].consent => session[i].active

\* A request goes on to its completion with an outcome to cite.
HasOutcome(c) == help[c].at \in {"end", "move"} /\ Closing(c)

\* Privacy first: when a pause or an outcome moves the Responsibility, the
\* session it came from has been ended; and an outcome has been written to the
\* saved opportunity by this request before, which is what its evidence cites
\* whatever the member has tracked since.
PrivacyFirst ==
    [][\A c \in Call :
          /\ HelpMoveWrite(c) /\ row' # row =>
                /\ ~session[help[c].i].active
                /\ Closing(c) => help[c].updatedSaved = help[c].what
          /\ ~HasOutcome(c) /\ HasOutcome(c)' => saved' = help'[c].what]_helpVars

\* An old session cannot move a later Responsibility for the same opportunity:
\* what it moves is what it was opened for.
SessionMovesItsWork ==
    [][\A c \in Call, r \in Resp :
          help[c].at = "move" /\ help'[c] = Idle /\ row'[r] # row[r] =>
              r = session[help[c].i].responsibility]_helpVars

\* Starting, pausing and closing are behaviours of the ledger.
HelpImplementsLedger == HelpLedger!Spec

===============================================================================
