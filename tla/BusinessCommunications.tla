------------------------- MODULE BusinessCommunications -------------------------
(***************************************************************************)
(* BusinessResponsibilityCommunicationsService: the best-effort news a     *)
(* Business Responsibility request sends after its transaction, to the     *)
(* managers the organization has by then.                                  *)
(*                                                                         *)
(* The news is about the row the transaction returned, as it was then; the *)
(* recipients are read later, and are notified all at once, each by a      *)
(* notify() of NotificationsService: it looks for the notification of its  *)
(* recipient and dedupe key, which names the row and the kind of news,     *)
(* creates it, and mails what it has created.  The rows that record how it *)
(* was delivered are left out; nobody retries a mail.                      *)
(***************************************************************************)
EXTENDS BusinessResponsibility, FiniteSets

CONSTANT MaxNotices   \* bound on the notifications kept

ASSUME MaxNoticesAssumption == MaxNotices \in Nat

Kinds == {"accepted", "needs_you", "completed_reported", "cancelled"}

\* A recipient and a dedupe key.
Notice == [to : User, kind : Kinds, r : Resp]

VARIABLES
    news,    \* what each call has still to publish
    inbox,   \* the Notification rows
    mails    \* how many e-mails have been sent of each notice

newsVars == <<vars, news, inbox, mails>>

NoNews == [at |-> "nothing"]

NewsInit ==
    /\ Init
    /\ news = [c \in Call |-> NoNews]
    /\ inbox = {}
    /\ mails = [n \in Notice |-> 0]

Tell(c, n) == news' = [news EXCEPT ![c] = n]

(* The row a transaction returns, changed or not, is published; a conflict *)
(* is not.                                                                 *)
AfterCommit(c, kind) ==
    Tell(c,
      IF tx'[c] # Idle THEN [at |-> "transaction", kind |-> kind]
      ELSE IF reply'[c].kind = "row"
           THEN [at |-> "publish", kind |-> kind, r |-> reply'[c].r,
                 about |-> Len(ledger'[reply'[c].r])]
           ELSE NoNews)

Begin(c) ==
    /\ news[c] = NoNews
    /\ \/ \E u \in User, k \in Key :
             CreateFind(c, u, k) /\ AfterCommit(c, "accepted")
       \/ \E u \in User, r \in Resp :
             \/ MarkNeedsYouRead(c, u, r) /\ AfterCommit(c, "needs_you")
             \/ CompleteRead(c, u, r) /\ AfterCommit(c, "completed_reported")
             \/ CancelRead(c, u, r) /\ AfterCommit(c, "cancelled")
    /\ UNCHANGED <<inbox, mails>>

(* Mutant: what the request asked for is published without its outcome. *)
CommitAnyhow(c) ==
    /\ news[c].at = "transaction"
    /\ \/ CreateInsert(c) /\ AfterCommit(c, "accepted")
       \/ /\ \/ MarkNeedsYouWrite(c)
             \/ CompleteWrite(c)
             \/ CancelWrite(c)
          /\ Tell(c, [at |-> "publish", kind |-> news[c].kind, r |-> tx[c].r,
                      about |-> Len(ledger'[tx[c].r])])
    /\ UNCHANGED <<inbox, mails>>

Commit(c) ==
    /\ news[c].at = "transaction"
    /\ \/ CreateInsert(c)
       \/ MarkNeedsYouWrite(c)
       \/ CompleteWrite(c)
       \/ CancelWrite(c)
    /\ AfterCommit(c, news[c].kind)
    /\ UNCHANGED <<inbox, mails>>

\* Resuming is not news.
Resume(c) ==
    /\ news[c] = NoNews
    /\ \/ \E u \in User, r \in Resp : ResumeRead(c, u, r)
       \/ ResumeWrite(c)
    /\ UNCHANGED <<news, inbox, mails>>

\* The users the events of the returned row name as the actor of the news.
ActorFor(kind, l) ==
    {l[i].by : i \in {k \in DOMAIN l :
        \/ kind = "accepted" /\ l[k].type = "ACCEPTED"
        \/ kind = "completed_reported" /\ l[k].type = "COMPLETED"
        \/ kind = "cancelled" /\ l[k].type = "CANCELLED"}}

Managers == IF closed THEN {} ELSE {u \in User : role[u] \in MANAGE_ROLES}

\* Work a manager accepted is no news; nobody is told of their own closure.
Recipients(kind, actors) ==
    IF kind = "accepted"
    THEN IF actors \cap Managers = {} THEN Managers ELSE {}
    ELSE Managers \ actors

ReadRecipients(c) ==
    /\ news[c].at = "publish"
    /\ LET to == Recipients(news[c].kind,
                            ActorFor(news[c].kind, SubSeq(ledger[news[c].r], 1, news[c].about)))
       IN Tell(c, IF to = {} THEN NoNews
                  ELSE [at |-> "notify", kind |-> news[c].kind, r |-> news[c].r,
                        about |-> news[c].about,
                        stage |-> [u \in User |-> IF u \in to THEN "find" ELSE "done"]])
    /\ UNCHANGED <<vars, inbox, mails>>

At(c, u, stage) == news[c].at = "notify" /\ news[c].stage[u] = stage

\* The request is done when every recipient is.
GoOn(c, u, next) ==
    LET stage == [news[c].stage EXCEPT ![u] = next] IN
    Tell(c, IF \A v \in User : stage[v] = "done" THEN NoNews
            ELSE [news[c] EXCEPT !.stage = stage])

NoticeOf(c, u) == [to |-> u, kind |-> news[c].kind, r |-> news[c].r]

\* The notifications of a recipient that bear one dedupe key.
Duplicates(n) == {m \in inbox : m.to = n.to /\ m.kind = n.kind /\ m.r = n.r}

Inserted(c, u) ==
    inbox' = inbox \cup
        {[to |-> u, kind |-> news[c].kind, r |-> news[c].r, about |-> news[c].about]}

\* notify(): there is nothing to do when the notification is there.
NotifyFind(c, u) ==
    /\ At(c, u, "find")
    /\ GoOn(c, u, IF Duplicates(NoticeOf(c, u)) = {} THEN "create" ELSE "done")
    /\ UNCHANGED <<vars, inbox, mails>>

(* Mutant: the dedupe key has no unique index. *)
NotifyCreateAnyhow(c, u) ==
    /\ At(c, u, "create")
    /\ Inserted(c, u) /\ GoOn(c, u, "mail")
    /\ UNCHANGED <<vars, mails>>

\* It is created, unless it has been meanwhile: the index rejects a second.
NotifyCreate(c, u) ==
    /\ At(c, u, "create")
    /\ \/ /\ Duplicates(NoticeOf(c, u)) = {} /\ Cardinality(inbox) < MaxNotices
          /\ Inserted(c, u) /\ GoOn(c, u, "mail")
       \/ Duplicates(NoticeOf(c, u)) # {} /\ UNCHANGED inbox /\ GoOn(c, u, "done")
    /\ UNCHANGED <<vars, mails>>

\* What has been created is mailed.
NotifyMail(c, u) ==
    /\ At(c, u, "mail")
    /\ mails' = [mails EXCEPT ![NoticeOf(c, u)] = @ + 1]
    /\ GoOn(c, u, "done")
    /\ UNCHANGED <<vars, inbox>>

\* A call that fails is logged; a recipient may have opted out of the
\* notification or of the mail.
NotifyInVain(c, u) ==
    /\ \E stage \in {"find", "create", "mail"} : At(c, u, stage)
    /\ GoOn(c, u, "done")
    /\ UNCHANGED <<vars, inbox, mails>>

\* The process dies before its commit, or between the commit and the news.
Crash(c) ==
    /\ news[c] # NoNews \/ tx[c] # Idle
    /\ \/ Abandon(c)
       \/ tx[c] = Idle /\ UNCHANGED vars
    /\ Tell(c, NoNews)
    /\ UNCHANGED <<inbox, mails>>

Elsewhere ==
    /\ \/ \E u \in User, new \in RoleInUse \cup {NoRole} : ChangeRole(u, new)
       \/ CloseOrganization
    /\ UNCHANGED <<news, inbox, mails>>

NewsNext ==
    \/ \E c \in Call :
        \/ Begin(c) \/ Commit(c) \/ Resume(c) \/ ReadRecipients(c)
        \/ \E u \in User : \/ NotifyFind(c, u) \/ NotifyCreate(c, u) \/ NotifyMail(c, u)
                          \/ NotifyInVain(c, u)
        \/ Crash(c)
    \/ Elsewhere

NewsSpec == NewsInit /\ [][NewsNext]_newsVars

-----------------------------------------------------------------------------
(* Properties *)

Tells(kind) ==
    CASE kind = "accepted" -> "ACCEPTED"
      [] kind = "needs_you" -> "USER_INPUT_REQUIRED"
      [] kind = "completed_reported" -> "COMPLETED"
      [] kind = "cancelled" -> "CANCELLED"

\* A notification never runs ahead of the work: the event it tells of is in
\* the part of the ledger it was made from, also when the request lost its
\* race or only repeated an earlier one.
NewsIsTrue ==
    \A n \in inbox : \E i \in 1 .. n.about :
        i \in DOMAIN ledger[n.r] /\ ledger[n.r][i].type = Tells(n.kind)

\* However requests and retries race between the look-up and the creation, a
\* user is notified once of one kind of news about one row, and mailed once at
\* most, of a notification that is kept.
NotifiedOnce ==
    /\ \A m, n \in inbox : m.to = n.to /\ m.kind = n.kind /\ m.r = n.r => m = n
    /\ \A n \in Notice : mails[n] <= 1 /\ (mails[n] = 1 => Duplicates(n) # {})
===============================================================================
