----------------------- MODULE OrganizationInvitationsProofs ----------------------
(***************************************************************************)
(* What OrganizationInvitationsService keeps true of the invitations of an *)
(* organization and their audit entries, for any number of requests,       *)
(* users and invitations.                                                  *)
(***************************************************************************)
EXTENDS OrganizationInvitations, TLAPS

AskState == Invite \cup Replace \cup Answer \cup Entry \cup {Idle}

\* A request about an invitation.
About(s) == s.at \in {"retire", "replace", "accept", "acceptFind", "acceptJoin",
                      "EXPIRED", "DECLINED", "REVOKED", "audit"}

\* It has the row of its invitation locked.
Holds(s) == s.at \in {"acceptFind", "acceptJoin"} \/ (s.at = "replace" /\ s.retired)

\* The row exists; one that is locked is pending; a closing that is about to
\* be audited has taken effect.
Knows(s) ==
    /\ About(s) => s.i \in DOMAIN invitation
    /\ Holds(s) => invitation[s.i].status = "PENDING"
    /\ s.at = "audit" /\ s.action \in Closed => invitation[s.i].status = s.action

\* A row is locked once.
Exclusive ==
    \A c, d \in Call : Holds(ask[c]) /\ Holds(ask[d]) /\ ask[c].i = ask[d].i => c = d

\* The trail has an entry of this action on row i.
Told(a, i) == \E e \in trail : e.action = a /\ e.i = i

\* AuditAgrees, entry by entry.
Agrees ==
    \A i \in DOMAIN invitation :
        /\ Told("ACCEPTED", i) <=> invitation[i].status = "ACCEPTED"
        /\ \A a \in Closed : Told(a, i) => invitation[i].status = a

Inv ==
    /\ TypeOK
    /\ \A c \in Call : Knows(ask[c])
    /\ Exclusive
    /\ \A e \in trail : e.i \in DOMAIN invitation
    /\ OnlyNewestPends
    /\ Agrees

LEMMA InitInv == Init => Inv
<1> SUFFICES ASSUME Init PROVE Inv
    OBVIOUS
<1>1. TypeOK
    BY FounderAssumption, MaxInvitationsAssumption DEF Init, TypeOK
<1>2. \A c \in Call : Knows(ask[c])
    BY DEF Init, Knows, About, Holds, Idle
<1>3. Exclusive
    BY DEF Init, Exclusive, Holds, Idle
<1> QED BY <1>1, <1>2, <1>3 DEF Init, Inv, OnlyNewestPends, Agrees

-----------------------------------------------------------------------------
(* Steps that leave the tables alone *)

\* A request that waits for nobody's lock may lock what is pending.
LEMMA FreeMeans ==
    ASSUME NEW c \in Call, Free(c)
    PROVE  \A d \in Call : d # c /\ Holds(ask[d]) => ask[d].i # ask[c].i
BY DEF Free, LockedFor, Holds

\* One request goes on; invitations and trail stay.
LEMMA QuietStep ==
    ASSUME Inv, NEW c \in Call, NEW s \in AskState, Goto(c, s), Knows(s),
           \A d \in Call : d # c /\ Holds(s) /\ Holds(ask[d]) => ask[d].i # s.i,
           UNCHANGED <<invitation, trail>>,
           role' \in [User -> RoleInUse \cup {"OWNER", NoRole}]
    PROVE  Inv'
<1>1. /\ ask' \in [Call -> AskState]
      /\ ask'[c] = s
      /\ \A d \in Call : d # c => ask'[d] = ask[d]
    BY DEF Inv, TypeOK, AskState, Goto
<1>2. TypeOK'
    BY <1>1 DEF Inv, TypeOK, AskState
<1>3. \A d \in Call : Knows(ask'[d])
    BY <1>1 DEF Inv
<1>4. (\A d \in Call : Knows(ask[d]))'
    BY <1>3 DEF Knows
<1>5. Exclusive'
    BY <1>1 DEF Inv, Exclusive
<1>6. OnlyNewestPends' /\ Agrees' /\ (\A e \in trail : e.i \in DOMAIN invitation)'
    BY DEF Inv, OnlyNewestPends, Agrees, Told
<1> QED BY <1>2, <1>4, <1>5, <1>6 DEF Inv

\* A row that exists is one the bound admits.
LEMMA RowHasId ==
    ASSUME Inv, NEW i \in DOMAIN invitation
    PROVE  i \in Id /\ invitation[i] \in Invitation
<1>1. invitation \in Seq(Invitation) /\ Len(invitation) <= MaxInvitations
    BY DEF Inv, TypeOK
<1> QED BY <1>1, MaxInvitationsAssumption DEF Id

LEMMA InviteFindInv ==
    ASSUME Inv, NEW c \in Call, NEW by \in User, NEW u \in Invitee, NEW r \in RoleInUse,
           InviteFind(c, by, u, r)
    PROVE  Inv'
<1>1. role \in [User -> RoleInUse \cup {"OWNER", NoRole}] /\ UNCHANGED <<role, invitation, trail>>
    BY DEF Inv, TypeOK, InviteFind, Reads
<1>2. CASE Goto(c, [at |-> "inviteMember", to |-> u, role |-> r])
  <2> DEFINE s == [at |-> "inviteMember", to |-> u, role |-> r]
  <2>1. s \in AskState /\ Knows(s) /\ ~Holds(s)
      BY DEF AskState, Invite, Knows, About, Holds
  <2> QED BY <1>1, <1>2, <2>1, QuietStep
<1>3. CASE \E i \in PendingTo(u) : Goto(c, [at |-> "retire", to |-> u, role |-> r, i |-> i])
  <2>1. PICK i \in PendingTo(u) : Goto(c, [at |-> "retire", to |-> u, role |-> r, i |-> i])
      BY <1>3
  <2> DEFINE s == [at |-> "retire", to |-> u, role |-> r, i |-> i]
  <2>2. i \in DOMAIN invitation /\ i \in Id
      BY RowHasId DEF PendingTo
  <2>3. s \in AskState /\ Knows(s) /\ ~Holds(s)
      BY <2>2 DEF AskState, Replace, Knows, About, Holds
  <2> QED BY <1>1, <2>1, <2>3, QuietStep
<1> QED BY <1>2, <1>3 DEF InviteFind

\* A request that stops, or is rolled back.
LEMMA RefuseInv ==
    ASSUME Inv, NEW c \in Call, Refuse(c)
    PROVE  Inv'
<1>1. role \in [User -> RoleInUse \cup {"OWNER", NoRole}]
    BY DEF Inv, TypeOK
<1>2. Idle \in AskState /\ Knows(Idle) /\ ~Holds(Idle)
    BY DEF AskState, Idle, Knows, About, Holds
<1> QED BY <1>1, <1>2, QuietStep DEF Refuse, Reads

LEMMA InviteMemberInv ==
    ASSUME Inv, NEW c \in Call, InviteMember(c)
    PROVE  Inv'
<1> DEFINE s == [ask[c] EXCEPT !.at = "inviteCreate"]
<1>1. CASE Goto(c, Idle)
    BY <1>1, RefuseInv DEF InviteMember, Refuse
<1>2. CASE Goto(c, s)
  <2>1. ask[c] \in AskState /\ ask[c].at = "inviteMember"
      BY DEF Inv, TypeOK, AskState, InviteMember
  <2>2. ask[c] \in Invite
      BY <2>1 DEF AskState, Invite, Replace, Answer, Entry, Idle
  <2>3. s \in Invite /\ s.at = "inviteCreate"
      BY <2>2 DEF Invite
  <2>4. s \in AskState /\ Knows(s) /\ ~Holds(s)
      BY <2>3 DEF AskState, Knows, About, Holds
  <2>5. role' \in [User -> RoleInUse \cup {"OWNER", NoRole}] /\ UNCHANGED <<invitation, trail>>
      BY DEF Inv, TypeOK, InviteMember, Reads
  <2> QED BY <1>2, <2>4, <2>5, QuietStep
<1> QED BY <1>1, <1>2 DEF InviteMember

LEMMA RetireInv ==
    ASSUME Inv, NEW c \in Call, Retire(c)
    PROVE  Inv'
<1> DEFINE s == [at |-> "replace", to |-> ask[c].to, role |-> ask[c].role, i |-> ask[c].i,
                 retired |-> invitation[ask[c].i].status = "PENDING"]
<1>1. ask[c] \in AskState /\ ask[c].at = "retire"
    BY DEF Inv, TypeOK, AskState, Retire
<1>2. ask[c].to \in Invitee /\ ask[c].role \in RoleInUse /\ ask[c].i \in Id
    BY <1>1 DEF AskState, Invite, Replace, Answer, Entry, Idle
<1>3. ask[c].i \in DOMAIN invitation
    BY <1>1 DEF Inv, Knows, About
<1>4. s \in AskState
    BY <1>2 DEF AskState, Replace
<1>5. Knows(s)
    BY <1>3 DEF Knows, About, Holds
<1>6. \A d \in Call : d # c /\ Holds(s) /\ Holds(ask[d]) => ask[d].i # s.i
    BY FreeMeans DEF Retire
<1>7. /\ role' \in [User -> RoleInUse \cup {"OWNER", NoRole}] /\ UNCHANGED <<invitation, trail>>
      /\ Goto(c, s)
    BY DEF Inv, TypeOK, Retire, Reads
<1> HIDE DEF s
<1> QED BY <1>4, <1>5, <1>6, <1>7, QuietStep

\* What a request about row i is about to do to it.
LEMMA AnswerAsked ==
    ASSUME Inv, NEW c \in Call, NEW i \in DOMAIN invitation, Reads,
           NEW a \in {"accept", "EXPIRED", "DECLINED", "REVOKED"},
           Goto(c, [at |-> a, i |-> i])
    PROVE  Inv'
<1> DEFINE s == [at |-> a, i |-> i]
<1>1. i \in Id
    BY RowHasId
<1>2. s \in AskState /\ Knows(s) /\ ~Holds(s)
    BY <1>1 DEF AskState, Answer, Knows, About, Holds
<1>3. role' \in [User -> RoleInUse \cup {"OWNER", NoRole}] /\ UNCHANGED <<invitation, trail>>
    BY DEF Inv, TypeOK, Reads
<1> QED BY <1>2, <1>3, QuietStep

LEMMA AcceptClaimInv ==
    ASSUME Inv, NEW c \in Call, AcceptClaim(c)
    PROVE  Inv'
<1> DEFINE s == [ask[c] EXCEPT !.at = "acceptFind"]
<1>1. CASE Goto(c, Idle)
    BY <1>1, RefuseInv DEF AcceptClaim, Refuse
<1>2. CASE Goto(c, s) /\ invitation[ask[c].i].status = "PENDING"
  <2>1. ask[c] \in AskState /\ ask[c].at = "accept"
      BY DEF Inv, TypeOK, AskState, AcceptClaim
  <2>2. ask[c] \in [at : {"accept", "acceptFind", "EXPIRED", "DECLINED", "REVOKED"}, i : Id]
      BY <2>1 DEF AskState, Invite, Replace, Answer, Entry, Idle
  <2>3. s \in Answer /\ s.at = "acceptFind" /\ s.i = ask[c].i
      BY <2>2 DEF Answer
  <2>4. ask[c].i \in DOMAIN invitation
      BY <2>1 DEF Inv, Knows, About
  <2>5. s \in AskState /\ Knows(s)
      BY <1>2, <2>3, <2>4 DEF AskState, Knows, About, Holds
  <2>6. \A d \in Call : d # c /\ Holds(s) /\ Holds(ask[d]) => ask[d].i # s.i
      BY <2>3, FreeMeans DEF AcceptClaim
  <2>7. role' \in [User -> RoleInUse \cup {"OWNER", NoRole}] /\ UNCHANGED <<invitation, trail>>
      BY DEF Inv, TypeOK, AcceptClaim, Reads
  <2> HIDE DEF s
  <2> QED BY <1>2, <2>5, <2>6, <2>7, QuietStep
<1> QED BY <1>1, <1>2 DEF AcceptClaim

LEMMA AcceptFindMembershipInv ==
    ASSUME Inv, NEW c \in Call, AcceptFindMembership(c)
    PROVE  Inv'
<1> DEFINE i == ask[c].i
           s == [at |-> "acceptJoin", i |-> i, member |-> role[invitation[i].to] # NoRole]
<1>1. ask[c] \in AskState /\ ask[c].at = "acceptFind"
    BY DEF Inv, TypeOK, AskState, AcceptFindMembership
<1>2. i \in Id /\ Holds(ask[c])
    BY <1>1 DEF AskState, Invite, Replace, Answer, Entry, Idle, Holds
<1>3. i \in DOMAIN invitation /\ invitation[i].status = "PENDING"
    BY <1>1, <1>2 DEF Inv, Knows, About
<1>4. s \in AskState /\ Knows(s)
    BY <1>2, <1>3 DEF AskState, Answer, Knows, About, Holds
<1>5. \A d \in Call : d # c /\ Holds(s) /\ Holds(ask[d]) => ask[d].i # s.i
    BY <1>2 DEF Inv, Exclusive
<1>6. /\ role' \in [User -> RoleInUse \cup {"OWNER", NoRole}] /\ UNCHANGED <<invitation, trail>>
      /\ Goto(c, s)
    BY DEF Inv, TypeOK, AcceptFindMembership, Reads
<1> HIDE DEF s
<1> QED BY <1>4, <1>5, <1>6, QuietStep

-----------------------------------------------------------------------------
(* Steps that close, make or date an invitation *)

\* Request c stops, or goes on to audit the closing of row i.
StopsOrAudits(c, a, i) ==
    \/ Goto(c, Idle)
    \/ a \in {"DECLINED", "REVOKED"} /\ Goto(c, [at |-> "audit", action |-> a, i |-> i])

\* An acceptance is written with its entry, another closing without one.
Entered(a, i) ==
    \/ trail' = trail /\ a # "ACCEPTED"
    \/ trail' = trail \cup {[action |-> "ACCEPTED", i |-> i]} /\ a = "ACCEPTED"

\* A pending row that nobody else has locked is closed.
LEMMA ClosingStep ==
    ASSUME Inv, NEW c \in Call, NEW i \in DOMAIN invitation, NEW a \in Closed,
           StopsOrAudits(c, a, i), Entered(a, i),
           invitation[i].status = "PENDING",
           \A d \in Call : d # c /\ Holds(ask[d]) => ask[d].i # i,
           invitation' = [invitation EXCEPT ![i].status = a],
           role' \in [User -> RoleInUse \cup {"OWNER", NoRole}]
    PROVE  Inv'
<1>0. PICK s \in Entry \cup {Idle} : Goto(c, s) /\ (s # Idle => s.i = i /\ s.action = a)
  <2> DEFINE e == [at |-> "audit", action |-> a, i |-> i]
  <2>1. a \in {"DECLINED", "REVOKED"} => e \in Entry /\ e.i = i /\ e.action = a
      BY RowHasId DEF Entry
  <2> QED BY <2>1 DEF StopsOrAudits
<1>1. invitation \in Seq(Invitation) /\ i \in Id
    BY RowHasId DEF Inv, TypeOK
<1>2. /\ invitation' \in Seq(Invitation) /\ Len(invitation') = Len(invitation)
      /\ DOMAIN invitation' = DOMAIN invitation
      /\ invitation'[i].status = a /\ invitation'[i].to = invitation[i].to
      /\ \A j \in DOMAIN invitation : j # i => invitation'[j] = invitation[j]
  <2>1. invitation[i] \in Invitation
      BY <1>1
  <2>2. [invitation[i] EXCEPT !.status = a] \in Invitation
      BY <2>1 DEF Invitation, OrganizationInvitationStatus
  <2> QED BY <1>1, <2>1, <2>2 DEF Invitation
<1>3. /\ ask' \in [Call -> AskState]
      /\ ask'[c] = s
      /\ \A d \in Call : d # c => ask'[d] = ask[d]
    BY <1>0 DEF Inv, TypeOK, AskState, Goto
<1>4. trail' \subseteq AuditEvent /\ \A e \in trail' : e.i \in DOMAIN invitation'
    BY <1>1, <1>2 DEF Inv, TypeOK, AuditEvent, Closed, Entered
<1>5. TypeOK'
    BY <1>2, <1>3, <1>4 DEF Inv, TypeOK, AskState
<1>6. "PENDING" \notin Closed
    BY DEF Closed
<1>7. ASSUME NEW d \in Call PROVE Knows(ask[d])'
  <2>1. CASE d # c
      BY <1>2, <1>3, <1>6, <2>1 DEF Inv, Knows
  <2>2. CASE d = c /\ s = Idle
      BY <1>3, <2>2 DEF Knows, About, Holds, Idle
  <2>3. CASE d = c /\ s \in Entry /\ s # Idle
      BY <1>0, <1>2, <1>3, <2>3 DEF Knows, About, Holds, Entry
  <2> QED BY <1>0, <2>1, <2>2, <2>3
<1>8. ~Holds(s)
    BY <1>0 DEF Holds, Entry, Idle
<1>9. Exclusive'
    BY <1>3, <1>8 DEF Inv, Exclusive
<1>10. OnlyNewestPends'
    BY <1>1, <1>2, <1>6 DEF Inv, OnlyNewestPends
<1>11. Agrees'
  <2> SUFFICES ASSUME NEW j \in DOMAIN invitation
               PROVE  /\ Told("ACCEPTED", j)' <=> invitation'[j].status = "ACCEPTED"
                      /\ \A b \in Closed : Told(b, j)' => invitation'[j].status = b
      BY <1>2 DEF Agrees
  <2>1. ASSUME NEW b \in Closed
        PROVE  Told(b, j)' <=> Told(b, j) \/ (a = "ACCEPTED" /\ b = a /\ j = i)
    <3>1. CASE trail' = trail /\ a # "ACCEPTED"
        BY <3>1 DEF Told
    <3>2. CASE trail' = trail \cup {[action |-> "ACCEPTED", i |-> i]} /\ a = "ACCEPTED"
      <4> DEFINE e == [action |-> "ACCEPTED", i |-> i]
      <4>1. e.action = "ACCEPTED" /\ e.i = i
          OBVIOUS
      <4>2. Told(b, j)' <=> \E f \in trail \cup {e} : f.action = b /\ f.i = j
          BY <3>2 DEF Told
      <4> HIDE DEF e
      <4> QED BY <3>2, <4>1, <4>2 DEF Told
    <3> QED BY <3>1, <3>2 DEF Entered
  <2>2. \A b \in Closed : ~Told(b, i)
      BY <1>6 DEF Inv, Agrees
  <2>3. "ACCEPTED" \in Closed
      BY DEF Closed
  <2> QED BY <1>2, <2>1, <2>2, <2>3 DEF Inv, Agrees
<1> QED BY <1>4, <1>5, <1>7, <1>9, <1>10, <1>11 DEF Inv

LEMMA AcceptJoinInv ==
    ASSUME Inv, NEW c \in Call, AcceptJoin(c)
    PROVE  Inv'
<1>1. CASE Refuse(c)
    BY <1>1, RefuseInv
<1>2. CASE ~Refuse(c)
  <2>1. PICK i, a : i = ask[c].i /\ a = "ACCEPTED"
      OBVIOUS
  <2>2. ask[c].at = "acceptJoin" /\ Holds(ask[c])
      BY DEF AcceptJoin, Holds
  <2>3. i \in DOMAIN invitation /\ invitation[i].status = "PENDING"
      BY <2>1, <2>2 DEF Inv, Knows, About
  <2>4. \A d \in Call : d # c /\ Holds(ask[d]) => ask[d].i # i
      BY <2>1, <2>2 DEF Inv, Exclusive
  <2>5. /\ role' = IF ask[c].member THEN role
                   ELSE [role EXCEPT ![invitation[i].to] = invitation[i].role]
        /\ trail' = trail \cup {[action |-> "ACCEPTED", i |-> i]}
        /\ Goto(c, Idle)
      BY <1>2, <2>1 DEF AcceptJoin, Close
  <2>6. invitation' = [invitation EXCEPT ![i].status = a]
      BY <1>2, <2>1 DEF AcceptJoin, Close
  <2>7. invitation[i] \in Invitation
      BY <2>3 DEF Inv, TypeOK
  <2>8. role' \in [User -> RoleInUse \cup {"OWNER", NoRole}]
      BY <2>5, <2>7, InviteeAssumption DEF Inv, TypeOK, Invitation
  <2>9. a \in Closed /\ StopsOrAudits(c, a, i) /\ Entered(a, i)
      BY <2>1, <2>5 DEF Closed, StopsOrAudits, Entered
  <2> QED BY <2>3, <2>4, <2>6, <2>8, <2>9, ClosingStep
<1> QED BY <1>1, <1>2

LEMMA ClaimTransitionInv ==
    ASSUME Inv, NEW c \in Call, ClaimTransition(c)
    PROVE  Inv'
<1>1. CASE Refuse(c)
    BY <1>1, RefuseInv
<1>2. CASE ~Refuse(c)
  <2>1. /\ ask[c].at \in Closed \ {"ACCEPTED"} /\ About(ask[c])
        /\ ask[c].at # "EXPIRED" => ask[c].at \in {"DECLINED", "REVOKED"}
      BY DEF ClaimTransition, Closed, About
  <2>2. PICK a \in Closed \ {"ACCEPTED"} : a = ask[c].at
      BY <2>1
  <2>3. PICK i \in DOMAIN invitation : i = ask[c].i
      BY <2>1 DEF Inv, Knows
  <2>4. /\ invitation[i].status = "PENDING"
        /\ invitation' = [invitation EXCEPT ![i].status = a]
        /\ role' = role /\ StopsOrAudits(c, a, i) /\ Entered(a, i)
      BY <1>2, <2>1, <2>2, <2>3 DEF ClaimTransition, Close, StopsOrAudits, Entered
  <2>5. \A d \in Call : d # c /\ Holds(ask[d]) => ask[d].i # i
      BY <2>3, FreeMeans DEF ClaimTransition
  <2>6. role' \in [User -> RoleInUse \cup {"OWNER", NoRole}]
      BY <2>4 DEF Inv, TypeOK
  <2> QED BY <2>2, <2>4, <2>5, <2>6, ClosingStep
<1> QED BY <1>1, <1>2

\* Rows that differ from those there were by one that may have been closed as
\* stale, which no request but c has locked.
Retired(rows, c) ==
    \A j \in DOMAIN invitation :
        \/ rows[j] = invitation[j]
        \/ /\ invitation[j].status = "PENDING" /\ rows[j].status = "EXPIRED"
           /\ rows[j].to = invitation[j].to
           /\ \A d \in Call : d # c /\ Holds(ask[d]) => ask[d].i # j

\* A new row is appended, of an address that has none pending then.
LEMMA MakingStep ==
    ASSUME Inv, NEW c \in Call, NEW s \in Entry \cup {Idle}, Goto(c, s),
           NEW u \in Invitee, NEW r \in RoleInUse, Len(invitation) < MaxInvitations,
           NEW rows \in Seq(Invitation), Len(rows) = Len(invitation),
           Retired(rows, c),
           \A j \in DOMAIN rows : rows[j].to = u => rows[j].status # "PENDING",
           invitation' = Append(rows, [to |-> u, role |-> r,
                                       status |-> "PENDING", stale |-> FALSE]),
           s # Idle => s.i = Len(invitation) + 1 /\ s.action = "MEMBER_INVITED",
           \/ trail' = trail
           \/ trail' = trail \cup {[action |-> "MEMBER_INVITED", i |-> Len(invitation) + 1]},
           role' = role
    PROVE  Inv'
<1> DEFINE new == [to |-> u, role |-> r, status |-> "PENDING", stale |-> FALSE]
           n == Len(invitation) + 1
<1>1. invitation \in Seq(Invitation) /\ Len(invitation) \in Nat
    BY DEF Inv, TypeOK
<1>2. /\ invitation' \in Seq(Invitation) /\ Len(invitation') = n
      /\ DOMAIN invitation' = DOMAIN invitation \cup {n}
      /\ invitation'[n] = new
      /\ \A j \in DOMAIN invitation : invitation'[j] = rows[j]
      /\ \A j \in DOMAIN invitation : j < n /\ j # n
  <2>1. new \in Invitation
      BY DEF Invitation, OrganizationInvitationStatus
  <2> QED BY <1>1, <2>1
<1>3. ASSUME NEW j \in DOMAIN invitation
      PROVE  /\ invitation'[j].to = invitation[j].to
             /\ invitation[j].status # "PENDING" => invitation'[j].status = invitation[j].status
  <2>1. invitation'[j] = rows[j]
      BY <1>2
  <2> QED BY <2>1 DEF Retired
<1>4. /\ ask' \in [Call -> AskState]
      /\ ask'[c] = s
      /\ \A d \in Call : d # c => ask'[d] = ask[d]
    BY DEF Inv, TypeOK, AskState, Goto
<1>5. n \in Id
    BY <1>1, MaxInvitationsAssumption DEF Id
<1>6. trail' \subseteq AuditEvent /\ \A e \in trail' : e.i \in DOMAIN invitation'
    BY <1>2, <1>5 DEF Inv, TypeOK, AuditEvent
<1>7. TypeOK'
  <2>1. Len(invitation') <= MaxInvitations
      BY <1>1, <1>2, MaxInvitationsAssumption
  <2>2. role' \in [User -> RoleInUse \cup {"OWNER", NoRole}]
      BY DEF Inv, TypeOK
  <2> QED BY <1>2, <1>4, <1>6, <2>1, <2>2 DEF TypeOK, AskState
<1>8. "PENDING" \notin Closed /\ "MEMBER_INVITED" \notin Closed
    BY DEF Closed
<1>9. ASSUME NEW d \in Call PROVE Knows(ask[d])'
  <2>1. CASE d # c
    <3>1. Knows(ask[d]) /\ ask'[d] = ask[d]
        BY <1>4, <2>1 DEF Inv
    <3>2. About(ask[d]) => ask[d].i \in DOMAIN invitation'
        BY <1>2, <3>1 DEF Knows
    <3>3. Holds(ask[d]) => invitation'[ask[d].i].status = "PENDING"
        BY SMTT(30), <1>2, <2>1, <3>1 DEF Knows, Holds, About, Retired
    <3>4. ask[d].at = "audit" /\ ask[d].action \in Closed
             => invitation'[ask[d].i].status = ask[d].action
        BY <1>2, <1>3, <1>8, <3>1 DEF Knows, About
    <3> QED BY <3>1, <3>2, <3>3, <3>4 DEF Knows, About, Holds
  <2>2. CASE d = c /\ s = Idle
      BY <1>4, <2>2 DEF Knows, About, Holds, Idle
  <2>3. CASE d = c /\ s \in Entry /\ s # Idle
      BY <1>2, <1>4, <1>8, <2>3 DEF Knows, About, Holds, Entry
  <2> QED BY <2>1, <2>2, <2>3
<1>10. Exclusive'
  <2>1. ~Holds(s)
      BY DEF Holds, Entry, Idle
  <2> QED BY <1>4, <2>1 DEF Inv, Exclusive
<1>11. OnlyNewestPends'
  <2> SUFFICES ASSUME NEW j \in DOMAIN invitation', NEW k \in DOMAIN invitation', j < k,
                      invitation'[j].to = invitation'[k].to
               PROVE  invitation'[j].status # "PENDING"
      BY DEF OnlyNewestPends
  <2>1. CASE k = n
      BY <1>2, <2>1
  <2>2. CASE k # n
    <3>1. j \in DOMAIN invitation /\ k \in DOMAIN invitation
        BY <1>1, <1>2, <2>2
    <3> QED BY <1>2, <1>3, <3>1 DEF Inv, OnlyNewestPends
  <2> QED BY <2>1, <2>2
<1>12. Agrees'
  <2> SUFFICES ASSUME NEW j \in DOMAIN invitation'
               PROVE  /\ Told("ACCEPTED", j)' <=> invitation'[j].status = "ACCEPTED"
                      /\ \A b \in Closed : Told(b, j)' => invitation'[j].status = b
      BY DEF Agrees
  <2>1. ASSUME NEW b \in Closed PROVE Told(b, j)' <=> Told(b, j)
      BY <1>8 DEF Told
  <2>2. "ACCEPTED" \in Closed /\ "EXPIRED" # "ACCEPTED"
      BY DEF Closed
  <2>3. CASE j = n
    <3>1. \A b : ~Told(b, n)
        BY <1>2 DEF Inv, Told
    <3> QED BY <1>2, <1>8, <2>1, <2>2, <2>3, <3>1
  <2>4. CASE j \in DOMAIN invitation
    <3>1. /\ Told("ACCEPTED", j) <=> invitation[j].status = "ACCEPTED"
          /\ \A b \in Closed : Told(b, j) => invitation[j].status = b
        BY <2>4 DEF Inv, Agrees
    <3>2. CASE rows[j] = invitation[j]
        BY <1>2, <2>1, <2>2, <2>4, <3>1, <3>2
    <3>3. CASE invitation[j].status = "PENDING" /\ rows[j].status = "EXPIRED"
        BY <1>2, <1>8, <2>1, <2>2, <2>4, <3>1, <3>3
    <3> QED BY <2>4, <3>2, <3>3 DEF Retired
  <2> QED BY <1>2, <2>3, <2>4
<1> QED BY <1>6, <1>7, <1>9, <1>10, <1>11, <1>12 DEF Inv

LEMMA InviteCreateInv ==
    ASSUME Inv, NEW c \in Call, InviteCreate(c)
    PROVE  Inv'
<1> DEFINE s == [at |-> "audit", action |-> "MEMBER_INVITED", i |-> Len(invitation) + 1]
<1>1. CASE Refuse(c)
    BY <1>1, RefuseInv
<1>2. CASE ~Refuse(c)
  <2>1. ask[c] \in AskState /\ ask[c].at = "inviteCreate"
      BY DEF Inv, TypeOK, AskState, InviteCreate
  <2>2. PICK u \in Invitee, r \in RoleInUse : u = ask[c].to /\ r = ask[c].role
      BY <2>1 DEF AskState, Invite, Replace, Answer, Entry, Idle
  <2>3. /\ PendingTo(u) = {} /\ Len(invitation) < MaxInvitations
        /\ invitation' = New(u, r) /\ Goto(c, s) /\ role' = role /\ trail' = trail
      BY <1>2, <2>2 DEF InviteCreate
  <2>4. \A j \in DOMAIN invitation : invitation[j].to = u => invitation[j].status # "PENDING"
      BY <2>3 DEF PendingTo
  <2>5. invitation \in Seq(Invitation) /\ Len(invitation) \in Nat
      BY DEF Inv, TypeOK
  <2>6. s \in Entry /\ s.i = Len(invitation) + 1 /\ s.action = "MEMBER_INVITED"
      BY <2>3, <2>5, MaxInvitationsAssumption DEF Entry, Id
  <2>7. invitation' = Append(invitation,
                        [to |-> u, role |-> r, status |-> "PENDING", stale |-> FALSE])
      BY <2>3 DEF New
  <2>8. Retired(invitation, c)
      BY DEF Retired
  <2> HIDE DEF s
  <2> QED BY <2>3, <2>4, <2>5, <2>6, <2>7, <2>8, MakingStep
<1> QED BY <1>1, <1>2

LEMMA ReplaceStaleInv ==
    ASSUME Inv, NEW c \in Call, ReplaceStale(c)
    PROVE  Inv'
<1>1. CASE Refuse(c)
    BY <1>1, RefuseInv
<1>2. CASE ~Refuse(c)
  <2>1. ask[c] \in AskState /\ ask[c].at = "replace"
      BY DEF Inv, TypeOK, AskState, ReplaceStale
  <2>2. PICK u \in Invitee, r \in RoleInUse : u = ask[c].to /\ r = ask[c].role
      BY <2>1 DEF AskState, Invite, Replace, Answer, Entry, Idle
  <2>3. PICK i \in DOMAIN invitation : i = ask[c].i
      BY <2>1 DEF Inv, Knows, About
  <2> DEFINE rows == IF ask[c].retired THEN [invitation EXCEPT ![i].status = "EXPIRED"]
                     ELSE invitation
  <2>4. /\ PendingTo(u) \ (IF ask[c].retired THEN {i} ELSE {}) = {}
        /\ Len(invitation) < MaxInvitations
        /\ invitation' = Append(rows,
                            [to |-> u, role |-> r, status |-> "PENDING", stale |-> FALSE])
        /\ trail' = trail \cup {[action |-> "MEMBER_INVITED", i |-> Len(invitation) + 1]}
        /\ Goto(c, Idle) /\ role' = role
      BY <1>2, <2>2, <2>3 DEF ReplaceStale
  <2>5. invitation \in Seq(Invitation) /\ Len(invitation) \in Nat /\ invitation[i] \in Invitation
      BY DEF Inv, TypeOK
  <2>6. CASE ask[c].retired
    <3>1. invitation[i].status = "PENDING" /\ \A d \in Call : d # c /\ Holds(ask[d]) => ask[d].i # i
        BY <2>1, <2>3, <2>6 DEF Inv, Knows, Holds, Exclusive
    <3>2. [invitation[i] EXCEPT !.status = "EXPIRED"] \in Invitation
        BY <2>5 DEF Invitation, OrganizationInvitationStatus, Closed
    <3>3. /\ rows \in Seq(Invitation) /\ Len(rows) = Len(invitation)
          /\ DOMAIN rows = DOMAIN invitation
          /\ rows[i].status = "EXPIRED" /\ rows[i].to = invitation[i].to
          /\ \A j \in DOMAIN invitation : j # i => rows[j] = invitation[j]
        BY <2>5, <2>6, <3>2 DEF Invitation
    <3>4. Retired(rows, c)
      <4> HIDE DEF rows
      <4> QED BY <3>1, <3>3 DEF Retired
    <3>5. \A j \in DOMAIN rows : rows[j].to = u => rows[j].status # "PENDING"
        BY <2>4, <2>6, <3>3 DEF PendingTo
    <3> HIDE DEF rows
    <3> QED BY <2>4, <3>3, <3>4, <3>5, MakingStep
  <2>7. CASE ~ask[c].retired
    <3>1. rows = invitation
        BY <2>7
    <3>2. \A j \in DOMAIN invitation : invitation[j].to = u => invitation[j].status # "PENDING"
        BY <2>4, <2>7 DEF PendingTo
    <3>3. Retired(rows, c)
        BY <3>1 DEF Retired
    <3> HIDE DEF rows
    <3> QED BY <2>4, <2>5, <3>1, <3>2, <3>3, MakingStep
  <2> QED BY <2>6, <2>7
<1> QED BY <1>1, <1>2

LEMMA AuditInv ==
    ASSUME Inv, NEW c \in Call, Audit(c)
    PROVE  Inv'
<1>1. ask[c] \in AskState /\ ask[c].at = "audit"
    BY DEF Inv, TypeOK, AskState, Audit
<1>2. PICK i \in DOMAIN invitation, a \in {"MEMBER_INVITED", "DECLINED", "REVOKED"} :
          i = ask[c].i /\ a = ask[c].action
    BY <1>1 DEF AskState, Invite, Replace, Answer, Entry, Idle, Inv, Knows, About
<1>3. a \in Closed => invitation[i].status = a
    BY <1>1, <1>2 DEF Inv, Knows
<1>4. /\ trail' = trail \cup {[action |-> a, i |-> i]}
      /\ Goto(c, Idle) /\ UNCHANGED <<role, invitation>>
    BY <1>2 DEF Audit
<1>5. /\ ask' \in [Call -> AskState]
      /\ ask'[c] = Idle
      /\ \A d \in Call : d # c => ask'[d] = ask[d]
    BY <1>4 DEF Inv, TypeOK, AskState, Goto
<1>6. TypeOK'
  <2>1. trail' \subseteq AuditEvent
      BY <1>4, RowHasId DEF Inv, TypeOK, AuditEvent, Closed
  <2> QED BY <1>4, <1>5, <2>1 DEF Inv, TypeOK, AskState
<1>7. ASSUME NEW d \in Call PROVE Knows(ask[d])'
  <2>1. CASE d # c
      BY <1>4, <1>5, <2>1 DEF Inv, Knows
  <2>2. CASE d = c
      BY <1>5, <2>2 DEF Knows, About, Holds, Idle
  <2> QED BY <2>1, <2>2
<1>8. Exclusive'
  <2>1. ~Holds(Idle)
      BY DEF Holds, Idle
  <2> QED BY <1>5, <2>1 DEF Inv, Exclusive
<1>9. OnlyNewestPends' /\ (\A e \in trail : e.i \in DOMAIN invitation)'
    BY <1>4 DEF Inv, OnlyNewestPends
<1>10. Agrees'
  <2> SUFFICES ASSUME NEW j \in DOMAIN invitation
               PROVE  /\ Told("ACCEPTED", j)' <=> invitation[j].status = "ACCEPTED"
                      /\ \A b \in Closed : Told(b, j)' => invitation[j].status = b
      BY <1>4 DEF Agrees
  <2>1. ASSUME NEW b \in Closed PROVE Told(b, j)' <=> Told(b, j) \/ (b = a /\ j = i)
    <3> DEFINE e == [action |-> a, i |-> i]
    <3>1. e.action = a /\ e.i = i
        OBVIOUS
    <3>2. Told(b, j)' <=> \E f \in trail \cup {e} : f.action = b /\ f.i = j
        BY <1>4 DEF Told
    <3> HIDE DEF e
    <3> QED BY <3>1, <3>2 DEF Told
  <2>2. "ACCEPTED" \in Closed /\ a # "ACCEPTED"
      BY DEF Closed
  <2> QED BY <1>3, <2>1, <2>2 DEF Inv, Agrees
<1> QED BY <1>6, <1>7, <1>8, <1>9, <1>10 DEF Inv

LEMMA LapseInv ==
    ASSUME Inv, NEW i \in DOMAIN invitation, Lapse(i)
    PROVE  Inv'
<1>1. invitation \in Seq(Invitation) /\ invitation[i] \in Invitation
    BY DEF Inv, TypeOK
<1>2. [invitation[i] EXCEPT !.stale = TRUE] \in Invitation
    BY <1>1 DEF Invitation
<1>3. /\ invitation' \in Seq(Invitation) /\ Len(invitation') = Len(invitation)
      /\ DOMAIN invitation' = DOMAIN invitation
      /\ \A j \in DOMAIN invitation : /\ invitation'[j].status = invitation[j].status
                                     /\ invitation'[j].to = invitation[j].to
    BY <1>1, <1>2 DEF Lapse, Invitation
<1>4. UNCHANGED <<role, trail, ask>>
    BY DEF Lapse
<1>5. TypeOK'
    BY <1>3, <1>4 DEF Inv, TypeOK
<1>6. ASSUME NEW d \in Call PROVE Knows(ask[d])'
  <2>1. Knows(ask[d]) /\ ask'[d] = ask[d]
      BY <1>4 DEF Inv
  <2> QED BY <1>3, <2>1 DEF Knows, Holds, About
<1>7. Exclusive' /\ (\A e \in trail : e.i \in DOMAIN invitation)'
    BY <1>3, <1>4 DEF Inv, Exclusive
<1>8. OnlyNewestPends'
    BY <1>3 DEF Inv, OnlyNewestPends
<1>9. Agrees'
    BY <1>3, <1>4 DEF Inv, Agrees, Told
<1> QED BY <1>5, <1>6, <1>7, <1>8, <1>9 DEF Inv

\* Steps that touch no request, no invitation and no entry.
LEMMA RolesMove ==
    ASSUME Inv, UNCHANGED <<invitation, trail, ask>>,
           role' \in [User -> RoleInUse \cup {"OWNER", NoRole}]
    PROVE  Inv'
BY DEF Inv, TypeOK, Knows, About, Holds, Exclusive, OnlyNewestPends, Agrees, Told

-----------------------------------------------------------------------------
(* The invariant and the theorems *)

LEMMA StepInv == Inv /\ [Next]_vars => Inv'
<1> SUFFICES ASSUME Inv, [Next]_vars PROVE Inv'
    OBVIOUS
<1>1. CASE UNCHANGED vars
    BY <1>1, RolesMove DEF vars, Inv, TypeOK
<1>2. ASSUME NEW c \in Call, NEW i \in DOMAIN invitation,
             AcceptFind(c, i) \/ Decline(c, i) \/ \E by \in User : Revoke(c, by, i)
      PROVE  Inv'
    BY <1>2, AnswerAsked DEF AcceptFind, Decline, Revoke
<1>3. ASSUME NEW c \in Call, NEW u \in Invitee, ListMine(c, u)
      PROVE  Inv'
  <2>1. PICK i \in PendingTo(u) : Goto(c, [at |-> "EXPIRED", i |-> i])
      BY <1>3 DEF ListMine
  <2>2. i \in DOMAIN invitation /\ Reads
      BY <1>3 DEF ListMine, PendingTo
  <2> QED BY <2>1, <2>2, AnswerAsked
<1>4. ASSUME NEW c \in Call, Crash(c) PROVE Inv'
    BY <1>4, RefuseInv DEF Crash
<1>5. ASSUME NEW u \in User, NEW new \in RoleInUse \cup {NoRole}, ChangeRole(u, new)
      PROVE  Inv'
  <2>1. role' \in [User -> RoleInUse \cup {"OWNER", NoRole}]
      BY <1>5 DEF ChangeRole, Inv, TypeOK
  <2> QED BY <1>5, <2>1, RolesMove DEF ChangeRole
<1> QED BY <1>1, <1>2, <1>3, <1>4, <1>5, InviteFindInv, InviteMemberInv, InviteCreateInv,
           RetireInv, ReplaceStaleInv, AcceptClaimInv, AcceptFindMembershipInv, AcceptJoinInv,
           ClaimTransitionInv, AuditInv, LapseInv
        DEF Next

LEMMA Invariance == Spec => []Inv
BY InitInv, StepInv, PTL DEF Spec

\* Rows, entries and requests keep their shape.
THEOREM TypeCorrect == Spec => []TypeOK
<1>1. Inv => TypeOK
    BY DEF Inv
<1> QED BY <1>1, Invariance, PTL

\* Of the invitations to one address only the newest can be pending, whoever
\* invites, replaces, accepts or closes at the same time.
THEOREM NewestPends == Spec => []OnlyNewestPends
<1>1. Inv => OnlyNewestPends
    BY DEF Inv
<1> QED BY <1>1, Invariance, PTL

\* An acceptance and its entry are never without each other, and an entry of a
\* refusal or revocation tells of one that took effect.
THEOREM AuditTells == Spec => []AuditAgrees
<1>1. Inv => AuditAgrees
  <2> SUFFICES ASSUME Inv, NEW i \in DOMAIN invitation
               PROVE  LET audited == {e.action : e \in {f \in trail : f.i = i}}
                      IN /\ "ACCEPTED" \in audited <=> invitation[i].status = "ACCEPTED"
                         /\ audited \cap Closed \subseteq {invitation[i].status}
      BY DEF AuditAgrees
  <2> DEFINE audited == {e.action : e \in {f \in trail : f.i = i}}
  <2>1. \A a : a \in audited <=> Told(a, i)
      BY DEF Told
  <2>2. Told("ACCEPTED", i) <=> invitation[i].status = "ACCEPTED"
      BY DEF Inv, Agrees
  <2>3. \A a \in Closed : Told(a, i) => invitation[i].status = a
      BY DEF Inv, Agrees
  <2> HIDE DEF audited
  <2>4. /\ "ACCEPTED" \in audited <=> invitation[i].status = "ACCEPTED"
        /\ audited \cap Closed \subseteq {invitation[i].status}
      BY <2>1, <2>2, <2>3
  <2> QED BY <2>4 DEF audited
<1> QED BY <1>1, Invariance, PTL

==================================================================================
