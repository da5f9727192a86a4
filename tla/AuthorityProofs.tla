---------------------------- MODULE AuthorityProofs ----------------------------
(***************************************************************************)
(* What AuthorityService keeps true of permissions, for any number of      *)
(* requests, persons, permissions and rows.                                *)
(***************************************************************************)
EXTENDS Authority, TLAPS

CallState ==
    {Idle}
    \cup [at : {"approve", "approveClaim", "deny"}, by : Person, i : Nat]
    \cup [at : {"revokeFind"}, i : Nat, before : SUBSET Nat]
    \cup [at : {"revokeUpdate"}, found : SUBSET Nat, before : SUBSET Nat]
    \cup [at : {"suspend", "resume", "resumeWrite"}, by : Person, permission : Permission]

CallOK == call \in [Call -> CallState]

\* A row with a grant was approved.
GrantedOnApproval ==
    \A i \in DOMAIN request : request[i].grant # "NONE" => request[i].status = "APPROVED"

\* Row i gives, or gave, permission p.
Gave(i, p) == i \in DOMAIN request /\ request[i].permission = p /\ request[i].grant # "NONE"

\* A revocation that will look for the active grants will find all it has to take back.
Finds(c) ==
    call[c].at = "revokeFind" =>
        \A i \in call[c].before : Gave(i, request[call[c].i].permission)

\* One that has found them has found all that are still to be taken back.
HasFound(c) ==
    call[c].at = "revokeUpdate" =>
        /\ \A i \in call[c].found \cup call[c].before : Gave(i, request[i].permission)
        /\ \A i \in call[c].before : i \in call[c].found \/ request[i].grant = "REVOKED"

NamesRow(c) == call[c].at = "revokeFind" => call[c].i \in DOMAIN request

RevokesAll == \A c \in Call : Finds(c) /\ HasFound(c) /\ NamesRow(c)

Inv == TypeOK /\ CallOK /\ GrantedOnApproval /\ RevokesAll

\* What no step takes from a row: its permission, a grant, a revocation.
RowsKept ==
    \A i \in DOMAIN request :
        /\ i \in DOMAIN request'
        /\ request'[i].permission = request[i].permission
        /\ request'[i].expires = request[i].expires
        /\ request[i].grant # "NONE" => request'[i].grant # "NONE"
        /\ request[i].grant = "REVOKED" => request'[i].grant = "REVOKED"

-----------------------------------------------------------------------------
(* The rows, step by step *)

\* A row that is written in its place is a row still.
LEMMA RowWritten ==
    ASSUME request \in Seq(AuthorityRequest), NEW k \in DOMAIN request,
           NEW r \in AuthorityRequest, request' = [request EXCEPT ![k] = r]
    PROVE  /\ request' \in Seq(AuthorityRequest)
           /\ DOMAIN request' = DOMAIN request
           /\ request'[k] = r
           /\ \A i \in DOMAIN request : i # k => request'[i] = request[i]
OBVIOUS

\* Approval and denial keep a row's shape.
LEMMA DecidedRow ==
    ASSUME NEW r \in AuthorityRequest
    PROVE  /\ Approved(r) \in AuthorityRequest /\ Denied(r) \in AuthorityRequest
           /\ Approved(r).permission = r.permission /\ Denied(r).permission = r.permission
           /\ Approved(r).expires = r.expires /\ Denied(r).expires = r.expires
           /\ Approved(r).status = "APPROVED" /\ Denied(r).status = "DENIED"
           /\ Approved(r).grant = "ACTIVE" /\ Denied(r).grant = r.grant
<1>1. /\ r.events \o <<"REQUEST_APPROVED", "GRANT_CREATED">> \in Seq(AuthorityEvent)
      /\ r.events \o <<"REQUEST_DENIED">> \in Seq(AuthorityEvent)
    BY DEF AuthorityRequest, AuthorityEvent
<1> QED BY <1>1 DEF Approved, Denied, Decided, AuthorityRequest, RequestStatus, GrantStatus

\* A decision keeps what the rows have.
LEMMA DecidedRows ==
    ASSUME Inv, NEW c \in Call, Approve(c) \/ Deny(c)
    PROVE  TypeOK' /\ GrantedOnApproval' /\ RowsKept
<1> DEFINE k == call[c].i
<1>1. /\ request \in Seq(AuthorityRequest)
      /\ \A i \in DOMAIN request : request[i] \in AuthorityRequest
    BY DEF Inv, TypeOK
<1>2. CASE request' = request
  <2>1. UNCHANGED <<now, owner, suspended, request>>
      BY <1>2 DEF Approve, Deny
  <2> QED BY <2>1 DEF Inv, TypeOK, GrantedOnApproval, RowsKept
<1>3. CASE k \in DOMAIN request /\ request' # request
  <2>1. request[k].status = "PENDING" /\ request[k].grant = "NONE"
      BY <1>1, <1>3 DEF Approve, Deny, Inv, GrantedOnApproval
  <2>2. \/ request' = [request EXCEPT ![k] = Approved(request[k])]
        \/ request' = [request EXCEPT ![k] = Denied(request[k])]
      BY <1>3 DEF Approve, Deny
  <2>3. /\ request' \in Seq(AuthorityRequest)
        /\ DOMAIN request' = DOMAIN request
        /\ request'[k] = Approved(request[k]) \/ request'[k] = Denied(request[k])
        /\ \A i \in DOMAIN request : i # k => request'[i] = request[i]
    <3>1. Approved(request[k]) \in AuthorityRequest /\ Denied(request[k]) \in AuthorityRequest
        BY <1>1, <1>3, DecidedRow
    <3> QED BY <1>1, <1>3, <2>2, <3>1, RowWritten
  <2>4. TypeOK'
      BY <2>3 DEF Inv, TypeOK, Approve, Deny
  <2>5. GrantedOnApproval'
      BY <1>1, <1>3, <2>1, <2>3, DecidedRow DEF Inv, GrantedOnApproval
  <2>6. RowsKept
      BY <1>1, <1>3, <2>1, <2>3, DecidedRow DEF RowsKept
  <2> QED BY <2>4, <2>5, <2>6
<1>4. CASE k \notin DOMAIN request
  <2>1. request' = request
      BY <1>1, <1>4 DEF Approve, Deny
  <2> QED BY <1>2, <2>1
<1> QED BY <1>2, <1>3, <1>4

\* Asking appends a row that gives nothing.
LEMMA CreatedRow ==
    ASSUME Inv, NEW p \in Permission, NEW e \in Expiry, CreateRequest(p, e)
    PROVE  /\ TypeOK' /\ GrantedOnApproval' /\ RowsKept
           /\ DOMAIN request \subseteq DOMAIN request'
           /\ \A i \in DOMAIN request : request'[i] = request[i]
           /\ \A i \in DOMAIN request' \ DOMAIN request : request'[i].grant = "NONE"
<1> DEFINE r == [permission |-> p, expires |-> e, status |-> "PENDING",
                 grant |-> "NONE", events |-> <<"REQUEST_CREATED">>]
<1>1. request \in Seq(AuthorityRequest) /\ request' = Append(request, r)
    BY DEF Inv, TypeOK, CreateRequest
<1>2. r \in AuthorityRequest /\ r.grant = "NONE"
  <2>1. <<"REQUEST_CREATED">> \in Seq(AuthorityEvent)
      BY DEF AuthorityEvent
  <2> QED BY <2>1 DEF AuthorityRequest, RequestStatus, GrantStatus
<1> HIDE DEF r
<1>3. /\ request' \in Seq(AuthorityRequest)
      /\ DOMAIN request' = DOMAIN request \cup {Len(request) + 1}
      /\ \A i \in DOMAIN request : request'[i] = request[i]
      /\ request'[Len(request) + 1] = r
    BY <1>1, <1>2
<1>4. TypeOK'
    BY <1>3 DEF Inv, TypeOK, CreateRequest
<1>5. GrantedOnApproval'
    BY <1>2, <1>3 DEF Inv, GrantedOnApproval
<1>6. RowsKept
    BY <1>3 DEF RowsKept
<1> QED BY <1>2, <1>3, <1>4, <1>5, <1>6

\* A revocation keeps what the rows have, but for the grants it takes back.
LEMMA RevokedRows ==
    ASSUME Inv, NEW c \in Call, RevokeUpdate(c)
    PROVE  TypeOK' /\ GrantedOnApproval' /\ RowsKept
<1> DEFINE new(i) == IF i \in call[c].found THEN Revoked(request[i]) ELSE request[i]
<1>1. /\ request \in Seq(AuthorityRequest)
      /\ \A i \in DOMAIN request : request[i] \in AuthorityRequest
      /\ request' = [i \in DOMAIN request |-> new(i)]
    BY DEF Inv, TypeOK, RevokeUpdate
<1>2. \A r \in AuthorityRequest :
          /\ Revoked(r) \in AuthorityRequest /\ Revoked(r).grant = "REVOKED"
          /\ Revoked(r).permission = r.permission /\ Revoked(r).expires = r.expires
          /\ Revoked(r).status = r.status
  <2> SUFFICES ASSUME NEW r \in AuthorityRequest
               PROVE  /\ Revoked(r) \in AuthorityRequest /\ Revoked(r).grant = "REVOKED"
                      /\ Revoked(r).permission = r.permission /\ Revoked(r).expires = r.expires
                      /\ Revoked(r).status = r.status
      OBVIOUS
  <2>1. Append(r.events, "GRANT_REVOKED") \in Seq(AuthorityEvent)
      BY DEF AuthorityRequest, AuthorityEvent
  <2> QED BY <2>1 DEF Revoked, AuthorityRequest, GrantStatus
<1>3. \A i \in DOMAIN request : call[c].found = call[c].found /\ new(i) \in AuthorityRequest
    BY <1>1, <1>2
<1>4. request' \in Seq(AuthorityRequest)
  <2>1. DOMAIN request = 1 .. Len(request) /\ Len(request) \in Nat
      BY <1>1
  <2> QED BY <1>1, <1>3, <2>1
<1>5. TypeOK'
    BY <1>4 DEF Inv, TypeOK, RevokeUpdate
<1>6. \A i \in call[c].found : i \in DOMAIN request /\ request[i].grant # "NONE"
    BY DEF Inv, RevokesAll, HasFound, RevokeUpdate, Gave
<1>7. GrantedOnApproval'
    BY <1>1, <1>2, <1>6 DEF Inv, GrantedOnApproval
<1>8. RowsKept
    BY <1>1, <1>2 DEF RowsKept
<1> QED BY <1>5, <1>7, <1>8

-----------------------------------------------------------------------------
(* The requests, step by step *)

\* What a revocation has found out stays true.
LEMMA OthersRevoke ==
    ASSUME RowsKept, RevokesAll, NEW d \in Call, call'[d] = call[d]
    PROVE  (Finds(d) /\ HasFound(d) /\ NamesRow(d))'
<1>1. CASE call[d].at = "revokeFind"
  <2> DEFINE k == call[d].i
  <2>1. k \in DOMAIN request
      BY <1>1 DEF RevokesAll, NamesRow
  <2>2. k \in DOMAIN request' /\ request'[k].permission = request[k].permission
      BY <2>1 DEF RowsKept
  <2>3. \A i \in call[d].before : Gave(i, request[k].permission)
      BY <1>1 DEF RevokesAll, Finds
  <2>4. \A i \in call[d].before :
            /\ i \in DOMAIN request' /\ request'[i].grant # "NONE"
            /\ request'[i].permission = request'[k].permission
      BY <2>2, <2>3 DEF Gave, RowsKept
  <2> QED BY <1>1, <2>2, <2>4 DEF Finds, HasFound, NamesRow, Gave
<1>2. CASE call[d].at = "revokeUpdate"
  <2>1. \A i \in call[d].found \cup call[d].before :
            i \in DOMAIN request /\ request[i].grant # "NONE"
      BY <1>2 DEF RevokesAll, HasFound, Gave
  <2>2. \A i \in call[d].found \cup call[d].before :
            i \in DOMAIN request' /\ request'[i].grant # "NONE"
      BY <2>1 DEF RowsKept
  <2>3. \A i \in call[d].before : i \in call[d].found \/ request[i].grant = "REVOKED"
      BY <1>2 DEF RevokesAll, HasFound
  <2>4. \A i \in call[d].before : i \in call[d].found \/ request'[i].grant = "REVOKED"
      BY <2>1, <2>3 DEF RowsKept
  <2> QED BY <1>2, <2>2, <2>4 DEF Finds, HasFound, NamesRow, Gave
<1>3. CASE call[d].at \notin {"revokeFind", "revokeUpdate"}
    BY <1>3 DEF Finds, HasFound, NamesRow
<1> QED BY <1>1, <1>2, <1>3

\* A request that goes on to no revocation leaves the revocations right.
LEMMA OneGoesOn ==
    ASSUME Inv, RowsKept, NEW c \in Call, NEW st \in CallState, Proceed(c, st),
           st.at \notin {"revokeFind", "revokeUpdate"}
    PROVE  CallOK' /\ RevokesAll'
<1>1. /\ call' \in [Call -> CallState] /\ call'[c] = st
      /\ \A d \in Call : d # c => call'[d] = call[d]
    BY DEF Inv, CallOK, Proceed
<1>2. ASSUME NEW d \in Call PROVE (Finds(d) /\ HasFound(d) /\ NamesRow(d))'
  <2>1. CASE d = c
      BY <1>1, <2>1 DEF Finds, HasFound, NamesRow
  <2>2. CASE d # c
      BY <1>1, <2>2, OthersRevoke DEF Inv
  <2> QED BY <2>1, <2>2
<1> QED BY <1>1, <1>2 DEF CallOK, RevokesAll

\* No request goes on.
LEMMA NoneGoesOn ==
    ASSUME Inv, RowsKept, UNCHANGED call
    PROVE  CallOK' /\ RevokesAll'
BY OthersRevoke DEF Inv, CallOK, RevokesAll

\* A step that leaves the rows alone keeps what they have.
LEMMA RowsAlone ==
    ASSUME Inv, UNCHANGED <<request>>, now' \in 0 .. MaxTime, owner' \in Person \cup {NoOwner},
           suspended' \subseteq Permission
    PROVE  TypeOK' /\ GrantedOnApproval' /\ RowsKept
BY DEF Inv, TypeOK, GrantedOnApproval, RowsKept

\* A revocation is asked for.
LEMMA RevokeReadStep ==
    ASSUME Inv, NEW c \in Call, NEW u \in Person, NEW i \in DOMAIN request, RevokeRead(c, u, i)
    PROVE  Inv'
<1> DEFINE st == [at |-> "revokeFind", i |-> i, before |-> ActiveGrants(request[i].permission)]
<1>1. TypeOK' /\ GrantedOnApproval' /\ RowsKept
    BY RowsAlone DEF RevokeRead, Inv, TypeOK
<1>2. DOMAIN request \subseteq Nat
    BY DEF Inv, TypeOK
<1>3. st \in CallState
    BY <1>2 DEF CallState, ActiveGrants
<1>4. /\ call' \in [Call -> CallState] /\ call'[c] = st
      /\ \A d \in Call : d # c => call'[d] = call[d]
    BY <1>3 DEF Inv, CallOK, Proceed, RevokeRead
<1>5. ASSUME NEW d \in Call PROVE (Finds(d) /\ HasFound(d) /\ NamesRow(d))'
  <2>1. CASE d = c
    <3>1. \A j \in st.before : Gave(j, request[i].permission)
        BY DEF ActiveGrants, Gave
    <3> QED BY <1>4, <2>1, <3>1 DEF RevokeRead, Finds, HasFound, NamesRow, Gave
  <2>2. CASE d # c
      BY <1>1, <1>4, <2>2, OthersRevoke DEF Inv
  <2> QED BY <2>1, <2>2
<1> QED BY <1>1, <1>4, <1>5 DEF Inv, CallOK, RevokesAll

\* The grants to take back are found.
LEMMA RevokeFindStep ==
    ASSUME Inv, NEW c \in Call, RevokeFind(c)
    PROVE  Inv'
<1> DEFINE k == call[c].i
           found == ActiveGrants(request[k].permission)
           st == [at |-> "revokeUpdate", found |-> found, before |-> call[c].before]
<1>1. TypeOK' /\ GrantedOnApproval' /\ RowsKept
    BY RowsAlone DEF RevokeFind, Inv, TypeOK
<1>2. CASE found = {}
  <2>1. Proceed(c, Idle) /\ Idle \in CallState /\ Idle.at \notin {"revokeFind", "revokeUpdate"}
      BY <1>2 DEF RevokeFind, CallState, Idle
  <2> QED BY <1>1, <2>1, OneGoesOn DEF Inv
<1>3. CASE found # {}
  <2>1. DOMAIN request \subseteq Nat /\ call[c] \in CallState /\ call[c].at = "revokeFind"
      BY DEF Inv, TypeOK, CallOK, RevokeFind
  <2>2. st \in CallState
      BY <2>1 DEF CallState, ActiveGrants, Idle
  <2>3. /\ call' \in [Call -> CallState] /\ call'[c] = st
        /\ \A d \in Call : d # c => call'[d] = call[d]
        /\ request' = request
      BY <1>3, <2>2 DEF Inv, CallOK, Proceed, RevokeFind
  <2>4. ASSUME NEW d \in Call PROVE (Finds(d) /\ HasFound(d) /\ NamesRow(d))'
    <3>1. CASE d = c
      <4>1. \A j \in call[c].before : Gave(j, request[k].permission)
          BY <2>1 DEF Inv, RevokesAll, Finds
      <4>2. \A j \in call[c].before : request[j].grant \in GrantStatus
        <5>1. \A j \in DOMAIN request : request[j] \in AuthorityRequest
            BY DEF Inv, TypeOK
        <5> QED BY <4>1, <5>1 DEF Gave, AuthorityRequest
      <4>3. \A j \in call[c].before : j \in found \/ request[j].grant = "REVOKED"
          BY <4>1, <4>2 DEF Gave, ActiveGrants, GrantStatus
      <4>4. \A j \in found : Gave(j, request[j].permission)
          BY DEF ActiveGrants, Gave
      <4>5. \A j \in call[c].before : Gave(j, request[j].permission)
          BY <4>1 DEF Gave
      <4>6. HasFound(c)'
          BY <2>3, <4>3, <4>4, <4>5 DEF HasFound, Gave
      <4> QED BY <2>3, <3>1, <4>6 DEF Finds, NamesRow
    <3>2. CASE d # c
        BY <1>1, <2>3, <3>2, OthersRevoke DEF Inv
    <3> QED BY <3>1, <3>2
  <2> QED BY <1>1, <2>3, <2>4 DEF Inv, CallOK, RevokesAll
<1> QED BY <1>2, <1>3

\* The other requests: they leave the rows alone, or decide.
LEMMA OtherStep ==
    ASSUME Inv, NEW c \in Call,
           \/ \E u \in Person, i \in DOMAIN request :
                  DecideRead(c, u, i, "approve") \/ DecideRead(c, u, i, "deny")
           \/ \E u \in Person, p \in Permission :
                  ControlRead(c, u, p, "suspend") \/ ControlRead(c, u, p, "resume")
           \/ ApproveCheck(c) \/ Approve(c) \/ Deny(c) \/ RevokeUpdate(c)
           \/ Suspend(c) \/ ResumeCheck(c) \/ Resume(c) \/ Abandon(c)
    PROVE  Inv' /\ RowsKept
<1>1. PICK st \in CallState : Proceed(c, st) /\ st.at \notin {"revokeFind", "revokeUpdate"}
  <2>1. Idle \in CallState /\ Idle.at \notin {"revokeFind", "revokeUpdate"}
      BY DEF CallState, Idle
  <2>2. ASSUME NEW u \in Person, NEW i \in DOMAIN request, NEW d \in {"approve", "deny"}
        PROVE  LET s == [at |-> d, by |-> u, i |-> i]
               IN s \in CallState /\ s.at \notin {"revokeFind", "revokeUpdate"}
    <3>1. i \in Nat
        BY DEF Inv, TypeOK
    <3> QED BY <3>1 DEF CallState
  <2>3. ASSUME NEW u \in Person, NEW p \in Permission, NEW d \in {"suspend", "resume"}
        PROVE  LET s == [at |-> d, by |-> u, permission |-> p]
               IN s \in CallState /\ s.at \notin {"revokeFind", "revokeUpdate"}
      BY DEF CallState
  <2>4. CASE ApproveCheck(c)
    <3> DEFINE s == [at |-> "approveClaim", by |-> call[c].by, i |-> call[c].i]
    <3>1. call[c] \in CallState /\ call[c].at = "approve"
        BY <2>4 DEF Inv, CallOK, ApproveCheck
    <3>2. s \in CallState
        BY <3>1 DEF CallState, Idle
    <3>3. Proceed(c, s) \/ Proceed(c, Idle)
        BY <2>4 DEF ApproveCheck
    <3> QED BY <2>1, <3>2, <3>3
  <2>5. CASE ResumeCheck(c)
    <3> DEFINE s == [at |-> "resumeWrite", by |-> call[c].by, permission |-> call[c].permission]
    <3>1. call[c] \in CallState /\ call[c].at = "resume"
        BY <2>5 DEF Inv, CallOK, ResumeCheck
    <3>2. s \in CallState
        BY <3>1 DEF CallState, Idle
    <3>3. Proceed(c, s) \/ Proceed(c, Idle)
        BY <2>5 DEF ResumeCheck
    <3> QED BY <2>1, <3>2, <3>3
  <2> QED BY <2>1, <2>2, <2>3, <2>4, <2>5
          DEF DecideRead, ControlRead, Approve, Deny, RevokeUpdate, Suspend, Resume, Abandon
<1>2. TypeOK' /\ GrantedOnApproval' /\ RowsKept
  <2>1. CASE Approve(c) \/ Deny(c)
      BY <2>1, DecidedRows
  <2>2. CASE RevokeUpdate(c)
      BY <2>2, RevokedRows
  <2>3. CASE Suspend(c)
    <3>1. call[c] \in CallState /\ call[c].at = "suspend"
        BY <2>3 DEF Inv, CallOK, Suspend
    <3>2. call[c].permission \in Permission
        BY <3>1 DEF CallState, Idle
    <3> QED BY <2>3, <3>2, RowsAlone DEF Suspend, Inv, TypeOK
  <2>4. CASE Resume(c)
      BY <2>4, RowsAlone DEF Resume, Inv, TypeOK
  <2>5. CASE UNCHANGED <<now, owner, request, suspended>>
      BY <2>5, RowsAlone DEF Inv, TypeOK
  <2> QED BY <2>1, <2>2, <2>3, <2>4, <2>5
          DEF DecideRead, ControlRead, ApproveCheck, ResumeCheck, Abandon
<1> QED BY <1>1, <1>2, OneGoesOn DEF Inv

-----------------------------------------------------------------------------
(* The invariant *)

LEMMA InitInv == Init => Inv
<1> SUFFICES ASSUME Init PROVE Inv
    OBVIOUS
<1>1. request \in Seq(AuthorityRequest) /\ DOMAIN request = {}
    BY DEF Init
<1>2. TypeOK
    BY <1>1, BoundAssumption DEF Init, TypeOK
<1>3. CallOK
    BY DEF Init, CallOK, CallState
<1>4. RevokesAll
    BY DEF Init, RevokesAll, Finds, HasFound, NamesRow, Idle
<1> QED BY <1>1, <1>2, <1>3, <1>4 DEF Inv, GrantedOnApproval

LEMMA StepInv == Inv /\ [Next]_vars => Inv' /\ RowsKept
<1> SUFFICES ASSUME Inv, [Next]_vars PROVE Inv' /\ RowsKept
    OBVIOUS
<1>1. ASSUME NEW p \in Permission, NEW e \in Expiry, CreateRequest(p, e)
      PROVE  Inv' /\ RowsKept
  <2>1. UNCHANGED call
      BY <1>1 DEF CreateRequest
  <2> QED BY <1>1, <2>1, CreatedRow, NoneGoesOn DEF Inv
<1>2. ASSUME NEW c \in Call, NEW u \in Person, NEW i \in DOMAIN request, RevokeRead(c, u, i)
      PROVE  Inv' /\ RowsKept
  <2>1. request' = request
      BY <1>2 DEF RevokeRead
  <2> QED BY <1>2, <2>1, RevokeReadStep DEF RowsKept
<1>3. ASSUME NEW c \in Call, RevokeFind(c)
      PROVE  Inv' /\ RowsKept
  <2>1. request' = request
      BY <1>3 DEF RevokeFind
  <2> QED BY <1>3, <2>1, RevokeFindStep DEF RowsKept
<1>4. ASSUME LoseOwner \/ \E u \in Person : TransferOwnership(u)
      PROVE  Inv' /\ RowsKept
  <2>1. TypeOK' /\ GrantedOnApproval' /\ RowsKept
      BY <1>4, RowsAlone DEF TransferOwnership, LoseOwner, Inv, TypeOK
  <2> QED BY <1>4, <2>1, NoneGoesOn DEF TransferOwnership, LoseOwner, Inv
<1>5. CASE Tick
  <2>1. now' \in 0 .. MaxTime
      BY <1>5, BoundAssumption DEF Tick, Inv, TypeOK
  <2>2. TypeOK' /\ GrantedOnApproval' /\ RowsKept
      BY <1>5, <2>1, RowsAlone DEF Tick, Inv, TypeOK
  <2> QED BY <1>5, <2>2, NoneGoesOn DEF Tick, Inv
<1>6. CASE UNCHANGED vars
  <2>1. TypeOK' /\ GrantedOnApproval' /\ RowsKept
      BY <1>6, RowsAlone DEF vars, Inv, TypeOK
  <2> QED BY <1>6, <2>1, NoneGoesOn DEF vars, Inv
<1>7. CASE Request
    BY <1>1, <1>2, <1>7, OtherStep DEF Request
<1> QED BY <1>3, <1>4, <1>5, <1>6, <1>7, OtherStep DEF Next

LEMMA Invariance == Spec => []Inv
<1>1. Inv /\ [Next]_vars => Inv'
    BY StepInv
<1> QED BY InitInv, <1>1, PTL DEF Spec

\* The rows keep their shape.
THEOREM TypeCorrect == Spec => []TypeOK
<1>1. Inv => TypeOK
    BY DEF Inv
<1> QED BY <1>1, Invariance, PTL

-----------------------------------------------------------------------------
(* What a step may do *)

\* A revocation takes back the permission, not one row: whatever was active
\* when it was asked for is revoked when it is done, and stays so.
THEOREM RevocationIsComplete == Spec => RevokedIsGone
<1>1. ASSUME Inv, [Next]_vars, NEW c \in Call, RevokeFind(c), call'[c] = Idle,
             NEW i \in call[c].before
      PROVE  request'[i].grant = "REVOKED"
  <2> DEFINE found == ActiveGrants(request[call[c].i].permission)
  <2>1. request' = request /\ call[c].at = "revokeFind"
      BY <1>1 DEF RevokeFind
  <2>2. Gave(i, request[call[c].i].permission)
      BY <1>1, <2>1 DEF Inv, RevokesAll, Finds
  <2>3. found = {}
    <3>1. SUFFICES ASSUME found # {} PROVE FALSE
        OBVIOUS
    <3>2. call' = [call EXCEPT ![c] =
                      [at |-> "revokeUpdate", found |-> found, before |-> call[c].before]]
        BY <1>1, <3>1 DEF RevokeFind, Proceed
    <3>3. call'[c].at = "revokeUpdate"
        BY <1>1, <3>2 DEF Inv, CallOK
    <3> QED BY <1>1, <3>3 DEF Idle
  <2>4. request[i] \in AuthorityRequest
      BY <1>1, <2>2 DEF Gave, Inv, TypeOK
  <2>5. request[i].grant \in GrantStatus
      BY <2>4 DEF AuthorityRequest
  <2> QED BY <2>1, <2>2, <2>3, <2>5 DEF Gave, ActiveGrants, GrantStatus
<1>2. ASSUME Inv, [Next]_vars, NEW c \in Call, RevokeUpdate(c), NEW i \in call[c].before
      PROVE  request'[i].grant = "REVOKED"
  <2>1. /\ i \in call[c].found \/ request[i].grant = "REVOKED"
        /\ i \in DOMAIN request
      BY <1>2 DEF RevokeUpdate, Inv, RevokesAll, HasFound, Gave
  <2>2. request[i] \in AuthorityRequest
      BY <1>2, <2>1 DEF Inv, TypeOK
  <2>3. Revoked(request[i]).grant = "REVOKED"
      BY <2>2 DEF Revoked, AuthorityRequest
  <2> QED BY <1>2, <2>1, <2>3 DEF RevokeUpdate
<1>3. ASSUME Inv, [Next]_vars, NEW i \in DOMAIN request, request[i].grant = "REVOKED"
      PROVE  request'[i].grant = "REVOKED"
    BY <1>3, StepInv DEF RowsKept
<1>4. Inv /\ [Next]_vars =>
        [/\ \A c \in Call :
                (RevokeFind(c) /\ call'[c] = Idle) \/ RevokeUpdate(c) =>
                    \A i \in call[c].before : request'[i].grant = "REVOKED"
         /\ \A i \in DOMAIN request :
                request[i].grant = "REVOKED" => request'[i].grant = "REVOKED"]_<<request, call>>
    BY <1>1, <1>2, <1>3
<1> QED BY <1>4, Invariance, PTL DEF Spec, RevokedIsGone

\* Nothing but an approval gives a grant.
LEMMA OnlyApprovalGrants ==
    ASSUME Inv, Next, NEW i \in DOMAIN request,
           request[i].grant = "NONE", request'[i].grant # "NONE"
    PROVE  \E c \in Call : Approve(c)
<1>1. request' # request
    OBVIOUS
<1>2. ASSUME NEW p \in Permission, NEW e \in Expiry, CreateRequest(p, e) PROVE FALSE
    BY <1>2, CreatedRow
<1>3. ASSUME NEW c \in Call, RevokeUpdate(c) PROVE FALSE
  <2>1. request'[i] = IF i \in call[c].found THEN Revoked(request[i]) ELSE request[i]
      BY <1>3 DEF RevokeUpdate
  <2>2. i \in call[c].found => request[i].grant # "NONE"
      BY <1>3 DEF RevokeUpdate, Inv, RevokesAll, HasFound, Gave
  <2> QED BY <2>1, <2>2
<1>4. ASSUME NEW c \in Call, Deny(c) PROVE FALSE
  <2>1. request' = [request EXCEPT ![call[c].i] = Denied(request[call[c].i])]
      BY <1>1, <1>4 DEF Deny
  <2>2. request[i] \in AuthorityRequest /\ request \in Seq(AuthorityRequest)
      BY DEF Inv, TypeOK
  <2>3. request'[i] = request[i] \/ request'[i] = Denied(request[i])
      BY <2>1, <2>2
  <2> QED BY <2>2, <2>3, DecidedRow
<1> QED BY <1>1, <1>2, <1>3, <1>4
        DEF Next, Request, DecideRead, ControlRead, RevokeRead, RevokeFind, ApproveCheck,
            Suspend, ResumeCheck, Resume, Abandon, TransferOwnership, LoseOwner, Tick

\* What a request writes it has checked, and is nobody else's since: the lock
\* keeps the ownership from passing on, if not the owner from losing it.
Holds(c) ==
    /\ call[c].at \in {"approve", "approveClaim"} => call[c].i \in DOMAIN request
    /\ call[c].at = "approveClaim" =>
          NobodyElses(call[c].by, request[call[c].i].permission)
    /\ call[c].at = "resumeWrite" => NobodyElses(call[c].by, call[c].permission)

Holding == \A c \in Call : Holds(c)

\* While a transaction holds the lock nobody becomes the owner.
LEMMA NobodyNew == [Next]_vars => owner' \in {owner, NoOwner} \/ ~Locked
BY DEF Next, Request, CreateRequest, DecideRead, RevokeRead, ControlRead, ApproveCheck, Approve,
       Deny, RevokeFind, RevokeUpdate, Suspend, ResumeCheck, Resume, Abandon, TransferOwnership,
       LoseOwner, Tick, vars

\* A request that waits still holds what it has checked.
LEMMA HoldsStill ==
    ASSUME RowsKept, NEW c \in Call, Holds(c), owner' \in {owner, NoOwner} \/ ~Locked,
           call'[c] = call[c]
    PROVE  Holds(c)'
<1>1. ASSUME NEW p, NobodyElses(call[c].by, p), p \in OrganizationOwned => Locked
      PROVE  NobodyElses(call[c].by, p)'
    BY <1>1 DEF NobodyElses
<1>2. CASE call[c].at \in {"approve", "approveClaim"}
  <2> DEFINE i == call[c].i
  <2>1. i \in DOMAIN request
      BY <1>2 DEF Holds
  <2>2. i \in DOMAIN request' /\ request'[i].permission = request[i].permission
      BY <2>1 DEF RowsKept
  <2>3. ASSUME call[c].at = "approveClaim"
        PROVE  NobodyElses(call[c].by, request[i].permission)'
    <3>1. NobodyElses(call[c].by, request[i].permission)
        BY <2>3 DEF Holds
    <3>2. request[i].permission \in OrganizationOwned => Locked
        BY <2>3 DEF Locked, NeedsLock
    <3>3. PICK p : p = request[i].permission
        OBVIOUS
    <3>4. NobodyElses(call[c].by, p)'
        BY <1>1, <3>1, <3>2, <3>3
    <3> QED BY <2>2, <3>3, <3>4 DEF NobodyElses
  <2> QED BY <1>2, <2>2, <2>3 DEF Holds, NobodyElses
<1>3. CASE call[c].at = "resumeWrite"
  <2>1. NobodyElses(call[c].by, call[c].permission)
      BY <1>3 DEF Holds
  <2>2. call[c].permission \in OrganizationOwned => Locked
      BY <1>3 DEF Locked, NeedsLock
  <2>3. NobodyElses(call[c].by, call[c].permission)'
      BY <2>1, <2>2 DEF NobodyElses
  <2> QED BY <1>3, <2>3 DEF Holds, NobodyElses
<1>4. CASE call[c].at \notin {"approve", "approveClaim", "resumeWrite"}
    BY <1>4 DEF Holds
<1> QED BY <1>2, <1>3, <1>4

\* A request that goes on holds what it has just checked.
LEMMA HoldsNow ==
    ASSUME Inv, Holding, [Next]_vars, NEW c \in Call, call'[c] # call[c]
    PROVE  Holds(c)'
<1>1. ASSUME NEW st, Proceed(c, st) PROVE call'[c] = st
    BY <1>1 DEF Inv, CallOK, Proceed
<1>2. ASSUME NEW d \in Call, NEW st, Proceed(d, st) PROVE d = c
    BY <1>2 DEF Inv, CallOK, Proceed
<1>3. CASE call'[c].at \notin {"approve", "approveClaim", "resumeWrite"}
    BY <1>3 DEF Holds
<1>4. ASSUME NEW u \in Person, NEW i \in DOMAIN request, DecideRead(c, u, i, "approve")
      PROVE  Holds(c)'
    BY <1>1, <1>4 DEF DecideRead, Holds
<1>5. CASE ApproveCheck(c)
  <2> DEFINE i == call[c].i
  <2>1. i \in DOMAIN request
      BY <1>5 DEF ApproveCheck, Holding, Holds
  <2>2. CASE ~Controls(call[c].by, request[i].permission)
      BY <1>1, <1>5, <2>2 DEF ApproveCheck, Holds, Idle
  <2>3. CASE Controls(call[c].by, request[i].permission)
    <3>1. call'[c] = [at |-> "approveClaim", by |-> call[c].by, i |-> i]
        BY <1>1, <1>5, <2>3 DEF ApproveCheck
    <3>2. UNCHANGED <<request, owner>>
        BY <1>5 DEF ApproveCheck
    <3> QED BY <2>1, <2>3, <3>1, <3>2 DEF Holds, Controls, NobodyElses
  <2> QED BY <2>2, <2>3
<1>6. CASE ResumeCheck(c)
  <2> DEFINE p == call[c].permission
  <2>1. CASE ~Controls(call[c].by, p)
      BY <1>1, <1>6, <2>1 DEF ResumeCheck, Holds, Idle
  <2>2. CASE Controls(call[c].by, p)
    <3>1. call'[c] = [at |-> "resumeWrite", by |-> call[c].by, permission |-> p]
        BY <1>1, <1>6, <2>2 DEF ResumeCheck
    <3>2. UNCHANGED owner
        BY <1>6 DEF ResumeCheck
    <3> QED BY <2>2, <3>1, <3>2 DEF Holds, Controls, NobodyElses
  <2> QED BY <2>1, <2>2
<1>7. Next /\ Idle.at \notin {"approve", "approveClaim", "resumeWrite"}
    BY DEF vars, Idle
<1>8. ASSUME NEW d \in Call,
             \/ Approve(d) \/ Deny(d) \/ RevokeUpdate(d) \/ Suspend(d) \/ Resume(d) \/ Abandon(d)
      PROVE  Holds(c)'
  <2>1. Proceed(d, Idle)
      BY <1>8 DEF Approve, Deny, RevokeUpdate, Suspend, Resume, Abandon
  <2>2. call'[c] = Idle
      BY <1>1, <1>2, <2>1
  <2> QED BY <1>3, <1>7, <2>2
<1>9. ASSUME NEW d \in Call, RevokeFind(d) PROVE Holds(c)'
  <2>1. \/ Proceed(d, Idle)
        \/ \E found : Proceed(d, [at |-> "revokeUpdate", found |-> found,
                                  before |-> call[d].before])
      BY <1>9 DEF RevokeFind
  <2>2. d = c
      BY <1>2, <2>1
  <2>3. call'[c] = Idle \/ call'[c].at = "revokeUpdate"
    <3>1. CASE Proceed(d, Idle)
        BY <1>1, <2>2, <3>1
    <3>2. ASSUME NEW found, Proceed(d, [at |-> "revokeUpdate", found |-> found,
                                       before |-> call[d].before])
          PROVE  call'[c].at = "revokeUpdate"
        BY <1>1, <2>2, <3>2
    <3> QED BY <2>1, <3>1, <3>2
  <2> QED BY <1>3, <1>7, <2>3
<1>10. CASE Request
  <2>1. ASSUME NEW d \in Call, NEW u \in Person, NEW i \in DOMAIN request,
               DecideRead(d, u, i, "deny") \/ RevokeRead(d, u, i)
        PROVE  Holds(c)'
    <3>1. call'[c].at \in {"deny", "revokeFind"}
        BY <1>1, <1>2, <2>1 DEF DecideRead, RevokeRead
    <3> QED BY <1>3, <3>1
  <2>2. ASSUME NEW d \in Call, NEW u \in Person, NEW p \in Permission,
               ControlRead(d, u, p, "suspend") \/ ControlRead(d, u, p, "resume")
        PROVE  Holds(c)'
    <3>1. call'[c].at \in {"suspend", "resume"}
        BY <1>1, <1>2, <2>2 DEF ControlRead
    <3> QED BY <1>3, <3>1
  <2>3. ASSUME NEW d \in Call, NEW u \in Person, NEW i \in DOMAIN request,
               DecideRead(d, u, i, "approve")
        PROVE  Holds(c)'
    <3>1. d = c
        BY <1>2, <2>3 DEF DecideRead
    <3> QED BY <1>4, <2>3, <3>1
  <2> QED BY <1>10, <2>1, <2>2, <2>3 DEF Request, CreateRequest
<1>11. ASSUME NEW d \in Call, ApproveCheck(d) \/ ResumeCheck(d) PROVE Holds(c)'
  <2>1. d = c
    <3>1. \E st : Proceed(d, st)
        BY <1>11 DEF ApproveCheck, ResumeCheck
    <3> QED BY <1>2, <3>1
  <2> QED BY <1>5, <1>6, <1>11, <2>1
<1> QED BY <1>7, <1>8, <1>9, <1>10, <1>11 DEF Next, TransferOwnership, LoseOwner, Tick

LEMMA HoldingStep == Inv /\ Holding /\ [Next]_vars => Holding'
BY StepInv, NobodyNew, HoldsStill, HoldsNow DEF Holding

\* Authority does not cross a change of ownership: a grant comes into being,
\* from a pending request, and a capability is restored, only by the decision
\* of one whose permission it was and whose place nobody has taken since.
THEOREM ApprovalsAreCurrent == Spec => ApprovalIsCurrent
<1>1. ASSUME Inv, Holding, Next, NEW i \in DOMAIN request,
             request[i].grant = "NONE", request'[i].grant # "NONE"
      PROVE  /\ request[i].status = "PENDING"
             /\ \E c \in Call : /\ call[c].at = "approveClaim" /\ call[c].i = i
                                /\ call'[c] = Idle
                                /\ NobodyElses(call[c].by, request[i].permission)
  <2>1. PICK c \in Call : Approve(c)
      BY <1>1, OnlyApprovalGrants
  <2> DEFINE k == call[c].i
  <2>2. request' # request
      BY <1>1
  <2>3. /\ request[k].status = "PENDING"
        /\ request' = [request EXCEPT ![k] = Approved(request[k])]
      BY <2>1, <2>2 DEF Approve
  <2>4. request \in Seq(AuthorityRequest)
      BY <1>1 DEF Inv, TypeOK
  <2>5. k = i
      BY <1>1, <2>3, <2>4
  <2>6. call[c].at = "approveClaim" /\ call'[c] = Idle
      BY <1>1, <2>1 DEF Approve, Proceed, Inv, CallOK
  <2>7. NobodyElses(call[c].by, request[i].permission)
      BY <1>1, <2>5, <2>6 DEF Holding, Holds
  <2> QED BY <2>3, <2>5, <2>6, <2>7
<1>2. ASSUME Inv, Holding, Next, NEW p \in suspended \ suspended'
      PROVE  \E c \in Call : /\ call[c].at = "resumeWrite" /\ call[c].permission = p
                             /\ call'[c] = Idle
                             /\ NobodyElses(call[c].by, p)
  <2>1. PICK c \in Call : Resume(c)
      BY <1>2 DEF Next, Request, CreateRequest, DecideRead, ControlRead, RevokeRead, ApproveCheck,
                  Approve, Deny, RevokeFind, RevokeUpdate, Suspend, ResumeCheck, Abandon,
                  TransferOwnership, LoseOwner, Tick
  <2>2. call[c].at = "resumeWrite" /\ call'[c] = Idle /\ call[c].permission = p
      BY <1>2, <2>1 DEF Resume, Proceed, Inv, CallOK
  <2> QED BY <1>2, <2>2 DEF Holding, Holds
<1>3. Inv /\ Holding /\ [Next]_vars =>
        [/\ \A i \in DOMAIN request :
               request[i].grant = "NONE" /\ request'[i].grant # "NONE" =>
                   /\ request[i].status = "PENDING"
                   /\ \E c \in Call : /\ call[c].at = "approveClaim" /\ call[c].i = i
                                      /\ call'[c] = Idle
                                      /\ NobodyElses(call[c].by, request[i].permission)
         /\ \A p \in suspended \ suspended' :
               \E c \in Call : /\ call[c].at = "resumeWrite" /\ call[c].permission = p
                              /\ call'[c] = Idle
                              /\ NobodyElses(call[c].by, p)]_<<request, suspended, call>>
    BY <1>1, <1>2 DEF vars
<1>4. Init => Holding
  <2>1. ASSUME Init, NEW c \in Call PROVE call[c].at = "idle"
      BY <2>1 DEF Init, Idle
  <2> QED BY <2>1 DEF Holding, Holds
<1> QED BY <1>3, <1>4, HoldingStep, Invariance, PTL DEF Spec, ApprovalIsCurrent

-----------------------------------------------------------------------------
(* The gate *)

\* Rows whose grants stay as they are grant what they did.
LEMMA SameGrants ==
    ASSUME now' = now, NEW i \in DOMAIN request, i \in DOMAIN request',
           request'[i].permission = request[i].permission,
           request'[i].expires = request[i].expires,
           request'[i].grant = request[i].grant, NEW p
    PROVE  i \in Permitting(p)' <=> i \in Permitting(p)
BY DEF Permitting, ActiveGrants, Expired

\* Where no row permits more than before, nothing is granted.
LEMMA Withdrawing ==
    ASSUME suspended' = suspended, \A p \in Permission : Permitting(p)' \subseteq Permitting(p)
    PROVE  [Gate!GateNext]_(Gate!gateVars)
<1>1. Granted' \subseteq Granted
    BY DEF Granted
<1>2. CASE Granted' = Granted
    BY <1>2 DEF Gate!gateVars
<1>3. CASE Granted' # Granted
  <2>1. Granted' = Granted \ (Granted \ Granted') /\ Granted \ Granted' # {}
      BY <1>1, <1>3
  <2>2. Gate!Withdraw(Granted \ Granted')
      BY <2>1 DEF Gate!Withdraw
  <2> QED BY <2>2 DEF Gate!GateNext
<1> QED BY <1>2, <1>3

\* An approval grants its permission, or what was granted already.
LEMMA Granting ==
    ASSUME Inv, NEW c \in Call, Approve(c)
    PROVE  [Gate!GateNext]_(Gate!gateVars)
<1> DEFINE k == call[c].i
<1>1. CASE request' = request
    BY <1>1 DEF Approve, Gate!gateVars, Granted, Permitting, ActiveGrants, Expired
<1>2. CASE request' # request
  <2>1. /\ request' = [request EXCEPT ![k] = Approved(request[k])]
        /\ request[k].status = "PENDING"
        /\ UNCHANGED <<now, suspended>>
      BY <1>2 DEF Approve
  <2>2. /\ request \in Seq(AuthorityRequest) /\ k \in DOMAIN request
        /\ request[k] \in AuthorityRequest /\ request[k].permission \in Permission
    <3>1. request \in Seq(AuthorityRequest)
        BY DEF Inv, TypeOK
    <3>2. k \in DOMAIN request
        BY <1>2, <2>1, <3>1
    <3>3. request[k] \in AuthorityRequest
        BY <3>1, <3>2
    <3> QED BY <3>1, <3>2, <3>3 DEF AuthorityRequest
  <2>0. PICK q \in Permission : q = request[k].permission
      BY <2>2
  <2>3. /\ DOMAIN request' = DOMAIN request /\ request'[k] = Approved(request[k])
        /\ \A i \in DOMAIN request : i # k => request'[i] = request[i]
      BY <2>1, <2>2
  <2>4. /\ request'[k].permission = q /\ request'[k].expires = request[k].expires
        /\ request'[k].grant = "ACTIVE"
      BY <2>0, <2>2, <2>3, DecidedRow
  <2>5. \A p : \A i \in DOMAIN request : i # k => (i \in Permitting(p)' <=> i \in Permitting(p))
      BY <2>1, <2>3 DEF Permitting, ActiveGrants, Expired
  <2>6. \A p : p # q => k \notin Permitting(p)' /\ k \notin Permitting(p)
      BY <2>0, <2>4 DEF Permitting, ActiveGrants
  <2>7. \A p : p # q => Permitting(p)' = Permitting(p)
    <3>1. \A p : /\ Permitting(p) \subseteq DOMAIN request
                 /\ Permitting(p)' \subseteq DOMAIN request
        BY <2>3 DEF Permitting, ActiveGrants
    <3> QED BY <2>5, <2>6, <3>1
  <2>8. Permitting(q) \subseteq Permitting(q)'
    <3>1. k \notin Permitting(q)
        BY <2>1, <2>2 DEF Permitting, ActiveGrants, Inv, GrantedOnApproval
    <3>2. Permitting(q) \subseteq DOMAIN request
        BY DEF Permitting, ActiveGrants
    <3> QED BY <2>5, <3>1, <3>2
  <2>9. ASSUME NEW p \in Permission
        PROVE  p \in Granted' <=> p \in Granted \/ (p = q /\ Permitting(q)' # {})
    <3>1. CASE p = q
      <4>1. p \in Granted => Permitting(q) # {}
          BY <3>1 DEF Granted
      <4>2. p \in Granted' <=> Permitting(q)' # {}
          BY <3>1 DEF Granted
      <4> QED BY <2>8, <3>1, <4>1, <4>2
    <3>2. CASE p # q
      <4>1. Permitting(p)' = Permitting(p)
          BY <2>7, <3>2
      <4> QED BY <3>2, <4>1 DEF Granted
    <3> QED BY <3>1, <3>2
  <2>10. Granted \subseteq Permission /\ Granted' \subseteq Permission
      BY DEF Granted
  <2>11. Granted' = Granted \/ (q \notin Granted /\ Granted' = Granted \cup {q})
      BY <2>2, <2>9, <2>10
  <2> QED BY <2>1, <2>2, <2>11 DEF Gate!gateVars, Gate!GateNext, Gate!Grant
<1> QED BY <1>1, <1>2

\* Every step grants, withdraws, suspends or resumes, or does none of these.
LEMMA GateStep == Inv /\ [Next]_vars => [Gate!GateNext]_(Gate!gateVars)
<1> SUFFICES ASSUME Inv, [Next]_vars PROVE [Gate!GateNext]_(Gate!gateVars)
    OBVIOUS
<1>1. CASE UNCHANGED <<now, request, suspended>>
    BY <1>1 DEF Gate!gateVars, Granted, Permitting, ActiveGrants, Expired
<1>2. ASSUME NEW p \in Permission, NEW e \in Expiry, CreateRequest(p, e)
      PROVE  [Gate!GateNext]_(Gate!gateVars)
  <2>1. \A q : Permitting(q)' \subseteq Permitting(q)
      BY <1>2, CreatedRow DEF Permitting, ActiveGrants, Expired, CreateRequest
  <2> QED BY <1>2, <2>1, Withdrawing DEF CreateRequest
<1>3. ASSUME NEW c \in Call, Approve(c)
      PROVE  [Gate!GateNext]_(Gate!gateVars)
    BY <1>3, Granting
<1>4. ASSUME NEW c \in Call, Deny(c)
      PROVE  [Gate!GateNext]_(Gate!gateVars)
  <2>1. \/ request' = request
        \/ request' = [request EXCEPT ![call[c].i] = Denied(request[call[c].i])]
      BY <1>4 DEF Deny
  <2>2. /\ request \in Seq(AuthorityRequest)
        /\ \A i \in DOMAIN request : request[i] \in AuthorityRequest
      BY DEF Inv, TypeOK
  <2>3. /\ DOMAIN request' = DOMAIN request
        /\ \A i \in DOMAIN request : request'[i] = request[i] \/ request'[i] = Denied(request[i])
      BY <2>1, <2>2
  <2>4. \A i \in DOMAIN request : /\ request'[i].permission = request[i].permission
                                  /\ request'[i].expires = request[i].expires
                                  /\ request'[i].grant = request[i].grant
      BY <2>2, <2>3, DecidedRow
  <2>5. \A q : Permitting(q)' \subseteq Permitting(q)
      BY <1>4, <2>3, <2>4 DEF Permitting, ActiveGrants, Expired, Deny
  <2> QED BY <1>4, <2>5, Withdrawing DEF Deny
<1>5. ASSUME NEW c \in Call, RevokeUpdate(c)
      PROVE  [Gate!GateNext]_(Gate!gateVars)
  <2>1. \A i \in DOMAIN request :
            request'[i] = IF i \in call[c].found THEN Revoked(request[i]) ELSE request[i]
      BY <1>5 DEF RevokeUpdate
  <2>2. \A i \in DOMAIN request : i \in call[c].found => request'[i].grant = "REVOKED"
    <3>1. \A i \in DOMAIN request : request[i] \in AuthorityRequest
        BY DEF Inv, TypeOK
    <3> QED BY <2>1, <3>1 DEF Revoked, AuthorityRequest
  <2>3. \A q : Permitting(q)' \subseteq Permitting(q)
    <3>1. DOMAIN request' = DOMAIN request /\ now' = now
        BY <1>5 DEF RevokeUpdate
    <3> QED BY <2>1, <2>2, <3>1 DEF Permitting, ActiveGrants, Expired
  <2> QED BY <1>5, <2>3, Withdrawing DEF RevokeUpdate
<1>6. CASE Tick
  <2>1. \A e \in Expiry : Expired(e) => Expired(e)'
      BY <1>6, ExpiryAssumption DEF Expired, Tick, Inv, TypeOK
  <2>2. \A i \in DOMAIN request : request[i].expires \in Expiry
    <3>1. \A i \in DOMAIN request : request[i] \in AuthorityRequest
        BY DEF Inv, TypeOK
    <3> QED BY <3>1 DEF AuthorityRequest
  <2>3. \A q : Permitting(q)' \subseteq Permitting(q)
      BY <1>6, <2>1, <2>2 DEF Permitting, ActiveGrants, Tick
  <2> QED BY <1>6, <2>3, Withdrawing DEF Tick
<1>7. ASSUME NEW c \in Call, Suspend(c)
      PROVE  [Gate!GateNext]_(Gate!gateVars)
  <2>1. call[c] \in CallState /\ call[c].at = "suspend"
      BY <1>7 DEF Inv, CallOK, Suspend
  <2>2. call[c].permission \in Permission
      BY <2>1 DEF CallState, Idle
  <2>3. Granted' = Granted
      BY <1>7 DEF Suspend, Granted, Permitting, ActiveGrants, Expired
  <2> QED BY <1>7, <2>2, <2>3 DEF Suspend, Gate!GateNext, Gate!Suspend
<1>8. ASSUME NEW c \in Call, Resume(c)
      PROVE  [Gate!GateNext]_(Gate!gateVars)
  <2>1. call[c] \in CallState /\ call[c].at = "resumeWrite"
      BY <1>8 DEF Inv, CallOK, Resume
  <2>2. call[c].permission \in Permission
      BY <2>1 DEF CallState, Idle
  <2>3. Granted' = Granted
      BY <1>8 DEF Resume, Granted, Permitting, ActiveGrants, Expired
  <2> QED BY <1>8, <2>2, <2>3 DEF Resume, Gate!GateNext, Gate!Resume, Gate!gateVars
<1>9. CASE Request
  <2>1. ASSUME NEW c, NEW u, NEW i, NEW decision, DecideRead(c, u, i, decision)
        PROVE  [Gate!GateNext]_(Gate!gateVars)
      BY <1>1, <2>1 DEF DecideRead
  <2>2. ASSUME NEW c, NEW u, NEW i, RevokeRead(c, u, i)
        PROVE  [Gate!GateNext]_(Gate!gateVars)
      BY <1>1, <2>2 DEF RevokeRead
  <2>3. ASSUME NEW c, NEW u, NEW p, NEW control, ControlRead(c, u, p, control)
        PROVE  [Gate!GateNext]_(Gate!gateVars)
      BY <1>1, <2>3 DEF ControlRead
  <2> QED BY <1>2, <1>9, <2>1, <2>2, <2>3 DEF Request
<1>10. ASSUME NEW c \in Call, ApproveCheck(c) \/ RevokeFind(c) \/ ResumeCheck(c) \/ Abandon(c)
      PROVE  [Gate!GateNext]_(Gate!gateVars)
    BY <1>1, <1>10 DEF ApproveCheck, RevokeFind, ResumeCheck, Abandon
<1>11. ASSUME LoseOwner \/ \E u \in Person : TransferOwnership(u)
      PROVE  [Gate!GateNext]_(Gate!gateVars)
    BY <1>1, <1>11 DEF TransferOwnership, LoseOwner
<1>12. CASE UNCHANGED vars
    BY <1>1, <1>12 DEF vars
<1> QED BY <1>3, <1>4, <1>5, <1>6, <1>7, <1>8, <1>9, <1>10, <1>11, <1>12 DEF Next

\* To who asks, the service is the gate.
THEOREM Implementation == Spec => ImplementsGate
<1>1. Init => Gate!GateInit
    BY DEF Init, Gate!GateInit, Granted, Permitting, ActiveGrants
<1>2. Spec => Gate!GateSpec
    BY <1>1, GateStep, Invariance, PTL DEF Spec, Gate!GateSpec
<1> QED BY <1>2 DEF ImplementsGate

-----------------------------------------------------------------------------
(* What the events of a request tell *)

\* The events begin with those of the decision, and what follows are revocations.
BeginWith(events, decided) ==
    /\ DOMAIN decided \subseteq DOMAIN events
    /\ \A k \in DOMAIN events :
          events[k] = IF k <= Len(decided) THEN decided[k] ELSE "GRANT_REVOKED"

\* The events of a row tell what it came to.
Recorded(r) ==
    /\ BeginWith(r.events, Deciding(r.status))
    /\ Len(r.events) > Len(Deciding(r.status)) <=> r.grant = "REVOKED"
    /\ r.grant = "NONE" <=> r.status # "APPROVED"

\* Without a revocation the events are those of the decision.
LEMMA RecordedUnrevoked ==
    ASSUME NEW r \in AuthorityRequest, r.grant # "REVOKED"
    PROVE  Recorded(r) <=> /\ r.events = Deciding(r.status)
                           /\ r.grant = "NONE" <=> r.status # "APPROVED"
<1>1. PICK decided : decided = Deciding(r.status)
    OBVIOUS
<1>2. PICK events : events = r.events
    OBVIOUS
<1>3. events \in Seq(AuthorityEvent)
    BY <1>2 DEF AuthorityRequest
<1>4. decided \in Seq(AuthorityEvent)
  <2>1. r.status \in {"PENDING", "APPROVED", "DENIED"}
      BY DEF AuthorityRequest, RequestStatus
  <2>2. CASE r.status = "PENDING"
      BY <1>1, <2>2 DEF Deciding, AuthorityEvent
  <2>3. CASE r.status = "APPROVED"
      BY <1>1, <2>3 DEF Deciding, AuthorityEvent
  <2>4. CASE r.status = "DENIED"
      BY <1>1, <2>4 DEF Deciding, AuthorityEvent
  <2> QED BY <2>1, <2>2, <2>3, <2>4
<1>5. ASSUME events = decided
      PROVE  BeginWith(events, decided) /\ ~(Len(events) > Len(decided))
    BY <1>3, <1>5 DEF BeginWith
<1>6. ASSUME BeginWith(events, decided), ~(Len(events) > Len(decided))
      PROVE  events = decided
  <2>1. Len(events) \in Nat /\ Len(decided) \in Nat
      BY <1>3, <1>4
  <2>2. DOMAIN events = 1 .. Len(events) /\ DOMAIN decided = 1 .. Len(decided)
      BY <1>3, <1>4
  <2>3. Len(decided) <= Len(events)
    <3>1. CASE Len(decided) = 0
        BY <2>1, <3>1
    <3>2. CASE Len(decided) # 0
      <4>1. Len(decided) \in DOMAIN decided
          BY <2>1, <2>2, <3>2
      <4>2. Len(decided) \in 1 .. Len(events)
          BY <1>6, <2>2, <4>1 DEF BeginWith
      <4> QED BY <2>1, <4>2
    <3> QED BY <3>1, <3>2
  <2>4. Len(events) = Len(decided)
      BY <1>6, <2>1, <2>3
  <2>5. \A k \in 1 .. Len(events) : events[k] = decided[k]
      BY <1>6, <2>1, <2>2, <2>4 DEF BeginWith
  <2> QED BY <1>3, <1>4, <2>4, <2>5
<1> QED BY <1>1, <1>2, <1>5, <1>6 DEF Recorded

LEMMA RecordedNew ==
    ASSUME NEW r \in AuthorityRequest, r.status = "PENDING", r.grant = "NONE",
           r.events = <<"REQUEST_CREATED">>
    PROVE  Recorded(r)
BY RecordedUnrevoked DEF Deciding

LEMMA Beginnings ==
    ASSUME NEW a \in AuthorityEvent, NEW b \in AuthorityEvent, NEW c \in AuthorityEvent
    PROVE  <<a>> \o <<b, c>> = <<a, b, c>> /\ <<a>> \o <<b>> = <<a, b>>
<1>1. PICK s : s = <<a>> \o <<b, c>>
    OBVIOUS
<1>2. PICK t : t = <<a>> \o <<b>>
    OBVIOUS
<1>3. /\ <<a>> \in Seq(AuthorityEvent) /\ <<b, c>> \in Seq(AuthorityEvent)
      /\ <<b>> \in Seq(AuthorityEvent)
      /\ <<a, b, c>> \in Seq(AuthorityEvent) /\ <<a, b>> \in Seq(AuthorityEvent)
    OBVIOUS
<1>4. /\ s \in Seq(AuthorityEvent) /\ Len(s) = 3
      /\ t \in Seq(AuthorityEvent) /\ Len(t) = 2
    BY <1>1, <1>2, <1>3
<1>5. s[1] = a /\ s[2] = b /\ s[3] = c /\ t[1] = a /\ t[2] = b
    BY <1>1, <1>2, <1>3
<1>6. s = <<a, b, c>>
    BY <1>3, <1>4, <1>5
<1>7. t = <<a, b>>
    BY <1>3, <1>4, <1>5
<1> QED BY <1>1, <1>2, <1>6, <1>7

\* A request is decided while it is pending.
LEMMA RecordedDecided ==
    ASSUME NEW r \in AuthorityRequest, r.status = "PENDING", Recorded(r)
    PROVE  Recorded(Approved(r)) /\ Recorded(Denied(r))
<1>1. r.grant = "NONE"
    BY DEF Recorded
<1>2. r.events = <<"REQUEST_CREATED">>
    BY <1>1, RecordedUnrevoked DEF Deciding
<1>3. /\ Approved(r) \in AuthorityRequest /\ Denied(r) \in AuthorityRequest
      /\ Approved(r).status = "APPROVED" /\ Denied(r).status = "DENIED"
      /\ Approved(r).grant = "ACTIVE" /\ Denied(r).grant = "NONE"
    BY <1>1, DecidedRow
<1>4. /\ Approved(r).events = r.events \o <<"REQUEST_APPROVED", "GRANT_CREATED">>
      /\ Denied(r).events = r.events \o <<"REQUEST_DENIED">>
    BY DEF Approved, Denied, Decided, AuthorityRequest
<1>5. /\ Approved(r).events = <<"REQUEST_CREATED", "REQUEST_APPROVED", "GRANT_CREATED">>
      /\ Denied(r).events = <<"REQUEST_CREATED", "REQUEST_DENIED">>
  <2>1. /\ <<"REQUEST_CREATED">> \o <<"REQUEST_APPROVED", "GRANT_CREATED">>
              = <<"REQUEST_CREATED", "REQUEST_APPROVED", "GRANT_CREATED">>
        /\ <<"REQUEST_CREATED">> \o <<"REQUEST_DENIED">> = <<"REQUEST_CREATED", "REQUEST_DENIED">>
      BY Beginnings DEF AuthorityEvent
  <2> QED BY <1>2, <1>4, <2>1
<1>6. Approved(r).events = Deciding("APPROVED") /\ Denied(r).events = Deciding("DENIED")
    BY <1>5 DEF Deciding
<1> QED BY <1>3, <1>6, RecordedUnrevoked

\* Each revocation is recorded after the decision.
LEMMA RecordedRevoked ==
    ASSUME NEW r \in AuthorityRequest, r.grant # "NONE", Recorded(r)
    PROVE  Recorded(Revoked(r))
<1>1. PICK new : new = Revoked(r)
    OBVIOUS
<1>2. PICK decided : decided = Deciding(r.status)
    OBVIOUS
<1>3. /\ new.status = r.status /\ new.grant = "REVOKED"
      /\ new.events = Append(r.events, "GRANT_REVOKED")
    BY <1>1 DEF Revoked, AuthorityRequest
<1>4. r.status = "APPROVED" /\ r.events \in Seq(AuthorityEvent)
    BY DEF Recorded, AuthorityRequest
<1>5. /\ DOMAIN decided \subseteq DOMAIN r.events
      /\ \A k \in DOMAIN r.events :
            r.events[k] = IF k <= Len(decided) THEN decided[k] ELSE "GRANT_REVOKED"
    BY <1>2 DEF Recorded, BeginWith
<1>6. Len(decided) = 3 /\ DOMAIN decided = {1, 2, 3}
    BY <1>2, <1>4 DEF Deciding
<1>7. PICK n \in Nat : n = Len(r.events)
    BY <1>4
<1>8. /\ DOMAIN r.events = 1 .. n /\ DOMAIN new.events = 1 .. (n + 1)
      /\ Len(new.events) = n + 1
      /\ \A k \in 1 .. n : new.events[k] = r.events[k]
      /\ new.events[n + 1] = "GRANT_REVOKED"
    BY <1>3, <1>4, <1>7
<1>9. 3 <= n
  <2>1. 3 \in 1 .. n
      BY <1>5, <1>6, <1>8
  <2> QED BY <2>1
<1>10. DOMAIN decided \subseteq DOMAIN new.events
    BY <1>6, <1>8, <1>9
<1>11. \A k \in DOMAIN new.events :
            new.events[k] = IF k <= Len(decided) THEN decided[k] ELSE "GRANT_REVOKED"
  <2>1. \A k \in 1 .. (n + 1) : k \in 1 .. n \/ k = n + 1
      OBVIOUS
  <2>2. ~(n + 1 <= Len(decided))
      BY <1>6, <1>9
  <2> QED BY <1>5, <1>8, <2>1, <2>2
<1>12. Len(new.events) > Len(decided)
    BY <1>6, <1>8, <1>9
<1>13. Recorded(new)
    BY <1>2, <1>3, <1>4, <1>10, <1>11, <1>12 DEF Recorded, BeginWith
<1> QED BY <1>1, <1>13

AllRecorded == \A i \in DOMAIN request : Recorded(request[i])

LEMMA RecordedStep == Inv /\ AllRecorded /\ [Next]_vars => AllRecorded'
<1> SUFFICES ASSUME Inv, AllRecorded, [Next]_vars PROVE AllRecorded'
    OBVIOUS
<1>1. /\ request \in Seq(AuthorityRequest)
      /\ \A i \in DOMAIN request : request[i] \in AuthorityRequest /\ Recorded(request[i])
    BY DEF Inv, TypeOK, AllRecorded
<1>2. CASE UNCHANGED request
    BY <1>2 DEF AllRecorded
<1>3. ASSUME NEW p \in Permission, NEW e \in Expiry, CreateRequest(p, e) PROVE AllRecorded'
  <2>1. PICK r : r = [permission |-> p, expires |-> e, status |-> "PENDING",
                      grant |-> "NONE", events |-> <<"REQUEST_CREATED">>]
      OBVIOUS
  <2>2. r \in AuthorityRequest
    <3>1. <<"REQUEST_CREATED">> \in Seq(AuthorityEvent)
        BY DEF AuthorityEvent
    <3> QED BY <2>1, <3>1 DEF AuthorityRequest, RequestStatus, GrantStatus
  <2>3. Recorded(r)
      BY <2>1, <2>2, RecordedNew
  <2>4. request' = Append(request, r)
      BY <1>3, <2>1 DEF CreateRequest
  <2>5. \A i \in DOMAIN request' :
            (i \in DOMAIN request /\ request'[i] = request[i]) \/ request'[i] = r
      BY <1>1, <2>2, <2>4
  <2> QED BY <1>1, <2>3, <2>5 DEF AllRecorded
<1>4. ASSUME NEW c \in Call, Approve(c) \/ Deny(c) PROVE AllRecorded'
  <2>1. PICK k : k = call[c].i
      OBVIOUS
  <2>2. \/ UNCHANGED request
        \/ /\ request[k].status = "PENDING"
           /\ \/ request' = [request EXCEPT ![k] = Approved(request[k])]
              \/ request' = [request EXCEPT ![k] = Denied(request[k])]
      BY <1>4, <2>1 DEF Approve, Deny
  <2>3. CASE k \in DOMAIN request /\ request[k].status = "PENDING"
    <3>1. Recorded(Approved(request[k])) /\ Recorded(Denied(request[k]))
        BY <1>1, <2>3, RecordedDecided
    <3>2. \A i \in DOMAIN request' :
              /\ i \in DOMAIN request
              /\ request'[i] \in {request[i], Approved(request[k]), Denied(request[k])}
        BY <1>1, <2>2, <2>3
    <3> QED BY <1>1, <3>1, <3>2 DEF AllRecorded
  <2>4. CASE k \notin DOMAIN request
    <3>1. request' = request
        BY <1>1, <2>2, <2>4
    <3> QED BY <1>2, <3>1
  <2> QED BY <1>2, <2>2, <2>3, <2>4
<1>5. ASSUME NEW c \in Call, RevokeUpdate(c) PROVE AllRecorded'
  <2>1. \A i \in call[c].found : request[i].grant # "NONE"
      BY <1>5 DEF Inv, RevokesAll, HasFound, RevokeUpdate, Gave
  <2>2. ASSUME NEW i \in DOMAIN request PROVE i \in call[c].found => Recorded(Revoked(request[i]))
      BY <1>1, <2>1, RecordedRevoked
  <2>3. /\ DOMAIN request' = DOMAIN request
        /\ \A i \in DOMAIN request :
              request'[i] = IF i \in call[c].found THEN Revoked(request[i]) ELSE request[i]
      BY <1>5 DEF RevokeUpdate
  <2> QED BY <1>1, <2>2, <2>3 DEF AllRecorded
<1>6. CASE Request
    BY <1>2, <1>3, <1>6 DEF Request, DecideRead, RevokeRead, ControlRead
<1>7. ASSUME NEW c \in Call,
             \/ ApproveCheck(c) \/ RevokeFind(c) \/ Suspend(c)
             \/ ResumeCheck(c) \/ Resume(c) \/ Abandon(c)
      PROVE  AllRecorded'
    BY <1>2, <1>7 DEF ApproveCheck, RevokeFind, Suspend, ResumeCheck, Resume, Abandon
<1>8. ASSUME LoseOwner \/ \E u \in Person : TransferOwnership(u) PROVE AllRecorded'
    BY <1>2, <1>8 DEF TransferOwnership, LoseOwner
<1>9. Tick \/ UNCHANGED vars => UNCHANGED request
    BY DEF Tick, vars
<1> QED BY <1>2, <1>4, <1>5, <1>6, <1>7, <1>8, <1>9 DEF Next

\* The events of a request tell what it came to: it is decided once, whoever
\* else was deciding it, and a grant that is gone was recorded as revoked.
THEOREM DecisionsRecorded == Spec => []DecisionsAreRecorded
<1>1. Init => Inv /\ AllRecorded
  <2>1. Init => DOMAIN request = {}
      BY DEF Init
  <2> QED BY <2>1, InitInv DEF AllRecorded
<1>2. (Inv /\ AllRecorded) /\ [Next]_vars => (Inv /\ AllRecorded)'
    BY StepInv, RecordedStep
<1>3. AllRecorded => DecisionsAreRecorded
    BY DEF AllRecorded, Recorded, BeginWith, DecisionsAreRecorded
<1> QED BY <1>1, <1>2, <1>3, PTL DEF Spec
===============================================================================
