------------------------------ MODULE BusinessProofs -----------------------------
(***************************************************************************)
(* What BusinessResponsibilitiesService keeps true of the promises of an   *)
(* organization, for any number of requests, users, rows and keys; that    *)
(* its transactions take effect at once (BusinessPromise); and that the    *)
(* news its requests send leaves the promises what they are without it,    *)
(* is true, and is told once.                                              *)
(***************************************************************************)
EXTENDS BusinessCommunications, TLAPS

\* Who may be in the middle of an operation.
AllowedFor(op) == IF op \in {"complete", "cancel"} THEN MANAGE_ROLES ELSE WORK_ROLES

\* The statuses an operation moves a row from.
FromOf(op) ==
    CASE op = "markNeedsYou" -> {"ACTIVE"}
      [] op = "resume" -> {"WAITING_ON_USER"}
      [] op \in {"complete", "cancel"} -> Open

\* The rows with a key, of a table.
RowsFor(rows, k) == {r \in Resp : rows[r] # NoRow /\ rows[r].key = k}

\* The last status a ledger records, and that it is a chain.
EndsIn(l, status) ==
    \E i \in DOMAIN l :
        /\ l[i].to = status
        /\ \A k \in DOMAIN l : k > i => l[k].to = NoStatus

Chained(l) == \A i, j \in DOMAIN l : Continues(l, i, j) => l[j].from = l[i].to

Attestations(l) == {i \in DOMAIN l : l[i].type = "COMPLETED"}

\* A row and its ledger; a row that is not complete was reported so by nobody.
RowSound(rw, l) ==
    /\ rw.status \in Open \cup {"COMPLETED", "CANCELLED"}
    /\ Chained(l) /\ EndsIn(l, rw.status)
    /\ rw.status # "COMPLETED" => Attestations(l) = {}

\* What the locks of an open transaction guarantee, and what it has read.
Knows(t) ==
    /\ t # Idle => role[t.user] \in AllowedFor(t.op)
    /\ t \in Creation => RowsFor(row, t.key) = {}
    /\ t \in Move => Exists(t.r) /\ t.seen \in FromOf(t.op)

\* Creations with one key are serialized.
KeyLocked ==
    \A c, d \in Call :
        tx[c] \in Creation /\ tx[d] \in Creation /\ tx[c].key = tx[d].key => c = d

Inv ==
    /\ TypeOK
    /\ \A c \in Call : Knows(tx[c])
    /\ KeyLocked
    /\ OnePromisePerKey
    /\ \A r \in Resp : IF Exists(r) THEN RowSound(row[r], ledger[r]) ELSE ledger[r] = <<>>

-----------------------------------------------------------------------------
(* Ledgers *)

\* An event that records no status leaves a chain and its end alone.
LEMMA AppendRemark ==
    ASSUME NEW l \in Seq(Event), NEW e \in Event, e.to = NoStatus, e.type # "COMPLETED",
           NEW status \in Status, Chained(l), EndsIn(l, status)
    PROVE  /\ Append(l, e) \in Seq(Event)
           /\ Chained(Append(l, e)) /\ EndsIn(Append(l, e), status)
           /\ Attestations(Append(l, e)) = Attestations(l)
<1> DEFINE m == Append(l, e)
<1>1. /\ m \in Seq(Event) /\ DOMAIN m = 1 .. (Len(l) + 1) /\ DOMAIN l = 1 .. Len(l)
      /\ Len(l) \in Nat
      /\ \A i \in DOMAIN l : m[i] = l[i]
      /\ m[Len(l) + 1] = e
    BY DEF Event
<1> HIDE DEF m
<1>2. Chained(m)
  <2> SUFFICES ASSUME NEW i \in DOMAIN m, NEW j \in DOMAIN m, Continues(m, i, j)
               PROVE  m[j].from = m[i].to
      BY DEF Chained
  <2>1. i \in DOMAIN l /\ j \in DOMAIN l /\ i < j
      BY <1>1 DEF Continues
  <2>2. Continues(l, i, j)
      BY <1>1, <2>1 DEF Continues
  <2> QED BY <1>1, <2>1, <2>2 DEF Chained
<1>3. EndsIn(m, status)
  <2>1. PICK i \in DOMAIN l : l[i].to = status /\ \A k \in DOMAIN l : k > i => l[k].to = NoStatus
      BY DEF EndsIn
  <2>2. i \in DOMAIN m /\ m[i].to = status /\ \A k \in DOMAIN m : k > i => m[k].to = NoStatus
      BY <1>1, <2>1
  <2> QED BY <2>2 DEF EndsIn
<1>4. Attestations(m) = Attestations(l)
    BY <1>1 DEF Attestations
<1> QED BY <1>1, <1>2, <1>3, <1>4 DEF m

\* An event that leaves from the last status extends the chain.
LEMMA AppendMove ==
    ASSUME NEW l \in Seq(Event), NEW e \in Event, e.from \in Status, e.to \in Status,
           Chained(l), EndsIn(l, e.from)
    PROVE  /\ Append(l, e) \in Seq(Event)
           /\ Chained(Append(l, e)) /\ EndsIn(Append(l, e), e.to)
           /\ e.type # "COMPLETED" => Attestations(Append(l, e)) = Attestations(l)
           /\ Attestations(l) = {} /\ e.type = "COMPLETED" =>
                 Attestations(Append(l, e)) = {Len(l) + 1}
<1> DEFINE m == Append(l, e)
<1>1. /\ m \in Seq(Event) /\ DOMAIN m = 1 .. (Len(l) + 1) /\ DOMAIN l = 1 .. Len(l)
      /\ Len(l) \in Nat
      /\ \A i \in DOMAIN l : m[i] = l[i]
      /\ m[Len(l) + 1] = e
    BY DEF Event
<1> HIDE DEF m
<1>2. Chained(m)
  <2> SUFFICES ASSUME NEW i \in DOMAIN m, NEW j \in DOMAIN m, Continues(m, i, j)
               PROVE  m[j].from = m[i].to
      BY DEF Chained
  <2>1. i \in DOMAIN l /\ i < j
      BY <1>1 DEF Continues
  <2>2. CASE j \in DOMAIN l
    <3>1. Continues(l, i, j)
        BY <1>1, <2>1, <2>2 DEF Continues
    <3> QED BY <1>1, <2>1, <2>2, <3>1 DEF Chained
  <2>3. CASE j = Len(l) + 1
    <3>1. PICK h \in DOMAIN l : l[h].to = e.from /\ \A k \in DOMAIN l : k > h => l[k].to = NoStatus
        BY DEF EndsIn
    <3>2. l[i].to # NoStatus /\ \A k \in (i + 1) .. Len(l) : l[k].to = NoStatus
        BY <1>1, <2>1, <2>3 DEF Continues
    <3>3. e.from # NoStatus
        BY DEF Status, Open, TERMINAL, NoStatus
    <3>4. h = i
        BY <1>1, <2>1, <3>1, <3>2, <3>3
    <3> QED BY <1>1, <2>1, <2>3, <3>1, <3>4
  <2> QED BY <1>1, <2>2, <2>3
<1>3. EndsIn(m, e.to)
  <2>1. Len(l) + 1 \in DOMAIN m /\ m[Len(l) + 1].to = e.to
      BY <1>1
  <2>2. \A k \in DOMAIN m : ~ k > Len(l) + 1
      BY <1>1
  <2> QED BY <2>1, <2>2 DEF EndsIn
<1>4. /\ e.type # "COMPLETED" => Attestations(m) = Attestations(l)
      /\ Attestations(l) = {} /\ e.type = "COMPLETED" => Attestations(m) = {Len(l) + 1}
    BY <1>1 DEF Attestations
<1> QED BY <1>1, <1>2, <1>3, <1>4 DEF m

-----------------------------------------------------------------------------
(* Steps *)

LEMMA NotARow == NoRow \notin Row
BY DEF NoRow, Row, Status, Open, TERMINAL

LEMMA InitInv == Init => Inv
<1> SUFFICES ASSUME Init PROVE Inv
    OBVIOUS
<1>2. \A c \in Call : tx[c] = Idle
    BY DEF Init
<1>3. Idle \notin Creation /\ Idle \notin Move
    BY DEF Idle, Creation, Move
<1>1. TypeOK
  <2>1. ledger \in [Resp -> Seq(Event)]
      BY DEF Init
  <2>2. /\ closed \in BOOLEAN /\ role \in [User -> RoleInUse \cup {NoRole}]
        /\ row \in [Resp -> Row \cup {NoRow}] /\ reply \in [Call -> Reply \cup {NoReply}]
      BY DEF Init
  <2>3. tx \in [Call -> Creation \cup Move \cup {Idle}]
      BY DEF Init
  <2>4. \A c \in Call : tx[c] \in Move => Exists(tx[c].r)
      BY <1>2, <1>3
  <2> QED BY <2>1, <2>2, <2>3, <2>4 DEF TypeOK
<1> QED BY <1>1, <1>2, <1>3 DEF Init, Inv, Knows, KeyLocked, OnePromisePerKey, Exists

\* A transaction goes on, or ends without a write.
LEMMA QuietStep ==
    ASSUME Inv, NEW c \in Call, NEW t \in Creation \cup Move \cup {Idle}, Knows(t),
           \A d \in Call : t \in Creation /\ tx[d] \in Creation => d = c \/ tx[d].key # t.key,
           tx' = [tx EXCEPT ![c] = t],
           reply' \in [Call -> Reply \cup {NoReply}],
           UNCHANGED <<role, closed, row, ledger>>
    PROVE  Inv'
<1>1. /\ tx' \in [Call -> Creation \cup Move \cup {Idle}]
      /\ tx'[c] = t
      /\ \A d \in Call : d # c => tx'[d] = tx[d]
    BY DEF Inv, TypeOK
<1>2. TypeOK'
    BY <1>1 DEF Inv, TypeOK, Exists, Knows
<1>3. \A d \in Call : Knows(tx'[d])
    BY <1>1 DEF Inv
<1>4. (\A d \in Call : Knows(tx[d]))'
    BY <1>3 DEF Knows, Exists, RowsFor
<1>5. KeyLocked'
    BY <1>1 DEF Inv, KeyLocked
<1> QED BY <1>2, <1>4, <1>5 DEF Inv, OnePromisePerKey, Exists

LEMMA Replies ==
    ASSUME Inv, NEW c \in Call, NEW x \in Reply \cup {NoReply}
    PROVE  [reply EXCEPT ![c] = x] \in [Call -> Reply \cup {NoReply}]
BY DEF Inv, TypeOK

LEMMA IdleKnows == Idle \notin Creation /\ Idle \notin Move /\ Knows(Idle)
<1>1. Idle \notin Creation /\ Idle \notin Move
    BY DEF Idle, Creation, Move
<1> QED BY <1>1 DEF Knows

LEMMA EndInv ==
    ASSUME Inv, NEW c \in Call, NEW x \in Reply \cup {NoReply}, Return(c, x),
           UNCHANGED <<role, closed, row, ledger>>
    PROVE  Inv'
BY IdleKnows, Replies, QuietStep DEF Return

LEMMA ProceedInv ==
    ASSUME Inv, NEW c \in Call, NEW t \in Creation \cup Move, Knows(t), Proceed(c, t),
           \A d \in Call : t \in Creation /\ tx[d] \in Creation => d = c \/ tx[d].key # t.key,
           UNCHANGED <<role, closed, row, ledger>>
    PROVE  Inv'
BY Replies, QuietStep DEF Proceed

LEMMA CreateFindInv ==
    ASSUME Inv, NEW c \in Call, NEW u \in User, NEW k \in Key, CreateFind(c, u, k)
    PROVE  Inv'
<1>1. /\ role[u] \in WORK_ROLES
      /\ \A d \in Call : tx[d].op = "create" => tx[d].key # k
      /\ UNCHANGED <<role, closed, row, ledger>>
    BY DEF CreateFind, MayBegin
<1>2. ASSUME NEW r \in Resp, Return(c, RowReply(r)) PROVE Inv'
  <2>1. RowReply(r) \in Reply
      BY DEF RowReply, Reply
  <2> QED BY <1>1, <1>2, <2>1, EndInv
<1>3. ASSUME \A r \in Resp : Exists(r) => row[r].key # k,
             Proceed(c, [op |-> "create", user |-> u, key |-> k])
      PROVE  Inv'
  <2> DEFINE t == [op |-> "create", user |-> u, key |-> k]
  <2>1. t \in Creation /\ t \notin Move /\ t.key = k /\ t.user = u /\ t.op = "create"
      BY DEF Creation, Move
  <2>2. Proceed(c, t)
      BY <1>3
  <2> HIDE DEF t
  <2>3. Knows(t)
      BY <1>1, <1>3, <2>1 DEF Knows, AllowedFor, RowsFor, Exists
  <2>4. \A d \in Call : tx[d] \in Creation => tx[d].key # t.key
      BY <1>1, <2>1 DEF Creation
  <2> QED BY <1>1, <2>1, <2>2, <2>3, <2>4, ProceedInv
<1> QED BY <1>2, <1>3 DEF CreateFind

LEMMA ReadInv ==
    ASSUME Inv, NEW c \in Call, NEW u \in User, NEW r \in Resp,
           NEW op \in {"markNeedsYou", "resume", "complete", "cancel"},
           NEW allowed, allowed = AllowedFor(op), NEW settled, NEW from,
           from \cap (Open \cup {"COMPLETED", "CANCELLED"}) = FromOf(op),
           ReadCurrent(c, u, r, allowed, op, settled, from)
    PROVE  Inv'
<1>1. /\ role[u] \in AllowedFor(op) /\ Exists(r)
      /\ UNCHANGED <<role, closed, row, ledger>>
    BY DEF ReadCurrent, MayBegin
<1>2. CASE Return(c, RowReply(r))
  <2>1. RowReply(r) \in Reply
      BY DEF RowReply, Reply
  <2> QED BY <1>1, <1>2, <2>1, EndInv
<1>3. CASE row[r].status \in from /\ Proceed(c, [op |-> op, user |-> u, r |-> r, seen |-> row[r].status])
  <2> DEFINE t == [op |-> op, user |-> u, r |-> r, seen |-> row[r].status]
  <2>1. row[r].status \in FromOf(op) /\ row[r].status \in Status
      BY <1>1, <1>3 DEF Inv, RowSound, Status, TERMINAL
  <2>2. t \in Move /\ t \notin Creation /\ t.r = r /\ t.user = u /\ t.op = op /\ t.seen = row[r].status
      BY <2>1 DEF Creation, Move
  <2>3. Proceed(c, t)
      BY <1>3
  <2> HIDE DEF t
  <2>4. Knows(t)
      BY <1>1, <2>1, <2>2 DEF Knows
  <2> QED BY <1>1, <2>2, <2>3, <2>4, ProceedInv
<1> QED BY <1>2, <1>3 DEF ReadCurrent

\* A transaction that commits leaves a sound row, of the key it had.
LEMMA RowStep ==
    ASSUME Inv, NEW c \in Call, NEW r \in Resp, Exists(r),
           NEW rw \in Row, rw.key = row[r].key, NEW l \in Seq(Event), RowSound(rw, l),
           row' = [row EXCEPT ![r] = rw], ledger' = [ledger EXCEPT ![r] = l],
           Return(c, RowReply(r)), UNCHANGED <<role, closed>>
    PROVE  Inv'
<1>1. /\ row \in [Resp -> Row \cup {NoRow}] /\ ledger \in [Resp -> Seq(Event)]
      /\ row[r] # NoRow
    BY DEF Inv, TypeOK, Exists
<1>2. /\ row' \in [Resp -> Row \cup {NoRow}] /\ ledger' \in [Resp -> Seq(Event)]
      /\ row'[r] = rw /\ ledger'[r] = l
      /\ \A q \in Resp : q # r => row'[q] = row[q] /\ ledger'[q] = ledger[q]
    BY <1>1
<1>3. \A q \in Resp : (row'[q] # NoRow <=> row[q] # NoRow) /\ (row[q] # NoRow => row'[q].key = row[q].key)
    BY <1>1, <1>2, NotARow
<1>4. /\ tx' \in [Call -> Creation \cup Move \cup {Idle}]
      /\ tx'[c] = Idle /\ \A d \in Call : d # c => tx'[d] = tx[d]
      /\ reply' \in [Call -> Reply \cup {NoReply}]
  <2>1. RowReply(r) \in Reply
      BY DEF RowReply, Reply
  <2> QED BY <2>1, Replies DEF Return, Inv, TypeOK
<1>5. TypeOK'
  <2>1. \A d \in Call : tx'[d] \in Move => row'[tx'[d].r] # NoRow
      BY <1>3, <1>4, IdleKnows DEF Inv, TypeOK, Exists, Move
  <2> QED BY <1>2, <1>4, <2>1 DEF Inv, TypeOK, Exists
<1>6. \A k : RowsFor(row', k) = RowsFor(row, k)
    BY <1>3 DEF RowsFor
<1>7. ASSUME NEW d \in Call PROVE Knows(tx[d])'
  <2>1. CASE d = c
      BY <1>4, <2>1, IdleKnows DEF Knows
  <2>2. CASE d # c
    <3>1. PICK s : s = tx[d]
        OBVIOUS
    <3>2. /\ s # Idle => role[s.user] \in AllowedFor(s.op)
          /\ s \in Creation => RowsFor(row, s.key) = {}
          /\ s \in Move => s.r \in Resp /\ row[s.r] # NoRow /\ s.seen \in FromOf(s.op)
        BY <3>1 DEF Inv, Knows, Exists, Move
    <3>3. tx'[d] = s
        BY <1>4, <2>2, <3>1
    <3> QED BY <1>3, <1>6, <3>2, <3>3 DEF Knows, Exists
  <2> QED BY <2>1, <2>2
<1>8. KeyLocked'
    BY <1>4, IdleKnows DEF Inv, KeyLocked
<1>9. OnePromisePerKey'
    BY <1>3 DEF Inv, OnePromisePerKey, Exists
<1>10. (\A q \in Resp : IF Exists(q) THEN RowSound(row[q], ledger[q]) ELSE ledger[q] = <<>>)'
    BY <1>1, <1>2, <1>3 DEF Inv, Exists
<1> QED BY <1>5, <1>7, <1>8, <1>9, <1>10 DEF Inv

LEMMA CreateInsertInv ==
    ASSUME Inv, NEW c \in Call, CreateInsert(c)
    PROVE  Inv'
<1>1. PICK r \in Resp :
          /\ row[r] = NoRow
          /\ row' = [row EXCEPT ![r] = [key |-> tx[c].key, status |-> "ACTIVE"]]
          /\ ledger' = [ledger EXCEPT ![r] =
                <<Evt("ACCEPTED", NoStatus, "ACTIVE", tx[c].user),
                  Evt("COMMITMENT_RECORDED", NoStatus, NoStatus, NoUser)>>]
          /\ Return(c, RowReply(r))
    BY DEF CreateInsert
<1>2. PICK t \in Creation : t = tx[c]
  <2>1. tx[c].op = "create"
      BY DEF CreateInsert
  <2>2. tx[c] \in Creation \cup Move \cup {Idle}
      BY DEF Inv, TypeOK
  <2> QED BY <2>1, <2>2 DEF Move, Idle
<1>3. t.key \in Key /\ t.user \in User /\ RowsFor(row, t.key) = {}
    BY <1>2 DEF Creation, Inv, Knows
<1>4. PICK rw : rw = [key |-> t.key, status |-> "ACTIVE"]
    OBVIOUS
<1>5. rw \in Row /\ rw.key = t.key /\ rw.status = "ACTIVE" /\ rw # NoRow
    BY <1>3, <1>4, NotARow DEF Row, Status, Open
<1>6. PICK l : l = <<Evt("ACCEPTED", NoStatus, "ACTIVE", t.user),
                     Evt("COMMITMENT_RECORDED", NoStatus, NoStatus, NoUser)>>
    OBVIOUS
<1>7. l \in Seq(Event) /\ RowSound(rw, l)
  <2>1. /\ Evt("ACCEPTED", NoStatus, "ACTIVE", t.user) \in Event
        /\ Evt("COMMITMENT_RECORDED", NoStatus, NoStatus, NoUser) \in Event
      BY <1>3 DEF Evt, Event, EventType, Status, Open
  <2>2. l \in Seq(Event) /\ DOMAIN l = {1, 2} /\ Len(l) = 2
      BY <1>6, <2>1
  <2>3. /\ l[1].to = "ACTIVE" /\ l[2].to = NoStatus
        /\ l[1].type = "ACCEPTED" /\ l[2].type = "COMMITMENT_RECORDED"
      BY <1>6 DEF Evt
  <2>4. Chained(l)
      BY <2>2, <2>3 DEF Chained, Continues
  <2>5. EndsIn(l, "ACTIVE")
      BY <2>2, <2>3 DEF EndsIn
  <2>6. Attestations(l) = {}
      BY <2>2, <2>3 DEF Attestations
  <2> QED BY <1>5, <2>2, <2>4, <2>5, <2>6 DEF RowSound, Open
<1>8. /\ row \in [Resp -> Row \cup {NoRow}] /\ ledger \in [Resp -> Seq(Event)]
    BY DEF Inv, TypeOK
<1>9. /\ row' \in [Resp -> Row \cup {NoRow}] /\ ledger' \in [Resp -> Seq(Event)]
      /\ row'[r] = rw /\ ledger'[r] = l
      /\ \A q \in Resp : q # r => row'[q] = row[q] /\ ledger'[q] = ledger[q]
    BY <1>1, <1>2, <1>4, <1>5, <1>6, <1>7, <1>8
<1>10. /\ tx' \in [Call -> Creation \cup Move \cup {Idle}]
       /\ tx'[c] = Idle /\ \A d \in Call : d # c => tx'[d] = tx[d]
       /\ reply' \in [Call -> Reply \cup {NoReply}]
  <2>1. RowReply(r) \in Reply
      BY DEF RowReply, Reply
  <2> QED BY <1>1, <2>1, Replies DEF Return, Inv, TypeOK
<1>11. TypeOK'
  <2>1. \A d \in Call : tx'[d] \in Move => row'[tx'[d].r] # NoRow
      BY <1>1, <1>5, <1>9, <1>10, IdleKnows DEF Inv, TypeOK, Exists, Move
  <2> QED BY <1>9, <1>10, <2>1 DEF CreateInsert, Inv, TypeOK, Exists
<1>12. ASSUME NEW d \in Call PROVE Knows(tx[d])'
  <2>1. CASE d = c
      BY <1>10, <2>1, IdleKnows DEF Knows
  <2>2. CASE d # c
    <3>1. PICK s : s = tx[d]
        OBVIOUS
    <3>2. s # Idle => role[s.user] \in AllowedFor(s.op)
        BY <3>1 DEF Inv, Knows
    <3>3. ASSUME s \in Creation PROVE RowsFor(row', s.key) = {}
      <4>1. s.key # t.key
          BY <1>2, <2>2, <3>1, <3>3 DEF Inv, KeyLocked
      <4>2. RowsFor(row, s.key) = {}
          BY <3>1, <3>3 DEF Inv, Knows
      <4> QED BY <1>5, <1>9, <4>1, <4>2 DEF RowsFor
    <3>4. s \in Move => row'[s.r] # NoRow /\ s.seen \in FromOf(s.op)
        BY <1>1, <1>9, <3>1, <1>5 DEF Inv, Knows, Exists, Move
    <3>5. tx'[d] = s /\ role' = role
        BY <1>10, <2>2, <3>1 DEF CreateInsert
    <3> QED BY <3>2, <3>3, <3>4, <3>5 DEF Knows, Exists
  <2> QED BY <2>1, <2>2
<1>13. KeyLocked'
    BY <1>10, IdleKnows DEF Inv, KeyLocked
<1>14. OnePromisePerKey'
  <2>1. \A q \in Resp : row[q] # NoRow => row[q].key # t.key
      BY <1>3 DEF RowsFor
  <2> QED BY <1>1, <1>5, <1>9, <2>1 DEF Inv, OnePromisePerKey, Exists
<1>15. (\A q \in Resp : IF Exists(q) THEN RowSound(row[q], ledger[q]) ELSE ledger[q] = <<>>)'
    BY <1>5, <1>7, <1>9 DEF Inv, Exists
<1> QED BY <1>11, <1>12, <1>13, <1>14, <1>15 DEF Inv

\* A row moves on, and the event tells from where to where.
LEMMA MovedRow ==
    ASSUME NEW rw \in Row, NEW l \in Seq(Event), RowSound(rw, l), rw.status \in Open,
           NEW e \in Event, e.from = rw.status, e.type # "COMPLETED",
           NEW to \in Open \cup {"CANCELLED"}, e.to = to
    PROVE  /\ l \o <<e>> \in Seq(Event)
           /\ [rw EXCEPT !.status = to] \in Row
           /\ [rw EXCEPT !.status = to].key = rw.key
           /\ RowSound([rw EXCEPT !.status = to], l \o <<e>>)
<1>1. l \o <<e>> = Append(l, e)
    OBVIOUS
<1>2. PICK m : m = Append(l, e)
    OBVIOUS
<1>3. e.from \in Status /\ e.to \in Status /\ to # "COMPLETED"
    BY DEF Row, Status, Open, TERMINAL
<1>4. m \in Seq(Event) /\ Chained(m) /\ EndsIn(m, to) /\ Attestations(m) = Attestations(l)
    BY <1>2, <1>3, AppendMove DEF RowSound
<1>5. Attestations(l) = {}
    BY DEF RowSound, Open
<1>6. PICK new : new = [rw EXCEPT !.status = to]
    OBVIOUS
<1>7. new \in Row /\ new.key = rw.key /\ new.status = to
    BY <1>3, <1>6 DEF Row
<1>8. RowSound(new, m)
    BY <1>4, <1>5, <1>7 DEF RowSound
<1> QED BY <1>1, <1>2, <1>4, <1>6, <1>7, <1>8

\* A row is completed by the one attestation its ledger has.
LEMMA CompletedRow ==
    ASSUME NEW rw \in Row, NEW l \in Seq(Event), RowSound(rw, l), rw.status \in Open,
           NEW d \in Event, d.to = NoStatus, d.type # "COMPLETED",
           NEW e \in Event, e.from = rw.status, e.type = "COMPLETED", e.to = "COMPLETED"
    PROVE  /\ l \o <<d, e>> \in Seq(Event)
           /\ [rw EXCEPT !.status = "COMPLETED"] \in Row
           /\ [rw EXCEPT !.status = "COMPLETED"].key = rw.key
           /\ RowSound([rw EXCEPT !.status = "COMPLETED"], l \o <<d, e>>)
           /\ Attestations(l \o <<d, e>>) = {Len(l) + 2}
           /\ (l \o <<d, e>>)[Len(l) + 2] = e
<1>1. l \o <<d, e>> = Append(Append(l, d), e)
    OBVIOUS
<1>2. PICK m : m = Append(l, d)
    OBVIOUS
<1>3. PICK n : n = Append(m, e)
    OBVIOUS
<1>4. e.from \in Status /\ e.to \in Status
    BY DEF Row, Status, Open, TERMINAL
<1>5. Attestations(l) = {}
    BY DEF RowSound, Open
<1>6. m \in Seq(Event) /\ Chained(m) /\ EndsIn(m, rw.status) /\ Attestations(m) = {}
    BY <1>2, <1>4, <1>5, AppendRemark DEF RowSound
<1>7. n \in Seq(Event) /\ Chained(n) /\ EndsIn(n, "COMPLETED") /\ Attestations(n) = {Len(m) + 1}
    BY <1>3, <1>4, <1>6, AppendMove
<1>8. Len(m) + 1 = Len(l) + 2 /\ n[Len(m) + 1] = e
    BY <1>2, <1>3, <1>6
<1>9. PICK new : new = [rw EXCEPT !.status = "COMPLETED"]
    OBVIOUS
<1>10. new \in Row /\ new.key = rw.key /\ new.status = "COMPLETED"
    BY <1>4, <1>9 DEF Row
<1>11. RowSound(new, n)
    BY <1>7, <1>10 DEF RowSound
<1> QED BY <1>1, <1>2, <1>3, <1>7, <1>8, <1>9, <1>10, <1>11

\* An update moves the row it names from the status the transaction has read,
\* or does nothing.
Moves(c, to, events) ==
    /\ row[tx[c].r].status = tx[c].seen
    /\ row' = [row EXCEPT ![tx[c].r] = [@ EXCEPT !.status = to]]
    /\ ledger' = [ledger EXCEPT ![tx[c].r] = @ \o events]
    /\ Return(c, RowReply(tx[c].r))
    /\ UNCHANGED <<role, closed>>

LEMMA UpdateInv ==
    ASSUME Inv, NEW c \in Call, NEW t \in Move, t = tx[c], NEW to, NEW events,
           CompareAndSet(c, to, events),
           Moves(c, to, events) => Inv'
    PROVE  Inv'
<1>1. CASE Return(c, [kind |-> "conflict"]) /\ UNCHANGED <<row, ledger>>
  <2>1. [kind |-> "conflict"] \in Reply
      BY DEF Reply
  <2> QED BY <1>1, <2>1, EndInv DEF CompareAndSet
<1>2. CASE Moves(c, to, events)
    BY <1>2
<1> QED BY <1>1, <1>2 DEF CompareAndSet, Moves

\* What a transaction knows of the row it is about to update.
LEMMA ReadStillKnown ==
    ASSUME Inv, NEW c \in Call, tx[c] \in Move, NEW r, r = tx[c].r
    PROVE  /\ r \in Resp /\ Exists(r) /\ row[r] \in Row /\ ledger[r] \in Seq(Event)
           /\ RowSound(row[r], ledger[r])
           /\ tx[c].seen \in FromOf(tx[c].op) /\ tx[c].user \in User
BY DEF Inv, TypeOK, Knows, Exists, Move

\* A single event moves the row.
LEMMA OneEventInv ==
    ASSUME Inv, NEW c \in Call, NEW t \in Move, t = tx[c], t.seen \in Open,
           NEW to \in Open \cup {"CANCELLED"},
           NEW e \in Event, e.from = t.seen, e.to = to, e.type # "COMPLETED",
           CompareAndSet(c, to, <<e>>)
    PROVE  Inv'
<1>1. PICK r \in Resp : r = t.r
    BY DEF Move
<1>2. Exists(r) /\ row[r] \in Row /\ ledger[r] \in Seq(Event) /\ RowSound(row[r], ledger[r])
    BY <1>1, ReadStillKnown
<1>3. ASSUME Moves(c, to, <<e>>) PROVE Inv'
  <2>1. PICK rw : rw = [row[r] EXCEPT !.status = to]
      OBVIOUS
  <2>2. PICK l : l = ledger[r] \o <<e>>
      OBVIOUS
  <2>3. row[r].status = t.seen
      BY <1>1, <1>3 DEF Moves
  <2>4. rw \in Row /\ rw.key = row[r].key /\ l \in Seq(Event) /\ RowSound(rw, l)
      BY <1>2, <2>1, <2>2, <2>3, MovedRow
  <2>5. /\ row' = [row EXCEPT ![r] = rw] /\ ledger' = [ledger EXCEPT ![r] = l]
        /\ Return(c, RowReply(r)) /\ UNCHANGED <<role, closed>>
      BY <1>1, <1>3, <2>1, <2>2 DEF Moves
  <2> QED BY <1>2, <2>4, <2>5, RowStep
<1> QED BY <1>3, UpdateInv

LEMMA OpIs ==
    ASSUME Inv, NEW c \in Call, NEW op \in {"markNeedsYou", "resume", "complete", "cancel"},
           tx[c].op = op
    PROVE  tx[c] \in Move /\ tx[c].seen \in FromOf(op) /\ tx[c].user \in User
<1>1. tx[c] \in Creation \cup Move \cup {Idle}
    BY DEF Inv, TypeOK
<1>2. tx[c] \in Move
    BY <1>1 DEF Creation, Idle
<1> QED BY <1>2, ReadStillKnown

LEMMA MarkNeedsYouInv == ASSUME Inv, NEW c \in Call, MarkNeedsYouWrite(c) PROVE Inv'
<1>1. PICK t \in Move : t = tx[c] /\ t.seen = "ACTIVE"
    BY OpIs DEF MarkNeedsYouWrite, FromOf
<1>2. PICK e : e = Evt("USER_INPUT_REQUIRED", "ACTIVE", "WAITING_ON_USER", NoUser)
    OBVIOUS
<1>3. /\ e \in Event /\ e.from = t.seen /\ e.to = "WAITING_ON_USER" /\ e.type # "COMPLETED"
    BY <1>1, <1>2 DEF Evt, Event, EventType, Status, Open
<1>4. CompareAndSet(c, "WAITING_ON_USER", <<e>>)
    BY <1>2 DEF MarkNeedsYouWrite
<1>5. "WAITING_ON_USER" \in Open \cup {"CANCELLED"} /\ t.seen \in Open
    BY <1>1 DEF Open
<1> QED BY <1>1, <1>3, <1>4, <1>5, OneEventInv

LEMMA ResumeInv == ASSUME Inv, NEW c \in Call, ResumeWrite(c) PROVE Inv'
<1>1. PICK t \in Move : t = tx[c] /\ t.seen = "WAITING_ON_USER" /\ t.user \in User
    BY OpIs DEF ResumeWrite, FromOf
<1>2. PICK e : e = Evt("STATE_CHANGED", "WAITING_ON_USER", "ACTIVE", t.user)
    OBVIOUS
<1>3. /\ e \in Event /\ e.from = t.seen /\ e.to = "ACTIVE" /\ e.type # "COMPLETED"
    BY <1>1, <1>2 DEF Evt, Event, EventType, Status, Open
<1>4. CompareAndSet(c, "ACTIVE", <<e>>)
    BY <1>1, <1>2 DEF ResumeWrite
<1>5. "ACTIVE" \in Open \cup {"CANCELLED"} /\ t.seen \in Open
    BY <1>1 DEF Open
<1> QED BY <1>1, <1>3, <1>4, <1>5, OneEventInv

LEMMA CancelInv == ASSUME Inv, NEW c \in Call, CancelWrite(c) PROVE Inv'
<1>1. PICK t \in Move : t = tx[c] /\ t.seen \in Open /\ t.user \in User
    BY OpIs DEF CancelWrite, FromOf
<1>2. PICK e : e = Evt("CANCELLED", t.seen, "CANCELLED", t.user)
    OBVIOUS
<1>3. /\ e \in Event /\ e.from = t.seen /\ e.to = "CANCELLED" /\ e.type # "COMPLETED"
    BY <1>1, <1>2 DEF Evt, Event, EventType, Status, Open, TERMINAL
<1>4. CompareAndSet(c, "CANCELLED", <<e>>)
    BY <1>1, <1>2 DEF CancelWrite
<1> QED BY <1>1, <1>3, <1>4, OneEventInv

\* The evidence and the closing of a completion, whose attestation it names.
Completion(t) == <<Evt("ACTION_EVIDENCED", NoStatus, NoStatus, t.user),
                   Evt("COMPLETED", t.seen, "COMPLETED", t.user)>>

\* A completed row is sound, and its one attestation is the user's.
Completes(rw, l, t) ==
    /\ l \o Completion(t) \in Seq(Event)
    /\ [rw EXCEPT !.status = "COMPLETED"] \in Row
    /\ [rw EXCEPT !.status = "COMPLETED"].key = rw.key
    /\ RowSound([rw EXCEPT !.status = "COMPLETED"], l \o Completion(t))
    /\ Attestations(l \o Completion(t)) = {Len(l) + 2}
    /\ (l \o Completion(t))[Len(l) + 2].by = t.user

LEMMA CompletionSound ==
    ASSUME Inv, NEW c \in Call, NEW t, t = tx[c], t.op = "complete", NEW r, r = t.r,
           row[r].status = t.seen
    PROVE  Completes(row[r], ledger[r], t)
<1>1. t \in Move /\ t.seen \in Open /\ t.user \in User
    BY OpIs DEF FromOf
<1>2. r \in Resp /\ row[r] \in Row /\ ledger[r] \in Seq(Event) /\ RowSound(row[r], ledger[r])
    BY <1>1, ReadStillKnown
<1>3. PICK d : d = Evt("ACTION_EVIDENCED", NoStatus, NoStatus, t.user)
    OBVIOUS
<1>4. PICK e : e = Evt("COMPLETED", t.seen, "COMPLETED", t.user)
    OBVIOUS
<1>5. /\ d \in Event /\ d.to = NoStatus /\ d.type # "COMPLETED"
      /\ e \in Event /\ e.from = row[r].status /\ e.type = "COMPLETED" /\ e.to = "COMPLETED"
      /\ e.by = t.user
    BY <1>1, <1>3, <1>4 DEF Evt, Event, EventType, Status, Open, TERMINAL
<1>6. Completion(t) = <<d, e>>
    BY <1>3, <1>4 DEF Completion
<1>7. PICK rw \in Row : rw = row[r]
    BY <1>2
<1>8. PICK l \in Seq(Event) : l = ledger[r]
    BY <1>2
<1>9. RowSound(rw, l) /\ rw.status \in Open /\ e.from = rw.status
    BY <1>1, <1>2, <1>5, <1>7, <1>8
<1>10. /\ l \o <<d, e>> \in Seq(Event)
       /\ [rw EXCEPT !.status = "COMPLETED"] \in Row
       /\ [rw EXCEPT !.status = "COMPLETED"].key = rw.key
       /\ RowSound([rw EXCEPT !.status = "COMPLETED"], l \o <<d, e>>)
       /\ Attestations(l \o <<d, e>>) = {Len(l) + 2}
       /\ (l \o <<d, e>>)[Len(l) + 2] = e
    BY <1>5, <1>9, CompletedRow
<1> QED BY <1>5, <1>6, <1>7, <1>8, <1>10 DEF Completes

LEMMA CompleteInv == ASSUME Inv, NEW c \in Call, CompleteWrite(c) PROVE Inv'
<1>1. PICK t \in Move : t = tx[c] /\ t.op = "complete"
    BY OpIs DEF CompleteWrite
<1>2. PICK r \in Resp : r = t.r
    BY DEF Move
<1>3. CompareAndSet(c, "COMPLETED", Completion(t))
    BY <1>1 DEF CompleteWrite, Completion
<1>4. ASSUME Moves(c, "COMPLETED", Completion(t)) PROVE Inv'
  <2>1. PICK rw : rw = [row[r] EXCEPT !.status = "COMPLETED"]
      OBVIOUS
  <2>2. PICK l : l = ledger[r] \o Completion(t)
      OBVIOUS
  <2>3. row[r].status = t.seen
      BY <1>1, <1>2, <1>4 DEF Moves
  <2>4. rw \in Row /\ rw.key = row[r].key /\ l \in Seq(Event) /\ RowSound(rw, l)
    <3>1. Completes(row[r], ledger[r], t)
        BY <1>1, <1>2, <2>3, CompletionSound
    <3> QED BY <2>1, <2>2, <3>1 DEF Completes
  <2>5. /\ row' = [row EXCEPT ![r] = rw] /\ ledger' = [ledger EXCEPT ![r] = l]
        /\ Return(c, RowReply(r)) /\ UNCHANGED <<role, closed>>
      BY <1>1, <1>2, <1>4, <2>1, <2>2 DEF Moves
  <2>6. Exists(r)
      BY <1>1, <1>2, ReadStillKnown
  <2> QED BY <2>4, <2>5, <2>6, RowStep
<1> QED BY <1>1, <1>3, <1>4, UpdateInv

\* A membership changes only while no open transaction holds its lock.
LEMMA ElsewhereInv ==
    ASSUME Inv, UNCHANGED <<row, ledger, tx, reply>>,
           role' \in [User -> RoleInUse \cup {NoRole}], closed' \in BOOLEAN,
           \A c \in Call : tx[c] # Idle => role'[tx[c].user] = role[tx[c].user]
    PROVE  Inv'
<1>1. TypeOK'
    BY DEF Inv, TypeOK, Exists
<1>2. \A c \in Call : Knows(tx[c])'
    BY DEF Inv, Knows, Exists, RowsFor
<1> QED BY <1>1, <1>2 DEF Inv, KeyLocked, OnePromisePerKey, Exists

LEMMA ChangeRoleInv ==
    ASSUME Inv, NEW u \in User, NEW new \in RoleInUse \cup {NoRole}, ChangeRole(u, new)
    PROVE  Inv'
<1>1. role' = [role EXCEPT ![u] = new] /\ UNCHANGED <<closed, row, ledger, tx, reply>>
    BY DEF ChangeRole
<1>2. \A c \in Call : tx[c] # Idle => tx[c].user # u
    BY DEF ChangeRole, ShareLocked
<1>3. role \in [User -> RoleInUse \cup {NoRole}] /\ closed \in BOOLEAN
    BY DEF Inv, TypeOK
<1>4. \A c \in Call : tx[c] # Idle => tx[c].user \in User
    BY DEF Inv, TypeOK, Creation, Move
<1>5. /\ role' \in [User -> RoleInUse \cup {NoRole}]
      /\ \A c \in Call : tx[c] # Idle => role'[tx[c].user] = role[tx[c].user]
    BY <1>1, <1>2, <1>3, <1>4
<1>6. closed' \in BOOLEAN
    BY <1>1, <1>3
<1> QED BY <1>1, <1>5, <1>6, ElsewhereInv

LEMMA CloseInv == ASSUME Inv, CloseOrganization PROVE Inv'
<1>1. role' \in [User -> RoleInUse \cup {NoRole}]
    BY DEF Inv, TypeOK, CloseOrganization
<1> QED BY <1>1, ElsewhereInv DEF CloseOrganization

LEMMA AbandonInv == ASSUME Inv, NEW c \in Call, Abandon(c) PROVE Inv'
BY EndInv DEF Abandon

LEMMA ReadsInv ==
    ASSUME Inv, NEW c \in Call, NEW u \in User, NEW r \in Resp,
           MarkNeedsYouRead(c, u, r) \/ ResumeRead(c, u, r) \/ CompleteRead(c, u, r)
              \/ CancelRead(c, u, r)
    PROVE  Inv'
<1> DEFINE Reached == Open \cup {"COMPLETED", "CANCELLED"}
<1>1. CASE MarkNeedsYouRead(c, u, r)
  <2>1. {"ACTIVE"} \cap Reached = FromOf("markNeedsYou") /\ WORK_ROLES = AllowedFor("markNeedsYou")
      BY DEF FromOf, Open, AllowedFor
  <2> QED BY <1>1, <2>1, ReadInv DEF MarkNeedsYouRead
<1>2. CASE ResumeRead(c, u, r)
  <2>1. {"WAITING_ON_USER"} \cap Reached = FromOf("resume") /\ WORK_ROLES = AllowedFor("resume")
      BY DEF FromOf, Open, AllowedFor
  <2> QED BY <1>2, <2>1, ReadInv DEF ResumeRead
<1>3. CASE CompleteRead(c, u, r)
  <2>1. Open \cap Reached = FromOf("complete") /\ MANAGE_ROLES = AllowedFor("complete")
      BY DEF FromOf, Open, AllowedFor
  <2> QED BY <1>3, <2>1, ReadInv DEF CompleteRead
<1>4. CASE CancelRead(c, u, r)
  <2>1. (Status \ TERMINAL) \cap Reached = FromOf("cancel") /\ MANAGE_ROLES = AllowedFor("cancel")
      BY DEF FromOf, Open, AllowedFor, Status, TERMINAL
  <2> QED BY <1>4, <2>1, ReadInv DEF CancelRead
<1> QED BY <1>1, <1>2, <1>3, <1>4

LEMMA NextInv == Inv /\ [Next]_vars => Inv'
<1> SUFFICES ASSUME Inv, [Next]_vars PROVE Inv'
    OBVIOUS
<1>1. ASSUME NEW c \in Call, NEW u \in User, NEW k \in Key, CreateFind(c, u, k) PROVE Inv'
    BY <1>1, CreateFindInv
<1>2. ASSUME NEW c \in Call, CreateInsert(c) PROVE Inv'
    BY <1>2, CreateInsertInv
<1>3. ASSUME NEW c \in Call, NEW u \in User, NEW r \in Resp,
             MarkNeedsYouRead(c, u, r) \/ ResumeRead(c, u, r) \/ CompleteRead(c, u, r)
                \/ CancelRead(c, u, r)
      PROVE  Inv'
    BY <1>3, ReadsInv
<1>4. ASSUME NEW c \in Call, MarkNeedsYouWrite(c) PROVE Inv'
    BY <1>4, MarkNeedsYouInv
<1>5. ASSUME NEW c \in Call, ResumeWrite(c) PROVE Inv'
    BY <1>5, ResumeInv
<1>6. ASSUME NEW c \in Call, CompleteWrite(c) PROVE Inv'
    BY <1>6, CompleteInv
<1>7. ASSUME NEW c \in Call, CancelWrite(c) PROVE Inv'
    BY <1>7, CancelInv
<1>8. ASSUME NEW c \in Call, Abandon(c) PROVE Inv'
    BY <1>8, AbandonInv
<1>9. ASSUME NEW u \in User, NEW new \in RoleInUse \cup {NoRole}, ChangeRole(u, new) PROVE Inv'
    BY <1>9, ChangeRoleInv
<1>10. CASE CloseOrganization
    BY <1>10, CloseInv
<1>11. CASE UNCHANGED vars
    BY <1>11, ElsewhereInv DEF vars, Inv, TypeOK
<1> QED BY <1>1, <1>2, <1>3, <1>4, <1>5, <1>6, <1>7, <1>8, <1>9, <1>10, <1>11 DEF Next

LEMMA Invariance == Spec => []Inv
<1>1. Inv /\ [Next]_vars => Inv'
    BY NextInv
<1> QED BY InitInv, <1>1, PTL DEF Spec

-----------------------------------------------------------------------------
(* Theorems *)

\* Tables, transactions and replies keep their shape, and an open transaction
\* names a row that exists.
THEOREM TypeCorrect == Spec => []TypeOK
<1>1. Inv => TypeOK
    BY DEF Inv
<1> QED BY <1>1, Invariance, PTL

\* However creations race and are retried, a request key has one promise.
THEOREM OnePromise == Spec => []OnePromisePerKey
<1>1. Inv => OnePromisePerKey
    BY DEF Inv
<1> QED BY <1>1, Invariance, PTL

\* Every event leaves from the status the one before it reached, and the last
\* status is the row's.
THEOREM LedgerChained == Spec => []LedgerIsChain
<1>1. ASSUME Inv PROVE LedgerIsChain
  <2>1. ASSUME NEW r \in Resp, Exists(r) PROVE Chained(ledger[r]) /\ EndsIn(ledger[r], row[r].status)
      BY <1>1, <2>1 DEF Inv, RowSound
  <2>2. ASSUME NEW r \in Resp, ~Exists(r) PROVE DOMAIN ledger[r] = {}
      BY <1>1, <2>2 DEF Inv
  <2> QED BY <2>1, <2>2 DEF LedgerIsChain, Chained, EndsIn
<1> QED BY <1>1, Invariance, PTL

\* No demotion, removal or closure comes between the check of a role and the
\* commit that rests on it.
THEOREM AuthorityHolds == Spec => AuthorityAtCommit
<1>1. Inv /\ [Next]_vars =>
        [\A c \in Call :
          /\ tx[c] # Idle /\ ledger' # ledger /\ tx'[c] = Idle
          => role[tx[c].user] \in
                IF tx[c].op \in {"complete", "cancel"} THEN MANAGE_ROLES ELSE WORK_ROLES]_vars
    BY DEF Inv, Knows, AllowedFor
<1> QED BY <1>1, Invariance, PTL DEF Spec, AuthorityAtCommit

-----------------------------------------------------------------------------
(* Implementation of the abstract promise *)

\* The one row with a key stands for its promise.
LEMMA RowStandsFor ==
    ASSUME NEW rows, NEW r \in Resp, rows[r] # NoRow,
           \A q \in Resp : rows[q] # NoRow /\ rows[q].key = rows[r].key => q = r
    PROVE  RowsFor(rows, rows[r].key) = {r}
BY DEF RowsFor

\* StandingOf and AttestedBy, for the tables given.
Attestors(l) == {l[i].by : i \in Attestations(l)}
StandingIn(rows, k) == {rows[r].status : r \in RowsFor(rows, k)}
AttestedIn(rows, ledgers, k) ==
    UNION {Attestors(ledgers[r]) : r \in RowsFor(rows, k)}

LEMMA MappingIs ==
    /\ \A k : StandingOf(k) = StandingIn(row, k) /\ AttestedBy(k) = AttestedIn(row, ledger, k)
    /\ \A k : StandingOf(k)' = StandingIn(row', k) /\ AttestedBy(k)' = AttestedIn(row', ledger', k)
BY DEF StandingOf, AttestedBy, StandingIn, AttestedIn, RowsFor, Attestors, Attestations, Exists

\* Row r is inserted or updated, and has its key alone.
Changed(rows, ledgers, newRows, newLedgers, r) ==
    /\ newRows[r] # NoRow /\ (rows[r] = NoRow \/ rows[r].key = newRows[r].key)
    /\ \A q \in Resp : q # r => newRows[q] = rows[q] /\ newLedgers[q] = ledgers[q]
    /\ \A q \in Resp : newRows[q] # NoRow /\ newRows[q].key = newRows[r].key => q = r

\* The promise of one key only is changed, to what that row says.
OnePromiseChanged(rows, ledgers, newRows, newLedgers, r) ==
    /\ StandingIn(newRows, newRows[r].key) = {newRows[r].status}
    /\ AttestedIn(newRows, newLedgers, newRows[r].key)
          = Attestors(newLedgers[r])
    /\ StandingIn(rows, newRows[r].key) = IF rows[r] = NoRow THEN {} ELSE {rows[r].status}
    /\ AttestedIn(rows, ledgers, newRows[r].key) =
          IF rows[r] = NoRow THEN {} ELSE Attestors(ledgers[r])
    /\ \A k : k # newRows[r].key =>
          /\ StandingIn(newRows, k) = StandingIn(rows, k)
          /\ AttestedIn(newRows, newLedgers, k) = AttestedIn(rows, ledgers, k)

LEMMA OnePromiseMoves ==
    ASSUME NEW rows, NEW ledgers, NEW newRows, NEW newLedgers, NEW r \in Resp,
           Changed(rows, ledgers, newRows, newLedgers, r)
    PROVE  OnePromiseChanged(rows, ledgers, newRows, newLedgers, r)
<1>1. RowsFor(newRows, newRows[r].key) = {r}
    BY RowStandsFor DEF Changed
<1>2. RowsFor(rows, newRows[r].key) = IF rows[r] = NoRow THEN {} ELSE {r}
    BY <1>1 DEF RowsFor, Changed
<1>3. ASSUME NEW k, k # newRows[r].key
      PROVE  RowsFor(newRows, k) = RowsFor(rows, k) /\ r \notin RowsFor(rows, k)
    BY <1>3 DEF RowsFor, Changed
<1>4. ASSUME NEW k, k # newRows[r].key
      PROVE  /\ StandingIn(newRows, k) = StandingIn(rows, k)
             /\ AttestedIn(newRows, newLedgers, k) = AttestedIn(rows, ledgers, k)
  <2>1. \A q \in RowsFor(rows, k) : newRows[q] = rows[q] /\ newLedgers[q] = ledgers[q]
      BY <1>3, <1>4 DEF RowsFor, Changed
  <2> QED BY <1>3, <1>4, <2>1 DEF StandingIn, AttestedIn
<1>5. /\ StandingIn(newRows, newRows[r].key) = {newRows[r].status}
      /\ AttestedIn(newRows, newLedgers, newRows[r].key)
            = Attestors(newLedgers[r])
    BY <1>1 DEF StandingIn, AttestedIn
<1>6. CASE rows[r] = NoRow
  <2>1. RowsFor(rows, newRows[r].key) = {}
      BY <1>2, <1>6
  <2>2. /\ StandingIn(rows, newRows[r].key) = {}
        /\ AttestedIn(rows, ledgers, newRows[r].key) = {}
      BY <2>1 DEF StandingIn, AttestedIn
  <2> QED BY <1>4, <1>5, <1>6, <2>2 DEF OnePromiseChanged
<1>7. CASE rows[r] # NoRow
  <2>1. RowsFor(rows, newRows[r].key) = {r}
      BY <1>2, <1>7
  <2>2. /\ StandingIn(rows, newRows[r].key) = {rows[r].status}
        /\ AttestedIn(rows, ledgers, newRows[r].key)
              = Attestors(ledgers[r])
      BY <2>1 DEF StandingIn, AttestedIn
  <2> QED BY <1>4, <1>5, <1>7, <2>2 DEF OnePromiseChanged
<1> QED BY <1>6, <1>7

Standing == [k \in Key |-> StandingOf(k)]
Attested == [k \in Key |-> AttestedBy(k)]

\* A row is inserted or updated.
Puts(r, rw, l) ==
    /\ row[r] = NoRow \/ row[r].key = rw.key
    /\ row' = [row EXCEPT ![r] = rw] /\ ledger' = [ledger EXCEPT ![r] = l]

\* The promise of a key is changed.
PromiseBecomes(k, was, knownBy, is, attestors) ==
    /\ Standing[k] = was /\ Attested[k] = knownBy
    /\ Standing' = [Standing EXCEPT ![k] = is]
    /\ Attested' = [Attested EXCEPT ![k] = attestors]

\* A transaction inserts or updates one row, and its promise changes so.
LEMMA PromiseMoves ==
    ASSUME Inv, Inv', NEW r \in Resp, NEW rw \in Row, NEW l, Puts(r, rw, l)
    PROVE  PromiseBecomes(rw.key, IF row[r] = NoRow THEN {} ELSE {row[r].status},
                          IF row[r] = NoRow THEN {} ELSE Attestors(ledger[r]),
                          {rw.status}, Attestors(l))
<1>1. /\ row \in [Resp -> Row \cup {NoRow}] /\ ledger \in [Resp -> Seq(Event)]
      /\ rw # NoRow /\ rw.key \in Key
    BY NotARow DEF Inv, TypeOK, Row
<1>2. PICK rows : rows = row
    OBVIOUS
<1>3. PICK ledgers : ledgers = ledger
    OBVIOUS
<1>4. PICK newRows : newRows = row'
    OBVIOUS
<1>5. PICK newLedgers : newLedgers = ledger'
    OBVIOUS
<1>6. /\ newRows[r] = rw /\ newLedgers[r] = l
      /\ \A q \in Resp : q # r => newRows[q] = rows[q] /\ newLedgers[q] = ledgers[q]
    BY <1>1, <1>2, <1>3, <1>4, <1>5 DEF Puts
<1>7. \A q \in Resp : newRows[q] # NoRow /\ newRows[q].key = newRows[r].key => q = r
  <2>1. OnePromisePerKey'
      BY DEF Inv
  <2> QED BY <1>1, <1>4, <1>6, <2>1 DEF OnePromisePerKey, Exists
<1>8. rows[r] = NoRow \/ rows[r].key = newRows[r].key
    BY <1>2, <1>6 DEF Puts
<1>9. Changed(rows, ledgers, newRows, newLedgers, r)
    BY <1>1, <1>6, <1>7, <1>8 DEF Changed
<1>10. /\ StandingIn(newRows, rw.key) = {rw.status}
       /\ AttestedIn(newRows, newLedgers, rw.key) = Attestors(l)
       /\ StandingIn(rows, rw.key) = IF rows[r] = NoRow THEN {} ELSE {rows[r].status}
       /\ AttestedIn(rows, ledgers, rw.key) =
            IF rows[r] = NoRow THEN {} ELSE Attestors(ledgers[r])
       /\ \A k : k # rw.key =>
            /\ StandingIn(newRows, k) = StandingIn(rows, k)
            /\ AttestedIn(newRows, newLedgers, k) = AttestedIn(rows, ledgers, k)
  <2>1. OnePromiseChanged(rows, ledgers, newRows, newLedgers, r)
      BY <1>9, OnePromiseMoves
  <2> QED BY <1>6, <2>1 DEF OnePromiseChanged
<1>11. /\ \A k : StandingOf(k) = StandingIn(rows, k) /\ AttestedBy(k) = AttestedIn(rows, ledgers, k)
       /\ \A k : /\ StandingOf(k)' = StandingIn(newRows, k)
                 /\ AttestedBy(k)' = AttestedIn(newRows, newLedgers, k)
    BY <1>2, <1>3, <1>4, <1>5, MappingIs
<1>12. /\ Standing = [k \in Key |-> StandingIn(rows, k)]
       /\ Attested = [k \in Key |-> AttestedIn(rows, ledgers, k)]
       /\ Standing' = [k \in Key |-> StandingIn(newRows, k)]
       /\ Attested' = [k \in Key |-> AttestedIn(newRows, newLedgers, k)]
    BY <1>11 DEF Standing, Attested
<1>13. /\ Standing' = [Standing EXCEPT ![rw.key] = {rw.status}]
       /\ Attested' = [Attested EXCEPT ![rw.key] = Attestors(l)]
    BY <1>10, <1>12
<1> QED BY <1>1, <1>2, <1>3, <1>10, <1>12, <1>13 DEF PromiseBecomes

\* What a move makes of the promise of its row's key.
MovesPromise(t, k, to, attestors) ==
    /\ k \in Key /\ t.user \in User /\ role[t.user] \in AllowedFor(t.op) /\ role' = role
    /\ t.seen \in Open
    /\ PromiseBecomes(k, {t.seen}, {}, {to}, attestors)
    /\ to # "COMPLETED" => attestors = {}

LEMMA MoveMaps ==
    ASSUME Inv, Inv', NEW c \in Call, NEW t \in Move, t = tx[c], NEW to, NEW events,
           Moves(c, to, events)
    PROVE  MovesPromise(t, row[t.r].key, to, Attestors(ledger[t.r] \o events))
<1>1. PICK r \in Resp : r = t.r
    BY DEF Move
<1>2. /\ Exists(r) /\ row[r] \in Row /\ RowSound(row[r], ledger[r])
      /\ t.seen \in FromOf(t.op) /\ t.user \in User
    BY <1>1, ReadStillKnown
<1>3. t.seen \in Open /\ row[r].status = t.seen
    BY <1>1, <1>2 DEF FromOf, Open, Moves, Move
<1>4. PICK rw : rw = [row[r] EXCEPT !.status = to]
    OBVIOUS
<1>5. PICK l : l = ledger[r] \o events
    OBVIOUS
<1>6. row' = [row EXCEPT ![r] = rw] /\ ledger' = [ledger EXCEPT ![r] = l] /\ role' = role
    BY <1>1, <1>4, <1>5 DEF Moves
<1>7. rw.key = row[r].key /\ rw.status = to /\ rw.key \in Key
    BY <1>2, <1>4 DEF Row
<1>8. row'[r] = rw /\ ledger'[r] = l
    BY <1>6 DEF Inv, TypeOK
<1>9. rw \in Row /\ RowSound(rw, l)
  <2>1. rw # NoRow
      BY <1>2, <1>4 DEF Row, NoRow
  <2> QED BY <1>8, <2>1 DEF Inv, TypeOK, Exists
<1>10. Puts(r, rw, l)
    BY <1>6, <1>7 DEF Puts
<1>11. row[r] # NoRow
    BY <1>2 DEF Exists
<1>12. PromiseBecomes(rw.key, {row[r].status}, Attestors(ledger[r]), {rw.status}, Attestors(l))
  <2>1. PromiseBecomes(rw.key, IF row[r] = NoRow THEN {} ELSE {row[r].status},
                       IF row[r] = NoRow THEN {} ELSE Attestors(ledger[r]),
                       {rw.status}, Attestors(l))
      BY <1>9, <1>10, PromiseMoves
  <2> QED BY <1>11, <2>1
<1>13. to # "COMPLETED" => Attestors(l) = {}
    BY <1>7, <1>9 DEF RowSound, Attestors
<1>14. Attestors(ledger[r]) = {}
    BY <1>2, <1>3 DEF RowSound, Attestors, Open
<1>15. role[t.user] \in AllowedFor(t.op)
    BY DEF Inv, Knows, Move, Idle
<1> QED BY <1>1, <1>2, <1>3, <1>5, <1>6, <1>7, <1>12, <1>13, <1>14, <1>15 DEF MovesPromise

LEMMA CompletionAttested ==
    ASSUME Inv, NEW c \in Call, NEW t, t = tx[c], t.op = "complete", row[t.r].status = t.seen
    PROVE  Attestors(ledger[t.r] \o Completion(t)) = {t.user}
<1>1. PICK r : r = t.r
    OBVIOUS
<1>2. PICK l : l = ledger[r] \o Completion(t)
    OBVIOUS
<1>3. Attestations(l) = {Len(ledger[r]) + 2} /\ l[Len(ledger[r]) + 2].by = t.user
  <2>1. Completes(row[r], ledger[r], t)
      BY <1>1, CompletionSound
  <2> QED BY <1>2, <2>1 DEF Completes
<1> QED BY <1>1, <1>2, <1>3 DEF Attestors

LEMMA QuietMaps ==
    UNCHANGED <<row, ledger>> => Standing' = Standing /\ Attested' = Attested
BY DEF Standing, Attested, StandingOf, AttestedBy, Exists

LEMMA InitMaps == Init => Promise!Init
BY DEF Init, Promise!Init, StandingOf, AttestedBy, Exists

\* An update that loses its race changes nothing.
LEMMA UpdateMaps ==
    ASSUME NEW c \in Call, NEW to, NEW events, CompareAndSet(c, to, events)
    PROVE  Moves(c, to, events) \/ UNCHANGED <<row, ledger>>
BY DEF CompareAndSet, Moves

\* Every step is a step of the promise; those that leave the tables alone
\* change roles at most.
LEMMA StepMaps ==
    ASSUME Inv, Inv', Next
    PROVE  Promise!Next
<1> USE DEF Promise!Next, Promise!Holds, Promise!Becomes
<1>1. ASSUME UNCHANGED <<row, ledger>> PROVE Promise!Next
    BY <1>1, QuietMaps DEF Promise!RolesChange, Standing, Attested
<1>2. ASSUME NEW c \in Call, CreateInsert(c) PROVE Promise!Next
  <2>1. PICK r \in Resp :
            /\ row[r] = NoRow
            /\ row' = [row EXCEPT ![r] = [key |-> tx[c].key, status |-> "ACTIVE"]]
            /\ ledger' = [ledger EXCEPT ![r] =
                  <<Evt("ACCEPTED", NoStatus, "ACTIVE", tx[c].user),
                    Evt("COMMITMENT_RECORDED", NoStatus, NoStatus, NoUser)>>]
      BY <1>2 DEF CreateInsert
  <2>2. PICK t \in Creation : t = tx[c]
    <3>1. tx[c].op = "create"
        BY <1>2 DEF CreateInsert
    <3>2. tx[c] \in Creation \cup Move \cup {Idle}
        BY DEF Inv, TypeOK
    <3> QED BY <3>1, <3>2 DEF Move, Idle
  <2>3. PICK rw : rw = [key |-> t.key, status |-> "ACTIVE"]
      OBVIOUS
  <2>4. PICK l : l = <<Evt("ACCEPTED", NoStatus, "ACTIVE", t.user),
                       Evt("COMMITMENT_RECORDED", NoStatus, NoStatus, NoUser)>>
      OBVIOUS
  <2>5. row' = [row EXCEPT ![r] = rw] /\ ledger' = [ledger EXCEPT ![r] = l]
      BY <2>1, <2>2, <2>3, <2>4
  <2>6. rw \in Row /\ rw.key = t.key /\ rw.status = "ACTIVE" /\ t.key \in Key /\ t.user \in User
      BY <2>3 DEF Creation, Row, Status, Open
  <2>7. row'[r] = rw /\ ledger'[r] = l /\ rw # NoRow
      BY <2>5, <2>6, NotARow DEF Inv, TypeOK
  <2>8. RowSound(rw, l)
      BY <2>7 DEF Inv, Exists
  <2>9. Attestors(l) = {}
      BY <2>6, <2>8 DEF RowSound, Attestors
  <2>10. /\ Standing[t.key] = {} /\ Attested[t.key] = {}
         /\ Standing' = [Standing EXCEPT ![t.key] = {"ACTIVE"}]
         /\ Attested' = [Attested EXCEPT ![t.key] = Attestors(l)]
    <3>1. Puts(r, rw, l)
        BY <2>1, <2>5 DEF Puts
    <3>2. PromiseBecomes(rw.key, IF row[r] = NoRow THEN {} ELSE {row[r].status},
                         IF row[r] = NoRow THEN {} ELSE Attestors(ledger[r]),
                         {rw.status}, Attestors(l))
        BY <2>6, <3>1, PromiseMoves
    <3> QED BY <2>1, <2>6, <3>2 DEF PromiseBecomes
  <2>11. Attested' = Attested
      BY <2>6, <2>9, <2>10 DEF Attested
  <2>12. role[t.user] \in WORK_ROLES /\ role' = role
      BY <1>2, <2>2 DEF Inv, Knows, AllowedFor, Creation, Idle, CreateInsert
  <2>13. Promise!Accept(t.user, t.key)
      BY <2>6, <2>10, <2>11, <2>12 DEF Promise!Accept, Standing, Attested
  <2> QED BY <2>6, <2>13
<1>3. ASSUME NEW c \in Call, MarkNeedsYouWrite(c) PROVE Promise!Next
  <2>1. PICK t \in Move : t = tx[c] /\ t.op = "markNeedsYou" /\ t.seen = "ACTIVE"
      BY <1>3, OpIs DEF MarkNeedsYouWrite, FromOf
  <2>2. CASE UNCHANGED <<row, ledger>>
      BY <1>1, <2>2
  <2>3. CASE Moves(c, "WAITING_ON_USER",
                   <<Evt("USER_INPUT_REQUIRED", "ACTIVE", "WAITING_ON_USER", NoUser)>>)
    <3>1. PICK k : k = row[t.r].key
        OBVIOUS
    <3>2. PICK attestors :
              attestors = Attestors(ledger[t.r] \o
                            <<Evt("USER_INPUT_REQUIRED", "ACTIVE", "WAITING_ON_USER", NoUser)>>)
        OBVIOUS
    <3>3. MovesPromise(t, k, "WAITING_ON_USER", attestors)
        BY <2>1, <2>3, <3>1, <3>2, MoveMaps
    <3>4. /\ k \in Key /\ t.user \in User /\ role[t.user] \in WORK_ROLES /\ role' = role
          /\ Standing[k] = {"ACTIVE"}
          /\ Standing' = [Standing EXCEPT ![k] = {"WAITING_ON_USER"}]
          /\ Attested' = Attested
        BY <2>1, <3>3 DEF MovesPromise, PromiseBecomes, AllowedFor, Attested
    <3>5. Promise!NeedsYou(t.user, k)
        BY <3>4 DEF Promise!NeedsYou, Standing, Attested
    <3> QED BY <3>4, <3>5
  <2> QED BY <1>3, <2>2, <2>3, UpdateMaps DEF MarkNeedsYouWrite
<1>4. ASSUME NEW c \in Call, ResumeWrite(c) PROVE Promise!Next
  <2>1. PICK t \in Move : t = tx[c] /\ t.op = "resume" /\ t.seen = "WAITING_ON_USER"
      BY <1>4, OpIs DEF ResumeWrite, FromOf
  <2>2. CASE UNCHANGED <<row, ledger>>
      BY <1>1, <2>2
  <2>3. CASE Moves(c, "ACTIVE", <<Evt("STATE_CHANGED", "WAITING_ON_USER", "ACTIVE", tx[c].user)>>)
    <3>1. PICK k : k = row[t.r].key
        OBVIOUS
    <3>2. PICK attestors :
              attestors = Attestors(ledger[t.r] \o
                            <<Evt("STATE_CHANGED", "WAITING_ON_USER", "ACTIVE", tx[c].user)>>)
        OBVIOUS
    <3>3. MovesPromise(t, k, "ACTIVE", attestors)
        BY <2>1, <2>3, <3>1, <3>2, MoveMaps
    <3>4. /\ k \in Key /\ t.user \in User /\ role[t.user] \in WORK_ROLES /\ role' = role
          /\ Standing[k] = {"WAITING_ON_USER"}
          /\ Standing' = [Standing EXCEPT ![k] = {"ACTIVE"}]
          /\ Attested' = Attested
        BY <2>1, <3>3 DEF MovesPromise, PromiseBecomes, AllowedFor, Attested
    <3>5. Promise!Resume(t.user, k)
        BY <3>4 DEF Promise!Resume, Standing, Attested
    <3> QED BY <3>4, <3>5
  <2> QED BY <1>4, <2>2, <2>3, UpdateMaps DEF ResumeWrite
<1>5. ASSUME NEW c \in Call, CompleteWrite(c) PROVE Promise!Next
  <2>1. PICK t \in Move : t = tx[c] /\ t.op = "complete"
      BY <1>5, OpIs DEF CompleteWrite
  <2>2. CASE UNCHANGED <<row, ledger>>
      BY <1>1, <2>2
  <2>3. CASE Moves(c, "COMPLETED", Completion(t))
    <3>1. PICK k : k = row[t.r].key
        OBVIOUS
    <3>2. PICK l : l = ledger[t.r] \o Completion(t)
        OBVIOUS
    <3>3. row[t.r].status = t.seen
        BY <2>1, <2>3 DEF Moves
    <3>4. Attestors(l) = {t.user}
        BY <2>1, <3>2, <3>3, CompletionAttested
    <3>5. /\ k \in Key /\ t.user \in User /\ role[t.user] \in MANAGE_ROLES /\ role' = role
          /\ t.seen \in Open /\ Standing[k] = {t.seen}
          /\ Standing' = [Standing EXCEPT ![k] = {"COMPLETED"}]
          /\ Attested' = [Attested EXCEPT ![k] = {t.user}]
      <4>1. MovesPromise(t, k, "COMPLETED", Attestors(l))
          BY <2>1, <2>3, <3>1, <3>2, MoveMaps
      <4> QED BY <2>1, <3>4, <4>1 DEF MovesPromise, PromiseBecomes, AllowedFor
    <3>6. Promise!Complete(t.user, k)
        BY <3>5 DEF Promise!Complete, Standing, Attested, Open
    <3> QED BY <3>5, <3>6
  <2> QED BY <1>5, <2>1, <2>2, <2>3, UpdateMaps DEF CompleteWrite, Completion
<1>6. ASSUME NEW c \in Call, CancelWrite(c) PROVE Promise!Next
  <2>1. PICK t \in Move : t = tx[c] /\ t.op = "cancel"
      BY <1>6, OpIs DEF CancelWrite
  <2>2. CASE UNCHANGED <<row, ledger>>
      BY <1>1, <2>2
  <2>3. CASE Moves(c, "CANCELLED", <<Evt("CANCELLED", tx[c].seen, "CANCELLED", tx[c].user)>>)
    <3>1. PICK k : k = row[t.r].key
        OBVIOUS
    <3>2. PICK attestors :
              attestors = Attestors(ledger[t.r] \o
                            <<Evt("CANCELLED", tx[c].seen, "CANCELLED", tx[c].user)>>)
        OBVIOUS
    <3>3. MovesPromise(t, k, "CANCELLED", attestors)
        BY <2>1, <2>3, <3>1, <3>2, MoveMaps
    <3>4. /\ k \in Key /\ t.user \in User /\ role[t.user] \in MANAGE_ROLES /\ role' = role
          /\ t.seen \in Open /\ Standing[k] = {t.seen}
          /\ Standing' = [Standing EXCEPT ![k] = {"CANCELLED"}]
          /\ Attested' = Attested
        BY <2>1, <3>3 DEF MovesPromise, PromiseBecomes, AllowedFor, Attested
    <3>5. Promise!Cancel(t.user, k)
        BY <3>4 DEF Promise!Cancel, Standing, Attested, Open
    <3> QED BY <3>4, <3>5
  <2> QED BY <1>6, <2>2, <2>3, UpdateMaps DEF CancelWrite
<1> HIDE DEF Promise!Next, Promise!Holds, Promise!Becomes
<1>7. ASSUME NEW c \in Call, NEW u \in User, NEW k \in Key, CreateFind(c, u, k)
      PROVE  UNCHANGED <<row, ledger>>
    BY <1>7 DEF CreateFind
<1>8. ASSUME NEW c \in Call, Abandon(c) PROVE UNCHANGED <<row, ledger>>
    BY <1>8 DEF Abandon
<1>9. ASSUME NEW u \in User, NEW new \in RoleInUse \cup {NoRole}, ChangeRole(u, new)
      PROVE  UNCHANGED <<row, ledger>>
    BY <1>9 DEF ChangeRole
<1>10. CloseOrganization => UNCHANGED <<row, ledger>>
    BY DEF CloseOrganization
<1>11. ASSUME NEW c \in Call, NEW u \in User, NEW r \in Resp,
              \/ MarkNeedsYouRead(c, u, r) \/ ResumeRead(c, u, r)
              \/ CompleteRead(c, u, r) \/ CancelRead(c, u, r)
       PROVE  UNCHANGED <<row, ledger>>
    BY <1>11 DEF MarkNeedsYouRead, ResumeRead, CompleteRead, CancelRead, ReadCurrent
<1> QED BY <1>1, <1>2, <1>3, <1>4, <1>5, <1>6, <1>7, <1>8, <1>9, <1>10, <1>11 DEF Next

\* The service implements the promise: every transaction takes effect at once
\* at its commit, by a user who may make that move then, and by one promise per
\* key that is reported complete by whoever the ledger names.
THEOREM Implementation == Spec => ImplementsPromise
<1>1. UNCHANGED vars => UNCHANGED Promise!vars
  <2>1. UNCHANGED vars => Standing' = Standing /\ Attested' = Attested /\ role' = role
      BY QuietMaps DEF vars
  <2> QED BY <2>1 DEF Promise!vars, Standing, Attested
<1>2. Inv /\ Inv' /\ [Next]_vars => [Promise!Next]_(Promise!vars)
    BY <1>1, StepMaps
<1> QED BY InitMaps, <1>2, Invariance, PTL DEF Spec, ImplementsPromise, Promise!Spec

-----------------------------------------------------------------------------
(* The responsibilities go on as they do alone *)

LEMMA StepsOfBusiness == [NewsNext]_newsVars => [Next]_vars
<1> SUFFICES ASSUME [NewsNext]_newsVars PROVE [Next]_vars
    OBVIOUS
<1>1. ASSUME NEW c \in Call, Begin(c) PROVE Next
    BY <1>1 DEF Begin, Next
<1>2. ASSUME NEW c \in Call, Commit(c) PROVE Next
    BY <1>2 DEF Commit, Next
<1>3. ASSUME NEW c \in Call, Resume(c) PROVE Next
    BY <1>3 DEF Resume, Next
<1>4. ASSUME NEW c \in Call, ReadRecipients(c) PROVE UNCHANGED vars
    BY <1>4 DEF ReadRecipients, vars
<1>5. ASSUME NEW c \in Call, NEW u \in User,
             NotifyFind(c, u) \/ NotifyCreate(c, u) \/ NotifyMail(c, u) \/ NotifyInVain(c, u)
      PROVE  UNCHANGED vars
    BY <1>5 DEF NotifyFind, NotifyCreate, NotifyMail, NotifyInVain, vars
<1>6. ASSUME NEW c \in Call, Crash(c) PROVE [Next]_vars
    BY <1>6 DEF Crash, Next, vars
<1>7. CASE Elsewhere
    BY <1>7 DEF Elsewhere, Next
<1>8. CASE UNCHANGED newsVars
    BY <1>8 DEF newsVars, vars
<1> QED BY <1>1, <1>2, <1>3, <1>4, <1>5, <1>6, <1>7, <1>8 DEF NewsNext

\* The requests and their news are a behaviour of the responsibilities: what
\* is proved of these holds with the news as well.
THEOREM Composition == NewsSpec => Spec
<1>1. NewsInit => Init
    BY DEF NewsInit
<1> QED BY <1>1, StepsOfBusiness, PTL DEF NewsSpec, Spec

LEMMA PromisesHold ==
    /\ NewsInit => Inv
    /\ Inv /\ [NewsNext]_newsVars => Inv'
BY StepsOfBusiness, InitInv, NextInv DEF NewsInit

\* What of it the news rests on.
Held ==
    /\ row \in [Resp -> Row \cup {NoRow}]
    /\ ledger \in [Resp -> Seq(Event)]
    /\ \A c \in Call : tx[c] \in Creation \cup Move \cup {Idle}
    /\ \A c \in Call : tx[c] \in Move => Exists(tx[c].r)
    /\ tx \in [Call -> Creation \cup Move \cup {Idle}]
    /\ reply \in [Call -> Reply \cup {NoReply}]
    /\ \A r \in Resp : ~Exists(r) => ledger[r] = <<>>
    /\ \A r \in Resp : Exists(r) => row[r] \in Row

LEMMA PromisesAreHeld == Inv => Held
BY DEF Inv, TypeOK, Held, Exists

-----------------------------------------------------------------------------
(* What a row shows, its ledger tells *)

\* A row in this status is the subject of such news; any row was accepted.
Shows(status, kind) ==
    \/ kind = "accepted"
    \/ kind = "needs_you" /\ status = "WAITING_ON_USER"
    \/ kind = "completed_reported" /\ status = "COMPLETED"
    \/ kind = "cancelled" /\ status = "CANCELLED"

Telling(l, kind) == \E i \in DOMAIN l : l[i].type = Tells(kind)

Shown(r) ==
    Exists(r) =>
        \A kind \in Kinds : Shows(row[r].status, kind) => Telling(ledger[r], kind)

\* The events of a ledger stay where they are.
Grown(l, m) == \A i \in DOMAIN l : i \in DOMAIN m /\ m[i] = l[i]

Kept == \A r \in Resp : Grown(ledger[r], ledger'[r]) /\ (Shown(r) => Shown(r)')

LEMMA StillTelling ==
    ASSUME NEW l, NEW m, Grown(l, m), NEW kind, Telling(l, kind)
    PROVE  Telling(m, kind)
BY DEF Grown, Telling

LEMMA UntouchedKept == UNCHANGED <<row, ledger>> => Kept
BY DEF Kept, Grown, Shown, Exists

\* An update tells of the status it sets.
LEMMA UpdateKept ==
    ASSUME Held, NEW c \in Call, tx[c] \in Move, NEW to,
           NEW events \in Seq(Event),
           \A kind \in Kinds : kind # "accepted" /\ Shows(to, kind) => Telling(events, kind),
           CompareAndSet(c, to, events)
    PROVE  Kept
<1>1. PICK r \in Resp : r = tx[c].r
    BY DEF Move
<1>2. CASE UNCHANGED <<row, ledger>>
    BY <1>2, UntouchedKept
<1>3. CASE /\ row' = [row EXCEPT ![r].status = to]
           /\ ledger' = [ledger EXCEPT ![r] = @ \o events]
  <2>1. Exists(r) /\ row[r] \in Row
      BY <1>1 DEF Held
  <2>2. ledger[r] \in Seq(Event) /\ ledger \in [Resp -> Seq(Event)]
      BY DEF Held
  <2>3. PICK l : l = ledger[r]
      OBVIOUS
  <2>4. PICK m : m = l \o events
      OBVIOUS
  <2>5. Grown(l, m)
      BY <2>2, <2>3, <2>4 DEF Grown
  <2>6. \A kind : Telling(events, kind) => Telling(m, kind)
    <3>1. SUFFICES ASSUME NEW kind, NEW i \in DOMAIN events, events[i].type = Tells(kind)
                   PROVE  Telling(m, kind)
        BY DEF Telling
    <3>2. Len(l) + i \in DOMAIN m /\ m[Len(l) + i] = events[i]
        BY <2>2, <2>3, <2>4
    <3> QED BY <3>1, <3>2 DEF Telling
  <2>7. ledger'[r] = m /\ \A q \in Resp : q # r => ledger'[q] = ledger[q]
      BY <1>3, <2>2, <2>3, <2>4
  <2>8. row'[r].status = to /\ \A q \in Resp : q # r => row'[q] = row[q]
      BY <1>3, <2>1 DEF Held, Row
  <2>9. ASSUME Shown(r) PROVE Shown(r)'
    <3>1. ASSUME NEW kind \in Kinds, Shows(to, kind) PROVE Telling(m, kind)
      <4>1. CASE kind = "accepted"
        <5>1. Telling(l, kind)
            BY <2>1, <2>3, <2>9, <4>1 DEF Shown, Shows
        <5> QED BY <2>5, <5>1, StillTelling
      <4>2. CASE kind # "accepted"
          BY <2>6, <3>1, <4>2
      <4> QED BY <4>1, <4>2
    <3> QED BY <2>7, <2>8, <3>1 DEF Shown
  <2>10. ASSUME NEW q \in Resp, q # r PROVE Shown(q) => Shown(q)'
      BY <2>7, <2>8, <2>10 DEF Shown, Exists
  <2>11. \A q \in Resp : Grown(ledger[q], ledger'[q])
      BY <2>3, <2>5, <2>7 DEF Grown
  <2> QED BY <2>9, <2>10, <2>11 DEF Kept
<1> QED BY <1>1, <1>2, <1>3 DEF CompareAndSet

LEMMA InsertKept ==
    ASSUME Held, NEW c \in Call, CreateInsert(c)
    PROVE  Kept
<1> DEFINE first == Evt("ACCEPTED", NoStatus, "ACTIVE", tx[c].user)
           second == Evt("COMMITMENT_RECORDED", NoStatus, NoStatus,
                                  NoUser)
<1>1. PICK r \in Resp :
          /\ row[r] = NoRow
          /\ row' = [row EXCEPT ![r] = [key |-> tx[c].key, status |-> "ACTIVE"]]
          /\ ledger' = [ledger EXCEPT ![r] = <<first, second>>]
    BY DEF CreateInsert
<1>2. PICK m : m = <<first, second>>
    OBVIOUS
<1>3. 1 \in DOMAIN m /\ m[1].type = "ACCEPTED"
    BY <1>2 DEF Evt
<1>4. /\ row'[r].status = "ACTIVE" /\ ledger'[r] = m /\ ledger[r] = <<>>
      /\ \A q \in Resp : q # r => row'[q] = row[q] /\ ledger'[q] = ledger[q]
    BY <1>1, <1>2 DEF Held, Exists
<1>5. Shown(r)'
  <2>1. Telling(m, "accepted")
      BY <1>3 DEF Telling, Tells
  <2>2. \A kind \in Kinds : Shows("ACTIVE", kind) => kind = "accepted"
      BY DEF Shows
  <2> QED BY <1>4, <2>1, <2>2 DEF Shown
<1>6. ASSUME NEW q \in Resp, q # r PROVE Shown(q) => Shown(q)'
    BY <1>4, <1>6 DEF Shown, Exists
<1>7. \A q \in Resp : Grown(ledger[q], ledger'[q])
    BY <1>4 DEF Grown
<1> QED BY <1>5, <1>6, <1>7 DEF Kept

LEMMA OpMoves ==
    ASSUME Held, NEW c \in Call, tx[c].op \in {"markNeedsYou", "resume", "complete", "cancel"}
    PROVE  tx[c] \in Move /\ tx[c].user \in User /\ tx[c].seen \in Status
<1>1. tx[c] \in Creation \cup Move \cup {Idle}
    BY DEF Held
<1>2. tx[c] \in Move
    BY <1>1 DEF Creation, Idle
<1> QED BY <1>2 DEF Move

LEMMA Events ==
    ASSUME NEW S, NEW d \in S, NEW e \in S
    PROVE  /\ <<e>> \in Seq(S) /\ 1 \in DOMAIN <<e>> /\ <<e>>[1] = e
           /\ <<d, e>> \in Seq(S) /\ 2 \in DOMAIN <<d, e>> /\ <<d, e>>[2] = e
OBVIOUS

LEMMA MarkNeedsYouKept == ASSUME Held, NEW c \in Call, MarkNeedsYouWrite(c) PROVE Kept
<1>1. tx[c] \in Move
    BY OpMoves DEF MarkNeedsYouWrite
<1>2. PICK e : e = Evt("USER_INPUT_REQUIRED", "ACTIVE", "WAITING_ON_USER", NoUser)
    OBVIOUS
<1>3. e \in Event /\ e.type = "USER_INPUT_REQUIRED"
    BY <1>2 DEF Evt, Event, EventType, Status, Open
<1>4. PICK events : events = <<e>>
    OBVIOUS
<1>5. events \in Seq(Event) /\ 1 \in DOMAIN events /\ events[1] = e
    BY <1>3, <1>4, Events
<1>6. \A kind \in Kinds : kind # "accepted" /\ Shows("WAITING_ON_USER", kind) => Telling(events, kind)
    BY <1>3, <1>5 DEF Shows, Telling, Tells
<1>7. CompareAndSet(c, "WAITING_ON_USER", events)
    BY <1>2, <1>4 DEF MarkNeedsYouWrite
<1> QED BY <1>1, <1>5, <1>6, <1>7, UpdateKept

LEMMA ResumeKept == ASSUME Held, NEW c \in Call, ResumeWrite(c) PROVE Kept
<1>1. tx[c] \in Move /\ tx[c].user \in User
    BY OpMoves DEF ResumeWrite
<1>2. PICK e : e = Evt("STATE_CHANGED", "WAITING_ON_USER", "ACTIVE", tx[c].user)
    OBVIOUS
<1>3. e \in Event
    BY <1>1, <1>2 DEF Evt, Event, EventType, Status, Open
<1>4. PICK events : events = <<e>>
    OBVIOUS
<1>5. events \in Seq(Event) /\ 1 \in DOMAIN events /\ events[1] = e
    BY <1>3, <1>4, Events
<1>6. \A kind \in Kinds : kind # "accepted" /\ Shows("ACTIVE", kind) => Telling(events, kind)
    BY DEF Shows
<1>7. CompareAndSet(c, "ACTIVE", events)
    BY <1>2, <1>4 DEF ResumeWrite
<1> QED BY <1>1, <1>5, <1>6, <1>7, UpdateKept

LEMMA CompleteKept == ASSUME Held, NEW c \in Call, CompleteWrite(c) PROVE Kept
<1>1. tx[c] \in Move /\ tx[c].user \in User /\ tx[c].seen \in Status
    BY OpMoves DEF CompleteWrite
<1>2. PICK d : d = Evt("ACTION_EVIDENCED", NoStatus, NoStatus, tx[c].user)
    OBVIOUS
<1>3. PICK e : e = Evt("COMPLETED", tx[c].seen, "COMPLETED", tx[c].user)
    OBVIOUS
<1>4. d \in Event /\ e \in Event /\ e.type = "COMPLETED"
    BY <1>1, <1>2, <1>3 DEF Evt, Event, EventType, Status,
                            TERMINAL
<1>5. PICK events : events = <<d, e>>
    OBVIOUS
<1>6. events \in Seq(Event) /\ 2 \in DOMAIN events /\ events[2] = e
    BY <1>4, <1>5, Events
<1>7. \A kind \in Kinds : kind # "accepted" /\ Shows("COMPLETED", kind) => Telling(events, kind)
    BY <1>4, <1>6 DEF Shows, Telling, Tells
<1>8. CompareAndSet(c, "COMPLETED", events)
    BY <1>2, <1>3, <1>5 DEF CompleteWrite
<1> QED BY <1>1, <1>6, <1>7, <1>8, UpdateKept

LEMMA CancelKept == ASSUME Held, NEW c \in Call, CancelWrite(c) PROVE Kept
<1>1. tx[c] \in Move /\ tx[c].user \in User /\ tx[c].seen \in Status
    BY OpMoves DEF CancelWrite
<1>2. PICK e : e = Evt("CANCELLED", tx[c].seen, "CANCELLED", tx[c].user)
    OBVIOUS
<1>3. e \in Event /\ e.type = "CANCELLED"
    BY <1>1, <1>2 DEF Evt, Event, EventType, Status,
                      TERMINAL
<1>4. PICK events : events = <<e>>
    OBVIOUS
<1>5. events \in Seq(Event) /\ 1 \in DOMAIN events /\ events[1] = e
    BY <1>3, <1>4, Events
<1>6. \A kind \in Kinds : kind # "accepted" /\ Shows("CANCELLED", kind) => Telling(events, kind)
    BY <1>3, <1>5 DEF Shows, Telling, Tells
<1>7. CompareAndSet(c, "CANCELLED", events)
    BY <1>2, <1>4 DEF CancelWrite
<1> QED BY <1>1, <1>5, <1>6, <1>7, UpdateKept

\* Every step of the responsibilities keeps what the ledgers tell.
LEMMA AllKept == ASSUME Held, [Next]_vars PROVE Kept
<1>1. ASSUME NEW c \in Call, NEW u \in User, NEW k \in Key, CreateFind(c, u, k)
      PROVE  Kept
    BY <1>1, UntouchedKept DEF CreateFind
<1>2. ASSUME NEW c \in Call, NEW u \in User, NEW r \in Resp, MarkNeedsYouRead(c, u, r)
      PROVE  Kept
    BY <1>2, UntouchedKept DEF MarkNeedsYouRead, ReadCurrent
<1>3. ASSUME NEW c \in Call, NEW u \in User, NEW r \in Resp, ResumeRead(c, u, r)
      PROVE  Kept
    BY <1>3, UntouchedKept DEF ResumeRead, ReadCurrent
<1>4. ASSUME NEW c \in Call, NEW u \in User, NEW r \in Resp, CompleteRead(c, u, r)
      PROVE  Kept
    BY <1>4, UntouchedKept DEF CompleteRead, ReadCurrent
<1>5. ASSUME NEW c \in Call, NEW u \in User, NEW r \in Resp, CancelRead(c, u, r)
      PROVE  Kept
    BY <1>5, UntouchedKept DEF CancelRead, ReadCurrent
<1>6. ASSUME NEW c \in Call, Abandon(c) PROVE Kept
    BY <1>6, UntouchedKept DEF Abandon
<1>7. ASSUME NEW u \in User, NEW new \in RoleInUse \cup {NoRole}, ChangeRole(u, new)
      PROVE  Kept
    BY <1>7, UntouchedKept DEF ChangeRole
<1>8. CASE CloseOrganization
    BY <1>8, UntouchedKept DEF CloseOrganization
<1>9. CASE UNCHANGED vars
    BY <1>9, UntouchedKept DEF vars
<1> QED BY <1>1, <1>2, <1>3, <1>4, <1>5, <1>6, <1>7, <1>8, <1>9, InsertKept, MarkNeedsYouKept,
           ResumeKept, CompleteKept, CancelKept DEF Next

-----------------------------------------------------------------------------
(* The news *)

\* The operation whose outcome is news of a kind.
OpOf(kind) ==
    CASE kind = "accepted" -> "create"
      [] kind = "needs_you" -> "markNeedsYou"
      [] kind = "completed_reported" -> "complete"
      [] kind = "cancelled" -> "cancel"

Stages == [User -> {"find", "create", "mail", "done"}]

News ==
    {NoNews}
    \cup [at : {"transaction"}, kind : Kinds]
    \cup [at : {"publish"}, kind : Kinds, r : Resp, about : Nat]
    \cup [at : {"notify"}, kind : Kinds, r : Resp, about : Nat, stage : Stages]

Notification == [to : User, kind : Kinds, r : Resp, about : Nat]

\* What is said is in the part of the ledger it is said of.
True(r, n, kind) ==
    \E i \in 1 .. n : i \in DOMAIN ledger[r] /\ ledger[r][i].type = Tells(kind)

\* A request that has news of a transaction is in it; what it publishes is true.
Founded(c, n) ==
    /\ n.at = "transaction" => tx[c].op = OpOf(n.kind)
    /\ n.at \in {"publish", "notify"} => True(n.r, n.about, n.kind)

NewsInv ==
    /\ Inv
    /\ \A r \in Resp : Shown(r)
    /\ news \in [Call -> News] /\ inbox \subseteq Notification
    /\ \A c \in Call : Founded(c, news[c])
    /\ \A n \in inbox : True(n.r, n.about, n.kind)

LEMMA NewsInitInv == NewsInit => NewsInv
<1> SUFFICES ASSUME NewsInit PROVE NewsInv
    OBVIOUS
<1>1. \A r \in Resp : ~Exists(r)
    BY DEF NewsInit, Init, Exists
<1>2. NoNews \in News /\ \A c : Founded(c, NoNews)
    BY DEF News, NoNews, Founded
<1>3. news \in [Call -> News] /\ \A c \in Call : Founded(c, news[c])
    BY <1>2 DEF NewsInit
<1> QED BY <1>1, <1>3, PromisesHold DEF NewsInit, NewsInv, Shown

LEMMA StillTrue ==
    ASSUME Kept, NEW r \in Resp, NEW n, NEW kind, True(r, n, kind)
    PROVE  True(r, n, kind)'
BY DEF Kept, Grown, True

\* What a row shows is true of its whole ledger.
LEMMA ShownIsTrue ==
    ASSUME Held, NEW r \in Resp, Shown(r), Exists(r), NEW kind \in Kinds,
           Shows(row[r].status, kind)
    PROVE  Len(ledger[r]) \in Nat /\ True(r, Len(ledger[r]), kind)
<1>1. ledger[r] \in Seq(Event)
    BY DEF Held
<1>2. Telling(ledger[r], kind)
    BY DEF Shown
<1> QED BY <1>1, <1>2 DEF Telling, True

\* Whatever the responsibilities do, what is true stays so.
LEMMA BusinessStep ==
    ASSUME NewsInv, [NewsNext]_newsVars
    PROVE  /\ Held /\ Held' /\ Kept /\ Inv'
           /\ \A r \in Resp : Shown(r)'
           /\ \A n \in inbox : True(n.r, n.about, n.kind)'
<1>1. Held /\ Held' /\ Inv'
  <2>1. Inv'
      BY PromisesHold DEF NewsInv
  <2> QED BY <2>1, PromisesAreHeld, PTL DEF NewsInv
<1>2. Kept
    BY <1>1, StepsOfBusiness, AllKept
<1>3. \A r \in Resp : Shown(r)'
    BY <1>2 DEF Kept, NewsInv
<1>4. \A n \in inbox : True(n.r, n.about, n.kind)'
    BY <1>2, StillTrue DEF NewsInv, Notification
<1> QED BY <1>1, <1>2, <1>3, <1>4

\* The transactions of the other requests stay as they are.
OthersStay(c) == \A d \in Call : d # c => tx'[d] = tx[d]

\* A request goes on to news that are founded.
LEMMA NewsStep ==
    ASSUME NewsInv, [NewsNext]_newsVars, NEW c \in Call, NEW n \in News, Tell(c, n), OthersStay(c),
           n.at = "transaction" => tx'[c].op = OpOf(n.kind),
           n.at \in {"publish", "notify"} => True(n.r, n.about, n.kind)',
           inbox' \subseteq Notification,
           \A m \in inbox' : True(m.r, m.about, m.kind)'
    PROVE  NewsInv'
<1>1. /\ news' \in [Call -> News] /\ news'[c] = n
      /\ \A d \in Call : d # c => news'[d] = news[d]
    BY DEF NewsInv, Tell
<1>2. ASSUME NEW d \in Call PROVE Founded(d, news[d])'
  <2>1. CASE d = c
      BY <1>1, <2>1 DEF Founded, True
  <2>2. CASE d # c
    <3>1. PICK o \in News : o = news[d]
        BY DEF NewsInv
    <3>2. tx'[d] = tx[d] /\ news'[d] = o
        BY <1>1, <2>2, <3>1 DEF OthersStay
    <3>3. o.at = "transaction" => tx'[d].op = OpOf(o.kind)
        BY <3>1, <3>2 DEF NewsInv, Founded
    <3>4. ASSUME o.at \in {"publish", "notify"} PROVE True(o.r, o.about, o.kind)'
      <4>1. True(o.r, o.about, o.kind) /\ o.r \in Resp
          BY <3>1, <3>4 DEF NewsInv, Founded, News, NoNews
      <4> QED BY <4>1, StillTrue, BusinessStep
    <3> QED BY <3>2, <3>3, <3>4 DEF Founded, True
  <2> QED BY <2>1, <2>2
<1> QED BY <1>1, <1>2, BusinessStep DEF NewsInv

LEMMA QuietNewsStep ==
    ASSUME NewsInv, [NewsNext]_newsVars, NEW c \in Call, NEW n \in News, Tell(c, n), OthersStay(c),
           n.at = "transaction" => tx'[c].op = OpOf(n.kind),
           n.at \in {"publish", "notify"} => True(n.r, n.about, n.kind)',
           UNCHANGED inbox
    PROVE  NewsInv'
<1>1. inbox' \subseteq Notification
    BY DEF NewsInv
<1>2. \A m \in inbox' : True(m.r, m.about, m.kind)'
    BY BusinessStep
<1> QED BY <1>1, <1>2, NewsStep

\* What a request about news of a kind has come to: it goes on in its
\* transaction, or has a row that shows it, or a conflict.
Outcome(c, kind) ==
    /\ OthersStay(c)
    /\ tx'[c] # Idle => tx'[c].op = OpOf(kind)
    /\ tx'[c] = Idle /\ reply'[c].kind = "row" =>
          /\ reply'[c].r \in Resp
          /\ row'[reply'[c].r] # NoRow
          /\ Shows(row'[reply'[c].r].status, kind)

LEMMA AfterCommitInv ==
    ASSUME NewsInv, [NewsNext]_newsVars, NEW c \in Call, NEW kind \in Kinds, Outcome(c, kind),
           AfterCommit(c, kind), UNCHANGED inbox
    PROVE  NewsInv'
<1>1. CASE tx'[c] # Idle
  <2>1. PICK n : n = [at |-> "transaction", kind |-> kind]
      OBVIOUS
  <2>2. n \in News /\ n.at = "transaction" /\ n.kind = kind
      BY <2>1 DEF News
  <2>3. Tell(c, n) /\ OthersStay(c) /\ tx'[c].op = OpOf(kind)
      BY <1>1, <2>1 DEF AfterCommit, Outcome
  <2> QED BY <2>2, <2>3, QuietNewsStep
<1>2. CASE tx'[c] = Idle /\ reply'[c].kind = "row"
  <2>1. PICK r : r = reply'[c].r
      OBVIOUS
  <2>2. r \in Resp /\ row'[r] # NoRow /\ Shows(row'[r].status, kind)
      BY <1>2, <2>1 DEF Outcome
  <2>3. PICK about : about = Len(ledger'[r])
      OBVIOUS
  <2>4. about \in Nat /\ True(r, about, kind)'
    <3>1. ledger'[r] \in Seq(Event)
        BY <2>2, BusinessStep DEF Held
    <3>2. Shown(r)'
        BY <2>2, BusinessStep
    <3>3. Telling(ledger'[r], kind)
        BY <2>2, <3>2 DEF Shown, Exists
    <3> QED BY <2>3, <3>1, <3>3 DEF Telling, True
  <2>5. PICK n : n = [at |-> "publish", kind |-> kind, r |-> r, about |-> about]
      OBVIOUS
  <2>6. n \in News /\ n.at = "publish" /\ n.kind = kind /\ n.r = r /\ n.about = about
      BY <2>2, <2>4, <2>5 DEF News
  <2>7. Tell(c, n) /\ OthersStay(c)
      BY <1>2, <2>1, <2>3, <2>5 DEF AfterCommit, Outcome
  <2> QED BY <2>4, <2>6, <2>7, QuietNewsStep
<1>3. CASE tx'[c] = Idle /\ reply'[c].kind # "row"
  <2>1. NoNews \in News /\ NoNews.at = "nothing"
      BY DEF News, NoNews
  <2>2. Tell(c, NoNews) /\ OthersStay(c)
      BY <1>3 DEF AfterCommit, Outcome
  <2> QED BY <2>1, <2>2, QuietNewsStep
<1> QED BY <1>1, <1>2, <1>3

-----------------------------------------------------------------------------
(* The outcomes of the operations *)

LEMMA Ended ==
    ASSUME Held, NEW c \in Call, NEW x, Return(c, x)
    PROVE  OthersStay(c) /\ tx'[c] = Idle /\ reply'[c] = x
BY DEF Held, Return, OthersStay

LEMMA WentOn ==
    ASSUME Held, NEW c \in Call, NEW t, Proceed(c, t)
    PROVE  OthersStay(c) /\ tx'[c] = t
BY DEF Held, Proceed, OthersStay

\* A row that is there shows its status, or that it was accepted.
LEMMA RowOutcome ==
    ASSUME Held, NEW c \in Call, NEW kind \in Kinds, NEW r \in Resp,
           Return(c, RowReply(r)),
           row'[r] # NoRow, Shows(row'[r].status, kind)
    PROVE  Outcome(c, kind)
<1>1. OthersStay(c) /\ tx'[c] = Idle /\ reply'[c] = RowReply(r)
    BY Ended
<1> QED BY <1>1 DEF Outcome, RowReply

LEMMA CreateFindOutcome ==
    ASSUME Held, NEW c \in Call, NEW u \in User, NEW k \in Key, CreateFind(c, u, k)
    PROVE  Outcome(c, "accepted")
<1>1. UNCHANGED row
    BY DEF CreateFind
<1>2. ASSUME NEW r \in Resp, Exists(r), Return(c, RowReply(r))
      PROVE  Outcome(c, "accepted")
  <2>1. row'[r] # NoRow /\ Shows(row'[r].status, "accepted") /\ "accepted" \in Kinds
      BY <1>1, <1>2 DEF Exists, Shows, Kinds
  <2> QED BY <1>2, <2>1, RowOutcome
<1>3. ASSUME Proceed(c, [op |-> "create", user |-> u, key |-> k])
      PROVE  Outcome(c, "accepted")
  <2>1. PICK t : t = [op |-> "create", user |-> u, key |-> k]
      OBVIOUS
  <2>2. OthersStay(c) /\ tx'[c] = t
      BY <1>3, <2>1, WentOn
  <2>3. t.op = "create" /\ t # Idle
      BY <2>1 DEF Idle
  <2> QED BY <2>2, <2>3 DEF Outcome, OpOf
<1> QED BY <1>2, <1>3 DEF CreateFind

\* A status change that is settled already shows it.
LEMMA ReadOutcome ==
    ASSUME Held, NEW c \in Call, NEW u \in User, NEW r \in Resp, NEW kind \in Kinds,
           NEW allowed, NEW settled, NEW from, Shows(settled, kind),
           ReadCurrent(c, u, r, allowed, OpOf(kind), settled, from)
    PROVE  Outcome(c, kind)
<1>1. UNCHANGED row /\ Exists(r)
    BY DEF ReadCurrent
<1>2. CASE row[r].status = settled /\ Return(c, RowReply(r))
  <2>1. row'[r] # NoRow /\ Shows(row'[r].status, kind)
      BY <1>1, <1>2 DEF Exists
  <2> QED BY <1>2, <2>1, RowOutcome
<1>3. CASE Proceed(c, [op |-> OpOf(kind), user |-> u, r |-> r, seen |-> row[r].status])
  <2>1. PICK t : t = [op |-> OpOf(kind), user |-> u, r |-> r, seen |-> row[r].status]
      OBVIOUS
  <2>2. OthersStay(c) /\ tx'[c] = t
      BY <1>3, <2>1, WentOn
  <2>3. t.op = OpOf(kind) /\ t # Idle
      BY <2>1 DEF OpOf, Kinds, Idle
  <2> QED BY <2>2, <2>3 DEF Outcome
<1> QED BY <1>2, <1>3 DEF ReadCurrent

LEMMA CreateInsertOutcome ==
    ASSUME Held, NEW c \in Call, CreateInsert(c)
    PROVE  Outcome(c, "accepted")
<1>1. PICK r \in Resp :
          /\ row' = [row EXCEPT ![r] = [key |-> tx[c].key, status |-> "ACTIVE"]]
          /\ Return(c, RowReply(r))
    BY DEF CreateInsert
<1>2. row'[r].status = "ACTIVE"
    BY <1>1 DEF Held
<1>3. row'[r] # NoRow /\ Shows(row'[r].status, "accepted") /\ "accepted" \in Kinds
    BY <1>2 DEF NoRow, Shows, Kinds
<1> QED BY <1>1, <1>3, RowOutcome

\* An update shows the status it sets, or is a conflict.
LEMMA UpdateOutcome ==
    ASSUME Held, NEW c \in Call, tx[c] \in Move, NEW to, NEW events,
           to # "ABSENT", NEW kind \in Kinds, Shows(to, kind),
           CompareAndSet(c, to, events)
    PROVE  Outcome(c, kind)
<1>1. PICK r \in Resp : r = tx[c].r
    BY DEF Move
<1>2. CASE /\ row' = [row EXCEPT ![r].status = to]
           /\ Return(c, RowReply(r))
  <2>1. row[r] \in Row
      BY <1>1 DEF Held
  <2>2. row'[r].status = to
      BY <1>2, <2>1 DEF Held, Row
  <2>3. row'[r] # NoRow
      BY <2>2 DEF NoRow
  <2> QED BY <1>2, <2>2, <2>3, RowOutcome
<1>3. CASE Return(c, [kind |-> "conflict"])
  <2>1. PICK x : x = [kind |-> "conflict"]
      OBVIOUS
  <2>2. OthersStay(c) /\ tx'[c] = Idle /\ reply'[c] = x
      BY <1>3, <2>1, Ended
  <2>3. x.kind # "row"
      BY <2>1
  <2> QED BY <2>2, <2>3 DEF Outcome
<1> QED BY <1>1, <1>2, <1>3 DEF CompareAndSet

-----------------------------------------------------------------------------
(* Steps *)

LEMMA BeginInv == ASSUME NewsInv, [NewsNext]_newsVars, NEW c \in Call, Begin(c) PROVE NewsInv'
<1>1. Held /\ UNCHANGED inbox
    BY BusinessStep DEF Begin
<1>2. ASSUME NEW u \in User, NEW k \in Key, CreateFind(c, u, k), AfterCommit(c, "accepted")
      PROVE  NewsInv'
  <2>1. Outcome(c, "accepted") /\ "accepted" \in Kinds
      BY <1>1, <1>2, CreateFindOutcome DEF Kinds
  <2> QED BY <1>1, <1>2, <2>1, AfterCommitInv
<1>3. ASSUME NEW u \in User, NEW r \in Resp, NEW kind \in Kinds, NEW allowed, NEW settled, NEW from,
             ReadCurrent(c, u, r, allowed, OpOf(kind), settled, from),
             Shows(settled, kind), AfterCommit(c, kind)
      PROVE  NewsInv'
  <2>1. Outcome(c, kind)
      BY <1>1, <1>3, ReadOutcome
  <2> QED BY <1>1, <1>3, <2>1, AfterCommitInv
<1>4. ASSUME NEW u \in User, NEW r \in Resp, MarkNeedsYouRead(c, u, r),
             AfterCommit(c, "needs_you")
      PROVE  NewsInv'
  <2>1. /\ OpOf("needs_you") = "markNeedsYou" /\ "needs_you" \in Kinds
        /\ Shows("WAITING_ON_USER", "needs_you")
      BY DEF OpOf, Kinds, Shows
  <2> QED BY <1>3, <1>4, <2>1 DEF MarkNeedsYouRead
<1>5. ASSUME NEW u \in User, NEW r \in Resp, CompleteRead(c, u, r),
             AfterCommit(c, "completed_reported")
      PROVE  NewsInv'
  <2>1. /\ OpOf("completed_reported") = "complete" /\ "completed_reported" \in Kinds
        /\ Shows("COMPLETED", "completed_reported")
      BY DEF OpOf, Kinds, Shows
  <2> QED BY <1>3, <1>5, <2>1 DEF CompleteRead
<1>6. ASSUME NEW u \in User, NEW r \in Resp, CancelRead(c, u, r),
             AfterCommit(c, "cancelled")
      PROVE  NewsInv'
  <2>1. /\ OpOf("cancelled") = "cancel" /\ "cancelled" \in Kinds
        /\ Shows("CANCELLED", "cancelled")
      BY DEF OpOf, Kinds, Shows
  <2> QED BY <1>3, <1>6, <2>1 DEF CancelRead
<1> QED BY <1>2, <1>4, <1>5, <1>6 DEF Begin

LEMMA CommitInv == ASSUME NewsInv, [NewsNext]_newsVars, NEW c \in Call, Commit(c) PROVE NewsInv'
<1>1. Held /\ UNCHANGED inbox /\ AfterCommit(c, news[c].kind)
    BY BusinessStep DEF Commit
<1>2. PICK kind \in Kinds : kind = news[c].kind /\ tx[c].op = OpOf(kind)
  <2>1. news[c] \in News /\ Founded(c, news[c]) /\ news[c].at = "transaction"
      BY DEF NewsInv, Commit
  <2> QED BY <2>1 DEF News, NoNews, Founded
<1>3. Outcome(c, kind)
  <2>1. CASE CreateInsert(c)
    <3>1. kind = "accepted"
        BY <1>2, <2>1 DEF CreateInsert, OpOf, Kinds
    <3> QED BY <1>1, <2>1, <3>1, CreateInsertOutcome
  <2>2. CASE MarkNeedsYouWrite(c)
    <3>1. kind = "needs_you" /\ tx[c].op = "markNeedsYou"
        BY <1>2, <2>2 DEF MarkNeedsYouWrite, OpOf, Kinds
    <3>2. tx[c] \in Move
        BY <1>1, <3>1, OpMoves
    <3>3. Shows("WAITING_ON_USER", kind)
        BY <3>1 DEF Shows
    <3> QED BY <1>1, <2>2, <3>2, <3>3, UpdateOutcome DEF MarkNeedsYouWrite
  <2>3. CASE CompleteWrite(c)
    <3>1. kind = "completed_reported" /\ tx[c].op = "complete"
        BY <1>2, <2>3 DEF CompleteWrite, OpOf, Kinds
    <3>2. tx[c] \in Move
        BY <1>1, <3>1, OpMoves
    <3>3. Shows("COMPLETED", kind)
        BY <3>1 DEF Shows
    <3> QED BY <1>1, <2>3, <3>2, <3>3, UpdateOutcome DEF CompleteWrite
  <2>4. CASE CancelWrite(c)
    <3>1. kind = "cancelled" /\ tx[c].op = "cancel"
        BY <1>2, <2>4 DEF CancelWrite, OpOf, Kinds
    <3>2. tx[c] \in Move
        BY <1>1, <3>1, OpMoves
    <3>3. Shows("CANCELLED", kind)
        BY <3>1 DEF Shows
    <3> QED BY <1>1, <2>4, <3>2, <3>3, UpdateOutcome DEF CancelWrite
  <2> QED BY <2>1, <2>2, <2>3, <2>4 DEF Commit
<1> QED BY <1>1, <1>2, <1>3, AfterCommitInv

\* A request that has no news of its transaction may be in any.
LEMMA ResumeNewsInv == ASSUME NewsInv, [NewsNext]_newsVars, NEW c \in Call, Resume(c) PROVE NewsInv'
<1>1. Held /\ UNCHANGED <<news, inbox>>
    BY BusinessStep DEF Resume
<1>2. PICK n \in News : n = news[c]
    BY DEF NewsInv
<1>3. Tell(c, n)
    BY <1>1, <1>2 DEF Tell, NewsInv
<1>4. n.at # "transaction"
  <2>1. CASE n = NoNews
      BY <2>1 DEF NoNews
  <2>2. CASE ResumeWrite(c)
      BY <1>2, <2>2 DEF NewsInv, Founded, ResumeWrite, OpOf, News, Kinds, NoNews
  <2> QED BY <1>2, <2>1, <2>2 DEF Resume
<1>5. n.at \in {"publish", "notify"} => True(n.r, n.about, n.kind)'
  <2>1. SUFFICES ASSUME n.at \in {"publish", "notify"} PROVE True(n.r, n.about, n.kind)'
      OBVIOUS
  <2>2. True(n.r, n.about, n.kind) /\ n.r \in Resp
      BY <1>2, <2>1 DEF NewsInv, Founded, News, NoNews
  <2> QED BY <2>2, StillTrue, BusinessStep
<1>6. OthersStay(c)
  <2>1. ASSUME NEW u \in User, NEW r \in Resp, ResumeRead(c, u, r) PROVE OthersStay(c)
      BY <1>1, <2>1 DEF ResumeRead, ReadCurrent, Return,
                        Proceed, Held, OthersStay
  <2>2. ResumeWrite(c) => OthersStay(c)
      BY <1>1 DEF ResumeWrite, CompareAndSet, Return, Held, OthersStay
  <2> QED BY <2>1, <2>2 DEF Resume
<1> QED BY <1>1, <1>3, <1>4, <1>5, <1>6, QuietNewsStep

LEMMA ReadRecipientsInv ==
    ASSUME NewsInv, [NewsNext]_newsVars, NEW c \in Call, ReadRecipients(c)
    PROVE  NewsInv'
<1>1. PICK o \in News : o = news[c] /\ o.at = "publish"
    BY DEF NewsInv, ReadRecipients
<1>2. o.kind \in Kinds /\ o.r \in Resp /\ o.about \in Nat /\ True(o.r, o.about, o.kind)
    BY <1>1 DEF News, NoNews, NewsInv, Founded
<1>3. PICK to : to = Recipients(o.kind, ActorFor(o.kind, SubSeq(ledger[o.r], 1, o.about)))
    OBVIOUS
<1>4. PICK stage \in Stages : stage = [u \in User |-> IF u \in to THEN "find" ELSE "done"]
    BY DEF Stages
<1>5. /\ Tell(c, IF to = {} THEN NoNews
                 ELSE [at |-> "notify", kind |-> o.kind, r |-> o.r, about |-> o.about,
                       stage |-> stage])
      /\ UNCHANGED <<vars, inbox>>
    BY <1>1, <1>3, <1>4 DEF ReadRecipients
<1>6. OthersStay(c)
    BY <1>5 DEF OthersStay, vars
<1>7. CASE to = {}
  <2>1. NoNews \in News /\ NoNews.at = "nothing" /\ Tell(c, NoNews)
      BY <1>5, <1>7 DEF News, NoNews
  <2> QED BY <1>5, <1>6, <2>1, QuietNewsStep
<1>8. CASE to # {}
  <2>1. PICK n : n = [at |-> "notify", kind |-> o.kind, r |-> o.r, about |-> o.about,
                      stage |-> stage]
      OBVIOUS
  <2>2. n \in News /\ n.at = "notify" /\ n.r = o.r /\ n.about = o.about /\ n.kind = o.kind
      BY <1>2, <1>4, <2>1 DEF News
  <2>3. Tell(c, n)
      BY <1>5, <1>8, <2>1
  <2>4. True(n.r, n.about, n.kind)'
      BY <1>2, <2>2, StillTrue, BusinessStep
  <2> QED BY <1>5, <1>6, <2>2, <2>3, <2>4, QuietNewsStep
<1> QED BY <1>7, <1>8

Stage == {"find", "create", "mail", "done"}

\* A request that tells its recipients goes on with one of them, or has told
\* them all; what it tells stays the same.
LEMMA GoesOn ==
    ASSUME NewsInv, NEW c \in Call, NEW u \in User, NEW next \in Stage,
           news[c].at = "notify", GoOn(c, u, next)
    PROVE  \E o \in News, n \in News :
               /\ o = news[c] /\ Tell(c, n) /\ news'[c] = n
               /\ o.kind \in Kinds /\ o.r \in Resp /\ o.about \in Nat /\ o.stage \in Stages
               /\ True(o.r, o.about, o.kind)
               /\ \/ n = NoNews
                  \/ /\ n.at = "notify" /\ n.kind = o.kind /\ n.r = o.r /\ n.about = o.about
                     /\ n.stage = [o.stage EXCEPT ![u] = next]
<1>1. PICK o \in News : o = news[c] /\ o.at = "notify"
    BY DEF NewsInv
<1>2. /\ o.kind \in Kinds /\ o.r \in Resp /\ o.about \in Nat /\ o.stage \in Stages
      /\ True(o.r, o.about, o.kind)
      /\ o = [at |-> "notify", kind |-> o.kind, r |-> o.r, about |-> o.about, stage |-> o.stage]
    BY <1>1 DEF News, NoNews, NewsInv, Founded
<1>3. PICK stage : stage = [o.stage EXCEPT ![u] = next]
    OBVIOUS
<1>4. stage \in Stages
    BY <1>2, <1>3 DEF Stages, Stage
<1>5. CASE \A v \in User : stage[v] = "done"
  <2>1. NoNews \in News /\ Tell(c, NoNews)
      BY <1>1, <1>3, <1>5 DEF News, GoOn
  <2>2. news'[c] = NoNews
      BY <2>1 DEF Tell, NewsInv
  <2> QED BY <1>1, <1>2, <2>1, <2>2
<1>6. CASE ~\A v \in User : stage[v] = "done"
  <2>1. PICK n : n = [at |-> "notify", kind |-> o.kind, r |-> o.r, about |-> o.about,
                      stage |-> stage]
      OBVIOUS
  <2>2. n \in News
      BY <1>2, <1>4, <2>1 DEF News
  <2>3. [o EXCEPT !.stage = stage] = n
      BY <1>2, <2>1
  <2>4. Tell(c, n)
      BY <1>1, <1>3, <1>6, <2>3 DEF GoOn
  <2>5. news'[c] = n
      BY <2>4 DEF Tell, NewsInv
  <2>6. /\ n.at = "notify" /\ n.kind = o.kind /\ n.r = o.r /\ n.about = o.about
        /\ n.stage = stage
      BY <2>1
  <2> QED BY <1>1, <1>2, <1>3, <2>2, <2>4, <2>5, <2>6
<1> QED BY <1>5, <1>6

LEMMA TellingStep ==
    ASSUME NewsInv, [NewsNext]_newsVars, NEW c \in Call, NEW u \in User, NEW next \in Stage,
           news[c].at = "notify", GoOn(c, u, next), UNCHANGED vars,
           inbox' = inbox \/ Inserted(c, u)
    PROVE  NewsInv'
<1>1. PICK o \in News, n \in News :
          /\ o = news[c] /\ Tell(c, n) /\ news'[c] = n
          /\ o.kind \in Kinds /\ o.r \in Resp /\ o.about \in Nat /\ o.stage \in Stages
          /\ True(o.r, o.about, o.kind)
          /\ \/ n = NoNews
             \/ /\ n.at = "notify" /\ n.kind = o.kind /\ n.r = o.r /\ n.about = o.about
                /\ n.stage = [o.stage EXCEPT ![u] = next]
    BY GoesOn
<1>2. OthersStay(c)
    BY DEF OthersStay, vars
<1>3. True(o.r, o.about, o.kind)'
    BY <1>1, StillTrue, BusinessStep
<1>4. n.at # "transaction" /\ (n.at \in {"publish", "notify"} => True(n.r, n.about, n.kind)')
    BY <1>1, <1>3 DEF NoNews
<1>5. PICK m : m = [to |-> u, kind |-> o.kind, r |-> o.r, about |-> o.about]
    OBVIOUS
<1>6. m \in Notification /\ m.kind = o.kind /\ m.r = o.r /\ m.about = o.about
    BY <1>1, <1>5 DEF Notification
<1>7. inbox' = inbox \/ inbox' = inbox \cup {m}
    BY <1>1, <1>5 DEF Inserted
<1>8. inbox' \subseteq Notification
    BY <1>6, <1>7 DEF NewsInv
<1>9. \A x \in inbox' : True(x.r, x.about, x.kind)'
    BY <1>3, <1>6, <1>7, BusinessStep
<1> QED BY <1>1, <1>2, <1>4, <1>8, <1>9, NewsStep

LEMMA NotifyInv ==
    ASSUME NewsInv, [NewsNext]_newsVars, NEW c \in Call, NEW u \in User,
           NotifyFind(c, u) \/ NotifyCreate(c, u) \/ NotifyMail(c, u) \/ NotifyInVain(c, u)
    PROVE  NewsInv'
<1>1. news[c].at = "notify" /\ UNCHANGED vars
    BY DEF NotifyFind, NotifyCreate, NotifyMail, NotifyInVain, At
<1>2. PICK next \in Stage : GoOn(c, u, next)
    BY DEF NotifyFind, NotifyCreate, NotifyMail, NotifyInVain, Stage
<1>3. inbox' = inbox \/ Inserted(c, u)
    BY DEF NotifyFind, NotifyCreate, NotifyMail, NotifyInVain
<1> QED BY <1>1, <1>2, <1>3, TellingStep

LEMMA CrashInv == ASSUME NewsInv, [NewsNext]_newsVars, NEW c \in Call, Crash(c) PROVE NewsInv'
<1>1. NoNews \in News /\ NoNews.at = "nothing" /\ Tell(c, NoNews) /\ UNCHANGED inbox
    BY DEF News, NoNews, Crash
<1>2. OthersStay(c)
  <2>1. CASE Abandon(c)
      BY <2>1, Ended, BusinessStep DEF Abandon
  <2>2. CASE UNCHANGED vars
      BY <2>2 DEF OthersStay, vars
  <2> QED BY <2>1, <2>2 DEF Crash
<1> QED BY <1>1, <1>2, QuietNewsStep

\* Memberships change and the organization closes without news.
LEMMA SilentInv ==
    ASSUME NewsInv, [NewsNext]_newsVars, UNCHANGED <<news, inbox, tx>>
    PROVE  NewsInv'
<1>1. inbox' \subseteq Notification /\ news' \in [Call -> News]
    BY DEF NewsInv
<1>2. \A n \in inbox' : True(n.r, n.about, n.kind)'
    BY BusinessStep
<1>3. ASSUME NEW d \in Call PROVE Founded(d, news[d])'
  <2>1. PICK o \in News : o = news[d]
      BY DEF NewsInv
  <2>2. o.at = "transaction" => tx'[d].op = OpOf(o.kind)
      BY <2>1 DEF NewsInv, Founded
  <2>3. ASSUME o.at \in {"publish", "notify"} PROVE True(o.r, o.about, o.kind)'
    <3>1. True(o.r, o.about, o.kind) /\ o.r \in Resp
        BY <2>1, <2>3 DEF NewsInv, Founded, News, NoNews
    <3> QED BY <3>1, StillTrue, BusinessStep
  <2>4. news'[d] = o
      BY <2>1
  <2> QED BY <2>2, <2>3, <2>4 DEF Founded, True
<1> QED BY <1>1, <1>2, <1>3, BusinessStep DEF NewsInv

LEMMA NewsNextInv == NewsInv /\ [NewsNext]_newsVars => NewsInv'
<1> SUFFICES ASSUME NewsInv, [NewsNext]_newsVars PROVE NewsInv'
    OBVIOUS
<1>1. CASE Elsewhere
    BY <1>1, SilentInv DEF Elsewhere, ChangeRole, CloseOrganization
<1>2. CASE UNCHANGED newsVars
    BY <1>2, SilentInv DEF newsVars, vars
<1> QED BY <1>1, <1>2, BeginInv, CommitInv, ResumeNewsInv, ReadRecipientsInv, NotifyInv,
           CrashInv DEF NewsNext

LEMMA NewsInvariance == NewsSpec => []NewsInv
BY NewsInitInv, NewsNextInv, PTL DEF NewsSpec

\* What a notification says has happened, and did by the time the row it is
\* about was read, however late it is sent and whoever has moved the row since.
THEOREM NewsTrue == NewsSpec => []NewsIsTrue
<1>1. NewsInv => NewsIsTrue
    BY DEF NewsInv, NewsIsTrue, True
<1> QED BY <1>1, NewsInvariance, PTL

-----------------------------------------------------------------------------
(* Nobody is told twice *)

\* A request that has created a notification and has not mailed it.
Mailing(c, n) ==
    /\ n \in Notice
    /\ At(c, n.to, "mail") /\ news[c].kind = n.kind /\ news[c].r = n.r

\* Only the request that created a notification mails it: the index lets one
\* create it, and that request goes on to its mail once.
Sole ==
    /\ mails \in [Notice -> Nat]
    /\ \A m, n \in inbox : m.to = n.to /\ m.kind = n.kind /\ m.r = n.r => m = n
    /\ \A n \in Notice : mails[n] <= 1 /\ (mails[n] = 1 => Duplicates(n) # {})
    /\ \A c \in Call, n \in Notice : Mailing(c, n) => mails[n] = 0 /\ Duplicates(n) # {}
    /\ \A c, d \in Call, n \in Notice : Mailing(c, n) /\ Mailing(d, n) => c = d

LEMMA SoleInit == NewsInit => Sole
<1> SUFFICES ASSUME NewsInit PROVE Sole
    OBVIOUS
<1>1. mails \in [Notice -> Nat] /\ inbox = {} /\ \A n \in Notice : mails[n] = 0
    BY DEF NewsInit
<1>2. \A c \in Call : news[c].at # "notify"
    BY DEF NewsInit, NoNews
<1>3. \A c \in Call, n \in Notice : ~Mailing(c, n)
    BY <1>2 DEF Mailing, At
<1> QED BY <1>1, <1>3 DEF Sole

\* Nothing is created or mailed, and nobody gets to do so.
LEMMA SoleQuiet ==
    ASSUME Sole, UNCHANGED <<inbox, mails>>,
           \A c \in Call, n \in Notice : Mailing(c, n)' => Mailing(c, n)
    PROVE  Sole'
<1>1. \A n : Duplicates(n)' = Duplicates(n)
    BY DEF Duplicates
<1> QED BY <1>1 DEF Sole

\* A request that is not telling its recipients mails nothing.
LEMMA SoleElsewhere ==
    ASSUME NewsInv, Sole, UNCHANGED <<inbox, mails>>, NEW c \in Call, NEW n, Tell(c, n),
           n.at = "notify" => \A u \in User : n.stage[u] # "mail"
    PROVE  Sole'
<1>1. news'[c] = n /\ \A d \in Call : d # c => news'[d] = news[d]
    BY DEF Tell, NewsInv
<1>2. ASSUME NEW d \in Call, NEW x \in Notice, Mailing(d, x)' PROVE Mailing(d, x)
  <2>1. CASE d = c
      BY <1>1, <1>2, <2>1 DEF Mailing, At, Notice
  <2>2. CASE d # c
    <3>1. news'[d] = news[d]
        BY <1>1, <2>2
    <3> QED BY <1>2, <3>1 DEF Mailing, At
  <2> QED BY <2>1, <2>2
<1> QED BY <1>2, SoleQuiet

\* Who gets to mail after a step of a request with one of its recipients.
LEMMA MailingAfter ==
    ASSUME NewsInv, NEW c \in Call, NEW u \in User, NEW next \in Stage,
           news[c].at = "notify", GoOn(c, u, next)
    PROVE  /\ NoticeOf(c, u) \in Notice
           /\ \A m : Duplicates(m) = {x \in inbox : x.to = m.to /\ x.kind = m.kind /\ x.r = m.r}
           /\ \A d \in Call, n \in Notice :
                  Mailing(d, n)' => IF d = c /\ n = NoticeOf(c, u) THEN next = "mail"
                                    ELSE Mailing(d, n)
<1>1. PICK o \in News, n \in News :
          /\ o = news[c] /\ Tell(c, n) /\ news'[c] = n
          /\ o.kind \in Kinds /\ o.r \in Resp /\ o.stage \in Stages
          /\ \/ n = NoNews
             \/ /\ n.at = "notify" /\ n.kind = o.kind /\ n.r = o.r
                /\ n.stage = [o.stage EXCEPT ![u] = next]
    BY GoesOn
<1>2. NoticeOf(c, u) \in Notice
    BY <1>1 DEF NoticeOf, Notice
<1>3. ASSUME NEW d \in Call, NEW x \in Notice, Mailing(d, x)'
      PROVE  IF d = c /\ x = NoticeOf(c, u) THEN next = "mail" ELSE Mailing(d, x)
  <2>1. CASE d # c
    <3>1. news'[d] = news[d]
        BY <1>1, <2>1 DEF Tell, NewsInv
    <3> QED BY <1>3, <2>1, <3>1 DEF Mailing, At
  <2>2. CASE d = c
    <3>1. /\ n.at = "notify" /\ n.stage[x.to] = "mail" /\ n.kind = x.kind /\ n.r = x.r
        BY <1>1, <1>3, <2>2 DEF Mailing, At
    <3>2. n.kind = o.kind /\ n.r = o.r /\ n.stage = [o.stage EXCEPT ![u] = next]
        BY <1>1, <3>1 DEF NoNews
    <3>3. x.to \in User /\ x = [to |-> x.to, kind |-> x.kind, r |-> x.r]
        BY DEF Notice
    <3>4. CASE x.to = u
      <4>1. x = NoticeOf(c, u)
          BY <1>1, <3>1, <3>2, <3>3, <3>4 DEF NoticeOf
      <4>2. n.stage[u] = next
          BY <1>1, <3>2 DEF Stages
      <4> QED BY <2>2, <3>1, <3>4, <4>1, <4>2
    <3>5. CASE x.to # u
      <4>1. o.stage[x.to] = "mail"
          BY <1>1, <3>1, <3>2, <3>3, <3>5 DEF Stages
      <4>2. x # NoticeOf(c, u)
          BY <3>5 DEF NoticeOf
      <4>3. Mailing(c, x)
          BY <1>1, <3>1, <3>2, <4>1 DEF Mailing, At
      <4> QED BY <2>2, <4>2, <4>3
    <3> QED BY <3>4, <3>5
  <2> QED BY <2>1, <2>2
<1> QED BY <1>2, <1>3 DEF Duplicates

\* A step that neither creates nor mails.
LEMMA SoleGoesOn ==
    ASSUME NewsInv, Sole, NEW c \in Call, NEW u \in User, NEW next \in Stage \ {"mail"},
           news[c].at = "notify", GoOn(c, u, next), UNCHANGED <<inbox, mails>>
    PROVE  Sole'
<1>1. \A d \in Call, n \in Notice : Mailing(d, n)' => Mailing(d, n)
    BY MailingAfter
<1> QED BY <1>1, SoleQuiet

\* A notification is created only if none bears its key, so nobody mails it.
LEMMA SoleCreate ==
    ASSUME NewsInv, Sole, NEW c \in Call, NEW u \in User, NotifyCreate(c, u)
    PROVE  Sole'
<1>1. news[c].at = "notify" /\ UNCHANGED mails
    BY DEF NotifyCreate, At
<1>2. CASE Duplicates(NoticeOf(c, u)) # {} /\ UNCHANGED inbox /\ GoOn(c, u, "done")
    BY <1>1, <1>2, SoleGoesOn DEF Stage
<1>3. CASE Duplicates(NoticeOf(c, u)) = {} /\ Inserted(c, u) /\ GoOn(c, u, "mail")
  <2>1. PICK k : k = NoticeOf(c, u)
      OBVIOUS
  <2>2. k \in Notice /\ Duplicates(k) = {}
      BY <1>1, <1>3, <2>1, MailingAfter DEF Stage
  <2>3. PICK m : m = [to |-> u, kind |-> news[c].kind, r |-> news[c].r, about |-> news[c].about]
      OBVIOUS
  <2>4. m.to = k.to /\ m.kind = k.kind /\ m.r = k.r /\ inbox' = inbox \cup {m}
      BY <1>3, <2>1, <2>3 DEF NoticeOf, Inserted
  <2>5. \A x \in inbox : ~(x.to = k.to /\ x.kind = k.kind /\ x.r = k.r)
      BY <2>2 DEF Duplicates
  <2>6. \A n : Duplicates(n) # {} => Duplicates(n)' # {}
      BY <2>4 DEF Duplicates
  <2>7. Duplicates(k)' # {}
      BY <2>4 DEF Duplicates
  <2>8. mails[k] = 0 /\ \A d \in Call : ~Mailing(d, k)
      BY <2>2 DEF Sole
  <2>9. ASSUME NEW d \in Call, NEW n \in Notice, Mailing(d, n)'
        PROVE  (d = c /\ n = k) \/ (n # k /\ Mailing(d, n))
    <3>1. IF d = c /\ n = k THEN TRUE ELSE Mailing(d, n)
        BY <1>1, <1>3, <2>1, <2>9, MailingAfter DEF Stage
    <3> QED BY <2>8, <3>1
  <2>10. \A x, y \in inbox' : x.to = y.to /\ x.kind = y.kind /\ x.r = y.r => x = y
    <3>1. \A x \in inbox : ~(x.to = m.to /\ x.kind = m.kind /\ x.r = m.r)
        BY <2>4, <2>5
    <3>2. \A x, y \in inbox : x.to = y.to /\ x.kind = y.kind /\ x.r = y.r => x = y
        BY DEF Sole
    <3> QED BY <2>4, <3>1, <3>2
  <2>11. mails' = mails /\ mails \in [Notice -> Nat]
      BY <1>1 DEF Sole
  <2>12. \A n \in Notice : mails[n] <= 1 /\ (mails[n] = 1 => Duplicates(n)' # {})
      BY <2>6 DEF Sole
  <2>13. \A d \in Call, n \in Notice : Mailing(d, n)' => mails[n] = 0 /\ Duplicates(n)' # {}
    <3>1. \A d \in Call, n \in Notice : Mailing(d, n) => mails[n] = 0 /\ Duplicates(n) # {}
        BY DEF Sole
    <3> QED BY <2>6, <2>7, <2>8, <2>9, <3>1
  <2>14. \A d, e \in Call, n \in Notice : Mailing(d, n)' /\ Mailing(e, n)' => d = e
    <3>1. \A d, e \in Call, n \in Notice : Mailing(d, n) /\ Mailing(e, n) => d = e
        BY DEF Sole
    <3> QED BY <2>9, <3>1
  <2> QED BY <2>10, <2>11, <2>12, <2>13, <2>14 DEF Sole
<1> QED BY <1>2, <1>3 DEF NotifyCreate

\* Whoever mails a notification was the only one to, and no longer is.
LEMMA SoleMail ==
    ASSUME NewsInv, Sole, NEW c \in Call, NEW u \in User, NotifyMail(c, u)
    PROVE  Sole'
<1>1. news[c].at = "notify" /\ news[c].stage[u] = "mail" /\ GoOn(c, u, "done") /\ UNCHANGED inbox
    BY DEF NotifyMail, At
<1>2. PICK k : k = NoticeOf(c, u)
    OBVIOUS
<1>3. k \in Notice
    BY <1>1, <1>2, MailingAfter DEF Stage
<1>4. Mailing(c, k)
    BY <1>1, <1>2, <1>3 DEF Mailing, At, NoticeOf
<1>5. mails[k] = 0 /\ Duplicates(k) # {} /\ \A d \in Call : Mailing(d, k) => d = c
    BY <1>3, <1>4 DEF Sole
<1>6. /\ mails' \in [Notice -> Nat] /\ mails'[k] = 1
      /\ \A n \in Notice : n # k => mails'[n] = mails[n]
    BY <1>2, <1>3, <1>5 DEF NotifyMail, Sole
<1>7. \A n : Duplicates(n)' = Duplicates(n)
    BY <1>1 DEF Duplicates
<1>8. ASSUME NEW d \in Call, NEW n \in Notice, Mailing(d, n)' PROVE n # k /\ Mailing(d, n)
  <2>1. IF d = c /\ n = k THEN FALSE ELSE Mailing(d, n)
      BY <1>1, <1>2, <1>8, MailingAfter DEF Stage
  <2> QED BY <1>5, <2>1
<1>9. \A x, y \in inbox' : x.to = y.to /\ x.kind = y.kind /\ x.r = y.r => x = y
    BY <1>1 DEF Sole
<1>10. \A n \in Notice : mails'[n] <= 1 /\ (mails'[n] = 1 => Duplicates(n)' # {})
  <2>1. \A n \in Notice : mails[n] <= 1 /\ (mails[n] = 1 => Duplicates(n) # {})
      BY DEF Sole
  <2> QED BY <1>5, <1>6, <1>7, <2>1
<1>11. \A d \in Call, n \in Notice : Mailing(d, n)' => mails'[n] = 0 /\ Duplicates(n)' # {}
  <2>1. \A d \in Call, n \in Notice : Mailing(d, n) => mails[n] = 0 /\ Duplicates(n) # {}
      BY DEF Sole
  <2> QED BY <1>6, <1>7, <1>8, <2>1
<1>12. \A d, e \in Call, n \in Notice : Mailing(d, n)' /\ Mailing(e, n)' => d = e
  <2>1. \A d, e \in Call, n \in Notice : Mailing(d, n) /\ Mailing(e, n) => d = e
      BY DEF Sole
  <2> QED BY <1>8, <2>1
<1> QED BY <1>6, <1>9, <1>10, <1>11, <1>12 DEF Sole

LEMMA SoleNext == NewsInv /\ Sole /\ [NewsNext]_newsVars => Sole'
<1> SUFFICES ASSUME NewsInv, Sole, [NewsNext]_newsVars PROVE Sole'
    OBVIOUS
<1>1. ASSUME NEW c \in Call, NEW kind, AfterCommit(c, kind), UNCHANGED <<inbox, mails>>
      PROVE  Sole'
  <2>1. PICK n : Tell(c, n) /\ n.at # "notify"
    <3>1. CASE tx'[c] # Idle
      <4>1. PICK n : n = [at |-> "transaction", kind |-> kind]
          OBVIOUS
      <4>2. Tell(c, n) /\ n.at = "transaction"
          BY <1>1, <3>1, <4>1 DEF AfterCommit
      <4> QED BY <4>2
    <3>2. CASE tx'[c] = Idle /\ reply'[c].kind = "row"
      <4>1. PICK n : n = [at |-> "publish", kind |-> kind, r |-> reply'[c].r,
                          about |-> Len(ledger'[reply'[c].r])]
          OBVIOUS
      <4>2. Tell(c, n) /\ n.at = "publish"
          BY <1>1, <3>2, <4>1 DEF AfterCommit
      <4> QED BY <4>2
    <3>3. CASE tx'[c] = Idle /\ reply'[c].kind # "row"
      <4>1. Tell(c, NoNews) /\ NoNews.at = "nothing"
          BY <1>1, <3>3 DEF AfterCommit, NoNews
      <4> QED BY <4>1
    <3> QED BY <3>1, <3>2, <3>3
  <2> QED BY <1>1, <2>1, SoleElsewhere
<1>2. ASSUME NEW c \in Call, Begin(c) PROVE Sole'
  <2>1. (\E kind : AfterCommit(c, kind)) /\ UNCHANGED <<inbox, mails>>
      BY <1>2 DEF Begin
  <2> QED BY <1>1, <2>1
<1>3. ASSUME NEW c \in Call, Commit(c) PROVE Sole'
    BY <1>1, <1>3 DEF Commit
<1>4. ASSUME UNCHANGED <<news, inbox, mails>> PROVE Sole'
    BY <1>4, SoleQuiet DEF Mailing, At
<1>5. ASSUME NEW c \in Call, Resume(c) PROVE Sole'
    BY <1>4, <1>5 DEF Resume
<1>6. ASSUME NEW c \in Call, ReadRecipients(c) PROVE Sole'
  <2>1. PICK to, n :
            /\ n = [at |-> "notify", kind |-> news[c].kind, r |-> news[c].r,
                    about |-> news[c].about,
                    stage |-> [u \in User |-> IF u \in to THEN "find" ELSE "done"]]
            /\ Tell(c, NoNews) \/ Tell(c, n)
      BY <1>6 DEF ReadRecipients
  <2>2. \A u \in User : n.stage[u] # "mail"
      BY <2>1
  <2>3. NoNews.at # "notify" /\ UNCHANGED <<inbox, mails>>
      BY <1>6 DEF NoNews, ReadRecipients
  <2> QED BY <2>1, <2>2, <2>3, SoleElsewhere
<1>7. ASSUME NEW c \in Call, NEW u \in User, NotifyFind(c, u) \/ NotifyInVain(c, u) PROVE Sole'
  <2>1. news[c].at = "notify" /\ UNCHANGED <<inbox, mails>>
      BY <1>7 DEF NotifyFind, NotifyInVain, At
  <2>2. PICK next \in Stage \ {"mail"} : GoOn(c, u, next)
      BY <1>7 DEF NotifyFind, NotifyInVain, Stage
  <2> QED BY <2>1, <2>2, SoleGoesOn
<1>8. ASSUME NEW c \in Call, Crash(c) PROVE Sole'
  <2>1. Tell(c, NoNews) /\ NoNews.at # "notify" /\ UNCHANGED <<inbox, mails>>
      BY <1>8 DEF Crash, NoNews
  <2> QED BY <2>1, SoleElsewhere
<1>9. Elsewhere => Sole'
    BY <1>4 DEF Elsewhere
<1>10. UNCHANGED newsVars => Sole'
    BY <1>4 DEF newsVars
<1> QED BY <1>2, <1>3, <1>5, <1>6, <1>7, <1>8, <1>9, <1>10, SoleCreate, SoleMail DEF NewsNext

\* Whatever races between the look-up of a notification and its creation, one
\* recipient is notified once of one kind of news about one row, and mailed at
\* most once, of a notification that is kept.
THEOREM NotifiedOnceEver == NewsSpec => []NotifiedOnce
<1>1. Sole => NotifiedOnce
    BY DEF Sole, NotifiedOnce
<1> QED BY <1>1, SoleInit, SoleNext, NewsInvariance, PTL DEF NewsSpec

-----------------------------------------------------------------------------
(* The promises, with their news *)

\* A request key has one promise, also with the news and its retries.
THEOREM OnePromiseWithNews == NewsSpec => []OnePromisePerKey
BY Composition, OnePromise, PTL

\* The ledger of every row is a chain that ends in the row's status, whatever
\* news is on its way.
THEOREM LedgerChainedWithNews == NewsSpec => []LedgerIsChain
BY Composition, LedgerChained, PTL

\* Whoever moves a promise is still allowed to when the move commits, also when
\* the request has news to send.
THEOREM AuthorityHoldsWithNews == NewsSpec => AuthorityAtCommit
BY Composition, AuthorityHolds, PTL

\* With its news, every transaction takes effect at once, at its commit, by a
\* user who may make that move then; the news is not part of the promise.
THEOREM ImplementationWithNews == NewsSpec => ImplementsPromise
BY Composition, Implementation, PTL
===============================================================================
