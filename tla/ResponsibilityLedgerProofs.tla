---------------------- MODULE ResponsibilityLedgerProofs ----------------------
(***************************************************************************)
(* Proofs about ResponsibilityLedger for every set of calls, rows, slots   *)
(* and records.  LedgerInv is what holds of one ledger whatever calls      *)
(* interleave; IInv adds what an open transaction remembers of the row it  *)
(* read, which may be stale but was true of the same ledger.               *)
(***************************************************************************)
EXTENDS ResponsibilityLedger, SequenceTheorems, TLAPS

Unevidenced(l) ==
    \A i \in DOMAIN l : l[i].type \notin Evidencing /\ l[i].src = NoRecord

(* What the ledger l of a row in status st satisfies. *)
LedgerInv(l, st) ==
    /\ Len(l) >= 2
    /\ LastStatusIs(l, st)
    /\ ClosesOnce(l)
    /\ Alternates(l)
    /\ FromHeld(l)
    /\ st \in Open => Unevidenced(l)

LedgersInv ==
    \A r \in Resp :
        IF Exists(r) THEN LedgerInv(ledger[r], row[r].status)
                     ELSE ledger[r] = <<>>

(* The status a transaction read was held by the row it is about to move. *)
SeenInv ==
    \A c \in Call : tx[c] \in Move =>
        Held(ledger[tx[c].r], tx[c].seen, Len(ledger[tx[c].r]))

IInv == TypeOK /\ OneOpenPerSlot /\ LedgersInv /\ SeenInv

-----------------------------------------------------------------------------
(* Sequences of events *)

(* Appending one event leaves the ledger before it as it was. *)
LEMMA AppendOne ==
    ASSUME NEW l \in Seq(Event), NEW e \in Event
    PROVE  LET m == l \o <<e>> IN
           /\ m \in Seq(Event)
           /\ Len(m) = Len(l) + 1
           /\ Len(l) \in Nat
           /\ DOMAIN m = 1 .. (Len(l) + 1)
           /\ DOMAIN l = 1 .. Len(l)
           /\ \A i \in 1 .. Len(l) : m[i] = l[i]
           /\ m[Len(l) + 1] = e
  OBVIOUS

(* Appending two events: where they end up, and what stays. *)
LEMMA AppendTwo ==
    ASSUME NEW l \in Seq(Event), NEW e \in Event, NEW f \in Event
    PROVE  LET m == l \o <<e, f>> IN
           /\ m \in Seq(Event)
           /\ Len(m) = Len(l) + 2
           /\ Len(l) \in Nat
           /\ DOMAIN m = 1 .. (Len(l) + 2)
           /\ DOMAIN l = 1 .. Len(l)
           /\ \A i \in 1 .. Len(l) : m[i] = l[i]
           /\ m[Len(l) + 1] = e
           /\ m[Len(l) + 2] = f
  OBVIOUS

(* Appending three events: where they end up, and what stays. *)
LEMMA AppendThree ==
    ASSUME NEW l \in Seq(Event), NEW e \in Event, NEW f \in Event, NEW g \in Event
    PROVE  LET m == l \o <<e, f, g>> IN
           /\ m \in Seq(Event)
           /\ Len(m) = Len(l) + 3
           /\ Len(l) \in Nat
           /\ DOMAIN m = 1 .. (Len(l) + 3)
           /\ DOMAIN l = 1 .. Len(l)
           /\ \A i \in 1 .. Len(l) : m[i] = l[i]
           /\ m[Len(l) + 1] = e
           /\ m[Len(l) + 2] = f
           /\ m[Len(l) + 3] = g
  OBVIOUS

-----------------------------------------------------------------------------
(* One ledger *)

(* The two events an accepted Responsibility starts with. *)
LEMMA CreatedLedger ==
    ASSUME NEW l,
           l = <<Evt("ACCEPTED", NoStatus, "ACTIVE", NoRecord),
                 Evt("COMMITMENT_RECORDED", NoStatus, NoStatus, NoRecord)>>
    PROVE  l \in Seq(Event) /\ LedgerInv(l, "ACTIVE")
<1>1. /\ Len(l) = 2 /\ DOMAIN l = 1 .. 2
      /\ l[1] = Evt("ACCEPTED", NoStatus, "ACTIVE", NoRecord)
      /\ l[2] = Evt("COMMITMENT_RECORDED", NoStatus, NoStatus, NoRecord)
  OBVIOUS
<1>2. l \in Seq(Event)
  BY DEF Event, Evt, EventType, Status, Open, Terminal, NoStatus
<1>3. LastStatusIs(l, "ACTIVE")
  BY <1>1 DEF LastStatusIs, Evt, NoStatus
<1>4. ClosesOnce(l) /\ Unevidenced(l)
  BY <1>1 DEF ClosesOnce, Unevidenced, Evt, Evidencing
<1>5. Alternates(l)
  BY <1>1 DEF Alternates, Evt
<1>6. FromHeld(l)
  BY <1>1 DEF FromHeld, Evt
<1>7. QED
  BY <1>1, <1>2, <1>3, <1>4, <1>5, <1>6 DEF LedgerInv

(* An event that moves an open row to another open status. *)
LEMMA MovedLedger ==
    ASSUME NEW l \in Seq(Event), NEW st \in Open, NEW to \in Open, NEW e \in Event,
           LedgerInv(l, st),
           e.to = to, e.src = NoRecord, e.type \notin Evidencing,
           Held(l, e.from, Len(l)),
           e.type = "USER_INPUT_REQUIRED" => st # "WAITING_ON_USER",
           e.type = "STATE_CHANGED" => st = "WAITING_ON_USER"
    PROVE  l \o <<e>> \in Seq(Event) /\ LedgerInv(l \o <<e>>, to)
<1> DEFINE m == l \o <<e>>
<1>1. /\ m \in Seq(Event) /\ Len(m) = Len(l) + 1 /\ Len(l) \in Nat
      /\ DOMAIN m = 1 .. (Len(l) + 1) /\ DOMAIN l = 1 .. Len(l)
      /\ \A i \in 1 .. Len(l) : m[i] = l[i]
      /\ m[Len(l) + 1] = e
  BY AppendOne
<1> HIDE DEF m
<1>2. PICK last \in DOMAIN l : l[last].to = st /\ \A j \in DOMAIN l : j > last => l[j].to = NoStatus
  BY DEF LedgerInv, LastStatusIs
<1>3. LastStatusIs(m, to)
  BY <1>1 DEF LastStatusIs
<1>4. Unevidenced(m)
  BY <1>1 DEF LedgerInv, Unevidenced
<1>5. ClosesOnce(m)
  BY <1>4 DEF ClosesOnce, Unevidenced, Evidencing
<1>6. Alternates(m)
  <2> SUFFICES ASSUME NEW j \in DOMAIN m, NEW i \in 1 .. (j - 1)
               PROVE  /\ m[j].type = "USER_INPUT_REQUIRED" /\ m[i].to = "WAITING_ON_USER" =>
                            \E k \in (i + 1) .. (j - 1) : m[k].to \in Open \ {"WAITING_ON_USER"}
                      /\ m[j].type = "STATE_CHANGED" /\ m[i].to \in Open \ {"WAITING_ON_USER"} =>
                            \E k \in (i + 1) .. (j - 1) : m[k].to = "WAITING_ON_USER"
    BY DEF Alternates
  <2>1. CASE j \in DOMAIN l
    <3>1. Alternates(l)
      BY DEF LedgerInv
    <3>2. \A k \in 1 .. j : m[k] = l[k]
      BY <1>1, <2>1
    <3>3. i \in 1 .. j /\ \A k \in (i + 1) .. (j - 1) : k \in 1 .. j
      BY <1>1, <2>1
    <3>4. /\ l[j].type = "USER_INPUT_REQUIRED" /\ l[i].to = "WAITING_ON_USER" =>
                \E k \in (i + 1) .. (j - 1) : l[k].to \in Open \ {"WAITING_ON_USER"}
          /\ l[j].type = "STATE_CHANGED" /\ l[i].to \in Open \ {"WAITING_ON_USER"} =>
                \E k \in (i + 1) .. (j - 1) : l[k].to = "WAITING_ON_USER"
      BY <3>1, <2>1 DEF Alternates
    <3> QED
      BY <3>2, <3>3, <3>4, <1>1, <2>1
  <2>2. CASE j = Len(l) + 1
    <3>1. m[j] = e /\ i \in DOMAIN l /\ m[i] = l[i] /\ m[last] = l[last]
      BY <1>1, <1>2, <2>2
    <3>2. l[i].to \in Open => i <= last
      BY <1>1, <1>2, <3>1 DEF NoStatus, Open
    <3>3. i < last => last \in (i + 1) .. (j - 1)
      BY <1>1, <1>2, <3>1, <2>2
    <3>4. i = last => l[i].to = st
      BY <1>2
    <3>5. i <= last => i < last \/ i = last
      BY <1>1, <1>2, <3>1
    <3> QED
      BY <3>1, <3>2, <3>3, <3>4, <3>5, <1>2 DEF Open
  <2> QED
    BY <1>1, <2>1, <2>2
<1>7. FromHeld(m)
  <2>1. ASSUME NEW j \in DOMAIN m, m[j].from # NoStatus
        PROVE  Held(m, m[j].from, j - 1)
    <3>1. CASE j \in DOMAIN l
      BY SMTT(30), <1>1, <2>1, <3>1 DEF LedgerInv, FromHeld, Held
    <3>2. CASE j = Len(l) + 1
      BY <1>1, <3>2 DEF Held
    <3> QED
      BY <1>1, <3>1, <3>2
  <2> QED
    BY <2>1 DEF FromHeld
<1>8. Len(m) >= 2
  BY <1>1 DEF LedgerInv
<1> QED
  BY <1>1, <1>3, <1>4, <1>5, <1>6, <1>7, <1>8 DEF LedgerInv, m

(* Closing events after the ledger l of an open row: any evidence events,  *)
(* and last the one that moves the row to its terminal status.             *)
LEMMA ClosedLedger ==
    ASSUME NEW l \in Seq(Event), NEW st \in Open, NEW m \in Seq(Event),
           NEW to \in {"COMPLETED", "RESPONSIBLY_EXHAUSTED"},
           NEW seen \in Status, NEW src \in Record,
           LedgerInv(l, st), Held(l, seen, Len(l)),
           Len(m) >= Len(l) + 2,
           \A i \in 1 .. Len(l) : m[i] = l[i],
           \A i \in (Len(l) + 1) .. (Len(m) - 1) :
               m[i].type = "ACTION_EVIDENCED" /\ m[i].from = NoStatus /\ m[i].to = NoStatus,
           m[Len(m) - 1] = Evidenced(src),
           m[Len(m)] = Evt(to, seen, to, src)
    PROVE  LedgerInv(m, to)
<1>1. /\ Len(m) \in Nat /\ Len(l) \in Nat /\ Len(l) >= 2
      /\ DOMAIN m = 1 .. Len(m) /\ DOMAIN l = 1 .. Len(l)
  BY DEF LedgerInv
<1>2. m[Len(m)].to = to /\ m[Len(m)].from = seen /\ m[Len(m)].src = src /\ m[Len(m)].type = to
  BY DEF Evt
<1>3. LastStatusIs(m, to)
  BY <1>1, <1>2 DEF LastStatusIs
<1>4. ClosesOnce(m)
  <2>1. ASSUME NEW i \in DOMAIN m, m[i].type \in {"COMPLETED", "RESPONSIBLY_EXHAUSTED"}
        PROVE  i = Len(m)
    <3>1. CASE i \in 1 .. Len(l)
      BY <1>1, <2>1, <3>1 DEF LedgerInv, Unevidenced, Evidencing
    <3>2. CASE i \in (Len(l) + 1) .. (Len(m) - 1)
      BY <2>1, <3>2
    <3> QED
      BY <1>1, <3>1, <3>2
  <2>2. /\ Len(m) > 2 /\ m[Len(m)].src \in Record
        /\ m[Len(m) - 1] = Evidenced(m[Len(m)].src)
    BY <1>1, <1>2
  <2> QED
    BY <2>1, <2>2 DEF ClosesOnce
<1>5. Alternates(m)
  <2> SUFFICES ASSUME NEW j \in DOMAIN m, NEW i \in 1 .. (j - 1),
                      m[j].type \in {"USER_INPUT_REQUIRED", "STATE_CHANGED"}
               PROVE  /\ m[j].type = "USER_INPUT_REQUIRED" /\ m[i].to = "WAITING_ON_USER" =>
                            \E k \in (i + 1) .. (j - 1) : m[k].to \in Open \ {"WAITING_ON_USER"}
                      /\ m[j].type = "STATE_CHANGED" /\ m[i].to \in Open \ {"WAITING_ON_USER"} =>
                            \E k \in (i + 1) .. (j - 1) : m[k].to = "WAITING_ON_USER"
    BY DEF Alternates
  <2>1. j \in DOMAIN l
    BY <1>1, <1>2
  <2>2. /\ l[j].type = "USER_INPUT_REQUIRED" /\ l[i].to = "WAITING_ON_USER" =>
                \E k \in (i + 1) .. (j - 1) : l[k].to \in Open \ {"WAITING_ON_USER"}
        /\ l[j].type = "STATE_CHANGED" /\ l[i].to \in Open \ {"WAITING_ON_USER"} =>
                \E k \in (i + 1) .. (j - 1) : l[k].to = "WAITING_ON_USER"
    BY <2>1 DEF Alternates, LedgerInv
  <2>3. \A k \in 1 .. j : m[k] = l[k]
    BY <1>1, <2>1
  <2>4. i \in 1 .. j /\ j \in 1 .. j /\ \A k \in (i + 1) .. (j - 1) : k \in 1 .. j
    BY <1>1, <2>1
  <2> QED
    BY <2>2, <2>3, <2>4
<1>6. FromHeld(m)
  <2>1. ASSUME NEW j \in DOMAIN m, m[j].from # NoStatus
        PROVE  Held(m, m[j].from, j - 1)
    <3>1. CASE j \in 1 .. Len(l)
      BY <1>1, <2>1, <3>1 DEF LedgerInv, FromHeld, Held
    <3>2. CASE j = Len(m)
      BY <1>1, <1>2, <3>2 DEF Held
    <3> QED
      BY <1>1, <2>1, <3>1, <3>2
  <2> QED
    BY <2>1 DEF FromHeld
<1> QED
  BY <1>1, <1>3, <1>4, <1>5, <1>6 DEF LedgerInv, Open

(* The two events of a completion keep the ledger of an open row in order. *)
LEMMA CompletedLedger ==
    ASSUME NEW l \in Seq(Event), NEW st \in Open,
           NEW seen \in Status, NEW src \in Record,
           LedgerInv(l, st), Held(l, seen, Len(l))
    PROVE  LET m == l \o <<Evidenced(src), Evt("COMPLETED", seen, "COMPLETED", src)>> IN
           m \in Seq(Event) /\ LedgerInv(m, "COMPLETED")
<1> DEFINE e == Evidenced(src)
           f == Evt("COMPLETED", seen, "COMPLETED", src)
           m == l \o <<e, f>>
<1>1. e \in Event /\ f \in Event
  BY DEF Event, Evt, Evidenced, EventType, Evidencing, Status, Terminal
<1>2. e.type = "ACTION_EVIDENCED" /\ e.from = NoStatus /\ e.to = NoStatus
  BY DEF Evidenced, Evt
<1> HIDE DEF e, f
<1>3. /\ m \in Seq(Event) /\ Len(m) = Len(l) + 2 /\ Len(l) \in Nat
      /\ DOMAIN m = 1 .. (Len(l) + 2) /\ DOMAIN l = 1 .. Len(l)
      /\ \A i \in 1 .. Len(l) : m[i] = l[i]
      /\ m[Len(l) + 1] = e /\ m[Len(l) + 2] = f
  BY <1>1, AppendTwo
<1> HIDE DEF m
<1>4. LedgerInv(m, "COMPLETED")
  <2>1. \A i \in (Len(l) + 1) .. (Len(m) - 1) : i = Len(l) + 1
    BY <1>3
  <2>2. m[Len(m) - 1] = Evidenced(src) /\ m[Len(m)] = Evt("COMPLETED", seen, "COMPLETED", src)
    BY <1>3 DEF e, f
  <2> QED
    BY <1>2, <1>3, <2>1, <2>2, ClosedLedger
<1> QED
  BY <1>3, <1>4 DEF m, e, f

(* The three events of an exhaustion keep the ledger of an open row in order. *)
LEMMA ExhaustedLedger ==
    ASSUME NEW l \in Seq(Event), NEW st \in Open,
           NEW seen \in Status, NEW src \in Record, NEW supporting \in Record,
           LedgerInv(l, st), Held(l, seen, Len(l))
    PROVE  LET m == l \o <<Evidenced(supporting), Evidenced(src),
                           Evt("RESPONSIBLY_EXHAUSTED", seen, "RESPONSIBLY_EXHAUSTED", src)>> IN
           m \in Seq(Event) /\ LedgerInv(m, "RESPONSIBLY_EXHAUSTED")
<1> DEFINE d == Evidenced(supporting)
           e == Evidenced(src)
           f == Evt("RESPONSIBLY_EXHAUSTED", seen, "RESPONSIBLY_EXHAUSTED", src)
           m == l \o <<d, e, f>>
<1>1. d \in Event /\ e \in Event /\ f \in Event
  BY DEF Event, Evt, Evidenced, EventType, Evidencing, Status, Terminal
<1>2. /\ d.type = "ACTION_EVIDENCED" /\ d.from = NoStatus /\ d.to = NoStatus
      /\ e.type = "ACTION_EVIDENCED" /\ e.from = NoStatus /\ e.to = NoStatus
  BY DEF Evidenced, Evt
<1> HIDE DEF d, e, f
<1>3. /\ m \in Seq(Event) /\ Len(m) = Len(l) + 3 /\ Len(l) \in Nat
      /\ DOMAIN m = 1 .. (Len(l) + 3) /\ DOMAIN l = 1 .. Len(l)
      /\ \A i \in 1 .. Len(l) : m[i] = l[i]
      /\ m[Len(l) + 1] = d /\ m[Len(l) + 2] = e /\ m[Len(l) + 3] = f
  BY <1>1, AppendThree
<1> HIDE DEF m
<1>4. LedgerInv(m, "RESPONSIBLY_EXHAUSTED")
  <2>1. \A i \in (Len(l) + 1) .. (Len(m) - 1) : i = Len(l) + 1 \/ i = Len(l) + 2
    BY <1>3
  <2>2. m[Len(m) - 1] = Evidenced(src)
    BY <1>3 DEF e
  <2>3. m[Len(m)] = Evt("RESPONSIBLY_EXHAUSTED", seen, "RESPONSIBLY_EXHAUSTED", src)
    BY <1>3 DEF f
  <2> QED
    BY SMTT(30), <1>2, <1>3, <2>1, <2>2, <2>3, ClosedLedger
<1> QED
  BY <1>3, <1>4 DEF m, d, e, f

-----------------------------------------------------------------------------
(* The invariant *)

(* A row that has a status is in the table. *)
LEMMA OpenExists ==
    ASSUME NEW r \in Resp, row[r].status \in Status
    PROVE  Exists(r)
  BY DEF Exists, NoRow, Status, Open, Terminal

(* The invariant holds of empty tables. *)
LEMMA InitInv == Init => IInv
<1> SUFFICES ASSUME Init PROVE IInv
  OBVIOUS
<1>1. \A r \in Resp : ~Exists(r) /\ ~IsOpen(r)
  BY DEF Init, Exists, IsOpen, NoRow, Open
<1>2. TypeOK
  BY <1>1, EmptySeq DEF TypeOK, Init, Idle, Move, NoReply
<1>3. SeenInv
  BY DEF SeenInv, Init, Idle, Move
<1> QED
  BY <1>1, <1>2, <1>3 DEF IInv, OneOpenPerSlot, LedgersInv, Init

(* A method that returns early, throws or goes on leaves the tables alone. *)
LEMMA ReturnInv ==
    ASSUME IInv, NEW c \in Call, NEW result \in Reply \cup {NoReply},
           Return(c, result), UNCHANGED <<row, ledger>>
    PROVE  IInv'
<1>1. /\ tx' \in [Call -> Creation \cup Move \cup {Idle}]
      /\ \A d \in Call : tx'[d] \in Move => d # c /\ tx'[d] = tx[d]
  BY DEF IInv, TypeOK, Return, Idle, Move
<1>2. TypeOK'
  BY <1>1 DEF IInv, TypeOK, Return, Exists
<1>3. SeenInv'
  BY <1>1 DEF IInv, SeenInv
<1>4. OneOpenPerSlot' /\ LedgersInv'
  BY DEF IInv, OneOpenPerSlot, LedgersInv, IsOpen, Exists
<1> QED
  BY <1>2, <1>3, <1>4 DEF IInv

(* A call that goes on with a transaction leaves the tables alone. *)
LEMMA ProceedInv ==
    ASSUME IInv, NEW c \in Call, NEW state \in Creation \cup Move,
           state \in Move =>
              Exists(state.r) /\ Held(ledger[state.r], state.seen, Len(ledger[state.r])),
           Proceed(c, state), UNCHANGED <<row, ledger>>
    PROVE  IInv'
<1>1. /\ tx' \in [Call -> Creation \cup Move \cup {Idle}]
      /\ tx'[c] = state /\ \A d \in Call : d # c => tx'[d] = tx[d]
  BY DEF IInv, TypeOK, Proceed
<1>2. TypeOK'
  BY <1>1 DEF IInv, TypeOK, Proceed, Exists
<1>3. SeenInv'
  BY <1>1 DEF IInv, SeenInv
<1>4. OneOpenPerSlot' /\ LedgersInv'
  BY DEF IInv, OneOpenPerSlot, LedgersInv, IsOpen, Exists
<1> QED
  BY <1>2, <1>3, <1>4 DEF IInv

(* The reply that hands back a row is a reply. *)
LEMMA RowReplyType == ASSUME NEW r \in Resp PROVE RowReply(r) \in Reply
  BY DEF Reply, RowReply

(* The duplicate lookup keeps the invariant. *)
LEMMA CreateAcceptedFindInv ==
    ASSUME IInv, NEW c \in Call, NEW s \in Slot, NEW p \in Provenance,
           CreateAcceptedFind(c, s, p)
    PROVE  IInv'
<1>1. CASE \E r \in OpenIn(s) : Return(c, RowReply(r))
  BY <1>1, ReturnInv, RowReplyType DEF CreateAcceptedFind, OpenIn
<1>2. CASE Proceed(c, [op |-> "insert", slot |-> s, prov |-> p])
  BY <1>2, ProceedInv DEF CreateAcceptedFind, Creation, Move
<1> QED
  BY <1>1, <1>2 DEF CreateAcceptedFind

(* The insert keeps the invariant, refused by the index or not. *)
LEMMA CreateAcceptedInsertInv ==
    ASSUME IInv, NEW c \in Call, CreateAcceptedInsert(c)
    PROVE  IInv'
<1>0. tx[c] \in Creation
  BY DEF CreateAcceptedInsert, IInv, TypeOK, Creation, Move, Idle
<1>1. ASSUME OpenIn(tx[c].slot) = {}, NEW r \in Resp, row[r] = NoRow,
             row' = [row EXCEPT ![r] =
                      [slot |-> tx[c].slot, prov |-> tx[c].prov, status |-> "ACTIVE"]],
             ledger' = [ledger EXCEPT ![r] =
                      <<Evt("ACCEPTED", NoStatus, "ACTIVE", NoRecord),
                        Evt("COMMITMENT_RECORDED", NoStatus, NoStatus, NoRecord)>>],
             Return(c, RowReply(r))
      PROVE  IInv'
  <2>1. /\ row' \in [Resp -> Row \cup {NoRow}]
        /\ row'[r].status = "ACTIVE" /\ row'[r].slot = tx[c].slot
        /\ \A q \in Resp : q # r => row'[q] = row[q]
    BY <1>0, <1>1 DEF IInv, TypeOK, Row, Creation, Status, Open
  <2>2. /\ ledger' \in [Resp -> Seq(Event)]
        /\ LedgerInv(ledger'[r], "ACTIVE")
        /\ \A q \in Resp : q # r => ledger'[q] = ledger[q]
    BY <1>1, CreatedLedger DEF IInv, TypeOK
  <2>3. /\ tx' \in [Call -> Creation \cup Move \cup {Idle}]
        /\ \A d \in Call : tx'[d] \in Move => tx'[d] = tx[d]
    BY <1>1 DEF IInv, TypeOK, Return, Idle, Move
  <2>4. \A d \in Call : tx'[d] \in Move => tx[d].r \in Resp /\ tx[d].r # r
    BY <1>1, <2>3 DEF IInv, TypeOK, Exists, Move
  <2>5. TypeOK'
    BY <1>1, <2>1, <2>2, <2>3, <2>4, RowReplyType DEF IInv, TypeOK, Exists, Return
  <2>6. OneOpenPerSlot'
    BY <1>1, <2>1 DEF IInv, OneOpenPerSlot, IsOpen, OpenIn
  <2>7. LedgersInv'
    <3>1. row'[r] # NoRow
      BY <2>1 DEF NoRow
    <3>2. IF Exists(r)' THEN LedgerInv(ledger'[r], row'[r].status)
                        ELSE ledger'[r] = <<>>
      BY <2>1, <2>2, <3>1 DEF Exists
    <3>3. ASSUME NEW q \in Resp, q # r
          PROVE  IF Exists(q)' THEN LedgerInv(ledger'[q], row'[q].status)
                               ELSE ledger'[q] = <<>>
      BY <2>1, <2>2, <3>3 DEF IInv, LedgersInv, Exists
    <3> QED
      BY <3>2, <3>3 DEF LedgersInv, Exists
  <2>8. SeenInv'
    BY <2>2, <2>3, <2>4 DEF IInv, SeenInv
  <2> QED
    BY <2>5, <2>6, <2>7, <2>8 DEF IInv
<1>2. CASE /\ Proceed(c, [tx[c] EXCEPT !.op = "refind"])
           /\ UNCHANGED <<row, ledger>>
  <2>1. [tx[c] EXCEPT !.op = "refind"] \in Creation
    BY <1>0 DEF Creation
  <2>2. [tx[c] EXCEPT !.op = "refind"] \notin Move
    BY <1>0 DEF Creation, Move
  <2> QED
    BY <1>2, <2>1, <2>2, ProceedInv
<1> QED
  BY <1>1, <1>2 DEF CreateAcceptedInsert

(* The lookup of the winner keeps the invariant. *)
LEMMA CreateAcceptedRefindInv ==
    ASSUME IInv, NEW c \in Call, CreateAcceptedRefind(c)
    PROVE  IInv'
<1>1. [kind |-> "duplicateKey"] \in Reply
  BY DEF Reply
<1> QED
  BY <1>1, ReturnInv, RowReplyType DEF CreateAcceptedRefind, OpenIn

(* The read of a status change keeps the invariant, returning or not. *)
LEMMA ReadCurrentInv ==
    ASSUME IInv, NEW c \in Call, NEW r \in Resp, NEW settled \in SUBSET Status,
           NEW op \in {"markWaitingOnUser", "markWaitingOnThirdParty",
                       "resumeFromWaitingOnUser", "completeWithEvidence",
                       "responsiblyExhaustWithEvidence"},
           ReadCurrent(c, r, op, settled)
    PROVE  IInv'
<1>1. CASE Return(c, RowReply(r))
  BY <1>1, ReturnInv, RowReplyType DEF ReadCurrent
<1>2. CASE Proceed(c, [op |-> op, r |-> r, seen |-> row[r].status])
  <2> DEFINE state == [op |-> op, r |-> r, seen |-> row[r].status]
  <2>1. row[r].status \in Status
    BY DEF ReadCurrent, Exists, IInv, TypeOK, Row
  <2>2. state \in Move /\ state.r = r /\ state.seen = row[r].status
    BY <2>1 DEF Move
  <2>3. ledger[r] \in Seq(Event) /\ LastStatusIs(ledger[r], row[r].status)
    BY DEF ReadCurrent, IInv, LedgersInv, LedgerInv, TypeOK
  <2>4. Held(ledger[r], row[r].status, Len(ledger[r]))
    BY <2>3, LenProperties DEF LastStatusIs, Held
  <2> QED
    BY <1>2, <2>2, <2>4, ProceedInv DEF ReadCurrent
<1> QED
  BY <1>1, <1>2 DEF ReadCurrent

(* What the move of an open row leaves behind, in one step: the row in its  *)
(* new status, the longer ledger, and every other row as it was.           *)
LEMMA MovedRowInv ==
    ASSUME IInv, NEW c \in Call, tx[c] \in Move,
           NEW to \in Status, NEW events \in Seq(Event),
           IsOpen(tx[c].r),
           row' = [row EXCEPT ![tx[c].r].status = to],
           ledger' = [ledger EXCEPT ![tx[c].r] = @ \o events],
           ledger[tx[c].r] \o events \in Seq(Event),
           LedgerInv(ledger[tx[c].r] \o events, to),
           Return(c, RowReply(tx[c].r))
    PROVE  IInv'
<1> DEFINE r == tx[c].r
<1>1. r \in Resp /\ Exists(r) /\ row[r] \in Row /\ ledger[r] \in Seq(Event)
  BY DEF IInv, TypeOK, Move, Exists
<1>2. /\ row' \in [Resp -> Row \cup {NoRow}]
      /\ row'[r] \in Row /\ row'[r].status = to /\ row'[r].slot = row[r].slot
      /\ \A q \in Resp : q # r => row'[q] = row[q]
  <2>1. row'[r] = [row[r] EXCEPT !.status = to]
    BY <1>1 DEF IInv, TypeOK
  <2>2. row'[r] \in Row /\ row'[r].status = to /\ row'[r].slot = row[r].slot
    BY SMTT(30), <1>1, <2>1 DEF Row
  <2> QED
    BY <1>1, <2>2 DEF IInv, TypeOK
<1>3. /\ ledger' \in [Resp -> Seq(Event)]
      /\ ledger'[r] = ledger[r] \o events
      /\ \A q \in Resp : q # r => ledger'[q] = ledger[q]
  BY <1>1 DEF IInv, TypeOK
<1>4. /\ tx' \in [Call -> Creation \cup Move \cup {Idle}]
      /\ \A d \in Call : tx'[d] \in Move => tx'[d] = tx[d]
  BY DEF IInv, TypeOK, Return, Idle, Move
<1>5. row'[r] # NoRow
  BY <1>2 DEF NoRow, Status, Open, Terminal
<1>6. \A q \in Resp : Exists(q) => row'[q] # NoRow
  BY <1>2, <1>5 DEF Exists
<1>7. \A d \in Call : tx'[d] \in Move => tx[d].r \in Resp /\ Exists(tx[d].r)
  BY <1>4 DEF IInv, TypeOK, Move
<1>8. TypeOK'
  BY <1>1, <1>2, <1>3, <1>4, <1>6, <1>7, RowReplyType DEF IInv, TypeOK, Exists, Return
<1>9. OneOpenPerSlot'
  BY <1>1, <1>2 DEF IInv, OneOpenPerSlot, IsOpen
<1>10. LedgersInv'
  <2>1. LedgerInv(ledger'[r], row'[r].status)
    BY <1>2, <1>3
  <2>2. ASSUME NEW q \in Resp, q # r
        PROVE  IF Exists(q)' THEN LedgerInv(ledger'[q], row'[q].status)
                             ELSE ledger'[q] = <<>>
    BY <1>2, <1>3, <2>2 DEF IInv, LedgersInv, Exists
  <2> QED
    BY <1>5, <2>1, <2>2 DEF LedgersInv, Exists
<1>11. SeenInv'
  <2> SUFFICES ASSUME NEW d \in Call, tx'[d] \in Move
               PROVE  Held(ledger'[tx[d].r], tx[d].seen, Len(ledger'[tx[d].r]))
    BY <1>4 DEF SeenInv
  <2>1. Held(ledger[tx[d].r], tx[d].seen, Len(ledger[tx[d].r]))
    BY <1>4 DEF IInv, SeenInv
  <2>2. CASE tx[d].r = r
    <3>1. /\ Len(ledger'[r]) >= Len(ledger[r])
          /\ \A i \in 1 .. Len(ledger[r]) :
                i \in 1 .. Len(ledger'[r]) /\ ledger'[r][i] = ledger[r][i]
      BY <1>1, <1>3, ConcatProperties, LenProperties
    <3> QED
      BY <2>1, <2>2, <3>1 DEF Held
  <2>3. CASE tx[d].r # r
    BY <1>3, <1>7, <2>1, <2>3
  <2> QED
    BY <2>2, <2>3
<1> QED
  BY <1>8, <1>9, <1>10, <1>11 DEF IInv

(* A guarded update keeps the invariant if its move does. *)
LEMMA GuardedUpdateInv ==
    ASSUME IInv, NEW c \in Call, tx[c] \in Move,
           NEW from \in SUBSET Open, NEW to \in Status, NEW events \in Seq(Event),
           row[tx[c].r].status \in from =>
              /\ ledger[tx[c].r] \o events \in Seq(Event)
              /\ LedgerInv(ledger[tx[c].r] \o events, to),
           GuardedUpdate(c, from, to, events)
    PROVE  IInv'
<1>1. tx[c].r \in Resp
  BY DEF Move
<1>2. [kind |-> "checkViolation", r |-> tx[c].r] \in Reply
  BY <1>1 DEF Reply
<1>3. CASE UNCHANGED <<row, ledger>>
  <2>1. \E result \in Reply : Return(c, result)
    BY <1>1, <1>2, <1>3, RowReplyType DEF GuardedUpdate
  <2> QED
    BY <1>3, <2>1, ReturnInv
<1>4. CASE /\ row[tx[c].r].status \in from
           /\ row' = [row EXCEPT ![tx[c].r].status = to]
           /\ ledger' = [ledger EXCEPT ![tx[c].r] = @ \o events]
           /\ Return(c, RowReply(tx[c].r))
  BY <1>4, MovedRowInv DEF IsOpen
<1> QED
  BY <1>3, <1>4 DEF GuardedUpdate

-----------------------------------------------------------------------------
(* The writes *)

(* What a transaction about to write knows of the row it read. *)
LEMMA MoveFacts ==
    ASSUME IInv, NEW c \in Call, tx[c] \in Move
    PROVE  /\ tx[c].r \in Resp /\ tx[c].seen \in Status
           /\ ledger[tx[c].r] \in Seq(Event)
           /\ Held(ledger[tx[c].r], tx[c].seen, Len(ledger[tx[c].r]))
           /\ IsOpen(tx[c].r) => LedgerInv(ledger[tx[c].r], row[tx[c].r].status)
<1>1. tx[c].r \in Resp /\ tx[c].seen \in Status /\ Exists(tx[c].r)
  BY DEF IInv, TypeOK, Move
<1> QED
  BY <1>1 DEF IInv, TypeOK, SeenInv, LedgersInv

(* Only a status change carries the name of one. *)
LEMMA MoveOps ==
    ASSUME IInv, NEW c \in Call,
           tx[c].op \in {"markWaitingOnUser", "markWaitingOnThirdParty",
                         "resumeFromWaitingOnUser", "completeWithEvidence",
                         "responsiblyExhaustWithEvidence"}
    PROVE  tx[c] \in Move
  BY DEF IInv, TypeOK, Creation, Move, Idle

(* The three writes that move an open row to another open status. *)
LEMMA OpenMoveInv ==
    ASSUME IInv, NEW c \in Call, tx[c] \in Move,
           NEW from \in SUBSET Open, NEW to \in Open,
           NEW type \in EventType \ Evidencing, NEW seen \in Status,
           Held(ledger[tx[c].r], seen, Len(ledger[tx[c].r])) \/ row[tx[c].r].status \notin from,
           type = "USER_INPUT_REQUIRED" => "WAITING_ON_USER" \notin from,
           type = "STATE_CHANGED" => from = {"WAITING_ON_USER"},
           GuardedUpdate(c, from, to, <<Evt(type, seen, to, NoRecord)>>)
    PROVE  IInv'
<1> DEFINE e == Evt(type, seen, to, NoRecord)
           l == ledger[tx[c].r]
<1>1. /\ e \in Event /\ e.to = to /\ e.from = seen /\ e.src = NoRecord /\ e.type = type
  BY DEF Evt, Event, Status
<1> HIDE DEF e
<1>2. <<e>> \in Seq(Event) /\ to \in Status
  BY <1>1 DEF Status
<1>3. ASSUME row[tx[c].r].status \in from
      PROVE  l \o <<e>> \in Seq(Event) /\ LedgerInv(l \o <<e>>, to)
  <2>1. l \in Seq(Event) /\ row[tx[c].r].status \in Open /\ LedgerInv(l, row[tx[c].r].status)
    BY <1>3, MoveFacts DEF IsOpen
  <2>2. Held(l, e.from, Len(l))
    BY <1>1, <1>3
  <2>3. /\ e.type = "USER_INPUT_REQUIRED" => row[tx[c].r].status # "WAITING_ON_USER"
        /\ e.type = "STATE_CHANGED" => row[tx[c].r].status = "WAITING_ON_USER"
        /\ e.type \notin Evidencing
    BY <1>1, <1>3
  <2> QED
    BY <1>1, <2>1, <2>2, <2>3, MovedLedger
<1>4. GuardedUpdate(c, from, to, <<e>>)
  BY DEF e
<1> QED
  BY <1>2, <1>3, <1>4, GuardedUpdateInv

(* Pausing for the user keeps the invariant. *)
LEMMA MarkWaitingOnUserWriteInv ==
    ASSUME IInv, NEW c \in Call, MarkWaitingOnUserWrite(c)
    PROVE  IInv'
<1>1. tx[c] \in Move
  BY MoveOps DEF MarkWaitingOnUserWrite
<1>2. /\ Open \ {"WAITING_ON_USER"} \in SUBSET Open /\ "WAITING_ON_USER" \in Open
      /\ "USER_INPUT_REQUIRED" \in EventType \ Evidencing
  BY DEF Open, EventType, Evidencing
<1> QED
  BY <1>1, <1>2, MoveFacts, OpenMoveInv DEF MarkWaitingOnUserWrite

(* Waiting on a third party keeps the invariant. *)
LEMMA MarkWaitingOnThirdPartyWriteInv ==
    ASSUME IInv, NEW c \in Call, MarkWaitingOnThirdPartyWrite(c)
    PROVE  IInv'
<1>1. tx[c] \in Move
  BY MoveOps DEF MarkWaitingOnThirdPartyWrite
<1>2. /\ Open \ {"WAITING_ON_THIRD_PARTY"} \in SUBSET Open
      /\ "WAITING_ON_THIRD_PARTY" \in Open
      /\ "EXTERNAL_WAIT_STARTED" \in EventType \ Evidencing
  BY DEF Open, EventType, Evidencing
<1> QED
  BY <1>1, <1>2, MoveFacts, OpenMoveInv DEF MarkWaitingOnThirdPartyWrite

(* Resuming keeps the invariant. *)
LEMMA ResumeFromWaitingOnUserWriteInv ==
    ASSUME IInv, NEW c \in Call, ResumeFromWaitingOnUserWrite(c)
    PROVE  IInv'
<1>1. tx[c] \in Move
  BY MoveOps DEF ResumeFromWaitingOnUserWrite
<1>2. /\ {"WAITING_ON_USER"} \in SUBSET Open /\ "ACTIVE" \in Open
      /\ "STATE_CHANGED" \in EventType \ Evidencing
      /\ "WAITING_ON_USER" \in Status
  BY DEF Open, EventType, Evidencing, Status
<1>3. ASSUME row[tx[c].r].status = "WAITING_ON_USER"
      PROVE  Held(ledger[tx[c].r], "WAITING_ON_USER", Len(ledger[tx[c].r]))
  <2>1. ledger[tx[c].r] \in Seq(Event) /\ LastStatusIs(ledger[tx[c].r], "WAITING_ON_USER")
    BY <1>1, <1>2, <1>3, MoveFacts DEF IsOpen, LedgerInv, Open
  <2> QED
    BY <2>1, LenProperties DEF LastStatusIs, Held
<1> QED
  BY <1>1, <1>2, <1>3, OpenMoveInv DEF ResumeFromWaitingOnUserWrite

(* A completion keeps the invariant. *)
LEMMA CompleteWithEvidenceWriteInv ==
    ASSUME IInv, NEW c \in Call, NEW src \in Record, CompleteWithEvidenceWrite(c, src)
    PROVE  IInv'
<1> DEFINE events == <<Evidenced(src), Evt("COMPLETED", tx[c].seen, "COMPLETED", src)>>
<1>1. tx[c] \in Move
  BY MoveOps DEF CompleteWithEvidenceWrite
<1>2. tx[c].seen \in Status
  BY <1>1, MoveFacts
<1>3. Evidenced(src) \in Event /\ Evt("COMPLETED", tx[c].seen, "COMPLETED", src) \in Event
  BY <1>2 DEF Evidenced, Evt, Event, EventType, Evidencing, Status, Terminal
<1>4. events \in Seq(Event)
  BY <1>3
<1>5. "COMPLETED" \in Status /\ Open \in SUBSET Open
  BY DEF Status, Terminal
<1>6. row[tx[c].r].status \in Open =>
         /\ ledger[tx[c].r] \o events \in Seq(Event)
         /\ LedgerInv(ledger[tx[c].r] \o events, "COMPLETED")
  BY <1>1, MoveFacts, CompletedLedger DEF IsOpen
<1>7. GuardedUpdate(c, Open, "COMPLETED", events)
  BY DEF CompleteWithEvidenceWrite
<1> HIDE DEF events
<1> QED
  BY <1>1, <1>4, <1>5, <1>6, <1>7, GuardedUpdateInv

(* An exhaustion keeps the invariant. *)
LEMMA ResponsiblyExhaustWithEvidenceWriteInv ==
    ASSUME IInv, NEW c \in Call, NEW src \in Record, NEW supporting \in Record,
           ResponsiblyExhaustWithEvidenceWrite(c, src, supporting)
    PROVE  IInv'
<1> DEFINE f == Evt("RESPONSIBLY_EXHAUSTED", tx[c].seen, "RESPONSIBLY_EXHAUSTED", src)
           events == <<Evidenced(supporting), Evidenced(src), f>>
<1>1. tx[c] \in Move
  BY MoveOps DEF ResponsiblyExhaustWithEvidenceWrite
<1>2. tx[c].seen \in Status
  BY <1>1, MoveFacts
<1>3. Evidenced(supporting) \in Event /\ Evidenced(src) \in Event /\ f \in Event
  BY <1>2 DEF Evidenced, Evt, Event, EventType, Evidencing, Status, Terminal
<1>4. events \in Seq(Event)
  BY <1>3
<1>5. "RESPONSIBLY_EXHAUSTED" \in Status /\ Open \in SUBSET Open
  BY DEF Status, Terminal
<1>6. row[tx[c].r].status \in Open =>
         /\ ledger[tx[c].r] \o events \in Seq(Event)
         /\ LedgerInv(ledger[tx[c].r] \o events, "RESPONSIBLY_EXHAUSTED")
  BY <1>1, MoveFacts, ExhaustedLedger DEF IsOpen
<1>7. GuardedUpdate(c, Open, "RESPONSIBLY_EXHAUSTED", events)
  BY DEF ResponsiblyExhaustWithEvidenceWrite
<1> HIDE DEF events
<1> QED
  BY <1>1, <1>4, <1>5, <1>6, <1>7, GuardedUpdateInv

(* A transaction that is lost keeps the invariant. *)
LEMMA AbandonInv ==
    ASSUME IInv, NEW c \in Call, Abandon(c)
    PROVE  IInv'
  BY ReturnInv DEF Abandon

(* The reads of all status changes keep the invariant. *)
LEMMA ReadInv ==
    ASSUME IInv, NEW c \in Call, NEW r \in Resp,
           \/ MarkWaitingOnUserRead(c, r)
           \/ MarkWaitingOnThirdPartyRead(c, r)
           \/ ResumeFromWaitingOnUserRead(c, r)
           \/ CompleteWithEvidenceRead(c, r)
           \/ ResponsiblyExhaustWithEvidenceRead(c, r)
    PROVE  IInv'
<1>1. /\ Terminal \cup {"WAITING_ON_USER"} \in SUBSET Status
      /\ Terminal \cup {"WAITING_ON_THIRD_PARTY"} \in SUBSET Status
      /\ Status \ {"WAITING_ON_USER"} \in SUBSET Status
      /\ {"COMPLETED"} \in SUBSET Status
      /\ Terminal \in SUBSET Status
  BY DEF Status, Open, Terminal
<1> QED
  BY <1>1, ReadCurrentInv
  DEF MarkWaitingOnUserRead, MarkWaitingOnThirdPartyRead, ResumeFromWaitingOnUserRead,
      CompleteWithEvidenceRead, ResponsiblyExhaustWithEvidenceRead

(* Every step keeps the invariant. *)
LEMMA NextInv == IInv /\ [Next]_vars => IInv'
<1> SUFFICES ASSUME IInv, [Next]_vars PROVE IInv'
  OBVIOUS
<1>1. CASE UNCHANGED vars
  BY <1>1 DEF IInv, TypeOK, OneOpenPerSlot, LedgersInv, SeenInv, IsOpen, Exists, vars
<1>2. CASE Next
  BY <1>2, CreateAcceptedFindInv, CreateAcceptedInsertInv, CreateAcceptedRefindInv,
     ReadInv, MarkWaitingOnUserWriteInv, MarkWaitingOnThirdPartyWriteInv,
     ResumeFromWaitingOnUserWriteInv, CompleteWithEvidenceWriteInv,
     ResponsiblyExhaustWithEvidenceWriteInv, AbandonInv DEF Next
<1> QED
  BY <1>1, <1>2

\* The invariant holds in every state the repository reaches, whatever calls
\* overlap, fail or are retried.
THEOREM Invariance == Spec => []IInv
  BY InitInv, NextInv, PTL DEF Spec

-----------------------------------------------------------------------------
(* The properties *)

(* An empty ledger closes nothing, alternates and names no status. *)
LEMMA EmptyLedger == ClosesOnce(<<>>) /\ Alternates(<<>>) /\ FromHeld(<<>>)
  BY DEF ClosesOnce, Alternates, FromHeld

\* What holds of the tables in every state.
TablesHold ==
    /\ OneOpenPerSlot /\ LedgerTellsStatus /\ ClosedOnceWithEvidence
    /\ PausesAlternate /\ FromStatusWasHeld

LEMMA InvHolds == IInv => TablesHold
<1>1. IInv => OneOpenPerSlot
  BY DEF IInv
<1>2. IInv => LedgerTellsStatus
  BY DEF IInv, LedgersInv, LedgerInv, LedgerTellsStatus
<1>3. IInv => ClosedOnceWithEvidence
  BY EmptyLedger DEF IInv, LedgersInv, LedgerInv, ClosedOnceWithEvidence
<1>4. IInv => PausesAlternate
  BY EmptyLedger DEF IInv, LedgersInv, LedgerInv, PausesAlternate
<1>5. IInv => FromStatusWasHeld
  BY EmptyLedger DEF IInv, LedgersInv, LedgerInv, FromStatusWasHeld
<1> QED
  BY <1>1, <1>2, <1>3, <1>4, <1>5 DEF TablesHold

\* The tables keep their shape for any number of calls and rows.
THEOREM TypeCorrect == Spec => []TypeOK
<1>1. IInv => TypeOK
  BY DEF IInv
<1> QED
  BY <1>1, Invariance, PTL

\* However many acceptances race, one open row exists per slot.
THEOREM OneOpen == Spec => []OneOpenPerSlot
<1>1. IInv => OneOpenPerSlot
  BY InvHolds DEF TablesHold
<1> QED
  BY <1>1, Invariance, PTL

\* The status column always equals the last status the ledger records.
THEOREM LedgerAgrees == Spec => []LedgerTellsStatus
<1>1. IInv => LedgerTellsStatus
  BY InvHolds DEF TablesHold
<1> QED
  BY <1>1, Invariance, PTL

\* A row is closed by one final event that cites what was evidenced before it.
THEOREM ClosedOnce == Spec => []ClosedOnceWithEvidence
<1>1. IInv => ClosedOnceWithEvidence
  BY InvHolds DEF TablesHold
<1> QED
  BY <1>1, Invariance, PTL

\* Pauses and resumes alternate in every ledger.
THEOREM Alternation == Spec => []PausesAlternate
<1>1. IInv => PausesAlternate
  BY InvHolds DEF TablesHold
<1> QED
  BY <1>1, Invariance, PTL

\* The fromStatus of every event was held earlier in the same ledger.
THEOREM FromStatusHeld == Spec => []FromStatusWasHeld
<1>1. IInv => FromStatusWasHeld
  BY InvHolds DEF TablesHold
<1> QED
  BY <1>1, Invariance, PTL

-----------------------------------------------------------------------------
(* Every step, seen from outside *)

(* A step leaves the tables alone, accepts a row in a free slot, moves an   *)
(* open row between open statuses citing nothing, or closes it with events. *)
Untouched == UNCHANGED <<row, ledger>>

AcceptsRow(s, r) ==
    /\ OpenIn(s) = {} /\ row[r] = NoRow
    /\ \E p \in Provenance : row' = [row EXCEPT ![r] =
           [slot |-> s, prov |-> p, status |-> "ACTIVE"]]
    /\ ledger' = [ledger EXCEPT ![r] =
           <<Evt("ACCEPTED", NoStatus, "ACTIVE", NoRecord),
             Evt("COMMITMENT_RECORDED", NoStatus, NoStatus, NoRecord)>>]

MovesRow(r, to, events) ==
    /\ IsOpen(r)
    /\ row' = [row EXCEPT ![r].status = to]
    /\ ledger' = [ledger EXCEPT ![r] = @ \o events]

Waits(r) ==
    \E to \in Open, e \in Event :
        e.src = NoRecord /\ MovesRow(r, to, <<e>>)

Closes(r) ==
    \/ \E src \in Record, seen \in Status :
          MovesRow(r, "COMPLETED",
              <<Evidenced(src), Evt("COMPLETED", seen, "COMPLETED", src)>>)
    \/ \E src, supporting \in Record, seen \in Status :
          MovesRow(r, "RESPONSIBLY_EXHAUSTED",
              <<Evidenced(supporting), Evidenced(src),
                Evt("RESPONSIBLY_EXHAUSTED", seen, "RESPONSIBLY_EXHAUSTED", src)>>)

(* What a guarded update does to the two tables. *)
LEMMA GuardedUpdateStep ==
    ASSUME NEW c \in Call, NEW from \in SUBSET Open, NEW to, NEW events,
           GuardedUpdate(c, from, to, events)
    PROVE  Untouched \/ MovesRow(tx[c].r, to, events)
  BY DEF GuardedUpdate, Untouched, MovesRow, IsOpen

(* A step leaves the tables alone, accepts a row, or moves an open one. *)
LEMMA StepShape ==
    ASSUME IInv, [Next]_vars
    PROVE  \/ Untouched
           \/ \E s \in Slot, r \in Resp : AcceptsRow(s, r)
           \/ \E r \in Resp : Waits(r) \/ Closes(r)
<1> DEFINE Goal == \/ Untouched
                   \/ \E s \in Slot, r \in Resp : AcceptsRow(s, r)
                   \/ \E r \in Resp : Waits(r) \/ Closes(r)
<1>1. ASSUME NEW c \in Call, CreateAcceptedInsert(c) PROVE Goal
  <2>1. tx[c] \in Creation
    BY <1>1 DEF CreateAcceptedInsert, IInv, TypeOK, Creation, Move, Idle
  <2> QED
    BY <1>1, <2>1 DEF CreateAcceptedInsert, Creation, Untouched, AcceptsRow
<1>2. ASSUME NEW c \in Call, tx[c] \in Move, NEW from \in SUBSET Open, NEW to \in Open,
             NEW type \in EventType, NEW seen \in Status,
             GuardedUpdate(c, from, to, <<Evt(type, seen, to, NoRecord)>>)
      PROVE  Goal
  <2>1. Evt(type, seen, to, NoRecord) \in Event /\ Evt(type, seen, to, NoRecord).src = NoRecord
    BY DEF Evt, Event, Status
  <2>2. Untouched \/ MovesRow(tx[c].r, to, <<Evt(type, seen, to, NoRecord)>>)
    BY <1>2, GuardedUpdateStep
  <2> QED
    BY <1>2, <2>1, <2>2, MoveFacts DEF Waits
<1>3. ASSUME NEW c \in Call, MarkWaitingOnUserWrite(c) PROVE Goal
  BY <1>2, <1>3, MoveOps, MoveFacts
  DEF MarkWaitingOnUserWrite, Open, EventType
<1>4. ASSUME NEW c \in Call, MarkWaitingOnThirdPartyWrite(c) PROVE Goal
  BY <1>2, <1>4, MoveOps, MoveFacts
  DEF MarkWaitingOnThirdPartyWrite, Open, EventType
<1>5. ASSUME NEW c \in Call, ResumeFromWaitingOnUserWrite(c) PROVE Goal
  BY <1>2, <1>5, MoveOps, MoveFacts
  DEF ResumeFromWaitingOnUserWrite, Open, EventType, Status
<1>6. ASSUME NEW c \in Call, NEW src \in Record, CompleteWithEvidenceWrite(c, src) PROVE Goal
  <2>1. tx[c].r \in Resp /\ tx[c].seen \in Status
    BY <1>6, MoveOps, MoveFacts DEF CompleteWithEvidenceWrite
  <2> QED
    BY <1>6, <2>1, GuardedUpdateStep DEF CompleteWithEvidenceWrite, Closes
<1>7. ASSUME NEW c \in Call, NEW src \in Record, NEW supporting \in Record,
             ResponsiblyExhaustWithEvidenceWrite(c, src, supporting)
      PROVE  Goal
  <2>1. tx[c].r \in Resp /\ tx[c].seen \in Status
    BY <1>7, MoveOps, MoveFacts DEF ResponsiblyExhaustWithEvidenceWrite
  <2> QED
    BY <1>7, <2>1, GuardedUpdateStep DEF ResponsiblyExhaustWithEvidenceWrite, Closes
<1>8. ASSUME UNCHANGED vars PROVE Goal
  BY <1>8 DEF vars, Untouched
<1> QED
  BY <1>1, <1>3, <1>4, <1>5, <1>6, <1>7, <1>8
  DEF Next, CreateAcceptedFind, CreateAcceptedRefind, MarkWaitingOnUserRead,
      MarkWaitingOnThirdPartyRead, ResumeFromWaitingOnUserRead, CompleteWithEvidenceRead,
      ResponsiblyExhaustWithEvidenceRead, ReadCurrent, Abandon, Untouched

\* No step writes a closed row or its ledger.
LEMMA TerminalStep ==
    IInv /\ [Next]_vars =>
        [\A r \in Resp : row[r].status \in Terminal =>
            row'[r] = row[r] /\ ledger'[r] = ledger[r]]_vars
<1>1. ASSUME IInv, [Next]_vars, NEW r \in Resp, row[r].status \in Terminal
      PROVE  row'[r] = row[r] /\ ledger'[r] = ledger[r]
  <2>1. row[r] # NoRow /\ ~IsOpen(r)
    BY <1>1 DEF IsOpen, NoRow, Open, Terminal
  <2>2. \A q \in Resp : \A to, events : MovesRow(q, to, events) =>
           q # r /\ row'[r] = row[r] /\ ledger'[r] = ledger[r]
    BY <1>1, <2>1 DEF MovesRow, IInv, TypeOK
  <2>3. \A q \in Resp, s \in Slot : AcceptsRow(s, q) => row'[r] = row[r] /\ ledger'[r] = ledger[r]
    BY <1>1, <2>1 DEF AcceptsRow, IInv, TypeOK
  <2> QED
    BY <1>1, <2>2, <2>3, StepShape DEF Untouched, Waits, Closes
<1> QED
  BY <1>1

\* No late, repeated or stale call changes a closed row or its ledger.
THEOREM TerminalFinal == Spec => TerminalIsFinal
  BY TerminalStep, Invariance, PTL DEF Spec, TerminalIsFinal

-----------------------------------------------------------------------------
(* What a caller may rely on *)

\* A row that was accepted stays in the table, what it was accepted for never
\* changes, and once closed it is not opened again.
LEMMA RowsStay ==
    ASSUME IInv, [Next]_vars, NEW r \in Resp, Exists(r)
    PROVE  /\ row'[r] # NoRow
           /\ row'[r].slot = row[r].slot /\ row'[r].prov = row[r].prov
           /\ row'[r].status \in Open => row[r].status \in Open
<1>1. row[r] \in Row
  BY DEF Exists, IInv, TypeOK
<1>2. ASSUME NEW q \in Resp, NEW to \in Status, NEW events, MovesRow(q, to, events)
      PROVE  row'[r] = row[r] \/ (row'[r] = [row[r] EXCEPT !.status = to] /\ IsOpen(r))
  BY <1>2 DEF MovesRow, IInv, TypeOK
<1>3. \A to : [row[r] EXCEPT !.status = to] # NoRow
  BY <1>1 DEF Row, NoRow
<1>4. ASSUME NEW q \in Resp, NEW s \in Slot, AcceptsRow(s, q) PROVE row'[r] = row[r]
  BY <1>4 DEF AcceptsRow, Exists, IInv, TypeOK
<1>5. ASSUME NEW q \in Resp, Waits(q) \/ Closes(q)
      PROVE  row'[r] = row[r] \/
             (IsOpen(r) /\ \E to \in Status : row'[r] = [row[r] EXCEPT !.status = to])
  BY <1>2, <1>5 DEF Waits, Closes, Status, Terminal
<1> QED
  BY <1>1, <1>3, <1>4, <1>5, StepShape DEF Untouched, Exists, IsOpen, Row

\* A guarded update adds no row.
LEMMA UpdateAddsNoRow ==
    ASSUME IInv, NEW c \in Call, tx[c] \in Move, NEW from, NEW to, NEW events,
           GuardedUpdate(c, from, to, events), NEW r \in Resp, row[r] = NoRow
    PROVE  row'[r] = NoRow
<1>1. tx[c].r # r
  BY DEF IInv, TypeOK, Exists
<1> QED
  BY <1>1 DEF GuardedUpdate, IInv, TypeOK

\* A method that answers with a row answers with one that is in the table.
RepliesInv == \A c \in Call : reply[c].kind = "row" => Exists(reply[c].r)

LEMMA RepliesInit == Init => RepliesInv
  BY DEF Init, RepliesInv, NoReply

LEMMA RepliesStep ==
    ASSUME IInv, RepliesInv, [Next]_vars, NEW c \in Call, NEW result,
           reply' = [reply EXCEPT ![c] = result],
           result.kind = "row" => row'[result.r] # NoRow
    PROVE  RepliesInv'
<1> SUFFICES ASSUME NEW d \in Call, reply'[d].kind = "row"
             PROVE  row'[reply'[d].r] # NoRow
  BY DEF RepliesInv, Exists
<1>1. CASE d = c
  BY <1>1 DEF IInv, TypeOK
<1>2. CASE d # c
  <2>1. reply'[d] = reply[d]
    BY <1>2 DEF IInv, TypeOK
  <2>2. reply[d].r \in Resp /\ Exists(reply[d].r)
    BY <2>1 DEF RepliesInv, IInv, TypeOK, Reply, NoReply
  <2>3. PICK r \in Resp : r = reply[d].r
    BY <2>2
  <2> QED
    BY <2>1, <2>2, <2>3, RowsStay
<1> QED
  BY <1>1, <1>2

LEMMA RepliesNext == IInv /\ RepliesInv /\ [Next]_vars => RepliesInv'
<1> SUFFICES ASSUME IInv, RepliesInv, [Next]_vars PROVE RepliesInv'
  OBVIOUS
<1>1. ASSUME NEW c \in Call, NEW r \in Resp, row'[r] # NoRow, Return(c, RowReply(r))
      PROVE  RepliesInv'
  BY <1>1, RepliesStep DEF Return, RowReply
<1>2. ASSUME NEW c \in Call, NEW result, result.kind # "row", Return(c, result)
      PROVE  RepliesInv'
  BY <1>2, RepliesStep DEF Return
<1>3. ASSUME NEW c \in Call, NEW state, Proceed(c, state) PROVE RepliesInv'
  BY <1>3, RepliesStep DEF Proceed, NoReply
<1>4. ASSUME NEW c \in Call, NEW s, \E r \in OpenIn(s) : Return(c, RowReply(r)),
             UNCHANGED row
      PROVE  RepliesInv'
  BY <1>1, <1>4 DEF OpenIn, IsOpen, NoRow, Open
<1>5. ASSUME NEW c \in Call, CreateAcceptedInsert(c) PROVE RepliesInv'
  <2>1. ASSUME NEW r \in Resp,
               row' = [row EXCEPT ![r] =
                   [slot |-> tx[c].slot, prov |-> tx[c].prov, status |-> "ACTIVE"]],
               Return(c, RowReply(r))
        PROVE  RepliesInv'
    <3>1. row'[r] # NoRow
      BY <2>1 DEF NoRow, IInv, TypeOK
    <3> QED
      BY <1>1, <2>1, <3>1
  <2> QED
    BY <1>3, <1>5, <2>1 DEF CreateAcceptedInsert
<1>6. ASSUME NEW c \in Call, NEW r \in Resp, NEW op, NEW settled,
             ReadCurrent(c, r, op, settled)
      PROVE  RepliesInv'
  BY <1>1, <1>3, <1>6 DEF ReadCurrent, Exists
<1>7. ASSUME NEW c \in Call, tx[c] \in Move, NEW from, NEW to, NEW events,
             GuardedUpdate(c, from, to, events)
      PROVE  RepliesInv'
  <2>1. PICK r \in Resp : r = tx[c].r
    BY <1>7 DEF Move
  <2>2. row'[r] # NoRow
    BY <1>7, <2>1, RowsStay DEF IInv, TypeOK
  <2> QED
    BY <1>1, <1>2, <1>7, <2>1, <2>2 DEF GuardedUpdate
<1>8. CASE UNCHANGED vars
  BY <1>8 DEF vars, RepliesInv, Exists
<1> QED
  BY <1>2, <1>3, <1>4, <1>5, <1>6, <1>7, <1>8, MoveOps
  DEF Next, CreateAcceptedFind, CreateAcceptedRefind, MarkWaitingOnUserRead,
      MarkWaitingOnThirdPartyRead, ResumeFromWaitingOnUserRead, CompleteWithEvidenceRead,
      ResponsiblyExhaustWithEvidenceRead, MarkWaitingOnUserWrite,
      MarkWaitingOnThirdPartyWrite, ResumeFromWaitingOnUserWrite,
      CompleteWithEvidenceWrite, ResponsiblyExhaustWithEvidenceWrite, Abandon, NoReply

-----------------------------------------------------------------------------
(* The repository implements CarriedPromise *)

CarriedMap == [s \in Slot |-> CarriedIn(s)]
CitedMap == [r \in Resp |-> CitedFor(r)]

(* Empty tables are an empty promise. *)
LEMMA InitPromise == Init => Promise!Init
<1> SUFFICES ASSUME Init PROVE Promise!Init
  OBVIOUS
<1>1. \A r \in Resp : row[r].status \notin Status /\ ledger[r] = <<>>
  BY DEF Init, NoRow, Status, Open, Terminal
<1>2. \A s \in Slot : CarriedIn(s) = {}
  BY <1>1 DEF CarriedIn, OpenIn, IsOpen, Status
<1>3. InStatus("COMPLETED") = {} /\ InStatus("RESPONSIBLY_EXHAUSTED") = {}
  BY <1>1 DEF InStatus, Status, Terminal
<1>4. \A r \in Resp : CitedFor(r) = {}
  BY <1>1 DEF CitedFor
<1> QED
  BY <1>2, <1>3, <1>4 DEF Promise!Init

(* The sets the refinement mapping is made of, when row r becomes open,     *)
(* stays open or is closed and every other row stays as it is.             *)
LEMMA OthersKeep ==
    ASSUME NEW r \in Resp,
           \A q \in Resp : q # r => row'[q] = row[q] /\ ledger'[q] = ledger[q]
    PROVE  \A q \in Resp : q # r =>
              /\ CitedFor(q)' = CitedFor(q)
              /\ \A s \in Slot : q \in CarriedIn(s)' <=> q \in CarriedIn(s)
              /\ \A st \in Status : q \in InStatus(st)' <=> q \in InStatus(st)
  BY DEF CitedFor, CarriedIn, OpenIn, IsOpen, InStatus

(* Accepting a row is accepting the promise of its slot. *)
LEMMA AcceptPromise ==
    ASSUME IInv, NEW s \in Slot, NEW r \in Resp, AcceptsRow(s, r)
    PROVE  Promise!Accept(s, r)
<1>1. /\ row'[r].status = "ACTIVE" /\ row'[r].slot = s
      /\ \A q \in Resp : q # r => row'[q] = row[q] /\ ledger'[q] = ledger[q]
      /\ ledger'[r] = <<Evt("ACCEPTED", NoStatus, "ACTIVE", NoRecord),
                        Evt("COMMITMENT_RECORDED", NoStatus, NoStatus, NoRecord)>>
  BY DEF AcceptsRow, IInv, TypeOK
<1>2. row[r].status \notin Status /\ ledger[r] = <<>>
  BY DEF AcceptsRow, NoRow, Status, Open, Terminal, IInv, LedgersInv, Exists
<1>3. CitedFor(r) = {} /\ CitedFor(r)' = {}
  BY <1>1, <1>2 DEF CitedFor, Evt
<1>4. /\ \A t \in Slot : r \notin CarriedIn(t)
      /\ \A st \in Status : r \notin InStatus(st)
  BY <1>2 DEF CarriedIn, OpenIn, IsOpen, InStatus, Status
<1>5. CarriedIn(s) = {}
  BY DEF AcceptsRow, CarriedIn
<1>6. CarriedMap' = [CarriedMap EXCEPT ![s] = {r}]
  <2>1. ASSUME NEW t \in Slot, t # s PROVE CarriedIn(t)' = CarriedIn(t)
    BY <1>1, <1>4, <2>1, OthersKeep DEF CarriedIn, OpenIn
  <2>2. CarriedIn(s)' = {r}
    BY <1>1, <1>5, OthersKeep DEF CarriedIn, OpenIn, IsOpen, Open
  <2> QED
    BY <2>1, <2>2 DEF CarriedMap
<1>7. /\ InStatus("COMPLETED")' = InStatus("COMPLETED")
      /\ InStatus("RESPONSIBLY_EXHAUSTED")' = InStatus("RESPONSIBLY_EXHAUSTED")
  BY <1>1, <1>4, OthersKeep DEF InStatus, Status, Terminal
<1>8. CitedMap' = CitedMap
  BY <1>1, <1>3, OthersKeep DEF CitedMap
<1>9. r \notin Promise!Made
  BY <1>4 DEF Promise!Made, Status, Terminal
<1> QED
  BY <1>5, <1>6, <1>7, <1>8, <1>9 DEF Promise!Accept, CarriedMap, CitedMap

(* What a move of row r does to the tables. *)
LEMMA MovesRowFacts ==
    ASSUME IInv, NEW r \in Resp, NEW to \in Status, NEW events, MovesRow(r, to, events)
    PROVE  /\ row'[r].status = to /\ row'[r].slot = row[r].slot
           /\ row[r].slot \in Slot /\ row[r].status \in Open
           /\ ledger'[r] = ledger[r] \o events
           /\ ledger[r] \in Seq(Event) /\ Unevidenced(ledger[r])
           /\ CarriedIn(row[r].slot) = {r}
           /\ \A q \in Resp : q # r => row'[q] = row[q] /\ ledger'[q] = ledger[q]
<1>1. row[r] \in Row /\ row[r].status \in Open
  BY DEF MovesRow, IsOpen, IInv, TypeOK, NoRow, Open
<1>2. LedgerInv(ledger[r], row[r].status)
  BY <1>1, OpenExists DEF IInv, LedgersInv, Status
<1>3. CarriedIn(row[r].slot) = {r}
  BY <1>1 DEF CarriedIn, OpenIn, IInv, OneOpenPerSlot, IsOpen
<1>4. row'[r] = [row[r] EXCEPT !.status = to]
  BY DEF MovesRow, IInv, TypeOK
<1> QED
  BY <1>1, <1>2, <1>3, <1>4 DEF MovesRow, IInv, TypeOK, Row, LedgerInv

(* A move between open statuses leaves the promise carried. *)
LEMMA WaitPromise ==
    ASSUME IInv, NEW r \in Resp, Waits(r)
    PROVE  UNCHANGED Promise!vars
<1>1. PICK to \in Open, e \in Event : e.src = NoRecord /\ MovesRow(r, to, <<e>>)
  BY DEF Waits
<1>2. /\ row'[r].status = to /\ row'[r].slot = row[r].slot /\ row[r].status \in Open
      /\ ledger'[r] = ledger[r] \o <<e>>
      /\ ledger[r] \in Seq(Event) /\ Unevidenced(ledger[r])
      /\ \A q \in Resp : q # r => row'[q] = row[q] /\ ledger'[q] = ledger[q]
  <2> DEFINE events == <<e>>
  <2>1. MovesRow(r, to, events)
    BY <1>1
  <2> HIDE DEF events
  <2>2. to \in Status
    BY DEF Status
  <2>3. /\ row'[r].status = to /\ row'[r].slot = row[r].slot /\ row[r].status \in Open
        /\ ledger'[r] = ledger[r] \o events
        /\ ledger[r] \in Seq(Event) /\ Unevidenced(ledger[r])
        /\ \A q \in Resp : q # r => row'[q] = row[q] /\ ledger'[q] = ledger[q]
    BY <2>1, <2>2, MovesRowFacts
  <2> QED
    BY <2>3 DEF events
<1>3. CitedFor(r)' = CitedFor(r)
  BY <1>1, <1>2, AppendOne DEF CitedFor, Unevidenced
<1>4. \A s \in Slot : CarriedIn(s)' = CarriedIn(s)
  BY <1>2, OthersKeep DEF CarriedIn, OpenIn, IsOpen
<1>5. /\ InStatus("COMPLETED")' = InStatus("COMPLETED")
      /\ InStatus("RESPONSIBLY_EXHAUSTED")' = InStatus("RESPONSIBLY_EXHAUSTED")
  BY <1>2, OthersKeep DEF InStatus, Open, Status, Terminal
<1> QED
  BY <1>2, <1>3, <1>4, <1>5, OthersKeep DEF Promise!vars

(* Closing a row lays the promise down in its slot. *)
LEMMA CloseLaysDown ==
    ASSUME IInv, NEW r \in Resp, NEW to \in Terminal, NEW events,
           MovesRow(r, to, events)
    PROVE  /\ row[r].slot \in Slot
           /\ CarriedIn(row[r].slot) = {r}
           /\ CarriedMap' = [CarriedMap EXCEPT ![row[r].slot] = {}]
           /\ \A st \in Status : InStatus(st)' =
                 IF st = to THEN InStatus(st) \cup {r} ELSE InStatus(st) \ {r}
           /\ \A st \in Terminal : r \notin InStatus(st)
           /\ CitedMap' = [CitedMap EXCEPT ![r] = CitedFor(r)']
<1>1. /\ row'[r].status = to /\ row'[r].slot = row[r].slot
      /\ row[r].slot \in Slot /\ row[r].status \in Open
      /\ CarriedIn(row[r].slot) = {r}
      /\ \A q \in Resp : q # r => row'[q] = row[q] /\ ledger'[q] = ledger[q]
  BY MovesRowFacts DEF Status
<1>2. \A s \in Slot : CarriedIn(s)' = IF s = row[r].slot THEN {} ELSE CarriedIn(s)
  BY <1>1, OthersKeep DEF CarriedIn, OpenIn, IsOpen, Open, Terminal
<1>3. \A st \in Status : InStatus(st)' =
         IF st = to THEN InStatus(st) \cup {r} ELSE InStatus(st) \ {r}
  BY <1>1, OthersKeep DEF InStatus
<1>4. \A st \in Terminal : r \notin InStatus(st)
  BY <1>1 DEF InStatus, Open, Terminal
<1> QED
  BY <1>1, <1>2, <1>3, <1>4, OthersKeep DEF CarriedMap, CitedMap

(* Completing a row is keeping its promise. *)
LEMMA KeepPromise ==
    ASSUME IInv, NEW r \in Resp, NEW src \in Record, NEW seen \in Status,
           MovesRow(r, "COMPLETED",
              <<Evidenced(src), Evt("COMPLETED", seen, "COMPLETED", src)>>)
    PROVE  Promise!Keep(row[r].slot, r, {src})
<1> DEFINE e == Evidenced(src)
           f == Evt("COMPLETED", seen, "COMPLETED", src)
           events == <<e, f>>
<1>1. /\ "COMPLETED" \in Terminal /\ "COMPLETED" \in Status
      /\ "RESPONSIBLY_EXHAUSTED" \in Terminal /\ "RESPONSIBLY_EXHAUSTED" \in Status
  BY DEF Terminal, Status
<1>2. e \in Event /\ f \in Event /\ e.src = src /\ f.src = src
  BY <1>1 DEF Evidenced, Evt, Event, EventType, Evidencing, Status
<1> HIDE DEF e, f
<1>3. MovesRow(r, "COMPLETED", events)
  BY DEF e, f
<1>4. CitedFor(r)' = {src}
  <2> DEFINE l == ledger[r]
  <2>1. ledger'[r] = l \o events /\ l \in Seq(Event) /\ Unevidenced(l)
    <3> HIDE DEF events
    <3> QED
      BY <1>1, <1>3, MovesRowFacts
  <2> HIDE DEF l
  <2>2. /\ Len(l) \in Nat /\ DOMAIN l = 1 .. Len(l)
        /\ DOMAIN ledger'[r] = 1 .. (Len(l) + 2)
        /\ \A i \in 1 .. Len(l) : ledger'[r][i] = l[i]
        /\ ledger'[r][Len(l) + 1] = e
        /\ ledger'[r][Len(l) + 2] = f
    BY <1>2, <2>1, AppendTwo
  <2>3. \A i \in 1 .. Len(l) : ledger'[r][i].src = NoRecord
    BY <2>1, <2>2 DEF Unevidenced
  <2>4. /\ \A i \in DOMAIN ledger'[r] : ledger'[r][i].src \in {src, NoRecord}
        /\ \A x \in {src} : \E i \in DOMAIN ledger'[r] : ledger'[r][i].src = x
    BY <1>2, <2>2, <2>3
  <2>5. CitedFor(r)' = {ledger'[r][i].src : i \in DOMAIN ledger'[r]} \ {NoRecord}
    BY DEF CitedFor
  <2> QED
    BY <2>4, <2>5, NoRecordAssumption
<1> HIDE DEF events
<1>5. /\ row[r].slot \in Slot
      /\ CarriedIn(row[r].slot) = {r}
      /\ CarriedMap' = [CarriedMap EXCEPT ![row[r].slot] = {}]
      /\ \A st \in Status : InStatus(st)' =
            IF st = "COMPLETED" THEN InStatus(st) \cup {r} ELSE InStatus(st) \ {r}
      /\ \A st \in Terminal : r \notin InStatus(st)
      /\ CitedMap' = [CitedMap EXCEPT ![r] = CitedFor(r)']
  BY <1>1, <1>3, CloseLaysDown
<1>6. /\ InStatus("COMPLETED")' = InStatus("COMPLETED") \cup {r}
      /\ InStatus("RESPONSIBLY_EXHAUSTED")' = InStatus("RESPONSIBLY_EXHAUSTED")
  BY <1>1, <1>5
<1> QED
  BY <1>4, <1>5, <1>6 DEF Promise!Keep, Promise!LayDown, CarriedMap, CitedMap

(* Exhausting a row is ending its promise with evidence. *)
LEMMA EndPromise ==
    ASSUME IInv, NEW r \in Resp, NEW src \in Record, NEW supporting \in Record,
           NEW seen \in Status,
           MovesRow(r, "RESPONSIBLY_EXHAUSTED",
              <<Evidenced(supporting), Evidenced(src),
                Evt("RESPONSIBLY_EXHAUSTED", seen, "RESPONSIBLY_EXHAUSTED", src)>>)
    PROVE  Promise!End(row[r].slot, r, {src, supporting})
<1> DEFINE d == Evidenced(supporting)
           e == Evidenced(src)
           f == Evt("RESPONSIBLY_EXHAUSTED", seen, "RESPONSIBLY_EXHAUSTED", src)
           events == <<d, e, f>>
<1>1. /\ "RESPONSIBLY_EXHAUSTED" \in Terminal /\ "RESPONSIBLY_EXHAUSTED" \in Status
      /\ "COMPLETED" \in Terminal /\ "COMPLETED" \in Status
  BY DEF Terminal, Status
<1>2. /\ d \in Event /\ e \in Event /\ f \in Event
      /\ d.src = supporting /\ e.src = src /\ f.src = src
  BY <1>1 DEF Evidenced, Evt, Event, EventType, Evidencing, Status
<1> HIDE DEF d, e, f
<1>3. MovesRow(r, "RESPONSIBLY_EXHAUSTED", events)
  BY DEF d, e, f
<1>4. CitedFor(r)' = {src, supporting}
  <2> DEFINE l == ledger[r]
  <2>1. ledger'[r] = l \o events /\ l \in Seq(Event) /\ Unevidenced(l)
    <3> HIDE DEF events
    <3> QED
      BY <1>1, <1>3, MovesRowFacts
  <2> HIDE DEF l
  <2>2. /\ Len(l) \in Nat /\ DOMAIN l = 1 .. Len(l)
        /\ DOMAIN ledger'[r] = 1 .. (Len(l) + 3)
        /\ \A i \in 1 .. Len(l) : ledger'[r][i] = l[i]
        /\ ledger'[r][Len(l) + 1] = d
        /\ ledger'[r][Len(l) + 2] = e
        /\ ledger'[r][Len(l) + 3] = f
    BY <1>2, <2>1, AppendThree
  <2>3. \A i \in 1 .. Len(l) : ledger'[r][i].src = NoRecord
    BY <2>1, <2>2 DEF Unevidenced
  <2>4. /\ \A i \in DOMAIN ledger'[r] : ledger'[r][i].src \in {src, supporting, NoRecord}
        /\ \A x \in {src, supporting} : \E i \in DOMAIN ledger'[r] : ledger'[r][i].src = x
    <3>1. DOMAIN ledger'[r] = 1 .. Len(l) \cup {Len(l) + 1, Len(l) + 2, Len(l) + 3}
      BY <2>2
    <3>2. /\ ledger'[r][Len(l) + 1].src = supporting
          /\ ledger'[r][Len(l) + 2].src = src
          /\ ledger'[r][Len(l) + 3].src = src
      BY <1>2, <2>2
    <3> QED
      BY <3>1, <3>2, <2>3
  <2>5. CitedFor(r)' = {ledger'[r][i].src : i \in DOMAIN ledger'[r]} \ {NoRecord}
    BY DEF CitedFor
  <2> QED
    BY <2>4, <2>5, NoRecordAssumption
<1> HIDE DEF events
<1>5. /\ row[r].slot \in Slot
      /\ CarriedIn(row[r].slot) = {r}
      /\ CarriedMap' = [CarriedMap EXCEPT ![row[r].slot] = {}]
      /\ \A st \in Status : InStatus(st)' =
            IF st = "RESPONSIBLY_EXHAUSTED" THEN InStatus(st) \cup {r} ELSE InStatus(st) \ {r}
      /\ \A st \in Terminal : r \notin InStatus(st)
      /\ CitedMap' = [CitedMap EXCEPT ![r] = CitedFor(r)']
  BY <1>1, <1>3, CloseLaysDown
<1>6. /\ InStatus("RESPONSIBLY_EXHAUSTED")' = InStatus("RESPONSIBLY_EXHAUSTED") \cup {r}
      /\ InStatus("COMPLETED")' = InStatus("COMPLETED")
  BY <1>1, <1>5
<1> QED
  BY <1>4, <1>5, <1>6 DEF Promise!End, Promise!LayDown, CarriedMap, CitedMap

(* Every step is a step of the promise, or none. *)
LEMMA StepPromise == IInv /\ [Next]_vars => [Promise!Next]_(Promise!vars)
<1> SUFFICES ASSUME IInv, [Next]_vars PROVE Promise!Next \/ UNCHANGED Promise!vars
  OBVIOUS
<1>1. CASE Untouched
  BY <1>1 DEF Untouched, Promise!vars, CarriedIn, OpenIn, IsOpen, InStatus, CitedFor
<1>2. ASSUME NEW s \in Slot, NEW r \in Resp, AcceptsRow(s, r) PROVE Promise!Next
  BY <1>2, AcceptPromise DEF Promise!Next
<1>3. ASSUME NEW r \in Resp, Closes(r) PROVE Promise!Next
  <2>1. row[r].slot \in Slot
    <3>1. IsOpen(r)
      BY <1>3 DEF Closes, MovesRow
    <3>2. row[r] \in Row
      BY <3>1 DEF IsOpen, IInv, TypeOK, NoRow, Open
    <3> QED
      BY <3>2 DEF Row
  <2>2. ASSUME NEW src \in Record, NEW supporting \in Record
        PROVE  {src} \in SUBSET Record /\ {src, supporting} \in SUBSET Record
    OBVIOUS
  <2> QED
    BY <1>3, <2>1, <2>2, KeepPromise, EndPromise DEF Closes, Promise!Next
<1> QED
  BY <1>1, <1>2, <1>3, WaitPromise, StepShape

\* Every behaviour of the repository is a behaviour of the abstract promise:
\* accepted once per slot, carried until kept or ended with cited evidence.
THEOREM Implementation == Spec => ImplementsPromise
<1>1. Spec => Promise!Spec
  BY InitPromise, StepPromise, Invariance, PTL DEF Spec, Promise!Spec
<1> QED
  BY <1>1 DEF ImplementsPromise

===============================================================================
