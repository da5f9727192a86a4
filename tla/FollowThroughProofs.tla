--------------------------- MODULE FollowThroughProofs --------------------------
(***************************************************************************)
(* What overlapping requests and sweeps leave of a contract, for any       *)
(* number of callers, rows, dates and revisions.                           *)
(***************************************************************************)
EXTENDS FollowThrough, TLAPS

CreateTx == [op : {"create"}, r : Row, fresh : BOOLEAN, due : Due]
AlignTx == [op : {"align"}, r : Row]
MutationTx == [op : Mutation, r : Row, seen : Nat, fresh : BOOLEAN, next : Contract,
               date : Date, level : Provenance \cup {NoLevel}]
NotifyTx == [op : {"notifySteward"}, r : Row, date : Due]
TxState == {Idle} \cup CreateTx \cup AlignTx \cup MutationTx \cup NotifyTx

\* Only a pass that marks a row has read one.
IsPass(p) ==
    /\ "at" \in DOMAIN p
    /\ p.at = "mark" => {"r", "fresh"} \subseteq DOMAIN p /\ p.r \in Row
    /\ p.at # "mark" => "fresh" \notin DOMAIN p

\* The level of evidence an operation is.
LevelOf(op) ==
    IF op = "reportSatisfied" THEN "REPORTED"
    ELSE IF op \in {"verifyDue", "verifySatisfied"} THEN "VERIFIED"
    ELSE NoLevel

\* The history of n is that of k and an entry of that level.
Grows(k, n, level) ==
    \E e \in Entry : n.history = Append(k.history, e) /\ LevelTold(e) = level

\* A contract that says MISSED was marked so on the date it still has.
MissedTold(k) ==
    k.state = "MISSED" => \E i \in DOMAIN k.history : k.history[i] = MissedEntry(k.due)

\* What an operation may make of contract k, and the date it names for the column.
Lawful(op, k, n, date) ==
    /\ n \in Contract
    /\ Len(n.history) = Len(k.history) + 1
    /\ Grows(k, n, LevelOf(op))
    /\ MissedTold(n)
    /\ op = "sweep" => n.state = "MISSED"
    /\ n.due = IF date = NoDate THEN k.due ELSE date
    /\ k.provenance = "VERIFIED" /\ n.due # k.due => op = "verifyDue"
    /\ k.state \in SATISFIED_STATES /\ n.state \notin SATISFIED_STATES =>
          n.state = "DISPUTED" /\ k.provenance = "VERIFIED"

RowsOK ==
    /\ open \subseteq Row
    /\ contract \in [Row -> Contract \cup {NoContract}]
    /\ dueAt \in [Row -> Date]
    /\ evidence \in [Row -> Seq(Provenance)]
    /\ tx \in [Call -> TxState]
    /\ IsPass(pass)

\* While nobody else has written its row, what a transaction read still holds,
\* and what it will write is lawful.
TxKnows(c) ==
    LET t == tx[c] IN
    /\ t.op = "create" /\ t.fresh => t.r \in open /\ contract[t.r] = NoContract
    /\ t.op \in Mutation /\ t.fresh =>
          /\ t.r \in open /\ contract[t.r] \in Contract
          /\ t.seen = contract[t.r].revision
          /\ Lawful(t.op, contract[t.r], t.next, t.date)
          /\ t.level = LevelOf(t.op)

PassKnows ==
    pass.at = "mark" /\ pass.fresh =>
        /\ pass.r \in open /\ contract[pass.r] \in Contract
        /\ pass.seen = contract[pass.r].revision
        /\ Lawful("sweep", contract[pass.r], pass.next, NoDate)

Inv == RowsOK /\ (\A c \in Call : TxKnows(c)) /\ PassKnows /\ ColumnsAgree

-----------------------------------------------------------------------------
(* Contracts *)

LEMMA NoContractIsNone == NoContract \notin Contract
BY DEF NoContract, Contract, State, SATISFIED_STATES

\* An entry more.
LEMMA RevisedContract ==
    ASSUME NEW k \in Contract, NEW e \in HistoryEvent
    PROVE  /\ Revised(k, e) \in Contract
           /\ Len(Revised(k, e).history) = Len(k.history) + 1
           /\ Revised(k, e).due = k.due /\ Revised(k, e).state = k.state
           /\ Revised(k, e).provenance = k.provenance
           /\ Revised(k, e).revision = k.revision
<1>1. /\ [event |-> e, due |-> k.due] \in Entry
      /\ k.history \in Seq(Entry)
    BY DEF Contract, Entry
<1>2. /\ Append(k.history, [event |-> e, due |-> k.due]) \in Seq(Entry)
      /\ Len(Append(k.history, [event |-> e, due |-> k.due])) = Len(k.history) + 1
    BY <1>1
<1> QED BY <1>2 DEF Revised, Contract

LEMMA RevisedHistory ==
    ASSUME NEW k \in Contract, NEW e \in HistoryEvent
    PROVE  /\ [event |-> e, due |-> k.due] \in Entry
           /\ Revised(k, e).history = Append(k.history, [event |-> e, due |-> k.due])
           /\ \E i \in DOMAIN Revised(k, e).history :
                 Revised(k, e).history[i] = [event |-> e, due |-> k.due]
<1>1. /\ [event |-> e, due |-> k.due] \in Entry
      /\ k.history \in Seq(Entry)
    BY DEF Contract, Entry
<1>2. Revised(k, e).history = Append(k.history, [event |-> e, due |-> k.due])
    BY DEF Revised, Contract
<1>3. PICK x \in Entry : x = [event |-> e, due |-> k.due]
    BY <1>1
<1>4. /\ Append(k.history, x)[Len(k.history) + 1] = x
      /\ Len(k.history) + 1 \in DOMAIN Append(k.history, x)
    BY <1>1
<1> QED BY <1>1, <1>2, <1>3, <1>4

\* What an entry more shows of itself: its level, and whether it is the mark
\* of a missed date.
LEMMA RevisionTells ==
    ASSUME NEW k \in Contract, NEW n \in Contract, n.history = k.history,
           NEW e \in HistoryEvent, NEW op, LevelOf(op) = LevelTold([event |-> e, due |-> n.due]),
           n.state = "MISSED" => e = "DUE_TIME_PASSED_WITHOUT_SATISFACTION_EVIDENCE"
    PROVE  Grows(k, Revised(n, e), LevelOf(op)) /\ MissedTold(Revised(n, e))
<1>1. Grows(k, Revised(n, e), LevelOf(op))
    BY RevisedHistory DEF Grows
<1>2. MissedTold(Revised(n, e))
  <2>1. PICK m : m = Revised(n, e)
      OBVIOUS
  <2>2. m.state = n.state /\ m.due = n.due
      BY <2>1, RevisedContract
  <2>3. \E i \in DOMAIN m.history : m.history[i] = [event |-> e, due |-> n.due]
      BY <2>1, RevisedHistory
  <2>4. MissedTold(m)
      BY <2>2, <2>3 DEF MissedTold, MissedEntry
  <2> QED BY <2>1, <2>4
<1> QED BY <1>1, <1>2

LEMMA AttemptIsLawful ==
    ASSUME NEW k \in Contract, NEW b \in BOOLEAN, NEW d \in NextAttempt,
           Attempted(k, b, d) # k
    PROVE  Lawful("recordAttempt", k, Attempted(k, b, d), NoDate)
<1> DEFINE n == [k EXCEPT !.state = IF @ = "DISPUTED" THEN "DISPUTED"
                                    ELSE IF b THEN "BLOCKED" ELSE "WAITING",
                          !.nextAttempt = d, !.review = @ \/ b]
<1>1. /\ n \in Contract /\ n.due = k.due /\ n.history = k.history /\ n.state # "MISSED"
      /\ "ATTEMPT_RECORDED" \in HistoryEvent
    BY DEF Contract, State, Date, HistoryEvent
<1>2. k.state \notin SATISFIED_STATES /\ Attempted(k, b, d) = Revised(n, "ATTEMPT_RECORDED")
    BY DEF Attempted
<1> HIDE DEF n
<1>3. LevelOf("recordAttempt") = LevelTold([event |-> "ATTEMPT_RECORDED", due |-> n.due])
    BY DEF LevelOf, LevelTold
<1>4. Grows(k, Attempted(k, b, d), LevelOf("recordAttempt")) /\ MissedTold(Attempted(k, b, d))
    BY <1>1, <1>2, <1>3, RevisionTells
<1> QED BY <1>1, <1>2, <1>4, RevisedContract DEF Lawful

LEMMA DueReportIsLawful ==
    ASSUME NEW k \in Contract, NEW d \in Due
    PROVE  Lawful("reportDueChange", k, DueReported(k, d),
                  IF k.provenance = "VERIFIED" THEN NoDate ELSE d)
<1>1. CASE k.provenance = "VERIFIED"
  <2> DEFINE n == [k EXCEPT !.state = "DISPUTED", !.review = TRUE]
  <2>1. /\ n \in Contract /\ n.due = k.due /\ n.history = k.history /\ n.state = "DISPUTED"
        /\ "DUE_CHANGE_REPORTED_AGAINST_VERIFIED_DATE" \in HistoryEvent
      BY DEF Contract, State, HistoryEvent
  <2>2. DueReported(k, d) = Revised(n, "DUE_CHANGE_REPORTED_AGAINST_VERIFIED_DATE")
      BY <1>1 DEF DueReported
  <2> HIDE DEF n
  <2>3. LevelOf("reportDueChange")
          = LevelTold([event |-> "DUE_CHANGE_REPORTED_AGAINST_VERIFIED_DATE", due |-> n.due])
      BY DEF LevelOf, LevelTold
  <2>4. Grows(k, DueReported(k, d), LevelOf("reportDueChange")) /\ MissedTold(DueReported(k, d))
      BY <2>1, <2>2, <2>3, RevisionTells
  <2> QED BY <1>1, <2>1, <2>2, <2>4, RevisedContract DEF Lawful
<1>2. CASE k.provenance # "VERIFIED"
  <2> DEFINE n == [k EXCEPT !.state = IF @ = "MISSED" THEN "PENDING" ELSE @,
                            !.due = d, !.review = FALSE]
  <2>1. /\ n \in Contract /\ n.due = d /\ n.history = k.history
        /\ n.state = IF k.state = "MISSED" THEN "PENDING" ELSE k.state
        /\ "REPORTED_DUE_DATE_CORRECTED" \in HistoryEvent
      BY DEF Contract, State, HistoryEvent
  <2>2. DueReported(k, d) = Revised(n, "REPORTED_DUE_DATE_CORRECTED")
      BY <1>2 DEF DueReported
  <2>3. d # NoDate
      BY DueAssumption
  <2> HIDE DEF n
  <2>4. LevelOf("reportDueChange")
          = LevelTold([event |-> "REPORTED_DUE_DATE_CORRECTED", due |-> n.due])
      BY DEF LevelOf, LevelTold
  <2>5. Grows(k, DueReported(k, d), LevelOf("reportDueChange")) /\ MissedTold(DueReported(k, d))
      BY <2>1, <2>2, <2>4, RevisionTells
  <2> QED BY SMTT(30), <1>2, <2>1, <2>2, <2>3, <2>5, RevisedContract
             DEF Lawful, SATISFIED_STATES
<1> QED BY <1>1, <1>2

LEMMA DueVerificationIsLawful ==
    ASSUME NEW k \in Contract, NEW d \in Due, NEW s \in BOOLEAN, DueVerified(k, d, s) # k
    PROVE  Lawful("verifyDue", k, DueVerified(k, d, s), d)
<1> DEFINE n == [k EXCEPT !.state = IF @ \in {"DISPUTED", "MISSED"} THEN "PENDING" ELSE @,
                          !.due = d, !.provenance = "VERIFIED", !.review = FALSE]
<1>1. /\ n \in Contract /\ n.due = d /\ n.history = k.history
      /\ n.state = IF k.state \in {"DISPUTED", "MISSED"} THEN "PENDING" ELSE k.state
      /\ "DUE_DATE_VERIFIED" \in HistoryEvent
    BY DEF Contract, State, HistoryEvent, Provenance
<1>2. DueVerified(k, d, s) = Revised(n, "DUE_DATE_VERIFIED")
    BY DEF DueVerified
<1>3. d # NoDate
    BY DueAssumption
<1> HIDE DEF n
<1>4. LevelOf("verifyDue") = LevelTold([event |-> "DUE_DATE_VERIFIED", due |-> n.due])
    BY DEF LevelOf, LevelTold
<1>5. Grows(k, DueVerified(k, d, s), LevelOf("verifyDue")) /\ MissedTold(DueVerified(k, d, s))
    BY <1>1, <1>2, <1>4, RevisionTells
<1>6. /\ DueVerified(k, d, s) \in Contract /\ DueVerified(k, d, s).due = d
      /\ Len(DueVerified(k, d, s).history) = Len(k.history) + 1
      /\ DueVerified(k, d, s).state = n.state
    BY <1>1, <1>2, RevisedContract
<1> QED BY <1>1, <1>3, <1>5, <1>6 DEF Lawful, SATISFIED_STATES

LEMMA SatisfactionIsLawful ==
    ASSUME NEW k \in Contract
    PROVE  /\ SatisfactionReported(k) # k =>
                Lawful("reportSatisfied", k, SatisfactionReported(k), NoDate)
           /\ SatisfactionVerified(k) # k =>
                Lawful("verifySatisfied", k, SatisfactionVerified(k), NoDate)
<1>1. ASSUME NEW st \in SATISFIED_STATES, NEW e \in HistoryEvent, NEW op, op # "sweep",
             \A due : LevelOf(op) = LevelTold([event |-> e, due |-> due])
      PROVE  Lawful(op, k, Revised([k EXCEPT !.state = st, !.nextAttempt = NoDate,
                                             !.review = FALSE], e), NoDate)
  <2> DEFINE n == [k EXCEPT !.state = st, !.nextAttempt = NoDate, !.review = FALSE]
  <2>1. /\ n \in Contract /\ n.due = k.due /\ n.history = k.history /\ n.state = st
        /\ n.state # "MISSED"
      BY DEF Contract, State, Date, SATISFIED_STATES
  <2> HIDE DEF n
  <2>2. Grows(k, Revised(n, e), LevelOf(op)) /\ MissedTold(Revised(n, e))
    <3>1. LevelOf(op) = LevelTold([event |-> e, due |-> n.due])
        BY <1>1
    <3> QED BY <2>1, <3>1, RevisionTells
  <2>3. Lawful(op, k, Revised(n, e), NoDate)
      BY <1>1, <2>1, <2>2, RevisedContract DEF Lawful
  <2> QED BY <2>3 DEF n
<1>2. /\ "SATISFIED_REPORTED" \in SATISFIED_STATES /\ "SATISFIED_VERIFIED" \in SATISFIED_STATES
      /\ "SATISFACTION_REPORTED" \in HistoryEvent /\ "SATISFACTION_VERIFIED" \in HistoryEvent
    BY DEF SATISFIED_STATES, HistoryEvent
<1>3. \A due :
        /\ LevelOf("reportSatisfied") = LevelTold([event |-> "SATISFACTION_REPORTED", due |-> due])
        /\ LevelOf("verifySatisfied") = LevelTold([event |-> "SATISFACTION_VERIFIED", due |-> due])
    BY DEF LevelOf, LevelTold
<1> QED BY <1>1, <1>2, <1>3 DEF SatisfactionReported, SatisfactionVerified

LEMMA MissIsLawful ==
    ASSUME NEW k \in Contract, NEW at, Missed(k, at) # k
    PROVE  Lawful("sweep", k, Missed(k, at), NoDate)
<1> DEFINE n == [k EXCEPT !.state = "MISSED", !.review = TRUE]
           e == "DUE_TIME_PASSED_WITHOUT_SATISFACTION_EVIDENCE"
<1>1. n \in Contract /\ n.due = k.due /\ n.history = k.history /\ e \in HistoryEvent
    BY DEF Contract, State, HistoryEvent
<1>2. k.state \notin SATISFIED_STATES /\ Missed(k, at) = Revised(n, e)
    BY DEF Missed
<1>3. /\ LevelOf("sweep") = LevelTold([event |-> e, due |-> n.due])
      /\ n.state = "MISSED" /\ e = "DUE_TIME_PASSED_WITHOUT_SATISFACTION_EVIDENCE"
    BY DEF LevelOf, LevelTold, Contract
<1> HIDE DEF n, e
<1>4. Grows(k, Missed(k, at), LevelOf("sweep")) /\ MissedTold(Missed(k, at))
    BY <1>1, <1>2, <1>3, RevisionTells
<1> QED BY <1>1, <1>2, <1>3, <1>4, RevisedContract DEF Lawful

-----------------------------------------------------------------------------
(* Transactions *)

\* A transaction whose row somebody else has written is the same, not fresh.
LEMMA OutdatedTx ==
    ASSUME NEW t \in TxState, NEW q
    PROVE  /\ Outdated(t, q) \in TxState /\ Outdated(t, q).op = t.op
           /\ t.op \in Mutation \cup {"create"} =>
                /\ Outdated(t, q).r = t.r
                /\ t.r # q => Outdated(t, q) = t
                /\ t.r = q => ~Outdated(t, q).fresh
<1>1. CASE t = Idle
    BY <1>1 DEF Idle, TxState, Outdated, Mutation
<1>2. CASE t \in CreateTx
    BY <1>2 DEF CreateTx, TxState, Outdated
<1>3. CASE t \in AlignTx
    BY <1>3 DEF AlignTx, TxState, Outdated, Mutation
<1>4. CASE t \in MutationTx
    BY <1>4 DEF MutationTx, TxState, Outdated
<1>5. CASE t \in NotifyTx
    BY <1>5 DEF NotifyTx, TxState, Outdated, Mutation
<1> QED BY <1>1, <1>2, <1>3, <1>4, <1>5 DEF TxState

LEMMA OutdatedPass ==
    ASSUME NEW p, IsPass(p), NEW q
    PROVE  /\ IsPass(Outdated(p, q)) /\ Outdated(p, q).at = p.at
           /\ p.at = "mark" =>
                /\ Outdated(p, q).r = p.r
                /\ p.r # q => Outdated(p, q) = p
                /\ p.r = q => ~Outdated(p, q).fresh
<1>1. CASE p.at # "mark"
    BY <1>1 DEF IsPass, Outdated
<1>2. CASE p.at = "mark" /\ p.r # q
    BY <1>2 DEF IsPass, Outdated
<1>3. CASE p.at = "mark" /\ p.r = q
  <2>1. Outdated(p, q) = [p EXCEPT !.fresh = FALSE]
      BY <1>3 DEF IsPass, Outdated
  <2>2. /\ DOMAIN Outdated(p, q) = DOMAIN p
        /\ Outdated(p, q).at = p.at /\ Outdated(p, q).r = p.r /\ ~Outdated(p, q).fresh
      BY <1>3, <2>1 DEF IsPass
  <2> QED BY <1>3, <2>2 DEF IsPass
<1> QED BY <1>1, <1>2, <1>3

\* A row is written: what others read of it is out of date, what they read of
\* other rows is not.
LEMMA OthersKnow ==
    ASSUME Inv, NEW q \in Row,
           \A r \in Row \ {q} : contract'[r] = contract[r],
           open \ {q} \subseteq open', NEW c \in Call, tx'[c] = Outdated(tx[c], q)
    PROVE  TxKnows(c)'
<1>1. tx[c] \in TxState
    BY DEF Inv, RowsOK
<1>2. CASE tx[c].op \in Mutation \cup {"create"} /\ tx[c].r # q
  <2>1. tx'[c] = tx[c] /\ tx[c].r \in Row
    <3>1. tx[c].r \in Row
        BY <1>1, <1>2 DEF TxState, CreateTx, MutationTx, AlignTx, NotifyTx, Mutation, Idle
    <3> QED BY <1>1, <1>2, <3>1, OutdatedTx
  <2> QED BY <1>2, <2>1 DEF Inv, TxKnows
<1>3. CASE tx[c].op \in Mutation \cup {"create"} /\ tx[c].r = q
    BY <1>1, <1>3, OutdatedTx DEF TxKnows
<1>4. CASE tx[c].op \notin Mutation \cup {"create"}
    BY <1>1, <1>4, OutdatedTx DEF TxKnows
<1> QED BY <1>2, <1>3, <1>4

LEMMA PassStillKnows ==
    ASSUME Inv, NEW q \in Row,
           \A r \in Row \ {q} : contract'[r] = contract[r],
           open \ {q} \subseteq open', pass' = Outdated(pass, q)
    PROVE  PassKnows' /\ IsPass(pass)'
<1>1. IsPass(pass)
    BY DEF Inv, RowsOK
<1>2. CASE pass.at = "mark" /\ pass.r # q
  <2>1. pass' = pass
      BY <1>1, <1>2, OutdatedPass
  <2>2. pass.r \in Row \/ ~pass.fresh
      BY <1>2 DEF Inv, PassKnows, RowsOK
  <2> QED BY <1>1, <1>2, <2>1, <2>2 DEF Inv, PassKnows
<1>3. CASE pass.at = "mark" /\ pass.r = q
    BY <1>1, <1>3, OutdatedPass DEF PassKnows
<1>4. CASE pass.at # "mark"
    BY <1>1, <1>4, OutdatedPass DEF PassKnows
<1> QED BY <1>2, <1>3, <1>4

\* The rows stay: what is known of them does, too.
LEMMA SameRows ==
    ASSUME Inv, UNCHANGED <<open, contract>>
    PROVE  /\ \A c \in Call : tx'[c] = tx[c] => TxKnows(c)'
           /\ pass' = pass => PassKnows'
BY DEF Inv, TxKnows, PassKnows

-----------------------------------------------------------------------------
(* Steps by what they change *)

\* A request or the sweep goes on and leaves the rows alone.
LEMMA QuietStep ==
    ASSUME Inv, UNCHANGED rowVars, tx' \in [Call -> TxState], IsPass(pass)',
           \A c \in Call : tx'[c] = tx[c] \/ TxKnows(c)', pass' = pass \/ PassKnows'
    PROVE  Inv'
<1>1. RowsOK'
    BY DEF Inv, RowsOK, rowVars
<1>2. (\A c \in Call : TxKnows(c)') /\ PassKnows'
    BY SameRows DEF rowVars
<1>3. ColumnsAgree'
    BY DEF Inv, ColumnsAgree, Has, rowVars
<1> QED BY <1>1, <1>2, <1>3 DEF Inv

\* Another service updates or closes a row.
LEMMA ForeignStep ==
    ASSUME Inv, UNCHANGED <<contract, dueAt, evidence>>, NEW q \in Row,
           open' \subseteq open, open \ {q} \subseteq open',
           NEW x, NEW st \in TxState, st.op \notin Mutation \cup {"create"}, UpdatedBy(x, q, st)
    PROVE  Inv'
<1>1. /\ tx' \in [Call -> TxState]
      /\ \A c \in Call : tx'[c] = st \/ tx'[c] = Outdated(tx[c], q)
    BY OutdatedTx DEF UpdatedBy, Inv, RowsOK
<1>2. ASSUME NEW c \in Call PROVE TxKnows(c)'
  <2>1. CASE tx'[c] = st
      BY <2>1 DEF TxKnows
  <2>2. CASE tx'[c] = Outdated(tx[c], q)
      BY <2>2, OthersKnow
  <2> QED BY <1>1, <2>1, <2>2
<1>3. PassKnows' /\ IsPass(pass)'
    BY PassStillKnows DEF UpdatedBy
<1>4. RowsOK'
    BY <1>1, <1>3 DEF Inv, RowsOK
<1>5. ColumnsAgree'
    BY DEF Inv, ColumnsAgree, Has
<1> QED BY <1>2, <1>3, <1>4, <1>5 DEF Inv

\* The row q, and no other, is given contract n; what else is open goes out of
\* date with it.
Gives(q, n) ==
    /\ q \in open /\ UNCHANGED open
    /\ n \in Contract /\ n.revision = Len(n.history)
    /\ contract' = [contract EXCEPT ![q] = n]
    /\ dueAt' \in [Row -> Date] /\ dueAt'[q] = n.due
    /\ evidence' \in [Row -> Seq(Provenance)]
    /\ \A r \in Row \ {q} : dueAt'[r] = dueAt[r] /\ evidence'[r] = evidence[r]
    /\ \A c \in Call : \/ tx'[c] = Outdated(tx[c], q)
                       \/ tx'[c] \in TxState /\ tx'[c].op \notin Mutation \cup {"create"}

LEMMA GivingStep ==
    ASSUME Inv, NEW q \in Row, NEW n \in Contract, Gives(q, n), DOMAIN tx' = Call,
           tx' = [c \in Call |-> tx'[c]], IsPass(pass)', PassKnows'
    PROVE  Inv'
<1>1. /\ contract' \in [Row -> Contract \cup {NoContract}] /\ contract'[q] = n
      /\ \A r \in Row \ {q} : contract'[r] = contract[r]
    BY DEF Gives, Inv, RowsOK
<1>2. ASSUME NEW c \in Call PROVE TxKnows(c)' /\ tx'[c] \in TxState
  <2>1. CASE tx'[c] = Outdated(tx[c], q)
      BY <1>1, <2>1, OthersKnow, OutdatedTx DEF Gives, Inv, RowsOK
  <2>2. CASE tx'[c] \in TxState /\ tx'[c].op \notin Mutation \cup {"create"}
      BY <2>2 DEF TxKnows
  <2> QED BY <2>1, <2>2 DEF Gives
<1>3. tx' \in [Call -> TxState]
    BY <1>2
<1>4. RowsOK'
    BY <1>1, <1>3 DEF Gives, Inv, RowsOK
<1>5. ColumnsAgree'
    BY <1>1 DEF Gives, Inv, ColumnsAgree, Has
<1> QED BY <1>2, <1>4, <1>5 DEF Inv

-----------------------------------------------------------------------------
(* The actions *)

LEMMA IdleTx == Idle \in TxState /\ Idle.op \notin Mutation \cup {"create"}
BY DEF Idle, TxState, Mutation

LEMMA NoPassIsPass == IsPass(NoPass) /\ NoPass.at # "mark"
BY DEF NoPass, IsPass

\* A request reads a row that is open and has a contract.
LEMMA ReadStep ==
    ASSUME Inv, NEW c \in Call, NEW r \in Row, NEW op \in Mutation, NEW n, NEW d \in Date,
           NEW l \in Provenance \cup {NoLevel}, Read(c, r, op, n, d, l),
           contract[r] \in Contract => Lawful(op, contract[r], n, d), l = LevelOf(op)
    PROVE  Inv' /\ UNCHANGED rowVars
<1> DEFINE st == [op |-> op, r |-> r, seen |-> contract[r].revision, fresh |-> TRUE,
                  next |-> n, date |-> d, level |-> l]
<1>1. contract[r] \in Contract /\ r \in open
    BY DEF Read, Held, Has, Inv, RowsOK
<1>2. contract[r].revision \in Nat /\ n \in Contract
    BY <1>1 DEF Contract, Lawful
<1>3. st \in TxState
    BY <1>2 DEF TxState, MutationTx
<1>4. /\ tx' \in [Call -> TxState] /\ tx'[c] = st
      /\ \A b \in Call : b # c => tx'[b] = tx[b]
      /\ UNCHANGED rowVars /\ pass' = pass
    BY <1>3 DEF Read, Proceed, Inv, RowsOK
<1>5. TxKnows(c)'
  <2>1. contract' = contract /\ open' = open
      BY <1>4 DEF rowVars
  <2> QED BY <1>1, <1>4, <2>1 DEF TxKnows, Mutation
<1>6. IsPass(pass)'
    BY <1>4 DEF Inv, RowsOK
<1> QED BY <1>4, <1>5, <1>6, QuietStep

LEMMA MutationReadStep ==
    ASSUME Inv, NEW c \in Call, NEW r \in Row,
           \/ \E d \in Due : ReportDueChangeRead(c, r, d)
           \/ \E b \in BOOLEAN, d \in NextAttempt : RecordAttemptRead(c, r, b, d)
           \/ ReportSatisfiedRead(c, r)
           \/ \E d \in Due, s \in BOOLEAN : VerifyDueRead(c, r, d, s)
           \/ VerifySatisfiedRead(c, r)
    PROVE  Inv' /\ UNCHANGED rowVars
<1> DEFINE k == contract[r]
<1>1. /\ NoDate \in Date /\ Due \subseteq Date
      /\ {"REPORTED", "VERIFIED", NoLevel} \subseteq Provenance \cup {NoLevel}
      /\ {"recordAttempt", "reportDueChange", "verifyDue", "reportSatisfied",
          "verifySatisfied"} \subseteq Mutation
      /\ LevelOf("recordAttempt") = NoLevel /\ LevelOf("reportDueChange") = NoLevel
      /\ LevelOf("verifyDue") = "VERIFIED" /\ LevelOf("verifySatisfied") = "VERIFIED"
      /\ LevelOf("reportSatisfied") = "REPORTED"
    BY DEF Date, Provenance, Mutation, LevelOf
<1>2. ASSUME NEW d \in Due, ReportDueChangeRead(c, r, d)
      PROVE  Inv' /\ UNCHANGED rowVars
    BY <1>1, <1>2, ReadStep, DueReportIsLawful DEF ReportDueChangeRead
<1>3. ASSUME NEW b \in BOOLEAN, NEW d \in NextAttempt, RecordAttemptRead(c, r, b, d)
      PROVE  Inv' /\ UNCHANGED rowVars
  <2>1. Attempted(k, b, d) # k
      BY <1>3 DEF RecordAttemptRead, Read
  <2> QED BY <1>1, <1>3, <2>1, ReadStep, AttemptIsLawful DEF RecordAttemptRead
<1>4. ASSUME ReportSatisfiedRead(c, r)
      PROVE  Inv' /\ UNCHANGED rowVars
  <2>1. SatisfactionReported(k) # k
      BY <1>4 DEF ReportSatisfiedRead, Read
  <2> QED BY <1>1, <1>4, <2>1, ReadStep, SatisfactionIsLawful DEF ReportSatisfiedRead
<1>5. ASSUME NEW d \in Due, NEW s \in BOOLEAN, VerifyDueRead(c, r, d, s)
      PROVE  Inv' /\ UNCHANGED rowVars
  <2>1. DueVerified(k, d, s) # k
      BY <1>5 DEF VerifyDueRead, Read
  <2> QED BY <1>1, <1>5, <2>1, ReadStep, DueVerificationIsLawful DEF VerifyDueRead
<1>6. ASSUME VerifySatisfiedRead(c, r)
      PROVE  Inv' /\ UNCHANGED rowVars
  <2>1. SatisfactionVerified(k) # k
      BY <1>6 DEF VerifySatisfiedRead, Read
  <2> QED BY <1>1, <1>6, <2>1, ReadStep, SatisfactionIsLawful DEF VerifySatisfiedRead
<1> QED BY <1>2, <1>3, <1>4, <1>5, <1>6

LEMMA CreateReadStep ==
    ASSUME Inv, NEW c \in Call, NEW r \in Row, NEW d \in Due, CreateRead(c, r, d)
    PROVE  Inv' /\ UNCHANGED rowVars
<1> DEFINE st == [op |-> "create", r |-> r, fresh |-> TRUE, due |-> d]
<1>1. st \in TxState
    BY DEF TxState, CreateTx
<1>2. /\ tx' \in [Call -> TxState] /\ tx'[c] = st
      /\ \A b \in Call : b # c => tx'[b] = tx[b]
      /\ UNCHANGED rowVars /\ pass' = pass
    BY <1>1 DEF CreateRead, Proceed, Inv, RowsOK
<1>3. TxKnows(c)'
  <2>1. r \in open /\ contract[r] = NoContract /\ contract' = contract /\ open' = open
      BY <1>2 DEF CreateRead, Has, rowVars
  <2> QED BY <1>2, <2>1 DEF TxKnows, Mutation
<1>4. IsPass(pass)'
    BY <1>2 DEF Inv, RowsOK
<1> QED BY <1>2, <1>3, <1>4, QuietStep

\* A request ends and leaves the rows alone.
LEMMA EndStep ==
    ASSUME Inv, NEW c \in Call, UNCHANGED <<rowVars, pass>>, Proceed(c, Idle)
    PROVE  Inv'
<1>1. /\ tx' \in [Call -> TxState] /\ tx'[c] = Idle
      /\ \A b \in Call : b # c => tx'[b] = tx[b]
    BY IdleTx DEF Proceed, Inv, RowsOK
<1>2. TxKnows(c)'
    BY <1>1, IdleTx DEF TxKnows
<1>3. IsPass(pass)'
    BY DEF Inv, RowsOK
<1> QED BY <1>1, <1>2, <1>3, QuietStep

\* The sweep goes on without a row it has read to mark.
LEMMA PassStep ==
    ASSUME Inv, UNCHANGED <<rowVars, tx>>, IsPass(pass)', pass'.at # "mark"
    PROVE  Inv'
<1>1. tx' \in [Call -> TxState]
    BY DEF Inv, RowsOK
<1>2. PassKnows'
    BY DEF PassKnows
<1> QED BY <1>1, <1>2, QuietStep

LEMMA NextRowPass ==
    ASSUME NEW p
    PROVE  IsPass(NextRow(p)) /\ NextRow(p).at # "mark"
BY NoPassIsPass DEF NextRow, IsPass

\* What a step does to the rows that hold an obligation: one row that is open
\* is written, as the operation that read it may.
Commits(q) ==
    /\ q \in open
    /\ \A r \in Row \ {q} :
          contract'[r] = contract[r] /\ dueAt'[r] = dueAt[r] /\ evidence'[r] = evidence[r]
    /\ Has(q) =>
          /\ contract[q].provenance = "VERIFIED" /\ contract'[q].due # contract[q].due
             => \E c \in Call : tx[c].op = "verifyDue" /\ tx[c].r = q /\ tx'[c] = Idle
          /\ contract[q].state \in SATISFIED_STATES
             /\ contract'[q].state \notin SATISFIED_STATES
             => contract'[q].state = "DISPUTED" /\ contract[q].provenance = "VERIFIED"

\* The history of q is begun or grows by an entry, and the ledger with it
\* where that entry is evidence.
Adds(q) ==
    /\ contract'[q] \in Contract /\ MissedTold(contract'[q])
    /\ \E e \in Entry :
          /\ contract'[q].history = Append(IF Has(q) THEN contract[q].history ELSE <<>>, e)
          /\ evidence'[q] = IF LevelTold(e) = NoLevel THEN evidence[q]
                            ELSE Append(evidence[q], LevelTold(e))

Shape == UNCHANGED <<contract, dueAt, evidence>> \/ \E q \in Row : Commits(q) /\ Adds(q)

LEMMA CreateWriteStep ==
    ASSUME Inv, NEW c \in Call, CreateWrite(c)
    PROVE  Inv' /\ Shape
<1> DEFINE t == tx[c]
           r == tx[c].r
           d == tx[c].due
           n == [revision |-> 1, state |-> "PENDING", due |-> d,
                 provenance |-> "REPORTED", nextAttempt |-> NoDate, review |-> FALSE,
                 history |-> <<[event |-> "OBLIGATION_RECORDED", due |-> d]>>]
           st == [op |-> "align", r |-> r]
<1>1. t \in CreateTx
  <2>1. t \in TxState /\ t.op = "create"
      BY DEF CreateWrite, Inv, RowsOK
  <2> QED BY <2>1 DEF TxState, Idle, AlignTx, MutationTx, NotifyTx, Mutation
<1>2. r \in Row /\ d \in Due
    BY <1>1 DEF CreateTx
<1>3. CASE ~t.fresh
  <2>1. Proceed(c, Idle) /\ UNCHANGED <<rowVars, pass>>
      BY <1>3 DEF CreateWrite, rowVars
  <2> QED BY <2>1, EndStep DEF Shape, rowVars
<1>4. CASE t.fresh
  <2>1. /\ contract' = [contract EXCEPT ![r] = n] /\ dueAt' = [dueAt EXCEPT ![r] = d]
        /\ UpdatedBy(c, r, st) /\ UNCHANGED <<open, evidence>>
      BY <1>4 DEF CreateWrite
  <2>2. r \in open /\ contract[r] = NoContract
      BY <1>1, <1>4 DEF Inv, TxKnows, CreateTx
  <2>3. n \in Contract /\ n.revision = Len(n.history) /\ n.due = d
    <3>1. <<[event |-> "OBLIGATION_RECORDED", due |-> d]>> \in Seq(Entry)
        BY <1>2 DEF Entry, HistoryEvent
    <3>2. n.history = <<[event |-> "OBLIGATION_RECORDED", due |-> d]>>
        OBVIOUS
    <3>3. Len(n.history) = 1
        BY <3>2
    <3> QED BY <1>2, <3>1, <3>3 DEF Contract, State, Provenance, Date
  <2>4. st \in TxState /\ st.op \notin Mutation \cup {"create"}
      BY <1>2 DEF TxState, AlignTx, Mutation
  <2>5. \A b \in Call : \/ tx'[b] = Outdated(tx[b], r)
                        \/ tx'[b] \in TxState /\ tx'[b].op \notin Mutation \cup {"create"}
      BY <2>1, <2>4 DEF UpdatedBy
  <2>6. dueAt' \in [Row -> Date] /\ dueAt'[r] = d
      BY <1>2, <2>1 DEF Inv, RowsOK, Date
  <2>7. \A q \in Row \ {r} : dueAt'[q] = dueAt[q] /\ evidence'[q] = evidence[q]
      BY <2>1 DEF Inv, RowsOK
  <2> HIDE DEF n, d, st
  <2>8. Gives(r, n)
      BY <2>1, <2>2, <2>3, <2>5, <2>6, <2>7 DEF Gives, Inv, RowsOK
  <2>9. PassKnows' /\ IsPass(pass)'
    <3>1. \A q \in Row \ {r} : contract'[q] = contract[q]
        BY <2>1 DEF Inv, RowsOK
    <3> QED BY <1>2, <2>1, <3>1, PassStillKnows DEF UpdatedBy
  <2>10. DOMAIN tx' = Call /\ tx' = [b \in Call |-> tx'[b]]
      BY <2>1 DEF UpdatedBy
  <2>11. Inv'
      BY <1>2, <2>3, <2>8, <2>9, <2>10, GivingStep
  <2>12. Commits(r)
      BY <2>1, <2>2, <2>7 DEF Commits, Has, Inv, RowsOK
  <2>13. Adds(r)
    <3>1. contract'[r] = n /\ evidence'[r] = evidence[r] /\ ~Has(r)
        BY <1>2, <2>1, <2>2 DEF Inv, RowsOK, Has
    <3>2. PICK e \in Entry : e = [event |-> "OBLIGATION_RECORDED", due |-> d]
        BY <1>2 DEF Entry, HistoryEvent
    <3>3. n.history = Append(<<>>, e) /\ n.state = "PENDING"
        BY <3>2 DEF n
    <3>4. LevelTold(e) = NoLevel
        BY <3>2 DEF LevelTold
    <3>5. MissedTold(n)
        BY <3>3 DEF MissedTold
    <3> QED BY <2>3, <3>1, <3>3, <3>4, <3>5 DEF Adds
  <2> QED BY <1>2, <2>11, <2>12, <2>13 DEF Shape
<1> QED BY <1>3, <1>4

\* The contract a write leaves: what was read to be next, one revision on.
LEMMA WrittenContract ==
    ASSUME NEW op, NEW k \in Contract, NEW n, NEW d, Lawful(op, k, n, d),
           k.revision = Len(k.history)
    PROVE  LET m == [n EXCEPT !.revision = k.revision + 1]
           IN /\ m \in Contract /\ m.revision = Len(m.history)
              /\ m.due = n.due /\ m.state = n.state /\ m.history = n.history
              /\ MissedTold(m)
<1>1. n \in Contract /\ Len(n.history) = Len(k.history) + 1 /\ MissedTold(n)
    BY DEF Lawful
<1>2. Len(k.history) \in Nat
    BY DEF Contract
<1> QED BY SMTT(30), <1>1, <1>2 DEF Contract, MissedTold

\* What a write that is lawful adds to history and ledger.
LEMMA WriteAdds ==
    ASSUME NEW r \in Row, Has(r), NEW op, NEW n, NEW d, Lawful(op, contract[r], n, d),
           contract'[r] \in Contract, MissedTold(contract'[r]),
           contract'[r].history = n.history,
           evidence'[r] = IF LevelOf(op) = NoLevel THEN evidence[r]
                          ELSE Append(evidence[r], LevelOf(op))
    PROVE  Adds(r)
<1>1. PICK e \in Entry :
        n.history = Append(contract[r].history, e) /\ LevelTold(e) = LevelOf(op)
    BY DEF Lawful, Grows
<1> QED BY <1>1 DEF Adds

LEMMA WriteStep ==
    ASSUME Inv, NEW c \in Call, Write(c)
    PROVE  Inv' /\ Shape
<1> DEFINE t == tx[c]
           r == tx[c].r
           n == [t.next EXCEPT !.revision = t.seen + 1]
           st == IF t.op = "reportDueChange" /\ t.next.review
                 THEN [op |-> "notifySteward", r |-> r, date |-> t.next.due] ELSE Idle
<1>1. t \in MutationTx /\ t.op \in Mutation
    BY DEF Write, Inv, RowsOK, TxState, Idle, AlignTx, CreateTx, NotifyTx, Mutation
<1>2. r \in Row /\ t.date \in Date
    BY <1>1 DEF MutationTx
<1>3. CASE ~UnchangedSince(t, r)
  <2>1. Proceed(c, Idle) /\ UNCHANGED <<rowVars, pass>>
      BY <1>3 DEF Write, rowVars
  <2> QED BY <2>1, EndStep DEF Shape, rowVars
<1>4. CASE UnchangedSince(t, r)
  <2>1. /\ contract' = [contract EXCEPT ![r] = n]
        /\ dueAt' = IF t.date = NoDate THEN dueAt ELSE [dueAt EXCEPT ![r] = t.date]
        /\ evidence' = IF t.level = NoLevel THEN evidence
                       ELSE [evidence EXCEPT ![r] = Append(@, t.level)]
        /\ UpdatedBy(c, r, st) /\ UNCHANGED open
      BY <1>4 DEF Write
  <2>2. /\ r \in open /\ contract[r] \in Contract /\ t.seen = contract[r].revision
        /\ Lawful(t.op, contract[r], t.next, t.date) /\ t.level = LevelOf(t.op)
      BY <1>1, <1>4 DEF UnchangedSince, Inv, TxKnows
  <2>3. contract[r].revision = Len(contract[r].history) /\ dueAt[r] = contract[r].due
    <3>1. Has(r)
        BY <2>2, NoContractIsNone DEF Has
    <3> QED BY <1>2, <3>1 DEF Inv, ColumnsAgree
  <2>4. /\ n \in Contract /\ n.revision = Len(n.history)
        /\ n.due = t.next.due /\ n.state = t.next.state
        /\ n.history = t.next.history /\ MissedTold(n)
      BY <2>2, <2>3, WrittenContract
  <2>5. st \in TxState /\ st.op \notin Mutation \cup {"create"}
    <3>1. t.next.due \in Due
        BY <2>2 DEF Lawful, Contract
    <3> QED BY <1>2, <3>1, IdleTx DEF TxState, NotifyTx, Mutation
  <2>6. \A b \in Call : \/ tx'[b] = Outdated(tx[b], r)
                        \/ tx'[b] \in TxState /\ tx'[b].op \notin Mutation \cup {"create"}
      BY <2>1, <2>5 DEF UpdatedBy
  <2>7. /\ dueAt' \in [Row -> Date] /\ dueAt'[r] = n.due
        /\ evidence' \in [Row -> Seq(Provenance)]
        /\ \A q \in Row \ {r} : dueAt'[q] = dueAt[q] /\ evidence'[q] = evidence[q]
    <3>1. n.due = IF t.date = NoDate THEN contract[r].due ELSE t.date
        BY <2>2, <2>4 DEF Lawful
    <3>2. /\ dueAt' \in [Row -> Date]
          /\ dueAt'[r] = IF t.date = NoDate THEN dueAt[r] ELSE t.date
          /\ \A q \in Row \ {r} : dueAt'[q] = dueAt[q]
        BY <1>2, <2>1 DEF Inv, RowsOK
    <3>3. /\ evidence' \in [Row -> Seq(Provenance)]
          /\ \A q \in Row \ {r} : evidence'[q] = evidence[q]
      <4>1. t.level # NoLevel => Append(evidence[r], t.level) \in Seq(Provenance)
          BY <1>1, <1>2 DEF Inv, RowsOK, MutationTx
      <4> QED BY <1>2, <2>1, <4>1 DEF Inv, RowsOK
    <3> QED BY <2>3, <3>1, <3>2, <3>3
  <2>8. tx'[c] = st
      BY <2>1 DEF UpdatedBy
  <2>9. \A q \in Row \ {r} : contract'[q] = contract[q]
      BY <2>1 DEF Inv, RowsOK
  <2>10. contract'[r] = n
      BY <1>2, <2>1 DEF Inv, RowsOK
  <2>11. t.op = "verifyDue" => st = Idle
      OBVIOUS
  <2> HIDE DEF n, st
  <2>12. Gives(r, n)
      BY <2>1, <2>2, <2>4, <2>6, <2>7 DEF Gives
  <2>13. PassKnows' /\ IsPass(pass)'
      BY <1>2, <2>1, <2>9, PassStillKnows DEF UpdatedBy
  <2>14. DOMAIN tx' = Call /\ tx' = [b \in Call |-> tx'[b]]
      BY <2>1 DEF UpdatedBy
  <2>15. Inv'
      BY <1>2, <2>4, <2>12, <2>13, <2>14, GivingStep
  <2>16. Commits(r)
      BY <2>2, <2>4, <2>7, <2>8, <2>9, <2>10, <2>11 DEF Commits, Lawful
  <2>17. Adds(r)
    <3>1. Has(r)
        BY <2>2, NoContractIsNone DEF Has
    <3>2. evidence'[r] = IF LevelOf(t.op) = NoLevel THEN evidence[r]
                         ELSE Append(evidence[r], LevelOf(t.op))
        BY <1>2, <2>1, <2>2 DEF Inv, RowsOK
    <3> QED BY <1>2, <2>2, <2>4, <2>10, <3>1, <3>2, WriteAdds
  <2> QED BY <1>2, <2>15, <2>16, <2>17 DEF Shape
<1> QED BY <1>3, <1>4

\* The sweep reads an overdue row again.
LEMMA SweepReadStep ==
    ASSUME Inv, SweepRead
    PROVE  Inv' /\ UNCHANGED rowVars
<1> DEFINE r == Turn.r
           k == contract[r]
           n == Missed(k, pass.started)
           mark == [at |-> "mark", started |-> pass.started, rows |-> pass.rows,
                    r |-> r, fresh |-> TRUE, seen |-> k.revision, next |-> n]
           told1 == [at |-> "announce", started |-> pass.started,
                     rows |-> pass.rows, date |-> k.due]
<1>1. UNCHANGED <<rowVars, tx>>
    BY DEF SweepRead
<1>2. CASE Held(r) /\ n # k /\ pass' = mark
  <2>1. r \in Row
      BY <1>2 DEF Held, Inv, RowsOK
  <2>2. r \in open /\ k \in Contract
      BY <1>2, <2>1 DEF Held, Has, Inv, RowsOK
  <2>3. Lawful("sweep", k, n, NoDate)
      BY <1>2, <2>2, MissIsLawful
  <2>4. IsPass(pass)'
      BY <1>2, <2>1 DEF IsPass
  <2>5. PassKnows'
    <3>1. contract' = contract /\ open' = open
        BY <1>1 DEF rowVars
    <3> QED BY <1>2, <2>2, <2>3, <3>1 DEF PassKnows
  <2>6. tx' \in [Call -> TxState]
      BY <1>1 DEF Inv, RowsOK
  <2> QED BY <1>1, <2>4, <2>5, <2>6, QuietStep
<1>3. CASE pass' = NoPass \/ pass' = NextRow(pass) \/ pass' = told1
  <2>1. IsPass(told1) /\ told1.at # "mark"
      BY DEF IsPass
  <2>2. IsPass(pass)' /\ pass'.at # "mark"
      BY <1>3, <2>1, NextRowPass, NoPassIsPass
  <2> QED BY <1>1, <2>2, PassStep
<1> QED BY <1>2, <1>3 DEF SweepRead

LEMMA SweepMarkStep ==
    ASSUME Inv, SweepMark
    PROVE  Inv' /\ Shape
<1> DEFINE r == pass.r
           n == [pass.next EXCEPT !.revision = pass.seen + 1]
           after == [at |-> "announce", started |-> pass.started,
                     rows |-> pass.rows, date |-> pass.next.due]
<1>1. r \in Row /\ pass.at = "mark"
    BY DEF SweepMark, Inv, RowsOK, IsPass
<1>2. CASE ~UnchangedSince(pass, r)
  <2>1. pass' = NextRow(pass) /\ UNCHANGED <<rowVars, tx>>
      BY <1>2 DEF SweepMark, rowVars
  <2> QED BY <2>1, PassStep, NextRowPass DEF Shape, rowVars
<1>3. CASE UnchangedSince(pass, r)
  <2>1. /\ contract' = [contract EXCEPT ![r] = n] /\ pass' = after
        /\ tx' = [c \in Call |-> Outdated(tx[c], r)] /\ UNCHANGED <<open, dueAt, evidence>>
      BY <1>3 DEF SweepMark
  <2>2. /\ r \in open /\ contract[r] \in Contract /\ pass.seen = contract[r].revision
        /\ Lawful("sweep", contract[r], pass.next, NoDate)
      BY <1>1, <1>3 DEF UnchangedSince, Inv, PassKnows
  <2>3. contract[r].revision = Len(contract[r].history) /\ dueAt[r] = contract[r].due
    <3>1. Has(r)
        BY <2>2, NoContractIsNone DEF Has
    <3> QED BY <1>1, <3>1 DEF Inv, ColumnsAgree
  <2>4. /\ n \in Contract /\ n.revision = Len(n.history)
        /\ n.due = pass.next.due /\ n.state = pass.next.state
        /\ n.history = pass.next.history /\ MissedTold(n)
      BY <2>2, <2>3, WrittenContract
  <2>5. n.due = dueAt[r]
      BY <2>2, <2>3, <2>4 DEF Lawful
  <2>6. \A q \in Row \ {r} : contract'[q] = contract[q]
      BY <2>1 DEF Inv, RowsOK
  <2>7. contract'[r] = n
      BY <1>1, <2>1 DEF Inv, RowsOK
  <2>8. IsPass(after) /\ after.at # "mark"
      BY DEF IsPass
  <2> HIDE DEF n, after
  <2>9. Gives(r, n)
      BY <2>1, <2>2, <2>4, <2>5 DEF Gives, Inv, RowsOK
  <2>10. Inv'
      BY <1>1, <2>1, <2>4, <2>8, <2>9, GivingStep DEF PassKnows
  <2>11. Commits(r)
      BY <2>1, <2>2, <2>3, <2>4, <2>5, <2>6, <2>7 DEF Commits, Lawful
  <2>12. Adds(r)
    <3>1. Has(r) /\ LevelOf("sweep") = NoLevel
        BY <2>2, NoContractIsNone DEF Has, LevelOf
    <3> QED BY <1>1, <2>1, <2>2, <2>4, <2>7, <3>1, WriteAdds
  <2> QED BY <1>1, <2>10, <2>11, <2>12 DEF Shape
<1> QED BY <1>2, <1>3

\* The rest of a sweep.
LEMMA SweepOnStep ==
    ASSUME Inv, SweepSelect \/ SweepRemind \/ SweepAnnounce \/ SweepReview \/ SweepFail
    PROVE  Inv' /\ UNCHANGED rowVars
<1>1. UNCHANGED <<rowVars, tx>>
    BY DEF SweepSelect, SweepRemind, SweepAnnounce, SweepReview, SweepFail
<1>2. IsPass(pass)' /\ pass'.at # "mark"
  <2>1. CASE SweepSelect
      BY <2>1 DEF SweepSelect, IsPass
  <2>2. CASE SweepRemind
    <3>1. CASE Turn.overdue
      <4>1. pass' = [pass EXCEPT !.at = "overdue"] /\ IsPass(pass) /\ pass.at = "remind"
          BY <2>2, <3>1 DEF SweepRemind, Inv, RowsOK
      <4> QED BY <4>1 DEF IsPass
    <3>2. CASE ~Turn.overdue
        BY <2>2, <3>2, NextRowPass DEF SweepRemind
    <3> QED BY <3>1, <3>2
  <2>3. CASE SweepAnnounce
    <3>1. pass' = [pass EXCEPT !.at = "review"] /\ IsPass(pass) /\ pass.at = "announce"
        BY <2>3 DEF SweepAnnounce, Inv, RowsOK
    <3> QED BY <3>1 DEF IsPass
  <2>4. CASE SweepReview
      BY <2>4, NextRowPass DEF SweepReview
  <2>5. CASE SweepFail
      BY <2>5, NoPassIsPass DEF SweepFail
  <2> QED BY <2>1, <2>2, <2>3, <2>4, <2>5
<1> QED BY <1>1, <1>2, PassStep

LEMMA AlignStep ==
    ASSUME Inv, NEW c \in Call, Align(c)
    PROVE  Inv' /\ UNCHANGED <<contract, dueAt, evidence>>
<1>1. tx[c].r \in Row
    BY DEF Align, Inv, RowsOK, TxState, Idle, CreateTx, AlignTx, MutationTx, NotifyTx, Mutation
<1>2. CASE tx[c].r \in open /\ UpdatedBy(c, tx[c].r, Idle)
    BY <1>1, <1>2, ForeignStep, IdleTx DEF Align
<1>3. CASE Proceed(c, Idle) /\ UNCHANGED <<order, pass>>
  <2>1. UNCHANGED <<rowVars, pass>>
      BY <1>3 DEF Align, rowVars
  <2> QED BY <1>3, <2>1, EndStep DEF Align
<1> QED BY <1>2, <1>3 DEF Align

LEMMA InitInv == Init => Inv
<1> SUFFICES ASSUME Init PROVE Inv
    OBVIOUS
<1>1. RowsOK
    BY IdleTx, NoPassIsPass DEF Init, RowsOK, Date
<1>2. ASSUME NEW c \in Call PROVE TxKnows(c)
    BY IdleTx DEF Init, TxKnows
<1>3. PassKnows
    BY NoPassIsPass DEF Init, PassKnows
<1>4. ColumnsAgree
    BY DEF Init, ColumnsAgree, Has
<1> QED BY <1>1, <1>2, <1>3, <1>4 DEF Inv

LEMMA StepInv == Inv /\ [Next]_vars => Inv' /\ Shape
<1> SUFFICES ASSUME Inv, [Next]_vars PROVE Inv' /\ Shape
    OBVIOUS
<1>1. ASSUME UNCHANGED rowVars PROVE Shape
    BY <1>1 DEF Shape, rowVars
<1>2. ASSUME NEW c \in Call, NotifySteward(c) \/ Abandon(c) PROVE Inv' /\ UNCHANGED rowVars
    BY <1>2, EndStep DEF NotifySteward, Abandon
<1>3. CASE Request
  <2>1. MemberCall \subseteq Call /\ StaffCall \subseteq Call
      BY DEF Call
  <2>2. ASSUME NEW c \in MemberCall, NEW r \in Row,
               \/ \E d \in Due : CreateRead(c, r, d) \/ ReportDueChangeRead(c, r, d)
               \/ \E b \in BOOLEAN, d \in NextAttempt : RecordAttemptRead(c, r, b, d)
               \/ ReportSatisfiedRead(c, r)
        PROVE  Inv' /\ UNCHANGED rowVars
      BY <2>1, <2>2, CreateReadStep, MutationReadStep
  <2>3. ASSUME NEW c \in StaffCall, NEW r \in Row,
               \/ \E d \in Due, s \in BOOLEAN : VerifyDueRead(c, r, d, s)
               \/ VerifySatisfiedRead(c, r)
        PROVE  Inv' /\ UNCHANGED rowVars
      BY <2>1, <2>3, MutationReadStep
  <2>4. ASSUME NEW c \in Call,
               CreateWrite(c) \/ Align(c) \/ Write(c) \/ NotifySteward(c) \/ Abandon(c)
        PROVE  Inv' /\ Shape
      BY <1>1, <1>2, <2>4, CreateWriteStep, AlignStep, WriteStep DEF Shape
  <2> QED BY <1>1, <1>3, <2>2, <2>3, <2>4 DEF Request
<1>4. CASE Sweep \/ SweepFail
    BY <1>1, <1>4, SweepReadStep, SweepMarkStep, SweepOnStep DEF Sweep
<1>5. ASSUME NEW r \in Row, Touch(r) \/ Close(r) PROVE Inv' /\ Shape
    BY <1>5, ForeignStep, IdleTx DEF Touch, Close, Shape
<1>6. CASE Tick \/ UNCHANGED vars
  <2>1. UNCHANGED <<rowVars, tx, pass>>
      BY <1>6 DEF Tick, vars
  <2>2. tx' \in [Call -> TxState] /\ IsPass(pass)'
      BY <2>1 DEF Inv, RowsOK
  <2>3. Inv'
      BY <2>1, <2>2, QuietStep
  <2> QED BY <1>1, <2>1, <2>3
<1> QED BY <1>3, <1>4, <1>5, <1>6 DEF Next

LEMMA Invariance == Spec => []Inv
<1>1. Inv /\ [Next]_vars => Inv'
    BY StepInv
<1> QED BY InitInv, <1>1, PTL DEF Spec

-----------------------------------------------------------------------------
(* The story of history and ledger *)

LEMMA TellsNothing == Tells(<<>>, <<>>)
<1> DEFINE of == [i \in DOMAIN <<>> |-> i]
<1>1. DOMAIN <<>> = {}
    OBVIOUS
<1>2. of \in [DOMAIN <<>> -> DOMAIN <<>>]
    BY <1>1
<1> HIDE DEF of
<1> QED BY <1>1, <1>2 DEF Tells

\* An entry that is no evidence adds nothing to the ledger; one that is adds
\* its level.
LEMMA TellsOn ==
    ASSUME NEW h \in Seq(Entry), NEW s \in Seq(Provenance), Tells(h, s),
           NEW e \in Entry, LevelTold(e) = NoLevel
    PROVE  Tells(Append(h, e), s)
<1>1. PICK of \in [DOMAIN s -> DOMAIN h] :
        /\ \A i, j \in DOMAIN s : i < j => of[i] < of[j]
        /\ \A i \in DOMAIN s : LevelTold(h[of[i]]) = s[i]
        /\ \A k \in DOMAIN h : LevelTold(h[k]) # NoLevel => \E i \in DOMAIN s : of[i] = k
    BY DEF Tells
<1>2. PICK g : g = Append(h, e)
    OBVIOUS
<1>3. /\ DOMAIN g = DOMAIN h \cup {Len(h) + 1} /\ Len(h) + 1 \notin DOMAIN h
      /\ \A k \in DOMAIN h : g[k] = h[k]
      /\ g[Len(h) + 1] = e
    BY <1>2
<1>4. of \in [DOMAIN s -> DOMAIN g]
    BY <1>3
<1>5. \A i \in DOMAIN s : LevelTold(g[of[i]]) = s[i]
    BY <1>1, <1>3
<1>6. \A k \in DOMAIN g : LevelTold(g[k]) # NoLevel => \E i \in DOMAIN s : of[i] = k
    BY <1>1, <1>3
<1>7. Tells(g, s)
    BY <1>1, <1>4, <1>5, <1>6 DEF Tells
<1> QED BY <1>2, <1>7

LEMMA TellsMore ==
    ASSUME NEW h \in Seq(Entry), NEW s \in Seq(Provenance), Tells(h, s),
           NEW e \in Entry, LevelTold(e) # NoLevel
    PROVE  Tells(Append(h, e), Append(s, LevelTold(e)))
<1>1. PICK of \in [DOMAIN s -> DOMAIN h] :
        /\ \A i, j \in DOMAIN s : i < j => of[i] < of[j]
        /\ \A i \in DOMAIN s : LevelTold(h[of[i]]) = s[i]
        /\ \A k \in DOMAIN h : LevelTold(h[k]) # NoLevel => \E i \in DOMAIN s : of[i] = k
    BY DEF Tells
<1>2. PICK l \in Provenance : l = LevelTold(e)
    BY DEF LevelTold, Provenance
<1>3. PICK g, t : g = Append(h, e) /\ t = Append(s, l)
    OBVIOUS
<1>4. /\ DOMAIN g = DOMAIN h \cup {Len(h) + 1}
      /\ \A k \in DOMAIN h : g[k] = h[k] /\ k < Len(h) + 1 /\ k \in Nat
      /\ g[Len(h) + 1] = e
    BY <1>3
<1>5. /\ DOMAIN t = DOMAIN s \cup {Len(s) + 1}
      /\ \A i \in DOMAIN s : t[i] = s[i] /\ i < Len(s) + 1 /\ i \in Nat
      /\ t[Len(s) + 1] = l
    BY <1>3
<1>6. PICK to \in [DOMAIN t -> DOMAIN g] :
        to = [i \in DOMAIN t |-> IF i = Len(s) + 1 THEN Len(h) + 1 ELSE of[i]]
    BY <1>4, <1>5
<1>7. to[Len(s) + 1] = Len(h) + 1 /\ \A i \in DOMAIN s : to[i] = of[i]
    BY <1>5, <1>6
<1>8. Len(s) \in Nat /\ Len(h) \in Nat
    OBVIOUS
<1>9. \A i, j \in DOMAIN t : i < j => to[i] < to[j]
  <2> SUFFICES ASSUME NEW i \in DOMAIN t, NEW j \in DOMAIN t, i < j PROVE to[i] < to[j]
      OBVIOUS
  <2>1. i \in DOMAIN s
      BY <1>5, <1>8
  <2>2. CASE j \in DOMAIN s
      BY <1>1, <1>7, <2>1, <2>2
  <2>3. CASE j = Len(s) + 1
      BY <1>4, <1>7, <2>1, <2>3
  <2> QED BY <1>5, <2>2, <2>3
<1>10. \A i \in DOMAIN t : LevelTold(g[to[i]]) = t[i]
    BY <1>1, <1>2, <1>4, <1>5, <1>7
<1>11. \A k \in DOMAIN g : LevelTold(g[k]) # NoLevel => \E i \in DOMAIN t : to[i] = k
    BY <1>1, <1>4, <1>5, <1>7
<1>12. Tells(g, t)
    BY <1>6, <1>9, <1>10, <1>11 DEF Tells
<1> QED BY <1>2, <1>3, <1>12

Stories ==
    \A r \in Row :
        /\ ~Has(r) => evidence[r] = <<>>
        /\ Has(r) => Tells(contract[r].history, evidence[r]) /\ MissedTold(contract[r])

LEMMA StoriesStep == Inv /\ Stories /\ [Next]_vars => Stories'
<1> SUFFICES ASSUME Inv, Stories, [Next]_vars PROVE Stories'
    OBVIOUS
<1>1. Shape
    BY StepInv
<1>2. CASE UNCHANGED <<contract, dueAt, evidence>>
    BY <1>2 DEF Stories, Has
<1>3. ASSUME NEW q \in Row, Commits(q), Adds(q) PROVE Stories'
  <2>1. \A r \in Row \ {q} : contract'[r] = contract[r] /\ evidence'[r] = evidence[r]
      BY <1>3 DEF Commits
  <2>2. PICK h, s : h = (IF Has(q) THEN contract[q].history ELSE <<>>) /\ s = evidence[q]
      OBVIOUS
  <2>3. h \in Seq(Entry) /\ s \in Seq(Provenance)
    <3>1. Has(q) => contract[q] \in Contract
        BY DEF Inv, RowsOK, Has
    <3> QED BY <2>2, <3>1 DEF Inv, RowsOK, Contract
  <2>4. Tells(h, s)
      BY <2>2, TellsNothing DEF Stories
  <2>5. PICK e \in Entry :
          /\ contract'[q].history = Append(h, e)
          /\ evidence'[q] = IF LevelTold(e) = NoLevel THEN s ELSE Append(s, LevelTold(e))
      BY <1>3, <2>2 DEF Adds
  <2>6. Tells(contract'[q].history, evidence'[q])
      BY <2>4, <2>5, <2>3, TellsOn, TellsMore
  <2>7. contract'[q] # NoContract /\ MissedTold(contract'[q])
      BY <1>3, NoContractIsNone DEF Adds
  <2> QED BY <2>1, <2>6, <2>7 DEF Stories, Has
<1> QED BY <1>1, <1>2, <1>3 DEF Shape

LEMMA StoriesHold == Spec => []Stories
<1>1. Init => Stories
    BY DEF Init, Stories, Has
<1>2. Inv /\ Stories /\ [Next]_vars => Stories'
    BY StoriesStep
<1> QED BY <1>1, <1>2, Invariance, PTL DEF Spec

-----------------------------------------------------------------------------
(* What the sweep tells *)

Reminder == [row : Row, kind : {"retry", "due"}, date : Date]
TaskState == [r : Row, retry : SUBSET Reminder, soon : SUBSET Reminder, overdue : BOOLEAN]
Rest == Seq(TaskState) \ {<<>>}
PassState ==
    {NoPass}
    \cup [at : {"remind", "overdue"}, started : Nat, rows : Rest]
    \cup [at : {"mark"}, started : Nat, rows : Rest,
          r : Row, fresh : BOOLEAN, seen : Nat, next : Contract]
    \cup [at : {"announce", "review"}, started : Nat, rows : Rest, date : Due]

\* The history of r says that the date was missed.
Marked(r, date) ==
    /\ Has(r)
    /\ \E i \in DOMAIN contract[r].history : contract[r].history[i] = MissedEntry(date)

\* What the sweep is about to announce is marked already.
PassFounded ==
    /\ pass.at = "mark" => pass.r = Turn.r
    /\ pass.at \in {"announce", "review"} => Marked(Turn.r, pass.date)

Founded(n) == n.kind = "missed" => Marked(n.row, n.date)

Bounded == now \in 0 .. MaxTime /\ disturbed \in 0 .. MaxDisturbances

ToldInv ==
    /\ Bounded
    /\ pass \in PassState
    /\ PassFounded
    /\ told \subseteq Notice
    /\ \A n \in told : Founded(n)

LEMMA MarkedStays ==
    ASSUME Inv, Shape, NEW r \in Row, NEW d, Marked(r, d)
    PROVE  Marked(r, d)'
<1>1. CASE UNCHANGED <<contract, dueAt, evidence>>
    BY <1>1 DEF Marked, Has
<1>2. ASSUME NEW q \in Row, Commits(q), Adds(q) PROVE Marked(r, d)'
  <2>1. CASE q # r
      BY <1>2, <2>1 DEF Commits, Marked, Has
  <2>2. CASE q = r
    <3>1. PICK h, e : /\ h = contract[r].history /\ e \in Entry
                      /\ contract'[r].history = Append(h, e)
        BY <1>2, <2>2 DEF Adds, Marked
    <3>2. h \in Seq(Entry)
        BY <3>1 DEF Inv, RowsOK, Marked, Has, Contract
    <3>3. PICK i \in DOMAIN h : h[i] = MissedEntry(d)
        BY <3>1 DEF Marked
    <3>4. i \in DOMAIN Append(h, e) /\ Append(h, e)[i] = h[i]
        BY <3>1, <3>2
    <3>5. contract'[r] # NoContract
        BY <1>2, <2>2, NoContractIsNone DEF Adds
    <3> QED BY <3>1, <3>3, <3>4, <3>5 DEF Marked, Has
  <2> QED BY <2>1, <2>2
<1> QED BY <1>1, <1>2 DEF Shape

LEMMA NoticeRow ==
    ASSUME NEW n \in Notice
    PROVE  n.row \in Row
BY DEF Notice

LEMMA ReminderIsNotice ==
    ASSUME NEW n \in Reminder
    PROVE  n \in Notice /\ Founded(n)
BY DEF Reminder, Notice, Founded

LEMMA ReviewIsNotice ==
    ASSUME NEW r \in Row, NEW d \in Due, NEW st \in State
    PROVE  Review(r, d, st) \in Notice /\ Founded(Review(r, d, st))
BY DEF Review, Notice, Founded

\* What is told later is told on the same grounds.
LEMMA ToldStep ==
    ASSUME Inv, Shape, ToldInv, Bounded', pass' \in PassState, PassFounded',
           NEW N, told' = told \cup N, \A n \in N : n \in Notice /\ Founded(n)
    PROVE  ToldInv'
<1>1. told' \subseteq Notice
    BY DEF ToldInv
<1>2. ASSUME NEW n \in told' PROVE Founded(n)'
  <2>1. n \in Notice /\ Founded(n)
      BY <1>2 DEF ToldInv
  <2>2. n.row \in Row
      BY <2>1, NoticeRow
  <2> QED BY <2>1, <2>2, MarkedStays DEF Founded
<1> QED BY <1>1, <1>2 DEF ToldInv

LEMMA ToldNothing ==
    ASSUME Inv, Shape, ToldInv, Bounded', pass' \in PassState, PassFounded', told' = told
    PROVE  ToldInv'
<1>1. PICK N : N = {}
    OBVIOUS
<1>2. told' = told \cup N /\ \A n \in N : n \in Notice /\ Founded(n)
    BY <1>1
<1> QED BY <1>2, ToldStep

LEMMA ToldOne ==
    ASSUME Inv, Shape, ToldInv, Bounded', pass' \in PassState, PassFounded',
           NEW x \in Notice, Founded(x), told' = told \cup {x}
    PROVE  ToldInv'
<1>1. PICK N : N = {x}
    OBVIOUS
<1>2. told' = told \cup N /\ \A n \in N : n \in Notice /\ Founded(n)
    BY <1>1
<1> QED BY <1>2, ToldStep

LEMMA OutdatedPassState ==
    ASSUME NEW p \in PassState, NEW q
    PROVE  /\ Outdated(p, q) \in PassState /\ Outdated(p, q).at = p.at
           /\ p.at \in {"announce", "review"} => Outdated(p, q) = p
           /\ p.at = "mark" => Outdated(p, q).r = p.r /\ Outdated(p, q).rows = p.rows
<1>1. CASE "fresh" \notin DOMAIN p
  <2>1. p.at # "mark"
      BY <1>1 DEF PassState, NoPass
  <2> QED BY <1>1, <2>1 DEF Outdated
<1>2. CASE p \in [at : {"mark"}, started : Nat, rows : Rest,
                   r : Row, fresh : BOOLEAN, seen : Nat, next : Contract]
    BY <1>2 DEF Outdated, PassState
<1> QED BY <1>1, <1>2 DEF PassState, NoPass

LEMMA TailOf ==
    ASSUME NEW S, NEW s \in Seq(S), s # <<>>, Len(s) # 1
    PROVE  Tail(s) \in Seq(S) /\ Tail(s) # <<>>
<1>1. Len(s) \in Nat /\ Len(s) # 0
    OBVIOUS
<1>2. Tail(s) \in Seq(S) /\ Len(Tail(s)) = Len(s) - 1
    BY <1>1
<1>3. Len(Tail(s)) # 0
    BY <1>1, <1>2
<1> QED BY <1>2, <1>3

\* The turn of a pass under way, and where the next row leaves it.
LEMMA TurnOf ==
    ASSUME NEW p \in PassState, p.at # "idle"
    PROVE  /\ p.rows \in Rest /\ p.rows[1] \in TaskState /\ p.started \in Nat
           /\ NextRow(p) \in PassState /\ NextRow(p).at \notin {"mark", "announce", "review"}
<1>1. p.rows \in Rest /\ p.started \in Nat
    BY DEF PassState, NoPass
<1>2. PICK s : s = p.rows
    OBVIOUS
<1>3. s \in Seq(TaskState) /\ s # <<>>
    BY <1>1, <1>2 DEF Rest
<1>4. s[1] \in TaskState
    BY <1>3
<1>5. Len(s) # 1 => Tail(s) \in Seq(TaskState) /\ Tail(s) # <<>>
    BY <1>3, TailOf
<1>6. NextRow(p) \in PassState /\ NextRow(p).at \notin {"mark", "announce", "review"}
  <2>1. CASE Len(s) = 1
      BY <1>2, <2>1 DEF NextRow, PassState, NoPass
  <2>2. CASE Len(s) # 1
    <3>1. Tail(s) \in Rest
        BY <1>5, <2>2 DEF Rest
    <3> QED BY <1>1, <1>2, <2>2, <3>1 DEF NextRow, PassState
  <2> QED BY <2>1, <2>2
<1> QED BY <1>1, <1>2, <1>4, <1>6

\* Steps that leave the sweep where it is.
LEMMA PassStays ==
    ASSUME Inv, Shape, ToldInv, pass' = pass \/ \E q : pass' = Outdated(pass, q)
    PROVE  pass' \in PassState /\ PassFounded'
<1>1. pass' \in PassState /\ pass'.at = pass.at
    BY OutdatedPassState DEF ToldInv
<1>2. CASE pass.at = "mark"
  <2>1. pass'.r = pass.r /\ pass'.rows = pass.rows
      BY <1>2, OutdatedPassState DEF ToldInv
  <2> QED BY <1>1, <1>2, <2>1 DEF PassFounded, Turn, ToldInv
<1>3. CASE pass.at \in {"announce", "review"}
  <2>1. pass' = pass
      BY <1>3, OutdatedPassState DEF ToldInv
  <2>2. PICK r, d : r = Turn.r /\ d = pass.date
      OBVIOUS
  <2>3. r \in Row
    <3>1. Turn \in TaskState
        BY <1>3, TurnOf DEF ToldInv, Turn
    <3> QED BY <2>2, <3>1 DEF TaskState
  <2>4. Marked(r, d)'
      BY <1>3, <2>2, <2>3, MarkedStays DEF ToldInv, PassFounded
  <2> QED BY <1>1, <1>3, <2>1, <2>2, <2>4 DEF PassFounded, Turn
<1>4. CASE pass.at \notin {"mark", "announce", "review"}
    BY <1>1, <1>4 DEF PassFounded
<1> QED BY <1>2, <1>3, <1>4

LEMMA TaskIsTask ==
    ASSUME Inv, NEW r \in Row
    PROVE  Task(r) \in TaskState
<1>1. CASE Unsatisfied(contract[r])
  <2>1. PICK k \in Contract : k = contract[r]
      BY <1>1 DEF Unsatisfied, Inv, RowsOK
  <2>2. RetryDue(r, k) \in SUBSET Reminder
    <3>1. k.nextAttempt \in Date
        BY DEF Contract
    <3> QED BY <3>1 DEF RetryDue, Reminder
  <2>3. DueSoon(r, k) \in SUBSET Reminder
    <3>1. k.due \in Date
        BY DEF Contract, Date
    <3> QED BY <3>1 DEF DueSoon, Reminder
  <2> QED BY <1>1, <2>1, <2>2, <2>3 DEF Task, TaskState
<1>2. CASE ~Unsatisfied(contract[r])
    BY <1>2 DEF Task, TaskState
<1> QED BY <1>1, <1>2

LEMMA ToldSelect ==
    ASSUME Inv, Shape, ToldInv, SweepSelect
    PROVE  ToldInv'
<1>1. PICK n \in 1 .. Batch : \E rows \in [1 .. n -> open] :
        pass' = [at |-> "remind", started |-> now, rows |-> [i \in 1 .. n |-> Task(rows[i])]]
    BY DEF SweepSelect
<1>2. PICK rows \in [1 .. n -> open] :
        pass' = [at |-> "remind", started |-> now, rows |-> [i \in 1 .. n |-> Task(rows[i])]]
    BY <1>1
<1>3. PICK s : s = [i \in 1 .. n |-> Task(rows[i])]
    OBVIOUS
<1>4. n \in Nat /\ n # 0 /\ now \in Nat
    BY BoundAssumption DEF ToldInv, Bounded
<1>5. s \in Seq(TaskState) /\ s # <<>>
  <2>1. \A i \in 1 .. n : Task(rows[i]) \in TaskState
      BY TaskIsTask DEF Inv, RowsOK
  <2>2. s \in [1 .. n -> TaskState]
      BY <1>3, <2>1
  <2>3. Len(s) = n /\ s \in Seq(TaskState)
      BY <1>4, <2>2
  <2> QED BY <1>4, <2>3
<1>6. pass' \in PassState /\ PassFounded'
    BY <1>2, <1>3, <1>4, <1>5 DEF PassState, Rest, PassFounded
<1>7. Bounded' /\ told' = told
    BY DEF SweepSelect, ToldInv, Bounded
<1> QED BY <1>6, <1>7, ToldNothing

LEMMA ToldRemind ==
    ASSUME Inv, Shape, ToldInv, SweepRemind
    PROVE  ToldInv'
<1>1. pass \in PassState /\ pass.at = "remind"
    BY DEF SweepRemind, ToldInv
<1>2. /\ pass.rows \in Rest /\ Turn \in TaskState /\ pass.started \in Nat
      /\ NextRow(pass) \in PassState /\ NextRow(pass).at \notin {"mark", "announce", "review"}
    BY <1>1, TurnOf DEF Turn
<1>3. pass' \in PassState /\ pass'.at \notin {"mark", "announce", "review"}
  <2>1. CASE Turn.overdue
    <3>1. pass' = [pass EXCEPT !.at = "overdue"]
        BY <2>1 DEF SweepRemind
    <3>2. pass \in [at : {"remind", "overdue"}, started : Nat, rows : Rest]
        BY <1>1 DEF PassState, NoPass
    <3> QED BY <3>1, <3>2 DEF PassState
  <2>2. CASE ~Turn.overdue
      BY <1>2, <2>2 DEF SweepRemind
  <2> QED BY <2>1, <2>2
<1>4. PassFounded'
    BY <1>3 DEF PassFounded
<1>5. PICK N : N = Turn.retry \cup Turn.soon
    OBVIOUS
<1>6. Bounded' /\ told' = told \cup N
    BY <1>5 DEF SweepRemind, ToldInv, Bounded
<1>7. \A m \in N : m \in Notice /\ Founded(m)
    BY <1>2, <1>5, ReminderIsNotice DEF TaskState
<1> QED BY <1>3, <1>4, <1>6, <1>7, ToldStep

LEMMA ToldRead ==
    ASSUME Inv, Shape, Stories, ToldInv, SweepRead
    PROVE  ToldInv'
<1>1. pass \in PassState /\ pass.at = "overdue"
    BY DEF SweepRead, ToldInv
<1>2. /\ pass.rows \in Rest /\ Turn \in TaskState /\ pass.started \in Nat
      /\ NextRow(pass) \in PassState /\ NextRow(pass).at \notin {"mark", "announce", "review"}
    BY <1>1, TurnOf DEF Turn
<1>3. PICK r \in Row : r = Turn.r
    BY <1>2 DEF TaskState
<1>4. PICK k, n : k = contract[r] /\ n = Missed(k, pass.started)
    OBVIOUS
<1>5. Bounded' /\ told' = told /\ contract' = contract
    BY DEF SweepRead, ToldInv, Bounded, rowVars
<1>6. CASE /\ Held(r) /\ n # k
           /\ pass' = [at |-> "mark", started |-> pass.started, rows |-> pass.rows,
                       r |-> r, fresh |-> TRUE, seen |-> k.revision, next |-> n]
  <2>1. k \in Contract /\ n \in Contract /\ k.revision \in Nat
    <3>1. k \in Contract
        BY <1>4, <1>6 DEF Held, Has, Inv, RowsOK
    <3>2. Lawful("sweep", k, n, NoDate)
        BY <1>4, <1>6, <3>1, MissIsLawful
    <3> QED BY <3>1, <3>2 DEF Lawful, Contract
  <2>2. pass' \in PassState
      BY <1>2, <1>6, <2>1 DEF PassState
  <2>3. PassFounded'
      BY <1>3, <1>6 DEF PassFounded, Turn
  <2> QED BY <1>5, <2>2, <2>3, ToldNothing
<1>7. CASE /\ Held(r) /\ k.state = "MISSED"
           /\ pass' = [at |-> "announce", started |-> pass.started,
                       rows |-> pass.rows, date |-> k.due]
  <2>1. k \in Contract /\ MissedTold(k) /\ Has(r)
      BY <1>4, <1>7 DEF Held, Has, Inv, RowsOK, Stories
  <2>2. PICK d \in Due : d = k.due
      BY <2>1 DEF Contract
  <2>3. Marked(r, d)
      BY <1>4, <1>7, <2>1, <2>2 DEF MissedTold, Marked
  <2>4. Marked(r, d)'
      BY <2>3, MarkedStays
  <2>5. pass' \in PassState
      BY <1>2, <1>7, <2>2 DEF PassState
  <2>6. PassFounded'
      BY <1>3, <1>7, <2>2, <2>4 DEF PassFounded, Turn
  <2> QED BY <1>5, <2>5, <2>6, ToldNothing
<1>8. CASE pass' = NextRow(pass) \/ pass' = NoPass
  <2>1. pass' \in PassState /\ pass'.at \notin {"mark", "announce", "review"}
      BY <1>2, <1>8 DEF PassState, NoPass
  <2>2. PassFounded'
      BY <2>1 DEF PassFounded
  <2> QED BY <1>5, <2>1, <2>2, ToldNothing
<1> QED BY <1>3, <1>4, <1>6, <1>7, <1>8 DEF SweepRead

LEMMA ToldMark ==
    ASSUME Inv, Shape, ToldInv, SweepMark
    PROVE  ToldInv'
<1>1. /\ pass \in [at : {"mark"}, started : Nat, rows : Rest,
                   r : Row, fresh : BOOLEAN, seen : Nat, next : Contract]
      /\ pass.at = "mark" /\ pass.r = Turn.r
    BY DEF SweepMark, ToldInv, PassFounded, PassState, NoPass
<1>2. NextRow(pass) \in PassState /\ NextRow(pass).at \notin {"mark", "announce", "review"}
    BY <1>1, TurnOf DEF PassState
<1>3. PICK r \in Row : r = pass.r
    BY <1>1
<1>4. Bounded' /\ told' = told
    BY DEF SweepMark, ToldInv, Bounded
<1>5. CASE ~UnchangedSince(pass, r)
  <2>1. pass' = NextRow(pass)
      BY <1>3, <1>5 DEF SweepMark
  <2>2. PassFounded'
      BY <1>2, <2>1 DEF PassFounded
  <2> QED BY <1>2, <1>4, <2>1, <2>2, ToldNothing
<1>6. CASE UnchangedSince(pass, r)
  <2>1. PICK n \in Contract : n = pass.next
      BY <1>1
  <2>2. /\ contract' = [contract EXCEPT ![r] = [n EXCEPT !.revision = pass.seen + 1]]
        /\ pass' = [at |-> "announce", started |-> pass.started,
                    rows |-> pass.rows, date |-> n.due]
      BY <1>3, <1>6, <2>1 DEF SweepMark
  <2>3. n.state = "MISSED" /\ MissedTold(n)
    <3>1. Lawful("sweep", contract[r], n, NoDate)
        BY <1>1, <1>3, <1>6, <2>1 DEF UnchangedSince, Inv, PassKnows
    <3> QED BY <3>1 DEF Lawful
  <2>4. PICK d \in Due : d = n.due
      BY DEF Contract
  <2>5. Marked(r, d)'
    <3>1. /\ contract'[r] = [n EXCEPT !.revision = pass.seen + 1]
          /\ contract'[r].history = n.history /\ contract'[r].state = n.state
        BY <2>2 DEF Inv, RowsOK, Contract
    <3>2. contract'[r] # NoContract
        BY <2>3, <3>1 DEF NoContract
    <3> QED BY <2>3, <2>4, <3>1, <3>2 DEF Marked, Has, MissedTold
  <2>6. pass' \in PassState
      BY <1>1, <2>2, <2>4 DEF PassState
  <2>7. PassFounded'
      BY <1>1, <1>3, <2>2, <2>4, <2>5 DEF PassFounded, Turn
  <2> QED BY <1>4, <2>6, <2>7, ToldNothing
<1> QED BY <1>5, <1>6

LEMMA ToldAnnounce ==
    ASSUME Inv, Shape, ToldInv, SweepAnnounce \/ SweepReview
    PROVE  ToldInv'
<1>1. /\ pass \in [at : {"announce", "review"}, started : Nat, rows : Rest, date : Due]
      /\ pass \in PassState /\ pass.at # "idle" /\ Marked(Turn.r, pass.date)
    BY DEF SweepAnnounce, SweepReview, ToldInv, PassFounded, PassState, NoPass
<1>2. /\ Turn \in TaskState
      /\ NextRow(pass) \in PassState /\ NextRow(pass).at \notin {"mark", "announce", "review"}
    BY <1>1, TurnOf DEF Turn
<1>3. PICK r \in Row, d \in Due : r = Turn.r /\ d = pass.date
    BY <1>1, <1>2 DEF TaskState
<1>4. Bounded'
    BY DEF SweepAnnounce, SweepReview, ToldInv, Bounded
<1>5. CASE SweepAnnounce
  <2>1. pass' = [pass EXCEPT !.at = "review"] /\ told' = told \cup {MissedNotice(r, d)}
      BY <1>3, <1>5 DEF SweepAnnounce
  <2>2. /\ pass' \in PassState
        /\ pass'.at = "review" /\ pass'.rows = pass.rows /\ pass'.date = d
      BY <1>1, <1>3, <2>1 DEF PassState
  <2>3. Marked(r, d)'
      BY <1>1, <1>3, MarkedStays
  <2>4. PassFounded'
      BY <1>3, <2>2, <2>3 DEF PassFounded, Turn
  <2>5. MissedNotice(r, d) \in Notice /\ Founded(MissedNotice(r, d))
      BY <1>1, <1>3 DEF MissedNotice, Notice, Founded, Date
  <2> QED BY <1>4, <2>1, <2>2, <2>4, <2>5, ToldOne
<1>6. CASE SweepReview
  <2>1. /\ pass' = NextRow(pass)
        /\ told' = told \cup {Review(r, d, "MISSED")} \/ told' = told
      BY <1>3, <1>6 DEF SweepReview
  <2>2. PassFounded'
      BY <1>2, <2>1 DEF PassFounded
  <2>3. Review(r, d, "MISSED") \in Notice /\ Founded(Review(r, d, "MISSED"))
      BY ReviewIsNotice DEF State
  <2> QED BY <1>2, <1>4, <2>1, <2>2, <2>3, ToldOne, ToldNothing
<1> QED BY <1>5, <1>6

LEMMA ToldFail ==
    ASSUME Inv, Shape, ToldInv, SweepFail
    PROVE  ToldInv'
<1>1. pass' = NoPass
    BY DEF SweepFail
<1>2. pass' \in PassState /\ PassFounded'
    BY <1>1 DEF PassState, PassFounded, NoPass
<1>3. Bounded'
    BY BoundAssumption DEF SweepFail, ToldInv, Bounded
<1>4. CASE told' = told
    BY <1>2, <1>3, <1>4, ToldNothing
<1>5. CASE pass.at = "remind" /\ told' = told \cup Turn.retry
  <2>1. Turn \in TaskState
      BY <1>5, TurnOf DEF ToldInv, Turn
  <2>2. PICK N : N = Turn.retry
      OBVIOUS
  <2>3. \A m \in N : m \in Notice /\ Founded(m)
      BY <2>1, <2>2, ReminderIsNotice DEF TaskState
  <2>4. told' = told \cup N
      BY <1>5, <2>2
  <2> QED BY <1>2, <1>3, <2>3, <2>4, ToldStep
<1> QED BY <1>4, <1>5 DEF SweepFail

\* A request leaves the clock alone, the pass but for the rows it outdates, and
\* what is told but for the steward of a disputed date.
LEMMA RequestElsewhere ==
    ASSUME Request
    PROVE  /\ UNCHANGED <<now, disturbed>>
           /\ pass' = pass \/ \E q : pass' = Outdated(pass, q)
           /\ told' = told \/ \E c \in Call : NotifySteward(c)
<1> DEFINE Elsewhere == /\ UNCHANGED <<now, disturbed>>
                        /\ pass' = pass \/ \E q : pass' = Outdated(pass, q)
                        /\ told' = told \/ \E c \in Call : NotifySteward(c)
<1>1. ASSUME NEW c, NEW r, NEW op, NEW next, NEW date, NEW level,
             Read(c, r, op, next, date, level)
      PROVE  Elsewhere
    BY <1>1 DEF Read
<1>2. ASSUME NEW c, NEW r, NEW date, CreateRead(c, r, date) PROVE Elsewhere
    BY <1>2 DEF CreateRead
<1>3. ASSUME NEW c, CreateWrite(c) PROVE Elsewhere
    BY <1>3 DEF CreateWrite, UpdatedBy
<1>4. ASSUME NEW c, Align(c) PROVE Elsewhere
    BY <1>4 DEF Align, UpdatedBy
<1>5. ASSUME NEW c, Write(c) PROVE Elsewhere
    BY <1>5 DEF Write, UpdatedBy
<1>6. ASSUME NEW c \in Call, NotifySteward(c) \/ Abandon(c) PROVE Elsewhere
  <2>1. UNCHANGED <<now, pass, disturbed>>
      BY <1>6 DEF NotifySteward, Abandon
  <2>2. told' = told \/ NotifySteward(c)
      BY <1>6 DEF Abandon
  <2> QED BY <2>1, <2>2
<1>7. ASSUME NEW c \in Call,
             CreateWrite(c) \/ Align(c) \/ Write(c) \/ NotifySteward(c) \/ Abandon(c)
      PROVE  Elsewhere
    BY <1>3, <1>4, <1>5, <1>6, <1>7
<1>8. ASSUME NEW c, NEW r, NEW date, ReportDueChangeRead(c, r, date) PROVE Elsewhere
    BY <1>1, <1>8 DEF ReportDueChangeRead
<1>9. ASSUME NEW c, NEW r, NEW blocked, NEW next, RecordAttemptRead(c, r, blocked, next)
      PROVE  Elsewhere
    BY <1>1, <1>9 DEF RecordAttemptRead
<1>10. ASSUME NEW c, NEW r, NEW date, NEW sameSource, VerifyDueRead(c, r, date, sameSource)
       PROVE  Elsewhere
    BY <1>1, <1>10 DEF VerifyDueRead
<1>11. ASSUME NEW c, NEW r, ReportSatisfiedRead(c, r) \/ VerifySatisfiedRead(c, r)
       PROVE  Elsewhere
    BY <1>1, <1>11 DEF ReportSatisfiedRead, VerifySatisfiedRead
<1> HIDE DEF Elsewhere
<1>12. ASSUME NEW c \in MemberCall, NEW r \in Row,
              \/ \E date \in Due : CreateRead(c, r, date) \/ ReportDueChangeRead(c, r, date)
              \/ \E blocked \in BOOLEAN, next \in NextAttempt :
                    RecordAttemptRead(c, r, blocked, next)
              \/ ReportSatisfiedRead(c, r)
       PROVE  Elsewhere
    BY <1>2, <1>8, <1>9, <1>11, <1>12
<1>13. ASSUME NEW c \in StaffCall, NEW r \in Row,
              \/ \E date \in Due, sameSource \in BOOLEAN : VerifyDueRead(c, r, date, sameSource)
              \/ VerifySatisfiedRead(c, r)
       PROVE  Elsewhere
    BY <1>10, <1>11, <1>13
<1>14. Elsewhere
    BY <1>7, <1>12, <1>13 DEF Request
<1> QED BY <1>14 DEF Elsewhere

\* A step of a request, or of the rest of the platform.
LEMMA ToldElsewhere ==
    ASSUME Inv, Shape, ToldInv,
           \/ Request \/ Tick \/ UNCHANGED vars
           \/ \E r \in Row : Touch(r) \/ Close(r)
    PROVE  ToldInv'
<1>1. pass' = pass \/ \E q : pass' = Outdated(pass, q)
    BY RequestElsewhere DEF UpdatedBy, Touch, Close, Tick, vars
<1>2. Bounded'
  <2>1. CASE Tick
      BY <2>1, BoundAssumption DEF Tick, ToldInv, Bounded
  <2>2. ASSUME NEW r \in Row, Touch(r) PROVE Bounded'
      BY <2>2, BoundAssumption DEF Touch, ToldInv, Bounded
  <2>3. CASE UNCHANGED <<now, disturbed>>
      BY <2>3 DEF ToldInv, Bounded
  <2>4. Tick \/ (\E r \in Row : Touch(r)) \/ UNCHANGED <<now, disturbed>>
      BY RequestElsewhere DEF Close, vars
  <2> QED BY <2>1, <2>2, <2>3, <2>4
<1>3. pass' \in PassState /\ PassFounded'
    BY <1>1, PassStays
<1>4. CASE told' = told
    BY <1>2, <1>3, <1>4, ToldNothing
<1>5. ASSUME NEW c \in Call, NotifySteward(c) PROVE ToldInv'
  <2>1. PICK r \in Row, d \in Due : r = tx[c].r /\ d = tx[c].date
    <3>1. tx[c] \in TxState /\ tx[c].op = "notifySteward"
        BY <1>5 DEF NotifySteward, Inv, RowsOK
    <3>2. tx[c] \in NotifyTx
        BY <3>1 DEF TxState, Idle, CreateTx, AlignTx, MutationTx, Mutation
    <3> QED BY <3>2 DEF NotifyTx
  <2>2. told' = told \cup {Review(r, d, "DISPUTED")} \/ told' = told
      BY <1>5, <2>1 DEF NotifySteward
  <2>3. Review(r, d, "DISPUTED") \in Notice /\ Founded(Review(r, d, "DISPUTED"))
      BY ReviewIsNotice DEF State
  <2> QED BY <1>2, <1>3, <2>2, <2>3, ToldOne, ToldNothing
<1>6. told' = told \/ \E c \in Call : NotifySteward(c)
    BY RequestElsewhere DEF Touch, Close, Tick, vars
<1> QED BY <1>4, <1>5, <1>6

LEMMA ToldInit == Init => ToldInv
BY BoundAssumption DEF Init, ToldInv, Bounded, PassState, PassFounded, NoPass

LEMMA ToldHolds == Spec => []ToldInv
<1>1. Inv /\ Stories /\ ToldInv /\ [Next]_vars => ToldInv'
  <2> SUFFICES ASSUME Inv, Stories, ToldInv, [Next]_vars PROVE ToldInv'
      OBVIOUS
  <2>1. Shape
      BY StepInv
  <2>2. CASE Sweep \/ SweepFail
      BY <2>1, <2>2, ToldSelect, ToldRemind, ToldRead, ToldMark, ToldAnnounce, ToldFail
         DEF Sweep
  <2>3. CASE Request \/ Tick \/ UNCHANGED vars \/ \E r \in Row : Touch(r) \/ Close(r)
      BY <2>1, <2>3, ToldElsewhere
  <2> QED BY <2>2, <2>3 DEF Next
<1> QED BY ToldInit, <1>1, Invariance, StoriesHold, PTL DEF Spec

-----------------------------------------------------------------------------
(* The theorems *)

\* The contract of a responsibility that has ended is final: a request or a
\* sweep that read it open comes too late.
THEOREM Finality == Spec => EndedIsFinal
<1>1. Inv /\ [Next]_vars =>
        [\A r \in Row \ open :
            contract'[r] = contract[r] /\ dueAt'[r] = dueAt[r] /\ evidence'[r] = evidence[r]]_vars
    BY StepInv DEF Shape, Commits
<1> QED BY <1>1, Invariance, PTL DEF Spec, EndedIsFinal

\* A verified date is only replaced by another verification, and what is
\* satisfied stays so unless a verified date is disputed.
THEOREM VerificationStands == Spec => VerifiedTruthStands
<1>1. ASSUME Inv, [Next]_vars, NEW r \in Row, Has(r)
      PROVE  /\ contract[r].provenance = "VERIFIED" /\ contract'[r].due # contract[r].due
                => \E c \in Call : tx[c].op = "verifyDue" /\ tx[c].r = r /\ tx'[c] = Idle
             /\ contract[r].state \in SATISFIED_STATES
                /\ contract'[r].state \notin SATISFIED_STATES
                => contract'[r].state = "DISPUTED" /\ contract[r].provenance = "VERIFIED"
    BY <1>1, StepInv DEF Shape, Commits
<1>2. Inv /\ [Next]_vars =>
        [\A r \in Row : Has(r) =>
          /\ contract[r].provenance = "VERIFIED" /\ contract'[r].due # contract[r].due
             => \E c \in Call : tx[c].op = "verifyDue" /\ tx[c].r = r /\ tx'[c] = Idle
          /\ contract[r].state \in SATISFIED_STATES
             /\ contract'[r].state \notin SATISFIED_STATES
             => contract'[r].state = "DISPUTED" /\ contract[r].provenance = "VERIFIED"]_vars
    BY <1>1
<1> QED BY <1>2, Invariance, PTL DEF Spec, VerifiedTruthStands

\* Contract, history, dueAt column and the shared ledger tell one story, for
\* any number of overlapping requests and sweeps.
THEOREM StoryIsOne == Spec => []OneStory
<1>1. Inv /\ Stories => OneStory
    BY DEF Inv, Stories, OneStory
<1> QED BY <1>1, Invariance, StoriesHold, PTL

\* Rows, notifications and transactions keep their shape.
THEOREM TypeCorrect == Spec => []TypeOK
<1>1. Inv /\ ToldInv => TypeOK
    BY DEF Inv, RowsOK, ToldInv, Bounded, TypeOK
<1> QED BY <1>1, Invariance, ToldHolds, PTL

\* Nobody is told that a date was missed unless the contract says so, also
\* when it was satisfied or rescheduled after the sweep selected it.
THEOREM NoticesAreFounded == Spec => []NoticeIsFounded
<1>1. ToldInv => NoticeIsFounded
    BY DEF ToldInv, Founded, Marked, NoticeIsFounded
<1> QED BY <1>1, ToldHolds, PTL

===============================================================================
