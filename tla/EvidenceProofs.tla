------------------------------ MODULE EvidenceProofs -----------------------------
(***************************************************************************)
(* What EvidenceService keeps true of the items of a requirement and of    *)
(* the sufficiency it keeps with them, for any number of requests,         *)
(* requirements, items and verdicts.                                       *)
(***************************************************************************)
EXTENDS Evidence, TLAPS

Waivers == {"WAIVER_REQUESTED", "WAIVED"}

CallState ==
    {Idle}
    \cup [at : {"create"}]
    \cup [at : {"waive"}, q : Requirement, target : Waivers]
    \cup [at : {"submit"}, by : Person, q : Requirement, document : BOOLEAN, until : Validity,
          previous : Nat]
    \cup [at : {"verify"}, q : Requirement, i : Nat, verdict : Verification]

CallOK == call \in [Call -> CallState]

\* The last item is the current one, and there is no other.
LastIsCurrent(items) == CurrentOf(items) = IF items = <<>> THEN {} ELSE {Len(items)}

\* A verdict is somebody else's than the provider's, and a steward's is of a
\* document and not the Subject's.
Independently(verdict, item) ==
    /\ verdict.by # item.by
    /\ verdict.method = "HUMAN_STEWARD_REVIEW" => item.document /\ verdict.by # Subject

Independent(item) ==
    \A k \in DOMAIN item.verdicts : Independently(item.verdicts[k], item)

HasExpired(item) == item.until # Never /\ item.until < now

\* What the last item, if there is one, is worth.
Worth(items) ==
    IF items = <<>> THEN "MISSING"
    ELSE LET item == items[Len(items)]  n == Len(item.verdicts)
         IN IF n = 0 THEN "PRESENT_UNVERIFIED"
            ELSE IF item.verdicts[n].result = "VERIFIED" /\ ~HasExpired(item) THEN "ADEQUATE"
            ELSE "INSUFFICIENT"

\* The sufficiency is the last item's worth, or was before the item expired.
WorthKept(r) ==
    \/ r.sufficiency = Worth(r.items)
    \/ /\ r.sufficiency = "ADEQUATE" /\ r.items # <<>>
       /\ HasExpired(r.items[Len(r.items)])
       /\ LET verdicts == r.items[Len(r.items)].verdicts
          IN verdicts # <<>> /\ verdicts[Len(verdicts)].result = "VERIFIED"

Sound(r) ==
    /\ r \in EvidenceRequirement
    /\ LastIsCurrent(r.items)
    /\ \A i \in DOMAIN r.items : Independent(r.items[i])
    /\ WorthKept(r)

\* What a request has read stays: rows and items remain, with their providers.
Knows(s) ==
    /\ s.at \in {"waive", "submit", "verify"} => s.q \in Opened
    /\ s.at = "submit" /\ s.previous # NoItem =>
          s.previous \in DOMAIN requirement[s.q].items
    /\ s.at = "verify" =>
          /\ s.i \in DOMAIN requirement[s.q].items
          /\ Independently(s.verdict, requirement[s.q].items[s.i])

Inv ==
    /\ TypeOK /\ CallOK
    /\ \A q \in Opened : Sound(requirement[q])
    /\ \A c \in Call : Knows(call[c])

-----------------------------------------------------------------------------
(* Items *)

LEMMA NoRequirementIsNone == NoRequirement \notin EvidenceRequirement
BY DEF NoRequirement, EvidenceRequirement, RequirementStatus

\* Of items of which only the last is current, the last one counts.
LEMMA LastCounts ==
    ASSUME NEW items \in Seq(Item), LastIsCurrent(items)
    PROVE  SufficiencyOf(items) = Worth(items)
<1>1. CASE items = <<>>
    BY <1>1 DEF SufficiencyOf, Worth, LastIsCurrent
<1>2. CASE items # <<>>
  <2>1. CurrentOf(items) = {Len(items)} /\ Len(items) \in DOMAIN items /\ Len(items) \in Nat
      BY <1>2 DEF LastIsCurrent
  <2>2. (CHOOSE i \in CurrentOf(items) : \A j \in CurrentOf(items) : i <= j) = Len(items)
      BY <2>1
  <2> DEFINE item == items[Len(items)]
             n == Len(item.verdicts)
  <2>3. item.verdicts \in Seq(Verification) /\ n \in Nat
    <3>1. items[Len(items)] \in Item
        BY <2>1
    <3> QED BY <3>1 DEF Item
  <2>4. SufficiencyOf(items) =
            CASE n = 0 -> "PRESENT_UNVERIFIED"
              [] n > 0 /\ item.verdicts[n].result # "VERIFIED" -> "INSUFFICIENT"
              [] n > 0 /\ item.verdicts[n].result = "VERIFIED" ->
                    IF item.until # Never /\ item.until < now THEN "INSUFFICIENT" ELSE "ADEQUATE"
      BY <2>1, <2>2 DEF SufficiencyOf
  <2>5. Worth(items) =
            IF n = 0 THEN "PRESENT_UNVERIFIED"
            ELSE IF item.verdicts[n].result = "VERIFIED" /\ ~HasExpired(item) THEN "ADEQUATE"
            ELSE "INSUFFICIENT"
      BY <1>2 DEF Worth
  <2> HIDE DEF item, n
  <2>6. n = 0 \/ n > 0
      BY <2>3
  <2> QED BY <2>3, <2>4, <2>5, <2>6 DEF HasExpired
<1> QED BY <1>1, <1>2

\* Recomputing keeps a requirement sound if its items are.
LEMMA RecomputedSound ==
    ASSUME NEW r \in EvidenceRequirement, NEW items \in Seq(Item), LastIsCurrent(items),
           \A i \in DOMAIN items : Independent(items[i])
    PROVE  Sound(Recomputed(r, items))
<1>1. SufficiencyOf(items) = Worth(items)
    BY LastCounts
<1>2. Worth(items) \in Sufficiency
    BY DEF Worth, Sufficiency
<1>3. /\ Recomputed(r, items) \in EvidenceRequirement
      /\ Recomputed(r, items).items = items
      /\ Recomputed(r, items).sufficiency = Worth(items)
    BY <1>1, <1>2 DEF Recomputed, EvidenceRequirement
<1> QED BY <1>3 DEF Sound, WorthKept

-----------------------------------------------------------------------------
(* Steps *)

LEMMA InitInv == Init => Inv
<1> SUFFICES ASSUME Init PROVE Inv
    OBVIOUS
<1>1. TypeOK
    BY BoundAssumption DEF Init, TypeOK
<1>2. CallOK
    BY DEF Init, CallOK, CallState
<1>3. Opened = {}
    BY DEF Init, Opened
<1>4. \A c \in Call : Knows(call[c])
    BY DEF Init, Knows, Idle
<1> QED BY <1>1, <1>2, <1>3, <1>4 DEF Inv

\* A request goes on to what it knows; nothing else changes.
LEMMA QuietStep ==
    ASSUME Inv, NEW c \in Call, NEW s \in CallState, Knows(s), Proceed(c, s),
           UNCHANGED <<open, requirement, ledger, now>>
    PROVE  Inv'
<1>1. /\ call' \in [Call -> CallState]
      /\ call'[c] = s
      /\ \A d \in Call : d # c => call'[d] = call[d]
    BY DEF Inv, CallOK, Proceed
<1>2. TypeOK' /\ CallOK'
    BY <1>1 DEF Inv, TypeOK, CallOK
<1>3. Opened' = Opened
    BY DEF Opened
<1>4. \A q \in Opened' : Sound(requirement[q])'
    BY <1>3 DEF Inv, Sound, LastIsCurrent, CurrentOf, WorthKept, Worth, HasExpired, Independent
<1>5. ASSUME NEW d \in Call PROVE Knows(call[d])'
  <2>1. Knows(call'[d])
      BY <1>1 DEF Inv
  <2> QED BY <1>3, <2>1 DEF Knows
<1> QED BY <1>2, <1>4, <1>5 DEF Inv

LEMMA AbandonInv ==
    ASSUME Inv, NEW c \in Call, Proceed(c, Idle),
           UNCHANGED <<open, requirement, ledger, now>>
    PROVE  Inv'
<1>1. Idle \in CallState /\ Knows(Idle)
    BY DEF CallState, Knows, Idle
<1> QED BY <1>1, QuietStep

LEMMA RequestInv ==
    ASSUME Inv, NEW c \in Call, Request(c)
    PROVE  Inv'
<1>1. ASSUME NEW u \in Person, CreateBegin(c, u) PROVE Inv'
  <2> DEFINE s == [at |-> "create"]
  <2>1. s \in CallState /\ Knows(s)
      BY DEF CallState, Knows
  <2> QED BY <1>1, <2>1, QuietStep DEF CreateBegin, Begin
<1>2. ASSUME NEW u \in Person, NEW q \in Requirement, NEW target \in RequirementStatus,
             WaiveBegin(c, u, q, target)
      PROVE  Inv'
  <2> DEFINE s == [at |-> "waive", q |-> q, target |-> target]
  <2>1. s \in CallState /\ Knows(s)
      BY <1>2 DEF CallState, Knows, WaiveBegin, MayWaive, Waivers
  <2> QED BY <1>2, <2>1, QuietStep DEF WaiveBegin, Begin
<1>3. ASSUME NEW u \in Person, NEW q \in Requirement, NEW document \in BOOLEAN,
             NEW until \in Validity, SubmitBegin(c, u, q, document, until)
      PROVE  Inv'
  <2> DEFINE items == requirement[q].items
             current == CurrentOf(items)
             previous == IF current = {} THEN NoItem ELSE CHOOSE i \in current : TRUE
             s == [at |-> "submit", by |-> u, q |-> q, document |-> document, until |-> until,
                   previous |-> previous]
  <2>1. q \in Opened
      BY <1>3 DEF SubmitBegin
  <2>2. requirement[q] \in EvidenceRequirement
      BY <2>1 DEF Inv, Sound
  <2>3. current \subseteq DOMAIN items /\ DOMAIN items \subseteq Nat
      BY <2>2 DEF CurrentOf, EvidenceRequirement
  <2>4. previous \in Nat /\ (previous # NoItem => previous \in DOMAIN items)
      BY <2>3 DEF NoItem
  <2>5. Begin(c, s)
      BY <1>3 DEF SubmitBegin
  <2> HIDE DEF previous
  <2>6. s \in CallState /\ Knows(s)
      BY <2>1, <2>4 DEF CallState, Knows
  <2> HIDE DEF s
  <2> QED BY <2>5, <2>6, QuietStep DEF Begin
<1>4. ASSUME NEW u \in Person, NEW q \in Opened, NEW result \in VerificationResult,
             NEW method \in VerificationMethod,
             NEW i \in DOMAIN requirement[q].items, VerifyBegin(c, u, q, i, result, method)
      PROVE  Inv'
  <2> DEFINE verdict == [result |-> result, by |-> u, method |-> method]
             s == [at |-> "verify", q |-> q, i |-> i, verdict |-> verdict]
  <2>1. q \in Requirement /\ requirement[q] \in EvidenceRequirement
      BY DEF Opened, Inv, Sound
  <2>2. i \in Nat
      BY <2>1 DEF EvidenceRequirement
  <2>3. Independently(verdict, requirement[q].items[i]) /\ verdict \in Verification
      BY <1>4 DEF VerifyBegin, MayVerify, Independently, Verification
  <2>4. Begin(c, s)
      BY <1>4 DEF VerifyBegin
  <2> HIDE DEF verdict
  <2>5. s \in CallState /\ Knows(s)
      BY <2>1, <2>2, <2>3 DEF CallState, Knows
  <2> HIDE DEF s
  <2> QED BY <2>4, <2>5, QuietStep DEF Begin
<1> QED BY <1>1, <1>2, <1>3, <1>4 DEF Request

\* The items of a row are kept, with their providers and documents.
Keeps(items, new) ==
    \A i \in DOMAIN items :
        /\ i \in DOMAIN new
        /\ new[i].by = items[i].by /\ new[i].document = items[i].document

\* A transaction leaves a sound row that keeps the items of the one it found.
LEMMA RowStep ==
    ASSUME Inv, NEW c \in Call, NEW q \in Requirement, NEW r, Sound(r), NEW e \in Event,
           q \in Opened => Keeps(requirement[q].items, r.items),
           requirement' = [requirement EXCEPT ![q] = r],
           ledger' = [ledger EXCEPT ![q] = Append(@, e)],
           Proceed(c, Idle), UNCHANGED <<open, now>>
    PROVE  Inv'
<1>1. /\ requirement \in [Requirement -> EvidenceRequirement \cup {NoRequirement}]
      /\ r \in EvidenceRequirement
    BY DEF Inv, TypeOK, Sound
<1>2. /\ requirement' \in [Requirement -> EvidenceRequirement \cup {NoRequirement}]
      /\ requirement'[q] = r
      /\ \A p \in Requirement : p # q => requirement'[p] = requirement[p]
    BY <1>1
<1>3. TypeOK'
  <2>1. ledger[q] \in Seq(Event) /\ ledger \in [Requirement -> Seq(Event)]
      BY DEF Inv, TypeOK
  <2>2. Append(ledger[q], e) \in Seq(Event)
      BY <2>1
  <2>3. ledger' \in [Requirement -> Seq(Event)]
      BY <2>1, <2>2
  <2> QED BY <1>2, <2>3 DEF Inv, TypeOK
<1>4. /\ call' \in [Call -> CallState]
      /\ call'[c] = Idle
      /\ \A d \in Call : d # c => call'[d] = call[d]
    BY DEF Inv, CallOK, Proceed, CallState
<1>5. Opened' = Opened \cup {q}
    BY <1>1, <1>2, NoRequirementIsNone DEF Opened
<1>6. ASSUME NEW p \in Opened' PROVE Sound(requirement[p])'
  <2>1. Sound(requirement'[p])
      BY <1>2, <1>5 DEF Inv, Opened
  <2> QED BY <2>1 DEF Sound, LastIsCurrent, CurrentOf, WorthKept, Worth, HasExpired, Independent
<1>7. ASSUME NEW d \in Call PROVE Knows(call[d])'
  <2>1. CASE d = c
      BY <1>4, <2>1 DEF Knows, Idle
  <2>2. CASE d # c
    <3>1. Knows(call[d]) /\ call'[d] = call[d]
        BY <1>4, <2>2 DEF Inv
    <3>2. ASSUME NEW p \in Opened
          PROVE  Keeps(requirement[p].items, requirement'[p].items) /\ p \in Opened'
        BY <1>2, <1>5 DEF Keeps, Opened
    <3>3. PICK s : s = call[d]
        OBVIOUS
    <3>4. s.at \in {"waive", "submit", "verify"} => s.q \in Opened /\ s.q \in Opened'
        BY <3>1, <3>2, <3>3 DEF Knows
    <3>5. ASSUME s.at = "submit", s.previous # NoItem
          PROVE  s.previous \in DOMAIN requirement'[s.q].items
        BY <3>1, <3>2, <3>3, <3>4, <3>5 DEF Knows, Keeps
    <3>6. ASSUME s.at = "verify"
          PROVE  /\ s.i \in DOMAIN requirement'[s.q].items
                 /\ Independently(s.verdict, requirement'[s.q].items[s.i])
      <4>1. /\ s.i \in DOMAIN requirement[s.q].items
            /\ Independently(s.verdict, requirement[s.q].items[s.i])
          BY <3>1, <3>3, <3>6 DEF Knows
      <4>2. Keeps(requirement[s.q].items, requirement'[s.q].items)
          BY <3>2, <3>4, <3>6
      <4> QED BY <4>1, <4>2 DEF Keeps, Independently
    <3>7. call'[d] = s
        BY <3>1, <3>3
    <3> QED BY <3>4, <3>5, <3>6, <3>7 DEF Knows
  <2> QED BY <2>1, <2>2
<1> QED BY <1>3, <1>4, <1>6, <1>7 DEF Inv, CallOK

LEMMA CreateInv ==
    ASSUME Inv, NEW c \in Call, NEW q \in Requirement, Create(c, q)
    PROVE  Inv'
<1> DEFINE r == [status |-> "OPEN", sufficiency |-> "MISSING", items |-> <<>>]
           e == [state |-> "REQUIRED", item |-> NoItem]
<1>1. Sound(r)
    BY DEF Sound, EvidenceRequirement, RequirementStatus, Sufficiency, LastIsCurrent, CurrentOf,
           WorthKept, Worth
<1>2. e \in Event
    BY DEF Event, NoItem
<1>3. q \notin Opened /\ requirement' = [requirement EXCEPT ![q] = r]
    BY DEF Create
<1>4. ledger' = [ledger EXCEPT ![q] = Append(@, e)]
    BY DEF Create, Evidenced
<1>5. Proceed(c, Idle) /\ UNCHANGED <<open, now>>
    BY DEF Create, Committed
<1> HIDE DEF r, e
<1> QED BY <1>1, <1>2, <1>3, <1>4, <1>5, RowStep

LEMMA WaiveInv ==
    ASSUME Inv, NEW c \in Call, Waive(c)
    PROVE  Inv'
<1>1. PICK q : q = call[c].q
    OBVIOUS
<1>2. PICK target \in Waivers : target = call[c].target
  <2>1. call[c] \in CallState /\ call[c].at = "waive"
      BY DEF Waive, Committed, Inv, CallOK
  <2> QED BY <2>1 DEF CallState, Idle
<1>3. q \in Opened /\ q \in Requirement
    BY <1>1 DEF Waive, Committed, Inv, Knows, Opened
<1>4. Sound(requirement[q])
    BY <1>3 DEF Inv
<1> DEFINE r == [requirement[q] EXCEPT !.status = target]
           e == [state |-> target, item |-> NoItem]
<1>5. /\ r \in EvidenceRequirement
      /\ r.items = requirement[q].items
      /\ r.sufficiency = requirement[q].sufficiency
    BY <1>2, <1>4 DEF Sound, EvidenceRequirement, RequirementStatus, Waivers
<1>6. e \in Event
    BY <1>2 DEF Event, NoItem, Waivers
<1>7. requirement' = [requirement EXCEPT ![q] = r]
    BY <1>1, <1>2 DEF Waive
<1>8. ledger' = [ledger EXCEPT ![q] = Append(@, e)]
    BY <1>1, <1>2 DEF Waive, Evidenced
<1>9. Proceed(c, Idle) /\ UNCHANGED <<open, now>>
    BY DEF Waive, Committed
<1> HIDE DEF r, e
<1>10. Sound(r)
    BY <1>4, <1>5 DEF Sound, WorthKept
<1>11. Keeps(requirement[q].items, r.items)
    BY <1>5 DEF Keeps
<1> QED BY <1>3, <1>6, <1>7, <1>8, <1>9, <1>10, <1>11, RowStep

\* A new item is current when no other is left current.
LEMMA NewItemIsCurrent ==
    ASSUME NEW items \in Seq(Item), CurrentOf(items) = {},
           NEW item \in Item, item.status = "SUBMITTED", item.verdicts = <<>>,
           \A i \in DOMAIN items : Independent(items[i])
    PROVE  /\ Append(items, item) \in Seq(Item)
           /\ LastIsCurrent(Append(items, item))
           /\ \A i \in DOMAIN Append(items, item) : Independent(Append(items, item)[i])
<1> DEFINE new == Append(items, item)
<1>1. /\ new \in Seq(Item) /\ Len(new) = Len(items) + 1 /\ Len(items) \in Nat
      /\ DOMAIN new = 1 .. (Len(items) + 1) /\ DOMAIN items = 1 .. Len(items)
      /\ \A i \in DOMAIN items : new[i] = items[i]
      /\ new[Len(items) + 1] = item
    BY DEF Item
<1>2. new # <<>>
    BY <1>1
<1> HIDE DEF new
<1>3. CurrentOf(new) = {Len(new)}
    BY <1>1 DEF CurrentOf
<1>4. \A i \in DOMAIN new : Independent(new[i])
    BY <1>1 DEF Independent
<1> QED BY <1>1, <1>2, <1>3, <1>4 DEF LastIsCurrent, new

\* A transaction writes the row q, and tells event e of it.
Writes(c, q, r, e) ==
    /\ requirement' = [requirement EXCEPT ![q] = r]
    /\ ledger' = [ledger EXCEPT ![q] = Append(@, e)]
    /\ Proceed(c, Idle) /\ UNCHANGED <<open, now>>

\* r has an item more than old, without a verdict, and is as open.
ItemMore(old, r) ==
    /\ old.status = "OPEN" /\ r.status = "OPEN"
    /\ Len(r.items) = Len(old.items) + 1
    /\ r.items[Len(old.items) + 1].verdicts = <<>>
    /\ \A i \in DOMAIN old.items : r.items[i].verdicts = old.items[i].verdicts

\* r has verdict x more than old, on its last item.
VerdictMore(old, r, x) ==
    /\ r.status = old.status
    /\ Len(r.items) = Len(old.items) /\ Len(old.items) # 0
    /\ r.items[Len(old.items)].verdicts = Append(old.items[Len(old.items)].verdicts, x)
    /\ \A i \in DOMAIN old.items :
          i # Len(old.items) => r.items[i].verdicts = old.items[i].verdicts

LEMMA SubmitRow ==
    ASSUME Inv, NEW c \in Call, Submit(c)
    PROVE  \E q \in Opened, r \in EvidenceRequirement, e \in Event :
              /\ Sound(r) /\ Keeps(requirement[q].items, r.items)
              /\ ItemMore(requirement[q], r)
              /\ e = [state |-> "SUBMITTED", item |-> Len(requirement[q].items) + 1]
              /\ Writes(c, q, r, e)
<1>1. PICK t : t = call[c]
    OBVIOUS
<1>2. PICK q : q = t.q
    OBVIOUS
<1>3. PICK items : items = requirement[q].items
    OBVIOUS
<1>4. PICK claimed : claimed = IF t.previous = NoItem THEN items
                               ELSE [items EXCEPT ![t.previous].status = "SUPERSEDED"]
    OBVIOUS
<1>5. PICK item : item = [by |-> t.by, document |-> t.document, until |-> t.until,
                          status |-> "SUBMITTED", verdicts |-> <<>>]
    OBVIOUS
<1>6. /\ Committed(c, "submit") /\ t.at = "submit"
      /\ CurrentOf(claimed) = {}
      /\ requirement' = [requirement EXCEPT ![q] = Recomputed(@, Append(claimed, item))]
      /\ Evidenced(q, "SUBMITTED", Len(items) + 1)
    BY <1>1, <1>2, <1>3, <1>4, <1>5 DEF Submit, Committed
<1>7. t \in CallState /\ Knows(t)
    BY <1>1 DEF Inv, CallOK
<1>8. /\ q \in Opened /\ q \in Requirement
      /\ t.previous # NoItem => t.previous \in DOMAIN items
    BY <1>2, <1>3, <1>6, <1>7 DEF Knows, Opened
<1>9. Sound(requirement[q])
    BY <1>8 DEF Inv
<1>10. /\ items \in Seq(Item) /\ requirement[q] \in EvidenceRequirement
       /\ \A i \in DOMAIN items : Independent(items[i])
    BY <1>3, <1>9 DEF Sound, EvidenceRequirement
<1>11. item \in Item /\ item.status = "SUBMITTED" /\ item.verdicts = <<>>
  <2>1. t.by \in Person /\ t.document \in BOOLEAN /\ t.until \in Validity
      BY <1>6, <1>7 DEF CallState, Idle
  <2>2. <<>> \in Seq(Verification)
      OBVIOUS
  <2> QED BY <1>5, <2>1, <2>2 DEF Item
<1>12. /\ claimed \in Seq(Item) /\ DOMAIN claimed = DOMAIN items
       /\ \A i \in DOMAIN items : /\ claimed[i].by = items[i].by
                                  /\ claimed[i].verdicts = items[i].verdicts
                                  /\ claimed[i].document = items[i].document
  <2>1. CASE t.previous = NoItem
      BY <1>4, <1>10, <2>1
  <2>2. CASE t.previous # NoItem
    <3>1. PICK p \in DOMAIN items : p = t.previous
        BY <1>8, <2>2
    <3>2. claimed = [items EXCEPT ![p] = [items[p] EXCEPT !.status = "SUPERSEDED"]]
        BY <1>4, <2>2, <3>1
    <3>3. items[p] \in Item
        BY <1>10
    <3>4. PICK old : old = [items[p] EXCEPT !.status = "SUPERSEDED"]
        OBVIOUS
    <3>5. /\ old \in Item /\ old.by = items[p].by /\ old.verdicts = items[p].verdicts
          /\ old.document = items[p].document
        BY <3>3, <3>4 DEF Item
    <3>6. claimed = [items EXCEPT ![p] = old]
        BY <3>2, <3>4
    <3>7. claimed \in Seq(Item) /\ DOMAIN claimed = DOMAIN items
        BY <1>10, <3>5, <3>6
    <3> QED BY <1>10, <3>5, <3>6, <3>7
  <2> QED BY <2>1, <2>2
<1>13. \A i \in DOMAIN claimed : Independent(claimed[i])
    BY <1>10, <1>12 DEF Independent, Independently
<1>14. PICK new : new = Append(claimed, item)
    OBVIOUS
<1>15. new \in Seq(Item) /\ LastIsCurrent(new) /\ \A i \in DOMAIN new : Independent(new[i])
    BY <1>6, <1>11, <1>12, <1>13, <1>14, NewItemIsCurrent
<1>16. PICK r : r = Recomputed(requirement[q], new)
    OBVIOUS
<1>17. Sound(r) /\ r.items = new
  <2>1. Sound(r)
      BY <1>10, <1>15, <1>16, RecomputedSound
  <2> QED BY <1>10, <1>16, <2>1 DEF Recomputed, EvidenceRequirement
<1>18. Keeps(requirement[q].items, r.items)
  <2>1. \A i \in DOMAIN claimed : i \in DOMAIN new /\ new[i] = claimed[i]
      BY <1>12, <1>14
  <2> QED BY <1>3, <1>12, <1>17, <2>1 DEF Keeps
<1>19. requirement' = [requirement EXCEPT ![q] = r]
    BY <1>6, <1>14, <1>16
<1>20. PICK e \in Event : e = [state |-> "SUBMITTED", item |-> Len(items) + 1]
  <2>1. Len(items) + 1 \in Nat
      BY <1>10
  <2> QED BY <2>1 DEF Event
<1>21. ledger' = [ledger EXCEPT ![q] = Append(@, e)]
    BY <1>6, <1>20 DEF Evidenced
<1>22. Proceed(c, Idle) /\ UNCHANGED <<open, now>>
    BY <1>6 DEF Committed
<1>23. ItemMore(requirement[q], r)
  <2>1. requirement[q].status = "OPEN"
      BY <1>1, <1>2 DEF Submit
  <2>2. r.status = requirement[q].status
      BY <1>10, <1>16 DEF Recomputed, EvidenceRequirement
  <2>3. /\ Len(new) = Len(items) + 1 /\ new[Len(items) + 1] = item
        /\ \A i \in DOMAIN items : new[i] = claimed[i]
    <3>1. Len(claimed) = Len(items)
        BY <1>10, <1>12
    <3> QED BY <1>11, <1>12, <1>14, <3>1
  <2> QED BY <1>3, <1>11, <1>12, <1>17, <2>1, <2>2, <2>3 DEF ItemMore
<1>24. Writes(c, q, r, e)
    BY <1>19, <1>21, <1>22 DEF Writes
<1>25. e = [state |-> "SUBMITTED", item |-> Len(requirement[q].items) + 1]
    BY <1>3, <1>20
<1>26. r \in EvidenceRequirement
    BY <1>17 DEF Sound
<1> QED BY <1>8, <1>17, <1>18, <1>23, <1>24, <1>25, <1>26

LEMMA SubmitInv ==
    ASSUME Inv, NEW c \in Call, Submit(c)
    PROVE  Inv'
<1>1. PICK q \in Opened, r \in EvidenceRequirement, e \in Event :
        /\ Sound(r) /\ Keeps(requirement[q].items, r.items)
        /\ Writes(c, q, r, e)
    BY SubmitRow
<1>2. q \in Requirement
    BY DEF Opened
<1> QED BY <1>1, <1>2, RowStep DEF Writes

LEMMA VerifyRow ==
    ASSUME Inv, NEW c \in Call, Verify(c)
    PROVE  \E q \in Opened, r \in EvidenceRequirement, e \in Event, x \in Verification :
              /\ Sound(r) /\ Keeps(requirement[q].items, r.items)
              /\ VerdictMore(requirement[q], r, x)
              /\ e = [state |-> x.result, item |-> Len(requirement[q].items)]
              /\ Writes(c, q, r, e)
<1>1. PICK t : t = call[c]
    OBVIOUS
<1>2. PICK q : q = t.q
    OBVIOUS
<1>3. PICK items : items = requirement[q].items
    OBVIOUS
<1>4. PICK verdict : verdict = t.verdict
    OBVIOUS
<1>5. /\ Committed(c, "verify") /\ t.at = "verify"
      /\ items[t.i].status = "SUBMITTED"
      /\ requirement' = [requirement EXCEPT ![q] =
            Recomputed(@, [items EXCEPT ![t.i].verdicts = Append(@, verdict)])]
      /\ Evidenced(q, verdict.result, t.i)
    BY <1>1, <1>2, <1>3, <1>4 DEF Verify, Committed
<1>6. t \in CallState /\ Knows(t)
    BY <1>1 DEF Inv, CallOK
<1>7. PICK i \in DOMAIN items : i = t.i
    BY <1>2, <1>3, <1>5, <1>6 DEF Knows
<1>8. q \in Opened /\ q \in Requirement /\ Independently(verdict, items[i])
    BY <1>2, <1>3, <1>4, <1>5, <1>6, <1>7 DEF Knows, Opened
<1>9. Sound(requirement[q])
    BY <1>8 DEF Inv
<1>10. /\ items \in Seq(Item) /\ requirement[q] \in EvidenceRequirement
       /\ LastIsCurrent(items)
       /\ \A j \in DOMAIN items : Independent(items[j])
    BY <1>3, <1>9 DEF Sound, EvidenceRequirement
<1>11. verdict \in Verification /\ verdict.result \in VerificationResult /\ i \in Nat
    BY <1>4, <1>5, <1>6, <1>7, <1>10 DEF CallState, Verification, Idle
<1>12. items[i] \in Item
    BY <1>10
<1>13. PICK verdicts : verdicts = Append(items[i].verdicts, verdict)
    OBVIOUS
<1>14. /\ items[i].verdicts \in Seq(Verification)
       /\ verdicts \in Seq(Verification)
    BY <1>11, <1>12, <1>13 DEF Item
<1>15. PICK item : item = [items[i] EXCEPT !.verdicts = verdicts]
    OBVIOUS
<1>16. /\ item \in Item /\ item.by = items[i].by /\ item.status = items[i].status
       /\ item.document = items[i].document
       /\ item.verdicts = verdicts
    BY <1>12, <1>14, <1>15 DEF Item
<1>17. Independent(item)
  <2>1. item.by = items[i].by /\ item.document = items[i].document
      BY <1>16
  <2>2. \A k \in DOMAIN verdicts :
            \/ k \in DOMAIN items[i].verdicts /\ verdicts[k] = items[i].verdicts[k]
            \/ verdicts[k] = verdict
      BY <1>11, <1>13, <1>14
  <2>3. Independent(items[i])
      BY <1>10
  <2> QED BY <1>8, <1>16, <2>1, <2>2, <2>3 DEF Independent, Independently
<1>18. PICK new : new = [items EXCEPT ![i] = item]
    OBVIOUS
<1>19. /\ new \in Seq(Item) /\ DOMAIN new = DOMAIN items /\ Len(new) = Len(items)
       /\ new[i] = item /\ \A j \in DOMAIN items : j # i => new[j] = items[j]
    BY <1>10, <1>16, <1>18
<1>20. LastIsCurrent(new)
  <2>1. CurrentOf(new) = CurrentOf(items)
      BY <1>16, <1>19 DEF CurrentOf
  <2>2. items # <<>> /\ new # <<>>
      BY <1>19
  <2> QED BY <1>10, <1>19, <2>1, <2>2 DEF LastIsCurrent
<1>21. \A j \in DOMAIN new : Independent(new[j])
    BY <1>10, <1>17, <1>19
<1>22. PICK r : r = Recomputed(requirement[q], new)
    OBVIOUS
<1>23. Sound(r) /\ r.items = new
  <2>1. Sound(r)
      BY <1>10, <1>19, <1>20, <1>21, <1>22, RecomputedSound
  <2> QED BY <1>10, <1>22, <2>1 DEF Recomputed, EvidenceRequirement
<1>24. Keeps(requirement[q].items, r.items)
    BY <1>3, <1>16, <1>19, <1>23 DEF Keeps
<1>25. requirement' = [requirement EXCEPT ![q] = r]
    BY <1>5, <1>7, <1>13, <1>15, <1>18, <1>22
<1>26. PICK e \in Event : e = [state |-> verdict.result, item |-> i]
    BY <1>11 DEF Event
<1>27. ledger' = [ledger EXCEPT ![q] = Append(@, e)]
    BY <1>5, <1>7, <1>26 DEF Evidenced
<1>28. Proceed(c, Idle) /\ UNCHANGED <<open, now>>
    BY <1>5 DEF Committed
<1>29. i = Len(items) /\ Len(items) # 0
  <2>1. i \in CurrentOf(items)
      BY <1>5, <1>7 DEF CurrentOf
  <2>2. Len(items) # 0
      BY <1>10
  <2> QED BY <1>10, <2>1, <2>2 DEF LastIsCurrent
<1>30. VerdictMore(requirement[q], r, verdict)
  <2>1. r.status = requirement[q].status
      BY <1>10, <1>22 DEF Recomputed, EvidenceRequirement
  <2> QED BY <1>3, <1>13, <1>16, <1>19, <1>23, <1>29, <2>1 DEF VerdictMore
<1>31. Writes(c, q, r, e)
    BY <1>25, <1>27, <1>28 DEF Writes
<1>32. e = [state |-> verdict.result, item |-> Len(requirement[q].items)]
    BY <1>3, <1>4, <1>26, <1>29
<1>33. r \in EvidenceRequirement
    BY <1>23 DEF Sound
<1> QED BY <1>8, <1>11, <1>23, <1>24, <1>30, <1>31, <1>32, <1>33

LEMMA VerifyInv ==
    ASSUME Inv, NEW c \in Call, Verify(c)
    PROVE  Inv'
<1>1. PICK q \in Opened, r \in EvidenceRequirement, e \in Event :
        /\ Sound(r) /\ Keeps(requirement[q].items, r.items)
        /\ Writes(c, q, r, e)
    BY VerifyRow
<1>2. q \in Requirement
    BY DEF Opened
<1> QED BY <1>1, <1>2, RowStep DEF Writes

\* What has expired stays so, and only what was adequate is worth less later.
LEMMA TickInv == Inv /\ Tick => Inv'
<1> SUFFICES ASSUME Inv, Tick PROVE Inv'
    OBVIOUS
<1>1. /\ now \in Nat /\ now' = now + 1 /\ now' \in 0 .. MaxTime
      /\ UNCHANGED <<open, requirement, ledger, call>>
    BY BoundAssumption DEF Inv, TypeOK, Tick
<1>2. TypeOK' /\ CallOK'
    BY <1>1 DEF Inv, TypeOK, CallOK
<1>3. Opened' = Opened
    BY <1>1 DEF Opened
<1>4. ASSUME NEW q \in Opened' PROVE Sound(requirement[q])'
  <2>1. PICK r : r = requirement[q]
      OBVIOUS
  <2>2. Sound(r)
      BY <1>3, <2>1 DEF Inv
  <2>3. WorthKept(r)'
    <3>1. CASE r.items = <<>>
        BY <2>2, <3>1 DEF Sound, WorthKept, Worth
    <3>2. CASE r.items # <<>>
      <4>1. PICK item \in Item : item = r.items[Len(r.items)]
        <5>1. r.items \in Seq(Item)
            BY <2>2 DEF Sound, EvidenceRequirement
        <5>2. r.items[Len(r.items)] \in Item
            BY <3>2, <5>1
        <5> QED BY <5>2
      <4>2. item.until \in Nat \/ item.until = Never
          BY ValidityAssumption DEF Item
      <4>3. (item.until # Never /\ item.until < now) => (item.until # Never /\ item.until < now + 1)
          BY <1>1, <4>2
      <4>4. item.verdicts = <<>> <=> Len(item.verdicts) = 0
          BY DEF Item
      <4> QED BY <1>1, <2>2, <3>2, <4>1, <4>3, <4>4 DEF Sound, WorthKept, Worth, HasExpired
    <3> QED BY <3>1, <3>2
  <2>4. requirement'[q] = r
      BY <1>1, <2>1
  <2> QED BY <2>2, <2>3, <2>4 DEF Sound, LastIsCurrent, CurrentOf, Independent, WorthKept, Worth,
                                  HasExpired
<1>5. \A c \in Call : Knows(call[c])'
    BY <1>1, <1>3 DEF Inv, Knows
<1> QED BY <1>1, <1>2, <1>4, <1>5 DEF Inv

LEMMA UnchangedInv ==
    ASSUME Inv, UNCHANGED <<requirement, ledger, call, now>>, open' \in BOOLEAN
    PROVE  Inv'
BY DEF Inv, TypeOK, CallOK, Opened, Sound, LastIsCurrent, CurrentOf, Independent, WorthKept, Worth,
       HasExpired, Knows

-----------------------------------------------------------------------------
(* Theorems *)

LEMMA NextInv == Inv /\ [Next]_vars => Inv'
<1> SUFFICES ASSUME Inv, [Next]_vars PROVE Inv'
    OBVIOUS
<1>1. ASSUME NEW c \in Call, Request(c) PROVE Inv'
    BY <1>1, RequestInv
<1>2. ASSUME NEW c \in Call, NEW q \in Requirement, Create(c, q) PROVE Inv'
    BY <1>2, CreateInv
<1>3. ASSUME NEW c \in Call, Waive(c) PROVE Inv'
    BY <1>3, WaiveInv
<1>4. ASSUME NEW c \in Call, Submit(c) PROVE Inv'
    BY <1>4, SubmitInv
<1>5. ASSUME NEW c \in Call, Verify(c) PROVE Inv'
    BY <1>5, VerifyInv
<1>6. ASSUME NEW c \in Call, Abandon(c) PROVE Inv'
    BY <1>6, AbandonInv DEF Abandon
<1>7. CASE Close
    BY <1>7, UnchangedInv DEF Close
<1>8. CASE Tick
    BY <1>8, TickInv
<1>9. CASE UNCHANGED vars
    BY <1>9, UnchangedInv DEF vars, Inv, TypeOK
<1> QED BY <1>1, <1>2, <1>3, <1>4, <1>5, <1>6, <1>7, <1>8, <1>9 DEF Next

LEMMA Invariance == Spec => []Inv
<1>1. Inv /\ [Next]_vars => Inv'
    BY NextInv
<1> QED BY InitInv, <1>1, PTL DEF Spec

\* Requirements, items, verdicts and events keep their shape.
THEOREM TypeCorrect == Spec => []TypeOK
<1>1. Inv => TypeOK
    BY DEF Inv
<1> QED BY <1>1, Invariance, PTL

\* The sufficiency kept with a requirement is that of the one item current,
\* or was until that item expired; and adequate rests on the verdict of
\* somebody who is not its provider: an administrator, or on a document a
\* steward other than the Subject.
THEOREM SufficiencyEarned == Spec => []SufficiencyIsEarned
<1>1. ASSUME Inv, NEW q \in Opened
      PROVE  LET r == requirement[q]  item == r.items[Len(r.items)] IN
             /\ \/ r.sufficiency = SufficiencyOf(r.items)
                \/ r.sufficiency = "ADEQUATE" /\ item.until # Never /\ item.until < now
             /\ r.sufficiency = "ADEQUATE" =>
                   LET verdict == item.verdicts[Len(item.verdicts)] IN
                   /\ verdict.result = "VERIFIED"
                   /\ verdict.by # item.by
                   /\ verdict.method = "HUMAN_STEWARD_REVIEW" =>
                         item.document /\ verdict.by # Subject
  <2>1. PICK r : r = requirement[q]
      OBVIOUS
  <2>2. Sound(r)
      BY <1>1, <2>1 DEF Inv
  <2>3. r.items \in Seq(Item) /\ LastIsCurrent(r.items)
      BY <2>2 DEF Sound, EvidenceRequirement
  <2>4. SufficiencyOf(r.items) = Worth(r.items)
      BY <2>3, LastCounts
  <2>5. PICK item : item = r.items[Len(r.items)]
      OBVIOUS
  <2>6. \/ r.sufficiency = SufficiencyOf(r.items)
        \/ r.sufficiency = "ADEQUATE" /\ item.until # Never /\ item.until < now
      BY <2>2, <2>4, <2>5 DEF Sound, WorthKept, HasExpired
  <2>7. ASSUME r.sufficiency = "ADEQUATE"
        PROVE  LET verdict == item.verdicts[Len(item.verdicts)]
               IN verdict.result = "VERIFIED" /\ Independently(verdict, item)
    <3>1. r.items # <<>>
        BY <2>2, <2>7 DEF Sound, WorthKept, Worth
    <3>2. item \in Item /\ Len(r.items) \in DOMAIN r.items
      <4>1. Len(r.items) \in DOMAIN r.items
          BY <2>3, <3>1
      <4> QED BY <2>3, <2>5, <4>1
    <3>3. item.verdicts \in Seq(Verification)
        BY <3>2 DEF Item
    <3>4. item.verdicts # <<>>
        BY <2>2, <2>5, <2>7, <3>1 DEF Sound, WorthKept, Worth
    <3>5. Len(item.verdicts) \in DOMAIN item.verdicts
        BY <3>3, <3>4
    <3>6. Independent(item)
        BY <2>2, <2>5, <3>2 DEF Sound
    <3>7. item.verdicts[Len(item.verdicts)].result = "VERIFIED"
        BY <2>2, <2>5, <2>7, <3>1, <3>3 DEF Sound, WorthKept, Worth
    <3> QED BY <3>5, <3>6, <3>7 DEF Independent
  <2> QED BY <2>1, <2>5, <2>6, <2>7 DEF Independently
<1>2. Inv => SufficiencyIsEarned
    BY <1>1 DEF SufficiencyIsEarned
<1> QED BY <1>2, Invariance, PTL

\* Once the Responsibility has ended nothing is required, submitted, waived or
\* verified for it, whatever a request had checked before.
THEOREM ClosedFinal == Spec => ClosedIsFinal
<1>1. [Next]_vars => [~open => UNCHANGED <<requirement, ledger>>]_vars
  <2> SUFFICES ASSUME Next, ~open PROVE UNCHANGED <<requirement, ledger>>
      BY DEF vars
  <2>1. ASSUME NEW c \in Call, Request(c) PROVE UNCHANGED <<requirement, ledger>>
      BY <2>1 DEF Request, CreateBegin, WaiveBegin, SubmitBegin, VerifyBegin, Begin
  <2>2. ASSUME NEW c \in Call, NEW q \in Requirement, Create(c, q) PROVE FALSE
      BY <2>2 DEF Create, Committed
  <2>3. ASSUME NEW c \in Call, Waive(c) \/ Submit(c) \/ Verify(c) PROVE FALSE
      BY <2>3 DEF Waive, Submit, Verify, Committed
  <2>4. ASSUME NEW c \in Call, Abandon(c) PROVE UNCHANGED <<requirement, ledger>>
      BY <2>4 DEF Abandon
  <2>5. Close \/ Tick => UNCHANGED <<requirement, ledger>>
      BY DEF Close, Tick
  <2> QED BY <2>1, <2>2, <2>3, <2>4, <2>5 DEF Next
<1> QED BY <1>1, PTL DEF Spec, ClosedIsFinal

-----------------------------------------------------------------------------
(* What the ledger tells *)

Submissions(l) == {k \in DOMAIN l : l[k].state = "SUBMITTED"}

\* s is the last position of K.
IsLast(s, K) == s \in K /\ \A k \in K : k <= s

\* Decision d is the last one and gives the status: none follows a waiver, and
\* no waiver has been asked for while the requirement is open.
StatusTold(l, status) ==
    \E d \in DecisionsIn(l) :
        /\ IsLast(d, DecisionsIn(l))
        /\ \A k \in DecisionsIn(l) : l[k].state = "WAIVED" => k = d
        /\ status = IF l[d].state = "REQUIRED" THEN "OPEN" ELSE l[d].state
        /\ status = "OPEN" => \A k \in DOMAIN l : l[k].state \notin Waivers

\* n items have been submitted, the n-th last.
ItemsTold(l, n) ==
    /\ \A k \in DOMAIN l : /\ l[k].item <= n
                           /\ IsDecision(l[k]) <=> l[k].state \in {"REQUIRED"} \cup Waivers
    /\ n # 0 => \E s \in Submissions(l) : IsLast(s, Submissions(l)) /\ l[s].item = n

\* InCourse, with the submission a verdict is about.
Course(l, k) ==
    /\ l[k].state = "SUBMITTED" =>
          /\ \A j \in 1 .. k : l[j].state \notin Waivers
          /\ \A j \in SubmittedIn(l, k) : l[j].item < l[k].item
    /\ IsVerdict(l[k]) =>
          \E s \in SubmittedIn(l, k) : IsLast(s, SubmittedIn(l, k)) /\ l[k].item = l[s].item

\* A ledger tells a requirement.
Story(l, r) ==
    /\ Len(l) # 0 /\ l[1] = [state |-> "REQUIRED", item |-> NoItem]
    /\ StatusTold(l, r.status)
    /\ \A k \in DOMAIN l : Course(l, k)
    /\ ItemsTold(l, Len(r.items))
    /\ \A i \in DOMAIN r.items : VerdictsTold(l, i, r.items[i].verdicts)

Stories == \A q \in Requirement : IF q \in Opened THEN Story(ledger[q], requirement[q])
                                  ELSE ledger[q] = <<>>

\* m is l and event e more.
Grown(l, e, m) ==
    /\ Len(l) \in Nat /\ Len(m) = Len(l) + 1
    /\ DOMAIN l = 1 .. Len(l) /\ DOMAIN m = 1 .. (Len(l) + 1)
    /\ \A k \in DOMAIN l : m[k] = l[k]
    /\ m[Len(l) + 1] = e

LEMMA AppendGrows ==
    ASSUME NEW l \in Seq(Event), NEW e \in Event
    PROVE  Append(l, e) \in Seq(Event) /\ Grown(l, e, Append(l, e))
BY DEF Grown

\* The greatest of a set of positions is its latest.
LEMMA LatestIs ==
    ASSUME NEW K \in SUBSET Nat, NEW s, IsLast(s, K)
    PROVE  Latest(K) = s
<1>1. \A k \in K : (\A j \in K : j <= k) => k = s
    BY DEF IsLast
<1>2. s \in K /\ \A j \in K : j <= s
    BY DEF IsLast
<1> QED BY <1>1, <1>2 DEF Latest

\* The submissions before a position of l are those of m.
LEMMA SubmissionsStay ==
    ASSUME NEW l, NEW e, NEW m, Grown(l, e, m), NEW k \in 1 .. (Len(l) + 1)
    PROVE  /\ SubmittedIn(m, k) = SubmittedIn(l, k)
           /\ \A j \in SubmittedIn(l, k) : j \in DOMAIN l /\ m[j] = l[j]
<1>1. \A j \in 1 .. (k - 1) : j \in DOMAIN l /\ m[j] = l[j]
    BY DEF Grown
<1> QED BY <1>1 DEF SubmittedIn

\* What was in course stays so.
LEMMA CourseStays ==
    ASSUME NEW l, NEW e, NEW m, Grown(l, e, m), NEW k \in DOMAIN l, Course(l, k)
    PROVE  Course(m, k)
<1>1. k \in 1 .. (Len(l) + 1) /\ m[k] = l[k]
    BY DEF Grown
<1>2. \A j \in 1 .. k : m[j] = l[j]
    BY DEF Grown
<1>3. /\ SubmittedIn(m, k) = SubmittedIn(l, k)
      /\ \A j \in SubmittedIn(l, k) : m[j] = l[j]
    BY <1>1, SubmissionsStay
<1> QED BY <1>1, <1>2, <1>3 DEF Course

LEMMA CourseGrows ==
    ASSUME NEW l, NEW e, NEW m, Grown(l, e, m), \A k \in DOMAIN l : Course(l, k),
           Course(m, Len(l) + 1)
    PROVE  \A k \in DOMAIN m : Course(m, k)
<1>1. \A k \in DOMAIN m : k \in DOMAIN l \/ k = Len(l) + 1
    BY DEF Grown
<1> QED BY <1>1, CourseStays

\* The submissions before the next event are all there are.
LEMMA AllSubmissions ==
    ASSUME NEW l, DOMAIN l = 1 .. Len(l), Len(l) \in Nat
    PROVE  SubmittedIn(l, Len(l) + 1) = Submissions(l)
BY DEF SubmittedIn, Submissions

\* An event that is no decision leaves the status as it is told.
LEMMA StatusStays ==
    ASSUME NEW l, NEW e, NEW m, Grown(l, e, m), NEW status, StatusTold(l, status),
           ~IsDecision(e), e.state \notin Waivers
    PROVE  StatusTold(m, status)
<1>1. PICK d \in DecisionsIn(l) :
        /\ IsLast(d, DecisionsIn(l))
        /\ \A k \in DecisionsIn(l) : l[k].state = "WAIVED" => k = d
        /\ status = IF l[d].state = "REQUIRED" THEN "OPEN" ELSE l[d].state
        /\ status = "OPEN" => \A k \in DOMAIN l : l[k].state \notin Waivers
    BY DEF StatusTold
<1>2. \A k \in DOMAIN m : (k \in DOMAIN l /\ m[k] = l[k]) \/ m[k] = e
    BY DEF Grown
<1>3. \A k \in DOMAIN l : k \in DOMAIN m /\ m[k] = l[k]
    BY DEF Grown
<1>4. DecisionsIn(m) = DecisionsIn(l)
    BY <1>2, <1>3 DEF DecisionsIn
<1>5. d \in DOMAIN l /\ DecisionsIn(l) \subseteq DOMAIN l
    BY DEF DecisionsIn
<1> QED BY <1>1, <1>2, <1>3, <1>4, <1>5 DEF StatusTold

\* A decision gives the status, unless a waiver has.
LEMMA StatusMoves ==
    ASSUME NEW l, NEW e, NEW m, Grown(l, e, m), IsDecision(e), e.state \in Waivers,
           NEW status, status # "WAIVED", StatusTold(l, status)
    PROVE  StatusTold(m, e.state)
<1> DEFINE n == Len(l) + 1
<1>1. \A k \in DOMAIN m : (k \in DOMAIN l /\ m[k] = l[k] /\ k <= n) \/ (k = n /\ m[k] = e)
    BY DEF Grown
<1>2. n \in DOMAIN m /\ m[n] = e /\ n \in Nat
    BY DEF Grown
<1>3. \A k \in DecisionsIn(l) : l[k].state # "WAIVED"
    BY DEF StatusTold
<1>4. n \in DecisionsIn(m)
    BY <1>2 DEF DecisionsIn
<1> HIDE DEF n
<1>5. \A k \in DecisionsIn(m) : (k \in DecisionsIn(l) /\ m[k] = l[k] /\ k <= n) \/ k = n
    BY <1>1 DEF DecisionsIn
<1>6. IsLast(n, DecisionsIn(m))
    BY <1>2, <1>4, <1>5 DEF IsLast
<1>7. \A k \in DecisionsIn(m) : m[k].state = "WAIVED" => k = n
    BY <1>3, <1>5
<1>8. e.state = IF m[n].state = "REQUIRED" THEN "OPEN" ELSE m[n].state
    BY <1>2 DEF Waivers
<1>9. e.state # "OPEN"
    BY DEF Waivers
<1> QED BY <1>4, <1>6, <1>7, <1>8, <1>9 DEF StatusTold

\* An event that submits nothing leaves the items as they are told.
LEMMA ItemsStay ==
    ASSUME NEW l, NEW e, NEW m, Grown(l, e, m), NEW n \in Nat, ItemsTold(l, n),
           e.state # "SUBMITTED", e.item <= n,
           IsDecision(e) <=> e.state \in {"REQUIRED"} \cup Waivers
    PROVE  ItemsTold(m, n)
<1>1. \A k \in DOMAIN m : (k \in DOMAIN l /\ m[k] = l[k]) \/ m[k] = e
    BY DEF Grown
<1>2. \A k \in DOMAIN l : k \in DOMAIN m /\ m[k] = l[k]
    BY DEF Grown
<1>3. Submissions(m) = Submissions(l)
    BY <1>1, <1>2 DEF Submissions
<1>4. \A s \in Submissions(l) : m[s] = l[s]
    BY <1>2 DEF Submissions
<1>5. \A k \in DOMAIN m : /\ m[k].item <= n
                          /\ IsDecision(m[k]) <=> m[k].state \in {"REQUIRED"} \cup Waivers
    BY <1>1 DEF ItemsTold
<1> QED BY <1>3, <1>4, <1>5 DEF ItemsTold

\* A submission is of the next item.
LEMMA ItemsMove ==
    ASSUME NEW l \in Seq(Event), NEW e, NEW m, Grown(l, e, m), NEW n \in Nat, ItemsTold(l, n),
           e.state = "SUBMITTED", e.item = n + 1
    PROVE  ItemsTold(m, n + 1)
<1> DEFINE top == Len(l) + 1
<1>1. \A k \in DOMAIN m : (k \in DOMAIN l /\ m[k] = l[k] /\ k <= top) \/ (k = top /\ m[k] = e)
    BY DEF Grown
<1>2. top \in DOMAIN m /\ m[top] = e /\ top \in Nat
    BY DEF Grown
<1>3. top \in Submissions(m)
    BY <1>2 DEF Submissions
<1>4. IsLast(top, Submissions(m))
    BY <1>1, <1>2, <1>3 DEF IsLast, Submissions
<1>5. ~IsDecision(e) /\ e.state \notin {"REQUIRED"} \cup Waivers /\ e.item <= n + 1
    BY DEF IsDecision, NoItem, Waivers
<1>6. \A k \in DOMAIN l : l[k].item \in Nat
  <2>1. \A k \in DOMAIN l : l[k] \in Event
      OBVIOUS
  <2> QED BY <2>1 DEF Event
<1>7. \A k \in DOMAIN l : l[k].item <= n + 1
    BY <1>6 DEF ItemsTold
<1> HIDE DEF top
<1>8. \A k \in DOMAIN m : /\ m[k].item <= n + 1
                          /\ IsDecision(m[k]) <=> m[k].state \in {"REQUIRED"} \cup Waivers
    BY <1>1, <1>5, <1>7 DEF ItemsTold
<1> QED BY <1>2, <1>3, <1>4, <1>8 DEF ItemsTold

\* No verdict on an item is told of one that has none.
LEMMA NoVerdicts ==
    ASSUME NEW l, NEW i, \A k \in DOMAIN l : ~(IsVerdict(l[k]) /\ l[k].item = i)
    PROVE  VerdictsTold(l, i, <<>>)
<1> DEFINE at == [k \in {} |-> 0]
<1>1. at \in [DOMAIN <<>> -> DOMAIN l]
    OBVIOUS
<1>2. DOMAIN <<>> = {}
    OBVIOUS
<1> HIDE DEF at
<1> QED BY <1>1, <1>2 DEF VerdictsTold

\* An event that is no verdict on an item leaves those on it as they are told.
LEMMA VerdictsStay ==
    ASSUME NEW l, NEW e, NEW m, Grown(l, e, m), NEW i, NEW verdicts,
           VerdictsTold(l, i, verdicts), ~(IsVerdict(e) /\ e.item = i)
    PROVE  VerdictsTold(m, i, verdicts)
<1>1. PICK at \in [DOMAIN verdicts -> DOMAIN l] :
        /\ \A j, k \in DOMAIN verdicts : j < k => at[j] < at[k]
        /\ \A k \in DOMAIN verdicts : l[at[k]] = [state |-> verdicts[k].result, item |-> i]
        /\ \A n \in DOMAIN l : IsVerdict(l[n]) /\ l[n].item = i =>
              \E k \in DOMAIN verdicts : at[k] = n
    BY DEF VerdictsTold
<1>2. \A k \in DOMAIN m : (k \in DOMAIN l /\ m[k] = l[k]) \/ m[k] = e
    BY DEF Grown
<1>3. \A k \in DOMAIN l : k \in DOMAIN m /\ m[k] = l[k]
    BY DEF Grown
<1>4. at \in [DOMAIN verdicts -> DOMAIN m]
    BY <1>3
<1>5. \A k \in DOMAIN verdicts : m[at[k]] = [state |-> verdicts[k].result, item |-> i]
    BY <1>1, <1>3
<1>6. \A n \in DOMAIN m : IsVerdict(m[n]) /\ m[n].item = i => \E k \in DOMAIN verdicts : at[k] = n
    BY <1>1, <1>2
<1> QED BY <1>1, <1>4, <1>5, <1>6 DEF VerdictsTold

\* A verdict on an item is told after those it had.
LEMMA VerdictsMove ==
    ASSUME NEW l, NEW e, NEW m, Grown(l, e, m), NEW i,
           NEW verdicts \in Seq(Verification), NEW x \in Verification,
           VerdictsTold(l, i, verdicts), e = [state |-> x.result, item |-> i]
    PROVE  VerdictsTold(m, i, Append(verdicts, x))
<1>1. PICK at \in [DOMAIN verdicts -> DOMAIN l] :
        /\ \A j, k \in DOMAIN verdicts : j < k => at[j] < at[k]
        /\ \A k \in DOMAIN verdicts : l[at[k]] = [state |-> verdicts[k].result, item |-> i]
        /\ \A n \in DOMAIN l : IsVerdict(l[n]) /\ l[n].item = i =>
              \E k \in DOMAIN verdicts : at[k] = n
    BY DEF VerdictsTold
<1>2. PICK more : more = Append(verdicts, x)
    OBVIOUS
<1>3. PICK c : c = Len(verdicts) + 1
    OBVIOUS
<1>4. PICK top : top = Len(l) + 1
    OBVIOUS
<1>5. /\ c \in Nat /\ 1 <= c /\ DOMAIN verdicts = 1 .. (c - 1) /\ DOMAIN more = 1 .. c
      /\ \A k \in DOMAIN verdicts : more[k] = verdicts[k]
      /\ more[c] = x
    BY <1>2, <1>3
<1>6. /\ DOMAIN l = 1 .. (top - 1) /\ DOMAIN m = 1 .. top /\ top \in Nat
      /\ \A k \in DOMAIN l : m[k] = l[k]
      /\ m[top] = e /\ top \in DOMAIN m
    BY <1>4 DEF Grown
<1>7. PICK told : told = [k \in DOMAIN more |-> IF k = c THEN top ELSE at[k]]
    OBVIOUS
<1>8. /\ \A k \in DOMAIN verdicts : told[k] = at[k] /\ at[k] \in DOMAIN l
      /\ c \in DOMAIN more /\ told[c] = top
      /\ \A k \in DOMAIN more : k \in DOMAIN verdicts \/ k = c
      /\ \A k \in DOMAIN verdicts : k \in DOMAIN more
  <2>1. \A k \in DOMAIN verdicts : k \in DOMAIN more /\ k # c
      BY <1>5
  <2>2. c \in DOMAIN more /\ \A k \in DOMAIN more : k \in DOMAIN verdicts \/ k = c
      BY <1>5
  <2>3. \A k \in DOMAIN verdicts : at[k] \in DOMAIN l
      BY <1>1
  <2> QED BY <1>7, <2>1, <2>2, <2>3
<1>9. told \in [DOMAIN more -> DOMAIN m]
    BY <1>6, <1>7, <1>8
<1>10. ASSUME NEW j \in DOMAIN more, NEW k \in DOMAIN more, j < k PROVE told[j] < told[k]
  <2>1. CASE k \in DOMAIN verdicts
    <3>1. j \in DOMAIN verdicts
        BY <1>5, <1>10, <2>1
    <3> QED BY <1>1, <1>8, <1>10, <2>1, <3>1
  <2>2. CASE k = c
    <3>1. j \in DOMAIN verdicts
        BY <1>5, <1>8, <1>10, <2>2
    <3>2. told[j] \in DOMAIN l /\ told[k] = top
        BY <1>8, <2>2, <3>1
    <3> QED BY <1>6, <3>2
  <2> QED BY <1>8, <2>1, <2>2
<1>11. \A k \in DOMAIN more : m[told[k]] = [state |-> more[k].result, item |-> i]
  <2>1. \A k \in DOMAIN verdicts : m[told[k]] = [state |-> verdicts[k].result, item |-> i]
      BY <1>1, <1>6, <1>8
  <2> QED BY <1>5, <1>6, <1>8, <2>1
<1>12. ASSUME NEW n \in DOMAIN m, IsVerdict(m[n]) /\ m[n].item = i
       PROVE  \E k \in DOMAIN more : told[k] = n
  <2>1. CASE n = top
      BY <1>8, <2>1
  <2>2. CASE n \in DOMAIN l
      BY <1>1, <1>6, <1>8, <1>12, <2>2
  <2> QED BY <1>6, <2>1, <2>2
<1>13. VerdictsTold(m, i, more)
    BY <1>9, <1>10, <1>11, <1>12 DEF VerdictsTold
<1> QED BY <1>2, <1>13

\* A new item is the next one, and the status is open as it was.
LEMMA StorySubmit ==
    ASSUME NEW l \in Seq(Event), NEW e \in Event, NEW m, Grown(l, e, m),
           NEW old \in EvidenceRequirement, NEW r \in EvidenceRequirement,
           Story(l, old), ItemMore(old, r),
           e = [state |-> "SUBMITTED", item |-> Len(old.items) + 1]
    PROVE  Story(m, r)
<1>1. PICK n \in Nat : n = Len(old.items)
  <2>1. Len(old.items) \in Nat
      BY DEF EvidenceRequirement
  <2> QED BY <2>1
<1>2. e.state = "SUBMITTED" /\ e.item = n + 1 /\ ~IsDecision(e) /\ ~IsVerdict(e)
    BY <1>1 DEF IsDecision, NoItem, IsVerdict, VerificationResult
<1>3. e.state \notin Waivers
    BY <1>2 DEF Waivers
<1>4. Len(m) # 0 /\ m[1] = [state |-> "REQUIRED", item |-> NoItem]
    BY DEF Story, Grown
<1>5. StatusTold(m, r.status)
    BY <1>2, <1>3, StatusStays DEF Story, ItemMore
<1>6. ItemsTold(m, Len(r.items))
    BY <1>1, <1>2, ItemsMove DEF Story, ItemMore
<1>7. Course(m, Len(l) + 1)
  <2>1. \A k \in DOMAIN l : l[k].state \notin Waivers /\ l[k].item <= n
      BY <1>1 DEF Story, StatusTold, ItemMore, ItemsTold
  <2>2. \A k \in 1 .. (Len(l) + 1) : (k \in DOMAIN l /\ m[k] = l[k]) \/ m[k] = e
      BY DEF Grown
  <2>3. \A k \in 1 .. (Len(l) + 1) : m[k].state \notin Waivers
      BY <1>3, <2>1, <2>2
  <2>4. m[Len(l) + 1] = e
      BY DEF Grown
  <2>5. \A j \in SubmittedIn(m, Len(l) + 1) : j \in DOMAIN l /\ m[j] = l[j]
    <3>1. Len(l) + 1 \in 1 .. (Len(l) + 1)
        OBVIOUS
    <3> QED BY <3>1, SubmissionsStay
  <2>6. \A k \in DOMAIN l : l[k].item \in Nat
    <3>1. \A k \in DOMAIN l : l[k] \in Event
        OBVIOUS
    <3> QED BY <3>1 DEF Event
  <2>7. \A j \in SubmittedIn(m, Len(l) + 1) : m[j].item < m[Len(l) + 1].item
      BY <1>2, <2>1, <2>4, <2>5, <2>6
  <2> QED BY <1>2, <2>3, <2>4, <2>7 DEF Course
<1>8. \A k \in DOMAIN m : Course(m, k)
    BY <1>7, CourseGrows DEF Story
<1>9. ASSUME NEW i \in DOMAIN r.items PROVE VerdictsTold(m, i, r.items[i].verdicts)
  <2>1. DOMAIN r.items = 1 .. (n + 1) /\ DOMAIN old.items = 1 .. n
      BY <1>1 DEF EvidenceRequirement, ItemMore
  <2>2. CASE i \in DOMAIN old.items
    <3>1. VerdictsTold(l, i, old.items[i].verdicts)
        BY <2>2 DEF Story
    <3>2. r.items[i].verdicts = old.items[i].verdicts
        BY <2>2 DEF ItemMore
    <3> QED BY <1>2, <3>1, <3>2, VerdictsStay
  <2>3. CASE i = n + 1
    <3>1. \A k \in DOMAIN l : l[k].item # i
        BY <1>1, <2>3 DEF Story, ItemsTold
    <3>2. \A k \in DOMAIN m : ~(IsVerdict(m[k]) /\ m[k].item = i)
      <4>1. \A k \in DOMAIN m : (k \in DOMAIN l /\ m[k] = l[k]) \/ m[k] = e
          BY DEF Grown
      <4> QED BY <1>2, <3>1, <4>1
    <3>3. r.items[i].verdicts = <<>>
        BY <1>1, <2>3 DEF ItemMore
    <3> QED BY <3>2, <3>3, NoVerdicts
  <2> QED BY <2>1, <2>2, <2>3
<1> QED BY <1>4, <1>5, <1>6, <1>8, <1>9 DEF Story

\* A verdict is on the last item.
LEMMA StoryVerify ==
    ASSUME NEW l \in Seq(Event), NEW e \in Event, NEW m, Grown(l, e, m),
           NEW old \in EvidenceRequirement, NEW r \in EvidenceRequirement,
           NEW x \in Verification, Story(l, old), VerdictMore(old, r, x),
           e = [state |-> x.result, item |-> Len(old.items)]
    PROVE  Story(m, r)
<1>1. PICK n \in Nat : n = Len(old.items)
  <2>1. Len(old.items) \in Nat
      BY DEF EvidenceRequirement
  <2> QED BY <2>1
<1>2. e.state \in VerificationResult /\ e.item = n /\ n # 0
    BY <1>1 DEF Verification, VerdictMore
<1>3. /\ ~IsDecision(e) /\ IsVerdict(e) /\ e.state # "SUBMITTED"
      /\ e.state \notin {"REQUIRED"} \cup Waivers
    BY <1>2 DEF IsDecision, NoItem, IsVerdict, VerificationResult, Waivers
<1>4. Len(m) # 0 /\ m[1] = [state |-> "REQUIRED", item |-> NoItem]
    BY DEF Story, Grown
<1>5. StatusTold(m, r.status)
    BY <1>3, StatusStays DEF Story, VerdictMore
<1>6. ItemsTold(m, Len(r.items))
  <2>1. ItemsTold(l, n) /\ e.item <= n /\ Len(r.items) = n
      BY <1>1, <1>2 DEF Story, VerdictMore
  <2> QED BY <1>3, <2>1, ItemsStay
<1>7. Course(m, Len(l) + 1)
  <2>1. PICK s \in Submissions(l) : IsLast(s, Submissions(l)) /\ l[s].item = n
      BY <1>1, <1>2 DEF Story, ItemsTold
  <2>2. m[Len(l) + 1] = e
      BY DEF Grown
  <2>3. SubmittedIn(l, Len(l) + 1) = Submissions(l)
      BY AllSubmissions
  <2>4. /\ SubmittedIn(m, Len(l) + 1) = SubmittedIn(l, Len(l) + 1)
        /\ m[s] = l[s]
    <3>1. Len(l) + 1 \in 1 .. (Len(l) + 1)
        OBVIOUS
    <3> QED BY <2>1, <2>3, <3>1, SubmissionsStay
  <2> QED BY <1>2, <1>3, <2>1, <2>2, <2>3, <2>4 DEF Course
<1>8. \A k \in DOMAIN m : Course(m, k)
    BY <1>7, CourseGrows DEF Story
<1>9. ASSUME NEW i \in DOMAIN r.items PROVE VerdictsTold(m, i, r.items[i].verdicts)
  <2>1. DOMAIN r.items = DOMAIN old.items /\ DOMAIN old.items = 1 .. n
      BY <1>1 DEF EvidenceRequirement, VerdictMore
  <2>2. VerdictsTold(l, i, old.items[i].verdicts)
      BY <2>1 DEF Story
  <2>3. CASE i # n
    <3>1. r.items[i].verdicts = old.items[i].verdicts
        BY <1>1, <2>1, <2>3 DEF VerdictMore
    <3>2. ~(IsVerdict(e) /\ e.item = i)
        BY <1>2, <2>3
    <3> QED BY <2>2, <3>1, <3>2, VerdictsStay
  <2>4. CASE i = n
    <3>1. r.items[i].verdicts = Append(old.items[i].verdicts, x)
        BY <1>1, <2>4 DEF VerdictMore
    <3>2. old.items[i].verdicts \in Seq(Verification)
      <4>1. old.items[i] \in Item
          BY <2>1 DEF EvidenceRequirement
      <4> QED BY <4>1 DEF Item
    <3>3. e = [state |-> x.result, item |-> i]
        BY <1>1, <2>4
    <3>4. VerdictsTold(m, i, Append(old.items[i].verdicts, x))
        BY <2>2, <3>2, <3>3, VerdictsMove
    <3> QED BY <3>1, <3>4
  <2> QED BY <2>3, <2>4
<1> QED BY <1>4, <1>5, <1>6, <1>8, <1>9 DEF Story

\* A waiver changes the status only, and none follows a waiver granted.
LEMMA StoryWaive ==
    ASSUME NEW l \in Seq(Event), NEW e \in Event, NEW m, Grown(l, e, m),
           NEW old \in EvidenceRequirement, NEW r \in EvidenceRequirement,
           Story(l, old), old.status # "WAIVED",
           NEW target \in Waivers, r.status = target, r.items = old.items,
           e = [state |-> target, item |-> NoItem]
    PROVE  Story(m, r)
<1>1. PICK n \in Nat : n = Len(old.items)
  <2>1. Len(old.items) \in Nat
      BY DEF EvidenceRequirement
  <2> QED BY <2>1
<1>2. IsDecision(e) /\ e.state = target /\ e.item = 0 /\ ~IsVerdict(e) /\ e.state # "SUBMITTED"
    BY DEF IsDecision, NoItem, IsVerdict, VerificationResult, Waivers
<1>3. Len(m) # 0 /\ m[1] = [state |-> "REQUIRED", item |-> NoItem]
    BY DEF Story, Grown
<1>4. StatusTold(m, r.status)
    BY <1>2, StatusMoves DEF Story
<1>5. ItemsTold(m, Len(r.items))
  <2>1. ItemsTold(l, n) /\ e.item <= n /\ Len(r.items) = n
      BY <1>1, <1>2 DEF Story
  <2> QED BY <1>2, <2>1, ItemsStay
<1>6. Course(m, Len(l) + 1)
  <2>1. m[Len(l) + 1] = e
      BY DEF Grown
  <2> QED BY <1>2, <2>1 DEF Course
<1>7. \A k \in DOMAIN m : Course(m, k)
    BY <1>6, CourseGrows DEF Story
<1>8. ASSUME NEW i \in DOMAIN r.items PROVE VerdictsTold(m, i, r.items[i].verdicts)
  <2>1. VerdictsTold(l, i, old.items[i].verdicts)
      BY DEF Story
  <2> QED BY <1>2, <2>1, VerdictsStay
<1> QED BY <1>3, <1>4, <1>5, <1>7, <1>8 DEF Story

\* The first event requires it.
LEMMA StoryCreate ==
    ASSUME NEW l, l = <<[state |-> "REQUIRED", item |-> NoItem]>>,
           NEW r, r.status = "OPEN", r.items = <<>>
    PROVE  Story(l, r)
<1>1. /\ Len(l) = 1 /\ DOMAIN l = {1}
      /\ l[1] = [state |-> "REQUIRED", item |-> NoItem]
    OBVIOUS
<1>2. DecisionsIn(l) = {1} /\ IsDecision(l[1]) /\ l[1].state = "REQUIRED" /\ l[1].item = 0
    BY <1>1 DEF DecisionsIn, IsDecision, NoItem
<1>3. StatusTold(l, r.status)
    BY <1>1, <1>2 DEF StatusTold, IsLast, Waivers
<1>4. \A k \in DOMAIN l : Course(l, k)
    BY <1>1, <1>2 DEF Course, IsVerdict, VerificationResult
<1>5. ItemsTold(l, Len(r.items))
  <2>1. Len(r.items) = 0
      OBVIOUS
  <2> QED BY <1>1, <1>2, <2>1 DEF ItemsTold
<1>6. DOMAIN r.items = {}
    OBVIOUS
<1> QED BY <1>1, <1>3, <1>4, <1>5, <1>6 DEF Story

\* Only the row a transaction writes gets another story.
LEMMA RowStory ==
    ASSUME Inv, Stories, NEW c \in Call, NEW q \in Requirement, NEW r, NEW e \in Event,
           Sound(r), Writes(c, q, r, e), Story(Append(ledger[q], e), r)
    PROVE  Stories'
<1>1. /\ requirement \in [Requirement -> EvidenceRequirement \cup {NoRequirement}]
      /\ ledger \in [Requirement -> Seq(Event)]
      /\ r \in EvidenceRequirement
    BY DEF Inv, TypeOK, Sound
<1>2. /\ requirement'[q] = r /\ ledger'[q] = Append(ledger[q], e)
      /\ \A p \in Requirement : p # q => /\ requirement'[p] = requirement[p]
                                         /\ ledger'[p] = ledger[p]
    BY <1>1 DEF Writes
<1>3. Opened' = Opened \cup {q}
    BY <1>1, <1>2, NoRequirementIsNone DEF Opened
<1>4. ASSUME NEW p \in Requirement
      PROVE  IF p \in Opened' THEN Story(ledger'[p], requirement'[p]) ELSE ledger'[p] = <<>>
  <2>1. CASE p = q
      BY <1>2, <1>3, <2>1
  <2>2. CASE p # q
      BY <1>2, <1>3, <2>2 DEF Stories
  <2> QED BY <2>1, <2>2
<1> QED BY <1>4 DEF Stories

LEMMA CreateStory ==
    ASSUME Inv, Stories, NEW c \in Call, NEW q \in Requirement, Create(c, q)
    PROVE  Stories'
<1>1. PICK r : r = [status |-> "OPEN", sufficiency |-> "MISSING", items |-> <<>>]
    OBVIOUS
<1>2. PICK e \in Event : e = [state |-> "REQUIRED", item |-> NoItem]
    BY DEF Event, NoItem
<1>3. Sound(r)
    BY <1>1 DEF Sound, EvidenceRequirement, RequirementStatus, Sufficiency, LastIsCurrent,
                CurrentOf, WorthKept, Worth
<1>4. Writes(c, q, r, e)
    BY <1>1, <1>2 DEF Create, Committed, Evidenced, Writes
<1>5. ledger[q] = <<>>
    BY DEF Create, Stories
<1>6. Append(ledger[q], e) = <<[state |-> "REQUIRED", item |-> NoItem]>>
    BY <1>2, <1>5
<1>7. r.status = "OPEN" /\ r.items = <<>>
    BY <1>1
<1>8. Story(Append(ledger[q], e), r)
    BY <1>6, <1>7, StoryCreate
<1> QED BY <1>3, <1>4, <1>8, RowStory

\* What is known of a requirement that is written again.
LEMMA Reopened ==
    ASSUME Inv, Stories, NEW q \in Opened, NEW e \in Event
    PROVE  /\ q \in Requirement
           /\ ledger[q] \in Seq(Event) /\ Story(ledger[q], requirement[q])
           /\ requirement[q] \in EvidenceRequirement
           /\ Grown(ledger[q], e, Append(ledger[q], e))
<1>1. q \in Requirement
    BY DEF Opened
<1>2. ledger[q] \in Seq(Event)
    BY <1>1 DEF Inv, TypeOK
<1>3. Grown(ledger[q], e, Append(ledger[q], e))
    BY <1>2, AppendGrows
<1> QED BY <1>1, <1>2, <1>3 DEF Stories, Inv, Sound

LEMMA WaiveStory ==
    ASSUME Inv, Stories, NEW c \in Call, Waive(c)
    PROVE  Stories'
<1>1. PICK q : q = call[c].q
    OBVIOUS
<1>2. PICK target \in Waivers : target = call[c].target
  <2>1. call[c] \in CallState /\ call[c].at = "waive"
      BY DEF Waive, Committed, Inv, CallOK
  <2> QED BY <2>1 DEF CallState, Idle
<1>3. q \in Opened
    BY <1>1 DEF Waive, Committed, Inv, Knows
<1>4. PICK old : old = requirement[q]
    OBVIOUS
<1>5. Sound(old)
    BY <1>3, <1>4 DEF Inv
<1>6. PICK r : r = [old EXCEPT !.status = target]
    OBVIOUS
<1>7. /\ r \in EvidenceRequirement /\ r.status = target /\ r.items = old.items
      /\ r.sufficiency = old.sufficiency
    BY <1>5, <1>6 DEF Sound, EvidenceRequirement, RequirementStatus, Waivers
<1>8. Sound(r)
    BY <1>5, <1>7 DEF Sound, WorthKept
<1>9. PICK e \in Event : e = [state |-> target, item |-> NoItem]
    BY DEF Event, NoItem, Waivers
<1>10. Writes(c, q, r, e)
  <2>1. requirement' = [requirement EXCEPT ![q].status = target]
      BY <1>1, <1>2 DEF Waive
  <2>2. requirement' = [requirement EXCEPT ![q] = r]
      BY <1>4, <1>6, <2>1
  <2>3. ledger' = [ledger EXCEPT ![q] = Append(@, e)]
      BY <1>1, <1>2, <1>9 DEF Waive, Evidenced
  <2> QED BY <2>2, <2>3 DEF Waive, Committed, Writes
<1>11. old.status # "WAIVED"
    BY <1>1, <1>4 DEF Waive, AllowedFrom
<1>12. Story(Append(ledger[q], e), r)
  <2>1. /\ ledger[q] \in Seq(Event) /\ Story(ledger[q], old) /\ old \in EvidenceRequirement
        /\ Grown(ledger[q], e, Append(ledger[q], e))
      BY <1>3, <1>4, Reopened
  <2> QED BY <1>7, <1>9, <1>11, <2>1, StoryWaive
<1>13. q \in Requirement
    BY <1>3 DEF Opened
<1> QED BY <1>8, <1>10, <1>12, <1>13, RowStory

LEMMA SubmitStory ==
    ASSUME Inv, Stories, NEW c \in Call, Submit(c)
    PROVE  Stories'
<1>1. PICK q \in Opened, r \in EvidenceRequirement, e \in Event :
        /\ Sound(r) /\ ItemMore(requirement[q], r)
        /\ e = [state |-> "SUBMITTED", item |-> Len(requirement[q].items) + 1]
        /\ Writes(c, q, r, e)
    BY SubmitRow
<1>2. /\ q \in Requirement
      /\ ledger[q] \in Seq(Event) /\ Story(ledger[q], requirement[q])
      /\ requirement[q] \in EvidenceRequirement
      /\ Grown(ledger[q], e, Append(ledger[q], e))
    BY Reopened
<1>3. Story(Append(ledger[q], e), r)
    BY <1>1, <1>2, StorySubmit
<1> QED BY <1>1, <1>2, <1>3, RowStory

LEMMA VerifyStory ==
    ASSUME Inv, Stories, NEW c \in Call, Verify(c)
    PROVE  Stories'
<1>1. PICK q \in Opened, r \in EvidenceRequirement, e \in Event, x \in Verification :
        /\ Sound(r) /\ VerdictMore(requirement[q], r, x)
        /\ e = [state |-> x.result, item |-> Len(requirement[q].items)]
        /\ Writes(c, q, r, e)
    BY VerifyRow
<1>2. /\ q \in Requirement
      /\ ledger[q] \in Seq(Event) /\ Story(ledger[q], requirement[q])
      /\ requirement[q] \in EvidenceRequirement
      /\ Grown(ledger[q], e, Append(ledger[q], e))
    BY Reopened
<1>3. Story(Append(ledger[q], e), r)
    BY <1>1, <1>2, StoryVerify
<1> QED BY <1>1, <1>2, <1>3, RowStory

LEMMA InitStory == Init => Stories
BY DEF Init, Stories, Opened

LEMMA NextStory == Inv /\ Stories /\ [Next]_vars => Stories'
<1> SUFFICES ASSUME Inv, Stories, [Next]_vars PROVE Stories'
    OBVIOUS
<1>1. UNCHANGED <<requirement, ledger>> => Stories'
    BY DEF Stories, Opened
<1>2. ASSUME NEW c \in Call, Request(c) PROVE Stories'
  <2>1. UNCHANGED <<requirement, ledger>>
      BY <1>2 DEF Request, CreateBegin, WaiveBegin, SubmitBegin, VerifyBegin, Begin
  <2> QED BY <1>1, <2>1
<1>3. ASSUME NEW c \in Call, NEW q \in Requirement, Create(c, q) PROVE Stories'
    BY <1>3, CreateStory
<1>4. ASSUME NEW c \in Call, Waive(c) PROVE Stories'
    BY <1>4, WaiveStory
<1>5. ASSUME NEW c \in Call, Submit(c) PROVE Stories'
    BY <1>5, SubmitStory
<1>6. ASSUME NEW c \in Call, Verify(c) PROVE Stories'
    BY <1>6, VerifyStory
<1>7. ASSUME NEW c \in Call, Abandon(c) PROVE Stories'
    BY <1>1, <1>7 DEF Abandon
<1>8. CASE Close \/ Tick
    BY <1>1, <1>8 DEF Close, Tick
<1>9. CASE UNCHANGED vars
    BY <1>1, <1>9 DEF vars
<1> QED BY <1>2, <1>3, <1>4, <1>5, <1>6, <1>7, <1>8, <1>9 DEF Next

\* The witnesses of a course are the latest events the property speaks of.
LEMMA CourseIsInCourse ==
    ASSUME NEW l, NEW k \in DOMAIN l, Course(l, k), DOMAIN l \subseteq Nat
    PROVE  InCourse(l, k)
<1>1. ASSUME IsVerdict(l[k])
      PROVE  /\ SubmittedIn(l, k) # {}
             /\ l[k].item = l[Latest(SubmittedIn(l, k))].item
  <2>1. PICK s \in SubmittedIn(l, k) : IsLast(s, SubmittedIn(l, k)) /\ l[k].item = l[s].item
      BY <1>1 DEF Course
  <2>2. SubmittedIn(l, k) \in SUBSET Nat
      BY DEF SubmittedIn
  <2>3. Latest(SubmittedIn(l, k)) = s
      BY <2>1, <2>2, LatestIs
  <2> QED BY <2>1, <2>3
<1> QED BY <1>1 DEF Course, InCourse, Waivers

LEMMA StatusIsTold ==
    ASSUME NEW l, NEW status, StatusTold(l, status), DOMAIN l \subseteq Nat
    PROVE  LET last == Latest(DecisionsIn(l)) IN
           /\ status = IF l[last].state = "REQUIRED" THEN "OPEN" ELSE l[last].state
           /\ \A k \in DecisionsIn(l) : l[k].state = "WAIVED" => k = last
<1>1. PICK d \in DecisionsIn(l) :
        /\ IsLast(d, DecisionsIn(l))
        /\ \A k \in DecisionsIn(l) : l[k].state = "WAIVED" => k = d
        /\ status = IF l[d].state = "REQUIRED" THEN "OPEN" ELSE l[d].state
    BY DEF StatusTold
<1>2. DecisionsIn(l) \in SUBSET Nat
    BY DEF DecisionsIn
<1>3. Latest(DecisionsIn(l)) = d
    BY <1>1, <1>2, LatestIs
<1> QED BY <1>1, <1>3

\* The events about a requirement tell its status, its items' order and the
\* verdicts on each, in a course without a step out of order: no item after a
\* waiver was asked for, no verdict but on the item current at the time, and
\* nothing decided after a waiver, however requests overlapped.
THEOREM LedgerTold == Spec => []LedgerTellsEvidence
<1>1. Init => Inv /\ Stories
    BY InitInv, InitStory
<1>2. (Inv /\ Stories) /\ [Next]_vars => (Inv /\ Stories)'
    BY NextInv, NextStory
<1>3. ASSUME Inv, Stories PROVE LedgerTellsEvidence
  <2>1. ASSUME NEW q \in Opened
        PROVE  LET l == ledger[q]  r == requirement[q]  last == Latest(DecisionsIn(l)) IN
               /\ l[1] = [state |-> "REQUIRED", item |-> NoItem]
               /\ r.status = IF l[last].state = "REQUIRED" THEN "OPEN" ELSE l[last].state
               /\ \A k \in DecisionsIn(l) : l[k].state = "WAIVED" => k = last
               /\ \A k \in DOMAIN l : InCourse(l, k)
               /\ CurrentOf(r.items) = IF r.items = <<>> THEN {} ELSE {Len(r.items)}
               /\ \A i \in DOMAIN r.items : VerdictsTold(l, i, r.items[i].verdicts)
    <3>1. PICK l : l = ledger[q]
        OBVIOUS
    <3>2. PICK r : r = requirement[q]
        OBVIOUS
    <3>3. q \in Requirement
        BY DEF Opened
    <3>4. Story(l, r) /\ Sound(r) /\ DOMAIN l \subseteq Nat
      <4>1. l \in Seq(Event)
          BY <1>3, <3>1, <3>3 DEF Inv, TypeOK
      <4>2. DOMAIN l \subseteq Nat
          BY <4>1
      <4> QED BY <1>3, <3>1, <3>2, <3>3, <4>2 DEF Stories, Inv
    <3>5. PICK last : last = Latest(DecisionsIn(l))
        OBVIOUS
    <3>6. /\ r.status = IF l[last].state = "REQUIRED" THEN "OPEN" ELSE l[last].state
          /\ \A k \in DecisionsIn(l) : l[k].state = "WAIVED" => k = last
      <4>1. StatusTold(l, r.status)
          BY <3>4 DEF Story
      <4> QED BY <3>4, <3>5, <4>1, StatusIsTold
    <3>7. \A k \in DOMAIN l : InCourse(l, k)
        BY <3>4, CourseIsInCourse DEF Story
    <3>8. CurrentOf(r.items) = IF r.items = <<>> THEN {} ELSE {Len(r.items)}
        BY <3>4 DEF Sound, LastIsCurrent
    <3>9. /\ l[1] = [state |-> "REQUIRED", item |-> NoItem]
          /\ \A i \in DOMAIN r.items : VerdictsTold(l, i, r.items[i].verdicts)
        BY <3>4 DEF Story
    <3> QED BY <3>1, <3>2, <3>5, <3>6, <3>7, <3>8, <3>9
  <2> QED BY <2>1 DEF LedgerTellsEvidence
<1> QED BY <1>1, <1>2, <1>3, PTL DEF Spec
===============================================================================
