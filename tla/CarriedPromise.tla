---------------------------- MODULE CarriedPromise ----------------------------
(***************************************************************************)
(* What Responsibility Core promises, without transactions or statuses:    *)
(* one piece of accepted work is carried per slot at a time; it is carried *)
(* until it is kept or ended; it is kept or ended once, for ever, and only *)
(* by citing source evidence.  A promise is never dropped or reopened.     *)
(***************************************************************************)
CONSTANTS Resp, Slot, Record

VARIABLES
    carried,  \* the promises being carried in each slot
    kept,     \* promises whose outcome was evidenced
    ended,    \* promises responsibly exhausted
    cited     \* the source records cited for each promise

vars == <<carried, kept, ended, cited>>

Init ==
    /\ carried = [s \in Slot |-> {}]
    /\ kept = {}
    /\ ended = {}
    /\ cited = [r \in Resp |-> {}]

Made == kept \cup ended \cup UNION {carried[s] : s \in Slot}

Accept(s, r) ==
    /\ carried[s] = {}
    /\ r \notin Made
    /\ carried' = [carried EXCEPT ![s] = {r}]
    /\ UNCHANGED <<kept, ended, cited>>

LayDown(s, r, evidence) ==
    /\ carried[s] = {r}
    /\ evidence # {}
    /\ carried' = [carried EXCEPT ![s] = {}]
    /\ cited' = [cited EXCEPT ![r] = evidence]

Keep(s, r, evidence) ==
    /\ LayDown(s, r, evidence)
    /\ kept' = kept \cup {r}
    /\ UNCHANGED ended

End(s, r, evidence) ==
    /\ LayDown(s, r, evidence)
    /\ ended' = ended \cup {r}
    /\ UNCHANGED kept

Next ==
    \E s \in Slot, r \in Resp :
        \/ Accept(s, r)
        \/ \E evidence \in SUBSET Record : Keep(s, r, evidence)
        \/ \E evidence \in SUBSET Record : End(s, r, evidence)

Spec == Init /\ [][Next]_vars
===============================================================================
