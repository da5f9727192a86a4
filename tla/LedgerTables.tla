----------------------------- MODULE LedgerTables -----------------------------
(***************************************************************************)
(* What the services over the personal Responsibilities share: the tables  *)
(* and the calls of ResponsibilityLedger, which each of them instantiates  *)
(* with its own origins and records.                                       *)
(***************************************************************************)
EXTENDS Naturals

CONSTANTS
    Call,      \* requests being served
    Resp,      \* ids of Responsibility rows
    MaxEvents  \* bound on the ledger of one row

ASSUME LedgerBoundAssumption == MaxEvents \in Nat

VARIABLES
    row,     \* the Responsibility table
    ledger,  \* the ResponsibilityEvent rows of each Responsibility, in order
    tx,      \* the transaction each call has open
    reply    \* how the last repository method of each call ended

ledgerVars == <<row, ledger, tx, reply>>
===============================================================================
