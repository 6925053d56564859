-------------------------- MODULE SettlementLedger --------------------------
(***************************************************************************)
(* What settlement promises about a surplus, whatever hashes, attempts and *)
(* loops carry it: an undertaking to mint a field, once durable, ends only *)
(* after the mint is on the chain, and a mint is final.                    *)
(***************************************************************************)
CONSTANT Field

VARIABLES
    owed,       \* fields with a durable undertaking
    paid        \* fields minted

ledgervars == <<owed, paid>>

\* Whatever an earlier process has left.
Opened == owed \subseteq Field /\ paid \subseteq Field

\* A field may be undertaken again: the mint is idempotent.
Undertake(f) == owed' = owed \cup {f} /\ UNCHANGED paid

Pay(f) == paid' = paid \cup {f} /\ UNCHANGED owed

Discharge(f) ==
    /\ f \in paid
    /\ owed' = owed \ {f}
    /\ UNCHANGED paid

LedgerNext == \E f \in Field : Undertake(f) \/ Pay(f) \/ Discharge(f)

LedgerSpec == Opened /\ [][LedgerNext]_ledgervars
=============================================================================
