--------------------------- MODULE OutboxOperator ---------------------------
(***************************************************************************)
(* MintOutbox with the operator of its documentation, who moves a parked   *)
(* mint back "into OUTBOX_KEY (HSET there + HDEL here)".  The entry is     *)
(* moved as it is, with the enqueued_at_ms it was parked with.             *)
(***************************************************************************)
EXTENDS MintOutbox

VARIABLE
    moving      \* fields the operator has HSET and not yet HDELed

OperInit ==
    /\ Init
    /\ moving = {}

\* A parked copy is one the drain found expired, so its age is past the bound.
RequeueSet(f) ==
    /\ f \in parked \ moving
    /\ outbox' = [outbox EXCEPT ![f] = MaxAge + 1]
    /\ moving' = moving \cup {f}
    /\ UNCHANGED <<aggVars, store, parked, row, chainVars, sinkVars, drainVars,
                   attVars, promised>>

RequeueDel(f) ==
    /\ f \in moving
    /\ parked' = parked \ {f}
    /\ moving' = moving \ {f}
    /\ UNCHANGED <<aggVars, store, outbox, row, chainVars, sinkVars, drainVars,
                   attVars, histVars>>

OperNext ==
    \/ Next /\ UNCHANGED moving
    \/ \E f \in Field : RequeueSet(f) \/ RequeueDel(f)

OperSpec == OperInit /\ [][OperNext]_<<vars, moving>>
====
