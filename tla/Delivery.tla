------------------------------ MODULE Delivery ------------------------------
(***************************************************************************)
(* What store-and-forward promises: every record handed over is received   *)
(* at least once, first receptions in the order of acceptance, and nothing *)
(* counts as delivered that was not received.                              *)
(***************************************************************************)
EXTENDS Integers

VARIABLES
    accepted,   \* records accepted are 1 .. accepted
    received,   \* records the gateway has received
    confirmed   \* records that are not sent again

vars == <<accepted, received, confirmed>>

Init == accepted = 0 /\ received = {} /\ confirmed = {}

Accept ==
    /\ accepted' = accepted + 1
    /\ UNCHANGED <<received, confirmed>>

\* The next record, or one already received and not confirmed.
Receive(i) ==
    /\ i \notin confirmed
    /\ \A j \in 1 .. i - 1 : j \in received
    /\ received' = received \cup {i}
    /\ UNCHANGED <<accepted, confirmed>>

Confirm(S) ==
    /\ confirmed' = confirmed \cup S
    /\ UNCHANGED <<accepted, received>>

Next ==
    \/ Accept
    \/ \E i \in 1 .. accepted : Receive(i)
    \/ \E S \in SUBSET received : Confirm(S)

Spec == Init /\ [][Next]_vars
=============================================================================
