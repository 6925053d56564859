------------------------------ MODULE MCOwners ------------------------------
(* Small instances of OwnerReadModel and MeterRegistry for TLC. *)
EXTENDS MeterRegistry

CONSTANTS u1, u2, w1, w2
OwnerOf == [w \in Wallet |-> u1]

\* Two instances in one state space.  In the first the feed runs alone, with a
\* restart or a client that is built again.  In the second the registry is used beside one
\* consumer that keeps running.
VARIABLE lookups

MCInit == Init /\ lookups \in BOOLEAN /\ (lookups => ~split)

FeedOnly == ~lookups /\ OrmStep

Lookups ==
    /\ lookups
    /\ \/ RegNext /\ UNCHANGED ormVars
       \/ OrmStep /\ stops' = 0 /\ \A t \in Topic : Len(topic'[t]) <= 1

MCNext == (FeedOnly \/ Lookups) /\ UNCHANGED lookups

MCSpec == MCInit /\ [][MCNext]_<<vars, lookups>>

\* One consumer, and only the order of the two streams is open.
OrderNext == FaultFree /\ UNCHANGED <<regVars, lookups>>

\* Lookups beside that.
CreditNext ==
    \/ OrderNext
    \/ RegNext /\ UNCHANGED <<ormVars, lookups>>
CreditSpec == MCInit /\ ~split /\ [][CreditNext]_<<vars, lookups>>
====
