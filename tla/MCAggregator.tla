---------------------------- MODULE MCAggregator ----------------------------
(* Small instances of Aggregator for TLC. *)
EXTENDS Aggregator

\* Generation at peak and consumption off-peak, which a bin may hold together.
Energies ==
    {[gen |-> 1, cons |-> 0, tariff |-> 1, demand |-> 0],
     [gen |-> 0, cons |-> 1, tariff |-> 2, demand |-> 1]}
====
