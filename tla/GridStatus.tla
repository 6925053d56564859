----------------------------- MODULE GridStatus -----------------------------
(***************************************************************************)
(* The fleet as a frequency sensor: FrequencyMonitor's rolling window      *)
(* (logic/grid_status.rs), filled by the zone tasks for every reading with *)
(* a frequency, and the publisher of src/main.rs that turns its mean into  *)
(* the events the dispatch engine acts upon.  Instants are ages.           *)
(***************************************************************************)
EXTENDS Integers, Sequences, FiniteSets, FiniteSetsExt

CONSTANTS
    Hz,             \* frequencies meters report
    MinHz, MaxHz,   \* MIN_PLAUSIBLE_HZ, MAX_PLAUSIBLE_HZ
    Window,         \* length of the window
    MaxSample,      \* plausible samples recorded
    NoEvent

ASSUME GridAssumption == Hz \subseteq Nat /\ {MinHz, MaxHz, Window, MaxSample} \subseteq Nat

VARIABLES
    measured,   \* all plausible samples, oldest first: [hz, age]
    front,      \* the deque holds the samples from this one on
    event       \* the last event, with the mean it should carry, or NoEvent

gridvars == <<measured, front, event>>

GridInit == measured = <<>> /\ front = 1 /\ event = NoEvent

Plausible(hz) == hz \in MinHz .. MaxHz

\* The sum and the number of some samples: a mean without rounding.
Mean(some) == [sum |-> MapThenSumSet(LAMBDA k : measured[k].hz, some), count |-> Cardinality(some)]

-----------------------------------------------------------------------------
\* Fault: a sample as old as the window is evicted.
evictAtWindow(all) ==
    {k \in front .. Len(all) + 1 : /\ \A n \in front .. k - 1 : all[n].age >= Window
                                   /\ k <= Len(all) => all[k].age < Window}

\* evict: from the front, while the front is older than the window (the new
\* front, as a set of one).
evict(all) ==
    {k \in front .. Len(all) + 1 : /\ \A n \in front .. k - 1 : all[n].age > Window
                                   /\ k <= Len(all) => all[k].age <= Window}

\* record: an implausible value is ignored; a sample gets its instant under the
\* lock, so the deque stays in order.
RecordHz(hz) ==
    /\ Len(measured) < MaxSample
    /\ measured' = IF Plausible(hz) THEN Append(measured, [hz |-> hz, age |-> 0]) ELSE measured
    /\ front' \in IF Plausible(hz) THEN evict(measured') ELSE {front}
    /\ UNCHANGED event

\* The publisher's timer: the mean is published, unless there is none; a failed
\* publish is only logged.
PublishStatus(sent) ==
    LET deque == front' .. Len(measured)
        window == {k \in DOMAIN measured : measured[k].age <= Window}
    IN /\ front' \in evict(measured)
       /\ event' = IF deque # {} /\ sent THEN [mean |-> Mean(deque), due |-> Mean(window)] ELSE event
       /\ UNCHANGED measured

\* Time passes.
GridPass ==
    /\ measured' = [k \in DOMAIN measured |-> [measured[k] EXCEPT !.age = IF @ > Window THEN @ ELSE @ + 1]]
    /\ UNCHANGED <<front, event>>

GridNext == (\E hz \in Hz : RecordHz(hz)) \/ (\E sent \in BOOLEAN : PublishStatus(sent)) \/ GridPass

GridSpec == GridInit /\ [][GridNext]_gridvars

-----------------------------------------------------------------------------
\* The frequency dispatch acts upon is the mean of all and only the plausible
\* measurements of the window: the eviction from the front, done only now and
\* then, keeps none that is too old and drops none that is not, and with no
\* fresh sample nothing is published.
EventIsFresh == event # NoEvent => event.mean = event.due /\ event.due.count > 0
=============================================================================
