----------------------------- MODULE Aggregator -----------------------------
(***************************************************************************)
(* The 15-minute billing bins of one process (aggregator.rs): readings     *)
(* that arrive in any order, with event times that run behind or ahead of  *)
(* the wall clock; windows that complete in event time; the memory of      *)
(* settled windows that keeps stragglers out.                              *)
(*                                                                         *)
(* A reading carries its energies, its tariff rate and its demand; the     *)
(* owner, the serial, the zone and the count of readings are left out.     *)
(***************************************************************************)
EXTENDS Integers, FiniteSets, Functions

CONSTANTS
    Meter,
    Width,      \* WINDOW_MINUTES
    Grace,      \* BILLING_FLUSH_GRACE_SECS
    Retention,  \* SETTLED_RETENTION_HOURS
    Reading,    \* the contents a reading may have
    MaxTime,    \* bound of the wall clock and of event times
    MaxEnergy   \* bound of a bin's totals

ASSUME AggregatorAssumption ==
    /\ Width \in Nat \ {0} /\ Grace \in Nat /\ Retention \in Nat
    /\ MaxTime \in Nat /\ MaxEnergy \in Nat
    /\ Reading \subseteq
        [gen : Nat, cons : Nat, tariff : {0, 1, 2}, demand : Nat]

VARIABLES
    bins,       \* active_bins: a function on a set of keys <<meter, start>>
    progress,   \* watermark and last arrival of the meters heard of
    settled,    \* window starts remembered as settled, by meter
    now,        \* the wall clock
    \* history
    swept,      \* keys this process has settled
    byClock     \* keys it has settled on the wall clock

vars == <<bins, progress, settled, now, swept, byClock>>

-----------------------------------------------------------------------------
Time == 0 .. MaxTime

get_window_start(t) == (t \div Width) * Width

IsStart(w) == w \in Int /\ w % Width = 0

Key    == {k \in Meter \X Int : IsStart(k[2])}
End(k) == k[2] + Width

\* The windows of the instance; the clock bound leaves room for each to
\* complete.
Start == {t \in Time : IsStart(t) /\ t + Width + Grace <= MaxTime}

Bin == [gen : Nat, cons : Nat, genPeak : Nat, genOff : Nat, consPeak : Nat,
        consOff : Nat, demand : Nat]

EmptyBin == [gen |-> 0, cons |-> 0, genPeak |-> 0, genOff |-> 0,
             consPeak |-> 0, consOff |-> 0, demand |-> 0]

TypeOK ==
    /\ DOMAIN bins \subseteq Key /\ bins \in [DOMAIN bins -> Bin]
    /\ DOMAIN progress \subseteq Meter
    /\ progress \in [DOMAIN progress -> [watermark : Int, last : Int]]
    /\ settled \in [Meter -> SUBSET {w \in Int : IsStart(w)}]
    /\ now \in Int
    /\ swept \subseteq Key /\ byClock \subseteq Key

-----------------------------------------------------------------------------
\* A bin with a reading added: the totals, the split of a known tariff, the
\* highest demand.
Added(b, r) ==
    [gen      |-> b.gen + r.gen,
     cons     |-> b.cons + r.cons,
     genPeak  |-> IF r.tariff = 1 THEN b.genPeak + r.gen ELSE b.genPeak,
     genOff   |-> IF r.tariff = 2 THEN b.genOff + r.gen ELSE b.genOff,
     consPeak |-> IF r.tariff = 1 THEN b.consPeak + r.cons ELSE b.consPeak,
     consOff  |-> IF r.tariff = 2 THEN b.consOff + r.cons ELSE b.consOff,
     demand   |-> IF r.demand > b.demand THEN r.demand ELSE b.demand]

\* The process starts with the bins restore_bins has loaded, each with the
\* readings of an earlier process.
Restored == {Added(EmptyBin, r) : r \in Reading}

Init ==
    /\ \E ks \in SUBSET (Meter \X Start) : bins \in [ks -> Restored]
    /\ progress = << >>
    /\ settled = [m \in Meter |-> {}]
    /\ now \in Time
    /\ swept = {} /\ byClock = {}

-----------------------------------------------------------------------------
\* The meter's watermark and last arrival after a reading of time t.
Advance(m, t) ==
    [n \in DOMAIN progress \cup {m} |->
        IF n # m THEN progress[n]
        ELSE [watermark |-> IF /\ m \in DOMAIN progress
                               /\ progress[m].watermark >= t
                            THEN progress[m].watermark ELSE t,
              last      |-> now]]

\* The bin of key k, or a new one.
BinAt(k) == IF k \in DOMAIN bins THEN bins[k] ELSE EmptyBin

\* handle_reading of a window that is not settled.
Accept(m, t, r) ==
    LET k == <<m, get_window_start(t)>>
        b == Added(BinAt(k), r)
    IN  /\ k[2] \notin settled[m]
        /\ b.gen <= MaxEnergy /\ b.cons <= MaxEnergy
        /\ progress' = Advance(m, t)
        /\ bins' = [x \in DOMAIN bins \cup {k} |->
                        IF x = k THEN b ELSE bins[x]]
        /\ UNCHANGED <<settled, now, swept, byClock>>

\* handle_reading of a late arrival: only the progress is updated.
DropLate(m, t) ==
    /\ get_window_start(t) \in settled[m]
    /\ progress' = Advance(m, t)
    /\ UNCHANGED <<bins, settled, now, swept, byClock>>

\* The clock bound leaves room for the meter to go quiet.
HandleReading(m) ==
    /\ now + Grace <= MaxTime
    /\ \E t \in Time :
        /\ get_window_start(t) \in Start
        /\ DropLate(m, t) \/ \E r \in Reading : Accept(m, t, r)

-----------------------------------------------------------------------------
\* Fault: the grace is not waited for.
PastWatermarkEarly(k, grace) ==
    k[1] \in DOMAIN progress /\ progress[k[1]].watermark >= End(k)
\* Fault: no arm for a meter that fell silent.
IdleMissing(k, grace) == FALSE

\* The arms of peek_completed_bins_at.
PastWatermark(k, grace) ==
    k[1] \in DOMAIN progress /\ progress[k[1]].watermark >= End(k) + grace

Idle(k, grace) ==
    /\ k[1] \in DOMAIN progress /\ grace > 0
    /\ now - progress[k[1]].last >= grace /\ End(k) <= now

Unheard(k, grace) == k[1] \notin DOMAIN progress /\ End(k) + grace <= now

peek_completed_bins(grace) ==
    {k \in DOMAIN bins :
        PastWatermark(k, grace) \/ Idle(k, grace) \/ Unheard(k, grace)}

\* Fault: the horizon is the watermark itself.
RememberedBriefly(m, keys) ==
    {w \in settled[m] \cup {k[2] : k \in {x \in keys : x[1] = m}} :
        (m \in DOMAIN progress /\ \E k \in keys : k[1] = m) =>
            w >= progress[m].watermark}

\* The settled windows of meter m after those of keys have been added and the
\* ones behind the horizon forgotten.
Remembered(m, keys) ==
    {w \in settled[m] \cup {k[2] : k \in {x \in keys : x[1] = m}} :
        (m \in DOMAIN progress /\ \E k \in keys : k[1] = m) =>
            w >= progress[m].watermark - Retention}

remove_bins(keys) ==
    /\ bins' = Restrict(bins, DOMAIN bins \ keys)
    /\ settled' = [m \in Meter |-> Remembered(m, keys)]

\* The settlement sink's critical section.
Sweep ==
    LET keys == peek_completed_bins(Grace)
    IN  /\ keys # {}
        /\ remove_bins(keys)
        /\ swept' = swept \cup keys
        /\ byClock' = byClock \cup {k \in keys : ~PastWatermark(k, Grace)}
        /\ UNCHANGED <<progress, now>>

Tick ==
    /\ now < MaxTime
    /\ now' = now + 1
    /\ UNCHANGED <<bins, progress, settled, swept, byClock>>

Next ==
    \/ \E m \in Meter : HandleReading(m)
    \/ Sweep
    \/ Tick

Spec == Init /\ [][Next]_vars

\* The clock runs, the sink's ticker fires, and the meters go silent.
FairSpec ==
    /\ Spec
    /\ WF_vars(Tick) /\ WF_vars(Sweep)
    /\ \A m \in Meter : <>[][~HandleReading(m)]_vars

-----------------------------------------------------------------------------
(***************************************************************************)
(* Properties                                                              *)
(***************************************************************************)

\* A straggler re-creates the bin of a window this process has settled only if
\* the window lies further back than the retention, counted from the meter's
\* watermark (remove_bins).
ReopenedOnlyBeyondRetention ==
    \A k \in DOMAIN bins \cap swept :
        /\ k[1] \in DOMAIN progress
        /\ k[2] < progress[k[1]].watermark - Retention

\* A window whose readings are dropped was settled on the wall clock, or is one
\* that the meter's own data has left behind by the grace: a meter that is not
\* taken for idle loses no reading that is late by less.
LateOnlyBeyondGrace ==
    \A m \in Meter : \A w \in settled[m] :
        \/ <<m, w>> \in byClock
        \/ m \in DOMAIN progress /\ progress[m].watermark >= w + Width + Grace

\* The tariff buckets of a bin never add up to more than its totals, in
\* whatever mix of tariffs its readings came.
SplitWithinTotals ==
    \A k \in DOMAIN bins :
        /\ bins[k].genPeak + bins[k].genOff <= bins[k].gen
        /\ bins[k].consPeak + bins[k].consOff <= bins[k].cons

\* What the proof of ReopenedOnlyBeyondRetention rests on: no window is both
\* open and remembered as settled, and a settled window is remembered until the
\* watermark is past it by the retention.
SettledMemory ==
    /\ \A k \in DOMAIN bins : k[2] \notin settled[k[1]]
    /\ \A k \in swept :
        \/ k[2] \in settled[k[1]]
        \/ /\ k[1] \in DOMAIN progress
           /\ k[2] < progress[k[1]].watermark - Retention

\* With a grace, no bin of a meter that goes silent is stranded: each one is
\* settled, whatever the order and the event times of the last readings.
SilentMeterSettles ==
    \A m \in Meter, w \in Time :
        <<m, w>> \in DOMAIN bins ~> <<m, w>> \notin DOMAIN bins
====
