----------------------------- MODULE BatchSinks -----------------------------
(***************************************************************************)
(* The three background batchers, which share one shape: a bounded channel *)
(* in front of a task that collects a batch and flushes it when it is full *)
(* or a timer ticks.                                                       *)
(*   "influx"   InfluxWriter (persistence/infra/influxdb.rs)               *)
(*   "pg"       PgReadingsWriter (persistence/infra/pg_readings.rs)        *)
(*   "forward"  BatchWorker (api/ingester/batcher.rs), whose gRPC call is  *)
(*              bypassed: a flush acknowledges the entries in Redis        *)
(* Items are numbered in the order they are recorded, and the channel      *)
(* keeps it: a batch is a set of numbers, in ascending order in its Vec.   *)
(* A write can fail before or after the database applied it.               *)
(***************************************************************************)
EXTENDS Integers, Sequences, FiniteSets

CONSTANTS
    Capacity,       \* CHANNEL_CAPACITY
    BatchSize,      \* BATCH_SIZE, FORWARD_BATCH_SIZE
    MaxItem         \* items recorded

ASSUME SinkAssumption == {Capacity, BatchSize} \subseteq Nat \ {0} /\ MaxItem \in Nat

VARIABLES
    sink,       \* which of the three
    recorded,   \* number of items recorded
    class,      \* item -> "good", or "bad": malformed, without an owner, of another stream
    queue,      \* the channel: items, Flush and Shutdown
    batch,      \* the collected items
    writing,    \* items of the flush in process
    written,    \* what each write put in the database, or acknowledged, in order
    dropped,    \* [item, why] of those that will not be written
    gone        \* "no"; "closing": the senders are gone; the last flush: "ending" after
                \* a shutdown, "flushing" after a close; "stopped"

sinkvars == <<sink, recorded, class, queue, batch, writing, written, dropped, gone>>

\* The task waits in its select!.
Ready == writing = {} /\ gone \in {"no", "closing"}

\* BatchMessage::Flush and ::Shutdown, among item numbers.
Flush == 0
Shutdown == -1

SinkInit ==
    /\ sink \in {"influx", "pg", "forward"}
    /\ recorded = 0 /\ class = <<>>
    /\ queue = <<>> /\ batch = {} /\ writing = {}
    /\ written = <<>> /\ dropped = {} /\ gone = "no"

\* The items are given up for this reason.
Drop(items, why) == dropped \cup {[item |-> k, why |-> why] : k \in items}

\* The items in the channel.
Items(q) == {q[k] : k \in DOMAIN q} \ {Flush, Shutdown}

\* record: try_send never waits and drops what does not fit.  add waits for
\* room instead, and is taken until the task returns.
Record(c) ==
    LET item == recorded + 1
        fits == Len(queue) < Capacity
    IN /\ recorded < MaxItem /\ gone \in {"no", "ending"}
       /\ sink = "forward" => fits
       /\ recorded' = item /\ class' = Append(class, c)
       /\ queue' = IF fits THEN Append(queue, item) ELSE queue
       /\ dropped' = IF fits THEN dropped ELSE Drop({item}, "full")
       /\ UNCHANGED <<sink, batch, writing, written, gone>>

\* BatchHandle::flush and ::shutdown queue behind the items; clones of the
\* handle may still add behind them.
Command(c) ==
    /\ sink = "forward" /\ gone = "no" /\ Len(queue) < Capacity
    /\ queue' = Append(queue, c)
    /\ UNCHANGED <<sink, recorded, class, batch, writing, written, dropped, gone>>

\* The senders are dropped; the queue can still be read to its end.
Close ==
    /\ gone = "no"
    /\ gone' = "closing"
    /\ UNCHANGED <<sink, recorded, class, queue, batch, writing, written, dropped>>

-----------------------------------------------------------------------------
\* Fault: a batch that could not be written is kept for the next flush.
FlushOfKept(b) ==
    /\ writing' = b
    /\ batch' = b
    /\ UNCHANGED dropped

\* flush starts: influx leaves out the points that do not build; the forwarder
\* takes the batch before it acknowledges; nothing is written for an empty one.
\* (The Postgres batch is cleared after the insert, which nothing can observe.)
FlushOf(b) ==
    LET skipped == {k \in b : sink = "influx" /\ class[k] = "bad"}
    IN /\ writing' = b \ skipped
       /\ batch' = {}
       /\ dropped' = Drop(skipped, "malformed")

\* recv: an item joins the batch, which is flushed when full.
RecvItem ==
    LET b == batch \cup {Head(queue)}
    IN /\ Ready /\ queue # <<>> /\ Head(queue) > 0
       /\ queue' = Tail(queue)
       /\ IF Cardinality(b) >= BatchSize THEN FlushOf(b)
          ELSE batch' = b /\ UNCHANGED <<writing, dropped>>
       /\ UNCHANGED <<sink, recorded, class, written, gone>>

\* recv: a command of the handle; shutdown flushes and ends the task.
RecvCommand ==
    /\ Ready /\ queue # <<>> /\ Head(queue) <= 0
    /\ queue' = Tail(queue)
    /\ gone' = CASE Head(queue) = Flush -> gone
                 [] Head(queue) = Shutdown /\ gone = "no" -> "ending"
                 [] Head(queue) = Shutdown /\ gone = "closing" -> "flushing"
    /\ FlushOf(batch)
    /\ UNCHANGED <<sink, recorded, class, written>>

\* Fault: the timer flushes only a full batch.
TickFull == Ready /\ Cardinality(batch) >= BatchSize

\* The timer finds something to flush.
TickDue == Ready /\ batch # {}

TickFlush ==
    /\ TickDue
    /\ FlushOf(batch)
    /\ UNCHANGED <<sink, recorded, class, queue, written, gone>>

\* Fault: the closed channel ends the task at once.
RecvClosedAbrupt ==
    /\ Ready /\ queue = <<>> /\ gone = "closing"
    /\ gone' = "flushing"
    /\ UNCHANGED <<writing, batch, dropped>>
    /\ UNCHANGED <<sink, recorded, class, queue, written>>

\* recv: the channel is closed and read to its end: the last flush, which the
\* forwarder leaves out.
RecvClosed ==
    /\ Ready /\ queue = <<>> /\ gone = "closing"
    /\ gone' = "flushing"
    /\ IF sink # "forward" THEN FlushOf(batch)
       ELSE batch' = {} /\ dropped' = Drop(batch, "stopped") /\ UNCHANGED writing
    /\ UNCHANGED <<sink, recorded, class, queue, written>>

\* After the last flush the task returns; what came behind a shutdown is left.
Return ==
    /\ writing = {} /\ gone \in {"ending", "flushing"}
    /\ gone' = "stopped"
    /\ queue' = <<>>
    /\ dropped' = Drop(Items(queue), "stopped")
    /\ UNCHANGED <<sink, recorded, class, batch, writing, written>>

\* Influx write, or insert_batch with its owner join: all or nothing, rows
\* without an owner left out; a failure is logged and the batch given up.
Written(outcome) ==
    LET unowned == {k \in writing : sink = "pg" /\ class[k] = "bad"}
    IN /\ writing # {} /\ sink # "forward"
       /\ writing' = {}
       /\ written' = IF outcome # "unapplied" THEN Append(written, writing \ unowned) ELSE written
       /\ dropped' = IF outcome = "unapplied" THEN Drop(writing, "failed")
                     ELSE Drop(unowned, "unattributed")
       /\ UNCHANGED <<sink, recorded, class, queue, batch, gone>>

\* process_success: one XACK per stream, in any order; the first failure ends
\* it and what is left is not tried again.
Ack(stream, outcome) ==
    LET ids == {k \in writing : class[k] = stream}
        left == IF outcome = "lost" THEN writing \ ids ELSE writing
    IN /\ sink = "forward" /\ ids # {}
       /\ written' = IF outcome # "unapplied" THEN Append(written, ids) ELSE written
       /\ dropped' = IF outcome = "ok" THEN dropped ELSE Drop(left, "failed")
       /\ writing' = IF outcome = "ok" THEN writing \ ids ELSE {}
       /\ UNCHANGED <<sink, recorded, class, queue, batch, gone>>

Outcome == {"ok", "lost", "unapplied"}

WorkerStep ==
    \/ RecvItem \/ RecvCommand \/ TickFlush \/ RecvClosed \/ Return
    \/ \E o \in Outcome : Written(o)
    \/ \E o \in Outcome, s \in {"good", "bad"} : Ack(s, o)

SinkNext ==
    \/ \E c \in {"good", "bad"} : Record(c)
    \/ \E c \in {Flush, Shutdown} : Command(c)
    \/ Close
    \/ WorkerStep

SinkSpec == SinkInit /\ [][SinkNext]_sinkvars /\ WF_sinkvars(WorkerStep)

-----------------------------------------------------------------------------
Waiting == Items(queue) \cup batch \cup writing
Wrote == UNION {written[k] : k \in DOMAIN written}
GivenUp == {d.item : d \in dropped}

\* The channel and the batch stay within their bounds.
SinkTypeOK ==
    /\ Len(queue) <= Capacity /\ Cardinality(batch) < BatchSize
    /\ Len(class) = recorded /\ recorded \in 0 .. MaxItem
    /\ gone \in {"no", "closing", "ending", "flushing", "stopped"}

\* Every item recorded waits, is written or was given up for a reason, and
\* never two of these: a flush that fails, even one the database had applied,
\* neither repeats its items nor takes others with it; and a history writer that
\* ends has tried to write all it was handed ("flush remainder and exit"); only
\* the forwarder leaves entries behind, unacknowledged.  Each item is written at
\* most once, and history keeps the order of ingestion.
EveryItemAccounted ==
    /\ 1 .. recorded = Waiting \cup Wrote \cup GivenUp
    /\ Waiting \cap (Wrote \cup GivenUp) = {} /\ Wrote \cap GivenUp = {}
    /\ gone = "stopped" => Waiting = {}
    /\ sink # "forward" => \A d \in dropped : d.why # "stopped"
    /\ \A i, j \in DOMAIN written : i < j =>
          \A k \in written[i], n \in written[j] : k # n /\ (sink # "forward" => k < n)

\* A slow or failing database delays nothing for ever: every item leaves the
\* channel and the batch ("one bad batch can't wedge the writer"), a partial
\* batch by the timer.
EveryItemLeaves == \A k \in 1 .. MaxItem : k \in Waiting ~> k \notin Waiting
=============================================================================
