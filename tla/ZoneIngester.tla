---------------------------- MODULE ZoneIngester ----------------------------
(***************************************************************************)
(* One zone stream of the ingester (zone_ingester.rs): the consumer group  *)
(* on the Redis stream, the tasks that handle its entries, the redelivery  *)
(* loop, and the write-through of the open billing window to the durable   *)
(* bin store.  An entry is its index in the stream.  All readings fall     *)
(* into one window of one meter, whose bin is the count of each entry in   *)
(* it; the sweep of completed windows is in Aggregator and MintOutbox.     *)
(***************************************************************************)
EXTENDS Integers, Sequences, FiniteSets

CONSTANTS
    Kinds,      \* what an entry may hold
    ReadCount,  \* COUNT of XREADGROUP
    ClaimCount, \* entries XPENDING lists
    Workers,    \* ZONE_SEMAPHORE_SIZE
    Length,     \* bound of the stream
    MaxQueue    \* bound of the bin writer's channel

ASSUME ZoneAssumption ==
    /\ Kinds \subseteq
        {"reading", "other", "undecodable", "unparsable", "empty"}
    /\ ReadCount \in Nat \ {0} /\ ClaimCount \in Nat \ {0}
    /\ Workers \in Nat \ {0} /\ Length \in Nat /\ MaxQueue \in Nat

VARIABLES
    \* Redis
    stream,     \* the kinds of the entries added
    cursor,     \* last entry delivered to the group
    pending,    \* the group's pending entries list
    stale,      \* pending entries idle for 30 s
    store,      \* the window's field of gridtokenx:billing:bins
    \* the process
    buffer,     \* entries of a reply that have no task yet
    task,       \* what the task of an entry does
    listed,     \* entries XPENDING found stale
    claimed,    \* entries XCLAIM returned, still to handle
    redo,       \* what the redelivery loop does with the first of them
    agg,        \* the window's bin: how often each entry is in it
    writes,     \* snapshots queued for the bin writer
    \* history
    behind,     \* the last HSET of a snapshot, or the load at start, failed
    blank,      \* the process started without the durable bins
    lost        \* readings acknowledged and missing after a restart

redisVars == <<stream, cursor, pending, stale, store>>
readVars  == <<buffer, task>>
redoVars  == <<listed, claimed, redo>>
binVars   == <<agg, writes>>
histVars  == <<behind, blank, lost>>
vars == <<redisVars, readVars, redoVars, binVars, histVars>>

-----------------------------------------------------------------------------
Entry     == 1 .. Length
TaskState == {"none", "handle", "ack"}

\* Twice and more often are not told apart.
Snapshot == [Entry -> 0 .. 2]
NoBin    == [e \in Entry |-> 0]

TypeOK ==
    /\ stream \in Seq(Kinds) /\ Len(stream) <= Length
    /\ cursor \in 0 .. Len(stream)
    /\ pending \subseteq 1 .. cursor /\ stale \subseteq pending
    /\ store \in Snapshot /\ agg \in Snapshot /\ writes \in Seq(Snapshot)
    /\ buffer \in Seq(1 .. cursor) /\ task \in [Entry -> TaskState]
    /\ listed \subseteq 1 .. cursor /\ claimed \subseteq 1 .. cursor
    /\ redo \in TaskState
    /\ behind \in BOOLEAN /\ blank \in BOOLEAN /\ lost \subseteq Entry

Init ==
    /\ stream = << >> /\ cursor = 0 /\ pending = {} /\ stale = {}
    /\ store = NoBin /\ agg = NoBin /\ writes = << >>
    /\ buffer = << >> /\ task = [e \in Entry |-> "none"]
    /\ listed = {} /\ claimed = {} /\ redo = "none"
    /\ behind = FALSE /\ blank = FALSE /\ lost = {}

-----------------------------------------------------------------------------
(***************************************************************************)
(* Redis                                                                   *)
(***************************************************************************)

\* Router::disseminate adds an entry; a retry of an XADD that had been applied
\* adds one more.
XAdd ==
    /\ Len(stream) < Length
    /\ \E k \in Kinds : stream' = Append(stream, k)
    /\ UNCHANGED <<cursor, pending, stale, store, readVars, redoVars, binVars,
                   histVars>>

\* 30 s pass without a delivery of a pending entry.
Idle(e) ==
    /\ e \in pending \ stale
    /\ stale' = stale \cup {e}
    /\ UNCHANGED <<stream, cursor, pending, store, readVars, redoVars, binVars,
                   histVars>>

Acked(e) == pending' = pending \ {e} /\ stale' = stale \ {e}

-----------------------------------------------------------------------------
(***************************************************************************)
(* process_zone_stream                                                     *)
(***************************************************************************)

NewCursor == IF cursor + ReadCount < Len(stream) THEN cursor + ReadCount
                                                 ELSE Len(stream)

\* XREADGROUP of new entries, once the reply before it has been worked off.
\* When the reply is lost the entries are delivered all the same.
XReadGroup ==
    /\ buffer = << >> /\ cursor < Len(stream)
    /\ cursor' = NewCursor
    /\ pending' = pending \cup (cursor + 1) .. NewCursor
    /\ \/ buffer' = [i \in 1 .. (NewCursor - cursor) |-> cursor + i]
       \/ UNCHANGED buffer
    /\ UNCHANGED <<stream, stale, store, task, redoVars, binVars, histVars>>

\* A task for the next entry, when the semaphore has a permit.
SpawnTask ==
    /\ buffer # << >>
    /\ Cardinality({e \in Entry : task[e] # "none"}) < Workers
    /\ task' = [task EXCEPT ![Head(buffer)] = "handle"]
    /\ buffer' = Tail(buffer)
    /\ UNCHANGED <<redisVars, redoVars, binVars, histVars>>

\* Fault: the snapshot is taken before the reading is added.
CountedBefore(e) ==
    /\ Len(writes) < MaxQueue
    /\ agg' = [agg EXCEPT ![e] = IF @ = 2 THEN 2 ELSE @ + 1]
    /\ writes' = Append(writes, agg)

\* handle_iot_reading up to the XACK: the aggregator is updated and the
\* snapshot queued under one lock.
Counted(e) ==
    LET bin == [agg EXCEPT ![e] = IF @ = 2 THEN 2 ELSE @ + 1]
    IN  /\ Len(writes) < MaxQueue
        /\ agg' = bin
        /\ writes' = Append(writes, bin)

\* Fault: a reading whose owner is not found is acknowledged uncounted.
ToAckUnowned(e) ==
    \/ stream[e] = "reading" /\ Counted(e)
    \/ stream[e] \in {"reading", "other", "undecodable"} /\ UNCHANGED binVars

\* An entry goes on to its XACK, with its reading counted if it holds one.
ToAck(e) ==
    \/ stream[e] = "reading" /\ Counted(e)
    \/ stream[e] \in {"other", "undecodable"} /\ UNCHANGED binVars

HandleTask(e) ==
    /\ task[e] = "handle"
    /\ ToAck(e)
    /\ task' = [task EXCEPT ![e] = "ack"]
    /\ UNCHANGED <<redisVars, buffer, redoVars, histVars>>

\* An entry without an event field, or whose event does not parse, is left in
\* the pending list.
SkipTask(e) ==
    /\ task[e] = "handle"
    /\ stream[e] \in {"unparsable", "empty"}
    /\ task' = [task EXCEPT ![e] = "none"]
    /\ UNCHANGED <<redisVars, buffer, redoVars, binVars, histVars>>

AckTask(e) ==
    /\ task[e] = "ack"
    /\ Acked(e)
    /\ task' = [task EXCEPT ![e] = "none"]
    /\ UNCHANGED <<stream, cursor, store, buffer, redoVars, binVars, histVars>>

\* The XACK fails and is not tried again.  (One that failed after Redis had
\* applied it is an AckTask.)
AckTaskErr(e) ==
    /\ task[e] = "ack"
    /\ task' = [task EXCEPT ![e] = "none"]
    /\ UNCHANGED <<redisVars, buffer, redoVars, binVars, histVars>>

-----------------------------------------------------------------------------
(***************************************************************************)
(* reclaim_stale_messages                                                  *)
(***************************************************************************)

\* XPENDING lists the first entries, whoever they were delivered to; the ones
\* idle for 30 s are picked.
Oldest == {e \in pending : Cardinality({d \in pending : d < e}) < ClaimCount}

XPending ==
    /\ listed = {} /\ claimed = {}
    /\ Oldest \cap stale # {}
    /\ listed' = Oldest \cap stale
    /\ UNCHANGED <<redisVars, readVars, claimed, redo, binVars, histVars>>

\* XCLAIM delivers those of them that are still pending and idle.
XClaim ==
    /\ listed # {}
    /\ claimed' = listed \cap stale
    /\ stale' = stale \ listed
    /\ listed' = {}
    /\ redo' = IF listed \cap stale = {} THEN "none" ELSE "handle"
    /\ UNCHANGED <<stream, cursor, pending, store, readVars, binVars, histVars>>

\* The reply of the XCLAIM is lost, or the command was.
XClaimErr ==
    /\ listed # {}
    /\ stale' \in {stale, stale \ listed}
    /\ listed' = {}
    /\ UNCHANGED <<stream, cursor, pending, store, readVars, claimed, redo,
                   binVars, histVars>>

\* They are handled in the order of their ids.
First(e) == e \in claimed /\ \A d \in claimed : e <= d

NextClaimed(e) ==
    /\ claimed' = claimed \ {e}
    /\ redo' = IF claimed = {e} THEN "none" ELSE "handle"

\* Fault: an entry without an event field is skipped, as the first delivery
\* does.
HandleRedoSkipsEmpty(e) ==
    /\ redo = "handle" /\ First(e)
    /\ \/ ToAck(e) /\ redo' = "ack" /\ UNCHANGED claimed
       \/ stream[e] = "empty" /\ UNCHANGED binVars /\ NextClaimed(e)
    /\ UNCHANGED <<redisVars, readVars, listed, histVars>>

\* Here an entry without an event field is acknowledged too.
HandleRedo(e) ==
    /\ redo = "handle" /\ First(e)
    /\ ToAck(e) \/ (stream[e] = "empty" /\ UNCHANGED binVars)
    /\ redo' = "ack"
    /\ UNCHANGED <<redisVars, readVars, listed, claimed, histVars>>

SkipRedo(e) ==
    /\ redo = "handle" /\ First(e)
    /\ stream[e] = "unparsable"
    /\ NextClaimed(e)
    /\ UNCHANGED <<redisVars, readVars, listed, binVars, histVars>>

AckRedo(e) ==
    /\ redo = "ack" /\ First(e)
    /\ Acked(e)
    /\ NextClaimed(e)
    /\ UNCHANGED <<stream, cursor, store, readVars, listed, binVars, histVars>>

AckRedoErr(e) ==
    /\ redo = "ack" /\ First(e)
    /\ NextClaimed(e)
    /\ UNCHANGED <<redisVars, readVars, listed, binVars, histVars>>

-----------------------------------------------------------------------------
(***************************************************************************)
(* The bin writer and a restart                                            *)
(***************************************************************************)

\* Fault: a write of its own for each snapshot, in no order.
BinWriteUnordered ==
    /\ \E i \in 1 .. Len(writes) :
        /\ store' = writes[i]
        /\ writes' = SubSeq(writes, 1, i - 1) \o SubSeq(writes, i + 1, Len(writes))
    /\ behind' = FALSE
    /\ UNCHANGED <<stream, cursor, pending, stale, readVars, redoVars, agg,
                   blank, lost>>

\* spawn_ordered_writer: the HSET of the oldest snapshot.
BinWrite ==
    /\ writes # << >>
    /\ store' = Head(writes) /\ behind' = FALSE
    /\ writes' = Tail(writes)
    /\ UNCHANGED <<stream, cursor, pending, stale, readVars, redoVars, agg,
                   blank, lost>>

\* A failed HSET is only logged; it may have been applied.
BinWriteErr ==
    /\ writes # << >>
    /\ store' \in {store, Head(writes)} /\ behind' = TRUE
    /\ writes' = Tail(writes)
    /\ UNCHANGED <<stream, cursor, pending, stale, readVars, redoVars, agg,
                   blank, lost>>

\* Readings the group has been delivered and is no longer owed.
Settled == {e \in 1 .. cursor : stream[e] = "reading" /\ e \notin pending}

\* The process stops and starts again; restore_bins loads the durable bin
\* unless load_all fails.
Crash ==
    /\ buffer' = << >> /\ task' = [e \in Entry |-> "none"]
    /\ listed' = {} /\ claimed' = {} /\ redo' = "none"
    /\ writes' = << >>
    /\ \/ agg' = store /\ behind' = FALSE /\ blank' = FALSE
       \/ agg' = NoBin /\ behind' = TRUE /\ blank' = TRUE
    /\ lost' = lost \cup {e \in Settled : agg'[e] = 0}
    /\ UNCHANGED redisVars

-----------------------------------------------------------------------------
Task(e) ==
    HandleTask(e) \/ SkipTask(e) \/ AckTask(e) \/ AckTaskErr(e)

Redo(e) ==
    HandleRedo(e) \/ SkipRedo(e) \/ AckRedo(e) \/ AckRedoErr(e)

Next ==
    \/ XAdd
    \/ \E e \in Entry : Idle(e)
    \/ XReadGroup
    \/ SpawnTask
    \/ \E e \in Entry : Task(e) \/ Redo(e)
    \/ XPending \/ XClaim \/ XClaimErr
    \/ BinWrite \/ BinWriteErr
    \/ Crash

Spec == Init /\ [][Next]_vars

\* The loops go on, every await ends and time passes.  A Redis command that is
\* tried again and again succeeds, and from some time on the process stays up.
Fairness ==
    /\ \A e \in Entry : WF_vars(Idle(e)) /\ WF_vars(Task(e))
    /\ WF_vars(XReadGroup) /\ WF_vars(SpawnTask)
    /\ WF_vars(XPending) /\ SF_vars(XClaim)
    /\ \A e \in Entry : WF_vars(Redo(e)) /\ SF_vars(AckRedo(e))
    /\ WF_vars(BinWrite \/ BinWriteErr)
    /\ <>[][~Crash]_vars

FairSpec == Spec /\ Fairness

-----------------------------------------------------------------------------
(***************************************************************************)
(* Properties                                                              *)
(***************************************************************************)

\* A reading that the consumer group is no longer owed is in the window's bin,
\* unless a restart has dropped it: however tasks, redeliveries and failed
\* commands interleave, handle_iot_reading counts it before its XACK.
AckedIsCounted == \A e \in Settled : agg[e] > 0 \/ e \in lost

\* When the bin writer has nothing left to write, the durable bin is the bin in
\* memory, unless the last HSET failed or the process could not load it: the
\* snapshots are queued under the lock and written in that order.
DurableIsCurrent ==
    IF writes = << >> THEN store = agg \/ behind
                      ELSE writes[Len(writes)] = agg

\* No HSET takes a reading out of the durable bin ("two readings racing for the
\* same (meter, window) can no longer have their HSETs land out of order and
\* leave Redis holding a stale, undercounted bin"), except in a process that
\* started without the durable bins.
DurableNeverRecedes ==
    [][blank \/ \A e \in Entry : store'[e] >= store[e]]_vars

\* "Spawn redelivery task (reclaims messages stale for > 30s)": no entry stays
\* in the pending list for ever, whatever happened to its first delivery.
PendingIsResolved == \A e \in Entry : e \in pending ~> e \notin pending

-----------------------------------------------------------------------------
(***************************************************************************)
(* The parts of the inductive invariant behind the safety properties       *)
(***************************************************************************)

\* Only an entry that was delivered has a task.
DeliveredOnly == \A e \in Entry : task[e] # "none" => e <= cursor

\* A reading that is about to be acknowledged is in the bin.
CountedBeforeAck ==
    \A e \in 1 .. cursor : stream[e] = "reading" =>
        /\ task[e] = "ack" => agg[e] > 0
        /\ redo = "ack" /\ First(e) => agg[e] > 0

\* The durable bin, the queued snapshots and the bin in memory only grow.
Grows(s, t) == \A e \in Entry : s[e] <= t[e]

SnapshotsGrow ==
    /\ \A i \in 1 .. Len(writes) : Grows(writes[i], agg)
    /\ \A i, j \in 1 .. Len(writes) : i <= j => Grows(writes[i], writes[j])
    /\ ~blank => /\ Grows(store, agg)
                 /\ \A i \in 1 .. Len(writes) : Grows(store, writes[i])

\* The inductive invariant: what the tasks and the redelivery loop are about to
\* acknowledge is counted, and the snapshots are in the order of the updates.
IndInv ==
    /\ DeliveredOnly
    /\ CountedBeforeAck
    /\ AckedIsCounted
    /\ DurableIsCurrent
    /\ SnapshotsGrow
====
