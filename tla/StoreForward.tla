---------------------------- MODULE StoreForward ----------------------------
(***************************************************************************)
(* The local store of readings for times without a gateway: CircularBuffer *)
(* (persistence/storage/circular_buffer.rs), a SQLite table with ids in    *)
(* insertion order, and SyncManager (persistence/storage/sync_manager.rs), *)
(* which sends what is not yet synced.  The table survives a restart; the  *)
(* batch in hand and the push counter do not.                              *)
(***************************************************************************)
EXTENDS Integers, FiniteSets

CONSTANTS
    Limit,          \* records per batch (50)
    CleanEvery,     \* pushes per cleanup (100)
    MaxRecord,      \* records pushed
    MaxStart        \* restarts

ASSUME StoreAssumption == Limit \in Nat \ {0} /\ CleanEvery \in Nat \ {0} /\ {MaxRecord, MaxStart} \subseteq Nat

VARIABLES
    last,       \* the last id given (AUTOINCREMENT)
    rows,       \* ids in the table
    synced,     \* ids marked as synced, deleted ones included
    old,        \* ids past the retention time
    pushes,     \* push_count modulo CleanEvery
    loop,       \* "fetch", "send" or "mark": the sync loop; "dead" after a database error
    todo,       \* fetched and not yet sent
    sent,       \* synced_ids: sent in this round
    received,   \* ids the gateway has accepted
    starts      \* restarts so far

storevars == <<last, rows, synced, old, pushes, loop, todo, sent, received, starts>>

StoreInit ==
    /\ last = 0 /\ rows = {} /\ synced = {} /\ old = {} /\ pushes = 0
    /\ loop = "fetch" /\ todo = {} /\ sent = {} /\ received = {} /\ starts = 0

unsynced == rows \ synced

\* cleanup: what is past the retention time goes, if it is synced.
cleanup(kept) == kept \ (old \cap synced)

\* push, with a cleanup every so often.  (The record may be older than the
\* retention time when it is pushed.)
Push ==
    /\ last < MaxRecord
    /\ last' = last + 1
    /\ pushes' = (pushes + 1) % CleanEvery
    /\ rows' = IF pushes' = 0 THEN cleanup(rows \cup {last + 1}) ELSE rows \cup {last + 1}
    /\ UNCHANGED <<synced, old, loop, todo, sent, received, starts>>

Expire(i) ==
    /\ i \in 1 .. last \ old
    /\ old' = old \cup {i}
    /\ UNCHANGED <<last, rows, synced, pushes, loop, todo, sent, received, starts>>

-----------------------------------------------------------------------------
\* Fault: only full batches are read.
get_unsyncedFull(batch) ==
    /\ batch \subseteq unsynced
    /\ Cardinality(batch) = Limit
    /\ \A i \in batch, j \in unsynced : j < i => j \in batch

\* get_unsynced: the first ones, in the order of their ids.
get_unsynced(batch) ==
    /\ batch \subseteq unsynced
    /\ Cardinality(batch) <= Limit
    /\ \A i \in batch, j \in unsynced : j < i => j \in batch
    /\ batch # unsynced => Cardinality(batch) = Limit

Fetch(batch) ==
    /\ loop = "fetch" /\ unsynced # {}
    /\ get_unsynced(batch)
    /\ todo' = batch /\ loop' = "send"
    /\ UNCHANGED <<last, rows, synced, old, pushes, sent, received, starts>>

\* send_to_gateway, for the record next in order.
Next1(i) == i \in todo /\ \A j \in todo : i <= j

Send(i) ==
    /\ loop = "send" /\ Next1(i)
    /\ received' = received \cup {i}
    /\ sent' = sent \cup {i}
    /\ todo' = todo \ {i}
    /\ loop' = IF todo' = {} THEN "mark" ELSE "send"
    /\ UNCHANGED <<last, rows, synced, old, pushes, starts>>

\* Fault: the failed record is skipped.
SendFailsSkip(i, got) ==
    /\ loop = "send" /\ Next1(i)
    /\ received' = IF got THEN received \cup {i} ELSE received
    /\ todo' = todo \ {i}
    /\ loop' = IF todo' = {} THEN "mark" ELSE "send"
    /\ UNCHANGED <<last, rows, synced, old, pushes, sent, starts>>

\* The call fails, before or after the gateway accepted the record; the rest of
\* the batch waits.
SendFails(i, got) ==
    /\ loop = "send" /\ Next1(i)
    /\ received' = IF got THEN received \cup {i} ELSE received
    /\ todo' = {}
    /\ loop' = "mark"
    /\ UNCHANGED <<last, rows, synced, old, pushes, sent, starts>>

\* mark_as_synced, for what was sent.
Mark ==
    /\ loop = "mark"
    /\ synced' = synced \cup sent
    /\ sent' = {} /\ loop' = "fetch"
    /\ UNCHANGED <<last, rows, old, pushes, todo, received, starts>>

\* A database error ends the loop for good.
DbError ==
    /\ loop \in {"fetch", "mark"}
    /\ loop' = "dead" /\ todo' = {} /\ sent' = {}
    /\ UNCHANGED <<last, rows, synced, old, pushes, received, starts>>

\* The process is started again.
StoreRestart ==
    /\ starts < MaxStart /\ starts' = starts + 1
    /\ pushes' = 0
    /\ loop' = "fetch" /\ todo' = {} /\ sent' = {}
    /\ UNCHANGED <<last, rows, synced, old, received>>

StoreStep == Mark \/ (\E batch \in SUBSET unsynced : Fetch(batch))
                  \/ \E i \in todo : Send(i) \/ \E got \in BOOLEAN : SendFails(i, got)

StoreNext ==
    \/ Push \/ (\E i \in 1 .. last : Expire(i))
    \/ StoreStep \/ DbError \/ StoreRestart

StoreSafety == StoreInit /\ [][StoreNext]_storevars

\* The loop runs, and a gateway tried again and again sometimes answers.
StoreFairness ==
    /\ WF_storevars(StoreStep)
    /\ \A i \in 1 .. MaxRecord : SF_storevars(Send(i))

StoreSpec == StoreSafety /\ StoreFairness

-----------------------------------------------------------------------------
\* Ids, the batch and the loop have their shapes.
StoreTypeOK ==
    /\ last \in Nat /\ starts \in Nat /\ pushes \in 0 .. CleanEvery - 1
    /\ rows \subseteq 1 .. last /\ synced \subseteq 1 .. last /\ old \subseteq 1 .. last
    /\ todo \subseteq 1 .. last /\ sent \subseteq 1 .. last /\ received \subseteq 1 .. last
    /\ loop \in {"fetch", "send", "mark", "dead"}

\* A record leaves the table only after the gateway has it: cleanup, restarts
\* and calls whose answer was lost never lose one ("ensures 24-hour data
\* retention for offline operation").
NothingLost == \A i \in 1 .. last : i \in rows \/ i \in received

\* The inductive form: what is marked or about to be was received, and while a
\* batch is being sent everything before one of its records is received or in
\* the batch too.
StoreInv ==
    /\ StoreTypeOK /\ NothingLost
    /\ synced \subseteq received /\ sent \subseteq received
    /\ todo \cap synced = {} /\ (loop # "send" => todo = {})
    /\ \A i \in todo : \A j \in 1 .. i - 1 : j \in received \/ j \in todo

Promise == INSTANCE Delivery WITH accepted <- last, confirmed <- synced

\* The store keeps the promise of Delivery: first receptions in order, repeats
\* only of what is not yet marked, nothing marked that was not received.
KeepsThePromise == Promise!Spec

\* Every record pushed reaches the gateway, unless the loop has died of a
\* database error.
EverythingArrives ==
    \A i \in 1 .. MaxRecord : (i <= last) ~> (i \in received \/ loop = "dead")
=============================================================================
