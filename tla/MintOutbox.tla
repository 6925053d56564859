----------------------------- MODULE MintOutbox -----------------------------
(***************************************************************************)
(* From a completed billing bin to a confirmed on-chain mint: the          *)
(* settlement sink and the outbox drain loop of src/main.rs, the attempts  *)
(* of mint_settlement.rs, the Redis hashes of bin_store.rs and             *)
(* mint_outbox.rs, and the bridge behind infra/mint.rs.                    *)
(*                                                                         *)
(* A field is the identity "{meter_serial}:{window_start_ms}" that the     *)
(* durable bin, the outbox entry, the in-flight key and the idempotency    *)
(* key of the bridge share.  The amount travels with it unread.  A step    *)
(* ends where the code awaits Redis or the bridge; a Redis command that    *)
(* returns Err may or may not have been applied.  The wallet lookup of an  *)
(* attempt is part of the step that publishes or gives up: an attempt kept *)
(* off its key by another one's lookup is one that gives up.               *)
(***************************************************************************)
EXTENDS Integers, FiniteSets

CONSTANTS
    Field,      \* the (meter, window) pairs
    MaxAge,     \* MINT_OUTBOX_MAX_AGE_SECS in clock ticks; 0 disables parking
    Permits,    \* MINT_INFLIGHT_LIMIT
    BatchSize,  \* AGGREGATOR_MINT_BATCH_SIZE
    Slot        \* immediate attempts one field may have alive (a bound)

ASSUME ConstantsAssumption ==
    /\ MaxAge \in Nat
    /\ Permits \in Nat \ {0}
    /\ BatchSize \in Nat \ {0}
    /\ "drain" \notin Slot /\ "inline" \notin Slot

VARIABLES
    \* aggregator and bin writer, in memory
    mem,        \* bins held by the aggregator
    settled,    \* windows this process has swept and still remembers
    writes,     \* bin snapshots queued for the bin writer
    \* Redis, Postgres, the bridge and the chain: they survive a crash
    store,      \* gridtokenx:billing:bins
    outbox,     \* gridtokenx:billing:mint_outbox: age of each entry
    parked,     \* gridtokenx:billing:mint_outbox:parked
    row,        \* mint status of the reading rows of a window
    wire,       \* mint requests stored in JetStream, not yet handled
    minted,     \* (meter, window) PDAs on the chain
    \* the settlement sink
    spc, scur, todo, handoff,
    \* the drain loop and its JoinSet of batches
    dpc, dcur, toPark, toMint, chunks, running,
    \* attempts: who holds which key
    att, inflight, permits,
    \* history
    promised    \* fields an HSET has put in the outbox

aggVars   == <<mem, settled, writes>>
redisVars == <<store, outbox, parked>>
chainVars == <<wire, minted>>
sinkVars  == <<spc, scur, todo, handoff>>
drainVars == <<dpc, dcur, toPark, toMint, chunks, running>>
attVars   == <<att, inflight, permits>>
histVars  == <<promised>>
vars == <<aggVars, redisVars, row, chainVars, sinkVars, drainVars, attVars,
          histVars>>

-----------------------------------------------------------------------------
Absent == -1
Age    == 0 .. (MaxAge + 1)

Queued == {f \in Field : outbox[f] # Absent}

\* The tasks that end in MintOutbox::remove: the attempts the sink spawns after
\* an enqueue, and the batches of the drain loop.  A window that is swept again
\* may find its earlier attempt still alive.
Who == Slot \cup {"drain"}

AttemptState == {"none", "queued", "claimed", "wait", "clear", "unpark"}
SinkState    == {"idle", "next", "enqueue", "retry", "inline", "await", "evict"}
DrainState   == {"idle", "park", "hdel", "join"}
Handoff      == {"NotApplicable", "Enqueued", "MintedDirectly", "Lost"}
RowState     == {"pending", "minted", "no_surplus"}

TypeOK ==
    /\ mem \subseteq Field /\ settled \subseteq Field /\ writes \subseteq Field
    /\ store \subseteq Field /\ parked \subseteq Field
    /\ outbox \in [Field -> Age \cup {Absent}]
    /\ row \in [Field -> RowState]
    /\ wire \subseteq Field /\ minted \subseteq Field
    /\ spc \in SinkState /\ scur \subseteq Field /\ todo \subseteq Field
    /\ handoff \in Handoff
    /\ dpc \in DrainState /\ dcur \subseteq Field
    /\ toPark \subseteq Field /\ toMint \subseteq Field
    /\ chunks \subseteq SUBSET Field /\ running \subseteq SUBSET Field
    /\ att \in [Who -> [Field -> AttemptState]]
    /\ inflight \subseteq Field
    /\ permits \in Int
    /\ promised \subseteq Field

\* What a process starts with, besides the bins it restores.
ProcessInit ==
    /\ settled = {} /\ writes = {}
    /\ spc = "idle" /\ scur = {} /\ todo = {} /\ handoff = "NotApplicable"
    /\ dpc = "idle" /\ dcur = {} /\ toPark = {} /\ toMint = {}
    /\ chunks = {} /\ running = {}
    /\ att = [w \in Who |-> [f \in Field |-> "none"]]
    /\ inflight = {} /\ permits = Permits

Init ==
    /\ ProcessInit
    /\ mem = {} /\ store = {} /\ parked = {}
    /\ outbox = [f \in Field |-> Absent]
    /\ row = [f \in Field |-> "pending"]
    /\ wire = {} /\ minted = {}
    /\ promised = {}

-----------------------------------------------------------------------------
(***************************************************************************)
(* The bin before settlement                                               *)
(***************************************************************************)

\* Aggregator::handle_reading under the ingester's lock, which also queues the
\* bin's snapshot for the writer.  A reading of a swept window is dropped.
HandleReading(f) ==
    /\ f \notin settled
    /\ mem' = mem \cup {f}
    /\ writes' = writes \cup {f}
    /\ UNCHANGED <<settled, redisVars, row, chainVars, sinkVars, drainVars,
                   attVars, histVars>>

\* The ordered writer's HSET of a snapshot; a failed one is only logged.
BinWrite(f) ==
    /\ f \in writes
    /\ writes' = writes \ {f}
    /\ store' \in {store, store \cup {f}}
    /\ UNCHANGED <<mem, settled, outbox, parked, row, chainVars, sinkVars,
                   drainVars, attVars, histVars>>

-----------------------------------------------------------------------------
(***************************************************************************)
(* Redis hash operations of mint_outbox.rs                                 *)
(***************************************************************************)

\* Fault: the test for the disabled bound is inverted.
is_expiredInverted(age) == MaxAge = 0 /\ age > MaxAge

is_expired(age) == MaxAge # 0 /\ age > MaxAge

\* The HSET of MintOutbox::enqueue: overwrites the field, stamped now.
Enqueued(f) ==
    /\ outbox' = [outbox EXCEPT ![f] = 0]
    /\ promised' = promised \cup {f}

\* An enqueue whose reply is Err: applied or not.
EnqueueErr(f) == Enqueued(f) \/ UNCHANGED <<outbox, histVars>>

Dequeued(f) == outbox' = [outbox EXCEPT ![f] = Absent]

\* Fault: a key is taken that is in flight.
try_beginBlind(f) == inflight' = inflight \cup {f}
\* MintInFlight::try_begin and the drop of its guards.
try_begin(f) == f \notin inflight /\ inflight' = inflight \cup {f}
drop(fs)     == inflight' = inflight \ fs

\* PgReadingsWriter::mark_minted and mark_no_surplus.  Both are best-effort:
\* the caller logs an error, or has no writer, and goes on.
mark_minted(fs) ==
    \E ws \in SUBSET fs :
        row' = [f \in Field |-> IF f \in ws THEN "minted" ELSE row[f]]

mark_no_surplus(f) ==
    row' \in {row, [row EXCEPT ![f] = IF @ = "pending" THEN "no_surplus" ELSE @]}

-----------------------------------------------------------------------------
(***************************************************************************)
(* The settlement sink                                                     *)
(***************************************************************************)

\* Fault: every handed-off bin is evicted.
bin_durably_settledAlways(h) == TRUE

bin_durably_settled(h) == h # "Lost"

\* peek_completed_bins and remove_bins in one critical section.  remove_bins
\* remembers the windows and forgets the ones behind the retention horizon, the
\* swept ones included.
Sweep ==
    /\ spc = "idle"
    /\ \E bins \in SUBSET mem \ {{}} :
        /\ mem' = mem \ bins
        /\ \E forgotten \in SUBSET (settled \cup bins) :
            settled' = (settled \cup bins) \ forgotten
        /\ todo' = bins
    /\ spc' = "next"
    /\ UNCHANGED <<writes, redisVars, row, chainVars, scur, handoff, drainVars,
                   attVars, histVars>>

SweepDone ==
    /\ spc = "next" /\ todo = {}
    /\ spc' = "idle" /\ scur' = {}
    /\ UNCHANGED <<aggVars, redisVars, row, chainVars, todo, handoff, drainVars,
                   attVars, histVars>>

\* plan_mint finds a surplus and the owner gate lets it pass: an owner is
\* known, or a lookup failed.
PlanSurplus(f) ==
    /\ spc = "next" /\ f \in todo
    /\ spc' = "enqueue" /\ scur' = {f} /\ todo' = todo \ {f}
    /\ UNCHANGED <<aggVars, redisVars, row, chainVars, handoff, drainVars,
                   attVars, histVars>>

\* plan_mint finds no surplus: the rows of the window are marked.
PlanNoSurplus(f) ==
    /\ spc = "next" /\ f \in todo
    /\ mark_no_surplus(f)
    /\ handoff' = "NotApplicable"
    /\ spc' = "evict" /\ scur' = {f} /\ todo' = todo \ {f}
    /\ UNCHANGED <<aggVars, redisVars, chainVars, drainVars, attVars, histVars>>

\* A surplus of a meter that neither the registry nor the meters table knows, or
\* minting is disabled: nothing is enqueued.
PlanUnattributed(f) ==
    /\ spc = "next" /\ f \in todo
    /\ handoff' = "NotApplicable"
    /\ spc' = "evict" /\ scur' = {f} /\ todo' = todo \ {f}
    /\ UNCHANGED <<aggVars, redisVars, row, chainVars, drainVars, attVars,
                   histVars>>

\* enqueue returns Ok: the immediate attempt is spawned.
SinkEnqueueOk(f) ==
    /\ spc = "enqueue" /\ f \in scur
    /\ Enqueued(f)
    /\ \E s \in Slot : /\ att[s][f] = "none"
                       /\ att' = [att EXCEPT ![s][f] = "queued"]
    /\ handoff' = "Enqueued"
    /\ spc' = "evict"
    /\ UNCHANGED <<aggVars, store, parked, row, chainVars, scur, todo,
                   drainVars, inflight, permits>>

SinkEnqueueErr(f) ==
    /\ spc = "enqueue" /\ f \in scur
    /\ EnqueueErr(f)
    /\ spc' = "retry"
    /\ UNCHANGED <<aggVars, store, parked, row, chainVars, scur, todo, handoff,
                   drainVars, attVars>>

\* The one retry of the enqueue; when it succeeds nothing is spawned.
SinkRetryOk(f) ==
    /\ spc = "retry" /\ f \in scur
    /\ Enqueued(f)
    /\ handoff' = "Enqueued"
    /\ spc' = "evict"
    /\ UNCHANGED <<aggVars, store, parked, row, chainVars, scur, todo,
                   drainVars, attVars>>

SinkRetryErr(f) ==
    /\ spc = "retry" /\ f \in scur
    /\ EnqueueErr(f)
    /\ spc' = "inline"
    /\ UNCHANGED <<aggVars, store, parked, row, chainVars, scur, todo, handoff,
                   drainVars, attVars>>

\* The last-resort attempt_mint in the sink's own task, without a permit.  It
\* gives up when the key is in flight, the wallet does not resolve to a valid
\* one, or the publish fails (the request may be stored all the same).
InlineGiveUp(f) ==
    /\ spc = "inline" /\ f \in scur
    /\ \/ UNCHANGED wire
       \/ f \notin inflight /\ wire' = wire \cup {f}
    /\ handoff' = "Lost"
    /\ spc' = "evict"
    /\ UNCHANGED <<aggVars, redisVars, row, minted, scur, todo, drainVars,
                   attVars, histVars>>

InlinePublish(f) ==
    /\ spc = "inline" /\ f \in scur
    /\ try_begin(f)
    /\ wire' = wire \cup {f}
    /\ spc' = "await"
    /\ UNCHANGED <<aggVars, redisVars, row, minted, scur, todo, handoff,
                   drainVars, att, permits, histVars>>

\* Fault: a timeout is taken for a confirmation.
InlineConfirmedUnheard(f) ==
    /\ spc = "await" /\ f \in scur
    /\ mark_minted({f})
    /\ drop({f})
    /\ handoff' = "MintedDirectly"
    /\ spc' = "evict"
    /\ UNCHANGED <<aggVars, redisVars, chainVars, scur, todo, drainVars, att,
                   permits, histVars>>

\* The bridge's reply, the write-back and the return from attempt_mint.
InlineConfirmed(f) ==
    /\ spc = "await" /\ f \in scur
    /\ f \in minted
    /\ mark_minted({f})
    /\ drop({f})
    /\ handoff' = "MintedDirectly"
    /\ spc' = "evict"
    /\ UNCHANGED <<aggVars, redisVars, chainVars, scur, todo, drainVars, att,
                   permits, histVars>>

\* An error reply, or no reply before the timeout.
InlineFailed(f) ==
    /\ spc = "await" /\ f \in scur
    /\ drop({f})
    /\ handoff' = "Lost"
    /\ spc' = "evict"
    /\ UNCHANGED <<aggVars, redisVars, row, chainVars, scur, todo, drainVars,
                   att, permits, histVars>>

\* The durable bin is deleted unless the surplus was lost; a failed HDEL is
\* only logged.
SinkEvict(f) ==
    /\ spc = "evict" /\ f \in scur
    /\ \/ UNCHANGED store
       \/ bin_durably_settled(handoff) /\ store' = store \ {f}
    /\ spc' = "next" /\ scur' = {}
    /\ UNCHANGED <<aggVars, outbox, parked, row, chainVars, todo, handoff,
                   drainVars, attVars, histVars>>

-----------------------------------------------------------------------------
(***************************************************************************)
(* The immediate attempt the sink spawns                                   *)
(***************************************************************************)

\* With a permit, attempt_mint returns false before it has a request to wait
\* for: the key is in flight, the wallet does not resolve to a valid one, or
\* the publish fails.
SpawnedGiveUp(s, f) ==
    /\ att[s][f] = "queued" /\ permits > 0
    /\ \/ UNCHANGED wire
       \/ f \notin inflight /\ wire' = wire \cup {f}
    /\ att' = [att EXCEPT ![s][f] = "none"]
    /\ UNCHANGED <<aggVars, redisVars, row, minted, sinkVars, drainVars,
                   inflight, permits, histVars>>

SpawnedPublish(s, f) ==
    /\ att[s][f] = "queued" /\ permits > 0
    /\ permits' = permits - 1
    /\ try_begin(f)
    /\ wire' = wire \cup {f}
    /\ att' = [att EXCEPT ![s][f] = "wait"]
    /\ UNCHANGED <<aggVars, redisVars, row, minted, sinkVars, drainVars,
                   histVars>>

\* The guard is dropped when attempt_mint returns, before the caller's remove.
SpawnedConfirmed(s, f) ==
    /\ att[s][f] = "wait"
    /\ f \in minted
    /\ mark_minted({f})
    /\ drop({f})
    /\ att' = [att EXCEPT ![s][f] = "clear"]
    /\ UNCHANGED <<aggVars, redisVars, chainVars, sinkVars, drainVars, permits,
                   histVars>>

\* Fault: the result of the attempt is not looked at before remove.
SpawnedFailedRemoves(s, f) ==
    /\ att[s][f] = "wait"
    /\ drop({f})
    /\ att' = [att EXCEPT ![s][f] = "clear"]
    /\ UNCHANGED <<aggVars, redisVars, row, chainVars, sinkVars, drainVars,
                   permits, histVars>>

SpawnedFailed(s, f) ==
    /\ att[s][f] = "wait"
    /\ drop({f})
    /\ permits' = permits + 1
    /\ att' = [att EXCEPT ![s][f] = "none"]
    /\ UNCHANGED <<aggVars, redisVars, row, chainVars, sinkVars, drainVars,
                   histVars>>

-----------------------------------------------------------------------------
(***************************************************************************)
(* MintOutbox::remove, after a confirmation.  A spawned attempt ends with  *)
(* it and gives its permit back; a batch removes its fields in turn.       *)
(***************************************************************************)
Ended(w, f) ==
    /\ att' = [att EXCEPT ![w][f] = "none"]
    /\ permits' = IF w = "drain" THEN permits ELSE permits + 1

InTurn(w, f) ==
    w = "drain" =>
        \A b \in chunks : f \in b => \A g \in b : att["drain"][g] # "unpark"

RemoveOutboxOk(w, f) ==
    /\ att[w][f] = "clear" /\ InTurn(w, f)
    /\ Dequeued(f)
    /\ att' = [att EXCEPT ![w][f] = "unpark"]
    /\ UNCHANGED <<aggVars, store, parked, row, chainVars, sinkVars, drainVars,
                   inflight, permits, histVars>>

RemoveOutboxErr(w, f) ==
    /\ att[w][f] = "clear" /\ InTurn(w, f)
    /\ Dequeued(f) \/ UNCHANGED outbox
    /\ Ended(w, f)
    /\ UNCHANGED <<aggVars, store, parked, row, chainVars, sinkVars, drainVars,
                   inflight, histVars>>

\* The HDEL of the parked copy is best-effort.
RemoveParked(w, f) ==
    /\ att[w][f] = "unpark"
    /\ parked' = parked \ {f} \/ UNCHANGED parked
    /\ Ended(w, f)
    /\ UNCHANGED <<aggVars, store, outbox, row, chainVars, sinkVars, drainVars,
                   inflight, promised>>

-----------------------------------------------------------------------------
(***************************************************************************)
(* The drain loop                                                          *)
(***************************************************************************)

\* load_all, and the partition of what it returned.
DrainLoad ==
    /\ dpc = "idle" /\ Queued # {}
    /\ toPark' = {f \in Queued : is_expired(outbox[f])}
    /\ toMint' = Queued \ toPark'
    /\ dpc' = "park"
    /\ UNCHANGED <<aggVars, redisVars, row, chainVars, sinkVars, dcur, chunks,
                   running, attVars, histVars>>

\* MintOutbox::park: the HSET of the parked copy, then the HDEL.  An Err of
\* either ends it.
ParkSetOk(f) ==
    /\ dpc = "park" /\ f \in toPark
    /\ parked' = parked \cup {f}
    /\ dcur' = {f} /\ toPark' = toPark \ {f}
    /\ dpc' = "hdel"
    /\ UNCHANGED <<aggVars, store, outbox, row, chainVars, sinkVars, toMint,
                   chunks, running, attVars, histVars>>

\* Fault: the error of the HSET is ignored and the HDEL goes ahead.
ParkSetErrIgnored(f) ==
    /\ dpc = "park" /\ f \in toPark
    /\ parked' \in {parked, parked \cup {f}}
    /\ dcur' = {f} /\ toPark' = toPark \ {f}
    /\ dpc' = "hdel"
    /\ UNCHANGED <<aggVars, store, outbox, row, chainVars, sinkVars, toMint,
                   chunks, running, attVars, histVars>>

ParkSetErr(f) ==
    /\ dpc = "park" /\ f \in toPark
    /\ parked' \in {parked, parked \cup {f}}
    /\ toPark' = toPark \ {f}
    /\ UNCHANGED <<aggVars, store, outbox, row, chainVars, sinkVars, dpc, dcur,
                   toMint, chunks, running, attVars, histVars>>

ParkDelOk(f) ==
    /\ dpc = "hdel" /\ f \in dcur
    /\ Dequeued(f)
    /\ dcur' = {} /\ dpc' = "park"
    /\ UNCHANGED <<aggVars, store, parked, row, chainVars, sinkVars, toPark,
                   toMint, chunks, running, attVars, histVars>>

ParkDelErr(f) ==
    /\ dpc = "hdel" /\ f \in dcur
    /\ Dequeued(f) \/ UNCHANGED outbox
    /\ dcur' = {} /\ dpc' = "park"
    /\ UNCHANGED <<aggVars, store, parked, row, chainVars, sinkVars, toPark,
                   toMint, chunks, running, attVars, histVars>>

\* The ways to cut fs into chunks of BatchSize, the last one possibly shorter.
Chunks(fs) ==
    {cs \in SUBSET (SUBSET fs \ {{}}) :
        /\ UNION cs = fs
        /\ \A b, c \in cs : b # c => b \cap c = {}
        /\ \A b \in cs : Cardinality(b) <= BatchSize
        /\ Cardinality({b \in cs : Cardinality(b) < BatchSize}) <= 1}

\* One task of the JoinSet for each chunk.
DrainSpawn ==
    /\ dpc = "park" /\ toPark = {}
    /\ chunks' \in Chunks(toMint)
    /\ att' = [att EXCEPT !["drain"] =
                    [f \in Field |-> IF f \in toMint THEN "queued" ELSE @[f]]]
    /\ toMint' = {} /\ dpc' = "join"
    /\ UNCHANGED <<aggVars, redisVars, row, chainVars, sinkVars, dcur, toPark,
                   running, inflight, permits, histVars>>

DrainJoin ==
    /\ dpc = "join" /\ chunks = {}
    /\ dpc' = "idle"
    /\ UNCHANGED <<aggVars, redisVars, row, chainVars, sinkVars, dcur, toPark,
                   toMint, chunks, running, attVars, histVars>>

\* Fault: the batch does not wait for its permit.
BatchAcquireNoWait(b) ==
    /\ b \in chunks \ running
    /\ permits' = permits - 1
    /\ running' = running \cup {b}
    /\ UNCHANGED <<aggVars, redisVars, row, chainVars, sinkVars, dpc, dcur,
                   toPark, toMint, chunks, att, inflight, histVars>>

BatchAcquire(b) ==
    /\ b \in chunks \ running /\ permits > 0
    /\ permits' = permits - 1
    /\ running' = running \cup {b}
    /\ UNCHANGED <<aggVars, redisVars, row, chainVars, sinkVars, dpc, dcur,
                   toPark, toMint, chunks, att, inflight, histVars>>

InState(b, st) == {f \in b : att["drain"][f] = st}

\* att with the fields of fs moved to state st of the drain.
DrainMove(fs, st) ==
    [att EXCEPT !["drain"] = [f \in Field |-> IF f \in fs THEN st ELSE @[f]]]

\* attempt_mint_batch takes its entries in turn: claim the key, resolve the
\* wallet, push the input; or leave the entry for the next tick.
BatchClaim(b, f) ==
    /\ b \in running /\ f \in InState(b, "queued")
    /\ try_begin(f)
    /\ att' = DrainMove({f}, "claimed")
    /\ UNCHANGED <<aggVars, redisVars, row, chainVars, sinkVars, drainVars,
                   permits, histVars>>

BatchSkip(b, f) ==
    /\ b \in running /\ f \in InState(b, "queued")
    /\ att' = DrainMove({f}, "none")
    /\ UNCHANGED <<aggVars, redisVars, row, chainVars, sinkVars, drainVars,
                   inflight, permits, histVars>>

\* One envelope for all inputs of the batch.
BatchPublishOk(b) ==
    /\ b \in running /\ InState(b, "queued") = {} /\ InState(b, "claimed") # {}
    /\ wire' = wire \cup InState(b, "claimed")
    /\ att' = DrainMove(InState(b, "claimed"), "wait")
    /\ UNCHANGED <<aggVars, redisVars, row, minted, sinkVars, drainVars,
                   inflight, permits, histVars>>

BatchPublishErr(b) ==
    /\ b \in running /\ InState(b, "queued") = {} /\ InState(b, "claimed") # {}
    /\ wire' \in {wire, wire \cup InState(b, "claimed")}
    /\ drop(InState(b, "claimed"))
    /\ att' = DrainMove(InState(b, "claimed"), "none")
    /\ UNCHANGED <<aggVars, redisVars, row, minted, sinkVars, drainVars,
                   permits, histVars>>

\* The reply confirms some of the items, all, or none (an error, a timeout);
\* the confirmed ones are written back and the guards dropped.
BatchReply(b) ==
    /\ b \in running /\ InState(b, "wait") # {}
    /\ \E ok \in SUBSET (InState(b, "wait") \cap minted) :
        /\ mark_minted(ok)
        /\ att' = [att EXCEPT !["drain"] =
                    [f \in Field |-> IF f \in ok THEN "clear"
                                     ELSE IF f \in InState(b, "wait") THEN "none"
                                     ELSE @[f]]]
    /\ drop(InState(b, "wait"))
    /\ UNCHANGED <<aggVars, redisVars, chainVars, sinkVars, drainVars, permits,
                   histVars>>

BatchDone(b) ==
    /\ b \in running /\ InState(b, "none") = b
    /\ chunks' = chunks \ {b} /\ running' = running \ {b}
    /\ permits' = permits + 1
    /\ UNCHANGED <<aggVars, redisVars, row, chainVars, sinkVars, dpc, dcur,
                   toPark, toMint, att, inflight, histVars>>

-----------------------------------------------------------------------------
(***************************************************************************)
(* The bridge and the chain (external), the clock, a crash                 *)
(***************************************************************************)

\* The bridge handles a request: the mint lands, or the (meter, window) PDA
\* exists and the request is a duplicate.
Land(f) ==
    /\ f \in wire
    /\ minted' = minted \cup {f} /\ wire' = wire \ {f}
    /\ UNCHANGED <<aggVars, redisVars, row, sinkVars, drainVars, attVars,
                   histVars>>

\* A stale or rejected request.
Reject(f) ==
    /\ f \in wire
    /\ wire' = wire \ {f}
    /\ UNCHANGED <<aggVars, redisVars, row, minted, sinkVars, drainVars,
                   attVars, histVars>>

\* Ages beyond MaxAge + 1 are not told apart.
Tick ==
    /\ \E f \in Field : outbox[f] \in 0 .. MaxAge
    /\ outbox' = [f \in Field |->
                    IF outbox[f] \in 0 .. MaxAge THEN outbox[f] + 1 ELSE outbox[f]]
    /\ UNCHANGED <<aggVars, store, parked, row, chainVars, sinkVars, drainVars,
                   attVars, histVars>>

\* The process stops and starts again; restore_bins reloads the durable bins
\* unless load_all fails.
Crash ==
    /\ mem' \in {store, {}} /\ settled' = {} /\ writes' = {}
    /\ spc' = "idle" /\ scur' = {} /\ todo' = {} /\ handoff' = "NotApplicable"
    /\ dpc' = "idle" /\ dcur' = {} /\ toPark' = {} /\ toMint' = {}
    /\ chunks' = {} /\ running' = {}
    /\ att' = [w \in Who |-> [f \in Field |-> "none"]]
    /\ inflight' = {} /\ permits' = Permits
    /\ UNCHANGED <<redisVars, row, chainVars, histVars>>

-----------------------------------------------------------------------------
Sink ==
    \/ Sweep
    \/ SweepDone
    \/ \E f \in Field :
        \/ PlanSurplus(f) \/ PlanNoSurplus(f) \/ PlanUnattributed(f)
        \/ SinkEnqueueOk(f) \/ SinkEnqueueErr(f)
        \/ SinkRetryOk(f) \/ SinkRetryErr(f)
        \/ InlineGiveUp(f) \/ InlinePublish(f)
        \/ InlineConfirmed(f) \/ InlineFailed(f)
        \/ SinkEvict(f)

Spawned(s, f) ==
    \/ SpawnedGiveUp(s, f) \/ SpawnedPublish(s, f)
    \/ SpawnedConfirmed(s, f) \/ SpawnedFailed(s, f)

Remove(w, f) ==
    RemoveOutboxOk(w, f) \/ RemoveOutboxErr(w, f) \/ RemoveParked(w, f)

Drain ==
    \/ DrainLoad
    \/ DrainSpawn
    \/ DrainJoin
    \/ \E f \in Field :
        ParkSetOk(f) \/ ParkSetErr(f) \/ ParkDelOk(f) \/ ParkDelErr(f)

Batch(b) ==
    \/ BatchAcquire(b)
    \/ \E f \in b : BatchClaim(b, f) \/ BatchSkip(b, f)
    \/ BatchPublishOk(b) \/ BatchPublishErr(b)
    \/ BatchReply(b)
    \/ BatchDone(b)

Next ==
    \/ \E f \in Field : HandleReading(f) \/ BinWrite(f)
    \/ Sink
    \/ \E s \in Slot, f \in Field : Spawned(s, f)
    \/ \E w \in Who, f \in Field : Remove(w, f)
    \/ Drain
    \/ \E b \in chunks : Batch(b)
    \/ \E f \in Field : Land(f) \/ Reject(f)
    \/ Tick
    \/ Crash

Spec == Init /\ [][Next]_vars

\* Every await of the process ends: Redis and Postgres calls return, a mint
\* reply arrives or its timeout expires, and the loops' tickers fire.  The
\* semaphore is first-in first-out, so a task that waits for a permit gets one.
\* Redis is not down for ever: a park that is tried again and again succeeds.
\* The process stays up from some time on.
Fairness ==
    /\ WF_vars(Tick)
    /\ WF_vars(Sink)
    /\ WF_vars(Drain)
    /\ \A f \in Field : SF_vars(ParkSetOk(f)) /\ SF_vars(ParkDelOk(f))
    /\ \A s \in Slot, f \in Field : SF_vars(Spawned(s, f))
    /\ \A w \in Who, f \in Field : WF_vars(Remove(w, f))
    /\ \A b \in SUBSET Field : SF_vars(b \in chunks /\ Batch(b))
    /\ <>[][~Crash]_vars

-----------------------------------------------------------------------------
(***************************************************************************)
(* Properties                                                              *)
(***************************************************************************)

\* A surplus that reached the outbox is never lost (mint_outbox.rs): it is in
\* the outbox, in the parked hash, or on the chain, whatever fails or crashes
\* between the HSETs and HDELs of enqueue, park and remove.
NoSilentLoss == promised \subseteq Queued \cup parked \cup minted

\* The durable bin of a window is deleted only when its surplus has another
\* durable home, or when the sweep found nothing to mint for it
\* (bin_durably_settled).
EvictedOnlyWhenSafe ==
    [][\A f \in store \ store' :
        f \in Queued \cup parked \cup minted \/ handoff = "NotApplicable"]_vars

\* Attempt w is between try_begin and the drop of its guard on f.
Attempts == Who \cup {"inline"}
Holds(w, f) ==
    IF w = "inline" THEN spc = "await" /\ f \in scur
                    ELSE att[w][f] \in {"claimed", "wait"}

\* Within a process, the sink, its spawned attempts and the drain's batches
\* never have two round trips to the bridge open for the same field
\* (MintInFlight).
OneRoundTrip ==
    \A f \in Field : \A v, w \in Attempts : Holds(v, f) /\ Holds(w, f) => v = w

\* The spawned attempts and batches between their acquire and the end of their
\* last remove number at most MINT_INFLIGHT_LIMIT (the semaphore of main.rs,
\* which the sink's inline attempt does not take part in): no path gives a
\* permit back early or twice.
PermitBound ==
    Cardinality({a \in Slot \X Field :
                    att[a[1]][a[2]] \in {"wait", "clear", "unpark"}})
        + Cardinality(running) <= Permits

Ledger == INSTANCE SettlementLedger WITH owed <- Queued \cup parked, paid <- minted

\* The two hashes together keep the promise of SettlementLedger: however enqueue,
\* park, remove, the attempts and the bridge interleave and fail, a field leaves
\* both only after its mint is on the chain, one field at a time.
KeepsTheLedger == Ledger!LedgerSpec

\* The reading rows show a mint only if it is on the chain.
RowsTellTheTruth == \A f \in Field : row[f] = "minted" => f \in minted

\* With a retention bound, no entry stays in the retry path for ever: it is
\* confirmed and removed, or parked.
LeavesRetryPath == \A f \in Field : f \in Queued ~> f \notin Queued

-----------------------------------------------------------------------------
(***************************************************************************)
(* The parts of the inductive invariant behind the safety properties       *)
(***************************************************************************)

\* remove runs only for a mint that is on the chain.
ConfirmedIsMinted ==
    \A w \in Who, f \in Field : att[w][f] \in {"clear", "unpark"} => f \in minted

\* Between the two commands of park the parked copy is there, unless a
\* confirmation has removed it.
ParkedBeforeDel == dpc = "hdel" => dcur \subseteq parked \cup minted

\* What the sink claims about the hand-off of the bin it is about to evict.
HandoffIsBacked ==
    spc = "evict" => /\ handoff = "Enqueued" => scur \subseteq promised
                     /\ handoff = "MintedDirectly" => scur \subseteq minted

\* The sink takes one bin at a time.
OneBin == \A f, g \in scur : f = g

\* The drain's attempts belong to a chunk of the pass it has not joined.
DrainOrder ==
    \A f \in Field : att["drain"][f] # "none" =>
        dpc = "join" /\ \E b \in chunks : f \in b

\* The in-flight set is exactly the set of keys held.
KeysHeld ==
    \A f \in Field : f \in inflight <=> \E w \in Attempts : Holds(w, f)

\* The inductive invariant: what each command of enqueue, park and remove relies
\* on is true when it is sent, and the in-flight keys are the ones being held.
IndInv ==
    /\ NoSilentLoss
    /\ ConfirmedIsMinted
    /\ ParkedBeforeDel
    /\ HandoffIsBacked
    /\ OneBin
    /\ DrainOrder
    /\ KeysHeld
    /\ OneRoundTrip
    /\ RowsTellTheTruth
====
