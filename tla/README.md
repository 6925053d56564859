# A TLA+ model of the GridTokenX aggregator bridge

The aggregator bridge takes readings from smart meters, adds them up in
15-minute windows, and has the surplus of each window minted on a chain. Beside
that it turns grid frequency into dispatch calls, follows OpenADR events, and
keeps a projection of who owns which meter. The modules here model the way of a
reading from the endpoint that accepts it to a confirmed mint, and the parts
around it that keep state.

Paths are relative to the repository. `logic/`, `persistence/`, `api/` and
`stacks/` stand for `crates/aggregator-logic/src/`,
`crates/aggregator-persistence/src/`, `crates/aggregator-api/src/` and
`crates/aggregator-stacks/src/`.

## 1. The system

| Part | State | Operations that change it | Hard behaviour | Module |
|---|---|---|---|---|
| API keys (`api/auth.rs`) | verdict cache, breaker | lookup, store, prune | concurrent lookups, two lifetimes, IAM down | `ApiKeyAuth` |
| Ingest handlers (`api/handlers.rs`, `api/grpc/service.rs`) | the calls under way | six endpoints | order of the gates, partial batches | `IngestGate` |
| Device keys (`persistence/infra/crypto.rs`) | key caches, replay counter in Redis | fetch, store, compare-and-set | keys that change, frames racing one counter | `DeviceKeys` |
| Stream cipher (`persistence/infra/stream_cipher.rs`) | wrapped key in Redis, key in memory | boot, rotate, seal, open | instances that boot together | `StreamKey` |
| Decoders and conversions (`stacks/`, `logic/router.rs`, `logic/zone_balance.rs`) | none | | boundaries, order of a hash map | `ReadingCodec` |
| Zone ingester (`api/ingester/zone_ingester.rs`) | consumer group, tasks, bin writer's channel | read, handle, XACK, reclaim, write | lost replies, slow tasks, crash after XACK | `ZoneIngester` |
| Aggregator (`logic/aggregator.rs`) | bins, watermarks, settled windows | `handle_reading`, `remove_bins`, `restore_bins` | event time out of order, silent meters | `Aggregator` |
| Settlement sink (`src/main.rs` 495-817) | the sweep under way | sweep, plan, enqueue, evict | a crash between any two of them | `MintOutbox` |
| Mint outbox (`logic/mint_outbox.rs`) | pending and parked hashes | `enqueue`, `remove`, `park` | two commands that are not atomic | `MintOutbox`, `OutboxOperator` |
| Attempts and drain (`logic/mint_settlement.rs`, `src/main.rs` 824-941) | in-flight keys, permits, batches | `attempt_mint`, `attempt_mint_batch` | sink, spawned attempt and drain on one window | `MintOutbox` |
| Owner read model (`persistence/infra/owner_read_model.rs`) | two tables | events of two topics, seeds, wallet repair | no order between topics, redelivery | `OwnerReadModel` |
| Meter registry (`persistence/infra/meter_registry.rs`) | caches in memory and Redis | resolve, backfill | stale entries, a projection that is behind | `MeterRegistry` |
| Dispatch (`logic/dispatch/`, `logic/standards/openleadr.rs`, `ieee2030_5.rs`) | cooldowns, program handle | evaluate and dispatch | some adapters fail | `DispatchEngine` |
| OpenADR VEN (`logic/standards/openleadr_ven.rs`) | executed intervals | poll, dispatch, `mark_seen` | restart between the two, changed events | `OpenLeadrVen` |
| Queued writers (`persistence/infra/influxdb.rs`, `pg_readings.rs`, `api/ingester/batcher.rs`) | channel, batch | record, flush, close | full queue, failed batch | `BatchSinks` |
| Broker clients (`persistence/infra/kafka.rs`, `rabbitmq.rs`, the owner feed's consumer) | the client, a failure count | send, rebuild | many failures at once | `MessageClients` |
| Frequency monitor (`logic/grid_status.rs`) | window of samples | record, evict, publish | the edge of the window | `GridStatus` |
| Circular buffer, sync manager (`persistence/storage/`) | SQLite table | push, cleanup, send, mark | failed sends, restart | `StoreForward` |

A reading passes the gates of its endpoint and is added by the router to the
stream of its zone. A task of the zone ingester updates the aggregator and
queues the bin's snapshot for the durable store under one lock, then
acknowledges the entry. The settlement sink sweeps completed windows out of the
aggregator, decides on the surplus, enqueues it in the outbox if the meter has
an owner, spawns an immediate attempt and deletes the durable bin. The drain
loop retries what is in the outbox and parks what is too old. An attempt asks
the meter registry for a wallet and the Chain Bridge, over NATS, for a mint;
after a confirmation it marks the reading rows and the entry is removed.

## 2. Modules

The modules of the parts are named in the table above. Beside them:

| Module | Role |
|---|---|
| `SettlementLedger` | what settlement promises: an undertaking ends only after its mint. `MintOutbox` implements it |
| `Delivery` | what store-and-forward promises: in order, at least once. `StoreForward` implements it |
| `MCAggregator`, `MCZoneIngester`, `MCMintOutbox`, `MCOwners`, `MCDispatch`, `MCIngest`, `MCSinks` | the instances TLC checks |
| `IngestCallProofs`, `IngestGateProofs` | theorems about `IngestGate` and `DeviceKeys` |
| `EdgeProofs` | theorems about `ApiKeyAuth`, `StreamKey`, `DispatchEngine` and `StoreForward` |
| `ZoneProofs` | theorems about `ZoneIngester` and `GridStatus` |
| `ReadingProofs` | theorems about `Aggregator`, `BatchSinks` and `MessageClients` |
| `MintOutboxProofs` | theorems about `MintOutbox` |
| `OwnersProofs` | theorems about `OwnerReadModel` and `MeterRegistry` |
| `VenProofs` | theorems about `OpenLeadrVen` |

Every definition that stands for code is listed with its lines under `map` in
`PROJECT.json`. Operators under a comment that starts with `Fault:` are wrong
variants of the definition that follows. They are in no specification; put
in its place, each one makes TLC report the property it is meant for.

Throughout, a step ends where the code awaits, and a command that fails may have
been applied. Where only the difference to now matters, instants are ages or
remaining lifetimes that stop at the largest value the code compares with, so
that time is not bounded.

### Settlement

**Aggregator.** `bins` is `active_bins`, `progress` the watermark and last
arrival of each meter, `settled` the windows remembered. `HandleReading` is
`handle_reading`: `DropLate` is its early return, which has already moved the
watermark, and `Accept` the rest. `Sweep` is the sink's critical section,
`peek_completed_bins_at` and `remove_bins`. The start has any set of bins,
since `restore_bins` loads what an earlier process left. The clock and event
times are independent, so meters run behind and ahead of it. `swept` and
`byClock` are history: what was settled, and what was settled by an arm that
looks at the clock.

**ZoneIngester.** `stream`, `cursor`, `pending` and `stale` are the consumer
group; `buffer` and `task` the reply being worked off and its tasks; `listed`,
`claimed` and `redo` the redelivery loop; `agg` and `store` the bin of the
window in memory and in Redis; `writes` the writer's channel. A kind is what the
handler tells apart: a `reading`; an `other` event; an `undecodable` one
(dropped and acknowledged); an `unparsable` one (logged, not acknowledged); an
`empty` entry (skipped at first, acknowledged when redelivered). All readings
fall into one open window; late arrivals are in `Aggregator`. How often an entry
is in the bin is counted up to two.

**MintOutbox.** A field is the pair of meter and window that all keys are made
of. The amount is not in the model: it travels with the field and no branch
reads it after `plan_mint`, whose outcome is a choice. `spc` is where the sink
is, with `scur` its bin and `handoff` the `MintHandoff`; `dpc`, `toPark`,
`toMint`, `chunks` and `running` are the drain and its `JoinSet`; `att` is what
each attempt does with each field, `inflight` and `permits` are `MintInFlight`
and the semaphore. Each HSET and HDEL is a step. The age of an entry saturates
at `MaxAge + 1`, where `is_expired` no longer changes. The bridge is external: a
stored request lands or is rejected, and a reply may come, or not, at any time
after. `mark_minted` may fail without being noticed, as in the code. `Sweep` may
take any bin and forget any settled window, which allows more than `Aggregator`
does. `OutboxOperator` adds the operator who moves a parked entry back.

The refinement to `SettlementLedger` takes a field as owed while it is in the
pending or the parked hash, and as paid when it is minted.

### Owners

`OwnerReadModel` has the user tables of IAM (`primary`, `meters`), the two
topics, the two tables of the projection (`row`, `edge`), and per writer what it
holds in hand. An upsert reads the user table in one step and changes the row in
another. A wallet update is a transaction of two statements, each with its own
snapshot: the first locks the user's row if it matches it, the second chooses the
meters' rows, and at the commit each of those is looked at again, as READ COMMITTED
does. An unlink writes only what holds its wallet, statement by statement.
A restart redelivers from the committed offset and seeds again; with split
brokers each topic has its own consumer. `MeterRegistry` puts the lookups on top:
`call` is what the ingester, the sweep and a mint attempt are doing, each tier
being a step. `dropped`, `holders` and `follows` are history; `follows` has the
serials whose row a wallet update has reached, until an unlink or a new owner.

### Dispatch

`DispatchEngine` has one task per adapter in a fan-out, the cooldowns by action
and adapter, and the program handle of the OpenADR adapter against the program
the VTN has; a program id that is configured is kept, and neither looked up by name
nor created. `OpenLeadrVen` has the VTN's events with their versions, the poll
under way, the map of executed intervals and its copy in Redis; the intervals
`decide` chooses from are places in the event's list, and the first is the least.
History is what was dispatched and remembered (`ever`, `acked`, `durable`), which
executions a listing lacked when they were old enough to be pruned (`lapsed`), when
an interval of what was executed is open (`opens`), and which events were reported
as cancelled (`reported`) or executed since the start (`recent`). `GridStatus` keeps
all samples measured, and where the publisher's deque begins among them; `event`
is what was published last.

### Ingest

A frame in `IngestGate` is a record of what the gates tell apart: who signed it
and over which form, what it is sealed with, its counter, its protocol and
whether it decodes. A key is a name, and a signature or ciphertext is related to
the key that made it; nothing else of the cryptography is modelled. The record
of a call goes through operators named after the handlers' helpers, and a call
yields at each key lookup, counter script and XADD. Time passes during a lookup,
up to `MaxFlight`, and keys change meanwhile; `held` is history, how long ago
Redis held each value of a key. Cached keys expire, except key versions, which the
code keeps for ever. So the age of a key that was in Redis stops at `Ancient - 1`,
past every lifetime, and `Ancient` means that it never was. `StreamKey` numbers stream
keys and key-encryption keys; a blob is a pair of them. `ReadingCodec` has no
steps: a `sample` is one input, and its properties compare the translated
conversion with a definition that says what it should compute. A payload maps keys
to JSON values, numbers, strings that hold a number and other strings, since the
conversions read them differently (`as_f64`, `as_f64_or_0`, `num`).

### Sinks

`BatchSinks` has one model for the three batchers, which differ in what they do
when the channel is full or closed and when a flush fails. Items are numbered as
they are recorded; the channel is a sequence, a batch a set of numbers, and
`written` the sequence of batches that reached the database. `MessageClients` has
the three clients side by side. `StoreForward` has the table, the batch in hand
and what the gateway received; `Promise` maps it to `Delivery`.

## 3. What the runs check

| Run | Question | Bounds | States |
|---|---|---|---|
| `mint_outbox` | Is a promised surplus ever without a home, a row wrong, a bin evicted too early? | one window, one permit, retention of one tick | 964,128 |
| `mint_backlog` | Do two windows, a second attempt of one settled again, and the batches respect keys and permits, and is each step one of the ledger? | two windows, two attempts of each, two permits, batches of two | 305,314 |
| `mint_restart` | Does every entry leave the retry path after a restart? | one window | 47,616 |
| `aggregator` | Is a settled window re-created, a reading in the grace dropped, a bin of a silent meter stranded? | windows of 2, grace 1, retention 2, clock to 7, two kinds of reading | 21,897 |
| `zone_ingester` | Is an acknowledged reading counted, and the durable bin current? | two entries of all kinds, two workers | 412,920 |
| `zone_redelivery` | Is every pending entry resolved, if its kind is acknowledged at all? | two entries, XPENDING of one | 39,473 |
| `owners` | Can a row pair a user with another's wallet, the two tables come apart after a wallet update, a registered meter's surplus be dropped? | two users, one serial, two wallets of one user, two events per topic, one stop | 1,232,008 |
| `dispatch` | Are cooldowns held for what succeeded and only for that? Is an interval executed twice, a cancellation missed, a due interval forgotten? | three adapters, cooldown of one tick; one event that changes once, clock to 2, one crash | 57,093 |
| `ingest` | Does anything get in, or stay out, without a reason? Do instances share one stream key? Do the conversions compute what they should? | eight parts, see below | 521,373 |
| `sinks` | Is an item lost, repeated or out of order? Do the clients heal? Does the store keep its promise? | six parts: three items, channel and batch of two, two senders, threshold of two, four samples and a window of two ticks, three records, one restart | 16,797 |

The bounds let each race happen with the fewest parties that can have it. The
fields of `MintOutbox` share only the permits, the sink's turn and the batches,
so races on one window need one field (`mint_outbox`, with every failure), and
races for permits and batches need two (`mint_backlog`, where a window settled
again has two attempts alive and two permits let attempts overlap). The clock of
`aggregator` goes far enough for a window to fall behind the retention and be
re-created. Two entries are enough for a claim with a successor, two snapshots
in the channel, and an entry that another one keeps off XPENDING's list.

Parts that share no state are checked as a sum: a behaviour keeps the part it
starts in, and the others stand still. In `dispatch` these are the engine and
the VEN. In `owners` the feed runs alone with its restarts, or the lookups of
the sweep and of a mint attempt run beside one consumer with one event per topic.
Both wallets belong to the same user, so a row of the other user that holds one
is wrong. In `ingest` the parts are: concurrent API-key checks; two signed calls
while the public key changes; bulk calls of two devices while the public key of one
changes; a sealed REST frame and a binary bulk frame, two calls at a time, while the
AES key changes; one call after another at each endpoint under four configurations and several contents of
the key store; two frames racing one counter; two instances booting; and one
conversion per initial state. Lifetimes are two ticks and one, so that an entry
can be renewed, expire, and be overtaken by an answer in flight. Signatures are
one byte and a kWh is ten Wh in `ReadingCodec`: the framing and the arithmetic do
not depend on the values.

Some properties collect what is one question: `ConversionsAreExact` compares all
conversions with their references, `KeysJudgedForAReason` has a reason for each
verdict on an API key, allowed or denied, `CounterIsSound` says that a counter is
used once and only by a sealed frame, and `ClientsHeal` joins `WedgeHeals`,
`FeedHeals` and `ChannelHeals`. The shapes of `MintOutbox`, `Aggregator` and
`ZoneIngester`, their inductive invariants, `SplitWithinTotals` and `NothingLost`
are theorems and are not in a run.

### Disagreements with the repository's own words

Two runs check what a comment says and find a behaviour of the code that does
otherwise.

| Run | Said | What happens |
|---|---|---|
| `operator_move` | an operator moves a parked field back by "`HSET` there + `HDEL` here", so that a surplus "is never silently dropped" (`mint_outbox.rs` 33-36) | both commands fall between the drain's HSET and HDEL of `park`: the entry is in neither hash |
| `owners_credit` | "the previous owner's wallet is wrong for the new one" (`owner_read_model.rs` 116); "`resolve_wallet` runs fresh per attempt" (`main.rs` 596) | a mint attempt reads a row, an event gives the meter to another user, `backfill` caches the wallet it had read; a later attempt is answered from the cache, which never expires |

Others are visible in the modules and have no run of their own:

- `mint_outbox.rs` 130-132, "a confirmed mint never leaves a stray "unresolved"
  copy behind": if `remove` completes after the drain's `load_all` and before
  `park`'s HSET, a parked copy stays.
- `mint_settlement.rs` 147, "stays pending until a retry re-confirms": after a
  failed `mark_minted` the entry is removed, so there is no retry.
- `main.rs` 881, "re-enqueue manually to retry": an entry moved back keeps its
  enqueue time and is parked again before any attempt.
- `ARCHITECTURE.md` 243, "a crash mid-window no longer loses the partial
  totals": a reading is acknowledged while its snapshot is in the channel.
- `zone_ingester.rs` 283, "reclaims messages stale for > 30s": entries that do
  not parse are never acknowledged and can fill XPENDING's 50.
- `owner_read_model.rs` 131-133, "either arrival order of the two streams
  produces the same merged row": a wallet that was unlinked comes back when an
  older meter event that carries it arrives after the unlink; with the other
  order it does not. `IamWalletStays` is about a row from a wallet update to the
  next unlink, and does not say that the wallet is IAM's latest.
- `owner_read_model.rs` 215-216, "so a later meter event can't resurrect the
  unlinked wallet": if an update of the repair pass, or of another consumer, sets
  the same wallet between the two statements of an unlink, the first has matched
  nothing and the second clears the row. The user table keeps the wallet and the
  next meter event writes it back.
- `meter_registry.rs` 186, "`Ok(None)` here means genuinely unregistered", and
  191-192, "a miss there is authoritative": on the shared database, the default,
  the owner may be answered from the marker of an earlier miss, and
  `owner_in_source_of_truth` does not ask. A meter registered meanwhile loses the
  surplus of the window. `RegisteredIsNeverDropped` is checked and proved for
  a metering database of its own.
- `openleadr_ven.rs` 24-25, "a process restart does not re-execute still-listed
  events": it does if the process stops, or the store fails, between the
  dispatch and `mark_seen`, or if loading the map fails. `NoReExecution` is about
  what this process knows of.
- `openleadr_ven.rs`, pruning: an entry goes when one listing lacks its event more
  than seven days after the version was modified, however recently it was listed;
  an event listed again after that is executed again. `NoReExecution` leaves these
  (`lapsed`) out.
- `openleadr_ven.rs` 355-358, a cancellation "must not pass silently":
  `executed_active` is not stored, so what was executed before a restart passes
  silently. `CancellationIsNoticed` is about events executed since.
- `handlers.rs` 27-31, "every ingest bypass is neutralized", and the repository's
  `README.md` 240, "Secure mode neutralizes every bypass" (192 likewise):
  `/v1/ingest/telemetry` (`ingest_legacy_batch`) has no gate, in secure mode
  neither. `OnlyAuthentic` leaves that endpoint out.
- `crypto.rs` 669-670, "`Ok(None)` when that version is absent (e.g. pruned past
  the grace window)": a version that was used once is answered from a cache whose
  entries have no lifetime, also after it was pruned. `CounterIsSound` asks of a
  version only that Redis held it at some time.
- `dlms.rs` 75-77, "they must land in the same metrics or the signed value diverges
  from the stored one": a number sent as a JSON string is parsed for the signature
  and stored as 0 or passed over. `SignedIsStored` is about JSON numbers.
- `dlms.rs` 78-79, "not by last-write-wins": import, gas and water all
  write `consumed_wh`, and of two in one payload the last one visited stays.
  `OrderDoesNotMatter` leaves such payloads out.
- `stream_cipher.rs` 73-75 excepts a blob that cannot be unwrapped from failing
  closed; the code cannot tell this from a Vault that fails for a moment, and
  rotates as well. `OneKeyFleet` leaves both cases out.
- `auth.rs` 101-104: the verdict of a static key is cached as well (line 309),
  so it outlasts the outage by up to the positive lifetime.

## 4. Fairness

- The loops' tickers fire and every await ends, in a reply, an error or a
  timeout: weak fairness of the sink, the drain, removal, tasks, the redelivery
  loop, the bin writer, the batch worker, senders, the sync loop and the clock.
- Tokio's semaphore is first-in first-out: strong fairness of an attempt and of
  a batch that wait for a permit.
- Redis does not fail for ever: strong fairness of a successful park, XCLAIM and
  XACK. Nothing is assumed of the bridge; an entry it never mints is parked.
- From some time on the process stays up. A process that crashes again and again
  resets the sink and the drain each time.
- `aggregator` assumes that meters go silent, which is what it is about.
- `dispatch`: grid-status messages keep coming and adapters that are asked again
  and again succeed now and then (strong fairness of a success, of resolving the
  program and of an event against the current one). The VEN's poll and a
  dispatch, tried again and again, succeed now and then.
- `sinks`: a client that is built again and again is built in the end, the broker
  comes back, and a send tried again and again arrives. `WedgeHeals` states its
  own assumption on the lock, which the code only *tries* to take.

## 5. What is proved

The theorems hold for any constants that satisfy the assumptions named in the
modules: `ConstantsAssumption`, `AggregatorAssumption`, `ZoneAssumption`,
`OwnerAssumption`, `RegistryAssumption`, `EngineAssumption`, `GridAssumption`,
`VenAssumption`, `AuthAssumption`, `KeysAssumption`, `FramesAssumption`,
`StreamKeyAssumption`, `ClientAssumption`, `SinkAssumption`, `StoreAssumption`.
They say that counts, lifetimes and widths are natural numbers, positive where a
zero makes no sense, that frames and event bodies have the fields their types
have, and that values that stand for "none" are no members of the sets they are
added to. TLC evaluates them on every run. The bounds of the models (events,
changes, crashes, items, the clock) are constants as well, so the theorems hold
for all of them.

Each theorem rests on an inductive invariant. What the invariant adds to the
property is the reason why the code is right:

**MintOutboxProofs.** `TypeCorrect`; `NeverLost`, `MintInFlightExcludes`,
`WriteBackIsSound` and `EvictionIsSafe` follow from `Safety`, the inductive
invariant `IndInv`. `NoSilentLoss` is not inductive: an HDEL is safe only for
what happened before it. So `IndInv` says of each command in flight what it
relies on. `remove` runs for mints that are on the chain; between the HSET and
the HDEL of `park` the field is parked or minted; what the sink says about the
hand-off is so. `OneRoundTrip` needs that the in-flight set is exactly the set of
keys held, and that the drain's attempts belong to a pass not yet joined.
`LedgerIsKept` is the refinement: under `IndInv`, each action is a step of
`SettlementLedger` or leaves its variables alone. `PermitsAreKept` counts:
`PermitInv` says that spawned attempts, running batches and free permits add up to
the size of the semaphore, whichever way an attempt or a batch ends.

**ReadingProofs.** `NoReopening` rests on `SettledMemory`: no window is both
open and remembered, and a settled window is remembered until the watermark,
which never goes back, is past it by the retention. `GraceIsHonoured` needs that
a window enters `settled` only through a sweep. `SplitIsBounded` is inductive.
`ItemsAreAccounted` is about the batchers: `SinkInv` adds that items pass through
the channel, the batch and the write in the order of their numbers, and what is
empty once a task ends. `RebuildsAreEarned` by `EarnedInv`: the lock has one
holder, and the failures of the current producer are at least the consecutive
ones.

**ZoneProofs.** `AckedReadingsAreCounted`, `DurableBinIsCurrent` and
`DurableBinOnlyGrows` follow from `Inductive` (`IndInv`): what a task or the
redelivery loop is about to acknowledge is counted; the durable bin, the queued
snapshots and the bin in memory grow in this order. `EventsAreFresh` by `GridInv`:
samples are in order of age and those evicted are too old, so that evicting from
the front leaves the window.

**OwnersProofs.** `RowsHoldOwnWallets` by `OwnInv`: not only the rows but the
events, the user tables and what each writer has in hand pair users with their
own wallets.
`IamWalletsStay` by `FollowInv`: a transaction that has written the user's own row
has chosen every row of the user that an update has reached, an unlink that has
written it found the wallet it removes, one that has not writes no wallet, and no
two transactions have written one user's row. `NoRegisteredMeterDropped` by `DropInv`, for a metering database
of its own (`OwnMeterDb`): meters are never unregistered, so a meter that was
registered when the lookup began is in the source of truth when the sweep asks it.

**IngestCallProofs, IngestGateProofs.** `FramesAreAuthentic`, `CountersAreSound`,
`FramesDecodeSafely`, `CallersAreToldTheTruth` and `CallsHaveShape` follow from
`IngestInvariant` (`IngestInv`), which has three layers. Of the keys: a cached key
was in Redis no longer ago than its lifetime, less what is left of it, and one
lookup; a cached version was there at some time. Of a call: it settles frames in order, its answers agree with the stream,
a verdict "valid" is no older than the latency of the endpoint, and a frame that
is queued or about to be sent has passed the gates its endpoint has in this
configuration; while it waits for Redis, the keys it has found were current within
the lifetime and the wait. Of the counters: one past the stored value has let
nothing through. The first module shows that judging, decoding and settling a
frame keep this, the second that each step does.

**EdgeProofs.** `VerdictsHaveReasons` by `AuthInv`: a cached verdict and the
answer a request holds are no older than their lifetime and one call to IAM.
`FleetSharesOneKey` by `SekInv`: before a blob is stored nothing is sealed;
afterwards whoever has read a key holds the stored one. `CooldownIsHeld` by
`CooldownInv`: a task runs only for a pair whose cooldown is over, and what an
adapter confirmed is recorded or about to be, no older than the confirmation.
`FailuresRetryAtOnce` is the converse, by `RecordedInv`: whatever is recorded was
confirmed. `StoreLosesNothing` and the refinement `StoreKeepsThePromise` by
`StoreInv`: what is marked was received, and all that precedes a record in hand was
received or is in hand as well.

**VenProofs.** `VenShapes` and `IntervalsRunOnce` follow from `VenInvariant`
(`VenInv`): the map in memory is never behind the one in Redis, no entry is newer
than a version of its event in sight, and every confirmed execution has an entry,
of its interval or of its event as a whole, unless it has lapsed. Hence an entry of the whole event never
hides an interval of a later version, and loading the map from Redis never takes
one back. `CancellationsAreNoticed` by `WatchInv`: of an event executed since the start,
each time at which one of its intervals is open is before the end watched for it,
or past, or the event was reported, or `Remember` is about to set that end.

## 6. Only model-checked, and not modelled

Liveness is out of the prover's reach: `LeavesRetryPath`, `SilentMeterSettles`,
`PendingIsResolved`, `ExcursionKeepsActing`, `AsapIsExecuted`, `EveryItemLeaves`,
`WedgeHeals`, `FeedHeals`, `ChannelHeals`, `EverythingArrives`. So are the
conversions of `ReadingCodec` (`ConversionsAreExact`), which are recursive: what a
recursive definition computes for every input needs induction over data. The
`TypeOK`s of `MCDispatch`, `MCIngest` and `MCSinks` join the shapes of the parts of
an instance and are checked there; the shape of the ingest calls and of the VEN are
theorems, and every invariant above contains the shape it needs.

Not modelled:

- amounts in the outbox, and with them the composition of aggregator, bin store
  and outbox. After a restart a straggler re-forms a settled window, and its
  enqueue replaces an entry that has not minted by one with another amount;
  `aggregator.rs` 141-146 states the case. A reading that is delivered twice is
  counted twice, since readings have no identity;
- the configuration without Redis, where a surplus has one best-effort mint;
- trimming of streams by MAXLEN, and graceful shutdown: at exit the senders of
  the queued writers are not closed, so that their last partial batch is not
  flushed;
- rows inserted after their window was marked: `BatchSinks` has the queue and
  `MintOutbox` the marking, and in their product such a row stays pending;
- the router's reconnect cache and the unified stream; the encoding, signing and
  connection of the mint gateway; self-registration of the VEN; formats, metrics,
  and floating-point rounding;
- `register_meter`, which has no caller. `BatchWorker::add`, `CircularBuffer` and
  `SyncManager` are modelled, though the service does not use them at present;
- the parts listed as `not_modelled` in `PROJECT.json`, which keep no state that
  a property could be about.
