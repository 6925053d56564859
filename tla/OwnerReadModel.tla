--------------------------- MODULE OwnerReadModel ---------------------------
(***************************************************************************)
(* The owner read model (owner_read_model.rs): the table serial -> (user,  *)
(* wallet) and the table user -> wallet, fed by the meter topic and by the *)
(* IAM user topic, which have no order between them.  One consumer reads   *)
(* both topics, or each topic has a consumer of its own (split brokers).   *)
(* At start the tables are seeded, and a repair pass asks IAM for missing  *)
(* wallets while the consumers run.                                        *)
(*                                                                         *)
(* An upsert is a single statement: it reads the user table in its         *)
(* snapshot, then changes the row.  A wallet update is one transaction of  *)
(* two statements, each with its own snapshot (READ COMMITTED); others     *)
(* write between them, and see the transaction at its commit.              *)
(***************************************************************************)
EXTENDS Naturals, Sequences, FiniteSets

CONSTANTS
    User, Serial, Wallet,
    None,            \* SQL NULL, an absent field, no row
    Holder,          \* the user each wallet belongs to
    OwnMeterDb,      \* the dedicated metering DB, which has no `users` table
    MaxMeter, MaxUser,   \* bounds: events published on each topic
    MaxStop              \* bound: restarts, and clients built again

ASSUME OwnerAssumption ==
    /\ None \notin User \cup Serial \cup Wallet \cup [user : User, wallet : Wallet \cup {None}]
    /\ \A w \in Wallet \cup {None} : None # <<w>>
    /\ Holder \in [Wallet -> User]
    /\ OwnMeterDb \in BOOLEAN
    /\ MaxMeter \in Nat /\ MaxUser \in Nat /\ MaxStop \in Nat

VARIABLES
    primary,     \* IAM: the primary wallet of each user
    meters,      \* meter-service: the owner of each serial
    topic,       \* the events published on "meter" and "user"
    split,       \* READMODEL_IAM_BROKERS names another cluster
    pos,         \* the next offset each topic's consumer receives
    resumed,     \* the offset it last resumed from
    stops,       \* restarts and rebuilt clients so far
    hand,        \* the writes in progress, by writer
    row,         \* meter_owner_read_model
    edge,        \* user_wallet_read_model: None is no row, <<w>> a row
    repair,      \* the users the repair pass has still to resolve
    follows      \* serials a wallet update has reached, with no owner change
                 \* and no unlinking since

iamVars == <<primary, meters, topic>>
feedVars == <<split, pos, resumed, stops>>
dbVars == <<row, edge, follows>>
ormVars == <<iamVars, feedVars, hand, dbVars, repair>>

Topic == {"meter", "user"}
Opt(S) == S \cup {None}

Row == [user : User, wallet : Opt(Wallet)]
Edge == {<<w>> : w \in Opt(Wallet)}
Owned(u) == {s \in Serial : row[s] # None /\ row[s].user = u}
WalletOf(u) == IF edge[u] = None THEN None ELSE edge[u][1]
COALESCE(a, b) == IF a # None THEN a ELSE b

-----------------------------------------------------------------------------
(***************************************************************************)
(* What the topics carry                                                   *)
(***************************************************************************)

MeterEvent ==
    [type : {"MeterRegistered"}, serial : Serial, user : User,
     wallet : Opt(Wallet)]

\* wallet_or_none has turned a blank wallet into None; is_primary may be absent.
UserEvent ==
    [type : {"EmailVerified", "UserWalletLinked", "UserWalletUnlinked"},
     user : User, wallet : Opt(Wallet), is_primary : BOOLEAN \cup {None}]

MaxOf == [meter |-> MaxMeter, user |-> MaxUser]
Published(t, e) ==
    /\ Len(topic[t]) < MaxOf[t]
    /\ topic' = [topic EXCEPT ![t] = Append(@, e)]
    /\ UNCHANGED <<feedVars, hand, dbVars, repair>>

\* meter-service registers a serial to a user and stamps the event with the
\* wallet the user has then.
Register(s, u) ==
    /\ meters' = [meters EXCEPT ![s] = u]
    /\ Published("meter", [type |-> "MeterRegistered", serial |-> s, user |-> u,
                           wallet |-> primary[u]])
    /\ UNCHANGED primary

\* IAM gives the user a primary wallet: the first one at e-mail verification,
\* later ones by an explicit event.
LinkPrimary(u, w) ==
    /\ w # primary[u]
    /\ primary' = [primary EXCEPT ![u] = w]
    /\ Published("user",
            IF primary[u] = None
            THEN [type |-> "EmailVerified", user |-> u, wallet |-> w,
                  is_primary |-> None]
            ELSE [type |-> "UserWalletLinked", user |-> u, wallet |-> w,
                  is_primary |-> TRUE])
    /\ UNCHANGED meters

\* A wallet that is not to be the primary is linked; an e-mail address is
\* verified before a wallet is provisioned.
LinkOther(u, w) ==
    /\ \/ primary[u] \notin {None, w} /\ Published("user",
            [type |-> "UserWalletLinked", user |-> u, wallet |-> w,
             is_primary |-> FALSE])
       \/ primary[u] = None /\ Published("user",
            [type |-> "EmailVerified", user |-> u, wallet |-> None,
             is_primary |-> None])
    /\ UNCHANGED <<primary, meters>>

Unlink(u, w) ==
    /\ primary' = [primary EXCEPT ![u] = IF @ = w THEN None ELSE @]
    /\ Published("user", [type |-> "UserWalletUnlinked", user |-> u, wallet |-> w,
                          is_primary |-> None])
    /\ UNCHANGED meters

-----------------------------------------------------------------------------
(***************************************************************************)
(* The tables                                                              *)
(***************************************************************************)

\* What a writer is doing: an event or a repair it has in hand ("got"), an
\* upsert that has read the user table ("upsert"), a transaction whose first
\* statement has run ("first") or whose second one has read its rows ("second").
Writer == Topic \cup {"feed", "repair"}
Idle == [stage |-> "idle"]

\* An open transaction has written the user's row, and keeps it until it ends.
EdgeLocked(u) ==
    \E p \in Writer : hand[p].stage \in {"first", "second"} /\ hand[p].edge /\ hand[p].user = u

\* Faults: the wallet merge does not look at the owner; the event's snapshot
\* wins over the wallet the row has.
upsert_by_serialBlind(old, u, excluded) ==
    [user |-> u,
     wallet |-> IF old # None THEN COALESCE(old.wallet, excluded) ELSE excluded]

upsert_by_serialSnapshot(old, u, excluded) ==
    [user |-> u,
     wallet |-> IF old # None /\ old.user = u
                THEN COALESCE(excluded, old.wallet) ELSE excluded]

\* The row that upsert_by_serial leaves: EXCLUDED is the event with the wallet
\* it carries or the one of the user table, and a row of the same owner keeps a
\* wallet it has.
upsert_by_serial(old, u, excluded) ==
    [user |-> u,
     wallet |-> IF old # None /\ old.user = u
                THEN COALESCE(old.wallet, excluded) ELSE excluded]

\* The statement of the upsert begins: its snapshot is taken.
UpsertBegin(p, e) ==
    hand' = [hand EXCEPT ![p] =
                [stage |-> "upsert", serial |-> e.serial, user |-> e.user,
                 excluded |-> COALESCE(e.wallet, WalletOf(e.user))]]

UpsertApply(p) ==
    /\ hand[p].stage = "upsert"
    /\ LET s == hand[p].serial
           u == hand[p].user
       IN /\ row' = [row EXCEPT ![s] = upsert_by_serial(@, u, hand[p].excluded)]
          /\ follows' = IF row[s] # None /\ row[s].user = u THEN follows
                        ELSE follows \ {s}
    /\ hand' = [hand EXCEPT ![p] = Idle]
    /\ UNCHANGED <<iamVars, feedVars, edge, repair>>

\* update_wallet_by_user: the first statement writes the user's own row, whatever
\* it holds; the second one every row of the user.
update_wallet_by_user(u, w) ==
    [stage |-> "first", user |-> u, edge |-> TRUE, only |-> None, rows |-> {}, wallet |-> w]

\* clear_wallet_if_matches: each statement writes only what holds this wallet.  A
\* first statement that matches nothing locks nothing.
clear_wallet_if_matches(u, w) ==
    [stage |-> "first", user |-> u, edge |-> edge[u] = <<w>>, only |-> <<w>>, rows |-> {}, wallet |-> None]

\* The WHERE clause of a transaction's second statement.
Matches(tx, s) ==
    /\ row[s] # None /\ row[s].user = tx.user
    /\ tx.only \in {None, <<row[s].wallet>>}

\* The first statement.  It waits for another transaction that has written the
\* row it is to write.
TxBegin(p, tx) ==
    /\ tx.edge => ~EdgeLocked(tx.user)
    /\ hand' = [hand EXCEPT ![p] = tx]

\* The second statement's snapshot.
TxRows(p) ==
    /\ hand[p].stage = "first"
    /\ hand' = [hand EXCEPT ![p] = [@ EXCEPT !.stage = "second",
                                            !.rows = {s \in Serial : Matches(hand[p], s)}]]
    /\ UNCHANGED <<iamVars, feedVars, dbVars, repair>>

\* Each row of the snapshot is locked, looked at again, and written if it still
\* matches; the transaction commits.  From its lock to the commit a row does not
\* change, so that locking is one step with the commit.
TxCommit(p) ==
    /\ hand[p].stage = "second"
    /\ LET tx == hand[p]
           hit == {s \in tx.rows : Matches(tx, s)}
       IN /\ row' = [s \in Serial |->
                IF s \in hit THEN [row[s] EXCEPT !.wallet = tx.wallet] ELSE row[s]]
          /\ edge' = [edge EXCEPT ![tx.user] = IF tx.edge THEN <<tx.wallet>> ELSE @]
          /\ follows' = IF tx.wallet # None THEN follows \cup hit ELSE follows \ hit
    /\ hand' = [hand EXCEPT ![p] = Idle]
    /\ UNCHANGED <<iamVars, feedVars, repair>>

\* A write that fails is logged: the event is gone.  A deadlock ends so too.
WriteErr(p) ==
    /\ hand[p].stage # "idle"
    /\ hand' = [hand EXCEPT ![p] = Idle]
    /\ UNCHANGED <<iamVars, feedVars, dbVars, repair>>

-----------------------------------------------------------------------------
(***************************************************************************)
(* The consumers                                                           *)
(***************************************************************************)

Consumer(t) == IF split THEN t ELSE "feed"
\* The topics read by the client that reads t.
With(t) == IF split THEN {t} ELSE Topic

\* A client starts from the offset its group has committed.  rdkafka commits in
\* the background whatever recv() has handed over, applied or not.
Resumed(ts) ==
    /\ pos' \in {c \in [Topic -> 0 .. MaxMeter + MaxUser] :
                \A t \in Topic : IF t \in ts THEN c[t] \in resumed[t] .. pos[t]
                                             ELSE c[t] = pos[t]}
    /\ resumed' = [t \in Topic |-> IF t \in ts THEN pos'[t] ELSE resumed[t]]

\* What dispatch makes of an event that is not skipped.
Skipped(e) ==
    /\ e.type # "MeterRegistered"
    /\ \/ e.type = "UserWalletLinked" /\ e.is_primary = FALSE
       \/ e.type = "EmailVerified" /\ e.is_primary = FALSE
       \/ e.type = "EmailVerified" /\ e.wallet = None
       \/ e.type = "UserWalletUnlinked" /\ e.wallet = None

Dispatch(p, e) ==
    \/ e.type = "MeterRegistered" /\ UpsertBegin(p, e)
    \/ /\ e.type \in {"EmailVerified", "UserWalletLinked"}
       /\ TxBegin(p, update_wallet_by_user(e.user, e.wallet))
    \/ /\ e.type = "UserWalletUnlinked"
       /\ TxBegin(p, clear_wallet_if_matches(e.user, e.wallet))

\* recv() hands over the next event of a topic.
Recv(t) ==
    /\ hand[Consumer(t)].stage = "idle"
    /\ pos[t] < Len(topic[t])
    /\ pos' = [pos EXCEPT ![t] = @ + 1]
    /\ LET e == topic[t][pos[t] + 1]
       IN hand' = [hand EXCEPT ![Consumer(t)] =
                    IF Skipped(e) THEN Idle ELSE [stage |-> "got", event |-> e]]
    /\ UNCHANGED <<iamVars, split, resumed, stops, dbVars, repair>>

DispatchStep(t) ==
    /\ hand[Consumer(t)].stage = "got"
    /\ Dispatch(Consumer(t), hand[Consumer(t)].event)
    /\ UNCHANGED <<iamVars, feedVars, dbVars, repair>>

\* After recv() has failed often enough in a row (module MessageClients) the client
\* is built again between two events.
Rebuilt(t) ==
    /\ stops < MaxStop /\ stops' = stops + 1
    /\ hand[Consumer(t)].stage = "idle"
    /\ Resumed(With(t))
    /\ UNCHANGED <<iamVars, split, hand, dbVars, repair>>

-----------------------------------------------------------------------------
(***************************************************************************)
(* Start: the seeds, then the repair pass beside the consumers             *)
(***************************************************************************)

\* backfill inserts the missing serials: `meters` joined with `users`, or with
\* the user table where `users` does not exist.
Seeded ==
    [s \in Serial |->
        IF row[s] # None \/ meters[s] = None THEN row[s]
        ELSE [user |-> meters[s],
              wallet |-> IF OwnMeterDb THEN WalletOf(meters[s])
                                       ELSE primary[meters[s]]]]

\* backfill_user_edge: a user without a row gets the wallet of one of the
\* serials (the latest updated; any of them here).
EdgeSeeds(r, u) ==
    IF edge[u] # None THEN {edge[u]}
    ELSE LET known == {r[s].wallet : s \in {x \in Serial :
                            r[x] # None /\ r[x].user = u /\ r[x].wallet # None}}
         IN IF known = {} THEN {None} ELSE {<<w>> : w \in known}

\* The process stops and starts again: what was in hand is gone, open
\* transactions are rolled back, the clients resume from what was committed.
Restart ==
    /\ stops < MaxStop /\ stops' = stops + 1
    /\ hand' = [p \in Writer |-> Idle]
    /\ Resumed(Topic)
    /\ \/ UNCHANGED <<row, edge>>                     \* the seed failed
       \/ row' = Seeded /\ UNCHANGED edge             \* its second half did
       \/ /\ row' = Seeded
          /\ edge' \in [User -> Edge \cup {None}]
          /\ \A u \in User : edge'[u] \in EdgeSeeds(row', u)
    /\ repair' = {u \in User : \E s \in Serial :
                    row'[s] # None /\ row'[s].user = u /\ row'[s].wallet = None}
    /\ UNCHANGED <<iamVars, split, follows>>

\* The repair pass asks IAM for one of the users it found; the write follows
\* when the answer is back.
RepairResolve(u) ==
    /\ u \in repair /\ hand["repair"].stage = "idle"
    /\ repair' = repair \ {u}
    /\ \/ primary[u] # None /\ hand' = [hand EXCEPT !["repair"] =
            [stage |-> "got", event |-> [user |-> u, wallet |-> primary[u]]]]
       \/ UNCHANGED hand                    \* no wallet yet, or the call failed
    /\ UNCHANGED <<iamVars, feedVars, dbVars>>

RepairWrite ==
    /\ hand["repair"].stage = "got"
    /\ LET e == hand["repair"].event
       IN TxBegin("repair", update_wallet_by_user(e.user, e.wallet))
    /\ UNCHANGED <<iamVars, feedVars, dbVars, repair>>

-----------------------------------------------------------------------------
OrmInit ==
    /\ primary \in [User -> {None}]
    /\ meters \in [Serial -> {None}]
    /\ topic = [t \in Topic |-> << >>]
    /\ split \in BOOLEAN
    /\ pos = [t \in Topic |-> 0] /\ resumed = pos
    /\ stops = 0
    /\ hand = [p \in Writer |-> Idle]
    /\ row = [s \in Serial |-> None] /\ edge = [u \in User |-> None]
    /\ repair = {} /\ follows = {}

Producers ==
    \/ \E s \in Serial, u \in User : Register(s, u)
    \/ \E w \in Wallet :
        LinkPrimary(Holder[w], w) \/ LinkOther(Holder[w], w) \/ Unlink(Holder[w], w)

Feed(t) == Recv(t) \/ DispatchStep(t) \/ Rebuilt(t)

Write(p) == UpsertApply(p) \/ TxRows(p) \/ TxCommit(p) \/ WriteErr(p)

Running ==
    \/ Producers
    \/ \E t \in Topic : Feed(t)
    \/ \E p \in Writer : Write(p)
    \/ \E u \in User : RepairResolve(u)
    \/ RepairWrite

OrmNext == Running \/ Restart

\* Every write succeeds, nothing is delivered twice and no repair runs.
FaultFree ==
    \/ Producers
    \/ \E t \in Topic : Recv(t) \/ DispatchStep(t)
    \/ \E p \in Writer : UpsertApply(p) \/ TxRows(p) \/ TxCommit(p)

OrmSpec == OrmInit /\ [][OrmNext]_ormVars

-----------------------------------------------------------------------------
(***************************************************************************)
(* Properties                                                              *)
(***************************************************************************)

\* A meter's surplus is credited to its owner or to nobody: whatever the order
\* of the two streams, redeliveries, seeds and the repair pass, a row never
\* holds a wallet of another user than the one it names ("the previous owner's
\* wallet is wrong for the new one", upsert_by_serial).
OwnWalletOnly ==
    \A s \in Serial : row[s] # None =>
        row[s].wallet = None \/ Holder[row[s].wallet] = row[s].user

\* Once a wallet update has reached a row, the row and the user table hold the
\* same wallet until the meter changes hands or an unlink reaches the row: no
\* redelivered meter event brings an older one back ("a stale meter redelivery
\* from reverting the IAM primary"), no second update, repair, seed or crash
\* between two statements leaves the two tables apart ("Both writes ride one
\* transaction").  It does not say that the wallet is IAM's latest.
IamWalletStays ==
    \A s \in follows : /\ row[s] # None /\ row[s].wallet # None
                        /\ edge[row[s].user] = <<row[s].wallet>>
====
