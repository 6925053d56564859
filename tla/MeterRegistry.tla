---------------------------- MODULE MeterRegistry ----------------------------
(***************************************************************************)
(* The registry that turns a meter serial into its owner and the owner's   *)
(* wallet (meter_registry.rs), over the tables of OwnerReadModel: a cache  *)
(* in memory, a negative cache with a lifetime, Redis, then Postgres.      *)
(* Three callers: the ingester and the settlement sweep ask for the owner, *)
(* a mint attempt asks for the wallet.  The sweep drops the surplus of a   *)
(* meter without an owner.                                                 *)
(***************************************************************************)
EXTENDS OwnerReadModel

CONSTANTS
    Caller,      \* of "ingest", "sweep" and "mint", the ones that are active
    NegTtl,      \* METER_NEG_CACHE_TTL_SECS, in ticks
    MaxTime      \* bound: the clock stops there

ASSUME RegistryAssumption ==
    /\ Caller \subseteq {"ingest", "sweep", "mint"}
    /\ NegTtl \in Nat \ {0} /\ MaxTime \in Nat

VARIABLES
    now,
    local_cache, wallet_cache,   \* owner and wallet per serial, kept for good
    neg_cache,                   \* the expiry of a "not found" marker, or None
    redisUser, redisWallet,      \* gridtokenx:meters:{serial}:user_id, :wallet
    call,                        \* what each caller is doing
    dropped                      \* whether meters were registered whose surplus was dropped

cacheVars == <<local_cache, wallet_cache, neg_cache>>
redisVars == <<redisUser, redisWallet>>
regVars == <<now, cacheVars, redisVars, call, dropped>>

NoCall == [pc |-> "idle"]

\* A caller goes on to pc; it keeps what it knew when the call began.
At(c, pc) == call' = [call EXCEPT ![c].pc = pc]
Returned(c, v) == call' = [call EXCEPT ![c].pc = "done", ![c].result = v]

-----------------------------------------------------------------------------
\* A Postgres lookup: the read model on the metering DB, `meters` joined with
\* `users` on the shared one.
fetch_owner_from_db(s) ==
    IF OwnMeterDb THEN row[s]
    ELSE IF meters[s] = None THEN None
    ELSE [user |-> meters[s], wallet |-> primary[meters[s]]]

\* The user a row names.
Named(s) == IF row[s] = None THEN {} ELSE {row[s].user}

\* Fault: the tie-break asks the projection again.
owner_in_source_of_truthProjection(s) == Named(s)

owner_in_source_of_truth(s) == IF OwnMeterDb /\ meters[s] # None THEN {meters[s]} ELSE {}

negatively_cached(s) == neg_cache[s] # None /\ neg_cache[s] > now

\* A call begins with the caches in memory.
Begin(c, s) ==
    /\ call[c].pc = "idle"
    /\ LET hit == IF c = "mint" THEN wallet_cache[s] ELSE local_cache[s]
           marked == c # "mint" /\ hit = None /\ negatively_cached(s)
       IN call' = [call EXCEPT ![c] =
            [pc |-> IF hit # None \/ marked THEN "done" ELSE "redis",
             serial |-> s, result |-> hit, owner |-> None,
             registered |-> meters[s] # None, holders |-> Named(s)]]
    /\ neg_cache' = [neg_cache EXCEPT ![s] =
            IF c # "mint" /\ local_cache[s] = None /\ ~negatively_cached(s)
            THEN None ELSE @]
    /\ UNCHANGED <<now, local_cache, wallet_cache, redisVars, dropped>>

RedisGet(c) ==
    LET s == call[c].serial
        v == IF c = "mint" THEN redisWallet[s] ELSE redisUser[s]
    IN /\ call[c].pc = "redis"
       /\ IF v = None THEN At(c, "db") ELSE Returned(c, v)
       /\ wallet_cache' = [wallet_cache EXCEPT ![s] =
                            IF c = "mint" /\ v # None THEN v ELSE @]
       /\ local_cache' = [local_cache EXCEPT ![s] =
                            IF c # "mint" /\ v # None THEN v ELSE @]
       /\ UNCHANGED <<now, neg_cache, redisVars, dropped>>

\* Redis or Postgres fails: the call returns an error.
LookupErr(c) ==
    /\ call[c].pc \in {"redis", "db"}
    /\ At(c, "err")
    /\ UNCHANGED <<now, cacheVars, redisVars, dropped>>

DbFetch(c) ==
    /\ call[c].pc = "db"
    /\ LET r == fetch_owner_from_db(call[c].serial)
       IN call' = [call EXCEPT
            ![c].pc = IF r # None THEN "fill" ELSE "miss",
            ![c].owner = r,
            ![c].result = IF r = None THEN None
                          ELSE IF c = "mint" THEN r.wallet ELSE r.user]
    /\ UNCHANGED <<now, cacheVars, redisVars, dropped>>

\* backfill after a Postgres hit: the caches in memory, then Redis, where each
\* SET may fail unnoticed.
backfill(c) ==
    LET s == call[c].serial
        o == call[c].owner
    IN /\ call[c].pc = "fill"
       /\ neg_cache' = [neg_cache EXCEPT ![s] = None]
       /\ local_cache' = [local_cache EXCEPT ![s] = o.user]
       /\ wallet_cache' = [wallet_cache EXCEPT ![s] = COALESCE(o.wallet, @)]
       /\ At(c, "set")
       /\ UNCHANGED <<now, redisVars, dropped>>

BackfillRedis(c) ==
    LET s == call[c].serial
        o == call[c].owner
    IN /\ call[c].pc = "set"
       /\ redisUser' \in {redisUser, [redisUser EXCEPT ![s] = o.user]}
       /\ redisWallet' \in {redisWallet,
                            [redisWallet EXCEPT ![s] = COALESCE(o.wallet, @)]}
       /\ At(c, "done")
       /\ UNCHANGED <<now, cacheVars, dropped>>

\* Unknown everywhere: resolve_user_id remembers the miss, and drops the markers
\* that have expired.
cache_negative(c) ==
    /\ call[c].pc = "miss"
    /\ neg_cache' = IF c = "mint" THEN neg_cache
                    ELSE [s \in Serial |->
                            IF s = call[c].serial THEN now + NegTtl
                            ELSE IF negatively_cached(s) THEN neg_cache[s] ELSE None]
    /\ At(c, "done")
    /\ UNCHANGED <<now, local_cache, wallet_cache, redisVars, dropped>>

\* The caller takes the answer.  The sweep enqueues on an owner and on an error;
\* without an owner it asks the table the read model is made from, and drops the
\* surplus if that has none either (or enqueues if the query fails).
Take(c) ==
    /\ call[c].pc \in {"done", "err"}
    /\ call' = [call EXCEPT ![c] = NoCall]
    /\ \/ UNCHANGED dropped
       \/ /\ c = "sweep" /\ call[c].pc = "done" /\ call[c].result = None
          /\ owner_in_source_of_truth(call[c].serial) = {}
          /\ dropped' = dropped \cup {call[c].registered}
    /\ UNCHANGED <<now, cacheVars, redisVars>>

Tick ==
    /\ now < MaxTime /\ now' = now + 1
    /\ UNCHANGED <<cacheVars, redisVars, call, dropped>>

-----------------------------------------------------------------------------
\* The process stops: what was in memory is gone.  Redis keeps its entries.
ProcessStops ==
    /\ local_cache' = [s \in Serial |-> None]
    /\ wallet_cache' = [s \in Serial |-> None]
    /\ neg_cache' = [s \in Serial |-> None]
    /\ call' = [c \in Caller |-> NoCall]

RegInit ==
    /\ now = 0
    /\ local_cache = [s \in Serial |-> None]
    /\ wallet_cache = [s \in Serial |-> None]
    /\ neg_cache = [s \in Serial |-> None]
    /\ redisUser = [s \in Serial |-> None] /\ redisWallet = [s \in Serial |-> None]
    /\ call = [c \in Caller |-> NoCall]
    /\ dropped = {}

Resolve(c) ==
    \/ \E s \in Serial : Begin(c, s)
    \/ RedisGet(c) \/ LookupErr(c) \/ DbFetch(c)
    \/ backfill(c) \/ BackfillRedis(c) \/ cache_negative(c)
    \/ Take(c)

RegNext == Tick \/ \E c \in Caller : Resolve(c)

-----------------------------------------------------------------------------
(***************************************************************************)
(* Both together                                                           *)
(***************************************************************************)
vars == <<ormVars, regVars>>

OrmStep ==
    \/ Restart /\ ProcessStops /\ UNCHANGED <<now, redisVars, dropped>>
    \/ Running /\ UNCHANGED regVars

Init == OrmInit /\ RegInit
Next == OrmStep \/ (RegNext /\ UNCHANGED ormVars)
Spec == Init /\ [][Next]_vars

-----------------------------------------------------------------------------
(***************************************************************************)
(* Properties                                                              *)
(***************************************************************************)

\* "a stale projection silently destroyed the metered surplus of every
\* legitimately onboarded meter" (owner_in_source_of_truth): the sweep does not
\* drop the surplus of a meter that was registered when it looked the owner up,
\* however far the feed is behind, whatever the caches hold and whatever fails.
\* It holds on the metering DB.  On the shared DB, the default, the tie-break does
\* not ask ("a miss there is authoritative and this check would be redundant"),
\* and a marker of an earlier miss that is still alive drops a new meter's surplus.
RegisteredIsNeverDropped == TRUE \notin dropped

\* "the previous owner's wallet is wrong for the new one" (upsert_by_serial): a
\* mint attempt resolves to a wallet of the user the row names, if the row names
\* the same user when the lookup begins and when it ends.
CreditsTheOwner ==
    LET m == call["mint"]
    IN (m.pc = "done" /\ m.result # None /\ m.holders = Named(m.serial)) =>
            Holder[m.result] \in m.holders
====
