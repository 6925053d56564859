----------------------------- MODULE DeviceKeys -----------------------------
(***************************************************************************)
(* The device keys the ingest paths trust (persistence/infra/crypto.rs):   *)
(* SignatureVerifier's Ed25519 public keys, DeviceKeyRegistry's AES keys   *)
(* and its Vault-wrapped versions, each read from Redis through a cache in *)
(* the process, and the invocation counters against replay.                *)
(*                                                                         *)
(* A lookup reads the cache, then Redis, then writes the cache, with other *)
(* requests, key changes and time in between.  Instants are kept as ages   *)
(* and remaining lifetimes.  External: Redis, Vault, and the operator who  *)
(* provisions, rotates and removes keys.                                   *)
(***************************************************************************)
EXTENDS Integers, FiniteSets, FiniteSetsExt

CONSTANTS
    Meter,          \* devices
    DeviceKey,      \* key material
    KeyTtl,         \* kind of key -> lifetime of a cached key
    AbsentTtl,      \* lifetime of a cached absence
    MaxFlight,      \* longest time from a miss in the cache to the cache write
    MaxCounter,     \* counters of the frames
    Nothing         \* no entry

Kind == {"pub", "enc", "guek"}

\* What Redis holds for a device, and what a lookup can return.
Held == DeviceKey \cup {"absent", "malformed"}
Reply == Held \cup {"error"}

ASSUME KeysAssumption ==
    /\ KeyTtl \in [Kind -> Nat] /\ AbsentTtl \in Nat /\ MaxFlight \in Nat /\ MaxCounter \in Nat
    /\ DeviceKey \cap {"absent", "malformed", "error"} = {}
    /\ Nothing \notin Reply \cup [key : Reply, left : Nat]

VARIABLES
    redis,      \* Kind -> Meter -> the stored key
    keycache,   \* Kind -> Meter -> [key, left], or Nothing
    ic,         \* Meter -> last invocation counter accepted, 0 for none
    held        \* Kind -> Meter -> Held -> time since Redis held that value

keyvars == <<redis, keycache, ic, held>>

\* Ages stop one short of Ancient, past every lifetime; Ancient itself is the
\* age of a value Redis never held.
Ancient == Max({KeyTtl[k] : k \in Kind} \cup {AbsentTtl}) + 2 * MaxFlight + 2

KeysInit(stored) ==
    /\ redis = stored
    /\ keycache = [k \in Kind |-> [m \in Meter |-> Nothing]]
    /\ ic = [m \in Meter |-> 0]
    /\ held = [k \in Kind |-> [m \in Meter |-> [v \in Held |-> IF v = stored[k][m] THEN 0 ELSE Ancient]]]

-----------------------------------------------------------------------------
\* pubkey_cache_get, key_cache_get, and the versioned cache, whose entries do
\* not expire.
cache_get(kind, m) ==
    LET e == keycache[kind][m]
    IN IF e # Nothing /\ (kind = "guek" \/ e.left > 0) THEN e.key ELSE Nothing

\* Fault: an absent public key is never looked up again.
cache_putForever(kind, m, v) ==
    IF v \in {"malformed", "error"} \/ (kind = "guek" /\ v = "absent") THEN keycache
    ELSE [keycache EXCEPT ![kind][m] =
            [key |-> v, left |-> IF v # "absent" THEN KeyTtl[kind]
                                 ELSE IF kind = "pub" THEN Ancient ELSE AbsentTtl]]

\* Fault: a malformed key is cached.
cache_putUnparsed(kind, m, v) ==
    IF v = "error" THEN keycache ELSE [keycache EXCEPT ![kind][m] = [key |-> v, left |-> KeyTtl[kind]]]

\* pubkey_cache_put, key_cache_put and the insert of an unwrapped version: a
\* clean answer is kept for its lifetime, an error or a malformed key never,
\* the absence of a version neither.
cache_put(kind, m, v) ==
    IF v \in {"malformed", "error"} \/ (kind = "guek" /\ v = "absent") THEN keycache
    ELSE [keycache EXCEPT ![kind][m] =
            [key |-> v, left |-> IF v = "absent" THEN AbsentTtl ELSE KeyTtl[kind]]]

\* Fault: the stored counter itself passes.
fresh_counterOrEqual(m, c) == ic[m] <= c

\* check_and_bump_counter: one script in Redis, so one step.
fresh_counter(m, c) == ic[m] < c

\* External: a key is provisioned, rotated, removed or stored malformed.  A
\* wrapped version is immutable and can only be pruned.
Provision(kind, m, v) ==
    /\ v # redis[kind][m] /\ (kind = "guek" => v = "absent")
    /\ redis' = [redis EXCEPT ![kind][m] = v]
    /\ held' = [held EXCEPT ![kind][m][v] = 0]
    /\ UNCHANGED <<keycache, ic>>

\* Time passes: lifetimes shrink, values no longer stored grow older.
KeysPass ==
    /\ keycache' = [k \in Kind |-> [m \in Meter |->
         IF k # "guek" /\ cache_get(k, m) # Nothing
         THEN [keycache[k][m] EXCEPT !.left = @ - 1] ELSE keycache[k][m]]]
    /\ held' = [k \in Kind |-> [m \in Meter |-> [v \in Held |->
         IF v = redis[k][m] \/ held[k][m][v] = Ancient THEN held[k][m][v]
         ELSE Min({held[k][m][v] + 1, Ancient - 1})]]]
    /\ UNCHANGED <<redis, ic>>

\* How long ago Redis last held this key.
KeyAge(kind, m, key) == IF key \in DeviceKey THEN held[kind][m][key] ELSE Ancient

\* The key has been the stored one for longer than anything else is cached.
Settled(kind, m, key) ==
    /\ redis[kind][m] = key
    /\ \A v \in Held \ {key} :
         held[kind][m][v] > MaxFlight + (IF v = "absent" THEN AbsentTtl ELSE KeyTtl[kind])

KeysTypeOK ==
    /\ redis \in [Kind -> [Meter -> Held]]
    /\ ic \in [Meter -> 0 .. MaxCounter]
    /\ \A k \in Kind, m \in Meter :
         /\ keycache[k][m] # Nothing => keycache[k][m].key \in DeviceKey \cup {"absent"}
         /\ \A v \in Held : held[k][m][v] \in 0 .. Ancient
=============================================================================
