----------------------------- MODULE StreamKey ------------------------------
(***************************************************************************)
(* The stream encryption key (SEK) of the Redis streams: bootstrap of one  *)
(* or more bridge instances (main.rs, infra/stream_cipher.rs) against      *)
(* Vault's key-encryption key (KEK, infra/vault.rs) and the wrapped blob   *)
(* in Redis, restarts, and what the instances seal and open with it.       *)
(*                                                                         *)
(* External: Redis, and Vault, which may fail a request or lose its KEK    *)
(* (the development Vault is in memory).                                   *)
(***************************************************************************)
EXTENDS Integers, FiniteSets

CONSTANTS
    Instance,       \* bridge processes sharing one Redis
    MaxSek,         \* keys that can be generated
    MaxKekLoss,     \* losses of the KEK
    MaxUnwrapFault, \* failed decrypt requests on a live KEK
    NoSek           \* none

ASSUME StreamKeyAssumption ==
    /\ {MaxSek, MaxKekLoss, MaxUnwrapFault} \subseteq Nat
    /\ NoSek \notin Nat /\ NoSek \notin [sek : Nat, kek : Nat]

VARIABLES
    kek,        \* Vault's current KEK, 0 when it has none
    blob,       \* the stored [sek, kek], or NoSek
    boot,       \* Instance -> [pc, sek, rotate, read]
    seks,       \* keys generated so far
    sealed,     \* keys under which stream entries are sealed
    losses, faults

sekvars == <<kek, blob, boot, seks, sealed, losses, faults>>

Off == [pc |-> "off", sek |-> NoSek, rotate |-> FALSE, read |-> NoSek]
At(i, pc) == boot[i].pc = pc
Step(i, rec) == boot' = [boot EXCEPT ![i] = rec]

SekInit ==
    /\ kek = 0 /\ blob = NoSek
    /\ boot = [i \in Instance |-> Off]
    /\ seks = 0 /\ sealed = {}
    /\ losses = 0 /\ faults = 0

-----------------------------------------------------------------------------
\* ensure_kek: the KEK is created when Vault has none.
EnsureKek(i) ==
    /\ At(i, "off")
    /\ kek' = IF kek = 0 THEN losses + 1 ELSE kek
    /\ Step(i, [Off EXCEPT !.pc = "read"])
    /\ UNCHANGED <<blob, seks, sealed, losses, faults>>

\* The stored blob is read.
ReadBlob(i) ==
    /\ At(i, "read")
    /\ Step(i, [Off EXCEPT !.pc = IF blob = NoSek THEN "make" ELSE "unwrap", !.read = blob])
    /\ UNCHANGED <<kek, blob, seks, sealed, losses, faults>>

\* Vault unwraps it, and the instance runs with that key; when Vault cannot,
\* a fresh one will replace the blob.  After a lost race the failure is final.
Unwrap(i, works) ==
    LET able == kek # 0 /\ boot[i].read.kek = kek
    IN /\ At(i, "unwrap") \/ At(i, "adopt")
       /\ works => able
       /\ (able /\ ~works) => faults < MaxUnwrapFault
       /\ faults' = IF able /\ ~works THEN faults + 1 ELSE faults
       /\ Step(i, IF works THEN [Off EXCEPT !.pc = "run", !.sek = boot[i].read.sek]
                  ELSE IF At(i, "adopt") THEN Off
                  ELSE [Off EXCEPT !.pc = "make", !.rotate = TRUE])
       /\ UNCHANGED <<kek, blob, seks, sealed, losses>>

\* A fresh key is generated and wrapped; without a KEK the boot fails.
Make(i) ==
    /\ At(i, "make") /\ seks < MaxSek
    /\ IF kek = 0 THEN Step(i, Off) /\ UNCHANGED seks
       ELSE /\ seks' = seks + 1
            /\ Step(i, [pc |-> "store", sek |-> seks + 1, rotate |-> boot[i].rotate,
                        read |-> [sek |-> seks + 1, kek |-> kek]])
    /\ UNCHANGED <<kek, blob, sealed, losses, faults>>

\* Fault: SET without NX.
WinsAlways(i) == TRUE

\* SET when rotating a dead blob, SET NX otherwise: whether this key is stored.
Wins(i) == boot[i].rotate \/ blob = NoSek

StoreBlob(i) ==
    /\ At(i, "store")
    /\ blob' = IF Wins(i) THEN boot[i].read ELSE blob
    /\ Step(i, IF Wins(i) THEN [Off EXCEPT !.pc = "run", !.sek = boot[i].sek]
               ELSE [Off EXCEPT !.pc = "reread"])
    /\ UNCHANGED <<kek, seks, sealed, losses, faults>>

\* The race was lost: the winner's blob is read and adopted.
Reread(i) ==
    /\ At(i, "reread")
    /\ Step(i, [Off EXCEPT !.pc = "adopt", !.read = blob])
    /\ UNCHANGED <<kek, blob, seks, sealed, losses, faults>>

\* A running instance seals a stream entry.
Seal(i) ==
    /\ At(i, "run")
    /\ sealed' = sealed \cup {boot[i].sek}
    /\ UNCHANGED <<kek, blob, boot, seks, losses, faults>>

\* The process stops, during boot or later.
Stop(i) ==
    /\ ~At(i, "off")
    /\ Step(i, Off)
    /\ UNCHANGED <<kek, blob, seks, sealed, losses, faults>>

\* External: Vault restarts without its KEK.
LoseKek ==
    /\ kek # 0 /\ losses < MaxKekLoss
    /\ kek' = 0 /\ losses' = losses + 1
    /\ UNCHANGED <<blob, boot, seks, sealed, faults>>

SekNext ==
    \/ \E i \in Instance : \/ EnsureKek(i) \/ ReadBlob(i) \/ Make(i) \/ StoreBlob(i)
                           \/ Reread(i) \/ Seal(i) \/ Stop(i)
                           \/ \E works \in BOOLEAN : Unwrap(i, works)
    \/ LoseKek

SekSpec == SekInit /\ [][SekNext]_sekvars

-----------------------------------------------------------------------------
\* Keys and blobs have their shapes.
SekTypeOK ==
    /\ blob = NoSek \/ blob \in [sek : 1 .. MaxSek, kek : 1 .. MaxKekLoss + 1]
    /\ \A i \in Instance : At(i, "run") => boot[i].sek \in 1 .. MaxSek
    /\ sealed \subseteq 1 .. seks

\* "NX so concurrent bridge instances converge on one SEK ... stable across
\* restarts and old stream entries remain decryptable": while Vault keeps its
\* KEK and answers decrypt requests, every instance that runs, however boots
\* and restarts interleave, opens every entry any instance ever sealed, and the
\* stored blob gives the next boot the same key.
OneKeyFleet ==
    losses = 0 /\ faults = 0 =>
        \A i \in Instance : At(i, "run") => /\ sealed \subseteq {boot[i].sek}
                                            /\ blob.sek = boot[i].sek

\* The inductive form.  Before a blob is stored nothing is sealed and nobody has
\* a key of the fleet; afterwards everyone who read one holds the stored one,
\* wrapped under the only KEK there was.
SekInv ==
    /\ kek \in Nat /\ seks \in Nat /\ losses \in Nat /\ faults \in Nat
    /\ DOMAIN boot = Instance
    /\ losses = 0 /\ faults = 0 =>
        /\ kek \in {0, 1}
        /\ \A i \in Instance :
              /\ boot[i].rotate = FALSE
              /\ At(i, "store") => /\ kek = 1 /\ boot[i].read = [sek |-> boot[i].sek, kek |-> 1]
                                  /\ boot[i].sek \in Nat
              /\ At(i, "run") => blob # NoSek /\ boot[i].sek = blob.sek
              /\ At(i, "unwrap") \/ At(i, "adopt") => blob # NoSek /\ boot[i].read = blob
              /\ At(i, "reread") => blob # NoSek
        /\ IF blob = NoSek THEN sealed = {}
           ELSE kek = 1 /\ blob.kek = 1 /\ sealed \subseteq {blob.sek}
=============================================================================
