----------------------------- MODULE IngestGate -----------------------------
(***************************************************************************)
(* The six ingest endpoints up to the zone stream: REST single frame,      *)
(* batch and legacy batch (api/handlers.rs), gRPC ingest, ingest_batch and *)
(* bulk_raw_ingest (api/grpc/service.rs), over the keys of DeviceKeys.     *)
(*                                                                         *)
(* A call carries a sequence of frames.  A frame is a record of what the   *)
(* gates tell apart: its meter, declared protocol, what it is sealed with  *)
(* and its counter, who signed it and over which form, the binary DLMS     *)
(* frame it carries, and whether its content decodes.  Every await of a    *)
(* handler (key lookup, counter script, XADD) is a step of its own, so     *)
(* calls interleave there.                                                 *)
(***************************************************************************)
EXTENDS DeviceKeys, Sequences

CONSTANTS
    Caller          \* concurrent calls

VARIABLES
    config,     \* [secure, unverified, production, plaintext, skip]: env flags
    call,       \* Caller -> the call in process
    opens,      \* Meter -> counter -> encrypted frames let past the counter
    bumpedBy    \* Meter -> kind and age of the AES key when the counter was last moved

gatevars == <<config, call, opens, bumpedBy>>
ingestvars == <<keyvars, gatevars>>

\* What the key fields of a frame say when they name no key.
ASSUME FramesAssumption == DeviceKey \cap {"none", "garbled", "broken", "plain"} = {}

Frames ==
    [meter : Meter, ldn : Meter, proto : {"dlms", "dlms-enc", "simulator", "auto", "", "modbus"},
     sealed : DeviceKey \cup {"none"}, kid : BOOLEAN, counter : 1 .. MaxCounter,
     signer : DeviceKey \cup {"none", "garbled"}, form : {"canonical", "seconds", "json", "raw"},
     raw : DeviceKey \cup {"none", "broken", "plain"}, body : {"object", "other", "garbage"}]
Endpoints == {"rest", "batch", "legacy", "grpc", "grpc_batch", "bulk"}
\* A call has at least one frame; an empty batch is answered at once.
Calls == {c \in [ep : Endpoints, items : Seq(Frames)] :
            c.items # <<>> /\ (c.ep \in {"rest", "grpc"} => Len(c.items) = 1)}

Idle == [pc |-> "idle"]
NoKeys == [m \in Meter |-> Nothing]

\* A call that starts.  i is the frame in hand, cand the signature form tried;
\* wanted, missed and got belong to the key lookup in process, age is its
\* duration.  Per frame: verdict of the signature check, from (where the values
\* come from), out (the caller's answer), proof and source (ages of the keys
\* relied upon).  added: frames in the zone stream; events: frames published
\* as verified; due: frames signed properly under a settled key; erred: a key
\* store error was met.
Started(c) ==
    LET each(v) == [j \in 1 .. Len(c.items) |-> v]
    IN [pc |-> "item", ep |-> c.ep, items |-> c.items, i |-> 1, cand |-> 1, kind |-> "pub",
        wanted |-> {}, missed |-> {}, got |-> NoKeys, age |-> 0,
        verdict |-> each("none"), from |-> each("fields"), out |-> each("pending"),
        proof |-> each(Ancient), source |-> each(0),
        added |-> {}, events |-> {}, opened |-> {}, due |-> {}, erred |-> FALSE]

-----------------------------------------------------------------------------
(* The flags, and the decisions made from them. *)

secure_mode_enabled == config.secure
signature_enforcement_disabled == ~config.secure /\ config.unverified
simulator_bypass_allowed == ~config.secure
plaintext_dlms_allowed == ~config.secure /\ config.plaintext
bulk_skip_verify_allowed == ~config.secure /\ config.skip

\* resolve_protocol: "auto" and the empty protocol mean dlms.
resolve_protocol(p) == IF p \in {"", "auto"} THEN "dlms" ELSE p
is_supported_protocol(p) == p \in {"dlms", "simulator"}
secure_mode_gate(encrypted) == secure_mode_enabled /\ ~encrypted

\* The forms a signature is tried against, in order (rest_sign_candidates and
\* the ladders of the gRPC handlers).
Candidates(ep, frame) ==
    CASE ep \in {"rest", "batch"} ->
           IF frame.body = "object" THEN <<"canonical", "seconds", "json">>
           ELSE <<"canonical", "seconds">>
      [] ep = "grpc" -> IF frame.raw = "none" THEN <<"canonical">> ELSE <<"canonical", "raw">>
      [] ep = "grpc_batch" -> <<"canonical">>
      [] ep = "bulk" -> <<"raw">>

\* verify_telemetry_signature against one form, given the resolved key.
verify_signature(frame, form, key) ==
    IF key \in {"error", "malformed", "absent"} \/ frame.signer = "garbled" THEN "error"
    ELSE IF frame.signer = key /\ frame.form = form THEN "valid" ELSE "invalid"

\* Fault: production is not looked at.
apply_dlms_key_policyPlainFirst(frame, key) ==
    CASE key \in DeviceKey -> IF frame.raw = key THEN "frame" ELSE "none"
      [] key \in {"error", "malformed"} -> "none"
      [] key = "absent" -> IF plaintext_dlms_allowed THEN "frame" ELSE "none"

\* decode_secure_frame and apply_dlms_key_policy: with a key the frame must
\* decrypt; without one it is read as plaintext only where that is allowed.
apply_dlms_key_policy(frame, key) ==
    CASE key \in DeviceKey -> IF frame.raw = key THEN "frame" ELSE "none"
      [] key \in {"error", "malformed"} -> "none"
      [] key = "absent" /\ config.production -> "none"
      [] key = "absent" /\ ~config.production ->
           IF plaintext_dlms_allowed THEN "frame" ELSE "none"

\* Fault: a check that failed passes.
sig_failure_statusErrPasses(verdict) ==
    IF signature_enforcement_disabled \/ verdict \in {"valid", "error"} THEN "pass" ELSE "403"

\* sig_failure_status: an invalid signature is 403, a failure to check 401.
sig_failure_status(verdict) ==
    CASE signature_enforcement_disabled \/ verdict = "valid" -> "pass"
      [] ~signature_enforcement_disabled /\ verdict = "invalid" -> "403"
      [] ~signature_enforcement_disabled /\ verdict = "error" -> "401"

-----------------------------------------------------------------------------
(* The course of one call: operators from the call's record to the next.   *)

Queued(q) == {j \in 1 .. Len(q.items) : q.out[j] = "queued"}
Frame(q) == q.items[q.i]

\* Look up the keys of the given meters.
Want(q, kind, meters) ==
    [q EXCEPT !.pc = "lookup", !.kind = kind, !.wanted = meters, !.missed = {}, !.got = NoKeys]

\* All frames have been looked at: a batch sends what it kept, bulk verifies
\* the signatures of what it decoded first; the others have answered.
Closed(q) ==
    CASE q.ep = "batch" /\ Queued(q) # {} -> [q EXCEPT !.pc = "send"]
      [] q.ep = "bulk" /\ Queued(q) # {} ->
           IF bulk_skip_verify_allowed THEN [q EXCEPT !.pc = "send"]
           ELSE Want(q, "pub", {q.items[j].ldn : j \in Queued(q)})
      [] OTHER -> [q EXCEPT !.pc = "done"]

\* The frame in hand is settled with this answer; on to the next one.
Settle(q, answer) ==
    LET p == [q EXCEPT !.out[q.i] = answer, !.cand = 1]
    IN IF q.i < Len(q.items) THEN [p EXCEPT !.i = @ + 1, !.pc = "item"] ELSE Closed(p)

\* The gates of ingest_private_network and its batch form after decryption.
RestGates(q, encrypted) ==
    LET proto == IF encrypted THEN "dlms" ELSE resolve_protocol(Frame(q).proto)
    IN CASE secure_mode_gate(encrypted) -> Settle(q, "426")
         [] ~secure_mode_gate(encrypted) /\ ~is_supported_protocol(proto) -> Settle(q, "400")
         [] ~secure_mode_gate(encrypted) /\ is_supported_protocol(proto) ->
              IF proto = "simulator" /\ simulator_bypass_allowed
              THEN LET p == [q EXCEPT !.verdict[q.i] = "bypass"]
                   IN IF q.ep = "rest" THEN [p EXCEPT !.pc = "send"] ELSE Settle(p, "queued")
              ELSE Want(q, "pub", {Frame(q).meter})

\* The head of each handler, or of its loop, for the frame in hand.
Enter(q) ==
    LET f == Frame(q)
    IN CASE q.ep = "rest" ->
              IF f.proto # "dlms-enc" THEN RestGates(q, FALSE)
              ELSE IF f.sealed = "none" THEN Settle(q, "400")
              ELSE Want(q, IF f.kid THEN "guek" ELSE "enc", {f.meter})
         [] q.ep = "batch" -> RestGates(q, FALSE)
         [] q.ep = "legacy" -> [q EXCEPT !.pc = "send"]
         [] q.ep = "bulk" -> IF f.raw = "broken" THEN Settle(q, "dropped") ELSE Want(q, "enc", {f.ldn})
         [] q.ep \in {"grpc", "grpc_batch"} ->
              IF f.signer # "none" THEN Want(q, "pub", {f.meter})
              ELSE IF ~signature_enforcement_disabled THEN Settle(q, "400")
              ELSE IF f.raw \in {"none", "broken"} THEN [q EXCEPT !.pc = "send"]
              ELSE Want(q, "enc", {f.ldn})

\* What follows a signature check that did not end the frame.
AfterSignature(q) ==
    LET f == Frame(q)
    IN CASE q.ep = "rest" -> IF f.body = "object" THEN [q EXCEPT !.pc = "send"] ELSE Settle(q, "400")
         [] q.ep = "batch" -> Settle(q, IF f.body = "object" THEN "queued" ELSE "dropped")
         [] q.ep \in {"grpc", "grpc_batch"} ->
              IF f.raw \in {"none", "broken"} THEN [q EXCEPT !.pc = "send"] ELSE Want(q, "enc", {f.ldn})

\* verify_rest_signature and the gRPC ladders: a match or an error ends it, a
\* mismatch tries the next form, and the key is looked up again for it.
Judge(q, key) ==
    LET f == Frame(q)
        forms == Candidates(q.ep, f)
        v == verify_signature(f, forms[q.cand], key)
        p == [q EXCEPT !.verdict[q.i] = v,
                       !.proof[q.i] = IF v = "valid" THEN KeyAge("pub", f.meter, f.signer) ELSE Ancient,
                       !.due = IF f.form = forms[q.cand] /\ Settled("pub", f.meter, f.signer)
                               THEN @ \cup {q.i} ELSE @]
    IN CASE v = "invalid" /\ q.cand < Len(forms) -> Want([p EXCEPT !.cand = @ + 1], "pub", {f.meter})
         [] v = "valid" -> AfterSignature(p)
         [] OTHER ->
              CASE q.ep = "rest" -> IF sig_failure_status(v) = "pass" THEN AfterSignature(p)
                                    ELSE Settle(p, sig_failure_status(v))
                [] q.ep = "batch" -> IF signature_enforcement_disabled THEN AfterSignature(p)
                                     ELSE Settle(p, "dropped")
                [] q.ep = "grpc" -> Settle(p, IF v = "invalid" THEN "403" ELSE "401")
                [] q.ep = "grpc_batch" -> Settle(p, "dropped")

\* verify_telemetry_signature_batch for the frames bulk decoded: an error of
\* the key store fails the whole call, an unusable key only its frame.
JudgeBulk(q, keys) ==
    LET ok(j) == keys[q.items[j].ldn] \in DeviceKey
                    /\ verify_signature(q.items[j], "raw", keys[q.items[j].ldn]) = "valid"
        judged == {j \in Queued(q) : ok(j)}
        p == [q EXCEPT !.out = [j \in DOMAIN @ |-> IF j \in Queued(q) \ judged THEN "dropped" ELSE @[j]],
                       !.verdict = [j \in DOMAIN @ |-> IF j \in judged THEN "valid" ELSE @[j]],
                       !.proof = [j \in DOMAIN @ |->
                            IF j \in judged THEN KeyAge("pub", q.items[j].ldn, q.items[j].signer) ELSE @[j]],
                       !.pc = IF judged = {} THEN "done" ELSE "send"]
    IN IF \E m \in DOMAIN keys : keys[m] = "error"
       THEN [q EXCEPT !.out = [j \in DOMAIN @ |-> IF j \in Queued(q) THEN "500" ELSE @[j]], !.pc = "done"]
       ELSE p

\* decode_secure_frame for the frame in hand.
Decoded(q, key) ==
    LET f == Frame(q)
        how == apply_dlms_key_policy(f, key)
        p == [q EXCEPT !.from[q.i] = IF how = "frame" THEN "frame" ELSE "fields",
                       !.source[q.i] = IF how # "frame" THEN 0
                                       ELSE IF key \in DeviceKey THEN KeyAge("enc", f.ldn, f.raw)
                                       ELSE held["enc"][f.ldn]["absent"]]
    IN CASE q.ep # "bulk" -> [p EXCEPT !.pc = "send"]
         [] q.ep = "bulk" -> Settle(p, IF how = "frame" THEN "queued" ELSE "dropped")

\* The lookup is complete: go on with the keys it found.
Use(q) ==
    LET f == Frame(q)
        p == [q EXCEPT !.erred = @ \/ \E m \in q.wanted : q.got[m] = "error",
                       !.wanted = {}, !.missed = {}, !.got = NoKeys]
    IN CASE q.kind = "pub" /\ q.ep = "bulk" -> JudgeBulk(p, q.got)
         [] q.kind = "pub" /\ q.ep # "bulk" -> Judge(p, q.got[f.meter])
         [] q.kind # "pub" /\ q.ep # "rest" -> Decoded(p, q.got[f.ldn])
         [] q.kind # "pub" /\ q.ep = "rest" ->
              IF q.got[f.meter] \in DeviceKey /\ f.sealed = q.got[f.meter]
              THEN [p EXCEPT !.pc = "bump"] ELSE Settle(p, "400")

-----------------------------------------------------------------------------
IngestInit(stored, configs) ==
    /\ KeysInit(stored)
    /\ config \in configs
    /\ call = [r \in Caller |-> Idle]
    /\ opens = [m \in Meter |-> [c \in 1 .. MaxCounter |-> 0]]
    /\ bumpedBy = [m \in Meter |-> [kind |-> "enc", age |-> 0]]

\* A request arrives.
Receive(r, c) ==
    /\ call[r] = Idle
    /\ call' = [call EXCEPT ![r] = Enter(Started(c))]
    /\ UNCHANGED <<keyvars, config, opens, bumpedBy>>

\* The loop of a batch reaches its next frame.
NextItem(r) ==
    /\ call[r].pc = "item"
    /\ call' = [call EXCEPT ![r] = Enter(call[r])]
    /\ UNCHANGED <<keyvars, config, opens, bumpedBy>>

\* The cache is asked first; an expired entry goes.
Lookup(r) ==
    LET q == call[r]
        missed == {m \in q.wanted : cache_get(q.kind, m) = Nothing}
        p == [q EXCEPT !.missed = missed, !.age = 0,
                       !.got = [m \in Meter |-> IF m \in q.wanted THEN cache_get(q.kind, m) ELSE Nothing]]
    IN /\ q.pc = "lookup"
       /\ call' = [call EXCEPT ![r] = IF missed = {} THEN Use(p) ELSE [p EXCEPT !.pc = "fetch"]]
       /\ keycache' = [keycache EXCEPT ![q.kind] = [m \in Meter |-> IF m \in missed THEN Nothing ELSE @[m]]]
       /\ UNCHANGED <<redis, ic, held, config, opens, bumpedBy>>

\* Redis answers GET or MGET (with one reconnect and retry), and Vault unwraps
\* a version; or one of them fails.
Fetch(r, ok) ==
    LET q == call[r]
        p == [q EXCEPT !.got = [m \in Meter |->
                 IF m \notin q.missed THEN @[m] ELSE IF ok THEN redis[q.kind][m] ELSE "error"]]
    IN /\ q.pc = "fetch"
       /\ call' = [call EXCEPT ![r] = IF ok THEN [p EXCEPT !.pc = "put"] ELSE Use([p EXCEPT !.age = 0])]
       /\ UNCHANGED <<keyvars, config, opens, bumpedBy>>

\* The answer is parsed and cached (one put per missed meter).
Put(r) ==
    LET q == call[r]
    IN /\ q.pc = "put"
       /\ call' = [call EXCEPT ![r] = Use([q EXCEPT !.age = 0])]
       /\ keycache' = [k \in Kind |-> [m \in Meter |->
            IF k = q.kind /\ m \in q.missed THEN cache_put(k, m, q.got[m])[k][m] ELSE keycache[k][m]]]
       /\ UNCHANGED <<redis, ic, held, config, opens, bumpedBy>>

\* The replay counter of an authenticated frame: the script runs and its answer
\* arrives, or the command fails before or after Redis ran it.  The content is
\* parsed only then.
Bump(r, outcome) ==
    LET q == call[r]
        f == Frame(q)
        fresh == fresh_counter(f.meter, f.counter)
        ran == fresh /\ outcome # "undone"
    IN /\ q.pc = "bump"
       /\ ic' = IF ran THEN [ic EXCEPT ![f.meter] = f.counter] ELSE ic
       /\ bumpedBy' = IF ran
                      THEN [bumpedBy EXCEPT ![f.meter] =
                              [kind |-> q.kind, age |-> KeyAge(q.kind, f.meter, f.sealed)]]
                      ELSE bumpedBy
       /\ opens' = IF fresh /\ outcome = "answered"
                   THEN [opens EXCEPT ![f.meter][f.counter] = Min({@ + 1, 2})] ELSE opens
       /\ call' = [call EXCEPT ![r] =
            CASE outcome # "answered" -> Settle([q EXCEPT !.erred = TRUE], "400")
              [] outcome = "answered" /\ ~fresh -> Settle(q, "409")
              [] outcome = "answered" /\ fresh ->
                   IF f.body = "garbage" THEN Settle(q, "400")
                   ELSE RestGates([q EXCEPT !.opened = @ \cup {q.i}], TRUE)]
       /\ UNCHANGED <<redis, keycache, held, config>>

\* What the caller is told of a frame, given whether disseminate returned Ok.
Told(ep, ok) ==
    CASE ep = "bulk" -> "processed"
      [] ep # "bulk" /\ ok -> "accepted"
      [] ep = "rest" /\ ~ok -> "500"
      [] ep \in {"grpc", "grpc_batch", "batch", "legacy"} /\ ~ok -> "failed"

\* Router::disseminate and, but for the two REST batches, the Kafka event with
\* its verified flag: XADD is done and answered, done with the answer lost, or
\* not done.  XADD is retried once on a new connection, so a frame whose first
\* answer was lost can be in the stream twice; added does not count.  A batch
\* has many in flight; the others send one at a time.
Send(r, j, outcome) ==
    LET q == call[r]
        ok == outcome = "answered"
        p == [q EXCEPT !.added = IF outcome # "undone" THEN @ \cup {j} ELSE @,
                       !.events = IF ok /\ q.ep \notin {"batch", "legacy"}
                                        /\ (q.verdict[j] \in {"valid", "bypass"} \/ q.ep = "bulk")
                                  THEN @ \cup {j} ELSE @]
        told == [p EXCEPT !.out[j] = Told(q.ep, ok)]
    IN /\ q.pc = "send"
       /\ CASE q.ep = "batch" -> j \in Queued(q)
            [] q.ep = "bulk" -> j \in Queued(q) /\ \A k \in Queued(q) : j <= k
            [] OTHER -> j = q.i
       /\ call' = [call EXCEPT ![r] =
            IF q.ep \in {"batch", "bulk"}
            THEN [told EXCEPT !.pc = IF Queued(told) = {} THEN "done" ELSE "send"]
            ELSE Settle(p, Told(q.ep, ok))]
       /\ UNCHANGED <<keyvars, config, opens, bumpedBy>>

\* The response goes out; the slot takes a later call.
Respond(r) ==
    /\ call[r].pc = "done"
    /\ call' = [call EXCEPT ![r] = Idle]
    /\ UNCHANGED <<keyvars, config, opens, bumpedBy>>

\* External: the operator changes a key.
Rekey(kind, m, v) ==
    /\ Provision(kind, m, v)
    /\ UNCHANGED gatevars

\* Time passes while calls wait for the key store, at most MaxFlight each time,
\* or before they look up the key for a further form.
IngestPass ==
    /\ \A r \in Caller : \/ call[r].pc = "idle" \/ (call[r].pc = "lookup" /\ call[r].cand > 1)
                         \/ call[r].pc \in {"fetch", "put"} /\ call[r].age < MaxFlight
    /\ KeysPass
    /\ call' = [r \in Caller |-> IF call[r].pc \in {"fetch", "put"} THEN [call[r] EXCEPT !.age = @ + 1] ELSE call[r]]
    /\ UNCHANGED <<config, opens, bumpedBy>>

IngestNext ==
    \/ \E r \in Caller :
         \/ \E c \in Calls : Receive(r, c)
         \/ NextItem(r) \/ Lookup(r) \/ Put(r) \/ Respond(r)
         \/ \E ok \in BOOLEAN : Fetch(r, ok)
         \/ \E o \in {"answered", "lost", "undone"} : Bump(r, o) \/ \E j \in Nat : Send(r, j, o)
    \/ \E k \in Kind, m \in Meter, v \in Held : Rekey(k, m, v)
    \/ IngestPass

Configs == [secure : BOOLEAN, unverified : BOOLEAN, production : BOOLEAN, plaintext : BOOLEAN, skip : BOOLEAN]
IngestSpec ==
    /\ \E stored \in [Kind -> [Meter -> Held]] : IngestInit(stored, Configs)
    /\ [][IngestNext]_ingestvars

-----------------------------------------------------------------------------
Ended(r) == call[r].pc = "done"

\* How long a key may be out of Redis and still be relied upon.
Latency(ep) == KeyTtl["pub"] + (IF ep = "bulk" THEN 2 * MaxFlight ELSE MaxFlight)

\* A sealed frame is opened with an AES key of the device, of this age.
Genuine(kind, age) == IF kind = "guek" THEN age < Ancient ELSE age <= KeyTtl["enc"] + MaxFlight

\* Keys, calls and answers have their shapes.
IngestTypeOK ==
    /\ KeysTypeOK
    /\ \A r \in Caller : call[r] # Idle =>
         LET q == call[r]
         IN /\ q.pc \in {"item", "lookup", "fetch", "put", "bump", "send", "done"}
            /\ q.i \in DOMAIN q.items /\ q.added \subseteq DOMAIN q.items
            /\ q.events \subseteq q.added
            /\ q.pc = "done" => \A j \in DOMAIN q.items : q.out[j] \notin {"pending", "queued"}

\* A frame reaches the zone stream only if its signature was checked with a key
\* that Redis held at most the positive lifetime (and a lookup in flight) before,
\* "the TTL is the revocation latency", whatever lookups, key changes and other
\* calls interleave (in bulk a cached key waits for the lookup of the others, so
\* one lookup more); or by a bypass that the flags open and secure mode closes:
\* the simulator protocol, SKIP_SIG_VERIFY for bulk, unverified telemetry
\* elsewhere.  In secure mode a REST frame was also opened with the device's AES
\* key.  Only the simulator and bulk bypasses are published as verified.  The
\* legacy batch is left out: it has no gate at all, in secure mode neither.
OnlyAuthentic ==
    \A r \in Caller : call[r] # Idle =>
        LET q == call[r]
            Authentic(j) == q.proof[j] <= Latency(q.ep)
            Simulated(j) == q.ep \in {"rest", "batch"} /\ q.items[j].proto = "simulator"
            Bypassed(j) == ~config.secure /\ \/ Simulated(j)
                                             \/ q.ep = "bulk" /\ config.skip
                                             \/ q.ep # "bulk" /\ config.unverified
        IN \A j \in q.added : q.ep # "legacy" =>
             /\ Authentic(j) \/ Bypassed(j)
             /\ config.secure /\ q.ep \in {"rest", "batch"} => j \in q.opened
             /\ j \in q.events => Authentic(j) \/ Simulated(j) \/ q.ep = "bulk"

\* The replay counter does its work.  Two calls never both get past it with the
\* same counter of a device, in whatever order their lookups, scripts and lost
\* answers fall; and it is only ever moved by a frame sealed with an AES key of
\* the device: "A forged frame fails GCM and never advances the stored counter,
\* so it cannot lock out a meter".  An unversioned key was in Redis at most a
\* lifetime ago.  A version was there at some time, however long ago: a cached
\* version is served for ever, also after it was pruned.
CounterIsSound ==
    \A m \in Meter : /\ \A c \in 1 .. MaxCounter : opens[m][c] <= 1
                     /\ Genuine(bumpedBy[m].kind, bumpedBy[m].age)

\* The values of a DLMS frame are used only if it decrypted under a key the
\* device had at most a lifetime ago, or outside production and secure mode,
\* with ALLOW_PLAINTEXT_DLMS, for a device that had no key at most the negative
\* lifetime ago.
DecodedSafely ==
    \A r \in Caller : call[r] # Idle =>
        LET q == call[r]
        IN \A j \in DOMAIN q.items : q.from[j] = "frame" =>
             \/ q.items[j].raw \in DeviceKey /\ q.source[j] <= KeyTtl["enc"] + MaxFlight
             \/ /\ config.plaintext /\ ~config.secure /\ ~config.production
                /\ q.source[j] <= AbsentTtl + MaxFlight

\* What the caller is told is what happened, and why.  An accepted frame is in
\* the zone stream, a refused one is not (bulk counts a frame as processed either
\* way).  A frame is refused for its signature only if the key store failed or,
\* when the form it is signed in was tried, its key had not yet been in place
\* for longer than any cached verdict lasts: rotation and provisioning are
\* picked up in time ("the short default bounds both").  Of this second part the
\* endpoints that answer 401 or 403 can be held to account, single REST and gRPC
\* frames; a frame that a batch, gRPC batch or bulk call drops is not covered.
AnswersAreTrue ==
    \A r \in Caller : Ended(r) =>
        /\ \A j \in DOMAIN call[r].items :
              /\ call[r].out[j] = "accepted" => j \in call[r].added
              /\ call[r].out[j] \in {"400", "401", "403", "409", "426", "dropped"} => j \notin call[r].added
        /\ ~call[r].erred => \A j \in call[r].due : call[r].out[j] \notin {"401", "403"}
=============================================================================
