------------------------------ MODULE MCIngest ------------------------------
(***************************************************************************)
(* The way of a reading in, checked as the sum of nine small instances; a *)
(* behaviour keeps the part it starts in.                                  *)
(*   "auth"    concurrent API-key checks                                   *)
(*   "pub"     two signed calls while the device's public key changes      *)
(*   "bulk"    bulk calls of two devices while the public key of one      *)
(*             changes                                                     *)
(*   "enc"     two sealed or binary frames while its AES key changes       *)
(*   "gate"    one call after another at every endpoint, under four        *)
(*             configurations and several contents of the key store        *)
(*   "replay"  two sealed frames racing with two counters                  *)
(*   "version" a frame sealed with a versioned key that is pruned          *)
(*   "sek"     two bridge instances booting                                *)
(*   "codec"   one conversion per initial state                            *)
(***************************************************************************)
EXTENDS ApiKeyAuth, IngestGate, StreamKey, ReadingCodec, TLC

VARIABLE part

MCKeyTtl == [k \in Kind |-> IF k = "guek" THEN 0 ELSE 2]
Interchangeable == Permutations(Request) \cup Permutations(Caller) \cup Permutations(Instance)

-----------------------------------------------------------------------------
(* Frames and calls. *)

Plain(signer, form) ==
    [meter |-> "m1", ldn |-> "m1", proto |-> "dlms", sealed |-> "none", kid |-> FALSE, counter |-> 1,
     signer |-> signer, form |-> form, raw |-> "none", body |-> "object"]
Sealed(key, c) == [Plain("a", "json") EXCEPT !.proto = "dlms-enc", !.sealed = key, !.counter = c]
Raw(key, signer) == [Plain(signer, "raw") EXCEPT !.raw = key]
With(ep, frames) == {[ep |-> ep, items |-> <<f>>] : f \in frames}
Two(ep, f, g) == [ep |-> ep, items |-> <<f, g>>]

Simulated == [Plain("none", "canonical") EXCEPT !.proto = "simulator"]

GateCalls ==
    With("rest", {Plain("a", "canonical"), Plain("a", "json"), Plain("b", "json"), Plain("garbled", "json"),
                  [Plain("a", "canonical") EXCEPT !.body = "other"], Simulated,
                  [Simulated EXCEPT !.proto = "modbus"],
                  Sealed("a", 1), Sealed("b", 2), Sealed("none", 1), [Sealed("a", 2) EXCEPT !.kid = TRUE],
                  [Sealed("a", 1) EXCEPT !.body = "garbage"]})
    \cup {Two("batch", Plain("a", "seconds"), Plain("b", "json")), Two("batch", Simulated, Simulated),
          Two("grpc_batch", Plain("a", "canonical"), Plain("none", "canonical")),
          Two("grpc_batch", Raw("a", "b"), [Raw("a", "a") EXCEPT !.form = "canonical"]),
          Two("bulk", Raw("a", "a"), Raw("plain", "b")), Two("bulk", Raw("broken", "a"), Raw("b", "a"))}
    \cup With("batch", {[Plain("a", "json") EXCEPT !.proto = "auto"], [Plain("a", "seconds") EXCEPT !.body = "other"]})
    \cup With("grpc", {Plain("a", "canonical"), Raw("a", "a"), Raw("plain", "b"), Plain("none", "canonical"),
                       Raw("broken", "none"), Raw("plain", "none")})
    \cup With("legacy", {Plain("none", "canonical")})

CallsOf ==
    CASE part = "pub" -> With("rest", {Plain("a", "seconds")}) \cup With("grpc", {Plain("b", "canonical")})
      [] part = "bulk" -> {Two("bulk", Raw("a", "b"), [Raw("a", "a") EXCEPT !.ldn = "m2"])}
      [] part = "enc" -> With("rest", {[Sealed("b", 1) EXCEPT !.body = "garbage"]})
                            \cup With("bulk", {Raw("a", "a")})
      [] part = "gate" -> GateCalls
      [] part = "version" -> With("rest", {[Sealed("a", c) EXCEPT !.kid = TRUE] : c \in 1 .. MaxCounter})
      [] part = "replay" -> With("rest", {Sealed("a", 1), Sealed("a", 2)})
      [] OTHER -> {}

Env(s, u, p, l, k) ==
    [secure |-> s, unverified |-> u, production |-> p, plaintext |-> l, skip |-> k]
Strict == Env(FALSE, FALSE, FALSE, FALSE, FALSE)
Development == Env(FALSE, TRUE, FALSE, TRUE, TRUE)
EnvsOf(p) ==
    CASE p = "enc" -> {Env(FALSE, FALSE, FALSE, TRUE, TRUE)}
      [] p = "gate" -> {Strict, Development, Env(FALSE, FALSE, TRUE, TRUE, FALSE),
                        Env(TRUE, TRUE, FALSE, TRUE, TRUE)}
      [] OTHER -> {Strict}

AllKeys == [k \in Kind |-> [m \in Meter |-> "a"]]
StoresOf(p) ==
    IF p = "gate" THEN {AllKeys, [AllKeys EXCEPT !["enc"]["m1"] = "absent"],
                        [AllKeys EXCEPT !["pub"]["m1"] = "absent"],
                        [k \in Kind |-> [m \in Meter |-> IF k = "guek" THEN "absent" ELSE "malformed"]]}
    ELSE {AllKeys}

-----------------------------------------------------------------------------
(* Inputs of the conversions. *)

Byte == 0 .. 1
Entry == {[frame |-> f, sig |-> s] : f \in UNION {[1 .. n -> Byte] : n \in 0 .. 2}, s \in [1 .. SigLen -> Byte]}
Tails == {<<>>, <<0>>, <<1, 0>>, <<2, 0, 1>>}
Tlvs == {[tag |-> t, val |-> [k \in 1 .. n |-> v]] : t \in {1, 3, 9}, n \in {4, 8}, v \in {0, 7}}
Values(numbers) == {Number(n) : n \in numbers} \cup {AString(2 * Kilo), AText}
KeysOf(n) == {S \in SUBSET {"import", "export", "gas", "energy_consumed", "energy_generated", "kwh"} :
                Cardinality(S) <= n}
Payloads(keys) ==
    [keys \cap {"import", "export", "gas"} -> Values({0, Kilo, 2 * Kilo})]
      \X [keys \ {"import", "export", "gas"} -> Values(0 .. 2)]
Registers == {"import", "voltage_l1", "import_rate1", "import_rate2", "export_rate1", "export_rate2",
              "max_demand", "sum_power", "reactive_import", "reactive_export", "frequency", "factor",
              "tariff", "soc", "dispatch", "ev"}
Bin == [zone : {0, 1, Missing}, gen : 0 .. 1, con : 0 .. 1]

Samples ==
    {[what |-> "bulk", entries |-> e, tail |-> t] :
        e \in UNION {[1 .. n -> Entry] : n \in 0 .. 2}, t \in Tails}
    \cup {[what |-> "tlv", tlvs |-> v, tail |-> t] :
        v \in UNION {[1 .. n -> Tlvs] : n \in 0 .. 2}, t \in {<<>>, <<1>>, <<3, 4, 7>>}}
    \cup UNION {{[what |-> "payload", payload |-> p[1] @@ p[2]] : p \in Payloads(keys)} : keys \in KeysOf(3)}
    \cup {[what |-> "registers", payload |-> v] :
        v \in UNION {[S -> {Number(2 * Kilo), AString(Kilo)}] : S \in kSubset(2, Registers)}}
    \cup {[what |-> "zone", suffix |-> s, hash |-> h] : s \in 0 .. NumZones + 1 \cup {Missing}, h \in 0 .. 5}
    \cup {[what |-> "bins", bins |-> b] : b \in UNION {[1 .. n -> Bin] : n \in 0 .. 2}}

-----------------------------------------------------------------------------
NoSample == [what |-> "none"]

MCInit ==
    /\ part \in {"auth", "pub", "bulk", "enc", "gate", "replay", "version", "sek", "codec"}
    /\ IF part = "codec" THEN sample \in Samples ELSE sample = NoSample
    /\ SekInit
    /\ AuthInit
    /\ part # "auth" => static = {} /\ ~client /\ breaker = NoKey /\ \A k \in Key : ~iam[k]
    /\ \E stored \in StoresOf(part) : IngestInit(stored, EnvsOf(part))

Auth(A) == part = "auth" /\ A /\ UNCHANGED <<part, ingestvars, sekvars, sample>>
Ingest(A) == part \in {"pub", "bulk", "enc", "gate", "replay", "version"} /\ A /\ UNCHANGED <<part, authvars, sekvars, sample>>
Sek(A) == part = "sek" /\ A /\ UNCHANGED <<part, authvars, ingestvars, sample>>

\* The gate, bulk and versions are tried by one caller at a time.
Active == IF part \in {"gate", "bulk", "version"} THEN {CHOOSE r \in Caller : TRUE} ELSE Caller
\* The kind of key that changes.
Changing == CASE part = "enc" -> "enc" [] part = "version" -> "guek" [] OTHER -> "pub"
\* Faults of the stores where the part is about them.
Faulty == part \in {"gate", "replay"}
Outcomes == IF Faulty THEN {"answered", "lost", "undone"} ELSE {"answered"}

MCNext ==
    \/ \E r \in Request : \/ \E k \in Key \cup {NoKey} : Auth(Arrive(r, k))
                          \/ \E reached \in BOOLEAN : Auth(AskIam(r, reached))
                          \/ Auth(Answer(r)) \/ Auth(Decide(r)) \/ Auth(Finish(r))
    \/ \E k \in Key : Auth(Flip(k))
    \/ Auth(Pass)
    \/ \E r \in Active : \/ \E c \in CallsOf : Ingest(Receive(r, c))
                         \/ Ingest(NextItem(r)) \/ Ingest(Lookup(r)) \/ Ingest(Put(r)) \/ Ingest(Respond(r))
                         \/ \E ok \in IF Faulty THEN BOOLEAN ELSE {TRUE} : Ingest(Fetch(r, ok))
                         \/ \E o \in Outcomes : Ingest(Bump(r, o))
                         \/ \E o \in Outcomes, j \in 1 .. 2 : Ingest(Send(r, j, o))
    \/ \E v \in Held \ {"malformed"} :
         part \in {"pub", "bulk", "enc", "version"} /\ Ingest(Rekey(Changing, "m1", v))
    \/ part \in {"pub", "bulk", "enc", "version"} /\ Ingest(IngestPass)
    \/ \E i \in Instance : \/ Sek(EnsureKek(i)) \/ Sek(ReadBlob(i)) \/ Sek(Make(i)) \/ Sek(StoreBlob(i))
                           \/ Sek(Reread(i)) \/ Sek(Seal(i)) \/ Sek(Stop(i))
                           \/ \E works \in BOOLEAN : Sek(Unwrap(i, works))
    \/ Sek(LoseKek)

MCSpec == MCInit /\ [][MCNext]_<<part, authvars, ingestvars, sekvars, sample>>

\* The shapes of all parts.
TypeOK == AuthTypeOK /\ IngestTypeOK /\ SekTypeOK
=============================================================================
