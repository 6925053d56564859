-------------------------- MODULE IngestCallProofs --------------------------
(* The course of one ingest call, for any devices, keys, lifetimes and       *)
(* frames: the inductive invariant of IngestGate, and that judging, decoding *)
(* and settling a frame preserve what it says of the call.                   *)
EXTENDS IngestGate, TLAPS

Answers == {"pending", "queued", "accepted", "failed", "processed", "dropped",
            "400", "401", "403", "409", "426", "500"}
\* The answers of a frame that is not in the zone stream.
Kept == {"pending", "queued", "dropped", "400", "401", "403", "409", "426"}

\* A call over the frames D.
CallRecord(D) ==
    [pc : {"item", "lookup", "fetch", "put", "bump", "send", "done"}, ep : Endpoints,
     items : [D -> Frames], i : D, cand : Nat, kind : Kind, wanted : SUBSET Meter,
     missed : SUBSET Meter, got : [Meter -> Reply \cup {Nothing}], age : 0 .. MaxFlight,
     verdict : [D -> {"none", "valid", "invalid", "error", "bypass"}],
     from : [D -> {"fields", "frame"}], out : [D -> Answers], proof : [D -> Nat], source : [D -> Nat],
     added : SUBSET D, events : SUBSET D, opened : SUBSET D, due : SUBSET D, erred : BOOLEAN]

Size(q) == 1 .. Len(q.items)
CallShape(q) == Len(q.items) \in Nat /\ q \in CallRecord(Size(q))

-----------------------------------------------------------------------------
(* Where a call is. *)

Looking(q) == q.pc \in {"lookup", "fetch", "put"}
\* Bulk looks up the public keys of all frames it decoded.
Verifying(q) == Looking(q) /\ q.ep = "bulk" /\ q.kind = "pub"
\* The loop over the frames is over.
Over(q) == q.pc = "done" \/ Verifying(q) \/ (q.pc = "send" /\ q.ep \in {"batch", "bulk"})
\* The frame in hand has not been judged.
Unjudged(q) == q.pc \in {"item", "bump"} \/ (Looking(q) /\ q.kind # "pub" /\ q.ep = "rest")

\* Frames are settled in order.
InOrder(q) ==
    /\ \A j \in Size(q) : j > q.i => /\ q.out[j] = "pending" /\ q.verdict[j] = "none" /\ j \notin q.due
    /\ \A j \in Size(q) : j < q.i => q.out[j] # "pending"
    /\ IF Over(q) THEN q.out[q.i] # "pending" /\ q.i = Len(q.items) ELSE q.out[q.i] = "pending"
    /\ Unjudged(q) => q.verdict[q.i] = "none" /\ q.i \notin q.due /\ q.cand = 1
    /\ \A j \in Size(q) : q.out[j] = "queued" => q.ep \in {"batch", "bulk"} /\ q.pc # "done"
    /\ q.pc = "bump" => q.ep = "rest"

\* Answers agree with the stream, and a signature that is due is not refused.
Truthful(q) ==
    /\ \A j \in Size(q) : /\ q.out[j] \in Kept => j \notin q.added
                          /\ q.out[j] = "accepted" => j \in q.added
    /\ q.events \subseteq q.added
    /\ \A j \in q.due : q.erred \/ (q.verdict[j] = "valid" /\ q.out[j] \notin {"401", "403"})

-----------------------------------------------------------------------------
(* What lets a frame through; c is the configuration. *)

Simulates(q, j) == q.ep \in {"rest", "batch"} /\ q.items[j].proto = "simulator"
Bypass(q, j, c) == ~c.secure /\ \/ Simulates(q, j)
                                \/ q.ep = "bulk" /\ c.skip
                                \/ q.ep # "bulk" /\ c.unverified
MaySend(q, j, c) ==
    q.ep # "legacy" => /\ q.verdict[j] = "valid" \/ Bypass(q, j, c)
                       /\ c.secure /\ q.ep \in {"rest", "batch"} => j \in q.opened

Gated(q, c) ==
    /\ \A j \in Size(q) :
         /\ q.verdict[j] = "valid" => q.proof[j] <= Latency(q.ep)
         /\ q.verdict[j] = "bypass" => Simulates(q, j)
         /\ j \in q.added => MaySend(q, j, c)
         /\ q.out[j] = "queued" /\ (q.ep = "batch" \/ q.pc = "send") => MaySend(q, j, c)
         /\ j \in q.events => q.verdict[j] \in {"valid", "bypass"} \/ q.ep = "bulk"
    /\ q.pc = "send" /\ q.ep \notin {"batch", "bulk"} => MaySend(q, q.i, c)
    /\ Looking(q) /\ q.kind # "pub" /\ q.ep \in {"grpc", "grpc_batch"} => MaySend(q, q.i, c)
    /\ Looking(q) /\ q.kind = "pub" /\ q.ep \in {"rest", "batch"} /\ c.secure => q.i \in q.opened

\* Where the values of a frame come from.
Sourced(q, c) ==
    \A j \in Size(q) : q.from[j] = "frame" =>
        \/ q.items[j].raw \in DeviceKey /\ q.source[j] <= KeyTtl["enc"] + MaxFlight
        \/ c.plaintext /\ ~c.secure /\ ~c.production /\ q.source[j] <= AbsentTtl + MaxFlight

-----------------------------------------------------------------------------
(* The keys a call relies on; h is how long ago Redis held each value. *)

Ttl(kind, v) == IF kind = "guek" THEN 0 ELSE IF v = "absent" THEN AbsentTtl ELSE KeyTtl[kind]
Wanted(q) ==
    IF q.kind = "pub" THEN IF q.ep = "bulk" THEN {q.items[j].ldn : j \in Queued(q)} ELSE {Frame(q).meter}
    ELSE IF q.ep = "rest" THEN {Frame(q).meter} ELSE {Frame(q).ldn}

\* The value v of a key was in Redis no longer ago than its lifetime and slack;
\* a version is cached for ever, and was there at some time.
Recent(kind, m, v, slack, h) ==
    v \in Held /\ h[kind][m][v] <= (IF kind = "guek" THEN Ancient - 1 ELSE Ttl(kind, v) + slack)

\* How old the AES key of a frame may be when it opens the frame.
Limit(kind) == IF kind = "guek" THEN Ancient - 1 ELSE KeyTtl["enc"] + MaxFlight

Asked(q) ==
    /\ q.wanted = Wanted(q) /\ q.ep # "legacy"
    /\ q.kind # "pub" => q.ep # "batch"
    /\ q.kind = "guek" => q.ep = "rest"
    /\ q.kind = "pub" /\ q.ep # "bulk" => /\ q.cand \in 1 .. Len(Candidates(q.ep, Frame(q)))
                                         /\ q.verdict[q.i] # "valid"

Found(q, h) ==
    /\ Looking(q) => Asked(q)
    /\ q.pc \in {"fetch", "put"} =>
         /\ q.missed # {} /\ q.missed \subseteq q.wanted
         /\ \A m \in q.wanted \ q.missed : Recent(q.kind, m, q.got[m], MaxFlight + q.age, h)
    /\ q.pc = "put" => \A m \in q.missed : q.got[m] \in Held /\ h[q.kind][m][q.got[m]] <= q.age
    /\ q.pc = "bump" => /\ Frame(q).sealed \in DeviceKey /\ q.kind # "pub"
                        /\ h[q.kind][Frame(q).meter][Frame(q).sealed] <= Limit(q.kind)

CallOK(q, c, h) == CallShape(q) /\ InOrder(q) /\ Truthful(q) /\ Gated(q, c) /\ Sourced(q, c) /\ Found(q, h)

-----------------------------------------------------------------------------
\* A cached key of this kind was in Redis no longer ago than its lifetime, less
\* what is left of it, and the lookup; a cached version, at some time.  h is how
\* long ago Redis held each value.
Dated(e, kind, h) ==
    e # Nothing => IF kind = "guek" THEN h[e.key] <= Ancient - 1
                   ELSE e.left > 0 => h[e.key] + e.left <= Ttl(kind, e.key) + MaxFlight

KeysShape ==
    /\ redis \in [Kind -> [Meter -> Held]] /\ ic \in [Meter -> 0 .. MaxCounter]
    /\ held \in [Kind -> [Meter -> [Held -> 0 .. Ancient]]]
    /\ keycache \in [Kind -> [Meter -> [key : DeviceKey \cup {"absent"}, left : Nat] \cup {Nothing}]]
KeysInv ==
    /\ KeysShape
    /\ \A k \in Kind, m \in Meter : held[k][m][redis[k][m]] = 0 /\ Dated(keycache[k][m], k, held[k][m])

\* A counter past the stored one has let nothing through.
CountersInv ==
    /\ opens \in [Meter -> [1 .. MaxCounter -> 0 .. 1]]
    /\ \A m \in Meter, c \in 1 .. MaxCounter : c > ic[m] => opens[m][c] = 0
    /\ bumpedBy \in [Meter -> [kind : Kind, age : Nat]]
    /\ \A m \in Meter : bumpedBy[m].age <= Limit(bumpedBy[m].kind)

IngestInv ==
    /\ config \in Configs /\ DOMAIN call = Caller
    /\ \A r \in Caller : call[r] = Idle \/ CallOK(call[r], config, held)
    /\ KeysInv /\ CountersInv

-----------------------------------------------------------------------------
\* The frame in hand is not settled yet, whatever step of it is next.
HandOrder(q) ==
    /\ q.out[q.i] = "pending"
    /\ \A j \in Size(q) :
         /\ j > q.i => q.out[j] = "pending" /\ q.verdict[j] = "none" /\ j \notin q.due
         /\ j < q.i => q.out[j] # "pending"
         /\ q.out[j] = "queued" => q.ep \in {"batch", "bulk"}
HandTruth(q) ==
    /\ \A j \in Size(q) \ {q.i} : /\ q.out[j] \in Kept => j \notin q.added
                                  /\ q.out[j] = "accepted" => j \in q.added
    /\ q.events \subseteq q.added
    /\ \A j \in q.due : q.erred \/ (q.verdict[j] = "valid" /\ q.out[j] \notin {"401", "403"})
HandGate(q, c) ==
    \A j \in Size(q) :
        /\ q.verdict[j] = "valid" => q.proof[j] <= Latency(q.ep)
        /\ q.verdict[j] = "bypass" => Simulates(q, j)
        /\ j \in q.added => MaySend(q, j, c)
        /\ q.out[j] = "queued" /\ q.ep = "batch" => MaySend(q, j, c)
        /\ j \in q.events => q.verdict[j] \in {"valid", "bypass"} \/ q.ep = "bulk"
Hand(q, c) == CallShape(q) /\ Sourced(q, c) /\ HandOrder(q) /\ HandTruth(q) /\ HandGate(q, c)

LEMMA HandOfCall ==
    ASSUME NEW q, CallShape(q), InOrder(q), Truthful(q), Gated(q, config), Sourced(q, config), ~Over(q)
    PROVE  Hand(q, config) /\ q.i \notin q.added
<1>1. q.i \in Size(q)
    BY DEF CallShape, CallRecord
<1> QED
    BY <1>1 DEF Hand, HandOrder, HandTruth, HandGate, InOrder, Truthful, Gated, Kept

\* What was decided about the frames of a call is as it was.
Same(q, s) ==
    /\ s.ep = q.ep /\ s.items = q.items /\ s.verdict = q.verdict /\ s.from = q.from /\ s.proof = q.proof
    /\ s.source = q.source /\ s.added = q.added /\ s.events = q.events /\ s.opened = q.opened
    /\ s.due = q.due /\ s.erred = q.erred

\* Whether a frame may be sent rests on what was decided about it.
LEMMA SameSends ==
    ASSUME NEW q, NEW s, s.ep = q.ep, s.items = q.items, s.verdict = q.verdict, s.opened = q.opened
    PROVE  \A j, c : (MaySend(q, j, c) <=> MaySend(s, j, c)) /\ (Simulates(q, j) <=> Simulates(s, j))
BY Zenon DEF MaySend, Bypass, Simulates

\* A call that goes on with the same item in hand, everything decided so far kept.
LEMMA HandKept ==
    ASSUME NEW q, NEW s, NEW c, Hand(q, c), Same(q, s), s.i = q.i, s.out = q.out, CallShape(s)
    PROVE  Hand(s, c)
<1>1. /\ s.ep = q.ep /\ s.items = q.items /\ s.verdict = q.verdict /\ s.from = q.from /\ s.proof = q.proof
      /\ s.source = q.source /\ s.added = q.added /\ s.events = q.events /\ s.opened = q.opened
      /\ s.due = q.due /\ s.erred = q.erred
    BY Zenon DEF Same
<1>2. Size(s) = Size(q)
    BY <1>1, Zenon DEF Size
<1>3. Sourced(s, c)
    BY <1>1, <1>2, ZenonT(60) DEF Hand, Sourced
<1>4. HandOrder(s)
    BY <1>1, <1>2, ZenonT(60) DEF Hand, HandOrder
<1>5. HandTruth(s)
    BY <1>1, <1>2, Zenon DEF Hand, HandTruth
<1>6. HandGate(s, c)
    <2>1. \A j : (MaySend(q, j, c) <=> MaySend(s, j, c)) /\ (Simulates(q, j) <=> Simulates(s, j))
        BY <1>1, SameSends, Zenon
    <2> QED
        BY <1>1, <1>2, <2>1, Zenon DEF Hand, HandGate
<1> QED
    BY <1>3, <1>4, <1>5, <1>6, Zenon DEF Hand

\* The fields of a frame.
LEMMA FrameFields ==
    ASSUME NEW f \in Frames
    PROVE  /\ f.meter \in Meter /\ f.ldn \in Meter /\ f.counter \in 1 .. MaxCounter /\ f.kid \in BOOLEAN
           /\ f.sealed \in DeviceKey \cup {"none"} /\ f.signer \in DeviceKey \cup {"none", "garbled"}
           /\ f.raw \in DeviceKey \cup {"none", "broken", "plain"} /\ f.body \in {"object", "other", "garbage"}
           /\ f.form \in {"canonical", "seconds", "json", "raw"}
BY ZenonT(60) DEF Frames

\* A lookup starts, and nothing else changes.
LEMMA WantRecord ==
    ASSUME NEW D, NEW q \in CallRecord(D), NEW kind \in Kind, NEW W \in SUBSET Meter,
           NEW s, s = Want(q, kind, W)
    PROVE  /\ s \in CallRecord(D) /\ Same(q, s) /\ s.pc = "lookup" /\ s.kind = kind /\ s.wanted = W
           /\ s.i = q.i /\ s.cand = q.cand /\ s.out = q.out
<1>1. NoKeys \in [Meter -> Reply \cup {Nothing}]
    BY DEF NoKeys
<1>2. s = [q EXCEPT !.pc = "lookup", !.kind = kind, !.wanted = W, !.missed = {}, !.got = NoKeys]
    BY DEF Want
<1>3. s \in CallRecord(D)
    <2>1. [q EXCEPT !.pc = "lookup", !.kind = kind] \in CallRecord(D)
        BY Zenon DEF CallRecord
    <2>2. \A p \in CallRecord(D) : [p EXCEPT !.wanted = W, !.missed = {}] \in CallRecord(D)
        BY ZenonT(60) DEF CallRecord
    <2>3. \A p \in CallRecord(D) : [p EXCEPT !.got = NoKeys] \in CallRecord(D)
        BY <1>1, Zenon DEF CallRecord
    <2> QED
        BY <1>2, <2>1, <2>2, <2>3, Zenon
<1> QED
    BY <1>2, <1>3 DEF CallRecord, Same

\* Only the place in the handler changes.
LEMMA MovedRecord ==
    ASSUME NEW D, NEW q \in CallRecord(D), NEW pc \in {"send", "done", "bump"}, NEW s, s = [q EXCEPT !.pc = pc]
    PROVE  /\ s \in CallRecord(D) /\ Same(q, s) /\ s.pc = pc /\ s.kind = q.kind
           /\ s.i = q.i /\ s.cand = q.cand /\ s.out = q.out
<1>1. s \in CallRecord(D)
    BY ZenonT(60) DEF CallRecord
<1> QED
    BY <1>1, ZenonT(60) DEF CallRecord, Same

\* The frame in hand may be settled with this answer.
MaySettle(q, a) ==
    /\ a \in Answers \ {"pending"} /\ (a \in Kept => q.i \notin q.added) /\ (a = "accepted" => q.i \in q.added)
    /\ a \in {"401", "403"} => (q.i \in q.due => q.erred)
    /\ a = "queued" => q.ep \in {"batch", "bulk"} /\ (q.ep = "batch" => MaySend(q, q.i, config))

LEMMA Settled1 ==
    ASSUME NEW q, NEW s, NEW a, Hand(q, config), config \in Configs, MaySettle(q, a),
           s \in CallRecord(Size(q)), Same(q, s), s.out = [q.out EXCEPT ![q.i] = a],
           \/ s.pc = "item" /\ s.i = q.i + 1 /\ s.cand = 1
           \/ /\ s.i = q.i /\ s.i = Len(q.items)
              /\ \/ s.pc = "done" /\ Queued(s) = {}
                 \/ s.pc = "send" /\ s.ep \in {"batch", "bulk"} /\ (s.ep = "bulk" => config.skip /\ ~config.secure)
                 \/ s.pc = "lookup" /\ s.ep = "bulk" /\ s.kind = "pub" /\ s.wanted = Wanted(s)
    PROVE  CallOK(s, config, held)
<1>1. q \in CallRecord(Size(q)) /\ q.i \in Size(q) /\ s.i \in Size(q) /\ Len(q.items) \in Nat /\ Size(s) = Size(q)
    BY Zenon DEF Hand, CallShape, CallRecord, Same, Size
<1>2. s.out[q.i] = a /\ \A j \in Size(q) \ {q.i} : s.out[j] = q.out[j]
    BY <1>1 DEF CallRecord
<1>3. CallShape(s)
    BY <1>1 DEF CallShape, Same
<1>4. InOrder(s)
    BY <1>1, <1>2, SMTT(60) DEF InOrder, Hand, HandOrder, MaySettle, Same, Over, Looking, Verifying, Unjudged, Queued, Size
<1>5. Truthful(s)
    BY <1>1, <1>2 DEF Truthful, Hand, HandOrder, HandTruth, MaySettle, Same
<1>6. Gated(s, config)
    BY <1>1, <1>2 DEF Gated, Hand, HandOrder, HandGate, MaySettle, Same, MaySend, Bypass, Simulates, Looking
<1>7. Sourced(s, config)
    BY <1>1 DEF Sourced, Hand, Same
<1>8. Found(s, held)
    BY DEF Found, Looking, Asked
<1> QED
    BY <1>3, <1>4, <1>5, <1>6, <1>7, <1>8 DEF CallOK

\* The frame in hand is settled.
LEMMA Settling ==
    ASSUME NEW q, NEW a, Hand(q, config), config \in Configs, MaySettle(q, a)
    PROVE  CallOK(Settle(q, a), config, held)
<1> DEFINE D == Size(q)
           p == [q EXCEPT !.out[q.i] = a, !.cand = 1]
<1>1. q \in CallRecord(D) /\ q.i \in D /\ Len(q.items) \in Nat /\ a \in Answers
    BY DEF Hand, CallShape, CallRecord, MaySettle
<1>2. p \in CallRecord(D) /\ Same(q, p) /\ p.out = [q.out EXCEPT ![q.i] = a] /\ p.i = q.i /\ p.cand = 1
    BY <1>1, Zenon DEF CallRecord, Same
<1> HIDE DEF p
<1>3. CASE q.i < Len(q.items)
    <2> DEFINE s == [p EXCEPT !.i = @ + 1, !.pc = "item"]
    <2>1. p.i + 1 \in D
        BY <1>1, <1>2, <1>3 DEF Size
    <2>2. s \in CallRecord(D) /\ Same(p, s) /\ s.out = p.out /\ s.pc = "item" /\ s.i = p.i + 1 /\ s.cand = p.cand
        BY <1>2, <2>1, Zenon DEF CallRecord, Same
    <2>3. Settle(q, a) = s
        BY <1>3 DEF Settle, p
    <2> HIDE DEF s
    <2>4. CallOK(s, config, held)
        BY <1>2, <2>2, Settled1 DEF Same
    <2> QED
        BY <2>3, <2>4
<1>4. CASE ~(q.i < Len(q.items))
    <2>1. q.i = Len(q.items) /\ Settle(q, a) = Closed(p)
        BY <1>1, <1>4 DEF Settle, p, Size
    <2> SUFFICES ASSUME NEW s, s = Closed(p) PROVE CallOK(s, config, held)
        BY <2>1
    <2>2. CASE p.ep = "batch" /\ Queued(p) # {}
        <3>1. s = [p EXCEPT !.pc = "send"]
            BY <2>2 DEF Closed
        <3>2. s \in CallRecord(D) /\ Same(p, s) /\ s.out = p.out /\ s.pc = "send" /\ s.i = p.i
            BY <1>2, <3>1, MovedRecord
        <3>3. Same(q, s) /\ s.ep = "batch" /\ s.i = q.i /\ s.i = Len(q.items) /\ s.out = [q.out EXCEPT ![q.i] = a]
            BY <1>2, <2>1, <2>2, <3>2 DEF Same
        <3> QED
            BY <3>2, <3>3, Settled1, Zenon
    <2>3. CASE p.ep = "bulk" /\ Queued(p) # {} /\ bulk_skip_verify_allowed
        <3>1. s = [p EXCEPT !.pc = "send"]
            BY <2>3 DEF Closed
        <3>2. s \in CallRecord(D) /\ Same(p, s) /\ s.out = p.out /\ s.pc = "send" /\ s.i = p.i
            BY <1>2, <3>1, MovedRecord
        <3>3. Same(q, s) /\ s.ep = "bulk" /\ config.skip /\ ~config.secure
            BY <1>2, <2>3, <3>2 DEF Same, bulk_skip_verify_allowed
        <3> QED
            BY <1>2, <2>1, <3>2, <3>3, Settled1
    <2>4. CASE p.ep = "bulk" /\ Queued(p) # {} /\ ~bulk_skip_verify_allowed
        <3> DEFINE W == {p.items[j].ldn : j \in Queued(p)}
        <3>1. s = Want(p, "pub", W)
            BY <2>4 DEF Closed
        <3>2. W \in SUBSET Meter
            <4>1. \A j \in Queued(p) : p.items[j] \in Frames
                BY <1>2, Zenon DEF CallRecord, Queued, Same, Size
            <4> QED
                BY <4>1, FrameFields
        <3> HIDE DEF W
        <3>3. s \in CallRecord(D) /\ Same(p, s) /\ s.out = p.out /\ s.pc = "lookup" /\ s.i = p.i
              /\ s.kind = "pub" /\ s.wanted = W
            BY <1>2, <3>1, <3>2, WantRecord DEF Kind
        <3>4. W = Wanted(s)
            BY <2>4, <3>3 DEF W, Wanted, Same, Queued
        <3>5. Same(q, s) /\ s.ep = "bulk"
            BY <1>2, <2>4, <3>3 DEF Same
        <3> QED
            BY <1>2, <2>1, <3>3, <3>4, <3>5, Settled1
    <2>5. CASE ~(p.ep = "batch" /\ Queued(p) # {}) /\ ~(p.ep = "bulk" /\ Queued(p) # {})
        <3>1. s = [p EXCEPT !.pc = "done"]
            BY <2>5 DEF Closed
        <3>2. s \in CallRecord(D) /\ Same(p, s) /\ s.out = p.out /\ s.pc = "done" /\ s.i = p.i
            BY <1>2, <3>1, MovedRecord
        <3>3. Queued(p) = {}
            BY <1>1, <1>2, <2>5, SMTT(60) DEF Queued, Hand, HandOrder, MaySettle, Same, CallRecord, Size
        <3>4. Queued(s) = {}
            BY <3>2, <3>3 DEF Queued, Same
        <3>5. Same(q, s)
            BY <1>2, <3>2 DEF Same
        <3> QED
            BY <1>2, <2>1, <3>2, <3>4, <3>5, Settled1
    <2> QED
        BY <2>2, <2>3, <2>4, <2>5
<1> QED
    BY <1>3, <1>4

\* The frame in hand may look up a key of this kind, of device m.
MayWant(q, kind, m) ==
    /\ m = (IF kind = "pub" \/ q.ep = "rest" THEN Frame(q).meter ELSE Frame(q).ldn)
    /\ kind \in Kind /\ q.ep # "legacy" /\ (kind = "guek" => q.ep = "rest")
    /\ kind = "pub" => /\ q.ep # "bulk" /\ q.verdict[q.i] # "valid" /\ q.cand \in 1 .. Len(Candidates(q.ep, Frame(q)))
                       /\ config.secure /\ q.ep \in {"rest", "batch"} => q.i \in q.opened
    /\ kind # "pub" => /\ q.ep # "batch"
                       /\ q.ep = "rest" => q.verdict[q.i] = "none" /\ q.i \notin q.due /\ q.cand = 1
                       /\ q.ep \in {"grpc", "grpc_batch"} => MaySend(q, q.i, config)

LEMMA Wanting ==
    ASSUME NEW q, NEW kind, NEW m, Hand(q, config), q.i \notin q.added, MayWant(q, kind, m)
    PROVE  CallOK(Want(q, kind, {m}), config, held)
<1> SUFFICES ASSUME NEW s, s = Want(q, kind, {m}) PROVE CallOK(s, config, held)
    OBVIOUS
<1>1. q \in CallRecord(Size(q)) /\ q.i \in Size(q) /\ Len(q.items) \in Nat /\ kind \in Kind
    BY DEF Hand, CallShape, CallRecord, MayWant
<1>2. Frame(q) \in Frames
    BY <1>1 DEF CallRecord, Frame
<1>3. m \in Meter
    BY <1>2, FrameFields DEF MayWant
<1>4. /\ s \in CallRecord(Size(q)) /\ Same(q, s) /\ s.pc = "lookup" /\ s.kind = kind /\ s.wanted = {m}
      /\ s.i = q.i /\ s.cand = q.cand /\ s.out = q.out
    BY <1>1, <1>3, WantRecord
<1>5. Size(s) = Size(q) /\ Frame(s) = Frame(q) /\ Looking(s) /\ ~Over(s)
    BY <1>4, Zenon DEF Same, Size, Frame, Looking, Over, Verifying, MayWant
<1>6. CallShape(s)
    BY <1>1, <1>4, <1>5 DEF CallShape, Same
<1>a. Same(q, s) /\ s.i = q.i /\ s.out = q.out /\ s.pc = "lookup" /\ q.i \in Size(q)
    BY <1>1, <1>4, SMTT(60)
<1>b. Unjudged(s) => q.verdict[q.i] = "none" /\ q.i \notin q.due /\ s.cand = 1
    BY <1>4, ZenonT(60) DEF Same, MayWant, Unjudged
<1>c. /\ s.kind # "pub" /\ s.ep \in {"grpc", "grpc_batch"} => MaySend(s, s.i, config)
      /\ s.kind = "pub" /\ s.ep \in {"rest", "batch"} /\ config.secure => s.i \in s.opened
    BY <1>4, ZenonT(60) DEF Same, MayWant, MaySend, Bypass, Simulates
<1>7. InOrder(s)
    BY <1>a, <1>b, <1>5, SMTT(60) DEF InOrder, Hand, HandOrder, Same
<1>8. Truthful(s)
    <2>1. Truthful(q)
        BY DEF Truthful, Hand, HandOrder, HandTruth
    <2> QED
        BY <1>a, <1>5, <2>1, ZenonT(60) DEF Truthful, Same
<1>9. Gated(s, config)
    <2>1. \A j : (MaySend(q, j, config) <=> MaySend(s, j, config)) /\ (Simulates(q, j) <=> Simulates(s, j))
        BY <1>a, SameSends, Zenon DEF Same
    <2> QED
        BY <1>a, <1>c, <1>5, <2>1 DEF Gated, Hand, HandOrder, HandGate, Same
<1>10. Sourced(s, config)
    BY <1>1, <1>4, <1>5 DEF Sourced, Hand, Same
<1>11. Found(s, held)
    BY <1>1, <1>4, <1>5, ZenonT(60) DEF Found, Asked, Same, MayWant, Wanted
<1> QED
    BY <1>6, <1>7, <1>8, <1>9, <1>10, <1>11 DEF CallOK

\* The frame in hand goes to the zone stream.
LEMMA Sending ==
    ASSUME NEW q, Hand(q, config), q.i \notin q.added, q.ep \notin {"batch", "bulk"}, MaySend(q, q.i, config)
    PROVE  CallOK([q EXCEPT !.pc = "send"], config, held)
<1> SUFFICES ASSUME NEW s, s = [q EXCEPT !.pc = "send"] PROVE CallOK(s, config, held)
    OBVIOUS
<1>1. q \in CallRecord(Size(q)) /\ q.i \in Size(q) /\ Len(q.items) \in Nat
    BY DEF Hand, CallShape, CallRecord
<1>2. s \in CallRecord(Size(q)) /\ Same(q, s) /\ s.pc = "send" /\ s.i = q.i /\ s.out = q.out
    BY <1>1, MovedRecord
<1>3. Size(s) = Size(q) /\ ~Looking(s) /\ ~Over(s)
    BY <1>2 DEF Same, Size, Looking, Over, Verifying
<1>4. CallShape(s)
    BY <1>1, <1>2, <1>3 DEF CallShape, Same
<1>5. InOrder(s)
    BY <1>1, <1>2, <1>3 DEF InOrder, Hand, HandOrder, Same, Unjudged
<1>6. Truthful(s)
    BY <1>1, <1>2, <1>3 DEF Truthful, Hand, HandOrder, HandTruth, Same, Kept
<1>7. Gated(s, config)
    <2>1. \A j : (MaySend(q, j, config) <=> MaySend(s, j, config)) /\ (Simulates(q, j) <=> Simulates(s, j))
        BY <1>2, SameSends, Zenon DEF Same
    <2> QED
        BY <1>1, <1>2, <1>3, <2>1 DEF Gated, Hand, HandOrder, HandGate, Same
<1>8. Sourced(s, config) /\ Found(s, held)
    BY <1>1, <1>2, <1>3 DEF Sourced, Hand, Same, Found
<1> QED
    BY <1>4, <1>5, <1>6, <1>7, <1>8 DEF CallOK

\* There is a form to try a signature against.
LEMMA FirstForm ==
    ASSUME NEW ep \in {"rest", "batch", "grpc", "grpc_batch"}, NEW f \in Frames
    PROVE  Len(Candidates(ep, f)) \in Nat /\ 1 \in 1 .. Len(Candidates(ep, f))
<1>1. Candidates(ep, f) \in {<<"canonical", "seconds", "json">>, <<"canonical", "seconds">>,
                             <<"canonical", "raw">>, <<"canonical">>}
    BY DEF Candidates
<1> QED
    BY <1>1

\* A fresh frame in hand, and the gates of the REST handlers.
Fresh(q) == q.i \notin q.added /\ q.verdict[q.i] = "none" /\ q.i \notin q.due /\ q.cand = 1

LEMMA RestGating ==
    ASSUME NEW q, NEW encrypted \in BOOLEAN, Hand(q, config), config \in Configs, Fresh(q),
           q.ep \in {"rest", "batch"}, encrypted => q.i \in q.opened
    PROVE  CallOK(RestGates(q, encrypted), config, held)
<1>1. q \in CallRecord(Size(q)) /\ q.i \in Size(q) /\ Len(q.items) \in Nat
    BY SMTT(60) DEF Hand, CallShape, CallRecord
<1>2. Frame(q) \in Frames
    BY <1>1 DEF CallRecord, Frame
<1> DEFINE proto == IF encrypted THEN "dlms" ELSE resolve_protocol(Frame(q).proto)
<1>3. CASE secure_mode_gate(encrypted)
    <2>1. RestGates(q, encrypted) = Settle(q, "426")
        BY <1>3 DEF RestGates
    <2>2. MaySettle(q, "426")
        BY DEF MaySettle, Answers, Fresh
    <2> QED
        BY <2>1, <2>2, Settling
<1>4. CASE ~secure_mode_gate(encrypted) /\ ~is_supported_protocol(proto)
    <2>1. RestGates(q, encrypted) = Settle(q, "400")
        BY <1>4 DEF RestGates
    <2>2. MaySettle(q, "400")
        BY DEF MaySettle, Answers, Fresh
    <2> QED
        BY <2>1, <2>2, Settling
<1>5. CASE ~secure_mode_gate(encrypted) /\ is_supported_protocol(proto) /\ proto = "simulator" /\ simulator_bypass_allowed
    <2> DEFINE p == [q EXCEPT !.verdict[q.i] = "bypass"]
    <2>1. RestGates(q, encrypted) = IF q.ep = "rest" THEN [p EXCEPT !.pc = "send"] ELSE Settle(p, "queued")
        BY <1>5 DEF RestGates
    <2>2. /\ p \in CallRecord(Size(q)) /\ p.ep = q.ep /\ p.items = q.items /\ p.from = q.from /\ p.proof = q.proof
          /\ p.source = q.source /\ p.added = q.added /\ p.events = q.events /\ p.opened = q.opened
          /\ p.due = q.due /\ p.erred = q.erred /\ p.i = q.i /\ p.out = q.out
          /\ p.verdict[q.i] = "bypass" /\ \A j \in Size(q) \ {q.i} : p.verdict[j] = q.verdict[j]
        BY <1>1, Zenon DEF CallRecord
    <2> HIDE DEF p
    <2>3. Frame(q).proto = "simulator" /\ ~config.secure
        BY <1>5, ZenonT(60) DEF resolve_protocol, simulator_bypass_allowed
    <2>4. Size(p) = Size(q) /\ Simulates(p, q.i)
        BY <2>2, <2>3 DEF Size, Simulates, Frame
    <2>5. \A j \in Size(q) \ {q.i} : MaySend(q, j, config) => MaySend(p, j, config)
        BY <2>2 DEF MaySend, Bypass, Simulates
    <2>6. CallShape(p) /\ Sourced(p, config)
        BY <1>1, <2>2, <2>4 DEF CallShape, Hand, Sourced
    <2>7. HandOrder(p) /\ HandTruth(p)
        <3>1. HandOrder(p)
            BY <1>1, <2>2, <2>4, SMTT(60) DEF Hand, HandOrder
        <3>2. \A j \in q.due : p.verdict[j] = q.verdict[j]
            BY <1>1, <2>2, SMTT(60) DEF Fresh, CallRecord
        <3>3. HandTruth(p)
            BY <2>2, <2>4, <3>2, ZenonT(60) DEF Hand, HandTruth
        <3> QED
            BY <3>1, <3>3, SMTT(60)
    <2>8. HandGate(p, config)
        <3>1. q.i \notin q.added /\ q.i \notin q.events /\ q.out[q.i] = "pending"
            BY DEF Hand, HandOrder, HandTruth, Fresh
        <3>2. \A j \in Size(q) : Simulates(q, j) => Simulates(p, j)
            BY <2>2 DEF Simulates
        <3> QED
            BY <1>1, <2>2, <2>4, <2>5, <3>1, <3>2, SMTT(60) DEF Hand, HandGate
    <2>9. Hand(p, config) /\ p.i \notin p.added
        BY <2>2, <2>6, <2>7, <2>8, SMTT(60) DEF Hand, Fresh
    <2>10. MaySend(p, p.i, config)
        BY <2>2, <2>3, <2>4 DEF MaySend, Bypass
    <2>11. CASE q.ep = "rest"
        BY <2>1, <2>2, <2>9, <2>10, <2>11, Sending
    <2>12. CASE q.ep = "batch"
        <3>1. MaySettle(p, "queued")
            BY <2>2, <2>9, <2>10, <2>12, SMTT(60) DEF MaySettle, Answers
        <3> QED
            BY <2>1, <2>9, <2>12, <3>1, Settling, SMTT(60)
    <2> QED
        BY <2>11, <2>12
<1>6. CASE ~secure_mode_gate(encrypted) /\ is_supported_protocol(proto) /\ ~(proto = "simulator" /\ simulator_bypass_allowed)
    <2>1. RestGates(q, encrypted) = Want(q, "pub", {Frame(q).meter})
        BY <1>6 DEF RestGates
    <2>2. config.secure => q.i \in q.opened
        BY <1>6 DEF secure_mode_gate, secure_mode_enabled
    <2>3. 1 \in 1 .. Len(Candidates(q.ep, Frame(q)))
        BY <1>2, FirstForm
    <2>4. MayWant(q, "pub", Frame(q).meter)
        BY <2>2, <2>3 DEF MayWant, Fresh, Kind
    <2> QED
        BY <2>1, <2>4, Wanting DEF Fresh
<1> QED
    BY <1>3, <1>4, <1>5, <1>6

\* The handler turns to the frame in hand.
LEMMA Entering ==
    ASSUME NEW q, Hand(q, config), config \in Configs, Fresh(q)
    PROVE  CallOK(Enter(q), config, held)
<1> DEFINE f == Frame(q)
<1>1. q \in CallRecord(Size(q)) /\ q.i \in Size(q) /\ Len(q.items) \in Nat /\ q.ep \in Endpoints
    BY SMTT(60) DEF Hand, CallShape, CallRecord
<1>2. f \in Frames
    BY <1>1 DEF CallRecord, Frame
<1>3. MaySettle(q, "400") /\ MaySettle(q, "dropped")
    BY DEF MaySettle, Answers, Fresh
<1>4. CASE q.ep = "rest"
    <2>1. CASE f.proto # "dlms-enc"
        <3>1. Enter(q) = RestGates(q, FALSE)
            BY <1>4, <2>1 DEF Enter
        <3> QED
            BY <1>4, <3>1, RestGating, Zenon
    <2>2. CASE f.proto = "dlms-enc" /\ f.sealed = "none"
        <3>1. Enter(q) = Settle(q, "400")
            BY <1>4, <2>2 DEF Enter
        <3> QED
            BY <1>3, <3>1, Settling
    <2>3. CASE f.proto = "dlms-enc" /\ f.sealed # "none"
        <3> DEFINE k == IF f.kid THEN "guek" ELSE "enc"
        <3>1. Enter(q) = Want(q, k, {f.meter})
            BY <1>4, <2>3 DEF Enter
        <3>2. MayWant(q, k, f.meter)
            BY <1>4 DEF MayWant, Fresh, Kind
        <3> QED
            BY <3>1, <3>2, Wanting DEF Fresh
    <2> QED
        BY <2>1, <2>2, <2>3
<1>5. CASE q.ep = "batch"
    <2>1. Enter(q) = RestGates(q, FALSE)
        BY <1>5 DEF Enter
    <2> QED
        BY <1>5, <2>1, RestGating, Zenon
<1>6. CASE q.ep = "legacy"
    <2>1. Enter(q) = [q EXCEPT !.pc = "send"]
        BY <1>6 DEF Enter
    <2>2. MaySend(q, q.i, config)
        BY <1>6 DEF MaySend
    <2> QED
        BY <1>6, <2>1, <2>2, Sending DEF Fresh
<1>7. CASE q.ep = "bulk"
    <2>1. CASE f.raw = "broken"
        <3>1. Enter(q) = Settle(q, "dropped")
            BY <1>7, <2>1 DEF Enter
        <3> QED
            BY <1>3, <3>1, Settling
    <2>2. CASE f.raw # "broken"
        <3>1. Enter(q) = Want(q, "enc", {f.ldn})
            BY <1>7, <2>2 DEF Enter
        <3>2. MayWant(q, "enc", f.ldn)
            BY <1>7 DEF MayWant, Kind
        <3> QED
            BY <3>1, <3>2, Wanting DEF Fresh
    <2> QED
        BY <2>1, <2>2
<1>8. CASE q.ep \in {"grpc", "grpc_batch"}
    <2>1. CASE f.signer # "none"
        <3>1. Enter(q) = Want(q, "pub", {f.meter})
            BY <1>8, <2>1 DEF Enter
        <3>2. 1 \in 1 .. Len(Candidates(q.ep, f))
            BY <1>2, <1>8, FirstForm
        <3>3. MayWant(q, "pub", f.meter)
            BY <1>8, <3>2 DEF MayWant, Kind, Fresh
        <3> QED
            BY <3>1, <3>3, Wanting DEF Fresh
    <2>2. CASE f.signer = "none" /\ ~signature_enforcement_disabled
        <3>1. Enter(q) = Settle(q, "400")
            BY <1>8, <2>2 DEF Enter
        <3> QED
            BY <1>3, <3>1, Settling
    <2>3. CASE f.signer = "none" /\ signature_enforcement_disabled
        <3>1. MaySend(q, q.i, config)
            BY <1>8, <2>3 DEF MaySend, Bypass, signature_enforcement_disabled
        <3>2. CASE f.raw \in {"none", "broken"}
            <4>1. Enter(q) = [q EXCEPT !.pc = "send"]
                BY <1>8, <2>3, <3>2 DEF Enter
            <4> QED
                BY <1>8, <3>1, <4>1, Sending DEF Fresh
        <3>3. CASE f.raw \notin {"none", "broken"}
            <4>1. Enter(q) = Want(q, "enc", {f.ldn})
                BY <1>8, <2>3, <3>3 DEF Enter
            <4>2. MayWant(q, "enc", f.ldn)
                BY <1>8, <3>1 DEF MayWant, Kind
            <4> QED
                BY <4>1, <4>2, Wanting DEF Fresh
        <3> QED
            BY <3>2, <3>3
    <2> QED
        BY <2>1, <2>2, <2>3
<1> QED
    BY <1>1, <1>4, <1>5, <1>6, <1>7, <1>8 DEF Endpoints

\* What follows a signature check that did not end the frame.
LEMMA AfterSigning ==
    ASSUME NEW q, Hand(q, config), config \in Configs, q.i \notin q.added, MaySend(q, q.i, config),
           q.ep \in {"rest", "batch", "grpc", "grpc_batch"}
    PROVE  CallOK(AfterSignature(q), config, held)
<1> DEFINE f == Frame(q)
<1>1. MaySettle(q, "400") /\ MaySettle(q, "dropped")
    BY DEF MaySettle, Answers
<1>2. CASE q.ep = "rest"
    <2>1. AfterSignature(q) = IF f.body = "object" THEN [q EXCEPT !.pc = "send"] ELSE Settle(q, "400")
        BY <1>2 DEF AfterSignature
    <2> QED
        BY <1>1, <1>2, <2>1, Sending, Settling
<1>3. CASE q.ep = "batch"
    <2>1. AfterSignature(q) = Settle(q, IF f.body = "object" THEN "queued" ELSE "dropped")
        BY <1>3 DEF AfterSignature
    <2>2. MaySettle(q, "queued")
        BY <1>3 DEF MaySettle, Answers
    <2> QED
        BY <1>1, <2>1, <2>2, Settling
<1>4. CASE q.ep \in {"grpc", "grpc_batch"}
    <2>1. AfterSignature(q) = IF f.raw \in {"none", "broken"} THEN [q EXCEPT !.pc = "send"] ELSE Want(q, "enc", {f.ldn})
        BY <1>4 DEF AfterSignature
    <2>2. MayWant(q, "enc", f.ldn)
        BY <1>4 DEF MayWant, Kind
    <2> QED
        BY <1>4, <2>1, <2>2, Sending, Wanting
<1> QED
    BY <1>2, <1>3, <1>4

-----------------------------------------------------------------------------
\* Ages are numbers.
LEMMA AncientIsNat == Ancient \in Nat /\ Ancient - 1 \in Nat /\ MaxFlight <= Ancient - 1
<1> DEFINE S == {KeyTtl[k] : k \in Kind} \cup {AbsentTtl}
<1>1. S = {KeyTtl["pub"], KeyTtl["enc"], KeyTtl["guek"], AbsentTtl} /\ S \subseteq Nat
    BY KeysAssumption DEF Kind
<1>2. \E x \in S : \A y \in S : x >= y
    <2>1. \A a, b \in Nat : \E x \in {a, b} : x >= a /\ x >= b
        OBVIOUS
    <2>2. PICK x \in {KeyTtl["pub"], KeyTtl["enc"]} : x >= KeyTtl["pub"] /\ x >= KeyTtl["enc"]
        BY <1>1, <2>1
    <2>3. PICK y \in {KeyTtl["guek"], AbsentTtl} : y >= KeyTtl["guek"] /\ y >= AbsentTtl
        BY <1>1, <2>1
    <2>4. PICK z \in {x, y} : z >= x /\ z >= y
        BY <1>1, <2>1, <2>2, <2>3
    <2> QED
        BY <1>1, <2>2, <2>3, <2>4, SMTT(60)
<1>3. Max(S) \in S
    BY <1>2 DEF Max
<1> QED
    BY <1>1, <1>3, KeysAssumption DEF Ancient

LEMMA AgesAreNat ==
    ASSUME KeysInv, NEW kind \in Kind, NEW m \in Meter, NEW v
    PROVE  KeyAge(kind, m, v) \in Nat /\ (v \in Held => held[kind][m][v] \in Nat)
<1>1. v \in Held => held[kind][m][v] \in 0 .. Ancient
    BY DEF KeysInv, KeysShape
<1> QED
    BY <1>1, AncientIsNat DEF KeyAge, Held

\* A key that was resolved, and what a check against it says.
Resolved(kind, m, key, q) == key \in Reply /\ IF key = "error" THEN q.erred ELSE Recent(kind, m, key, MaxFlight, held)

LEMMA JudgedRight ==
    ASSUME NEW q, KeysInv, NEW f \in Frames, NEW form, NEW key, Resolved("pub", f.meter, key, q)
    PROVE  /\ verify_signature(f, form, key) \in {"valid", "invalid", "error"}
           /\ verify_signature(f, form, key) = "valid" =>
                f.signer \in DeviceKey /\ KeyAge("pub", f.meter, f.signer) <= KeyTtl["pub"] + MaxFlight
           /\ f.form = form /\ Settled("pub", f.meter, f.signer) /\ ~q.erred =>
                verify_signature(f, form, key) = "valid"
<1>1. f.meter \in Meter /\ f.signer \in DeviceKey \cup {"none", "garbled"}
    BY FrameFields
<1>2. verify_signature(f, form, key) \in {"valid", "invalid", "error"}
    BY DEF verify_signature
<1>3. ASSUME verify_signature(f, form, key) = "valid"
      PROVE  f.signer \in DeviceKey /\ KeyAge("pub", f.meter, f.signer) <= KeyTtl["pub"] + MaxFlight
    <2>1. key \notin {"error", "malformed", "absent"} /\ f.signer = key
        BY <1>3 DEF verify_signature
    <2>2. key \in DeviceKey
        BY <2>1 DEF Resolved, Reply, Held
    <2> QED
        BY <2>1, <2>2 DEF Resolved, Recent, Ttl, KeyAge
<1>4. ASSUME f.form = form, Settled("pub", f.meter, f.signer), ~q.erred
      PROVE  verify_signature(f, form, key) = "valid"
    <2>1. key # "error" /\ key \in Held /\ held["pub"][f.meter][key] <= Ttl("pub", key) + MaxFlight
        BY <1>4 DEF Resolved, Recent
    <2>2. f.signer \in Held
        BY <1>1, <1>4 DEF Settled, KeysInv, KeysShape, Kind
    <2>3. f.signer \in DeviceKey
        BY <1>1, <2>2 DEF Held
    <2>4. held["pub"][f.meter][key] \in Nat /\ Ttl("pub", key) \in Nat
        BY <1>1, <2>1, AgesAreNat, KeysAssumption DEF Kind, Ttl
    <2>5. key = f.signer
        BY <1>4, <2>1, <2>4, KeysAssumption DEF Settled, Ttl
    <2> QED
        BY <1>4, <2>3, <2>5, KeysAssumption, FramesAssumption DEF verify_signature
<1> QED
    BY <1>2, <1>3, <1>4

\* The signature of the frame in hand is checked against the next form.
LEMMA Judging ==
    ASSUME NEW q, NEW key, Hand(q, config), config \in Configs, KeysInv, q.i \notin q.added,
           q.ep \in {"rest", "batch", "grpc", "grpc_batch"}, q.verdict[q.i] # "valid",
           q.cand \in 1 .. Len(Candidates(q.ep, Frame(q))),
           config.secure /\ q.ep \in {"rest", "batch"} => q.i \in q.opened,
           Resolved("pub", Frame(q).meter, key, q)
    PROVE  CallOK(Judge(q, key), config, held)
<1> DEFINE f == Frame(q)
           forms == Candidates(q.ep, f)
           v == verify_signature(f, forms[q.cand], key)
           age == IF v = "valid" THEN KeyAge("pub", f.meter, f.signer) ELSE Ancient
           due == IF f.form = forms[q.cand] /\ Settled("pub", f.meter, f.signer) THEN q.due \cup {q.i} ELSE q.due
           p == [q EXCEPT !.verdict[q.i] = v, !.proof[q.i] = age, !.due = due]
<1>1. q \in CallRecord(Size(q)) /\ q.i \in Size(q) /\ Len(q.items) \in Nat /\ q.cand \in Nat
    BY ZenonT(60) DEF Hand, CallShape, CallRecord
<1>2. f \in Frames /\ f.meter \in Meter
    BY <1>1, FrameFields, ZenonT(60) DEF CallRecord, Frame
<1>3. /\ v \in {"valid", "invalid", "error"} /\ age \in Nat
      /\ v = "valid" => age <= Latency(q.ep)
      /\ q.i \in due => q.erred \/ v = "valid"
    <2>1. /\ v \in {"valid", "invalid", "error"}
          /\ v = "valid" => f.signer \in DeviceKey /\ KeyAge("pub", f.meter, f.signer) <= KeyTtl["pub"] + MaxFlight
          /\ f.form = forms[q.cand] /\ Settled("pub", f.meter, f.signer) /\ ~q.erred => v = "valid"
        BY <1>2, JudgedRight
    <2>2. q.i \in q.due => q.erred
        BY DEF Hand, HandTruth
    <2>3. age \in Nat
        BY <1>2, AgesAreNat, AncientIsNat DEF Kind
    <2> QED
        BY <2>1, <2>2, <2>3, ZenonT(60) DEF Latency
<1>4. due \in SUBSET Size(q) /\ due \subseteq q.due \cup {q.i}
    BY <1>1 DEF CallRecord
<1>5. Judge(q, key) =
        CASE v = "invalid" /\ q.cand < Len(forms) -> Want([p EXCEPT !.cand = @ + 1], "pub", {f.meter})
          [] v = "valid" -> AfterSignature(p)
          [] OTHER ->
               CASE q.ep = "rest" -> IF sig_failure_status(v) = "pass" THEN AfterSignature(p)
                                     ELSE Settle(p, sig_failure_status(v))
                 [] q.ep = "batch" -> IF signature_enforcement_disabled THEN AfterSignature(p)
                                      ELSE Settle(p, "dropped")
                 [] q.ep = "grpc" -> Settle(p, IF v = "invalid" THEN "403" ELSE "401")
                 [] q.ep = "grpc_batch" -> Settle(p, "dropped")
    BY DEF Judge
<1> HIDE DEF v, age, due
<1>6. p \in CallRecord(Size(q))
    BY <1>1, <1>3, <1>4, ZenonT(60) DEF CallRecord
<1>7. /\ p.ep = q.ep /\ p.items = q.items /\ p.from = q.from /\ p.source = q.source /\ p.added = q.added
      /\ p.events = q.events /\ p.opened = q.opened /\ p.due = due /\ p.erred = q.erred /\ p.i = q.i
      /\ p.out = q.out /\ p.cand = q.cand /\ p.verdict[q.i] = v /\ p.proof[q.i] = age
      /\ \A j \in Size(q) \ {q.i} : p.verdict[j] = q.verdict[j] /\ p.proof[j] = q.proof[j]
    BY <1>1, <1>3, <1>4 DEF CallRecord
<1> HIDE DEF p
<1>8. Size(p) = Size(q) /\ Frame(p) = f
    BY <1>7 DEF Size, Frame
<1>9. Hand(p, config)
    <2>1. CallShape(p) /\ Sourced(p, config)
        BY <1>1, <1>6, <1>7, <1>8, ZenonT(60) DEF CallShape, Hand, Sourced
    <2>2. HandOrder(p)
        <3>1. HandOrder(q)
            BY Zenon DEF Hand
        <3>2. ASSUME NEW j \in Size(q), j > q.i PROVE p.verdict[j] = "none" /\ j \notin due
            <4>1. j # q.i
                BY <1>1, <3>2 DEF CallRecord
            <4> QED
                BY <1>4, <1>7, <3>1, <3>2, <4>1, ZenonT(60) DEF HandOrder
        <3> QED
            BY <1>7, <1>8, <3>1, <3>2, ZenonT(60) DEF HandOrder
    <2>3. HandTruth(p)
        <3>1. \A j \in due : p.erred \/ (p.verdict[j] = "valid" /\ p.out[j] \notin {"401", "403"})
            <4>1. q.out[q.i] = "pending"
                BY DEF Hand, HandOrder
            <4>2. \A j \in q.due \ {q.i} : q.erred \/ (q.verdict[j] = "valid" /\ q.out[j] \notin {"401", "403"})
                BY DEF Hand, HandTruth
            <4> QED
                BY <1>3, <1>4, <1>7, <4>1, <4>2
        <3> QED
            BY <1>7, <1>8, <3>1 DEF Hand, HandTruth
    <2>4. HandGate(p, config)
        <3>1. q.i \notin q.added /\ q.i \notin q.events /\ q.out[q.i] = "pending"
            BY DEF Hand, HandOrder, HandTruth
        <3>2. \A j \in Size(q) : Simulates(q, j) <=> Simulates(p, j)
            BY <1>7 DEF Simulates
        <3>3. \A j \in Size(q) \ {q.i} : MaySend(q, j, config) => MaySend(p, j, config)
            BY <1>7 DEF MaySend, Bypass, Simulates
        <3>4. HandGate(q, config) /\ p.added = q.added /\ p.events = q.events /\ p.ep = q.ep /\ p.out = q.out
            BY <1>7 DEF Hand
        <3>5. \A j \in Size(q) \ {q.i} : p.verdict[j] = q.verdict[j] /\ p.proof[j] = q.proof[j]
            BY <1>7
        <3>6. v \in {"valid", "invalid", "error"} /\ (v = "valid" => age <= Latency(q.ep))
            BY <1>3
        <3>7. p.verdict[q.i] = v /\ p.proof[q.i] = age
            BY <1>7
        <3> QED
            BY <1>8, <3>1, <3>2, <3>3, <3>4, <3>5, <3>6, <3>7, ZenonT(60) DEF HandGate
    <2> QED
        BY <2>1, <2>2, <2>3, <2>4 DEF Hand
<1>10. p.i \notin p.added
    BY <1>7
<1>11. ASSUME v = "valid" \/ signature_enforcement_disabled
       PROVE  CallOK(AfterSignature(p), config, held)
    <2>1. MaySend(p, p.i, config)
        BY <1>7, <1>11 DEF MaySend, Bypass, signature_enforcement_disabled
    <2> QED
        BY <1>7, <1>9, <1>10, <2>1, AfterSigning
<1>12. ASSUME v # "valid", NEW a \in {"401", "403", "dropped"}
       PROVE  CallOK(Settle(p, a), config, held)
    <2>1. MaySettle(p, a)
        BY <1>3, <1>7, <1>10, <1>12, ZenonT(60) DEF MaySettle, Answers
    <2> QED
        BY <1>9, <2>1, Settling
<1>13. CASE v = "invalid" /\ q.cand < Len(forms)
    <2> DEFINE t == [p EXCEPT !.cand = @ + 1]
    <2>1. Judge(q, key) = Want(t, "pub", {f.meter})
        BY <1>5, <1>13
    <2>2. /\ t \in CallRecord(Size(q)) /\ Same(p, t) /\ t.i = p.i /\ t.out = p.out /\ t.cand = q.cand + 1
        <3>1. p.cand + 1 \in Nat
            BY <1>1, <1>7
        <3>2. t \in CallRecord(Size(q))
            BY <1>6, <3>1, ZenonT(60) DEF CallRecord
        <3> QED
            BY <1>6, <1>7, <3>2, Zenon DEF CallRecord, Same
    <2> HIDE DEF t
    <2>3. Size(t) = Size(p) /\ Frame(t) = f
        BY <1>7, <2>2 DEF Same, Size, Frame
    <2>4. Hand(t, config)
        <3>1. CallShape(t)
            BY <1>1, <1>7, <1>8, <1>9, <2>2, <2>3, ZenonT(60) DEF CallShape, Hand, Same
        <3> QED
            BY <1>9, <2>2, <3>1, HandKept, Zenon
    <2>5. Len(forms) \in Nat
        BY <1>2, FirstForm, ZenonT(60)
    <2>6. MayWant(t, "pub", f.meter)
        <3>1. /\ t.ep = p.ep /\ t.verdict = p.verdict /\ t.opened = p.opened /\ t.i = p.i
              /\ Frame(t) = f /\ "pub" \in Kind
            BY <2>2, <2>3, Zenon DEF Same, Kind
        <3>2. t.cand \in 1 .. Len(Candidates(t.ep, f))
            BY <1>1, <1>7, <1>13, <2>2, <2>5, <3>1, SMTT(60)
        <3> QED
            BY <1>7, <1>13, <3>1, <3>2 DEF MayWant
    <2>7. t.i \notin t.added
        BY <1>10, <2>2 DEF Same
    <2> QED
        BY <2>1, <2>4, <2>6, <2>7, Wanting
<1>14. CASE v = "valid"
    BY <1>5, <1>11, <1>14, SMTT(60)
<1>15. CASE v # "valid" /\ ~(v = "invalid" /\ q.cand < Len(forms))
    <2>1. CASE q.ep = "rest"
        <3>1. Judge(q, key) = IF sig_failure_status(v) = "pass" THEN AfterSignature(p)
                              ELSE Settle(p, sig_failure_status(v))
            BY <1>5, <1>15, <2>1
        <3>2. IF signature_enforcement_disabled THEN sig_failure_status(v) = "pass"
              ELSE sig_failure_status(v) \in {"401", "403"}
            BY <1>3, <1>15, SMTT(60) DEF sig_failure_status
        <3> QED
            BY <1>11, <1>12, <1>15, <3>1, <3>2
    <2>2. CASE q.ep = "batch"
        <3>1. Judge(q, key) = IF signature_enforcement_disabled THEN AfterSignature(p) ELSE Settle(p, "dropped")
            BY <1>5, <1>15, <2>2, ZenonT(60)
        <3> QED
            BY <1>11, <1>12, <1>15, <3>1
    <2>3. CASE q.ep = "grpc"
        <3>1. Judge(q, key) = Settle(p, IF v = "invalid" THEN "403" ELSE "401")
            BY <1>5, <1>15, <2>3, SMTT(60)
        <3> QED
            BY <1>12, <1>15, <3>1
    <2>4. CASE q.ep = "grpc_batch"
        <3>1. Judge(q, key) = Settle(p, "dropped")
            BY <1>5, <1>15, <2>4, SMTT(60)
        <3> QED
            BY <1>12, <1>15, <3>1
    <2> QED
        BY <2>1, <2>2, <2>3, <2>4, SMTT(60)
<1> QED
    BY <1>13, <1>14, <1>15

\* The binary frame in hand is decoded, or not.
LEMMA Decoding ==
    ASSUME NEW q, NEW key, Hand(q, config), config \in Configs, KeysInv, q.i \notin q.added,
           q.ep \in {"bulk", "grpc", "grpc_batch"}, q.ep # "bulk" => MaySend(q, q.i, config),
           Resolved("enc", Frame(q).ldn, key, q)
    PROVE  CallOK(Decoded(q, key), config, held)
<1> DEFINE f == Frame(q)
           how == apply_dlms_key_policy(f, key)
           from == IF how = "frame" THEN "frame" ELSE "fields"
           age == IF how # "frame" THEN 0
                  ELSE IF key \in DeviceKey THEN KeyAge("enc", f.ldn, f.raw) ELSE held["enc"][f.ldn]["absent"]
           p == [q EXCEPT !.from[q.i] = from, !.source[q.i] = age]
<1>1. q \in CallRecord(Size(q)) /\ q.i \in Size(q) /\ Len(q.items) \in Nat
    BY DEF Hand, CallShape, CallRecord
<1>2. f \in Frames /\ f.ldn \in Meter
    BY <1>1, FrameFields, SMTT(60) DEF CallRecord, Frame
<1>3. age \in Nat
    BY <1>2, AgesAreNat DEF Kind, Held
<1>4. how = "frame" => \/ f.raw \in DeviceKey /\ age <= KeyTtl["enc"] + MaxFlight
                       \/ config.plaintext /\ ~config.secure /\ ~config.production /\ age <= AbsentTtl + MaxFlight
    <2> SUFFICES ASSUME how = "frame"
                 PROVE \/ f.raw \in DeviceKey /\ age <= KeyTtl["enc"] + MaxFlight
                       \/ config.plaintext /\ ~config.secure /\ ~config.production /\ age <= AbsentTtl + MaxFlight
        BY SMTT(60)
    <2>1. key \in DeviceKey \cup {"absent", "malformed", "error"}
        BY DEF Resolved, Reply, Held
    <2>2. CASE key \in DeviceKey
        <3>1. f.raw = key
            BY <2>2, KeysAssumption DEF apply_dlms_key_policy
        <3>2. Recent("enc", f.ldn, key, MaxFlight, held)
            BY <2>2, KeysAssumption, SMTT(60) DEF Resolved
        <3> QED
            BY <2>2, <3>1, <3>2, KeysAssumption DEF Recent, Ttl, KeyAge
    <2>3. CASE key = "absent"
        <3>1. key \notin DeviceKey
            BY <2>3, KeysAssumption
        <3>2. ~config.production /\ config.plaintext /\ ~config.secure
            BY <2>3, <3>1 DEF apply_dlms_key_policy, plaintext_dlms_allowed, Configs
        <3> QED
            BY <2>3, <3>1, <3>2 DEF Resolved, Recent, Ttl
    <2>4. CASE key \in {"malformed", "error"}
        BY <2>4, KeysAssumption DEF apply_dlms_key_policy
    <2> QED
        BY <2>1, <2>2, <2>3, <2>4, ZenonT(60)
<1>5. Decoded(q, key) = IF q.ep # "bulk" THEN [p EXCEPT !.pc = "send"]
                        ELSE Settle(p, IF how = "frame" THEN "queued" ELSE "dropped")
    BY DEF Decoded
<1> HIDE DEF how, age
<1>6. p \in CallRecord(Size(q))
    BY <1>1, <1>3, Zenon DEF CallRecord
<1>7. /\ p.ep = q.ep /\ p.items = q.items /\ p.verdict = q.verdict /\ p.proof = q.proof /\ p.added = q.added
      /\ p.events = q.events /\ p.opened = q.opened /\ p.due = q.due /\ p.erred = q.erred /\ p.i = q.i
      /\ p.out = q.out /\ p.from[q.i] = from /\ p.source[q.i] = age
      /\ \A j \in Size(q) \ {q.i} : p.from[j] = q.from[j] /\ p.source[j] = q.source[j]
    BY <1>1, <1>3 DEF CallRecord
<1> HIDE DEF p
<1>8. Size(p) = Size(q)
    BY <1>7, SMTT(60) DEF Size
<1>9. Hand(p, config)
    <2>1. CallShape(p)
        BY <1>1, <1>6, <1>7, <1>8 DEF CallShape
    <2>2. Sourced(p, config)
        BY <1>1, <1>4, <1>7, <1>8, ZenonT(60) DEF Hand, Sourced, Frame
    <2>3. HandOrder(p) /\ HandTruth(p)
        <3>0. p.i = q.i /\ p.out = q.out /\ p.verdict = q.verdict /\ p.due = q.due /\ p.ep = q.ep
            BY <1>7, Zenon
        <3>1. HandOrder(p)
            BY <1>8, <3>0 DEF Hand, HandOrder
        <3>2. HandTruth(p)
            BY <1>7, <1>8, ZenonT(60) DEF Hand, HandTruth
        <3> QED
            BY <3>1, <3>2
    <2>4. HandGate(p, config)
        <3>1. \A j : (MaySend(q, j, config) <=> MaySend(p, j, config)) /\ (Simulates(q, j) <=> Simulates(p, j))
            BY <1>7, SameSends, Zenon
        <3> QED
            BY <1>7, <1>8, <3>1, ZenonT(60) DEF Hand, HandGate
    <2> QED
        BY <2>1, <2>2, <2>3, <2>4, SMTT(60) DEF Hand
<1>10. CASE q.ep # "bulk"
    <2>1. MaySend(p, p.i, config)
        BY <1>7, <1>10 DEF MaySend, Bypass, Simulates
    <2> QED
        BY <1>5, <1>7, <1>9, <1>10, <2>1, Sending
<1>11. CASE q.ep = "bulk"
    <2>1. MaySettle(p, "queued") /\ MaySettle(p, "dropped")
        BY <1>7, <1>11 DEF MaySettle, Answers
    <2> QED
        BY <1>5, <1>9, <1>11, <2>1, Settling
<1> QED
    BY <1>10, <1>11, SMTT(60)

\* Bulk checks the signatures of all frames it decoded.
LEMMA JudgingBulk ==
    ASSUME NEW q, NEW keys, CallShape(q), InOrder(q), Truthful(q), Gated(q, config), Sourced(q, config),
           config \in Configs, KeysInv, Verifying(q),
           \A j \in Queued(q) : \/ keys[q.items[j].ldn] = "error"
                                \/ Recent("pub", q.items[j].ldn, keys[q.items[j].ldn], 2 * MaxFlight, held)
    PROVE  CallOK(JudgeBulk(q, keys), config, held)
<1> DEFINE D == Size(q)
           ok(j) == keys[q.items[j].ldn] \in DeviceKey
                       /\ verify_signature(q.items[j], "raw", keys[q.items[j].ldn]) = "valid"
           judged == {j \in Queued(q) : ok(j)}
           out == [j \in DOMAIN q.out |-> IF j \in Queued(q) \ judged THEN "dropped" ELSE q.out[j]]
           verdict == [j \in DOMAIN q.verdict |-> IF j \in judged THEN "valid" ELSE q.verdict[j]]
           proof == [j \in DOMAIN q.proof |->
                       IF j \in judged THEN KeyAge("pub", q.items[j].ldn, q.items[j].signer) ELSE q.proof[j]]
           failed == [j \in DOMAIN q.out |-> IF j \in Queued(q) THEN "500" ELSE q.out[j]]
<1>1. q \in CallRecord(D) /\ q.i \in D /\ Len(q.items) \in Nat /\ Queued(q) = {j \in D : q.out[j] = "queued"}
    BY ZenonT(60) DEF CallShape, CallRecord, Queued, Size
<1>2. /\ q.ep = "bulk" /\ q.kind = "pub" /\ Over(q) /\ q.i = Len(q.items)
      /\ \A j \in D : q.out[j] # "pending" /\ ~(j > q.i)
    <2>1. q.ep = "bulk" /\ q.kind = "pub" /\ Over(q)
        BY Zenon DEF Verifying, Over
    <2>2. /\ q.i = Len(q.items) /\ q.out[q.i] # "pending"
          /\ \A j \in Size(q) : j < q.i => q.out[j] # "pending"
        BY <2>1, Zenon DEF InOrder
    <2>3. \A j \in D : ~(j > q.i) /\ (j = q.i \/ j < q.i)
        BY <1>1, <2>2 DEF Size
    <2> QED
        BY <2>1, <2>2, <2>3, Zenon
<1>3. CASE \E m \in DOMAIN keys : keys[m] = "error"
    <2> DEFINE s == [q EXCEPT !.out = failed, !.pc = "done"]
    <2>1. JudgeBulk(q, keys) = s
        BY <1>3 DEF JudgeBulk
    <2>2. failed \in [D -> Answers] /\ \A j \in D : failed[j] = IF q.out[j] = "queued" THEN "500" ELSE q.out[j]
        BY <1>1, SMTT(60) DEF CallRecord, Answers
    <2> HIDE DEF failed
    <2>3. s \in CallRecord(D)
        BY <1>1, <2>2, ZenonT(60) DEF CallRecord
    <2>4. Same(q, s) /\ s.out = failed /\ s.pc = "done" /\ s.i = q.i
        BY <1>1, <2>2, <2>3, ZenonT(60) DEF CallRecord, Same
    <2> HIDE DEF s
    <2>5. Size(s) = D /\ Over(s) /\ ~Looking(s)
        BY <2>4, ZenonT(60) DEF Same, Size, Over, Looking
    <2>6. CallShape(s)
        BY <1>1, <2>3, <2>4, <2>5 DEF CallShape, Same
    <2>7. InOrder(s)
        <3>1. ~Unjudged(s) /\ s.pc # "bump" /\ s.i = Len(s.items) /\ s.i \in Size(s)
            BY <1>1, <1>2, <2>4, <2>5, Zenon DEF Same, Unjudged
        <3>2. \A j \in Size(s) : s.out[j] # "queued" /\ s.out[j] # "pending" /\ ~(j > s.i)
            BY <1>2, <2>2, <2>4, <2>5, ZenonT(60)
        <3> QED
            BY <2>5, <3>1, <3>2, ZenonT(60) DEF InOrder
    <2>8. Truthful(s)
        BY <1>1, <2>2, <2>4, <2>5 DEF Truthful, Same, Kept, CallRecord
    <2>9. Gated(s, config)
        <3>1. \A j : (MaySend(q, j, config) <=> MaySend(s, j, config)) /\ (Simulates(q, j) <=> Simulates(s, j))
            BY <2>4, SameSends, Zenon DEF Same
        <3>2. \A j \in Size(s) : s.out[j] # "queued"
            BY <2>2, <2>4, <2>5, Zenon
        <3> QED
            BY <2>4, <2>5, <3>1, <3>2, Zenon DEF Gated, Same
    <2>10. Sourced(s, config) /\ Found(s, held)
        BY <2>4, <2>5, Zenon DEF Sourced, Same, Found
    <2> QED
        BY <2>1, <2>6, <2>7, <2>8, <2>9, <2>10, ZenonT(60) DEF CallOK
<1>4. CASE ~(\E m \in DOMAIN keys : keys[m] = "error")
    <2> DEFINE pc == IF judged = {} THEN "done" ELSE "send"
               s == [q EXCEPT !.out = out, !.verdict = verdict, !.proof = proof, !.pc = pc]
    <2>1. JudgeBulk(q, keys) = s
        BY <1>4, ZenonT(60) DEF JudgeBulk
    <2>2. \A j \in judged : /\ j \in D /\ q.out[j] = "queued" /\ q.items[j] \in Frames /\ q.items[j].ldn \in Meter
                            /\ q.items[j].signer = keys[q.items[j].ldn] /\ q.items[j].signer \in DeviceKey
        <3>1. \A j \in judged : j \in D /\ q.out[j] = "queued" /\ ok(j)
            BY <1>1, Zenon
        <3>2. \A j \in D : q.items[j] \in Frames /\ q.items[j].ldn \in Meter
            BY <1>1, FrameFields DEF CallRecord
        <3> QED
            BY <3>1, <3>2, KeysAssumption DEF verify_signature
    <2>3. \A j \in judged : /\ KeyAge("pub", q.items[j].ldn, q.items[j].signer) \in Nat
                            /\ KeyAge("pub", q.items[j].ldn, q.items[j].signer) <= Latency("bulk")
        <3> SUFFICES ASSUME NEW j \in judged
                     PROVE  /\ KeyAge("pub", q.items[j].ldn, q.items[j].signer) \in Nat
                            /\ KeyAge("pub", q.items[j].ldn, q.items[j].signer) <= Latency("bulk")
            BY Zenon
        <3>1. Recent("pub", q.items[j].ldn, q.items[j].signer, 2 * MaxFlight, held)
            BY <2>2, KeysAssumption, ZenonT(60)
        <3>2. KeyAge("pub", q.items[j].ldn, q.items[j].signer) = held["pub"][q.items[j].ldn][q.items[j].signer]
              /\ q.items[j].signer # "absent"
            BY <2>2, KeysAssumption DEF KeyAge
        <3> QED
            BY <2>2, <3>1, <3>2, AgesAreNat, ZenonT(60) DEF Recent, Ttl, Latency, Kind
    <2>4. judged \subseteq D /\ \A j \in D : q.out[j] = "queued" /\ j \notin judged <=> j \in Queued(q) \ judged
        BY <1>1, ZenonT(60)
    <2> HIDE DEF judged
    <2>5. /\ out \in [D -> Answers] /\ verdict \in [D -> {"none", "valid", "invalid", "error", "bypass"}]
          /\ proof \in [D -> Nat]
        BY <1>1, <2>3, <2>4, ZenonT(60) DEF CallRecord, Answers
    <2>6. \A j \in D : /\ out[j] = IF q.out[j] = "queued" /\ j \notin judged THEN "dropped" ELSE q.out[j]
                       /\ verdict[j] = IF j \in judged THEN "valid" ELSE q.verdict[j]
                       /\ j \notin judged => proof[j] = q.proof[j]
                       /\ verdict[j] = "valid" => proof[j] <= Latency("bulk")
        BY <1>1, <1>2, <2>3, <2>4 DEF CallRecord, Gated
    <2> HIDE DEF out, verdict, proof
    <2>7. s \in CallRecord(D)
        BY <1>1, <2>5, ZenonT(60) DEF CallRecord
    <2>8. /\ s.ep = q.ep /\ s.items = q.items /\ s.from = q.from /\ s.source = q.source /\ s.added = q.added
          /\ s.events = q.events /\ s.opened = q.opened /\ s.due = q.due /\ s.erred = q.erred /\ s.i = q.i
          /\ s.out = out /\ s.verdict = verdict /\ s.proof = proof /\ s.pc = pc /\ s.pc \in {"done", "send"}
        <3>1. pc \in {"done", "send"}
            OBVIOUS
        <3> HIDE DEF pc
        <3>2. s.out = out /\ s.verdict = verdict /\ s.proof = proof /\ s.pc = pc
            BY <1>1 DEF CallRecord
        <3>3. /\ s.ep = q.ep /\ s.items = q.items /\ s.from = q.from /\ s.source = q.source
              /\ s.added = q.added /\ s.events = q.events
            BY <1>1 DEF CallRecord
        <3>4. s.opened = q.opened /\ s.due = q.due /\ s.erred = q.erred /\ s.i = q.i
            BY <1>1, ZenonT(60) DEF CallRecord
        <3> QED
            BY <3>1, <3>2, <3>3, <3>4
    <2> HIDE DEF s
    <2>9. Size(s) = D /\ Over(s) /\ ~Looking(s)
        BY <1>2, <2>8, ZenonT(60) DEF Size, Over, Looking
    <2>10. CallShape(s)
        BY <1>1, <2>7, <2>8, <2>9 DEF CallShape
    <2>11. InOrder(s)
        <3>1. \A j \in D : s.out[j] = "queued" => s.pc # "done"
            BY <2>4, <2>6, <2>8, ZenonT(60)
        <3>2. s.i = Len(s.items) /\ \A j \in D : s.out[j] # "pending"
            BY <1>2, <2>6, <2>8, ZenonT(60) DEF InOrder
        <3>3. ~Unjudged(s) /\ s.pc # "bump"
            BY <2>8, <2>9 DEF Unjudged
        <3> QED
            BY <1>1, <1>2, <2>8, <2>9, <3>1, <3>2, <3>3, ZenonT(60) DEF InOrder, Size
    <2>12. Truthful(s)
        <3>1. \A j \in D : /\ s.out[j] \in Kept => q.out[j] \in Kept
                           /\ s.out[j] = "accepted" <=> q.out[j] = "accepted"
            BY <2>6, <2>8, ZenonT(60) DEF Kept
        <3>2. \A j \in q.due : s.erred \/ (s.verdict[j] = "valid" /\ s.out[j] \notin {"401", "403"})
            BY <1>1, <2>6, <2>8, SMTT(60) DEF Truthful, CallRecord
        <3> QED
            BY <2>8, <2>9, <3>1, <3>2, ZenonT(60) DEF Truthful
    <2>13. Gated(s, config)
        <3>1. \A j \in D : MaySend(q, j, config) => MaySend(s, j, config)
            BY <2>6, <2>8, ZenonT(60) DEF MaySend, Bypass, Simulates
        <3>2. \A j \in judged : MaySend(s, j, config)
            BY <1>2, <2>4, <2>6, <2>8, ZenonT(60) DEF MaySend
        <3>3. \A j \in D : s.verdict[j] = "bypass" => Simulates(s, j)
            BY <2>6, <2>8, ZenonT(60) DEF Gated, Simulates
        <3> QED
            BY <1>2, <2>4, <2>6, <2>8, <2>9, <3>1, <3>2, <3>3, ZenonT(60) DEF Gated
    <2>14. Sourced(s, config) /\ Found(s, held)
        BY <2>8, <2>9, Zenon DEF Sourced, Found
    <2> QED
        BY <2>1, <2>10, <2>11, <2>12, <2>13, <2>14 DEF CallOK
<1> QED
    BY <1>3, <1>4

\* A sealed frame opened with the device's key goes on to the replay counter.
LEMMA Bumping ==
    ASSUME NEW q, Hand(q, config), Fresh(q), q.ep = "rest", q.kind # "pub", Frame(q).sealed \in DeviceKey,
           held[q.kind][Frame(q).meter][Frame(q).sealed] <= Limit(q.kind)
    PROVE  CallOK([q EXCEPT !.pc = "bump"], config, held)
<1> SUFFICES ASSUME NEW s, s = [q EXCEPT !.pc = "bump"] PROVE CallOK(s, config, held)
    OBVIOUS
<1>1. q \in CallRecord(Size(q)) /\ q.i \in Size(q) /\ Len(q.items) \in Nat
    BY DEF Hand, CallShape, CallRecord
<1>2. s \in CallRecord(Size(q)) /\ Same(q, s) /\ s.pc = "bump" /\ s.i = q.i /\ s.out = q.out /\ s.kind = q.kind /\ s.cand = q.cand
    BY <1>1, MovedRecord
<1>3. Size(s) = Size(q) /\ Frame(s) = Frame(q) /\ ~Looking(s) /\ ~Over(s)
    BY <1>2, ZenonT(60) DEF Same, Size, Frame, Looking, Over, Verifying
<1>4. CallShape(s)
    BY <1>1, <1>2, <1>3, SMTT(60) DEF CallShape, Same
<1>5. InOrder(s)
    BY <1>1, <1>2, <1>3, SMTT(60) DEF InOrder, Hand, HandOrder, Same, Fresh
<1>6. Truthful(s)
    <2>1. Truthful(q)
        BY DEF Truthful, Hand, HandOrder, HandTruth, Fresh
    <2> QED
        BY <1>2, <1>3, <2>1 DEF Truthful, Same
<1>7. Gated(s, config)
    <2>1. \A j : (MaySend(q, j, config) <=> MaySend(s, j, config)) /\ (Simulates(q, j) <=> Simulates(s, j))
        BY <1>2, SameSends, Zenon DEF Same
    <2> QED
        BY <1>1, <1>2, <1>3, <2>1 DEF Gated, Hand, HandOrder, HandGate, Same
<1>8. Sourced(s, config) /\ Found(s, held)
    BY <1>1, <1>2, <1>3, ZenonT(60) DEF Sourced, Hand, Same, Found
<1> QED
    BY <1>4, <1>5, <1>6, <1>7, <1>8 DEF CallOK

\* The lookup is complete.
LEMMA Using ==
    ASSUME NEW q, CallShape(q), InOrder(q), Truthful(q), Gated(q, config), Sourced(q, config),
           config \in Configs, KeysInv, Looking(q), Asked(q),
           \A m \in q.wanted : \/ q.got[m] = "error"
                               \/ Recent(q.kind, m, q.got[m], IF Verifying(q) THEN 2 * MaxFlight ELSE MaxFlight, held)
    PROVE  CallOK(Use(q), config, held)
<1> DEFINE f == Frame(q)
           erred == q.erred \/ \E m \in q.wanted : q.got[m] = "error"
           p == [q EXCEPT !.erred = erred, !.wanted = {}, !.missed = {}, !.got = NoKeys]
<1>1. /\ q \in CallRecord(Size(q)) /\ q.i \in Size(q) /\ Len(q.items) \in Nat /\ q.ep \in Endpoints /\ q.kind \in Kind
      /\ q.got \in [Meter -> Reply \cup {Nothing}]
    BY SMTT(60) DEF CallShape, CallRecord
<1>2. f \in Frames /\ f.meter \in Meter /\ f.ldn \in Meter
    BY <1>1, FrameFields, SMTT(60) DEF CallRecord, Frame
<1>3. erred \in BOOLEAN /\ (q.erred => erred)
    BY <1>1 DEF CallRecord
<1>4. Use(q) = CASE q.kind = "pub" /\ q.ep = "bulk" -> JudgeBulk(p, q.got)
                 [] q.kind = "pub" /\ q.ep # "bulk" -> Judge(p, q.got[f.meter])
                 [] q.kind # "pub" /\ q.ep # "rest" -> Decoded(p, q.got[f.ldn])
                 [] q.kind # "pub" /\ q.ep = "rest" ->
                      IF q.got[f.meter] \in DeviceKey /\ f.sealed = q.got[f.meter]
                      THEN [p EXCEPT !.pc = "bump"] ELSE Settle(p, "400")
    BY SMTT(60) DEF Use
<1>5. \A m \in q.wanted : q.got[m] = "error" => erred
    OBVIOUS
<1> HIDE DEF erred
<1>6. p \in CallRecord(Size(q))
    <2>1. NoKeys \in [Meter -> Reply \cup {Nothing}]
        BY DEF NoKeys
    <2>2. [q EXCEPT !.erred = erred, !.wanted = {}] \in CallRecord(Size(q))
        BY <1>1, <1>3, Zenon DEF CallRecord
    <2>3. \A r \in CallRecord(Size(q)) : [r EXCEPT !.missed = {}, !.got = NoKeys] \in CallRecord(Size(q))
        BY <2>1, ZenonT(60) DEF CallRecord
    <2> QED
        BY <2>2, <2>3, Zenon
<1>7. /\ p.pc = q.pc /\ p.ep = q.ep /\ p.items = q.items /\ p.verdict = q.verdict /\ p.from = q.from /\ p.proof = q.proof
      /\ p.source = q.source /\ p.added = q.added /\ p.events = q.events /\ p.opened = q.opened
      /\ p.due = q.due /\ p.i = q.i /\ p.out = q.out /\ p.kind = q.kind /\ p.cand = q.cand /\ p.erred = erred
    BY <1>1 DEF CallRecord
<1> HIDE DEF p
<1>8. /\ Size(p) = Size(q) /\ Frame(p) = f /\ Queued(p) = Queued(q) /\ (Looking(p) <=> Looking(q))
      /\ (Verifying(p) <=> Verifying(q)) /\ (Over(p) <=> Over(q)) /\ (Unjudged(p) <=> Unjudged(q))
    BY <1>7 DEF Size, Frame, Queued, Looking, Verifying, Over, Unjudged
<1>9. CallShape(p) /\ InOrder(p) /\ Truthful(p) /\ Gated(p, config) /\ Sourced(p, config)
    <2>1. CallShape(p)
        BY <1>1, <1>6, <1>7, <1>8, ZenonT(60) DEF CallShape
    <2>2. InOrder(p)
        BY <1>7, <1>8, ZenonT(60) DEF InOrder
    <2>3. Truthful(p)
        BY <1>3, <1>7, <1>8, ZenonT(60) DEF Truthful
    <2>4. Gated(p, config) /\ Sourced(p, config)
        <3>1. \A j : (MaySend(q, j, config) <=> MaySend(p, j, config)) /\ (Simulates(q, j) <=> Simulates(p, j))
            BY <1>7, SameSends, Zenon
        <3>2. Gated(p, config)
            BY <1>7, <1>8, <3>1, Zenon DEF Gated
        <3>3. Sourced(p, config)
            BY <1>7, <1>8, Zenon DEF Sourced
        <3> QED
            BY <3>2, <3>3
    <2> QED
        BY <2>1, <2>2, <2>3, <2>4, ZenonT(60)
<1>10. CASE Verifying(q)
    <2>1. Use(q) = JudgeBulk(p, q.got)
        BY <1>4, <1>10 DEF Verifying
    <2>2. \A j \in Queued(p) : p.items[j].ldn \in q.wanted
        BY <1>7, <1>8, <1>10, ZenonT(60) DEF Asked, Wanted, Verifying
    <2>3. \A j \in Queued(p) : \/ q.got[p.items[j].ldn] = "error"
                               \/ Recent("pub", p.items[j].ldn, q.got[p.items[j].ldn], 2 * MaxFlight, held)
        BY <1>10, <2>2, ZenonT(60) DEF Verifying
    <2> QED
        BY <1>8, <1>9, <1>10, <2>1, <2>3, JudgingBulk, Zenon
<1>11. CASE ~Verifying(q)
    <2>1. Hand(p, config) /\ p.i \notin p.added
        <3>1. ~Over(p)
            BY <1>8, <1>11, ZenonT(60) DEF Looking, Over
        <3> QED
            BY <1>9, <3>1, HandOfCall, ZenonT(60)
    <2>2. q.wanted = {IF q.kind = "pub" \/ q.ep = "rest" THEN f.meter ELSE f.ldn}
        BY <1>11 DEF Asked, Wanted, Verifying
    <2>3. \A m \in q.wanted : m \in Meter => Resolved(q.kind, m, q.got[m], p)
        BY <1>1, <1>5, <1>7, <1>11, ZenonT(60) DEF Resolved, Recent, Reply
    <2>4. CASE q.kind = "pub"
        <3>1. q.ep \in {"rest", "batch", "grpc", "grpc_batch"} /\ Use(q) = Judge(p, q.got[f.meter])
            BY <1>1, <1>4, <1>11, <2>4 DEF Verifying, Asked, Endpoints
        <3>2. Resolved("pub", f.meter, q.got[f.meter], p)
            BY <1>2, <2>2, <2>3, <2>4, Zenon
        <3>3. p.cand \in 1 .. Len(Candidates(p.ep, Frame(p))) /\ p.verdict[p.i] # "valid"
            BY <1>7, <1>8, <2>4, <3>1, ZenonT(60) DEF Asked
        <3>4. config.secure /\ p.ep \in {"rest", "batch"} => p.i \in p.opened
            BY <1>7, <1>8, <1>9, <2>4, ZenonT(60) DEF Gated
        <3>5. Judge(p, q.got[f.meter]) = Judge(p, q.got[Frame(p).meter]) /\ p.ep \in {"rest", "batch", "grpc", "grpc_batch"}
            BY <1>7, <1>8, <3>1, ZenonT(60)
        <3> QED
            BY <1>8, <2>1, <3>1, <3>2, <3>3, <3>4, <3>5, Judging, ZenonT(60)
    <2>5. CASE q.kind # "pub" /\ q.ep # "rest"
        <3>1. q.ep \in {"bulk", "grpc", "grpc_batch"} /\ q.kind = "enc" /\ Use(q) = Decoded(p, q.got[f.ldn])
            BY <1>1, <1>4, <2>5 DEF Asked, Endpoints, Kind
        <3>2. Resolved("enc", f.ldn, q.got[f.ldn], p)
            BY <1>2, <2>2, <2>3, <2>5, <3>1, Zenon
        <3>3. p.ep # "bulk" => MaySend(p, p.i, config)
            BY <1>7, <1>8, <1>9, <2>5, <3>1, ZenonT(60) DEF Gated
        <3>4. p.ep \in {"bulk", "grpc", "grpc_batch"} /\ p.kind = "enc"
            BY <1>7, <3>1, ZenonT(60)
        <3> QED
            BY <1>8, <2>1, <3>1, <3>2, <3>3, <3>4, Decoding, ZenonT(60)
    <2>6. CASE q.kind # "pub" /\ q.ep = "rest"
        <3>1. Use(q) = IF q.got[f.meter] \in DeviceKey /\ f.sealed = q.got[f.meter]
                       THEN [p EXCEPT !.pc = "bump"] ELSE Settle(p, "400")
            BY <1>4, <2>6, ZenonT(60)
        <3>2. Resolved(q.kind, f.meter, q.got[f.meter], p)
            BY <1>2, <2>2, <2>3, <2>6
        <3>3. CASE q.got[f.meter] \in DeviceKey /\ f.sealed = q.got[f.meter]
            <4>1. Fresh(p)
                BY <1>7, <1>8, <1>9, <2>1, <2>6, Zenon DEF InOrder, Unjudged, Fresh
            <4>2. q.got[f.meter] # "error" /\ q.got[f.meter] # "absent"
                BY <3>3, KeysAssumption
            <4>5. held[q.kind][f.meter][f.sealed] <= Limit(q.kind)
                <5>1. Recent(q.kind, f.meter, f.sealed, MaxFlight, held) /\ f.sealed # "absent"
                    BY <3>2, <3>3, <4>2, ZenonT(60) DEF Resolved
                <5>2. CASE q.kind = "guek"
                    BY <5>1, <5>2, Zenon DEF Recent, Limit
                <5>3. CASE q.kind = "enc"
                    BY <5>1, <5>3 DEF Recent, Ttl, Limit
                <5> QED
                    BY <1>1, <2>6, <5>2, <5>3, ZenonT(60) DEF Kind
            <4> QED
                BY <1>7, <1>8, <2>1, <2>6, <3>1, <3>3, <4>1, <4>5, Bumping, ZenonT(60)
        <3>4. CASE ~(q.got[f.meter] \in DeviceKey /\ f.sealed = q.got[f.meter])
            <4>1. MaySettle(p, "400")
                BY <2>1, ZenonT(60) DEF MaySettle, Answers
            <4> QED
                BY <2>1, <3>1, <3>4, <4>1, Settling
        <3> QED
            BY <3>3, <3>4, Zenon
    <2> QED
        BY <2>4, <2>5, <2>6, ZenonT(60)
<1> QED
    BY <1>10, <1>11, SMTT(60)

-----------------------------------------------------------------------------
(* The steps of a lookup, which change nothing else of a call. *)
=============================================================================
