-------------------------- MODULE IngestGateProofs --------------------------
(* What the ingest endpoints let through, for any devices, keys, lifetimes,  *)
(* concurrent calls and frames: every step of the handlers, key changes and  *)
(* time passing keep IngestInv of IngestCallProofs.                          *)
EXTENDS IngestCallProofs

LEMMA LookingOn ==
    ASSUME NEW q, CallOK(q, config, held), Looking(q), NEW s \in CallRecord(Size(q)), Same(q, s), Looking(s),
           s.i = q.i, s.cand = q.cand, s.out = q.out, s.kind = q.kind, s.wanted = q.wanted
    PROVE  /\ CallShape(s) /\ InOrder(s) /\ Truthful(s) /\ Gated(s, config) /\ Sourced(s, config) /\ Asked(s)
           /\ Verifying(s) <=> Verifying(q)
           /\ ~Verifying(q) => \E m \in Meter : q.wanted = {m}
<1>1. /\ Size(s) = Size(q) /\ Frame(s) = Frame(q) /\ Queued(s) = Queued(q) /\ (Verifying(s) <=> Verifying(q))
      /\ (Over(s) <=> Over(q)) /\ (Unjudged(s) <=> Unjudged(q))
    BY Zenon DEF Same, Size, Frame, Queued, Looking, Verifying, Over, Unjudged
<1>2. CallShape(s)
    BY <1>1 DEF CallOK, CallShape, Same
<1>3. InOrder(s)
    BY <1>1 DEF CallOK, InOrder, Same, Looking
<1>4. Truthful(s)
    BY <1>1, Zenon DEF CallOK, Truthful, Same
<1>5. Gated(s, config) /\ Sourced(s, config)
    <2>1. \A j \in Size(q) : /\ Simulates(s, j) <=> Simulates(q, j)
                             /\ MaySend(s, j, config) <=> MaySend(q, j, config)
        BY DEF Same, MaySend, Bypass, Simulates
    <2>2. q.i \in Size(q)
        BY DEF CallOK, CallShape, CallRecord
    <2>3. Gated(s, config)
        BY <1>1, <2>1, <2>2, ZenonT(60) DEF CallOK, Gated, Same, Looking
    <2>4. Sourced(s, config)
        BY <1>1, ZenonT(60) DEF CallOK, Sourced, Same
    <2> QED
        BY <2>3, <2>4
<1>6. Asked(s)
    BY <1>1 DEF CallOK, Found, Asked, Wanted, Same
<1>7. ~Verifying(q) => \E m \in Meter : q.wanted = {m}
    <2>1. Frame(q) \in Frames
        BY DEF CallOK, CallShape, CallRecord, Frame
    <2> QED
        BY <2>1, FrameFields, Zenon DEF CallOK, Found, Asked, Wanted, Verifying
<1> QED
    BY <1>1, <1>2, <1>3, <1>4, <1>5, <1>6, <1>7, ZenonT(60)

\* What the cache returns is recent.
LEMMA CachedIsRecent ==
    ASSUME KeysInv, NEW kind \in Kind, NEW m \in Meter, cache_get(kind, m) # Nothing
    PROVE  cache_get(kind, m) \in Held /\ Recent(kind, m, cache_get(kind, m), MaxFlight, held)
<1> DEFINE e == keycache[kind][m]
<1>1. e # Nothing /\ e \in [key : DeviceKey \cup {"absent"}, left : Nat] /\ (kind = "guek" \/ e.left > 0)
      /\ cache_get(kind, m) = e.key
    BY DEF KeysInv, KeysShape, cache_get
<1>2. e.key \in Held /\ e.left \in Nat
    BY <1>1 DEF Held
<1>3. held[kind][m][e.key] \in Nat
    BY <1>2, AgesAreNat
<1>4. CASE kind = "guek"
    <2>1. held[kind][m][e.key] <= Ancient - 1
        BY <1>1, <1>4, ZenonT(60) DEF KeysInv, Dated
    <2> QED
        BY <1>1, <1>2, <1>4, <2>1, SMTT(60) DEF Recent
<1>5. CASE kind # "guek"
    <2>1. held[kind][m][e.key] + e.left <= Ttl(kind, e.key) + MaxFlight
        BY <1>1, <1>5 DEF KeysInv, Dated
    <2>2. Ttl(kind, e.key) \in Nat
        BY KeysAssumption DEF Ttl
    <2> QED
        BY <1>1, <1>2, <1>3, <1>5, <2>1, <2>2, KeysAssumption, SMTT(60) DEF Recent
<1> QED
    BY <1>4, <1>5

LEMMA RecentGrows ==
    ASSUME KeysInv, NEW kind \in Kind, NEW m \in Meter, NEW v, NEW a \in Nat, NEW b \in Nat, a <= b,
           Recent(kind, m, v, a, held)
    PROVE  Recent(kind, m, v, b, held)
<1>1. held[kind][m][v] \in Nat /\ Ttl(kind, v) \in Nat
    BY AgesAreNat, KeysAssumption DEF Recent, Ttl
<1> QED
    BY <1>1 DEF Recent

LEMMA LookupStep ==
    ASSUME IngestInv, NEW r \in Caller, Lookup(r)
    PROVE  CallOK(call'[r], config, held) /\ KeysInv'
<1> DEFINE q == call[r]
           missed == {m \in q.wanted : cache_get(q.kind, m) = Nothing}
           got == [m \in Meter |-> IF m \in q.wanted THEN cache_get(q.kind, m) ELSE Nothing]
           p == [q EXCEPT !.missed = missed, !.age = 0, !.got = got]
<1>1. q.pc = "lookup" /\ CallOK(q, config, held) /\ Looking(q) /\ KeysInv /\ config \in Configs
    BY DEF IngestInv, Lookup, Idle, Looking
<1>2. /\ q \in CallRecord(Size(q)) /\ q.kind \in Kind /\ q.wanted \subseteq Meter /\ Asked(q)
    BY <1>1, ZenonT(60) DEF CallOK, CallShape, CallRecord, Found
<1>3. missed \in SUBSET Meter /\ got \in [Meter -> Reply \cup {Nothing}]
    BY <1>1, <1>2, CachedIsRecent, ZenonT(60) DEF Reply
<1>4. \A m \in q.wanted \ missed : Recent(q.kind, m, got[m], MaxFlight, held)
    BY <1>1, <1>2, CachedIsRecent
<1>5. call'[r] = IF missed = {} THEN Use(p) ELSE [p EXCEPT !.pc = "fetch"]
    BY DEF Lookup, IngestInv
<1>6. missed \subseteq q.wanted
    OBVIOUS
<1>7. KeysInv'
    <2>1. /\ keycache' = [keycache EXCEPT ![q.kind] = [m \in Meter |-> IF m \in missed THEN Nothing ELSE keycache[q.kind][m]]]
          /\ UNCHANGED <<redis, ic, held>>
        BY <1>2 DEF Lookup
    <2> HIDE DEF missed
    <2>2. \A k \in Kind, m \in Meter : keycache'[k][m] = keycache[k][m] \/ keycache'[k][m] = Nothing
        BY <1>1, <1>2, <2>1, ZenonT(60) DEF KeysInv, KeysShape
    <2>3. keycache' \in [Kind -> [Meter -> [key : DeviceKey \cup {"absent"}, left : Nat] \cup {Nothing}]]
        BY <1>1, <1>2, <2>1, ZenonT(60) DEF KeysInv, KeysShape
    <2> QED
        <3>1. KeysShape'
            BY <1>1, <2>1, <2>3, Zenon DEF KeysInv, KeysShape
        <3>2. \A k \in Kind, m \in Meter : Dated(Nothing, k, held[k][m])
            BY DEF Dated
        <3>3. \A k \in Kind, m \in Meter : held[k][m][redis[k][m]] = 0 /\ Dated(keycache'[k][m], k, held[k][m])
            BY <1>1, <2>2, <3>2 DEF KeysInv
        <3> QED
            BY <2>1, <3>1, <3>3 DEF KeysInv
<1> HIDE DEF missed, got
<1>8. p \in CallRecord(Size(q))
    <2>1. 0 \in 0 .. MaxFlight
        BY KeysAssumption
    <2>2. [q EXCEPT !.missed = missed, !.age = 0] \in CallRecord(Size(q))
        BY <1>2, <1>3, <2>1, Zenon DEF CallRecord
    <2>3. \A t \in CallRecord(Size(q)) : [t EXCEPT !.got = got] \in CallRecord(Size(q))
        BY <1>3, ZenonT(60) DEF CallRecord
    <2> QED
        BY <2>2, <2>3, Zenon
<1>9. /\ Same(q, p) /\ p.pc = "lookup" /\ p.i = q.i /\ p.cand = q.cand /\ p.out = q.out /\ p.kind = q.kind
      /\ p.wanted = q.wanted /\ p.missed = missed /\ p.got = got /\ p.age = 0
    BY <1>1, <1>2, <1>3, <1>8 DEF CallRecord, Same
<1> HIDE DEF p
<1>10. CASE missed = {}
    <2>1. /\ CallShape(p) /\ InOrder(p) /\ Truthful(p) /\ Gated(p, config) /\ Sourced(p, config) /\ Asked(p) /\ Looking(p)
        BY <1>1, <1>8, <1>9, LookingOn, ZenonT(60) DEF Looking
    <2>2. \A m \in p.wanted : Recent(p.kind, m, p.got[m], IF Verifying(p) THEN 2 * MaxFlight ELSE MaxFlight, held)
        BY <1>1, <1>2, <1>4, <1>9, <1>10, RecentGrows, KeysAssumption
    <2>3. CallOK(Use(p), config, held)
        BY <1>1, <2>1, <2>2, Using, Zenon
    <2> QED
        BY <1>5, <1>7, <1>10, <2>3
<1>11. CASE missed # {}
    <2> DEFINE s == [p EXCEPT !.pc = "fetch"]
    <2>1. s \in CallRecord(Size(q))
        BY <1>8, ZenonT(60) DEF CallRecord
    <2>2. /\ Same(p, s) /\ s.pc = "fetch" /\ s.i = p.i /\ s.cand = p.cand /\ s.out = p.out /\ s.kind = p.kind
          /\ s.wanted = p.wanted /\ s.missed = p.missed /\ s.got = p.got /\ s.age = p.age
        BY <1>8 DEF CallRecord, Same
    <2> HIDE DEF s
    <2>3. Same(q, s)
        BY <1>9, <2>2 DEF Same
    <2>4. /\ CallShape(s) /\ InOrder(s) /\ Truthful(s) /\ Gated(s, config) /\ Sourced(s, config) /\ Asked(s)
        BY <1>1, <1>9, <2>1, <2>2, <2>3, LookingOn, ZenonT(60) DEF Looking
    <2>5. Found(s, held)
        BY <1>4, <1>6, <1>9, <1>11, <2>2, <2>4, KeysAssumption DEF Found
    <2>6. CallOK(s, config, held)
        BY <2>4, <2>5 DEF CallOK
    <2> QED
        BY <1>5, <1>7, <1>11, <2>6 DEF s
<1> QED
    BY <1>10, <1>11

LEMMA FetchStep ==
    ASSUME IngestInv, NEW r \in Caller, NEW ok \in BOOLEAN, Fetch(r, ok)
    PROVE  CallOK(call'[r], config, held)
<1> DEFINE q == call[r]
           got == [m \in Meter |-> IF m \notin q.missed THEN q.got[m] ELSE IF ok THEN redis[q.kind][m] ELSE "error"]
           p == [q EXCEPT !.got = got]
<1>1. q.pc = "fetch" /\ CallOK(q, config, held) /\ Looking(q) /\ KeysInv /\ config \in Configs
    BY DEF IngestInv, Fetch, Idle, Looking
<1>2. /\ q \in CallRecord(Size(q)) /\ q.kind \in Kind /\ q.wanted \subseteq Meter /\ q.missed \subseteq Meter
      /\ q.got \in [Meter -> Reply \cup {Nothing}] /\ q.age \in 0 .. MaxFlight /\ Asked(q) /\ q.missed # {}
      /\ q.missed \subseteq q.wanted
    BY <1>1, ZenonT(60) DEF CallOK, CallShape, CallRecord, Found
<1>3. \A m \in q.wanted \ q.missed : Recent(q.kind, m, q.got[m], MaxFlight + q.age, held)
    BY <1>1, ZenonT(60) DEF CallOK, Found
<1>4. \A m \in Meter : redis[q.kind][m] \in Held /\ held[q.kind][m][redis[q.kind][m]] = 0
    BY <1>1, <1>2, ZenonT(60) DEF KeysInv, KeysShape
<1>5. got \in [Meter -> Reply \cup {Nothing}]
    BY <1>2, <1>4 DEF Reply
<1>6. call'[r] = IF ok THEN [p EXCEPT !.pc = "put"] ELSE Use([p EXCEPT !.age = 0])
    BY DEF Fetch, IngestInv
<1>7. \A m \in Meter : got[m] = IF m \notin q.missed THEN q.got[m] ELSE IF ok THEN redis[q.kind][m] ELSE "error"
    OBVIOUS
<1> HIDE DEF got
<1>8. p \in CallRecord(Size(q))
    BY <1>2, <1>5, ZenonT(60) DEF CallRecord
<1>9. /\ Same(q, p) /\ p.pc = "fetch" /\ p.i = q.i /\ p.cand = q.cand /\ p.out = q.out /\ p.kind = q.kind
      /\ p.wanted = q.wanted /\ p.missed = q.missed /\ p.got = got /\ p.age = q.age
    BY <1>1, <1>2, <1>5 DEF CallRecord, Same
<1> HIDE DEF p
<1>10. CASE ok
    <2> DEFINE s == [p EXCEPT !.pc = "put"]
    <2>1. s \in CallRecord(Size(q))
        BY <1>8, ZenonT(60) DEF CallRecord
    <2>2. /\ Same(p, s) /\ s.pc = "put" /\ s.i = p.i /\ s.cand = p.cand /\ s.out = p.out /\ s.kind = p.kind
          /\ s.wanted = p.wanted /\ s.missed = p.missed /\ s.got = p.got /\ s.age = p.age
        BY <1>8 DEF CallRecord, Same
    <2> HIDE DEF s
    <2>3. Same(q, s)
        BY <1>9, <2>2 DEF Same
    <2>4. /\ CallShape(s) /\ InOrder(s) /\ Truthful(s) /\ Gated(s, config) /\ Sourced(s, config) /\ Asked(s)
        BY <1>1, <1>9, <2>1, <2>2, <2>3, LookingOn, ZenonT(60) DEF Looking
    <2>5. \A m \in s.wanted \ s.missed : Recent(s.kind, m, s.got[m], MaxFlight + s.age, held)
        BY <1>2, <1>3, <1>7, <1>9, <2>2, ZenonT(60)
    <2>6. \A m \in s.missed : s.got[m] \in Held /\ held[s.kind][m][s.got[m]] <= s.age
        BY <1>2, <1>4, <1>7, <1>9, <1>10, <2>2
    <2>7. Found(s, held)
        BY <1>2, <1>9, <2>2, <2>4, <2>5, <2>6, Zenon DEF Found
    <2>8. CallOK(s, config, held)
        BY <2>4, <2>7 DEF CallOK
    <2> QED
        BY <1>6, <1>10, <2>8 DEF s
<1>11. CASE ~ok
    <2> DEFINE s == [p EXCEPT !.age = 0]
    <2>1. s \in CallRecord(Size(q))
        BY <1>8, KeysAssumption, SMTT(60) DEF CallRecord
    <2>2. /\ Same(p, s) /\ s.pc = p.pc /\ s.i = p.i /\ s.cand = p.cand /\ s.out = p.out /\ s.kind = p.kind
          /\ s.wanted = p.wanted /\ s.got = p.got
        BY <1>8 DEF CallRecord, Same
    <2> HIDE DEF s
    <2>3. Same(q, s)
        BY <1>9, <2>2 DEF Same
    <2>4. /\ CallShape(s) /\ InOrder(s) /\ Truthful(s) /\ Gated(s, config) /\ Sourced(s, config) /\ Asked(s) /\ Looking(s)
          /\ (Verifying(s) <=> Verifying(q)) /\ (~Verifying(q) => \E m \in Meter : q.wanted = {m})
        BY <1>1, <1>9, <2>1, <2>2, <2>3, LookingOn, ZenonT(60) DEF Looking
    <2>5. ~Verifying(q) => q.missed = q.wanted
        BY <1>2, <2>4, ZenonT(60)
    <2>6. \A m \in s.wanted : \/ s.got[m] = "error"
                              \/ Recent(s.kind, m, s.got[m], IF Verifying(s) THEN 2 * MaxFlight ELSE MaxFlight, held)
        <3>1. \A m \in q.missed : got[m] = "error"
            BY <1>2, <1>7, <1>11, Zenon
        <3>2. MaxFlight + q.age \in Nat /\ 2 * MaxFlight \in Nat /\ MaxFlight + q.age <= 2 * MaxFlight
            BY <1>2, KeysAssumption
        <3>3. \A m \in q.wanted \ q.missed : Recent(q.kind, m, got[m], 2 * MaxFlight, held)
            BY <1>1, <1>2, <1>3, <1>7, <3>2, RecentGrows, ZenonT(60)
        <3> QED
            BY <1>9, <2>2, <2>4, <2>5, <3>1, <3>3, ZenonT(60)
    <2>7. CallOK(Use(s), config, held)
        BY <1>1, <2>4, <2>6, Using, Zenon
    <2> QED
        BY <1>6, <1>11, <2>7 DEF s
<1> QED
    BY <1>10, <1>11

LEMMA PutStep ==
    ASSUME IngestInv, NEW r \in Caller, Put(r)
    PROVE  CallOK(call'[r], config, held) /\ KeysInv'
<1> DEFINE q == call[r]
           s == [q EXCEPT !.age = 0]
<1>1. q.pc = "put" /\ CallOK(q, config, held) /\ Looking(q) /\ KeysInv /\ config \in Configs
    BY DEF IngestInv, Put, Idle, Looking
<1>2. /\ q \in CallRecord(Size(q)) /\ q.kind \in Kind /\ q.wanted \subseteq Meter /\ q.missed \subseteq Meter
      /\ q.age \in 0 .. MaxFlight /\ Asked(q) /\ q.missed # {} /\ q.missed \subseteq q.wanted
    BY <1>1, ZenonT(60) DEF CallOK, CallShape, CallRecord, Found
<1>3. /\ \A m \in q.wanted \ q.missed : Recent(q.kind, m, q.got[m], MaxFlight + q.age, held)
      /\ \A m \in q.missed : q.got[m] \in Held /\ held[q.kind][m][q.got[m]] <= q.age
    BY <1>1, ZenonT(60) DEF CallOK, Found
<1>4. \A m \in q.missed : held[q.kind][m][q.got[m]] \in Nat /\ Ttl(q.kind, q.got[m]) \in Nat
    BY <1>1, <1>2, <1>3, AgesAreNat, KeysAssumption, ZenonT(60) DEF Ttl
<1>a. ASSUME NEW m \in q.missed PROVE held[q.kind][m][q.got[m]] <= MaxFlight
    <2> DEFINE h == held[q.kind][m][q.got[m]]
    <2>1. h \in Nat /\ h <= q.age
        BY <1>3, <1>4, Zenon
    <2>2. q.age \in 0 .. MaxFlight /\ MaxFlight \in Nat
        BY <1>2, KeysAssumption
    <2> HIDE DEF h
    <2>3. h <= MaxFlight
        BY <2>1, <2>2
    <2> QED
        BY <2>3 DEF h
<1>5. CallOK(call'[r], config, held)
    <2>1. s \in CallRecord(Size(q))
        BY <1>2, KeysAssumption, SMTT(60) DEF CallRecord
    <2>2. /\ Same(q, s) /\ s.pc = q.pc /\ s.i = q.i /\ s.cand = q.cand /\ s.out = q.out /\ s.kind = q.kind
          /\ s.wanted = q.wanted /\ s.got = q.got
        BY <1>2 DEF CallRecord, Same
    <2>3. call'[r] = Use(s)
        BY DEF Put, IngestInv
    <2> HIDE DEF s
    <2>4. /\ CallShape(s) /\ InOrder(s) /\ Truthful(s) /\ Gated(s, config) /\ Sourced(s, config) /\ Asked(s) /\ Looking(s)
          /\ (Verifying(s) <=> Verifying(q)) /\ (~Verifying(q) => \E m \in Meter : q.wanted = {m})
        BY <1>1, <2>1, <2>2, LookingOn, ZenonT(60) DEF Looking
    <2>5. ~Verifying(q) => q.missed = q.wanted
        BY <1>2, <2>4, ZenonT(60)
    <2>6. \A m \in s.wanted : Recent(s.kind, m, s.got[m], IF Verifying(s) THEN 2 * MaxFlight ELSE MaxFlight, held)
        <3>1. MaxFlight + q.age \in Nat /\ 2 * MaxFlight \in Nat /\ MaxFlight + q.age <= 2 * MaxFlight /\ MaxFlight <= 2 * MaxFlight
            BY <1>2, KeysAssumption
        <3>2. ASSUME NEW m \in q.missed PROVE Recent(q.kind, m, q.got[m], MaxFlight, held)
            <4> DEFINE h == held[q.kind][m][q.got[m]]
                       t == Ttl(q.kind, q.got[m])
            <4>1. h \in Nat /\ t \in Nat /\ h <= MaxFlight /\ q.got[m] \in Held
                BY <1>3, <1>4, <1>a, Zenon
            <4> HIDE DEF h, t
            <4>2. h <= (IF q.kind = "guek" THEN Ancient - 1 ELSE t + MaxFlight)
                BY <4>1, AncientIsNat, KeysAssumption
            <4> QED
                BY <4>1, <4>2, ZenonT(60) DEF Recent, h, t
        <3>3. \A m \in q.missed : Recent(q.kind, m, q.got[m], 2 * MaxFlight, held)
            BY <1>1, <1>2, <3>1, <3>2, RecentGrows, KeysAssumption
        <3>4. \A m \in q.wanted \ q.missed : Recent(q.kind, m, q.got[m], 2 * MaxFlight, held)
            BY <1>1, <1>2, <1>3, <3>1, RecentGrows, ZenonT(60)
        <3> QED
            BY <2>2, <2>4, <2>5, <3>2, <3>3, <3>4, Zenon
    <2>7. CallOK(Use(s), config, held)
        BY <1>1, <2>4, <2>6, Using, ZenonT(60)
    <2> QED
        BY <2>3, <2>7
<1>6. KeysInv'
    <2>1. /\ keycache' = [k \in Kind |-> [m \in Meter |->
               IF k = q.kind /\ m \in q.missed THEN cache_put(k, m, q.got[m])[k][m] ELSE keycache[k][m]]]
          /\ UNCHANGED <<redis, ic, held>>
        BY DEF Put
    <2>2. ASSUME NEW m \in q.missed
          PROVE  LET e == cache_put(q.kind, m, q.got[m])[q.kind][m]
                     v == q.got[m]
                 IN e = keycache[q.kind][m] \/ (v \in DeviceKey \cup {"absent"} /\ (q.kind = "guek" => v # "absent")
                     /\ e = [key |-> v, left |-> IF v = "absent" THEN AbsentTtl ELSE KeyTtl[q.kind]])
        <3>1. q.got[m] \in DeviceKey \cup {"absent", "malformed"} /\ m \in Meter
            BY <1>2, <1>3 DEF Held
        <3> QED
            BY <1>1, <1>2, <3>1, ZenonT(60) DEF cache_put, KeysInv, KeysShape
    <2>3. ASSUME NEW m \in q.missed
          PROVE  LET e == cache_put(q.kind, m, q.got[m])[q.kind][m]
                 IN e \in [key : DeviceKey \cup {"absent"}, left : Nat] \cup {Nothing} /\ Dated(e, q.kind, held[q.kind][m])
        <3> DEFINE e == cache_put(q.kind, m, q.got[m])[q.kind][m]
        <3>1. CASE e = keycache[q.kind][m]
            BY <1>1, <1>2, <3>1 DEF KeysInv, KeysShape
        <3>2. CASE e # keycache[q.kind][m]
            <4>1. /\ q.got[m] \in DeviceKey \cup {"absent"} /\ (q.kind = "guek" => q.got[m] # "absent")
                  /\ e = [key |-> q.got[m], left |-> IF q.got[m] = "absent" THEN AbsentTtl ELSE KeyTtl[q.kind]]
                BY <2>2, <3>2, ZenonT(60)
            <4> HIDE DEF e
            <4>2. e.key = q.got[m] /\ e.left \in Nat /\ e \in [key : DeviceKey \cup {"absent"}, left : Nat]
                BY <1>2, <4>1, KeysAssumption
            <4>3. CASE q.kind = "guek"
                <5>1. held[q.kind][m][e.key] <= Ancient - 1
                    BY <1>4, <1>a, <4>2, AncientIsNat, KeysAssumption
                <5>2. Dated(e, q.kind, held[q.kind][m])
                    BY <4>3, <5>1 DEF Dated
                <5> QED
                    BY <4>2, <5>2, ZenonT(60) DEF e
            <4>4. CASE q.kind # "guek"
                <5>1. e.left = Ttl(q.kind, e.key) /\ held[q.kind][m][e.key] <= MaxFlight
                    BY <1>a, <4>1, <4>2, <4>4, ZenonT(60) DEF Ttl
                <5>2. held[q.kind][m][e.key] \in Nat
                    BY <1>4, <4>2, ZenonT(60)
                <5>3. held[q.kind][m][e.key] + e.left <= Ttl(q.kind, e.key) + MaxFlight
                    BY <4>2, <5>1, <5>2, KeysAssumption, SMTT(60)
                <5>4. Dated(e, q.kind, held[q.kind][m])
                    BY <4>4, <5>3 DEF Dated
                <5> QED
                    BY <4>2, <5>4, ZenonT(60) DEF e
            <4> QED
                BY <4>3, <4>4, Zenon
        <3> QED
            BY <3>1, <3>2, ZenonT(60)
    <2>4. ASSUME NEW k \in Kind, NEW m \in Meter
          PROVE  /\ keycache'[k][m] \in [key : DeviceKey \cup {"absent"}, left : Nat] \cup {Nothing}
                 /\ Dated(keycache'[k][m], k, held[k][m])
        <3>1. CASE k = q.kind /\ m \in q.missed
            <4>1. keycache'[k][m] = cache_put(q.kind, m, q.got[m])[q.kind][m]
                BY <2>1, <3>1, ZenonT(60)
            <4> QED
                BY <2>3, <3>1, <4>1, ZenonT(60)
        <3>2. CASE ~(k = q.kind /\ m \in q.missed)
            <4>1. keycache'[k][m] = keycache[k][m]
                BY <2>1, <3>2
            <4>2. keycache[k][m] \in [key : DeviceKey \cup {"absent"}, left : Nat] \cup {Nothing}
                BY <1>1 DEF KeysInv, KeysShape
            <4>3. Dated(keycache[k][m], k, held[k][m])
                BY <1>1 DEF KeysInv
            <4> QED
                BY <4>1, <4>2, <4>3
        <3> QED
            BY <3>1, <3>2
    <2>5. KeysShape'
        <3>1. KeysShape /\ keycache' \in [Kind -> [Meter -> [key : DeviceKey \cup {"absent"}, left : Nat] \cup {Nothing}]]
            BY <1>1, <2>1, <2>4, Zenon DEF KeysInv
        <3> QED
            BY <2>1, <3>1, ZenonT(60) DEF KeysShape
    <2> QED
        BY <1>1, <2>1, <2>4, <2>5, Zenon DEF KeysInv
<1> QED
    BY <1>5, <1>6

\* Opening a frame in hand changes nothing else of the call.
LEMMA Opening ==
    ASSUME NEW q, Hand(q, config), Fresh(q), NEW s, s = [q EXCEPT !.opened = @ \cup {q.i}]
    PROVE  Hand(s, config) /\ Fresh(s) /\ s.i = q.i /\ s.ep = q.ep /\ s.i \in s.opened
<1>1. q \in CallRecord(Size(q)) /\ q.i \in Size(q) /\ Len(q.items) \in Nat /\ q.opened \cup {q.i} \subseteq Size(q)
    BY DEF Hand, CallShape, CallRecord
<1>2. s \in CallRecord(Size(q))
    BY <1>1, ZenonT(60) DEF CallRecord
<1>3. /\ s.ep = q.ep /\ s.items = q.items /\ s.verdict = q.verdict /\ s.from = q.from /\ s.proof = q.proof
      /\ s.source = q.source /\ s.added = q.added /\ s.events = q.events /\ s.opened = q.opened \cup {q.i}
      /\ s.due = q.due /\ s.erred = q.erred /\ s.i = q.i /\ s.cand = q.cand /\ s.out = q.out
    BY <1>1 DEF CallRecord
<1>4. CallShape(s) /\ Sourced(s, config) /\ Size(s) = Size(q)
    BY <1>1, <1>2, <1>3 DEF Hand, CallShape, Sourced, Size
<1>5. HandOrder(s) /\ HandTruth(s)
    BY <1>3, <1>4, SMTT(60) DEF Hand, HandOrder, HandTruth
<1>6. \A j \in Size(q) : /\ MaySend(q, j, config) => MaySend(s, j, config)
                         /\ Simulates(q, j) => Simulates(s, j)
    BY <1>3 DEF MaySend, Bypass, Simulates
<1>7. HandGate(s, config)
    BY <1>3, <1>4, <1>6, SMTT(60) DEF Hand, HandGate
<1> QED
    BY <1>1, <1>3, <1>4, <1>5, <1>7 DEF Hand, Fresh

\* A key store error in hand.
LEMMA Erring ==
    ASSUME NEW q, Hand(q, config), NEW s, s = [q EXCEPT !.erred = TRUE]
    PROVE  Hand(s, config) /\ s.i = q.i /\ s.added = q.added
<1>1. q \in CallRecord(Size(q)) /\ q.i \in Size(q) /\ Len(q.items) \in Nat
    BY DEF Hand, CallShape, CallRecord
<1>2. s \in CallRecord(Size(q))
    BY <1>1, ZenonT(60) DEF CallRecord
<1>3. /\ s.ep = q.ep /\ s.items = q.items /\ s.verdict = q.verdict /\ s.from = q.from /\ s.proof = q.proof
      /\ s.source = q.source /\ s.added = q.added /\ s.events = q.events /\ s.opened = q.opened
      /\ s.due = q.due /\ s.i = q.i /\ s.cand = q.cand /\ s.out = q.out
    BY <1>1 DEF CallRecord
<1>a. s.erred
    BY <1>1 DEF CallRecord
<1>4. CallShape(s) /\ Sourced(s, config) /\ Size(s) = Size(q)
    BY <1>1, <1>2, <1>3 DEF Hand, CallShape, Sourced, Size
<1>5. HandOrder(s) /\ HandTruth(s)
    <2>1. \A j \in s.due : s.erred \/ (s.verdict[j] = "valid" /\ s.out[j] \notin {"401", "403"})
        BY <1>a
    <2>2. HandTruth(q) /\ HandOrder(q)
        BY DEF Hand
    <2>3. /\ \A j \in Size(q) \ {q.i} : /\ q.out[j] \in Kept => j \notin q.added
                                        /\ q.out[j] = "accepted" => j \in q.added
          /\ q.events \subseteq q.added
        BY <2>2, Zenon DEF HandTruth
    <2>4. /\ \A j \in Size(s) \ {s.i} : /\ s.out[j] \in Kept => j \notin s.added
                                        /\ s.out[j] = "accepted" => j \in s.added
          /\ s.events \subseteq s.added
        BY <1>3, <1>4, <2>3
    <2>5. HandOrder(s)
        BY <1>3, <1>4, <2>2 DEF HandOrder
    <2> QED
        BY <2>1, <2>4, <2>5, Zenon DEF HandTruth
<1>6. \A j \in Size(q) : /\ MaySend(q, j, config) => MaySend(s, j, config)
                         /\ Simulates(q, j) => Simulates(s, j)
    BY <1>3 DEF MaySend, Bypass, Simulates
<1>7. HandGate(s, config)
    BY <1>3, <1>4, <1>6, ZenonT(60) DEF Hand, HandGate
<1> QED
    BY <1>3, <1>4, <1>5, <1>7 DEF Hand

LEMMA BumpStep ==
    ASSUME IngestInv, NEW r \in Caller, NEW o \in {"answered", "lost", "undone"}, Bump(r, o)
    PROVE  CallOK(call'[r], config, held) /\ KeysInv' /\ CountersInv'
<1> DEFINE q == call[r]
           f == Frame(q)
           fresh == fresh_counter(f.meter, f.counter)
<1>1. q.pc = "bump" /\ CallOK(q, config, held) /\ KeysInv /\ config \in Configs
    BY DEF IngestInv, Bump, Idle
<1>2. /\ q \in CallRecord(Size(q)) /\ q.i \in Size(q) /\ q.ep = "rest" /\ ~Over(q) /\ Unjudged(q)
      /\ f \in Frames /\ f.sealed \in DeviceKey /\ q.kind \in Kind
      /\ held[q.kind][f.meter][f.sealed] <= Limit(q.kind)
    BY <1>1, Zenon DEF CallOK, CallShape, CallRecord, InOrder, Over, Verifying, Looking, Unjudged, Found, Frame
<1>3. Hand(q, config) /\ q.i \notin q.added
    BY <1>1, <1>2, HandOfCall, ZenonT(60) DEF CallOK
<1>4. Fresh(q)
    BY <1>1, <1>2, <1>3, ZenonT(60) DEF Fresh, CallOK, InOrder
<1>5. f.meter \in Meter /\ f.counter \in 1 .. MaxCounter
    BY <1>2, FrameFields, Zenon
<1> HIDE DEF f
<1>6. CallOK(call'[r], config, held)
    <2>1. MaySettle(q, "400") /\ MaySettle(q, "409")
        BY <1>3 DEF MaySettle, Answers
    <2>2. CallOK(Settle(q, "400"), config, held) /\ CallOK(Settle(q, "409"), config, held)
        BY <1>1, <1>3, <2>1, Settling
    <2>3. CallOK(Settle([q EXCEPT !.erred = TRUE], "400"), config, held)
        <3> SUFFICES ASSUME NEW s, s = [q EXCEPT !.erred = TRUE] PROVE CallOK(Settle(s, "400"), config, held)
            OBVIOUS
        <3>1. Hand(s, config) /\ s.i \notin s.added
            BY <1>3, Erring
        <3>2. MaySettle(s, "400")
            BY <3>1 DEF MaySettle, Answers
        <3> QED
            BY <1>1, <3>1, <3>2, Settling
    <2>4. CallOK(RestGates([q EXCEPT !.opened = @ \cup {q.i}], TRUE), config, held)
        <3> SUFFICES ASSUME NEW s, s = [q EXCEPT !.opened = @ \cup {q.i}] PROVE CallOK(RestGates(s, TRUE), config, held)
            BY Zenon
        <3>1. Hand(s, config) /\ Fresh(s) /\ s.ep = "rest" /\ s.i \in s.opened
            BY <1>2, <1>3, <1>4, Opening
        <3> QED
            BY <1>1, <3>1, RestGating, Zenon
    <2>5. call'[r] = CASE o # "answered" -> Settle([q EXCEPT !.erred = TRUE], "400")
                       [] o = "answered" /\ ~fresh -> Settle(q, "409")
                       [] o = "answered" /\ fresh ->
                            IF f.body = "garbage" THEN Settle(q, "400")
                            ELSE RestGates([q EXCEPT !.opened = @ \cup {q.i}], TRUE)
        BY Zenon DEF Bump, IngestInv, f
    <2> QED
        BY <2>2, <2>3, <2>4, <2>5, Zenon
<1>7. /\ ic' = IF fresh /\ o # "undone" THEN [ic EXCEPT ![f.meter] = f.counter] ELSE ic
      /\ bumpedBy' = IF fresh /\ o # "undone" THEN [bumpedBy EXCEPT ![f.meter] = [kind |-> q.kind, age |-> KeyAge(q.kind, f.meter, f.sealed)]]
                     ELSE bumpedBy
      /\ opens' = IF fresh /\ o = "answered"
                  THEN [opens EXCEPT ![f.meter][f.counter] = Min({@ + 1, 2})] ELSE opens
      /\ UNCHANGED <<redis, keycache, held>>
    BY DEF Bump, f
<1>8. KeysInv'
    <2>1. ic' \in [Meter -> 0 .. MaxCounter]
        BY <1>1, <1>5, <1>7 DEF KeysInv, KeysShape
    <2>2. KeysShape'
        BY <1>1, <1>7, <2>1 DEF KeysInv, KeysShape
    <2> QED
        BY <1>1, <1>7, <2>2 DEF KeysInv
<1>9. CountersInv'
    <2>1. CountersInv /\ ic \in [Meter -> 0 .. MaxCounter]
        BY <1>1, Zenon DEF IngestInv, KeysInv, KeysShape
    <2>2. /\ bumpedBy' \in [Meter -> [kind : Kind, age : Nat]]
          /\ \A m \in Meter : bumpedBy'[m].age <= Limit(bumpedBy'[m].kind)
        <3> DEFINE age == KeyAge(q.kind, f.meter, f.sealed)
        <3>1. age = held[q.kind][f.meter][f.sealed]
            BY <1>2 DEF KeyAge, f
        <3>2. age \in Nat
            BY <1>1, <1>2, <1>5, AgesAreNat
        <3>3. age <= Limit(q.kind)
            BY <1>2, <3>1, Zenon DEF f
        <3> HIDE DEF age
        <3> DEFINE by == [kind |-> q.kind, age |-> age]
        <3>4. by \in [kind : Kind, age : Nat] /\ by.age <= Limit(by.kind)
            BY <1>2, <3>2, <3>3
        <3>5. bumpedBy' = [bumpedBy EXCEPT ![f.meter] = by] \/ bumpedBy' = bumpedBy
            BY <1>7 DEF age
        <3> HIDE DEF by
        <3>6. bumpedBy \in [Meter -> [kind : Kind, age : Nat]] /\ \A m \in Meter : bumpedBy[m].age <= Limit(bumpedBy[m].kind)
            BY <2>1 DEF CountersInv
        <3> QED
            BY <1>5, <3>4, <3>5, <3>6
    <2>3. fresh => opens[f.meter][f.counter] = 0 /\ ic[f.meter] < f.counter
        BY <1>5, <2>1 DEF CountersInv, fresh_counter
    <2>4. Min({0 + 1, 2}) = 1
        <3>1. \A x \in {0 + 1, 2} : (\A y \in {0 + 1, 2} : x <= y) <=> x = 1
            OBVIOUS
        <3>2. 1 \in {0 + 1, 2}
            OBVIOUS
        <3> QED
            BY <3>1, <3>2, Zenon DEF Min
    <2>5. opens' \in [Meter -> [1 .. MaxCounter -> 0 .. 1]]
        <3>1. CASE fresh /\ o = "answered"
            <4> DEFINE row == [opens[f.meter] EXCEPT ![f.counter] = Min({@ + 1, 2})]
            <4>1. opens' = [opens EXCEPT ![f.meter] = row]
                BY <1>7, <3>1
            <4>2. row = [opens[f.meter] EXCEPT ![f.counter] = 1]
                BY <2>3, <2>4, <3>1
            <4> HIDE DEF row
            <4>3. opens[f.meter] \in [1 .. MaxCounter -> 0 .. 1]
                BY <1>5, <2>1 DEF CountersInv
            <4>4. row \in [1 .. MaxCounter -> 0 .. 1]
                BY <1>5, <4>2, <4>3, SMTT(60)
            <4> QED
                BY <2>1, <4>1, <4>4, Zenon DEF CountersInv
        <3>2. CASE ~(fresh /\ o = "answered")
            BY <1>7, <2>1, <3>2, SMTT(60) DEF CountersInv
        <3> QED
            BY <3>1, <3>2
    <2>6. ASSUME NEW m \in Meter, NEW c \in 1 .. MaxCounter, c > ic'[m] PROVE opens'[m][c] = 0
        <3>1. ic'[m] \in Nat /\ ic[m] \in Nat /\ ic[m] <= ic'[m]
            BY <1>5, <1>7, <2>1, <2>3, KeysAssumption
        <3>2. opens[m][c] = 0
            BY <2>1, <2>6, <3>1, KeysAssumption DEF CountersInv
        <3>3. fresh /\ o = "answered" => ~(m = f.meter /\ c = f.counter)
            BY <1>5, <1>7, <2>1, <2>6
        <3> QED
            BY <1>5, <1>7, <2>1, <3>2, <3>3, SMTT(60) DEF CountersInv
    <2> QED
        BY <2>2, <2>5, <2>6 DEF CountersInv
<1> QED
    BY <1>6, <1>8, <1>9

LEMMA SendStep ==
    ASSUME IngestInv, NEW r \in Caller, NEW j \in Nat, NEW o \in {"answered", "lost", "undone"}, Send(r, j, o)
    PROVE  CallOK(call'[r], config, held)
<1> DEFINE q == call[r]
           ok == o = "answered"
           A == IF o # "undone" THEN q.added \cup {j} ELSE q.added
           E == IF ok /\ q.ep \notin {"batch", "legacy"} /\ (q.verdict[j] \in {"valid", "bypass"} \/ q.ep = "bulk")
                THEN q.events \cup {j} ELSE q.events
           p == [q EXCEPT !.added = A, !.events = E]
           told == [p EXCEPT !.out[j] = Told(q.ep, ok)]
<1>1. q.pc = "send" /\ CallOK(q, config, held) /\ config \in Configs
    BY DEF IngestInv, Send, Idle
<1>2. /\ q \in CallRecord(Size(q)) /\ q.i \in Size(q) /\ Len(q.items) \in Nat /\ q.ep \in Endpoints
      /\ InOrder(q) /\ Truthful(q) /\ Gated(q, config) /\ Sourced(q, config)
    BY <1>1, Zenon DEF CallOK, CallShape, CallRecord
<1>3. /\ q.ep \in {"batch", "bulk"} => j \in Queued(q)
      /\ q.ep \notin {"batch", "bulk"} => j = q.i
    BY DEF Send
<1>4. j \in Size(q) /\ MaySend(q, j, config)
    BY <1>1, <1>2, <1>3, Zenon DEF Queued, Size, Gated
<1>5. call'[r] = IF q.ep \in {"batch", "bulk"}
                 THEN [told EXCEPT !.pc = IF Queued(told) = {} THEN "done" ELSE "send"]
                 ELSE Settle(p, Told(q.ep, ok))
    BY Zenon DEF Send, IngestInv
<1>6. /\ A \in {q.added, q.added \cup {j}} /\ E \in {q.events, q.events \cup {j}}
      /\ j \in E => j \in q.events \/ q.verdict[j] \in {"valid", "bypass"} \/ q.ep = "bulk"
      /\ ok => j \in A
      /\ E \subseteq A
    BY <1>2, Zenon DEF Truthful
<1> HIDE DEF A, E
<1>a. p = [q EXCEPT !.added = A, !.events = E] /\ q \in CallRecord(Size(q))
    BY <1>2
<1> HIDE DEF p
<1>b. A \in SUBSET Size(q) /\ E \in SUBSET Size(q)
    BY <1>2, <1>4, <1>6, Zenon DEF CallRecord
<1>c. p \in CallRecord(Size(q))
    BY <1>a, <1>b, ZenonT(60) DEF CallRecord
<1>7. /\ p \in CallRecord(Size(q)) /\ p.added = A /\ p.events = E
      /\ p.ep = q.ep /\ p.items = q.items /\ p.verdict = q.verdict /\ p.from = q.from /\ p.proof = q.proof
      /\ p.source = q.source /\ p.opened = q.opened /\ p.due = q.due /\ p.erred = q.erred
      /\ p.i = q.i /\ p.out = q.out /\ p.pc = q.pc
    BY <1>a, <1>b, <1>c DEF CallRecord
<1>8. /\ Told(q.ep, ok) \in {"processed", "accepted", "failed", "500"}
      /\ Told(q.ep, ok) = "accepted" => j \in A
    BY <1>2, <1>6 DEF Told, Endpoints
<1>9. CASE q.ep \in {"batch", "bulk"}
    <2> DEFINE a == Told(q.ep, ok)
               pc == IF Queued(told) = {} THEN "done" ELSE "send"
               s == [told EXCEPT !.pc = pc]
    <2>1. a \in Answers
        BY <1>8 DEF Answers
    <2>2. told \in CallRecord(Size(q))
        BY <1>4, <1>7, <2>1, ZenonT(60) DEF CallRecord
    <2>3. Same(p, told) /\ told.i = p.i /\ told.out = [p.out EXCEPT ![j] = a]
        BY <1>7 DEF CallRecord, Same
    <2> HIDE DEF told, a
    <2>4. pc \in {"done", "send"} /\ (pc = "done" => Queued(told) = {})
        OBVIOUS
    <2> HIDE DEF pc
    <2>5. s \in CallRecord(Size(q)) /\ Same(told, s) /\ s.i = told.i /\ s.out = told.out /\ s.pc = pc
        BY <2>2, <2>4, MovedRecord
    <2> HIDE DEF s
    <2>6. /\ s.ep = q.ep /\ s.items = q.items /\ s.verdict = q.verdict /\ s.from = q.from /\ s.proof = q.proof
          /\ s.source = q.source /\ s.opened = q.opened /\ s.due = q.due /\ s.erred = q.erred
          /\ s.i = q.i /\ s.added = A /\ s.events = E
        BY <1>7, <2>3, <2>5, Zenon DEF Same
    <2>7. s.out[j] = a /\ \A k \in Size(q) \ {j} : s.out[k] = q.out[k]
        <3>1. q.out \in [Size(q) -> Answers]
            BY <1>2, ZenonT(60) DEF CallRecord
        <3>2. s.out = [q.out EXCEPT ![j] = a]
            BY <1>7, <2>3, <2>5, ZenonT(60)
        <3> QED
            BY <1>4, <3>1, <3>2
    <2>8. Size(s) = Size(q) /\ Over(s) /\ Over(q) /\ ~Looking(s) /\ ~Unjudged(s)
        BY <1>1, <1>9, <2>4, <2>5, <2>6, ZenonT(60) DEF Size, Over, Looking, Unjudged
    <2>9. CallShape(s)
        BY <1>2, <2>5, <2>6, <2>8, ZenonT(60) DEF CallShape
    <2>10. InOrder(s)
        <3>1. q.i = Len(q.items) /\ \A k \in Size(q) : q.out[k] # "pending"
            BY <1>2, <2>8 DEF InOrder, Size
        <3>2. \A k \in Size(q) : s.out[k] # "pending"
            BY <1>8, <2>7, <3>1, Zenon DEF a
        <3>3. \A k \in Size(q) : ~(k > s.i)
            BY <1>2, <2>6, <3>1 DEF Size
        <3>4. \A k \in Size(q) : s.out[k] = "queued" => s.pc # "done"
            <4>1. told.items = q.items /\ s.out = told.out /\ s.pc = pc
                BY <1>7, <2>3, <2>5, Zenon DEF Same
            <4> QED
                BY <2>4, <4>1 DEF Queued, Size
        <3> QED
            BY <1>2, <1>9, <2>4, <2>5, <2>6, <2>8, <3>1, <3>2, <3>3, <3>4, ZenonT(60) DEF InOrder
    <2>11. Truthful(s)
        <3>1. \A k \in Size(q) : /\ s.out[k] \in Kept => k \notin s.added
                                 /\ s.out[k] = "accepted" => k \in s.added
            BY <1>2, <1>6, <1>8, <2>6, <2>7, ZenonT(60) DEF Truthful, Kept, a
        <3>2. \A k \in q.due : s.out[k] \in {"401", "403"} => q.out[k] \in {"401", "403"}
            BY <1>2, <1>8, <2>7, Zenon DEF a, CallRecord
        <3>3. \A k \in q.due : q.erred \/ (q.verdict[k] = "valid" /\ q.out[k] \notin {"401", "403"})
            BY <1>2, Zenon DEF Truthful
        <3>4. \A k \in s.due : s.erred \/ (s.verdict[k] = "valid" /\ s.out[k] \notin {"401", "403"})
            BY <2>6, <3>2, <3>3, ZenonT(60)
        <3> QED
            BY <1>6, <2>6, <2>8, <3>1, <3>4, Zenon DEF Truthful
    <2>12. Gated(s, config)
        <3>1. \A k \in Size(q) : /\ MaySend(q, k, config) => MaySend(s, k, config)
                                 /\ Simulates(q, k) => Simulates(s, k)
            BY <2>6 DEF MaySend, Bypass, Simulates
        <3>2. \A k \in Size(q) : k \in A => k \in q.added \/ k = j
            BY <1>6
        <3>3. \A k \in Size(q) : k \in E => k \in q.events \/ k = j
            BY <1>6
        <3>4. \A k \in Size(q) : s.out[k] = "queued" => q.out[k] = "queued"
            BY <1>8, <2>7 DEF a
        <3>5. \A k \in Size(q) : k \in s.added => MaySend(s, k, config)
            BY <1>2, <1>4, <2>6, <3>1, <3>2, ZenonT(60) DEF Gated
        <3>6. \A k \in Size(q) : k \in s.events => s.verdict[k] \in {"valid", "bypass"} \/ s.ep = "bulk"
            BY <1>2, <1>6, <2>6, <3>3, ZenonT(60) DEF Gated
        <3>7. \A k \in Size(q) : s.out[k] = "queued" => MaySend(s, k, config)
            BY <1>1, <1>2, <3>1, <3>4, ZenonT(60) DEF Gated
        <3>8. \A k \in Size(q) : /\ s.verdict[k] = "valid" => s.proof[k] <= Latency(s.ep)
                                 /\ s.verdict[k] = "bypass" => Simulates(s, k)
            BY <1>2, <2>6, <3>1, ZenonT(60) DEF Gated
        <3> QED
            BY <1>9, <2>6, <2>8, <3>5, <3>6, <3>7, <3>8, ZenonT(60) DEF Gated
    <2>13. Sourced(s, config)
        BY <1>2, <2>6, <2>8, ZenonT(60) DEF Sourced
    <2>14. Found(s, held)
        BY <2>4, <2>5, <2>8, Zenon DEF Found
    <2>15. CallOK(s, config, held)
        BY <2>9, <2>10, <2>11, <2>12, <2>13, <2>14, SMTT(60) DEF CallOK
    <2> QED
        BY <1>5, <1>9, <2>15 DEF s, pc
<1>10. CASE q.ep \notin {"batch", "bulk"}
    <2>1. ~Over(q) /\ j = q.i
        BY <1>1, <1>3, <1>10 DEF Over, Verifying, Looking
    <2>2. Hand(q, config)
        BY <1>1, <2>1, HandOfCall, ZenonT(60) DEF CallOK
    <2>3. CallShape(p) /\ Sourced(p, config) /\ Size(p) = Size(q)
        BY <1>2, <1>7, ZenonT(60) DEF CallShape, Sourced, Size
    <2>4. HandOrder(p)
        BY <1>7, <2>2, <2>3 DEF Hand, HandOrder
    <2>5. HandTruth(p)
        <3>1. \A k \in Size(q) \ {q.i} : k \in A <=> k \in q.added
            BY <1>6, <2>1
        <3>2. HandTruth(q)
            BY <2>2 DEF Hand
        <3> QED
            BY <1>6, <1>7, <2>3, <3>1, <3>2, ZenonT(60) DEF HandTruth
    <2>6. HandGate(p, config)
        <3>1. \A k \in Size(q) : /\ MaySend(q, k, config) => MaySend(p, k, config)
                                 /\ Simulates(q, k) => Simulates(p, k)
            BY <1>7, Zenon DEF MaySend, Bypass, Simulates
        <3>2. HandGate(q, config)
            BY <2>2 DEF Hand
        <3>3. \A k \in Size(q) : k \in A => k \in q.added \/ k = j
            BY <1>6
        <3>4. \A k \in Size(q) : k \in E => k \in q.events \/ k = j
            BY <1>6
        <3> QED
            BY <1>4, <1>6, <1>7, <2>3, <3>1, <3>2, <3>3, <3>4, ZenonT(60) DEF HandGate
    <2>7. Hand(p, config)
        BY <2>3, <2>4, <2>5, <2>6 DEF Hand
    <2>8. MaySettle(p, Told(q.ep, ok))
        BY <1>7, <1>8, <2>1, ZenonT(60) DEF MaySettle, Answers, Kept
    <2>9. CallOK(Settle(p, Told(q.ep, ok)), config, held)
        BY <1>1, <2>7, <2>8, Settling, ZenonT(60)
    <2> QED
        BY <1>5, <1>10, <2>9
<1> QED
    BY <1>9, <1>10

\* A call that starts has its first frame in hand.
LEMMA Starting ==
    ASSUME NEW c \in Calls
    PROVE  Hand(Started(c), config) /\ Fresh(Started(c))
<1> SUFFICES ASSUME NEW q, q = Started(c) PROVE Hand(q, config) /\ Fresh(q)
    OBVIOUS
<1> DEFINE D == 1 .. Len(c.items)
<1>1. c.ep \in Endpoints /\ c.items \in [D -> Frames] /\ Len(c.items) \in Nat /\ 1 \in D
    BY DEF Calls
<1>2. q = [pc |-> "item", ep |-> c.ep, items |-> c.items, i |-> 1, cand |-> 1, kind |-> "pub",
           wanted |-> {}, missed |-> {}, got |-> NoKeys, age |-> 0,
           verdict |-> [j \in D |-> "none"], from |-> [j \in D |-> "fields"], out |-> [j \in D |-> "pending"],
           proof |-> [j \in D |-> Ancient], source |-> [j \in D |-> 0],
           added |-> {}, events |-> {}, opened |-> {}, due |-> {}, erred |-> FALSE]
    BY Zenon DEF Started
<1>3. NoKeys \in [Meter -> Reply \cup {Nothing}] /\ 0 \in 0 .. MaxFlight /\ Ancient \in Nat /\ "pub" \in Kind
    BY KeysAssumption, AncientIsNat DEF NoKeys, Kind
<1>4. /\ [j \in D |-> "none"] \in [D -> {"none", "valid", "invalid", "error", "bypass"}]
      /\ [j \in D |-> "fields"] \in [D -> {"fields", "frame"}] /\ [j \in D |-> "pending"] \in [D -> Answers]
      /\ [j \in D |-> Ancient] \in [D -> Nat] /\ [j \in D |-> 0] \in [D -> Nat]
    BY <1>3, SMTT(60) DEF Answers
<1>5. q \in CallRecord(D)
    BY <1>1, <1>2, <1>3, <1>4, SMTT(60) DEF CallRecord
<1>6. /\ q.items = c.items /\ q.ep = c.ep /\ q.i = 1 /\ q.cand = 1 /\ q.added = {} /\ q.events = {} /\ q.due = {}
      /\ q.out = [j \in D |-> "pending"] /\ q.verdict = [j \in D |-> "none"] /\ q.from = [j \in D |-> "fields"]
    BY <1>2
<1>7. Size(q) = D
    BY <1>6 DEF Size
<1> HIDE DEF D
<1>8. CallShape(q) /\ Sourced(q, config)
    BY <1>1, <1>5, <1>6, <1>7, ZenonT(60) DEF CallShape, Sourced
<1>9. HandOrder(q) /\ HandTruth(q) /\ HandGate(q, config)
    BY <1>1, <1>6, <1>7 DEF HandOrder, HandTruth, HandGate, D
<1> QED
    BY <1>1, <1>6, <1>8, <1>9 DEF Hand, Fresh

LEMMA ItemStep ==
    ASSUME IngestInv, NEW r \in Caller, NextItem(r)
    PROVE  CallOK(call'[r], config, held)
<1> DEFINE q == call[r]
<1>1. q.pc = "item" /\ CallOK(q, config, held) /\ config \in Configs /\ call'[r] = Enter(q)
    BY SMTT(60) DEF IngestInv, NextItem, Idle
<1>2. ~Over(q) /\ Unjudged(q)
    BY <1>1 DEF Over, Verifying, Looking, Unjudged
<1>3. Hand(q, config) /\ q.i \notin q.added
    BY <1>1, <1>2, HandOfCall, ZenonT(60) DEF CallOK
<1>4. Fresh(q)
    BY <1>1, <1>2, <1>3, Zenon DEF Fresh, CallOK, InOrder
<1> QED
    BY <1>1, <1>3, <1>4, Entering, Zenon

\* A step of one call leaves the others as they are.
LEMMA OneCall ==
    ASSUME IngestInv, NEW r \in Caller, NEW s, s = Idle \/ CallOK(s, config, held),
           call' = [call EXCEPT ![r] = s], UNCHANGED <<config, held>>, KeysInv', CountersInv'
    PROVE  IngestInv'
<1>1. DOMAIN call' = Caller /\ \A q \in Caller : call'[q] = IF q = r THEN s ELSE call[q]
    BY DEF IngestInv
<1>2. \A q \in Caller : call'[q] = Idle \/ CallOK(call'[q], config, held)
    BY <1>1 DEF IngestInv
<1> QED
    BY <1>1, <1>2 DEF IngestInv

-----------------------------------------------------------------------------
(* Keys change, and time passes. *)

\* A value provisioned again is younger, and what rested on its age still holds.
LEMMA RekeyStep ==
    ASSUME IngestInv, NEW k \in Kind, NEW m \in Meter, NEW v \in Held, Rekey(k, m, v)
    PROVE  IngestInv'
<1>1. /\ redis' = [redis EXCEPT ![k][m] = v] /\ held' = [held EXCEPT ![k][m][v] = 0]
      /\ UNCHANGED <<keycache, ic, config, call, opens, bumpedBy>>
    BY DEF Rekey, Provision, gatevars
<1>2. KeysInv /\ CountersInv /\ KeysShape
    BY DEF IngestInv, KeysInv
<1>3. \A a \in Kind, b \in Meter, w \in Held :
        held'[a][b][w] = IF a = k /\ b = m /\ w = v THEN 0 ELSE held[a][b][w]
    BY <1>1, <1>2 DEF KeysShape
<1>4. \A a \in Kind, b \in Meter, w \in Held :
        held[a][b][w] \in Nat /\ held'[a][b][w] \in 0 .. Ancient /\ held'[a][b][w] <= held[a][b][w]
    <2> SUFFICES ASSUME NEW a \in Kind, NEW b \in Meter, NEW w \in Held
                 PROVE  /\ held[a][b][w] \in Nat /\ held'[a][b][w] \in 0 .. Ancient
                        /\ held'[a][b][w] <= held[a][b][w]
        BY ZenonT(60)
    <2>1. held[a][b][w] \in 0 .. Ancient
        <3>1. held \in [Kind -> [Meter -> [Held -> 0 .. Ancient]]]
            BY <1>2, ZenonT(60) DEF KeysShape
        <3> QED
            BY <3>1
    <2>2. held'[a][b][w] = 0 \/ held'[a][b][w] = held[a][b][w]
        BY <1>3, ZenonT(60)
    <2> QED
        BY <2>1, <2>2, AncientIsNat
<1>a. ASSUME NEW a \in Kind, NEW b \in Meter, NEW w \in Held
      PROVE  held[a][b][w] \in Nat /\ held'[a][b][w] \in Nat /\ held'[a][b][w] <= held[a][b][w]
    BY <1>4, AncientIsNat
<1>5. \A a \in Kind, b \in Meter : redis'[a][b] = IF a = k /\ b = m THEN v ELSE redis[a][b]
    BY <1>1, <1>2, ZenonT(60) DEF KeysShape
<1>6. KeysInv'
    <2>1. redis' \in [Kind -> [Meter -> Held]]
        BY <1>1, <1>2 DEF KeysShape
    <2>2. held' \in [Kind -> [Meter -> [Held -> 0 .. Ancient]]]
        <3>1. held \in [Kind -> [Meter -> [Held -> 0 .. Ancient]]] /\ 0 \in 0 .. Ancient
            BY <1>2, AncientIsNat, SMTT(60) DEF KeysShape
        <3> QED
            BY <1>1, <3>1
    <2>3. KeysShape'
        BY <1>1, <1>2, <2>1, <2>2, SMTT(60) DEF KeysShape
    <2>4. ASSUME NEW a \in Kind, NEW b \in Meter PROVE held'[a][b][redis'[a][b]] = 0
        <3>1. redis[a][b] \in Held /\ held[a][b][redis[a][b]] = 0
            BY <1>2 DEF KeysInv, KeysShape
        <3>2. CASE a = k /\ b = m
            BY <1>3, <1>5, <3>2, SMTT(60)
        <3>3. CASE ~(a = k /\ b = m)
            BY <1>3, <1>5, <3>1, <3>3, SMTT(60)
        <3> QED
            BY <3>2, <3>3
    <2>5. ASSUME NEW a \in Kind, NEW b \in Meter PROVE Dated(keycache[a][b], a, held'[a][b])
        <3> DEFINE e == keycache[a][b]
        <3>1. e # Nothing => e.key \in Held /\ e.left \in Nat
            BY <1>2 DEF KeysShape, Held
        <3>2. Dated(e, a, held[a][b])
            BY <1>2, ZenonT(60) DEF KeysInv
        <3> HIDE DEF e
        <3>3. CASE e # Nothing
            <4> DEFINE h == held[a][b][e.key]
                       i == held'[a][b][e.key]
            <4>1. h \in Nat /\ i \in Nat /\ i <= h
                BY <1>4, <3>1, <3>3, AncientIsNat
            <4>2. Ttl(a, e.key) \in Nat
                BY KeysAssumption DEF Ttl
            <4>3. a = "guek" => h <= Ancient - 1
                BY <3>2, <3>3 DEF Dated
            <4>4. a # "guek" /\ e.left > 0 => h + e.left <= Ttl(a, e.key) + MaxFlight
                BY <3>2, <3>3 DEF Dated
            <4> HIDE DEF h, i
            <4>5. a = "guek" => i <= Ancient - 1
                BY <4>1, <4>3, AncientIsNat
            <4>6. a # "guek" /\ e.left > 0 => i + e.left <= Ttl(a, e.key) + MaxFlight
                BY <3>1, <3>3, <4>1, <4>2, <4>4, KeysAssumption, SMTT(60)
            <4> QED
                BY <4>5, <4>6, SMTT(60) DEF Dated, e, i
        <3> QED
            BY <3>3 DEF Dated, e
    <2> QED
        BY <1>1, <2>3, <2>4, <2>5, SMTT(60) DEF KeysInv
<1>7. ASSUME NEW r \in Caller, CallOK(call[r], config, held) PROVE CallOK(call[r], config, held')
    <2> DEFINE q == call[r]
    <2>1. Found(q, held) /\ CallShape(q) /\ q.kind \in Kind /\ q.wanted \subseteq Meter
        BY <1>7, Zenon DEF CallOK, CallShape, CallRecord
    <2>a. q.kind \in Kind
        BY <2>1
    <2>2. ASSUME NEW w \in Meter, NEW x, NEW slack \in Nat, Recent(q.kind, w, x, slack, held)
          PROVE  Recent(q.kind, w, x, slack, held')
        <3>1. x \in Held
            BY <2>2, ZenonT(60) DEF Recent
        <3> DEFINE h == held[q.kind][w][x]
                   i == held'[q.kind][w][x]
                   t == IF q.kind = "guek" THEN Ancient - 1 ELSE Ttl(q.kind, x) + slack
        <3>2. h \in Nat /\ i \in Nat /\ i <= h /\ h <= t
            BY <1>4, <2>1, <2>2, <3>1, AncientIsNat DEF Recent
        <3>4. t \in Nat
            BY <2>1, AncientIsNat, KeysAssumption DEF Ttl
        <3> HIDE DEF h, i, t
        <3>3. i <= t
            BY <3>2, <3>4
        <3> QED
            BY <3>1, <3>3 DEF Recent, i, t
    <2>3. q.age \in Nat /\ MaxFlight + q.age \in Nat /\ Frame(q) \in Frames
        <3>1. q.age \in 0 .. MaxFlight /\ Frame(q) \in Frames
            BY <2>1, Zenon DEF CallShape, CallRecord, Frame
        <3> QED
            BY <3>1, KeysAssumption
    <2>4. ASSUME q.pc = "put", NEW w \in q.missed
          PROVE  q.got[w] \in Held /\ held'[q.kind][w][q.got[w]] <= q.age
        <3> DEFINE h == held[q.kind][w][q.got[w]]
                   i == held'[q.kind][w][q.got[w]]
                   t == q.age
        <3>1. w \in Meter /\ q.got[w] \in Held /\ h <= t /\ t \in Nat
            BY <2>1, <2>3, <2>4, ZenonT(60) DEF Found
        <3>2. h \in Nat /\ i \in Nat /\ i <= h
            BY <1>a, <2>a, <3>1, ZenonT(60)
        <3> HIDE DEF h, i, t
        <3>3. i <= t
            BY <3>1, <3>2
        <3> QED
            BY <3>1, <3>3, ZenonT(60) DEF i, t
    <2>5. ASSUME q.pc = "bump"
          PROVE  held'[q.kind][Frame(q).meter][Frame(q).sealed] <= Limit(q.kind)
        <3> DEFINE h == held[q.kind][Frame(q).meter][Frame(q).sealed]
                   i == held'[q.kind][Frame(q).meter][Frame(q).sealed]
                   t == Limit(q.kind)
        <3>1. Frame(q).meter \in Meter /\ Frame(q).sealed \in Held /\ h <= t /\ t \in Nat
            <4>1. Frame(q).meter \in Meter /\ Frame(q).sealed \in DeviceKey /\ h <= t
                BY <2>1, <2>3, <2>5, FrameFields, Zenon DEF Found
            <4>2. t \in Nat
                BY AncientIsNat, KeysAssumption DEF Kind, Limit
            <4> QED
                BY <4>1, <4>2, Zenon DEF Held
        <3>2. h \in Nat /\ i \in Nat /\ i <= h
            BY <1>a, <2>a, <3>1, Zenon
        <3> HIDE DEF h, i, t
        <3>3. i <= t
            BY <3>1, <3>2
        <3> QED
            BY <3>3, ZenonT(60) DEF i, t
    <2>6. ASSUME q.pc \in {"fetch", "put"}, NEW w \in q.wanted \ q.missed
          PROVE  Recent(q.kind, w, q.got[w], MaxFlight + q.age, held')
        <3>1. w \in Meter /\ Recent(q.kind, w, q.got[w], MaxFlight + q.age, held)
            BY <2>1, <2>6, ZenonT(60) DEF Found
        <3> QED
            BY <2>2, <2>3, <3>1, ZenonT(60)
    <2>7. Found(q, held')
        BY <2>1, <2>4, <2>5, <2>6, Zenon DEF Found
    <2> QED
        BY <1>7, <2>7 DEF CallOK
<1> QED
    BY <1>1, <1>2, <1>6, <1>7, ZenonT(60) DEF IngestInv, CountersInv

LEMMA MinOfTwo ==
    ASSUME NEW a \in Nat, NEW b \in Nat
    PROVE  Min({a, b}) \in {a, b} /\ Min({a, b}) <= a /\ Min({a, b}) <= b
<1>1. PICK x \in {a, b} : x = IF a <= b THEN a ELSE b
    OBVIOUS
<1>2. x <= a /\ x <= b /\ \A y \in {a, b} : x <= y
    BY <1>1
<1>3. \A y \in {a, b} : (\A z \in {a, b} : y <= z) => y = x
    BY <1>1, <1>2
<1>4. Min({a, b}) = x
    BY <1>1, <1>2, <1>3, Zenon DEF Min
<1> QED
    BY <1>1, <1>2, <1>4

\* A unit of time makes a value at most one unit older, and one that was ever
\* held is not taken for one that was not.
LEMMA AgesPass ==
    ASSUME KeysInv, KeysPass, NEW a \in Kind, NEW b \in Meter, NEW w \in Held
    PROVE  /\ held[a][b][w] \in Nat /\ held'[a][b][w] \in Nat /\ held'[a][b][w] \in 0 .. Ancient
           /\ held'[a][b][w] <= held[a][b][w] + 1
           /\ held[a][b][w] <= Ancient - 1 => held'[a][b][w] <= Ancient - 1
           /\ w = redis[a][b] => held'[a][b][w] = held[a][b][w]
<1> DEFINE h == held[a][b][w]
           n == Min({h + 1, Ancient - 1})
<1>1. h \in 0 .. Ancient /\ Ancient \in Nat /\ Ancient - 1 \in Nat
    BY AncientIsNat DEF KeysInv, KeysShape
<1>2. held'[a][b][w] = IF w = redis[a][b] \/ h = Ancient THEN h ELSE n
    BY DEF KeysPass
<1> HIDE DEF h
<1>3. n \in {h + 1, Ancient - 1} /\ n <= h + 1 /\ n <= Ancient - 1
    BY <1>1, MinOfTwo
<1> HIDE DEF n
<1>4. n \in 0 .. Ancient
    BY <1>1, <1>3
<1> QED
    BY <1>1, <1>2, <1>3, <1>4 DEF h

LEMMA KeysPassing ==
    ASSUME KeysInv, KeysPass
    PROVE  KeysInv'
<1>1. /\ keycache' = [k \in Kind |-> [m \in Meter |->
           IF k # "guek" /\ cache_get(k, m) # Nothing
           THEN [keycache[k][m] EXCEPT !.left = @ - 1] ELSE keycache[k][m]]]
      /\ UNCHANGED <<redis, ic>>
    BY DEF KeysPass
<1>2. KeysShape
    BY DEF KeysInv
<1>3. held' \in [Kind -> [Meter -> [Held -> 0 .. Ancient]]]
    <2>1. \A a \in Kind, b \in Meter, w \in Held : held'[a][b][w] \in 0 .. Ancient
        BY AgesPass
    <2>2. held' = [k \in Kind |-> [m \in Meter |-> [v \in Held |-> held'[k][m][v]]]]
        BY DEF KeysPass
    <2> QED
        BY <2>1, <2>2
<1>4. ASSUME NEW k \in Kind, NEW m \in Meter
      PROVE  /\ keycache'[k][m] \in [key : DeviceKey \cup {"absent"}, left : Nat] \cup {Nothing}
             /\ Dated(keycache'[k][m], k, held'[k][m])
    <2> DEFINE e == keycache[k][m]
               d == keycache'[k][m]
    <2>1. e \in [key : DeviceKey \cup {"absent"}, left : Nat] \cup {Nothing}
        BY <1>2 DEF KeysShape
    <2>2. Dated(e, k, held[k][m])
        BY DEF KeysInv
    <2>3. CASE k # "guek" /\ cache_get(k, m) # Nothing
        <3>1. d = [e EXCEPT !.left = @ - 1] /\ e # Nothing /\ e.left > 0
            BY <1>1, <2>3 DEF cache_get
        <3>2. e.key \in Held /\ e.left \in Nat /\ e \in [key : DeviceKey \cup {"absent"}, left : Nat]
            BY <2>1, <3>1 DEF Held
        <3>3. d.key = e.key /\ d.left = e.left - 1 /\ d \in [key : DeviceKey \cup {"absent"}, left : Nat]
            BY <3>1, <3>2
        <3> DEFINE h == held[k][m][e.key]
                   i == held'[k][m][e.key]
        <3>4. h \in Nat /\ i \in Nat /\ i <= h + 1
            BY <3>2, AgesPass, Zenon
        <3>5. h + e.left <= Ttl(k, e.key) + MaxFlight
            BY <2>2, <2>3, <3>1 DEF Dated
        <3>6. Ttl(k, e.key) \in Nat
            BY KeysAssumption DEF Ttl
        <3> HIDE DEF e, d, h, i
        <3>7. i + d.left <= Ttl(k, d.key) + MaxFlight
            BY <3>2, <3>3, <3>4, <3>5, <3>6, KeysAssumption, SMTT(60)
        <3>8. Dated(d, k, held'[k][m])
            BY <2>3, <3>3, <3>7, SMTT(60) DEF Dated, i
        <3> QED
            BY <3>3, <3>8 DEF d
    <2>4. CASE ~(k # "guek" /\ cache_get(k, m) # Nothing)
        <3>1. d = e
            BY <1>1, <2>4
        <3>2. CASE e = Nothing
            BY <3>1, <3>2 DEF Dated
        <3>3. CASE e # Nothing
            <4>1. e.key \in Held /\ e.left \in Nat /\ e.key # Nothing
                BY <2>1, <3>3, KeysAssumption DEF Held, Reply
            <4>2. k # "guek" => ~(e.left > 0)
                BY <2>4, <3>3, <4>1, SMTT(60) DEF cache_get
            <4>3. k = "guek" => held'[k][m][e.key] <= Ancient - 1
                <5>1. k = "guek" => held[k][m][e.key] <= Ancient - 1
                    BY <2>2, <3>3 DEF Dated
                <5> QED
                    BY <4>1, <5>1, AgesPass, ZenonT(60)
            <4>4. Dated(e, k, held'[k][m])
                BY <4>2, <4>3, SMTT(60) DEF Dated
            <4> QED
                BY <2>1, <3>1, <4>4
        <3> QED
            BY <3>2, <3>3
    <2> QED
        BY <2>3, <2>4
<1>5. ASSUME NEW k \in Kind, NEW m \in Meter PROVE held'[k][m][redis[k][m]] = 0
    <2>1. redis[k][m] \in Held /\ held[k][m][redis[k][m]] = 0
        BY <1>2 DEF KeysInv, KeysShape
    <2> QED
        BY <2>1, AgesPass
<1>6. KeysShape'
    <2>1. keycache' \in [Kind -> [Meter -> [key : DeviceKey \cup {"absent"}, left : Nat] \cup {Nothing}]]
        <3>1. keycache' = [k \in Kind |-> [m \in Meter |-> keycache'[k][m]]]
            BY <1>1
        <3> QED
            BY <1>4, <3>1
    <2> QED
        BY <1>1, <1>2, <1>3, <2>1 DEF KeysShape
<1> QED
    BY <1>1, <1>4, <1>5, <1>6 DEF KeysInv

LEMMA PassStep ==
    ASSUME IngestInv, IngestPass
    PROVE  IngestInv'
<1>1. /\ KeysPass /\ UNCHANGED <<config, opens, bumpedBy, ic>> /\ DOMAIN call' = Caller
      /\ \A r \in Caller : call'[r] = IF call[r].pc \in {"fetch", "put"} THEN [call[r] EXCEPT !.age = @ + 1] ELSE call[r]
    BY DEF IngestPass, KeysPass
<1>2. KeysInv /\ config \in Configs /\ CountersInv
    BY DEF IngestInv
<1>3. KeysInv'
    BY <1>1, <1>2, KeysPassing
<1>4. CountersInv'
    BY <1>1, <1>2 DEF CountersInv
<1>5. ASSUME NEW r \in Caller, CallOK(call[r], config, held) PROVE CallOK(call'[r], config, held')
    <2> DEFINE q == call[r]
    <2>1. /\ q \in CallRecord(Size(q)) /\ q.pc # "idle" /\ q.kind \in Kind /\ q.wanted \subseteq Meter /\ q.age \in 0 .. MaxFlight
          /\ CallShape(q) /\ InOrder(q) /\ Truthful(q) /\ Gated(q, config) /\ Sourced(q, config) /\ Found(q, held)
        BY <1>5, Zenon DEF CallOK, CallShape, CallRecord
    <2>a. q.kind \in Kind /\ KeysInv /\ KeysPass
        BY <1>1, <1>2, <2>1
    <2>2. q.pc = "lookup" \/ (q.pc \in {"fetch", "put"} /\ q.age < MaxFlight)
        BY <2>1 DEF IngestPass
    <2>3. CASE q.pc = "lookup"
        <3>1. call'[r] = q
            BY <1>1, <2>3
        <3>2. Found(q, held')
            BY <2>1, <2>3, Zenon DEF Found
        <3> QED
            BY <2>1, <3>1, <3>2, Zenon DEF CallOK
    <2>4. CASE q.pc \in {"fetch", "put"} /\ q.age < MaxFlight
        <3> DEFINE s == [q EXCEPT !.age = @ + 1]
        <3>1. call'[r] = s
            BY <1>1, <2>4
        <3>2. q.age + 1 \in 0 .. MaxFlight /\ q.age \in Nat
            BY <2>1, <2>4, KeysAssumption
        <3>3. s \in CallRecord(Size(q))
            BY <2>1, <3>2, ZenonT(60) DEF CallRecord
        <3>4. /\ Same(q, s) /\ s.pc = q.pc /\ s.i = q.i /\ s.cand = q.cand /\ s.out = q.out /\ s.kind = q.kind
              /\ s.wanted = q.wanted /\ s.missed = q.missed /\ s.got = q.got /\ s.age = q.age + 1
            BY <2>1 DEF CallRecord, Same
        <3> HIDE DEF s
        <3>5. Looking(q) /\ Looking(s)
            BY <2>4, <3>4 DEF Looking
        <3>6. CallShape(s) /\ InOrder(s) /\ Truthful(s) /\ Gated(s, config) /\ Sourced(s, config) /\ Asked(s)
            BY <1>5, <3>3, <3>4, <3>5, LookingOn, ZenonT(60)
        <3>7. ASSUME NEW w \in q.wanted \ q.missed
              PROVE  Recent(q.kind, w, q.got[w], MaxFlight + s.age, held')
            <4>1. w \in Meter /\ q.got[w] \in Held /\ Recent(q.kind, w, q.got[w], MaxFlight + q.age, held)
                BY <2>1, <2>4, <3>7, ZenonT(60) DEF Found, Recent
            <4> DEFINE h == held[q.kind][w][q.got[w]]
                       i == held'[q.kind][w][q.got[w]]
                       t == Ttl(q.kind, q.got[w])
            <4>2. h \in Nat /\ i \in Nat /\ i <= h + 1 /\ (h <= Ancient - 1 => i <= Ancient - 1)
                BY <2>a, <4>1, AgesPass, Zenon
            <4>3. t \in Nat
                BY <2>1, KeysAssumption DEF Ttl
            <4>4. h <= (IF q.kind = "guek" THEN Ancient - 1 ELSE t + (MaxFlight + q.age))
                BY <4>1, ZenonT(60) DEF Recent
            <4> HIDE DEF h, i, t
            <4>5. i <= (IF q.kind = "guek" THEN Ancient - 1 ELSE t + (MaxFlight + s.age))
                BY <3>2, <3>4, <4>2, <4>3, <4>4, KeysAssumption, SMTT(60)
            <4> QED
                BY <4>1, <4>5, ZenonT(60) DEF Recent, i, t
        <3>8. ASSUME q.pc = "put", NEW w \in q.missed
              PROVE  q.got[w] \in Held /\ held'[q.kind][w][q.got[w]] <= s.age
            <4>1. w \in Meter /\ q.got[w] \in Held
                BY <2>1, <3>8, ZenonT(60) DEF Found
            <4> DEFINE h == held[q.kind][w][q.got[w]]
                       i == held'[q.kind][w][q.got[w]]
            <4>2. h \in Nat /\ i \in Nat /\ i <= h + 1 /\ (h <= Ancient - 1 => i <= Ancient - 1)
                BY <2>a, <4>1, AgesPass, ZenonT(60)
            <4>3. h <= q.age
                BY <2>1, <3>8, ZenonT(60) DEF Found
            <4> HIDE DEF h, i
            <4>4. i <= s.age
                BY <3>2, <3>4, <4>2, <4>3
            <4> QED
                BY <4>1, <4>4 DEF i
        <3>9. Found(s, held')
            <4>1. q.missed # {} /\ q.missed \subseteq q.wanted
                BY <2>1, <2>4, ZenonT(60) DEF Found
            <4>2. \A w \in s.wanted \ s.missed : Recent(s.kind, w, s.got[w], MaxFlight + s.age, held')
                BY <3>4, <3>7, ZenonT(60)
            <4>3. s.pc = "put" => \A w \in s.missed :
                    s.got[w] \in Held /\ held'[s.kind][w][s.got[w]] <= s.age
                <5>1. q.pc = "put" => \A w \in q.missed :
                        q.got[w] \in Held /\ held'[q.kind][w][q.got[w]] <= s.age
                    BY <3>8, SMTT(60)
                <5> QED
                    BY <3>4, <5>1, ZenonT(60)
            <4>4. s.pc # "bump" /\ s.missed # {} /\ s.missed \subseteq s.wanted
                BY <2>4, <3>4, <4>1
            <4> QED
                BY <3>6, <4>2, <4>3, <4>4, ZenonT(60) DEF Found
        <3>10. CallOK(s, config, held')
            BY <3>6, <3>9 DEF CallOK
        <3> QED
            BY <3>1, <3>10
    <2> QED
        BY <2>2, <2>3, <2>4
<1>6. ASSUME NEW r \in Caller PROVE call'[r] = Idle \/ CallOK(call'[r], config, held')
    <2>1. CASE call[r] = Idle
        BY <1>1, <2>1 DEF Idle
    <2>2. CASE CallOK(call[r], config, held)
        BY <1>5, <2>2
    <2> QED
        BY <2>1, <2>2 DEF IngestInv
<1> QED
    BY <1>1, <1>2, <1>3, <1>4, <1>6 DEF IngestInv

-----------------------------------------------------------------------------
LEMMA IngestInitInv ==
    ASSUME NEW stored \in [Kind -> [Meter -> Held]], IngestInit(stored, Configs)
    PROVE  IngestInv
<1>1. /\ redis = stored /\ ic = [m \in Meter |-> 0]
      /\ keycache = [k \in Kind |-> [m \in Meter |-> Nothing]]
      /\ held = [k \in Kind |-> [m \in Meter |-> [v \in Held |-> IF v = stored[k][m] THEN 0 ELSE Ancient]]]
    BY DEF IngestInit, KeysInit
<1>2. 0 \in 0 .. Ancient /\ Ancient \in 0 .. Ancient /\ 0 \in 0 .. MaxCounter
    BY AncientIsNat, KeysAssumption
<1>3. KeysShape
    BY <1>1, <1>2 DEF KeysShape
<1>4. KeysInv
    <2>1. \A k \in Kind, m \in Meter : stored[k][m] \in Held /\ held[k][m][stored[k][m]] = 0
        BY <1>1
    <2>2. \A k \in Kind, m \in Meter : Dated(keycache[k][m], k, held[k][m])
        BY <1>1 DEF Dated
    <2> QED
        BY <1>1, <1>3, <2>1, <2>2 DEF KeysInv
<1>5. CountersInv
    <2>1. Limit("enc") \in Nat /\ "enc" \in Kind
        BY KeysAssumption DEF Kind, Limit
    <2> QED
        BY <2>1 DEF IngestInit, CountersInv
<1> QED
    BY <1>4, <1>5 DEF IngestInit, IngestInv

LEMMA IngestStepInv ==
    ASSUME IngestInv, [IngestNext]_ingestvars
    PROVE  IngestInv'
<1>1. ASSUME UNCHANGED <<keyvars>> PROVE KeysInv'
    BY <1>1 DEF IngestInv, KeysInv, KeysShape, keyvars
<1>2. ASSUME UNCHANGED <<ic, opens, bumpedBy>> PROVE CountersInv'
    BY <1>2 DEF IngestInv, CountersInv
<1>3. ASSUME NEW r \in Caller, NEW c \in Calls, Receive(r, c) PROVE IngestInv'
    <2>1. CallOK(Enter(Started(c)), config, held)
        BY Starting, Entering DEF IngestInv
    <2>2. call' = [call EXCEPT ![r] = Enter(Started(c))] /\ UNCHANGED <<keyvars, config, opens, bumpedBy, ic, held>>
        BY <1>3 DEF Receive, keyvars
    <2> QED
        BY <1>1, <1>2, <2>1, <2>2, OneCall, Zenon
<1>4. ASSUME NEW r \in Caller, NextItem(r) PROVE IngestInv'
    <2>1. CallOK(call'[r], config, held)
        BY <1>4, ItemStep
    <2>2. call' = [call EXCEPT ![r] = call'[r]] /\ UNCHANGED <<keyvars, config, opens, bumpedBy, ic, held>>
        BY <1>4 DEF NextItem, keyvars, IngestInv
    <2> QED
        BY <1>1, <1>2, <2>1, <2>2, OneCall
<1>5. ASSUME NEW r \in Caller, Lookup(r) PROVE IngestInv'
    <2>1. CallOK(call'[r], config, held) /\ KeysInv'
        BY <1>5, LookupStep
    <2>2. call' = [call EXCEPT ![r] = call'[r]] /\ UNCHANGED <<config, opens, bumpedBy, ic, held>>
        BY <1>5, SMTT(60) DEF Lookup, IngestInv
    <2> QED
        BY <1>2, <2>1, <2>2, OneCall
<1>6. ASSUME NEW r \in Caller, Put(r) PROVE IngestInv'
    <2>1. CallOK(call'[r], config, held) /\ KeysInv'
        BY <1>6, PutStep
    <2>2. call' = [call EXCEPT ![r] = call'[r]] /\ UNCHANGED <<config, opens, bumpedBy, ic, held>>
        BY <1>6 DEF Put, IngestInv
    <2> QED
        BY <1>2, <2>1, <2>2, OneCall
<1>7. ASSUME NEW r \in Caller, Respond(r) PROVE IngestInv'
    <2>1. call' = [call EXCEPT ![r] = Idle] /\ UNCHANGED <<keyvars, config, opens, bumpedBy, ic, held>>
        BY <1>7 DEF Respond, keyvars
    <2> QED
        BY <1>1, <1>2, <2>1, OneCall, Zenon
<1>8. ASSUME NEW r \in Caller, NEW ok \in BOOLEAN, Fetch(r, ok) PROVE IngestInv'
    <2>1. CallOK(call'[r], config, held)
        BY <1>8, FetchStep
    <2>2. call' = [call EXCEPT ![r] = call'[r]] /\ UNCHANGED <<keyvars, config, opens, bumpedBy, ic, held>>
        BY <1>8 DEF Fetch, IngestInv, keyvars
    <2> QED
        BY <1>1, <1>2, <2>1, <2>2, OneCall, SMTT(60)
<1>9. ASSUME NEW r \in Caller, NEW o \in {"answered", "lost", "undone"}, Bump(r, o) PROVE IngestInv'
    <2>1. CallOK(call'[r], config, held) /\ KeysInv' /\ CountersInv'
        BY <1>9, BumpStep
    <2>2. call' = [call EXCEPT ![r] = call'[r]] /\ UNCHANGED <<config, held>>
        BY <1>9, Zenon DEF Bump, IngestInv
    <2> QED
        BY <2>1, <2>2, OneCall
<1>10. ASSUME NEW r \in Caller, NEW j \in Nat, NEW o \in {"answered", "lost", "undone"}, Send(r, j, o) PROVE IngestInv'
    <2>1. CallOK(call'[r], config, held)
        BY <1>10, SendStep
    <2>2. call' = [call EXCEPT ![r] = call'[r]] /\ UNCHANGED <<keyvars, config, opens, bumpedBy, ic, held>>
        BY <1>10, ZenonT(60) DEF Send, IngestInv, keyvars
    <2> QED
        BY <1>1, <1>2, <2>1, <2>2, OneCall, SMTT(60)
<1>11. ASSUME NEW k \in Kind, NEW m \in Meter, NEW v \in Held, Rekey(k, m, v) PROVE IngestInv'
    BY <1>11, RekeyStep
<1>12. CASE IngestPass
    BY <1>12, PassStep
<1>13. CASE UNCHANGED ingestvars
    <2>1. UNCHANGED <<keyvars, config, call, opens, bumpedBy, ic, held>>
        BY <1>13 DEF ingestvars, gatevars, keyvars
    <2> QED
        BY <1>1, <1>2, <2>1 DEF IngestInv
<1> QED
    BY <1>3, <1>4, <1>5, <1>6, <1>7, <1>8, <1>9, <1>10, <1>11, <1>12, <1>13, ZenonT(60) DEF IngestNext

\* The invariant holds of every behaviour of the endpoints.
THEOREM IngestInvariant == IngestSpec => []IngestInv
<1>1. ASSUME NEW stored \in [Kind -> [Meter -> Held]], IngestInit(stored, Configs) PROVE IngestInv
    BY <1>1, IngestInitInv
<1>2. (\E stored \in [Kind -> [Meter -> Held]] : IngestInit(stored, Configs)) => IngestInv
    BY <1>1
<1>3. IngestInv /\ [IngestNext]_ingestvars => IngestInv'
    BY IngestStepInv
<1> QED
    BY <1>2, <1>3, PTL DEF IngestSpec

\* OnlyAuthentic of every frame in the zone stream (the gates of handlers.rs and
\* service.rs over the key caches of crypto.rs), for any number of concurrent
\* calls, devices, keys and frames per call, any lifetimes and lookup times.
THEOREM FramesAreAuthentic == IngestSpec => []OnlyAuthentic
<1>1. ASSUME IngestInv PROVE OnlyAuthentic
    <2>1. ASSUME NEW r \in Caller, call[r] # Idle, NEW j \in call[r].added, call[r].ep # "legacy"
          PROVE  LET q == call[r]
                     Authentic == q.proof[j] <= Latency(q.ep)
                     Simulated == q.ep \in {"rest", "batch"} /\ q.items[j].proto = "simulator"
                 IN /\ Authentic \/ (~config.secure /\ \/ Simulated
                                                       \/ q.ep = "bulk" /\ config.skip
                                                       \/ q.ep # "bulk" /\ config.unverified)
                    /\ config.secure /\ q.ep \in {"rest", "batch"} => j \in q.opened
                    /\ j \in q.events => Authentic \/ Simulated \/ q.ep = "bulk"
        <3> DEFINE q == call[r]
        <3>1. CallOK(q, config, held)
            BY <1>1, <2>1, ZenonT(60) DEF IngestInv
        <3>2. j \in Size(q) /\ Gated(q, config)
            BY <2>1, <3>1, ZenonT(60) DEF CallOK, CallShape, CallRecord
        <3>3. /\ q.verdict[j] = "valid" => q.proof[j] <= Latency(q.ep)
              /\ q.verdict[j] = "bypass" => Simulates(q, j)
              /\ MaySend(q, j, config)
              /\ j \in q.events => q.verdict[j] \in {"valid", "bypass"} \/ q.ep = "bulk"
            BY <2>1, <3>2, ZenonT(60) DEF Gated
        <3> QED
            BY <2>1, <3>3, ZenonT(60) DEF MaySend, Bypass, Simulates
    <2> QED
        BY <2>1, ZenonT(60) DEF OnlyAuthentic
<1> QED
    BY <1>1, IngestInvariant, PTL

\* CounterIsSound, the replay guard check_and_bump_counter as the REST handler
\* uses it, for any number of concurrent calls, counters and devices: each
\* counter lets one frame through, moved by a key the device had a lifetime ago,
\* or by a version it had at any time, since a version is cached without end.
THEOREM CountersAreSound == IngestSpec => []CounterIsSound
<1>1. ASSUME IngestInv PROVE CounterIsSound
    <2>1. CountersInv
        BY <1>1 DEF IngestInv
    <2>2. ASSUME NEW m \in Meter, NEW c \in 1 .. MaxCounter PROVE opens[m][c] <= 1
        <3>1. opens[m][c] \in 0 .. 1
            BY <2>1, ZenonT(60) DEF CountersInv
        <3> QED
            BY <3>1
    <2>3. ASSUME NEW m \in Meter PROVE Genuine(bumpedBy[m].kind, bumpedBy[m].age)
        <3> DEFINE k == bumpedBy[m].kind
                   age == bumpedBy[m].age
        <3>1. age \in Nat /\ age <= Limit(k)
            BY <2>1 DEF CountersInv
        <3> HIDE DEF k, age
        <3>2. Genuine(k, age)
            BY <3>1, AncientIsNat DEF Genuine, Limit
        <3> QED
            BY <3>2 DEF k, age
    <2> QED
        BY <2>2, <2>3, Zenon DEF CounterIsSound
<1> QED
    BY <1>1, IngestInvariant, PTL

\* DecodedSafely, the key policy of decode_secure_frame on the gRPC paths, for
\* any keys, lifetimes, frames and concurrent calls.
THEOREM FramesDecodeSafely == IngestSpec => []DecodedSafely
<1>1. ASSUME IngestInv PROVE DecodedSafely
    <2>1. ASSUME NEW r \in Caller, call[r] # Idle PROVE DOMAIN call[r].items = Size(call[r]) /\ Sourced(call[r], config)
        BY <1>1, <2>1, ZenonT(60) DEF IngestInv, CallOK, CallShape, CallRecord
    <2> QED
        BY <2>1 DEF DecodedSafely, Sourced
<1> QED
    BY <1>1, IngestInvariant, PTL

\* AnswersAreTrue, what each handler tells its caller against the zone stream
\* and the key store, for any keys, lifetimes, frames and concurrent calls.
THEOREM CallersAreToldTheTruth == IngestSpec => []AnswersAreTrue
<1>1. ASSUME IngestInv PROVE AnswersAreTrue
    <2>1. ASSUME NEW r \in Caller, Ended(r) PROVE DOMAIN call[r].items = Size(call[r]) /\ Truthful(call[r])
        <3>1. CallOK(call[r], config, held)
            BY <1>1, <2>1 DEF IngestInv, Ended, Idle
        <3> QED
            BY <3>1, ZenonT(60) DEF CallOK, CallShape, CallRecord
    <2>2. ASSUME NEW r \in Caller, Ended(r)
          PROVE  /\ \A j \in DOMAIN call[r].items :
                      /\ call[r].out[j] = "accepted" => j \in call[r].added
                      /\ call[r].out[j] \in {"400", "401", "403", "409", "426", "dropped"} => j \notin call[r].added
                 /\ ~call[r].erred => \A j \in call[r].due : call[r].out[j] \notin {"401", "403"}
        <3>1. Truthful(call[r]) /\ DOMAIN call[r].items = Size(call[r])
            BY <2>1, <2>2
        <3>2. ASSUME ~call[r].erred, NEW j \in call[r].due PROVE call[r].out[j] \notin {"401", "403"}
            BY <3>1, <3>2, Zenon DEF Truthful
        <3>3. \A j \in Size(call[r]) : /\ call[r].out[j] \in Kept => j \notin call[r].added
                                       /\ call[r].out[j] = "accepted" => j \in call[r].added
            BY <3>1, Zenon DEF Truthful
        <3> QED
            BY <3>1, <3>2, <3>3, Zenon DEF Kept
    <2> QED
        BY <2>2, ZenonT(60) DEF AnswersAreTrue
<1> QED
    BY <1>1, IngestInvariant, PTL

\* IngestTypeOK: keys, calls and answers have their shapes, and a call that is
\* answered has settled all its frames.
THEOREM CallsHaveShape == IngestSpec => []IngestTypeOK
<1>1. ASSUME IngestInv PROVE IngestTypeOK
    <2>1. KeysTypeOK
        <3>1. KeysShape
            BY <1>1, Zenon DEF IngestInv, KeysInv
        <3>2. ASSUME NEW k \in Kind, NEW m \in Meter
              PROVE  /\ keycache[k][m] # Nothing => keycache[k][m].key \in DeviceKey \cup {"absent"}
                     /\ \A v \in Held : held[k][m][v] \in 0 .. Ancient
            BY <3>1 DEF KeysShape
        <3> QED
            BY <3>1, <3>2 DEF KeysShape, KeysTypeOK
    <2>2. ASSUME NEW r \in Caller, call[r] # Idle
          PROVE  LET q == call[r]
                 IN /\ q.pc \in {"item", "lookup", "fetch", "put", "bump", "send", "done"}
                    /\ q.i \in DOMAIN q.items /\ q.added \subseteq DOMAIN q.items
                    /\ q.events \subseteq q.added
                    /\ q.pc = "done" => \A j \in DOMAIN q.items : q.out[j] \notin {"pending", "queued"}
        <3> DEFINE q == call[r]
        <3>1. q \in CallRecord(Size(q)) /\ InOrder(q) /\ Truthful(q) /\ Len(q.items) \in Nat
            BY <1>1, <2>2 DEF IngestInv, CallOK, CallShape
        <3>2. /\ q.pc \in {"item", "lookup", "fetch", "put", "bump", "send", "done"} /\ DOMAIN q.items = Size(q)
              /\ q.i \in Size(q) /\ q.added \subseteq Size(q)
            BY <3>1, Zenon DEF CallRecord
        <3>3. q.events \subseteq q.added
            BY <3>1, Zenon DEF Truthful
        <3>4. ASSUME q.pc = "done", NEW j \in Size(q) PROVE q.out[j] \notin {"pending", "queued"}
            <4>1. Over(q)
                BY <3>4, Zenon DEF Over
            <4> QED
                BY <3>1, <3>2, <3>4, <4>1 DEF InOrder, Size
        <3> QED
            BY <3>2, <3>3, <3>4
    <2> QED
        BY <2>1, <2>2 DEF IngestTypeOK
<1> QED
    BY <1>1, IngestInvariant, PTL
=============================================================================
