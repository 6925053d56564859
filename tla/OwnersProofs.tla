---------------------------- MODULE OwnersProofs ----------------------------
(* Every wallet in the owner tables belongs to the user it is filed under,   *)
(* and no registered meter's surplus is dropped: for all users, serials and  *)
(* wallets, any number of events, restarts, redeliveries and failed writes.  *)
EXTENDS MeterRegistry, TLAPS

Owns(u, w) == w = None \/ (w \in Wallet /\ Holder[w] = u)

\* An event that names a user, and a wallet of that user or none.
Event == {e \in MeterEvent \cup UserEvent : Owns(e.user, e.wallet)}

Carries(p, e) ==
    /\ e.user \in User /\ Owns(e.user, e.wallet)
    /\ (p # "repair" /\ e.type = "MeterRegistered") => e.serial \in Serial

\* A transaction is open.
Open(h) == h.stage \in {"first", "second"}
TxShaped(h) == DOMAIN h = {"stage", "user", "edge", "only", "rows", "wallet"}

\* What a writer is about to write is a wallet of the user it writes for.
HandOK(p, h) ==
    /\ h.stage = "got" => Carries(p, h.event)
    /\ h.stage = "upsert" => h.serial \in Serial /\ h.user \in User /\ Owns(h.user, h.excluded)
    /\ Open(h) => TxShaped(h) /\ h.user \in User /\ Owns(h.user, h.wallet) /\ h.rows \subseteq Serial

IamOK ==
    /\ primary \in [User -> Opt(Wallet)] /\ \A u \in User : Owns(u, primary[u])
    /\ meters \in [Serial -> Opt(User)]
    /\ topic \in [Topic -> Seq(Event)]

RowOK == row \in [Serial -> Row \cup {None}] /\ OwnWalletOnly

EdgeOK == edge \in [User -> Edge \cup {None}] /\ \A u \in User : Owns(u, WalletOf(u))

OwnInv ==
    /\ IamOK /\ RowOK /\ EdgeOK
    /\ pos \in [Topic -> Nat]
    /\ DOMAIN hand = Writer /\ \A p \in Writer : HandOK(p, hand[p])

LEMMA OwnInit == OrmInit => OwnInv
<1> SUFFICES ASSUME OrmInit PROVE OwnInv
    OBVIOUS
<1>1. IamOK
    BY DEF OrmInit, IamOK, Opt, Owns
<1>2. RowOK /\ EdgeOK
    BY DEF OrmInit, RowOK, EdgeOK, OwnWalletOnly, Owns, WalletOf
<1>3. \A p \in Writer : HandOK(p, hand[p])
    BY DEF OrmInit, HandOK, Idle, Open
<1> QED
    BY <1>1, <1>2, <1>3 DEF OwnInv, OrmInit

\* One writer's hand changes.
LEMMA HandChanges ==
    ASSUME OwnInv, NEW p \in Writer, NEW h, HandOK(p, h),
           hand' = [hand EXCEPT ![p] = h]
    PROVE  (DOMAIN hand = Writer /\ \A q \in Writer : HandOK(q, hand[q]))'
<1>1. DOMAIN hand' = Writer /\ \A q \in Writer : (hand'[q] = h /\ q = p) \/ hand'[q] = hand[q]
    BY DEF OwnInv
<1>2. \A q \in Writer : HandOK(q, hand'[q])
    BY <1>1 DEF OwnInv
<1> QED
    BY <1>1, <1>2 DEF HandOK, Carries, Owns, Open, TxShaped

LEMMA IdleOK == \A p \in Writer : HandOK(p, Idle)
BY DEF HandOK, Idle, Open

\* What the producers publish carries a wallet of the user it names.
LEMMA PublishedOK ==
    ASSUME OwnInv, NEW t \in Topic, NEW e \in Event, Published(t, e)
    PROVE  topic' \in [Topic -> Seq(Event)] /\ RowOK' /\ EdgeOK' /\ pos' = pos /\ hand' = hand /\ row' = row
<1>1. topic[t] \in Seq(Event) /\ topic' = [topic EXCEPT ![t] = Append(topic[t], e)]
    BY DEF Published, OwnInv, IamOK
<1>2. topic' \in [Topic -> Seq(Event)]
    BY <1>1 DEF OwnInv, IamOK
<1>3. UNCHANGED <<row, edge, pos, hand>>
    BY DEF Published, feedVars, dbVars
<1> QED
    BY <1>2, <1>3 DEF OwnInv, RowOK, EdgeOK, OwnWalletOnly, WalletOf, Owns

LEMMA ProducersOK == OwnInv /\ Producers => OwnInv'
<1> SUFFICES ASSUME OwnInv, Producers PROVE OwnInv'
    OBVIOUS
<1>1. ASSUME NEW t \in Topic, NEW e \in Event, Published(t, e),
             primary' \in [User -> Opt(Wallet)], \A u \in User : Owns(u, primary'[u]),
             meters' \in [Serial -> Opt(User)]
      PROVE OwnInv'
    BY <1>1, PublishedOK DEF OwnInv, IamOK, HandOK, Carries, Owns, Open, TxShaped
<1>2. ASSUME NEW s \in Serial, NEW u \in User, Register(s, u) PROVE OwnInv'
    <2> DEFINE e == [type |-> "MeterRegistered", serial |-> s, user |-> u, wallet |-> primary[u]]
    <2>1. e \in Event
        BY DEF Event, MeterEvent, OwnInv, IamOK
    <2>2. "meter" \in Topic /\ Published("meter", e) /\ UNCHANGED primary
        BY <1>2 DEF Register, Topic
    <2>3. meters' \in [Serial -> Opt(User)]
        BY <1>2 DEF Register, OwnInv, IamOK, Opt
    <2> HIDE DEF e
    <2> QED
        BY <1>1, <2>1, <2>2, <2>3, ZenonT(30) DEF OwnInv, IamOK
<1>3. ASSUME NEW w \in Wallet, LinkPrimary(Holder[w], w) PROVE OwnInv'
    <2> DEFINE u == Holder[w]
               e == IF primary[u] = None
                    THEN [type |-> "EmailVerified", user |-> u, wallet |-> w, is_primary |-> None]
                    ELSE [type |-> "UserWalletLinked", user |-> u, wallet |-> w, is_primary |-> TRUE]
    <2>1. u \in User
        BY OwnerAssumption
    <2>2. e \in Event
        BY <2>1 DEF Event, UserEvent, Owns, Opt
    <2>3. "user" \in Topic /\ Published("user", e) /\ UNCHANGED meters
        BY <1>3 DEF LinkPrimary, Topic
    <2>4. primary' = [primary EXCEPT ![u] = w]
        BY <1>3 DEF LinkPrimary
    <2>5. primary' \in [User -> Opt(Wallet)] /\ \A v \in User : Owns(v, primary'[v])
        BY <2>1, <2>4 DEF OwnInv, IamOK, Opt, Owns
    <2> HIDE DEF e
    <2> QED
        BY <1>1, <2>2, <2>3, <2>5, ZenonT(60) DEF OwnInv, IamOK
<1>4. ASSUME NEW w \in Wallet, LinkOther(Holder[w], w) PROVE OwnInv'
    <2>1. Holder[w] \in User
        BY OwnerAssumption
    <2>2. PICK e \in Event : Published("user", e) /\ UNCHANGED <<primary, meters>>
        <3>1. [type |-> "UserWalletLinked", user |-> Holder[w], wallet |-> w, is_primary |-> FALSE] \in Event
            BY <2>1 DEF Event, UserEvent, Owns, Opt
        <3>2. [type |-> "EmailVerified", user |-> Holder[w], wallet |-> None, is_primary |-> None] \in Event
            BY <2>1 DEF Event, UserEvent, Owns, Opt
        <3> QED
            BY <1>4, <3>1, <3>2 DEF LinkOther
    <2> QED
        BY <1>1, <2>2 DEF OwnInv, IamOK, Topic
<1>5. ASSUME NEW w \in Wallet, Unlink(Holder[w], w) PROVE OwnInv'
    <2> DEFINE e == [type |-> "UserWalletUnlinked", user |-> Holder[w], wallet |-> w, is_primary |-> None]
    <2>1. Holder[w] \in User
        BY OwnerAssumption
    <2>2. e \in Event
        BY <2>1 DEF Event, UserEvent, Owns, Opt
    <2>3. "user" \in Topic /\ Published("user", e) /\ UNCHANGED meters
        BY <1>5 DEF Unlink, Topic
    <2>4. primary' \in [User -> Opt(Wallet)] /\ \A v \in User : Owns(v, primary'[v])
        BY <1>5, <2>1 DEF Unlink, OwnInv, IamOK, Opt, Owns
    <2> HIDE DEF e
    <2> QED
        BY <1>1, <2>2, <2>3, <2>4, ZenonT(60) DEF OwnInv, IamOK
<1> QED
    BY <1>2, <1>3, <1>4, <1>5 DEF Producers

\* The transactions of the two wallet updates write a wallet of the user, or none.
LEMMA TxOK ==
    ASSUME OwnInv, NEW p \in Writer, NEW u \in User, NEW w, Owns(u, w)
    PROVE  HandOK(p, update_wallet_by_user(u, w)) /\ HandOK(p, clear_wallet_if_matches(u, w))
BY DEF HandOK, update_wallet_by_user, clear_wallet_if_matches, Open, TxShaped, Owns

LEMMA ConsumerIsWriter == \A t \in Topic : Consumer(t) \in Writer \ {"repair"}
BY DEF Consumer, Topic, Writer

\* A hand changes, and none of the tables.
LEMMA OnlyHand ==
    ASSUME OwnInv, NEW p \in Writer, NEW h, HandOK(p, h), hand' = [hand EXCEPT ![p] = h],
           pos' \in [Topic -> Nat], UNCHANGED <<iamVars, dbVars>>
    PROVE  OwnInv'
<1>1. (DOMAIN hand = Writer /\ \A q \in Writer : HandOK(q, hand[q]))'
    BY HandChanges, ZenonT(30) DEF dbVars
<1>2. IamOK' /\ RowOK' /\ EdgeOK'
    BY DEF OwnInv, IamOK, RowOK, EdgeOK, iamVars, dbVars, OwnWalletOnly, WalletOf, Owns
<1> QED
    BY <1>1, <1>2 DEF OwnInv

LEMMA ResumedOK == ASSUME NEW ts, Resumed(ts) PROVE pos' \in [Topic -> Nat]
BY OwnerAssumption DEF Resumed

LEMMA FeedOK == ASSUME OwnInv, NEW t \in Topic, Feed(t) PROVE OwnInv'
<1> DEFINE c == Consumer(t)
<1>1. c \in Writer /\ c # "repair"
    BY ConsumerIsWriter
<1> HIDE DEF c
<1>2. CASE Recv(t)
    <2>1. PICK e : e = topic[t][pos[t] + 1]
        OBVIOUS
    <2>2. e \in Event
        <3>1. topic[t] \in Seq(Event) /\ pos[t] \in Nat
            BY DEF OwnInv, IamOK
        <3>2. pos[t] + 1 \in 1 .. Len(topic[t])
            BY <1>2, <3>1 DEF Recv
        <3> QED
            BY <2>1, <3>1, <3>2
    <2>3. Carries(c, e)
        BY <2>2 DEF Carries, Event, MeterEvent, UserEvent
    <2>4. HandOK(c, IF Skipped(e) THEN Idle ELSE [stage |-> "got", event |-> e])
        BY <1>1, <2>3, IdleOK DEF HandOK, Open
    <2>5. hand' = [hand EXCEPT ![c] = IF Skipped(e) THEN Idle ELSE [stage |-> "got", event |-> e]]
        BY <1>2, <2>1 DEF Recv, c
    <2>6. pos' \in [Topic -> Nat]
        BY <1>2 DEF Recv, OwnInv
    <2> QED
        BY <1>1, <1>2, <2>4, <2>5, <2>6, OnlyHand, ZenonT(30) DEF Recv
<1>3. CASE DispatchStep(t)
    <2>1. PICK e : e = hand[c].event
        OBVIOUS
    <2>2. Carries(c, e) /\ Dispatch(c, e)
        BY <1>1, <1>3, <2>1 DEF DispatchStep, OwnInv, HandOK, c
    <2>3. UNCHANGED <<iamVars, dbVars>> /\ pos' \in [Topic -> Nat]
        BY <1>3 DEF DispatchStep, feedVars, OwnInv
    <2>4. PICK h : HandOK(c, h) /\ hand' = [hand EXCEPT ![c] = h]
        <3>1. CASE e.type = "MeterRegistered" /\ UpsertBegin(c, e)
            <4>1. Owns(e.user, COALESCE(e.wallet, WalletOf(e.user)))
                BY <2>2, ZenonT(60) DEF Carries, OwnInv, EdgeOK, COALESCE
            <4> DEFINE h == [stage |-> "upsert", serial |-> e.serial, user |-> e.user,
                             excluded |-> COALESCE(e.wallet, WalletOf(e.user))]
            <4>2. HandOK(c, h)
                BY <1>1, <2>2, <3>1, <4>1 DEF HandOK, Carries, Open
            <4>3. hand' = [hand EXCEPT ![c] = h]
                BY <3>1 DEF UpsertBegin
            <4> QED
                BY <4>2, <4>3, ZenonT(30)
        <3>2. CASE TxBegin(c, update_wallet_by_user(e.user, e.wallet))
            BY <1>1, <2>2, <3>2, TxOK, ZenonT(30) DEF TxBegin, Carries
        <3>3. CASE TxBegin(c, clear_wallet_if_matches(e.user, e.wallet))
            BY <1>1, <2>2, <3>3, TxOK, ZenonT(30) DEF TxBegin, Carries
        <3> QED
            BY <2>2, <3>1, <3>2, <3>3 DEF Dispatch
    <2> QED
        BY <1>1, <2>3, <2>4, OnlyHand, ZenonT(30)
<1>4. CASE Rebuilt(t)
    <2>1. pos' \in [Topic -> Nat]
        BY <1>4, ResumedOK DEF Rebuilt
    <2>2. UNCHANGED <<iamVars, hand, dbVars>>
        BY <1>4, ZenonT(60) DEF Rebuilt
    <2> QED
        BY <2>1, <2>2 DEF OwnInv, IamOK, RowOK, EdgeOK, iamVars, dbVars, OwnWalletOnly, WalletOf, Owns,
                          HandOK, Carries, Open
<1> QED
    BY <1>2, <1>3, <1>4, Zenon DEF Feed

\* The writes themselves.  A transaction looks at its rows again before it writes
\* them, so it commits no wallet into a row that has become someone else's.
LEMMA WriteOK == ASSUME OwnInv, NEW p \in Writer, Write(p) PROVE OwnInv'
<1>1. CASE UpsertApply(p)
    <2>1. PICK s, u, x : s = hand[p].serial /\ u = hand[p].user /\ x = hand[p].excluded
        BY ZenonT(30)
    <2>2. s \in Serial /\ u \in User /\ Owns(u, x)
        BY <1>1, <2>1 DEF UpsertApply, OwnInv, HandOK
    <2>3. PICK r : r = upsert_by_serial(row[s], u, x)
        OBVIOUS
    <2>4. row' = [row EXCEPT ![s] = r] /\ hand' = [hand EXCEPT ![p] = Idle] /\ UNCHANGED <<iamVars, edge, pos>>
        BY <1>1, <2>1, <2>3 DEF UpsertApply, feedVars
    <2>5. r \in Row /\ r.user = u /\ Owns(u, r.wallet)
        <3>1. row[s] # None => row[s] \in Row /\ Owns(row[s].user, row[s].wallet)
            BY <2>2 DEF OwnInv, RowOK, OwnWalletOnly, Owns, Row, Opt
        <3> QED
            BY <2>2, <2>3, <3>1 DEF upsert_by_serial, COALESCE, Row, Opt, Owns
    <2>6. RowOK'
        <3>1. row' \in [Serial -> Row \cup {None}]
            BY <2>2, <2>4, <2>5 DEF OwnInv, RowOK
        <3>2. \A q \in Serial : row'[q] = row[q] \/ (q = s /\ row'[q] = r)
            BY <2>2, <2>4, ZenonT(60) DEF OwnInv, RowOK
        <3> QED
            BY <3>1, <3>2, <2>5 DEF OwnInv, RowOK, OwnWalletOnly, Owns
    <2>7. IamOK' /\ EdgeOK' /\ pos' \in [Topic -> Nat]
        BY <2>4 DEF OwnInv, IamOK, EdgeOK, iamVars, WalletOf, Owns
    <2>8. (DOMAIN hand = Writer /\ \A q \in Writer : HandOK(q, hand[q]))'
        BY <2>4, IdleOK, HandChanges, ZenonT(60)
    <2> QED
        BY <2>6, <2>7, <2>8 DEF OwnInv
<1>2. CASE TxCommit(p)
    <2>1. PICK tx : tx = hand[p]
        OBVIOUS
    <2>2. tx.user \in User /\ Owns(tx.user, tx.wallet)
        BY <1>2, <2>1 DEF TxCommit, OwnInv, HandOK, Open
    <2> DEFINE hit == {s \in tx.rows : Matches(tx, s)}
    <2>3. /\ row' = [s \in Serial |-> IF s \in hit THEN [row[s] EXCEPT !.wallet = tx.wallet] ELSE row[s]]
          /\ edge' = [edge EXCEPT ![tx.user] = IF tx.edge THEN <<tx.wallet>> ELSE @]
          /\ hand' = [hand EXCEPT ![p] = Idle] /\ UNCHANGED <<iamVars, pos>>
        BY <1>2, <2>1 DEF TxCommit, feedVars
    <2>4. ASSUME NEW s \in Serial
          PROVE /\ row'[s] \in Row \cup {None} /\ (s \notin hit => row'[s] = row[s])
                /\ s \in hit => row'[s].user = row[s].user /\ row[s].user = tx.user /\ row'[s].wallet = tx.wallet
                                 /\ row'[s] \in Row /\ row[s] \in Row
        <3>1. s \in hit => row[s] \in Row /\ row[s].user = tx.user
            BY DEF Matches, OwnInv, RowOK
        <3> QED
            BY <2>2, <2>3, <3>1 DEF OwnInv, RowOK, Row, Opt, Owns
    <2> HIDE DEF hit
    <2>5. RowOK'
        <3>1. row' \in [Serial -> Row \cup {None}]
            BY <2>3, <2>4, ZenonT(60)
        <3>2. OwnWalletOnly'
            BY <2>2, <2>4 DEF OwnWalletOnly, OwnInv, RowOK, Owns
        <3> QED
            BY <3>1, <3>2 DEF RowOK
    <2>6. EdgeOK'
        <3>1. edge' \in [User -> Edge \cup {None}]
            BY <2>2, <2>3 DEF OwnInv, EdgeOK, Edge, Opt, Owns
        <3>2. \A u \in User : edge'[u] = edge[u] \/ (u = tx.user /\ edge'[u] = <<tx.wallet>>)
            BY <2>2, <2>3 DEF OwnInv, EdgeOK
        <3>3. \A u \in User : Owns(u, WalletOf(u)')
            BY <3>2, <2>2 DEF OwnInv, EdgeOK, WalletOf, Owns
        <3> QED
            BY <3>1, <3>3 DEF EdgeOK, Owns
    <2>7. (DOMAIN hand = Writer /\ \A q \in Writer : HandOK(q, hand[q]))'
        BY <2>3, IdleOK, HandChanges, ZenonT(60)
    <2>8. IamOK' /\ pos' \in [Topic -> Nat]
        BY <2>3 DEF OwnInv, IamOK, iamVars, Owns
    <2> QED
        BY <2>5, <2>6, <2>7, <2>8 DEF OwnInv
<1>3. CASE WriteErr(p)
    BY <1>3, IdleOK, OnlyHand, ZenonT(30) DEF WriteErr, feedVars, OwnInv
<1>4. CASE TxRows(p)
    <2>1. PICK tx, h : tx = hand[p] /\ h = [tx EXCEPT !.stage = "second", !.rows = {s \in Serial : Matches(tx, s)}]
        BY ZenonT(60)
    <2>2. hand' = [hand EXCEPT ![p] = h] /\ UNCHANGED <<iamVars, dbVars, pos>>
        BY <1>4, <2>1 DEF TxRows, feedVars, OwnInv
    <2>3. TxShaped(tx) /\ tx.user \in User /\ Owns(tx.user, tx.wallet)
        BY <1>4, <2>1 DEF TxRows, OwnInv, HandOK, Open
    <2>4. HandOK(p, h)
        <3>1. /\ TxShaped(h) /\ h.stage = "second" /\ h.user = tx.user /\ h.wallet = tx.wallet
              /\ h.rows \subseteq Serial
            BY <2>1, <2>3 DEF TxShaped
        <3> QED
            BY <2>3, <3>1 DEF HandOK, Open
    <2> QED
        BY <2>2, <2>4, OnlyHand, ZenonT(60) DEF OwnInv
<1> QED
    BY <1>1, <1>2, <1>3, <1>4, ZenonT(60) DEF Write

\* The invariant is about these variables only.
LEMMA OwnFrame ==
    ASSUME OwnInv, UNCHANGED <<primary, meters, topic, hand, row, edge>>, pos' \in [Topic -> Nat]
    PROVE  OwnInv'
<1>1. IamOK' /\ RowOK' /\ EdgeOK'
    BY ZenonT(60) DEF OwnInv, IamOK, RowOK, EdgeOK, OwnWalletOnly, WalletOf, Owns
<1>2. ASSUME NEW p \in Writer PROVE HandOK(p, hand[p])'
    <2>1. HandOK(p, hand[p])
        BY DEF OwnInv
    <2> QED
        BY <2>1, ZenonT(60) DEF HandOK, Carries, Open, TxShaped, Owns
<1> QED
    BY <1>1, <1>2, ZenonT(60) DEF OwnInv

LEMMA RepairOK == OwnInv /\ ((\E u \in User : RepairResolve(u)) \/ RepairWrite) => OwnInv'
<1> SUFFICES ASSUME OwnInv, (\E u \in User : RepairResolve(u)) \/ RepairWrite PROVE OwnInv'
    OBVIOUS
<1>1. "repair" \in Writer
    BY DEF Writer
<1>2. ASSUME NEW u \in User, RepairResolve(u) PROVE OwnInv'
    <2>1. UNCHANGED <<iamVars, dbVars>> /\ pos' \in [Topic -> Nat]
        BY <1>2, ZenonT(60) DEF RepairResolve, feedVars, OwnInv
    <2>2. CASE UNCHANGED hand
        BY <2>1, <2>2, OwnFrame DEF iamVars, dbVars, OwnInv
    <2>3. CASE ~UNCHANGED hand
        <3> DEFINE h == [stage |-> "got", event |-> [user |-> u, wallet |-> primary[u]]]
        <3>1. hand' = [hand EXCEPT !["repair"] = h]
            BY <1>2, <2>3, ZenonT(60) DEF RepairResolve
        <3>2. HandOK("repair", h)
            BY DEF HandOK, Carries, OwnInv, IamOK, Open
        <3> HIDE DEF h
        <3> QED
            BY <1>1, <2>1, <3>1, <3>2, OnlyHand, ZenonT(30)
    <2> QED
        BY <2>2, <2>3
<1>3. CASE RepairWrite
    <2>1. PICK e : e = hand["repair"].event
        OBVIOUS
    <2>2. Carries("repair", e) /\ TxBegin("repair", update_wallet_by_user(e.user, e.wallet))
        BY <1>1, <1>3, <2>1 DEF RepairWrite, OwnInv, HandOK
    <2>3. HandOK("repair", update_wallet_by_user(e.user, e.wallet))
        BY <1>1, <2>2, TxOK DEF Carries
    <2> QED
        BY <1>1, <1>3, <2>2, <2>3, OnlyHand, ZenonT(30) DEF RepairWrite, TxBegin, feedVars, OwnInv
<1> QED
    BY <1>2, <1>3

LEMMA RestartOK == OwnInv /\ Restart => OwnInv'
<1> SUFFICES ASSUME OwnInv, Restart PROVE OwnInv'
    OBVIOUS
<1>1. IamOK' /\ UNCHANGED <<primary, meters>>
    BY DEF Restart, OwnInv, IamOK, iamVars, Owns
<1>2. pos' \in [Topic -> Nat]
    BY ResumedOK DEF Restart
<1>3. (DOMAIN hand = Writer /\ \A p \in Writer : HandOK(p, hand[p]))'
    <2>1. hand' = [p \in Writer |-> Idle]
        BY DEF Restart
    <2> QED
        BY <2>1 DEF HandOK, Idle, Open
<1>4. CASE UNCHANGED <<row, edge>>
    BY <1>1, <1>2, <1>3, <1>4, ZenonT(60) DEF OwnInv, RowOK, EdgeOK, OwnWalletOnly, WalletOf, Owns
<1>5. CASE /\ row' = Seeded
           /\ edge' \in [User -> Edge \cup {None}]
           /\ \A u \in User : edge'[u] = edge[u] \/ edge'[u] \in EdgeSeeds(row', u)
    <2>1. ASSUME NEW s \in Serial
          PROVE \/ row'[s] = row[s]
                \/ /\ row'[s] \in Row /\ row'[s].user \in User
                   /\ Owns(row'[s].user, row'[s].wallet)
        <3>1. CASE row[s] # None \/ meters[s] = None
            BY <1>5, <3>1, ZenonT(60) DEF Seeded
        <3>2. CASE ~(row[s] # None \/ meters[s] = None)
            <4>1. PICK u, w : row'[s] = [user |-> u, wallet |-> w] /\ u = meters[s]
                              /\ w = IF OwnMeterDb THEN WalletOf(u) ELSE primary[u]
                BY <1>5, <3>2, ZenonT(30) DEF Seeded
            <4>2. u \in User
                BY <3>2, <4>1 DEF OwnInv, IamOK, Opt
            <4>3. Owns(u, w)
                BY <4>1, <4>2 DEF OwnInv, IamOK, EdgeOK
            <4> QED
                BY <4>1, <4>2, <4>3 DEF Row, Opt, Owns
        <3> QED
            BY <3>1, <3>2
    <2>2. RowOK'
        <3>1. row' \in [Serial -> Row \cup {None}]
            BY <1>5, <2>1 DEF Seeded, OwnInv, RowOK
        <3>2. OwnWalletOnly'
            BY <2>1, ZenonT(60) DEF OwnWalletOnly, OwnInv, RowOK, Owns
        <3> QED
            BY <3>1, <3>2, ZenonT(60) DEF RowOK
    <2>3. ASSUME NEW u \in User PROVE Owns(u, WalletOf(u)')
        <3>1. CASE edge'[u] = edge[u]
            BY <3>1 DEF OwnInv, EdgeOK, WalletOf, Owns
        <3>2. CASE edge'[u] = None
            BY <3>2 DEF WalletOf, Owns
        <3>3. CASE \E s \in Serial : /\ row'[s] # None /\ row'[s].user = u /\ row'[s].wallet # None
                                     /\ edge'[u] = <<row'[s].wallet>>
            BY <2>2, <3>3 DEF RowOK, OwnWalletOnly, WalletOf, Owns, Row, Opt
        <3> QED
            BY <1>5, <3>1, <3>2, <3>3 DEF EdgeSeeds
    <2> QED
        BY <1>1, <1>2, <1>3, <1>5, <2>2, <2>3, ZenonT(60) DEF OwnInv, EdgeOK, Owns
<1>6. CASE row' = Seeded /\ UNCHANGED edge
    BY <1>5, <1>6, ZenonT(60) DEF OwnInv, EdgeOK
<1> QED
    BY <1>4, <1>5, <1>6, ZenonT(60) DEF Restart

LEMMA OwnStep == OwnInv /\ [OrmNext]_ormVars => OwnInv'
<1>1. OwnInv /\ UNCHANGED ormVars => OwnInv'
    BY OwnFrame DEF ormVars, iamVars, feedVars, dbVars, OwnInv
<1> QED
    BY <1>1, ProducersOK, FeedOK, WriteOK, RepairOK, RestartOK, ZenonT(60) DEF OrmNext, Running

\* The registry beside the feed takes no step of the feed's tables.
LEMMA NextIsOrmStep == [Next]_vars => [OrmNext]_ormVars
BY DEF Next, OrmStep, OrmNext, vars

\* A row of the owner read model never holds a wallet of another user than the
\* one it names.
THEOREM RowsHoldOwnWallets == Spec => []OwnWalletOnly
<1>1. Init => OwnInv
    BY OwnInit DEF Init
<1>2. OwnInv /\ [Next]_vars => OwnInv'
    BY OwnStep, NextIsOrmStep
<1>3. OwnInv => OwnWalletOnly
    BY DEF OwnInv, RowOK
<1> QED
    BY <1>1, <1>2, <1>3, PTL DEF Spec

-----------------------------------------------------------------------------
\* What a lookup remembers of its meter stays true: a registered meter is not
\* unregistered.
CallOK(c) ==
    call[c].pc = "idle" \/
    /\ DOMAIN call[c] = {"pc", "serial", "result", "owner", "registered", "holders"}
    /\ call[c].serial \in Serial
    /\ call[c].registered = TRUE => meters[call[c].serial] # None

DropInv ==
    /\ DOMAIN meters = Serial /\ DOMAIN call = Caller
    /\ \A c \in Caller : CallOK(c)
    /\ TRUE \notin dropped

LEMMA MetersStay ==
    ASSUME DropInv, Running \/ Restart
    PROVE  DOMAIN meters' = Serial /\ \A s \in Serial : meters[s] # None => meters'[s] # None
<1>1. ASSUME NEW s \in Serial, NEW u \in User, Register(s, u)
      PROVE DOMAIN meters' = Serial /\ \A x \in Serial : meters[x] # None => meters'[x] # None
    BY <1>1, OwnerAssumption DEF Register, DropInv
<1>2. CASE UNCHANGED meters
    BY <1>2 DEF DropInv
<1>3. UNCHANGED meters \/ \E s \in Serial, u \in User : Register(s, u)
    BY ZenonT(30) DEF Running, Restart, Producers, LinkPrimary, LinkOther, Unlink, Feed, Recv, DispatchStep, Rebuilt,
           Write, UpsertApply, TxRows, TxCommit, WriteErr, RepairResolve, RepairWrite, iamVars
<1> QED
    BY <1>1, <1>2, <1>3

LEMMA CallsStay ==
    ASSUME DropInv, NEW c \in Caller, call[c].pc # "idle", NEW pc, NEW owner, NEW result, UNCHANGED <<meters, dropped>>,
           \/ call' = [call EXCEPT ![c].pc = pc]
           \/ call' = [call EXCEPT ![c].pc = pc, ![c].result = result]
           \/ call' = [call EXCEPT ![c].pc = pc, ![c].owner = owner, ![c].result = result]
    PROVE  DropInv'
<1>1. /\ call'[c].serial = call[c].serial /\ call'[c].registered = call[c].registered
      /\ DOMAIN call'[c] = DOMAIN call[c] /\ DOMAIN call' = Caller
      /\ \A d \in Caller \ {c} : call'[d] = call[d]
    BY DEF DropInv, CallOK
<1>2. UNCHANGED meters /\ TRUE \notin dropped' /\ DOMAIN meters' = Serial
    BY ZenonT(30) DEF DropInv
<1>3. CallOK(c)'
    <2>1. CallOK(c)
        BY DEF DropInv
    <2> QED
        BY <1>1, <1>2, <2>1, Zenon DEF CallOK
<1>4. ASSUME NEW d \in Caller \ {c} PROVE CallOK(d)'
    <2>1. CallOK(d) /\ call'[d] = call[d]
        BY <1>1, <1>4 DEF DropInv
    <2> QED
        BY <1>2, <2>1, Zenon DEF CallOK
<1> QED
    BY <1>1, <1>2, <1>3, <1>4, Zenon DEF DropInv

LEMMA ResolveOK == ASSUME OwnMeterDb, DropInv, NEW c \in Caller, Resolve(c), UNCHANGED ormVars PROVE DropInv'
<1>0. UNCHANGED meters
    BY DEF ormVars, iamVars
<1>1. ASSUME NEW s \in Serial, Begin(c, s) PROVE DropInv'
    <2>1. PICK pc, result : call' = [call EXCEPT ![c] =
              [pc |-> pc, serial |-> s, result |-> result, owner |-> None,
               registered |-> meters[s] # None, holders |-> Named(s)]]
        BY <1>1, ZenonT(30) DEF Begin
    <2>2. UNCHANGED dropped
        BY <1>1, ZenonT(60) DEF Begin
    <2>3. /\ DOMAIN call'[c] = {"pc", "serial", "result", "owner", "registered", "holders"}
          /\ call'[c].serial = s /\ call'[c].registered = (meters[s] # None)
          /\ DOMAIN call' = Caller /\ \A d \in Caller \ {c} : call'[d] = call[d]
        BY <2>1 DEF DropInv
    <2>4. CallOK(c)'
        BY <1>0, <2>3, ZenonT(30) DEF CallOK
    <2>5. ASSUME NEW d \in Caller \ {c} PROVE CallOK(d)'
        <3>1. CallOK(d) /\ call'[d] = call[d]
            BY <2>3, <2>5 DEF DropInv
        <3> QED
            BY <1>0, <3>1, Zenon DEF CallOK
    <2> QED
        BY <1>0, <2>2, <2>3, <2>4, <2>5, Zenon DEF DropInv
<1>2. CASE RedisGet(c)
    BY <1>0, <1>2, CallsStay, ZenonT(30) DEF RedisGet, At, Returned
<1>3. CASE LookupErr(c)
    BY <1>0, <1>3, CallsStay, ZenonT(30) DEF LookupErr, At
<1>4. CASE DbFetch(c)
    BY <1>0, <1>4, CallsStay, ZenonT(30) DEF DbFetch
<1>5. CASE backfill(c)
    BY <1>0, <1>5, CallsStay, ZenonT(30) DEF backfill, At
<1>6. CASE BackfillRedis(c)
    BY <1>0, <1>6, CallsStay, ZenonT(30) DEF BackfillRedis, At
<1>7. CASE cache_negative(c)
    BY <1>0, <1>7, CallsStay, ZenonT(30) DEF cache_negative, At
<1>8. CASE Take(c)
    <2>1. call[c].pc # "idle" /\ call' = [call EXCEPT ![c] = NoCall]
        BY <1>8, ZenonT(30) DEF Take
    <2>2. TRUE \notin dropped'
        BY <1>8, <2>1, ZenonT(30) DEF Take, DropInv, CallOK, owner_in_source_of_truth
    <2> QED
        BY <1>0, <2>1, <2>2, ZenonT(30) DEF DropInv, CallOK, NoCall
<1> QED
    BY <1>1, <1>2, <1>3, <1>4, <1>5, <1>6, <1>7, <1>8 DEF Resolve

\* With the metering DB, whatever the caches and the projection say, the sweep
\* drops no surplus of a meter that was registered when it looked it up.
THEOREM NoRegisteredMeterDropped == OwnMeterDb => (Spec => []RegisteredIsNeverDropped)
<1> SUFFICES ASSUME OwnMeterDb PROVE Spec => []RegisteredIsNeverDropped
    OBVIOUS
<1>1. Init => DropInv
    <2> SUFFICES ASSUME Init PROVE DropInv
        OBVIOUS
    <2>1. meters = [s \in Serial |-> None] /\ call = [c \in Caller |-> NoCall] /\ dropped = {}
        BY ZenonT(30) DEF Init, OrmInit, RegInit
    <2> QED
        BY <2>1 DEF DropInv, CallOK, NoCall
<1>2. DropInv /\ [Next]_vars => DropInv'
    <2> SUFFICES ASSUME DropInv, [Next]_vars PROVE DropInv'
        OBVIOUS
    <2>1. CASE Running /\ UNCHANGED regVars
        BY <2>1, MetersStay, ZenonT(30) DEF regVars, DropInv, CallOK
    <2>2. CASE Restart /\ ProcessStops /\ UNCHANGED <<now, redisVars, dropped>>
        BY <2>2, MetersStay, ZenonT(30) DEF ProcessStops, NoCall, DropInv, CallOK
    <2>3. ASSUME NEW c \in Caller, Resolve(c), UNCHANGED ormVars PROVE DropInv'
        BY <2>3, ResolveOK
    <2>4. CASE Tick /\ UNCHANGED ormVars
        BY <2>4, ZenonT(30) DEF Tick, ormVars, iamVars, DropInv, CallOK
    <2>5. CASE UNCHANGED vars
        BY <2>5, ZenonT(30) DEF vars, ormVars, iamVars, regVars, DropInv, CallOK
    <2> QED
        BY <2>1, <2>2, <2>3, <2>4, <2>5 DEF Next, OrmStep, RegNext
<1>3. DropInv => RegisteredIsNeverDropped
    BY ZenonT(30) DEF DropInv, RegisteredIsNeverDropped
<1> QED
    BY <1>1, <1>2, <1>3, PTL DEF Spec
-----------------------------------------------------------------------------
\* A transaction that has written the user's row is the last to do so until it
\* commits: an unlink still finds there the wallet it is about, and the snapshot of
\* the rows has every row that follows IAM for this user.  One that has not is an
\* unlink, which writes no wallet.
TxFollows(h) ==
    Open(h) =>
        /\ h.edge /\ h.only # None => edge[h.user] = h.only
        /\ h.edge /\ h.stage = "second" => \A s \in follows : row[s].user = h.user => s \in h.rows
        /\ h.only # None => h.wallet = None
        /\ h.only = None => h.edge

\* No two transactions have written one user's row.
Apart(g, h) == Open(g) /\ Open(h) => ~(g.edge /\ h.edge /\ g.user = h.user)

\* IamWalletStays with what it rests on.
FollowInv ==
    /\ follows \subseteq Serial
    /\ IamWalletStays
    /\ \A p \in Writer : TxFollows(hand[p])
    /\ \A p, q \in Writer : p # q => Apart(hand[p], hand[q])

LEMMA FollowInit == OrmInit => FollowInv
BY DEF OrmInit, FollowInv, IamWalletStays, TxFollows, Apart, Idle, Open

\* The tables stay, and one hand changes.
LEMMA FollowHand ==
    ASSUME OwnInv, FollowInv, NEW p \in Writer, NEW h, hand' = [hand EXCEPT ![p] = h], UNCHANGED dbVars,
           TxFollows(h), \A q \in Writer \ {p} : Apart(h, hand[q]) /\ Apart(hand[q], h)
    PROVE  FollowInv'
<1>1. row' = row /\ edge' = edge /\ follows' = follows
    BY DEF dbVars
<1>2. hand'[p] = h /\ \A q \in Writer \ {p} : hand'[q] = hand[q]
    BY DEF OwnInv
<1>3. \A q \in Writer : TxFollows(hand'[q])
    BY <1>2, Zenon DEF FollowInv
<1>4. \A q \in Writer : TxFollows(hand[q])'
    BY <1>1, <1>3, Zenon DEF TxFollows, Open
<1>5. ASSUME NEW q \in Writer, NEW r \in Writer, q # r PROVE Apart(hand'[q], hand'[r])
    <2>1. CASE q = p
        BY <1>2, <1>5, <2>1, Zenon
    <2>2. CASE r = p
        BY <1>2, <1>5, <2>2, Zenon
    <2>3. CASE q # p /\ r # p
        BY <1>2, <1>5, <2>3, Zenon DEF FollowInv
    <2> QED
        BY <2>1, <2>2, <2>3
<1>6. \A q, r \in Writer : q # r => Apart(hand[q], hand[r])'
    BY <1>5, Zenon DEF Apart, Open
<1>7. IamWalletStays'
    BY <1>1, Zenon DEF FollowInv, IamWalletStays
<1> QED
    BY <1>1, <1>4, <1>6, <1>7, Zenon DEF FollowInv

\* A hand without a transaction has no part in it.
LEMMA FollowNoTx ==
    ASSUME OwnInv, FollowInv, NEW p \in Writer, NEW h, ~Open(h), hand' = [hand EXCEPT ![p] = h],
           UNCHANGED dbVars
    PROVE  FollowInv'
<1>1. TxFollows(h) /\ \A q \in Writer \ {p} : Apart(h, hand[q]) /\ Apart(hand[q], h)
    BY Zenon DEF TxFollows, Apart
<1> QED
    BY <1>1, FollowHand, Zenon

\* A transaction begins: it waits for one that has written the same user's row.
LEMMA FollowTx ==
    ASSUME OwnInv, FollowInv, NEW p \in Writer, NEW u \in User, NEW w \in Opt(Wallet), NEW tx,
           tx = update_wallet_by_user(u, w) \/ tx = clear_wallet_if_matches(u, w),
           TxBegin(p, tx), UNCHANGED dbVars
    PROVE  FollowInv'
<1>1. tx.stage = "first" /\ tx.user = u
    BY DEF update_wallet_by_user, clear_wallet_if_matches
<1>2. TxFollows(tx)
    <2>1. CASE tx = update_wallet_by_user(u, w)
        <3>1. tx.edge /\ tx.only = None
            BY <2>1, ZenonT(60) DEF update_wallet_by_user
        <3> QED
            BY <1>1, <3>1 DEF TxFollows
    <2>2. CASE tx = clear_wallet_if_matches(u, w)
        <3>1. tx.wallet = None /\ tx.edge = (edge[u] = <<w>>) /\ tx.only = <<w>>
            BY <2>2, ZenonT(60) DEF clear_wallet_if_matches
        <3>2. <<w>> # None
            BY OwnerAssumption DEF Opt
        <3> QED
            BY <1>1, <3>1, <3>2 DEF TxFollows
    <2> QED
        BY <2>1, <2>2, ZenonT(60)
<1>3. ASSUME NEW q \in Writer \ {p} PROVE Apart(tx, hand[q]) /\ Apart(hand[q], tx)
    <2>1. tx.edge => ~EdgeLocked(tx.user)
        BY DEF TxBegin
    <2>2. Open(hand[q]) /\ hand[q].edge /\ hand[q].user = tx.user => EdgeLocked(tx.user)
        BY Zenon DEF EdgeLocked, Open
    <2> QED
        BY <2>1, <2>2, Zenon DEF Apart
<1>4. hand' = [hand EXCEPT ![p] = tx]
    BY DEF TxBegin
<1> QED
    BY <1>2, <1>3, <1>4, FollowHand, Zenon

\* The second statement of one that has written the user's row finds every row
\* that follows: it holds the wallet of the user's row.
LEMMA RowsFollow == ASSUME OwnInv, FollowInv, NEW p \in Writer, TxRows(p) PROVE FollowInv'
<1>1. PICK tx, h : tx = hand[p] /\ h = [tx EXCEPT !.stage = "second", !.rows = {s \in Serial : Matches(tx, s)}]
    BY ZenonT(60)
<1>2. hand' = [hand EXCEPT ![p] = h] /\ UNCHANGED dbVars /\ tx.stage = "first" /\ Open(tx)
    BY <1>1 DEF TxRows, Open
<1>3. TxFollows(tx) /\ \A q \in Writer \ {p} : Apart(tx, hand[q]) /\ Apart(hand[q], tx)
    BY <1>1, Zenon DEF FollowInv
<1> DEFINE Same == /\ h.stage = "second" /\ h.rows = {s \in Serial : Matches(tx, s)} /\ h.edge = tx.edge
                   /\ h.user = tx.user /\ h.only = tx.only /\ h.wallet = tx.wallet
<1>4. TxShaped(tx)
    BY <1>1, <1>2 DEF OwnInv, HandOK
<1>5. Same
    BY <1>1, <1>4 DEF TxShaped
<1>6. Open(h)
    BY <1>5 DEF Open
<1>7. ASSUME tx.edge, NEW s \in follows, row[s].user = tx.user PROVE Matches(tx, s)
    <2>1. row[s] # None /\ edge[tx.user] = <<row[s].wallet>>
        BY <1>7, Zenon DEF FollowInv, IamWalletStays
    <2>2. tx.only = None \/ tx.only = <<row[s].wallet>>
        BY <1>2, <1>3, <1>7, <2>1, Zenon DEF TxFollows
    <2> QED
        BY <1>7, <2>1, <2>2, Zenon DEF Matches
<1>8. TxFollows(h)
    <2>1. \A s \in follows : s \in Serial
        BY DEF FollowInv
    <2> QED
        BY <1>2, <1>3, <1>5, <1>6, <1>7, <2>1, ZenonT(60) DEF TxFollows
<1>9. \A q \in Writer \ {p} : Apart(h, hand[q]) /\ Apart(hand[q], h)
    BY <1>2, <1>3, <1>5, ZenonT(60) DEF Apart
<1> QED
    BY <1>2, <1>8, <1>9, FollowHand, Zenon

LEMMA FollowFrame ==
    ASSUME FollowInv, UNCHANGED <<row, edge, follows, hand>> PROVE FollowInv'
BY Zenon DEF FollowInv, IamWalletStays, TxFollows, Apart, Open

\* An upsert: a row that follows keeps its owner, and the wallet it has.
LEMMA UpsertFollows == ASSUME OwnInv, FollowInv, NEW p \in Writer, UpsertApply(p) PROVE FollowInv'
<1>1. PICK s, u, x : s = hand[p].serial /\ u = hand[p].user /\ x = hand[p].excluded
    BY ZenonT(30)
<1>2. s \in Serial /\ u \in User
    BY <1>1 DEF UpsertApply, OwnInv, HandOK
<1>3. PICK r : r = upsert_by_serial(row[s], u, x)
    BY ZenonT(60)
<1>4. /\ row' = [row EXCEPT ![s] = r] /\ hand' = [hand EXCEPT ![p] = Idle] /\ edge' = edge
      /\ follows' = IF row[s] # None /\ row[s].user = u THEN follows ELSE follows \ {s}
    BY <1>1, <1>3 DEF UpsertApply
<1>5. r # None /\ r.user = u /\ (row[s] # None /\ row[s].user = u /\ row[s].wallet # None => r.wallet = row[s].wallet)
    <2>1. r.user = u /\ (row[s] # None /\ row[s].user = u /\ row[s].wallet # None => r.wallet = row[s].wallet)
        BY <1>3, ZenonT(60) DEF upsert_by_serial, COALESCE
    <2>2. x \in Opt(Wallet) /\ (row[s] # None => row[s].wallet \in Opt(Wallet))
        BY <1>1, <1>2, ZenonT(60) DEF UpsertApply, OwnInv, HandOK, Owns, Opt, RowOK, Row
    <2>3. r \in Row
        BY <1>2, <1>3, <2>2, ZenonT(60) DEF upsert_by_serial, COALESCE, Row
    <2> QED
        BY <2>1, <2>3, OwnerAssumption DEF Row, Opt
<1>6. ASSUME NEW y \in follows'
      PROVE /\ y \in follows /\ y \in Serial /\ row'[y] # None /\ row'[y].user = row[y].user
            /\ row'[y].wallet = row[y].wallet
    <2>1. y \in follows /\ y \in Serial /\ row[y] # None /\ row[y].wallet # None
        BY <1>4, ZenonT(60) DEF FollowInv, IamWalletStays
    <2>2. CASE y = s
        BY <1>4, <1>5, <2>1, <2>2, ZenonT(60) DEF OwnInv, RowOK
    <2>3. CASE y # s
        BY <1>4, <2>1, <2>3, ZenonT(60) DEF OwnInv, RowOK
    <2> QED
        BY <2>2, <2>3, ZenonT(60)
<1>7. hand'[p] = Idle /\ \A q \in Writer \ {p} : hand'[q] = hand[q]
    BY <1>4, ZenonT(60) DEF OwnInv
<1>8. IamWalletStays'
    BY <1>4, <1>6, ZenonT(60) DEF FollowInv, IamWalletStays
<1>9. ~Open(Idle)
    BY DEF Open, Idle
<1>10. ASSUME NEW q \in Writer PROVE TxFollows(hand[q])'
    <2>1. CASE q = p
        BY <1>7, <1>9, <2>1, ZenonT(60) DEF TxFollows, Open
    <2>2. CASE q # p
        <3>1. TxFollows(hand[q])
            BY ZenonT(60) DEF FollowInv
        <3>2. hand'[q] = hand[q] /\ edge' = edge
            BY <1>4, <1>7, <2>2, ZenonT(60)
        <3>3. ASSUME Open(hand[q]), hand[q].edge, hand[q].stage = "second", NEW y \in follows',
                     row'[y].user = hand[q].user
              PROVE  y \in hand[q].rows
            BY <1>6, <3>1, <3>3, ZenonT(60) DEF TxFollows
        <3> QED
            BY <3>1, <3>2, <3>3, ZenonT(60) DEF TxFollows, Open
    <2> QED
        BY <2>1, <2>2
<1>11. ASSUME NEW q \in Writer, NEW t \in Writer, q # t PROVE Apart(hand[q], hand[t])'
    BY <1>7, <1>9, <1>11, ZenonT(60) DEF FollowInv, Apart, Open
<1> QED
    BY <1>6, <1>8, <1>10, <1>11, ZenonT(60) DEF FollowInv

\* A commit.  If it has written the user's row, the rows that follow change with
\* it; if not, it can only take rows out of those that follow.
LEMMA CommitFollows == ASSUME OwnInv, FollowInv, NEW p \in Writer, TxCommit(p) PROVE FollowInv'
<1>1. PICK tx : tx = hand[p]
    OBVIOUS
<1>2. tx.stage = "second" /\ Open(tx) /\ tx.user \in User /\ Owns(tx.user, tx.wallet) /\ TxFollows(tx)
      /\ tx.rows \subseteq Serial
    BY <1>1 DEF TxCommit, OwnInv, HandOK, FollowInv, Open
<1> DEFINE hit == {s \in tx.rows : Matches(tx, s)}
<1>3. /\ row' = [s \in Serial |-> IF s \in hit THEN [row[s] EXCEPT !.wallet = tx.wallet] ELSE row[s]]
      /\ edge' = [edge EXCEPT ![tx.user] = IF tx.edge THEN <<tx.wallet>> ELSE @]
      /\ follows' = IF tx.wallet # None THEN follows \cup hit ELSE follows \ hit
      /\ hand' = [hand EXCEPT ![p] = Idle]
    BY <1>1 DEF TxCommit
<1>4. ASSUME NEW s \in Serial
      PROVE /\ s \notin hit => row'[s] = row[s]
            /\ s \in hit => /\ row[s].user = tx.user /\ row'[s].user = tx.user /\ row'[s].wallet = tx.wallet
                             /\ row'[s] # None
    <2>1. s \in hit => row[s] \in Row /\ row[s].user = tx.user
        BY DEF Matches, OwnInv, RowOK
    <2>2. s \in hit => row'[s] = [row[s] EXCEPT !.wallet = tx.wallet]
        BY <1>3, ZenonT(60)
    <2>3. s \in hit => row'[s].user = tx.user /\ row'[s].wallet = tx.wallet /\ row'[s] \in Row
        BY <1>2, <2>1, <2>2 DEF Row, Opt, Owns
    <2>4. None \notin Row
        BY OwnerAssumption DEF Row, Opt
    <2> QED
        BY <1>3, <2>1, <2>3, <2>4, ZenonT(60)
<1>5. \A u \in User : edge'[u] = IF u = tx.user /\ tx.edge THEN <<tx.wallet>> ELSE edge[u]
    BY <1>2, <1>3, ZenonT(60) DEF OwnInv, EdgeOK
<1>6. ASSUME tx.edge, NEW s \in follows, row[s].user = tx.user PROVE s \in hit
    <2>1. s \in tx.rows
        BY <1>2, <1>6, Zenon DEF TxFollows
    <2>2. row[s] # None /\ edge[tx.user] = <<row[s].wallet>>
        BY <1>6, Zenon DEF FollowInv, IamWalletStays
    <2>3. tx.only = None \/ tx.only = <<row[s].wallet>>
        BY <1>2, <1>6, <2>2, Zenon DEF TxFollows
    <2> QED
        BY <1>6, <2>1, <2>2, <2>3, Zenon DEF Matches
<1>7. (tx.wallet # None => tx.edge) /\ hit \subseteq Serial
    BY <1>2, ZenonT(60) DEF TxFollows
<1> HIDE DEF hit
<1>8. ASSUME NEW s \in follows'
      PROVE /\ s \in Serial /\ row'[s].user = row[s].user
            /\ \/ s \in follows /\ s \notin hit
               \/ s \in hit /\ tx.wallet # None /\ tx.edge
    <2>1. \/ s \in follows /\ s \notin hit
          \/ s \in hit /\ s \in Serial /\ tx.wallet # None /\ tx.edge
        BY <1>3, <1>7, ZenonT(60) DEF FollowInv
    <2>2. s \in Serial
        BY <2>1, ZenonT(60) DEF FollowInv
    <2> QED
        BY <1>4, <2>1, <2>2, ZenonT(60)
<1>9. ASSUME NEW s \in follows'
      PROVE row'[s] # None /\ row'[s].wallet # None /\ edge'[row'[s].user] = <<row'[s].wallet>>
    <2>1. CASE s \in follows /\ s \notin hit
        <3>1. row'[s] = row[s] /\ row[s] # None /\ row[s].wallet # None /\ edge[row[s].user] = <<row[s].wallet>>
            BY <1>4, <1>8, <2>1, ZenonT(60) DEF FollowInv, IamWalletStays
        <3>2. row[s].user \in User
            BY <1>8, <3>1, ZenonT(60) DEF OwnInv, RowOK, Row
        <3>3. ~(row[s].user = tx.user /\ tx.edge)
            BY <1>6, <2>1, ZenonT(60)
        <3> QED
            BY <1>5, <3>1, <3>2, <3>3, ZenonT(60)
    <2>2. CASE s \in hit /\ tx.wallet # None /\ tx.edge
        BY <1>2, <1>4, <1>5, <1>8, <2>2, ZenonT(60)
    <2> QED
        BY <1>8, <2>1, <2>2, ZenonT(60)
<1>10. hand'[p] = Idle /\ \A q \in Writer \ {p} : hand'[q] = hand[q]
    BY <1>3, ZenonT(60) DEF OwnInv
<1>11. ~Open(Idle)
    BY DEF Open, Idle
<1>12. ASSUME NEW q \in Writer PROVE TxFollows(hand[q])'
    <2>1. CASE q = p
        BY <1>10, <1>11, <2>1, ZenonT(60) DEF TxFollows, Open
    <2>2. CASE q # p
        <3>1. PICK h : h = hand[q] /\ h = hand'[q] /\ TxFollows(h) /\ Apart(h, tx) /\ HandOK(q, h)
            BY <1>1, <1>10, <2>2, ZenonT(60) DEF FollowInv, OwnInv
        <3> SUFFICES ASSUME Open(h), h.edge
                     PROVE  /\ h.only # None => edge'[h.user] = h.only
                            /\ h.stage = "second" => \A s \in follows' : row'[s].user = h.user => s \in h.rows
            BY <3>1, ZenonT(60) DEF TxFollows, Open
        <3>2. ~(tx.edge /\ h.user = tx.user) /\ h.user \in User
            BY <1>2, <3>1, ZenonT(60) DEF Apart, HandOK
        <3>3. edge'[h.user] = edge[h.user]
            BY <1>5, <3>2, ZenonT(60)
        <3>4. ASSUME NEW s \in follows', row'[s].user = h.user PROVE s \in follows /\ row[s].user = h.user
            BY <1>4, <1>8, <3>2, <3>4, ZenonT(60)
        <3> QED
            BY <3>1, <3>3, <3>4, ZenonT(60) DEF TxFollows
    <2> QED
        BY <2>1, <2>2
<1>13. ASSUME NEW q \in Writer, NEW t \in Writer, q # t PROVE Apart(hand[q], hand[t])'
    BY <1>10, <1>11, <1>13, ZenonT(60) DEF FollowInv, Apart, Open
<1> QED
    BY <1>8, <1>9, <1>12, <1>13, ZenonT(60) DEF FollowInv, IamWalletStays

\* A restart rolls the transactions back; the seeds add rows and users, and
\* replace none.
LEMMA RestartFollows == ASSUME OwnInv, FollowInv, Restart PROVE FollowInv'
<1>1. follows' = follows /\ \A q \in Writer : hand'[q] = Idle
    BY ZenonT(60) DEF Restart
<1>2. \A s \in follows : s \in Serial /\ row[s] # None /\ row[s].wallet # None /\ edge[row[s].user] = <<row[s].wallet>>
    BY ZenonT(60) DEF FollowInv, IamWalletStays
<1>3. \A s \in follows : row'[s] = row[s]
    BY <1>2, ZenonT(60) DEF Restart, Seeded
<1>4. \A u \in User : edge[u] # None => edge'[u] = edge[u]
    BY ZenonT(60) DEF Restart, EdgeSeeds
<1>5. ASSUME NEW s \in follows PROVE edge'[row[s].user] = edge[row[s].user]
    <2>1. row[s] \in Row
        BY <1>2, ZenonT(60) DEF OwnInv, RowOK
    <2>2. row[s].user \in User /\ row[s].wallet \in Opt(Wallet)
        BY <2>1 DEF Row
    <2>3. <<row[s].wallet>> # None
        BY <2>2, OwnerAssumption DEF Opt
    <2> QED
        BY <1>2, <1>4, <2>2, <2>3, ZenonT(60)
<1>6. IamWalletStays' /\ follows' \subseteq Serial
    BY <1>1, <1>2, <1>3, <1>5, ZenonT(60) DEF IamWalletStays
<1>7. ~Open(Idle)
    BY DEF Idle, Open
<1>8. \A q \in Writer : TxFollows(hand[q])'
    BY <1>1, <1>7, ZenonT(60) DEF TxFollows, Open
<1>9. \A q, t \in Writer : q # t => Apart(hand[q], hand[t])'
    BY <1>1, <1>7, ZenonT(60) DEF Apart, Open
<1> QED
    BY <1>6, <1>8, <1>9, Zenon DEF FollowInv

LEMMA FollowStep == OwnInv /\ FollowInv /\ [OrmNext]_ormVars => FollowInv'
<1> SUFFICES ASSUME OwnInv, FollowInv, [OrmNext]_ormVars PROVE FollowInv'
    OBVIOUS
<1>1. CASE Producers
    <2>1. UNCHANGED <<row, edge, follows, hand>>
        BY <1>1, ZenonT(60) DEF Producers, Register, LinkPrimary, LinkOther, Unlink, Published, dbVars
    <2> QED
        BY <2>1, FollowFrame, SMTT(60)
<1>2. ASSUME NEW t \in Topic, Feed(t) PROVE FollowInv'
    <2>1. PICK c : c = Consumer(t) /\ c \in Writer /\ c # "repair"
        BY ConsumerIsWriter
    <2>2. CASE Recv(t)
        <3>1. PICK h : hand' = [hand EXCEPT ![c] = h] /\ ~Open(h) /\ UNCHANGED dbVars
            <4>1. PICK e : e = topic[t][pos[t] + 1]
                OBVIOUS
            <4>2. PICK h : h = IF Skipped(e) THEN Idle ELSE [stage |-> "got", event |-> e]
                BY ZenonT(60)
            <4>3. hand' = [hand EXCEPT ![c] = h] /\ UNCHANGED dbVars
                BY <2>1, <2>2, <4>1, <4>2, ZenonT(60) DEF Recv
            <4>4. ~Open(h)
                BY <4>2 DEF Idle, Open
            <4> QED
                BY <4>3, <4>4, ZenonT(60)
        <3> QED
            BY <2>1, <3>1, FollowNoTx, Zenon
    <2>3. CASE DispatchStep(t)
        <3>1. PICK e : e = hand[c].event
            BY SMTT(60)
        <3>2. Carries(c, e) /\ Dispatch(c, e) /\ UNCHANGED dbVars
            BY <2>1, <2>3, <3>1, ZenonT(60) DEF DispatchStep, OwnInv, HandOK
        <3>3. CASE UpsertBegin(c, e)
            <4>1. PICK h : ~Open(h) /\ hand' = [hand EXCEPT ![c] = h]
                <5> DEFINE h == [stage |-> "upsert", serial |-> e.serial, user |-> e.user,
                                 excluded |-> COALESCE(e.wallet, WalletOf(e.user))]
                <5>1. ~Open(h)
                    BY DEF Open
                <5>2. hand' = [hand EXCEPT ![c] = h]
                    BY <3>3 DEF UpsertBegin
                <5> QED
                    BY <5>1, <5>2, ZenonT(30)
            <4> QED
                BY <2>1, <3>2, <4>1, FollowNoTx, Zenon
        <3>4. CASE TxBegin(c, update_wallet_by_user(e.user, e.wallet))
            BY <2>1, <3>2, <3>4, FollowTx, ZenonT(30) DEF Carries, Owns, Opt
        <3>5. CASE TxBegin(c, clear_wallet_if_matches(e.user, e.wallet))
            BY <2>1, <3>2, <3>5, FollowTx, ZenonT(30) DEF Carries, Owns, Opt
        <3> QED
            BY <3>2, <3>3, <3>4, <3>5, Zenon DEF Dispatch
    <2>4. CASE Rebuilt(t)
        BY <2>4, FollowFrame, Zenon DEF Rebuilt, dbVars
    <2> QED
        BY <1>2, <2>2, <2>3, <2>4, Zenon DEF Feed
<1>3. ASSUME NEW p \in Writer, Write(p) PROVE FollowInv'
    <2>1. CASE WriteErr(p)
        <3>1. hand' = [hand EXCEPT ![p] = Idle] /\ UNCHANGED dbVars /\ ~Open(Idle)
            BY <2>1 DEF WriteErr, Idle, Open
        <3> QED
            BY <3>1, FollowNoTx, Zenon
    <2> QED
        BY <1>3, <2>1, UpsertFollows, RowsFollow, CommitFollows, Zenon DEF Write
<1>4. ASSUME NEW u \in User, RepairResolve(u) PROVE FollowInv'
    <2>1. CASE UNCHANGED hand
        BY <1>4, <2>1, FollowFrame, Zenon DEF RepairResolve, dbVars
    <2>2. CASE hand' = [hand EXCEPT !["repair"] = [stage |-> "got", event |-> [user |-> u, wallet |-> primary[u]]]]
        <3>1. PICK h : h = [stage |-> "got", event |-> [user |-> u, wallet |-> primary[u]]]
            BY ZenonT(60)
        <3>2. ~Open(h) /\ "repair" \in Writer /\ UNCHANGED dbVars
            BY <1>4, <3>1 DEF RepairResolve, Writer, Open
        <3> QED
            BY <2>2, <3>1, <3>2, FollowNoTx, Zenon
    <2> QED
        BY <1>4, <2>1, <2>2, Zenon DEF RepairResolve
<1>5. CASE RepairWrite
    <2>1. PICK e : e = hand["repair"].event
        BY ZenonT(60)
    <2>2. "repair" \in Writer /\ Carries("repair", e)
        BY <1>5, <2>1 DEF RepairWrite, Writer, OwnInv, HandOK
    <2>3. TxBegin("repair", update_wallet_by_user(e.user, e.wallet)) /\ UNCHANGED dbVars
        BY <1>5, <2>1, Zenon DEF RepairWrite
    <2> QED
        BY <2>2, <2>3, FollowTx, ZenonT(30) DEF Carries, Owns, Opt
<1>6. CASE UNCHANGED ormVars
    BY <1>6, FollowFrame, Zenon DEF ormVars, dbVars
<1> QED
    BY <1>1, <1>2, <1>3, <1>4, <1>5, <1>6, RestartFollows, Zenon DEF OrmNext, Running

\* Once a wallet update has reached a row, no redelivered meter event, transaction
\* that writes between two statements of another, failed write, seed, repair or
\* restart sets the row and the user table apart, until the meter changes hands or
\* an unlink reaches the row, for any number of users, serials, wallets and events.
THEOREM IamWalletsStay == Spec => []IamWalletStays
<1>1. Init => OwnInv /\ FollowInv
    BY OwnInit, FollowInit DEF Init
<1>2. OwnInv /\ FollowInv /\ [Next]_vars => (OwnInv /\ FollowInv)'
    BY OwnStep, FollowStep, NextIsOrmStep, Zenon
<1>3. FollowInv => IamWalletStays
    BY DEF FollowInv
<1> QED
    BY <1>1, <1>2, <1>3, PTL DEF Spec
=============================================================================
