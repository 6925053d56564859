----------------------------- MODULE VenProofs ------------------------------
(***************************************************************************)
(* The VEN listener executes an interval once and notices a cancellation,  *)
(* for any events, versions, numbers of changes and crashes, and any       *)
(* length of the clock.                                                    *)
(***************************************************************************)
EXTENDS OpenLeadrVen, WellFoundedInduction, TLAPS

\* A set of naturals with an element has a least one.
LEMMA LeastExists ==
    ASSUME NEW S, S \subseteq Nat, S # {}
    PROVE  Min(S) \in S
<1> DEFINE R == {ss \in Nat \X Nat : ss[1] < ss[2]}
<1>1. R = OpToRel(<, Nat)
    BY Zenon DEF OpToRel
<1>2. IsWellFoundedOn(R, Nat)
    BY <1>1, NatLessThanWellFounded, Zenon
<1>3. PICK x \in S : \A y \in S : <<y, x>> \notin R
    BY <1>2, WFMin, ZenonT(60)
<1>4. ASSUME NEW y \in S PROVE x <= y
    <2>1. x \in Nat /\ y \in Nat /\ <<y, x>> \notin R
        BY <1>3
    <2>2. ~(y < x)
        BY <2>1
    <2> QED
        BY <2>1, <2>2
<1> QED
    BY <1>4, Zenon DEF Min

\* An interval that decide has executed is one this version still owes.
LEMMA DecideExecutes ==
    ASSUME NEW c \in Content, NEW now, NEW executed, decide(c, now, executed).kind = "Execute"
    PROVE  LET d == decide(c, now, executed)
           IN d.interval \in Nat \ {0} /\ d.interval \notin executed /\ d.more_pending \in BOOLEAN
<1>1. PICK open : open = active_unexecuted(c, now, executed)
    OBVIOUS
<1>2. PICK future \in BOOLEAN : future = \E i \in find_setpoints(c) : Future(c, c.intervals[i], now)
    BY ZenonT(60)
<1>3. c.intervals \in Seq(Interval)
    BY VenAssumption DEF ContentType
<1>4. open \subseteq DOMAIN c.intervals /\ open \subseteq Nat /\ \A i \in open : c.intervals[i].id \notin executed
    BY <1>1, <1>3 DEF active_unexecuted, find_setpoints
<1>5. find_setpoints(c) # {} /\ open # {}
    <2>1. CASE find_setpoints(c) = {}
        <3>1. open = {}
            BY <1>1, <2>1 DEF active_unexecuted
        <3>2. decide(c, now, executed) = [kind |-> "NotDispatch"]
            BY <1>1, <2>1, <3>1 DEF decide
        <3> QED
            BY <3>2
    <2>2. CASE find_setpoints(c) # {} /\ open = {}
        <3>1. decide(c, now, executed) = [kind |-> "NotYetActive"] \/ decide(c, now, executed) = [kind |-> "Expired"]
            BY <1>1, <2>2 DEF decide
        <3> QED
            BY <3>1
    <2> QED
        BY <2>1, <2>2
<1>6. decide(c, now, executed) = [kind |-> "Execute", interval |-> c.intervals[Min(open)].id,
                                  more_pending |-> future \/ Cardinality(open) > 1]
    BY <1>1, <1>2, <1>5 DEF decide
<1>7. Min(open) \in open
    BY <1>4, <1>5, LeastExists
<1>8. c.intervals[Min(open)] \in Interval /\ c.intervals[Min(open)].id \notin executed
    BY <1>3, <1>4, <1>7
<1> QED
    BY <1>6, <1>8 DEF Interval

\* A map from dedup keys that no version in sight is older than.
Dated(m) ==
    \A k \in DOMAIN m :
        /\ k \in Event \X Nat /\ m[k] \in Time /\ m[k] <= clock
        /\ vtn[k[1]] # Nil => m[k] <= vtn[k[1]].modified
        /\ poll # Nil /\ k[1] \in DOMAIN poll.listed => m[k] <= poll.listed[k[1]].modified

\* The map has an entry for this execution: of the interval, or of the event.
Recalls(m, t) == \E k \in DOMAIN m : k \in {<<t[1], t[3]>>, <<t[1], Whole>>} /\ m[k] >= t[2]

PollInv ==
    poll # Nil =>
        /\ poll \in Cycle /\ poll.now <= clock /\ poll.todo \subseteq DOMAIN poll.listed
        /\ \A e \in DOMAIN poll.listed :
              poll.listed[e].modified <= clock /\ (vtn[e] # Nil => poll.listed[e].modified <= vtn[e].modified)
        /\ poll.cur # Nil => /\ poll.cur.event \in DOMAIN poll.listed \ poll.todo
                             /\ <<poll.cur.event, poll.listed[poll.cur.event].modified, poll.cur.interval>> \in ever

VenShape ==
    /\ clock \in Time /\ vtn \in [Event -> Version \cup {Nil}]
    /\ \A e \in Event : vtn[e] # Nil => vtn[e].modified <= clock
    /\ DOMAIN executed_active \subseteq Event
    /\ acked \cup durable \cup lapsed \subseteq ever /\ ever \subseteq Triple

\* What the map in memory and the one in Redis know: the one in memory is never
\* behind, every confirmed execution that has not lapsed has an entry, and before the
\* first poll of a process there is nothing.
SeenInv ==
    /\ Dated(seen) /\ Dated(stored)
    /\ \A k \in DOMAIN seen \cap DOMAIN stored : stored[k] <= seen[k]
    /\ ~seen_loaded => DOMAIN seen = {} /\ poll = Nil
    /\ \A t \in acked \ lapsed : Recalls(seen, t)
    /\ \A t \in durable \ lapsed : Recalls(stored, t)

VenInv == VenShape /\ PollInv /\ SeenInv

LEMMA VenStarts == VenInit => VenInv
<1> SUFFICES ASSUME VenInit PROVE VenInv
    OBVIOUS
<1>1. 0 \in Time /\ MaxTime \in Nat
    BY VenAssumption DEF Time
<1>2. VenShape
    BY <1>1 DEF VenInit, VenShape, Version
<1>3. PollInv /\ SeenInv
    BY DEF VenInit, PollInv, SeenInv, Dated
<1> QED
    BY <1>2, <1>3 DEF VenInv

\* An entry is replaced by a newer one: what the map recalled it still recalls.
LEMMA InsertRecalls ==
    ASSUME NEW m, NEW key, NEW v \in Time, NEW t \in Triple, Recalls(m, t),
           \A k \in DOMAIN m : m[k] \in Time, key \in DOMAIN m => m[key] <= v
    PROVE  Recalls(Insert(m, key, v), t)
<1>1. PICK k \in DOMAIN m : k \in {<<t[1], t[3]>>, <<t[1], Whole>>} /\ m[k] >= t[2]
    BY DEF Recalls
<1>2. k \in DOMAIN Insert(m, key, v) /\ Insert(m, key, v)[k] = IF k = key THEN v ELSE m[k]
    BY DEF Insert
<1>3. Insert(m, key, v)[k] >= t[2]
    <2>1. m[k] \in Int /\ v \in Int /\ t[2] \in Int
        BY VenAssumption DEF Time, Triple
    <2> QED
        BY <1>1, <1>2, <2>1
<1> QED
    BY <1>1, <1>2, <1>3, Zenon DEF Recalls

\* A listed version is marked: the entry is at least as new as the one before, in
\* memory and in Redis.
LEMMA MarkOK ==
    ASSUME VenInv, poll # Nil, NEW e \in DOMAIN poll.listed, NEW n \in Nat,
           mark_seen(<<e, n>>, poll.listed[e].modified),
           UNCHANGED <<clock, vtn, seen_loaded>>, poll' # Nil => poll'.listed = poll.listed
    PROVE  /\ Dated(seen)' /\ Dated(stored)' /\ seen_loaded'
           /\ \A k \in DOMAIN seen' \cap DOMAIN stored' : stored'[k] <= seen'[k]
           /\ \A t \in Triple : Recalls(seen, t) => Recalls(seen', t)
           /\ \A t \in Triple : Recalls(stored, t) => Recalls(stored', t)
<1>1. PICK mod, key : mod = poll.listed[e].modified /\ key = <<e, n>>
    BY Zenon
<1>2. /\ e \in Event /\ mod \in Time /\ mod <= clock /\ (vtn[e] # Nil => mod <= vtn[e].modified)
      /\ key \in Event \X Nat /\ key[1] = e
    BY <1>1 DEF VenInv, PollInv, Cycle, Version
<1>3. seen' = Insert(seen, key, mod) /\ (stored' = stored \/ stored' = Insert(stored, key, mod))
    BY <1>1 DEF mark_seen
<1>4. ASSUME NEW m, Dated(m) PROVE Dated(Insert(m, key, mod)) /\ (key \in DOMAIN m => m[key] <= mod)
    <2>1. DOMAIN Insert(m, key, mod) = DOMAIN m \cup {key}
          /\ \A k \in DOMAIN m \cup {key} : Insert(m, key, mod)[k] = IF k = key THEN mod ELSE m[k]
        BY DEF Insert
    <2>2. key \in DOMAIN m => m[key] <= mod
        BY <1>1, <1>2, <1>4, Zenon DEF Dated
    <2>3. poll # Nil /\ e \in DOMAIN poll.listed => mod <= poll.listed[e].modified
        <3>1. mod \in Int
            BY <1>2, VenAssumption DEF Time
        <3> QED
            BY <1>1, <3>1
    <2>4. ASSUME NEW k \in DOMAIN m \cup {key}
          PROVE LET x == Insert(m, key, mod)[k]
                IN /\ k \in Event \X Nat /\ x \in Time /\ x <= clock
                   /\ vtn[k[1]] # Nil => x <= vtn[k[1]].modified
                   /\ poll # Nil /\ k[1] \in DOMAIN poll.listed => x <= poll.listed[k[1]].modified
        <3>1. CASE k = key
            BY <1>2, <2>1, <2>3, <3>1, Zenon
        <3>2. CASE k # key
            BY <1>4, <2>1, <2>4, <3>2, Zenon DEF Dated
        <3> QED
            BY <3>1, <3>2, Zenon
    <2> QED
        BY <2>1, <2>2, <2>4, Zenon DEF Dated
<1>5. Dated(seen) /\ Dated(stored)
    BY DEF VenInv, SeenInv
<1>6. Dated(seen') /\ Dated(stored')
    BY <1>3, <1>4, <1>5, Zenon
<1>7. Dated(seen)' /\ Dated(stored)'
    BY <1>6, Zenon DEF Dated
<1>8. seen_loaded'
    BY DEF VenInv, SeenInv
<1>9. ASSUME NEW k \in DOMAIN seen' \cap DOMAIN stored' PROVE stored'[k] <= seen'[k]
    <2>1. seen'[k] = IF k = key THEN mod ELSE seen[k]
        BY <1>3, <1>9 DEF Insert
    <2>2. k # key => k \in DOMAIN seen /\ k \in DOMAIN stored /\ stored'[k] = stored[k]
        BY <1>3, <1>9 DEF Insert
    <2>3. k = key => stored'[k] <= mod
        <3>1. mod \in Int
            BY <1>2, VenAssumption DEF Time
        <3> QED
            BY <1>3, <1>4, <1>5, <1>9, <3>1, ZenonT(60) DEF Insert
    <2> QED
        BY <2>1, <2>2, <2>3 DEF VenInv, SeenInv
<1>10. ASSUME NEW m, Dated(m), NEW t \in Triple, Recalls(m, t) PROVE Recalls(Insert(m, key, mod), t)
    BY <1>2, <1>4, <1>10, InsertRecalls, Zenon DEF Dated
<1> QED
    BY <1>3, <1>5, <1>7, <1>8, <1>9, <1>10, Zenon

\* The poll goes on to the next event, or sets the one it executes.
LEMMA CycleMoves ==
    ASSUME poll \in Cycle, NEW ts \in SUBSET Event,
           NEW c \in Execution \cup {Nil},
           poll' = [poll EXCEPT !.todo = ts, !.cur = c]
    PROVE  poll' \in Cycle /\ poll'.now = poll.now /\ poll'.listed = poll.listed /\ poll'.todo = ts /\ poll'.cur = c
BY ZenonT(60) DEF Cycle

\* Neither the maps nor the VTN change.
LEMMA SeenFrame ==
    ASSUME SeenInv, UNCHANGED <<clock, vtn, seen, stored, seen_loaded, acked, durable, lapsed>>,
           poll' # Nil => poll # Nil /\ poll'.listed = poll.listed
    PROVE  SeenInv'
<1>1. Dated(seen)' /\ Dated(stored)'
    BY Zenon DEF SeenInv, Dated
<1>2. ~seen_loaded' => DOMAIN seen' = {} /\ poll' = Nil
    BY Zenon DEF SeenInv
<1> QED
    BY <1>1, <1>2, Zenon DEF SeenInv, Recalls

LEMMA ShapeFrame ==
    ASSUME VenShape, UNCHANGED <<clock, vtn, executed_active, acked, durable, lapsed, ever>>
    PROVE  VenShape'
BY Zenon DEF VenShape

LEMMA BeginOK ==
    ASSUME VenInv, NEW loads, NEW hidden, PollBegin(loads, hidden) PROVE VenInv'
<1>1. PICK loaded : loaded = IF ~seen_loaded /\ loads THEN stored ELSE << >>
    OBVIOUS
<1>2. /\ poll = Nil /\ seen_loaded' = TRUE
      /\ seen' = [k \in DOMAIN seen \cup DOMAIN loaded |-> IF k \in DOMAIN loaded THEN loaded[k] ELSE seen[k]]
      /\ acked' = IF ~seen_loaded /\ loads THEN acked \cup durable ELSE acked
      /\ UNCHANGED <<clock, vtn, executed_active, stored, durable, lapsed, ever>>
    BY <1>1 DEF PollBegin
<1>3. VenShape'
    BY <1>2 DEF VenInv, VenShape
<1>4. PICK es : es = Events \ hidden
    BY ZenonT(60)
<1>5. es \subseteq Event /\ \A e \in es : vtn[e] # Nil /\ vtn[e] \in Version /\ vtn[e].modified <= clock
    BY <1>4 DEF Events, VenInv, VenShape
<1>6. poll' # Nil => poll' = [now |-> clock, listed |-> [e \in es |-> vtn[e]], todo |-> es, cur |-> Nil]
    BY <1>4 DEF PollBegin
<1>7. [e \in es |-> vtn[e]] \in UNION {[x -> Version] : x \in SUBSET Event}
    <2>1. [e \in es |-> vtn[e]] \in [es -> Version]
        BY <1>5
    <2> QED
        BY <1>5, <2>1
<1>8. clock \in Time /\ clock \in Int
    BY VenAssumption DEF VenInv, VenShape, Time
<1>9. \A e \in es : vtn[e].modified \in Int
    BY <1>5, VenAssumption DEF Version, Time
<1>10. ASSUME poll' # Nil
       PROVE  /\ poll' \in Cycle /\ poll'.now = clock /\ poll'.todo = es /\ poll'.cur = Nil
              /\ DOMAIN poll'.listed = es /\ \A e \in es : poll'.listed[e] = vtn[e]
    BY <1>5, <1>6, <1>7, <1>8, <1>10 DEF Cycle
<1>11. PollInv'
    <2> SUFFICES ASSUME poll' # Nil PROVE PollInv'
        BY DEF PollInv
    <2>1. poll'.now <= clock' /\ poll'.todo \subseteq DOMAIN poll'.listed
        BY <1>2, <1>8, <1>10
    <2>2. ASSUME NEW e \in DOMAIN poll'.listed
          PROVE poll'.listed[e].modified <= clock' /\ (vtn'[e] # Nil => poll'.listed[e].modified <= vtn'[e].modified)
        BY <1>2, <1>5, <1>9, <1>10
    <2> QED
        BY <1>10, <2>1, <2>2, Zenon DEF PollInv
<1>12. ASSUME NEW m, m = seen \/ m = stored, NEW k \in DOMAIN m
       PROVE /\ k \in Event \X Nat /\ m[k] \in Time /\ m[k] <= clock
             /\ vtn[k[1]] # Nil => m[k] <= vtn[k[1]].modified
    BY <1>12, Zenon DEF VenInv, SeenInv, Dated
<1>13. ASSUME NEW m, m = seen \/ m = stored, NEW k \in DOMAIN m, poll' # Nil, k[1] \in DOMAIN poll'.listed
       PROVE m[k] <= poll'.listed[k[1]].modified
    BY <1>5, <1>10, <1>12, <1>13, Zenon
<1>14. DOMAIN loaded \subseteq DOMAIN stored /\ \A k \in DOMAIN loaded : loaded[k] = stored[k]
    BY <1>1
<1>15. ASSUME NEW k \in DOMAIN seen'
       PROVE (k \in DOMAIN stored /\ seen'[k] = stored[k]) \/ (k \in DOMAIN seen /\ seen'[k] = seen[k])
    BY <1>2, <1>14
<1>16. Dated(stored)'
    BY <1>2, <1>12, <1>13, Zenon DEF Dated
<1>17. Dated(seen)'
    <2> SUFFICES ASSUME NEW k \in DOMAIN seen'
                 PROVE /\ k \in Event \X Nat /\ seen'[k] \in Time /\ seen'[k] <= clock'
                       /\ vtn'[k[1]] # Nil => seen'[k] <= vtn'[k[1]].modified
                       /\ poll' # Nil /\ k[1] \in DOMAIN poll'.listed => seen'[k] <= poll'.listed[k[1]].modified
        BY Zenon DEF Dated
    <2>1. CASE k \in DOMAIN stored /\ seen'[k] = stored[k]
        BY <1>2, <1>12, <1>13, <2>1, Zenon
    <2>2. CASE k \in DOMAIN seen /\ seen'[k] = seen[k]
        BY <1>2, <1>12, <1>13, <2>2, Zenon
    <2> QED
        BY <1>15, <2>1, <2>2
<1>18. ASSUME NEW k \in DOMAIN seen' \cap DOMAIN stored' PROVE stored'[k] <= seen'[k]
    <2>1. stored[k] \in Int /\ k \in DOMAIN stored
        BY <1>2, <1>12, VenAssumption DEF Time
    <2>2. CASE seen'[k] = stored[k]
        BY <1>2, <2>1, <2>2
    <2>3. CASE k \in DOMAIN seen /\ seen'[k] = seen[k]
        BY <1>2, <2>1, <2>3 DEF VenInv, SeenInv
    <2> QED
        BY <1>15, <2>2, <2>3
<1>19. ASSUME NEW t \in acked' \ lapsed' PROVE Recalls(seen', t)
    <2>1. CASE t \in acked
        <3>1. PICK k \in DOMAIN seen : k \in {<<t[1], t[3]>>, <<t[1], Whole>>} /\ seen[k] >= t[2]
            BY <1>2, <2>1 DEF VenInv, SeenInv, Recalls
        <3>2. seen_loaded
            BY <3>1 DEF VenInv, SeenInv
        <3>3. DOMAIN loaded = {}
            BY <1>1, <3>2
        <3>4. k \in DOMAIN seen' /\ seen'[k] = seen[k]
            BY <1>2, <3>3
        <3> QED
            BY <3>1, <3>4, Zenon DEF Recalls
    <2>2. CASE t \notin acked
        <3>1. t \in durable /\ loaded = stored
            BY <1>1, <1>2, <2>2
        <3>2. PICK k \in DOMAIN stored : k \in {<<t[1], t[3]>>, <<t[1], Whole>>} /\ stored[k] >= t[2]
            BY <1>2, <3>1 DEF VenInv, SeenInv, Recalls
        <3>3. k \in DOMAIN seen' /\ seen'[k] = stored[k]
            BY <1>2, <3>1
        <3> QED
            BY <3>2, <3>3, Zenon DEF Recalls
    <2> QED
        BY <2>1, <2>2
<1>20. \A t \in durable' \ lapsed' : Recalls(stored', t)
    BY <1>2, Zenon DEF VenInv, SeenInv
<1>21. SeenInv'
    BY <1>2, <1>16, <1>17, <1>18, <1>19, <1>20, Zenon DEF SeenInv, Recalls
<1> QED
    BY <1>3, <1>11, <1>21 DEF VenInv

\* A step within a poll cycle.
LEMMA PollKept ==
    ASSUME VenInv, poll # Nil, UNCHANGED <<clock, vtn>>,
           poll' # Nil =>
               /\ poll' \in Cycle /\ poll'.now = poll.now /\ poll'.listed = poll.listed
               /\ poll'.todo \subseteq poll.todo
               /\ poll'.cur # Nil =>
                    /\ poll'.cur.event \in DOMAIN poll.listed \ poll'.todo
                    /\ <<poll'.cur.event, poll.listed[poll'.cur.event].modified, poll'.cur.interval>> \in ever'
    PROVE  PollInv'
<1> SUFFICES ASSUME poll' # Nil PROVE PollInv'
    BY DEF PollInv
<1>1. poll'.now <= clock' /\ poll'.todo \subseteq DOMAIN poll'.listed
    BY DEF VenInv, PollInv
<1>2. \A e \in DOMAIN poll'.listed :
        poll'.listed[e].modified <= clock' /\ (vtn'[e] # Nil => poll'.listed[e].modified <= vtn'[e].modified)
    BY Zenon DEF VenInv, PollInv
<1> QED
    BY <1>1, <1>2, Zenon DEF PollInv

LEMMA SkipOK == ASSUME VenInv, NEW e \in Event, PollSkip(e) \/ DispatchErr(e) PROVE VenInv'
<1>1. /\ poll # Nil /\ poll.cur = Nil /\ e \in poll.todo /\ poll' = [poll EXCEPT !.todo = @ \ {e}]
      /\ UNCHANGED <<clock, vtn, seen_loaded, executed_active, acked, durable, lapsed, ever>>
    BY DEF PollSkip, DispatchErr, known
<1>2. poll \in Cycle /\ e \in DOMAIN poll.listed
    BY <1>1 DEF VenInv, PollInv
<1>3. /\ poll' \in Cycle /\ poll'.now = poll.now /\ poll'.listed = poll.listed /\ poll'.cur = Nil
      /\ poll'.todo \subseteq poll.todo
    BY <1>1, <1>2 DEF Cycle
<1>4. PollInv'
    BY <1>1, <1>3, PollKept, Zenon
<1>5. VenShape'
    BY <1>1, ShapeFrame, Zenon DEF VenInv
<1>6. CASE mark_seen(<<e, Whole>>, poll.listed[e].modified)
    <2>1. Whole \in Nat
        BY DEF Whole
    <2>2. /\ Dated(seen)' /\ Dated(stored)' /\ seen_loaded'
          /\ \A k \in DOMAIN seen' \cap DOMAIN stored' : stored'[k] <= seen'[k]
          /\ \A t \in Triple : Recalls(seen, t) => Recalls(seen', t)
          /\ \A t \in Triple : Recalls(stored, t) => Recalls(stored', t)
        BY <1>1, <1>2, <1>3, <1>6, <2>1, MarkOK, ZenonT(60)
    <2>3. acked \subseteq Triple /\ durable \subseteq Triple
        BY DEF VenInv, VenShape
    <2>4. /\ \A t \in acked' \ lapsed' : Recalls(seen', t)
          /\ \A t \in durable' \ lapsed' : Recalls(stored', t)
        BY <1>1, <2>2, <2>3 DEF VenInv, SeenInv
    <2>5. SeenInv'
        BY <2>2, <2>4, Zenon DEF SeenInv, Recalls
    <2> QED
        BY <1>4, <1>5, <2>5 DEF VenInv
<1>7. CASE UNCHANGED <<seen, stored>>
    <2>1. SeenInv'
        BY <1>1, <1>3, <1>7, SeenFrame, Zenon DEF VenInv
    <2> QED
        BY <1>4, <1>5, <2>1 DEF VenInv
<1>8. mark_seen(<<e, Whole>>, poll.listed[e].modified) \/ UNCHANGED <<seen, stored>>
    BY Zenon DEF PollSkip, DispatchErr
<1> QED
    BY <1>6, <1>7, <1>8

\* What DispatchOk executes is owed: neither the event nor the interval has been
\* dealt with in this version.
LEMMA ExecutesOwed ==
    ASSUME VenInv, NEW e \in Event, DispatchOk(e)
    PROVE  /\ e \in DOMAIN poll.listed /\ poll.listed[e] \in Version
           /\ Verdict(e).interval \in Nat \ {0} /\ Verdict(e).more_pending \in BOOLEAN
           /\ ~Recalls(seen, <<e, poll.listed[e].modified, Verdict(e).interval>>)
<1>1. poll # Nil /\ e \in poll.todo /\ Verdict(e).kind = "Execute"
    BY DEF DispatchOk
<1>2. e \in DOMAIN poll.listed /\ poll.listed[e] \in Version
    BY <1>1 DEF VenInv, PollInv, Cycle
<1>3. PICK c, mod : c = poll.listed[e].content /\ mod = poll.listed[e].modified
    BY Zenon
<1>4. c \in Content
    BY <1>2, <1>3 DEF Version
<1>5. ~(<<e, Whole>> \in DOMAIN seen /\ seen[<<e, Whole>>] >= mod)
    <2> SUFFICES ASSUME <<e, Whole>> \in DOMAIN seen, seen[<<e, Whole>>] >= mod PROVE FALSE
        OBVIOUS
    <2>1. Verdict(e) = [kind |-> "Skip"]
        BY <1>3, Zenon DEF Verdict
    <2> QED
        BY <1>1, <2>1
<1>6. Verdict(e) = decide(c, poll.now, Executed(e, mod))
    BY <1>3, <1>5, Zenon DEF Verdict
<1>7. PICK d : d = Verdict(e)
    OBVIOUS
<1>8. d.interval \in Nat \ {0} /\ d.interval \notin Executed(e, mod) /\ d.more_pending \in BOOLEAN
    BY <1>1, <1>4, <1>6, <1>7, DecideExecutes
<1>9. ASSUME Recalls(seen, <<e, mod, d.interval>>) PROVE FALSE
    <2>1. PICK k \in DOMAIN seen : (k = <<e, d.interval>> \/ k = <<e, Whole>>) /\ seen[k] >= mod
        BY <1>9 DEF Recalls
    <2>2. CASE k = <<e, d.interval>>
        <3>1. k[1] = e /\ k[2] = d.interval /\ d.interval # Whole
            BY <1>8, <2>2 DEF Whole
        <3>2. d.interval \in Executed(e, mod)
            BY <2>1, <3>1, Zenon DEF Executed
        <3> QED
            BY <1>8, <3>2
    <2> QED
        BY <1>5, <2>1, <2>2
<1> QED
    BY <1>2, <1>3, <1>7, <1>8, <1>9, Zenon

LEMMA ExecuteOK == ASSUME VenInv, NEW e \in Event, DispatchOk(e) PROVE VenInv'
<1>1. PICK v : v = Verdict(e)
    OBVIOUS
<1>2. PICK c : c = [event |-> e, interval |-> v.interval, more_pending |-> v.more_pending]
    BY ZenonT(60)
<1>3. /\ poll # Nil /\ e \in poll.todo /\ poll' = [poll EXCEPT !.todo = @ \ {e}, !.cur = c]
      /\ ever' = ever \cup {<<e, poll.listed[e].modified, v.interval>>}
      /\ UNCHANGED <<clock, vtn, seen, stored, seen_loaded, executed_active, acked, durable, lapsed>>
    BY <1>1, <1>2 DEF DispatchOk, known
<1>4. e \in DOMAIN poll.listed /\ poll.listed[e] \in Version /\ v.interval \in Nat \ {0} /\ v.more_pending \in BOOLEAN
    BY <1>1, ExecutesOwed, Zenon
<1>5. poll \in Cycle /\ poll.todo \ {e} \in SUBSET Event
    BY <1>3 DEF VenInv, PollInv, Cycle
<1>6. c \in Execution /\ c.event = e /\ c.interval = v.interval
    BY <1>2, <1>4 DEF Execution
<1>7. /\ poll' \in Cycle /\ poll'.now = poll.now /\ poll'.listed = poll.listed
      /\ poll'.todo = poll.todo \ {e} /\ poll'.cur = c
    BY <1>3, <1>5, <1>6, CycleMoves, ZenonT(60)
<1>8. PollInv'
    <2>1. <<e, poll.listed[e].modified, v.interval>> \in ever' /\ e \in DOMAIN poll.listed \ poll'.todo
        BY <1>3, <1>4, <1>7
    <2>2. poll'.todo \subseteq poll.todo
        BY <1>7
    <2> QED
        BY <1>3, <1>6, <1>7, <2>1, <2>2, PollKept, Zenon
<1>9. VenShape'
    <2>1. <<e, poll.listed[e].modified, v.interval>> \in Triple
        BY <1>4 DEF Triple, Version
    <2> QED
        BY <1>3, <2>1 DEF VenInv, VenShape
<1>10. SeenInv'
    BY <1>3, <1>7, SeenFrame, Zenon DEF VenInv
<1> QED
    BY <1>8, <1>9, <1>10 DEF VenInv

LEMMA RememberOK == ASSUME VenInv, Remember PROVE VenInv'
<1>1. PICK c, e, mod, n, i : /\ c = poll.cur /\ e = c.event /\ i = c.interval /\ mod = poll.listed[e].modified
                             /\ n = IF c.more_pending THEN i ELSE Whole
    BY Zenon
<1>2. PICK key, triple : key = <<e, n>> /\ triple = <<e, mod, i>>
    BY Zenon
<1>3. /\ poll # Nil /\ poll.cur # Nil /\ poll' = [poll EXCEPT !.cur = Nil]
      /\ UNCHANGED <<clock, vtn, seen_loaded, ever>>
    BY DEF Remember
<1>4. /\ mark_seen(key, mod) /\ acked' = acked \cup {triple}
      /\ durable' = IF key \in DOMAIN stored' /\ stored'[key] = mod THEN durable \cup {triple}
                    ELSE durable \ (lapsed \cap {triple})
      /\ lapsed' = lapsed \ {triple}
    BY <1>1, <1>2, Zenon DEF Remember
<1>5. poll \in Cycle /\ e \in DOMAIN poll.listed /\ triple \in ever
    BY <1>1, <1>2, <1>3, Zenon DEF VenInv, PollInv
<1>6. /\ poll' \in Cycle /\ poll'.now = poll.now /\ poll'.listed = poll.listed /\ poll'.cur = Nil
      /\ poll'.todo \subseteq poll.todo
    BY <1>3, <1>5 DEF Cycle
<1>7. PollInv'
    BY <1>3, <1>6, PollKept, Zenon
<1>8. e \in Event /\ mod \in Time /\ mod \in Int /\ i \in Nat \ {0} /\ n \in Nat
    <2>1. c \in Execution
        BY <1>1, <1>3, <1>5 DEF Cycle
    <2>2. i \in Nat \ {0} /\ e \in Event /\ n \in Nat
        BY <1>1, <2>1 DEF Whole, Execution
    <2>3. mod \in Time
        BY <1>1, <1>5 DEF Cycle, Version
    <2> QED
        BY <2>2, <2>3, VenAssumption DEF Time
<1>9. /\ Dated(seen)' /\ Dated(stored)' /\ seen_loaded'
      /\ \A k \in DOMAIN seen' \cap DOMAIN stored' : stored'[k] <= seen'[k]
      /\ \A t \in Triple : Recalls(seen, t) => Recalls(seen', t)
      /\ \A t \in Triple : Recalls(stored, t) => Recalls(stored', t)
    BY <1>1, <1>2, <1>3, <1>4, <1>5, <1>6, <1>8, MarkOK, ZenonT(60)
<1>10. VenShape'
    <2>1. executed_active' = Insert(executed_active, e, active_window_end(poll.listed[e].content, poll.now))
        BY <1>1, Zenon DEF Remember
    <2>2. DOMAIN executed_active' = DOMAIN executed_active \cup {e}
        BY <2>1 DEF Insert
    <2>3. DOMAIN executed_active' \subseteq Event
        BY <1>8, <2>2 DEF VenInv, VenShape
    <2>4. acked' \cup durable' \cup lapsed' \subseteq ever'
        BY <1>3, <1>4, <1>5 DEF VenInv, VenShape
    <2> QED
        BY <1>3, <2>3, <2>4, Zenon DEF VenInv, VenShape
<1>11. acked \subseteq Triple /\ durable \subseteq Triple
    BY DEF VenInv, VenShape
<1>12. key \in {<<triple[1], triple[3]>>, <<triple[1], Whole>>} /\ triple[2] = mod
    BY <1>1, <1>2
<1>13. Recalls(seen', triple)
    <2>1. key \in DOMAIN seen' /\ seen'[key] = mod
        BY <1>4 DEF mark_seen, Insert
    <2>2. seen'[key] >= triple[2]
        BY <1>8, <1>12, <2>1
    <2> QED
        BY <1>12, <2>1, <2>2, Zenon DEF Recalls
<1>14. key \in DOMAIN stored' /\ stored'[key] = mod => Recalls(stored', triple)
    <2> SUFFICES ASSUME key \in DOMAIN stored', stored'[key] = mod PROVE Recalls(stored', triple)
        OBVIOUS
    <2>1. stored'[key] >= triple[2]
        BY <1>8, <1>12
    <2> QED
        BY <1>12, <2>1, Zenon DEF Recalls
<1>15. \A t \in acked' \ lapsed' : Recalls(seen', t)
    BY <1>4, <1>9, <1>11, <1>13 DEF VenInv, SeenInv
<1>16. \A t \in durable' \ lapsed' : Recalls(stored', t)
    BY <1>4, <1>9, <1>11, <1>14 DEF VenInv, SeenInv
<1>17. SeenInv'
    BY <1>9, <1>15, <1>16, Zenon DEF SeenInv, Recalls
<1> QED
    BY <1>7, <1>10, <1>17 DEF VenInv

\* Old entries go, and with them only executions that lapse; the map in Redis
\* loses no entry that is newer than the one in memory.
LEMMA EndOK == ASSUME VenInv, PollEnd PROVE VenInv'
<1>1. /\ poll # Nil /\ poll' = Nil /\ UNCHANGED <<clock, vtn, seen_loaded, acked, durable, ever>>
      /\ executed_active' = [e \in Retained |-> executed_active[e]] /\ seen' = Drop(seen, Stale)
    BY DEF PollEnd
<1>2. PICK removed \in SUBSET Stale : stored' = Drop(stored, removed)
    BY DEF PollEnd
<1>3. PICK pruned : pruned = {t \in ever : t[1] \notin DOMAIN poll.listed /\ t[2] < poll.now - PruneAge}
    BY ZenonT(60)
<1>4. lapsed' = lapsed \cup pruned /\ pruned \subseteq ever
    BY <1>3 DEF PollEnd
<1>5. VenShape'
    <2>1. DOMAIN executed_active' \subseteq Event
        BY <1>1 DEF VenInv, VenShape, Retained
    <2>2. acked' \cup durable' \cup lapsed' \subseteq ever'
        BY <1>1, <1>4 DEF VenInv, VenShape
    <2> QED
        BY <1>1, <2>1, <2>2, Zenon DEF VenInv, VenShape
<1>6. PollInv'
    BY <1>1 DEF PollInv
<1>7. /\ DOMAIN seen' = DOMAIN seen \ Stale /\ \A k \in DOMAIN seen' : seen'[k] = seen[k]
      /\ DOMAIN stored' = DOMAIN stored \ removed /\ \A k \in DOMAIN stored' : stored'[k] = stored[k]
    BY <1>1, <1>2 DEF Drop
<1>8. Dated(seen)' /\ Dated(stored)'
    <2>1. Dated(seen) /\ Dated(stored) /\ DOMAIN seen' \subseteq DOMAIN seen /\ DOMAIN stored' \subseteq DOMAIN stored
        BY <1>7 DEF VenInv, SeenInv
    <2> QED
        BY <1>1, <1>7, <2>1 DEF Dated
<1>9. \A k \in DOMAIN seen' \cap DOMAIN stored' : stored'[k] <= seen'[k]
    BY <1>7 DEF VenInv, SeenInv
<1>10. ~seen_loaded' => DOMAIN seen' = {} /\ poll' = Nil
    BY <1>1, <1>7 DEF VenInv, SeenInv
<1>11. poll.now \in Int /\ PruneAge \in Int /\ poll.now - PruneAge \in Int
    BY <1>1, VenAssumption DEF VenInv, PollInv, Cycle, Time
<1>12. \A t \in acked \cup durable : t[2] \in Int
    BY VenAssumption DEF VenInv, VenShape, Triple, Time
<1>13. \A k \in DOMAIN seen : seen[k] \in Int
    BY VenAssumption DEF VenInv, SeenInv, Dated, Time
<1>14. \A k \in DOMAIN stored : stored[k] \in Int
    BY VenAssumption DEF VenInv, SeenInv, Dated, Time
<1>15. ASSUME NEW t \in (acked \cup durable) \ pruned, NEW k \in DOMAIN seen,
              k[1] = t[1], seen[k] >= t[2]
       PROVE k \notin Stale
    <2>1. t \in ever
        BY DEF VenInv, VenShape
    <2> QED
        BY <2>1, <1>3, <1>11, <1>12, <1>13, <1>15 DEF Stale
<1>16. ASSUME NEW t \in acked' \ lapsed' PROVE Recalls(seen', t)
    <2>1. t \in acked \ lapsed /\ t \notin pruned
        BY <1>1, <1>4
    <2>2. PICK k \in DOMAIN seen : k \in {<<t[1], t[3]>>, <<t[1], Whole>>} /\ seen[k] >= t[2]
        BY <2>1 DEF VenInv, SeenInv, Recalls
    <2>3. k[1] = t[1]
        BY <2>2
    <2>4. k \in DOMAIN seen' /\ seen'[k] = seen[k]
        BY <1>7, <1>15, <2>1, <2>2, <2>3
    <2> QED
        BY <2>2, <2>4, Zenon DEF Recalls
<1>17. ASSUME NEW t \in durable' \ lapsed' PROVE Recalls(stored', t)
    <2>1. t \in durable \ lapsed /\ t \notin pruned
        BY <1>1, <1>4
    <2>2. PICK k \in DOMAIN stored : k \in {<<t[1], t[3]>>, <<t[1], Whole>>} /\ stored[k] >= t[2]
        BY <2>1 DEF VenInv, SeenInv, Recalls
    <2>3. k[1] = t[1]
        BY <2>2
    <2>4. k \in DOMAIN seen => seen[k] >= t[2]
        <3> SUFFICES ASSUME k \in DOMAIN seen PROVE seen[k] >= t[2]
            OBVIOUS
        <3>1. stored[k] <= seen[k]
            BY DEF VenInv, SeenInv
        <3> QED
            BY <1>12, <1>13, <1>14, <2>1, <2>2, <3>1
    <2>5. k \notin Stale
        BY <1>15, <2>1, <2>3, <2>4 DEF Stale
    <2>6. k \in DOMAIN stored' /\ stored'[k] = stored[k]
        BY <1>7, <2>2, <2>5
    <2> QED
        BY <2>2, <2>6, Zenon DEF Recalls
<1>18. SeenInv'
    BY <1>8, <1>9, <1>10, <1>16, <1>17, Zenon DEF SeenInv, Recalls
<1> QED
    BY <1>5, <1>6, <1>18 DEF VenInv

\* The VTN only moves to later versions, and a crash keeps what Redis holds.
LEMMA SurroundingsOK ==
    ASSUME VenInv, (\E e \in Event, c \in Content : Publish(e, c)) \/ (\E e \in Event : Withdraw(e)) \/ ClockTick
                   \/ Crash \/ UNCHANGED venvars
    PROVE  VenInv'
<1>1. ASSUME UNCHANGED <<seen, seen_loaded, executed_active, stored, poll, acked, durable, lapsed, ever>>,
             clock' \in Time, clock <= clock', vtn' \in [Event -> Version \cup {Nil}],
             \A e \in Event : vtn'[e] # Nil => vtn'[e].modified <= clock'
                                               /\ (vtn'[e] = vtn[e] \/ vtn'[e].modified >= clock)
      PROVE VenInv'
    <2>1. VenShape'
        BY <1>1, Zenon DEF VenInv, VenShape
    <2>2. clock \in Int /\ clock' \in Int /\ \A e \in Event : vtn'[e] # Nil => vtn'[e].modified \in Int
        BY <1>1, VenAssumption DEF VenInv, VenShape, Time, Version
    <2>3. ASSUME poll # Nil, NEW e \in DOMAIN poll.listed
          PROVE e \in Event /\ poll.listed[e].modified \in Int
        BY <2>3, VenAssumption DEF VenInv, PollInv, Cycle, Version, Time
    <2>4. PollInv'
        <3> SUFFICES ASSUME poll # Nil PROVE PollInv'
            BY <1>1 DEF PollInv
        <3>1. poll.now <= clock'
            BY <1>1, <2>2, VenAssumption DEF VenInv, PollInv, Cycle, Time
        <3>2. ASSUME NEW e \in DOMAIN poll.listed
              PROVE /\ poll.listed[e].modified <= clock'
                    /\ vtn'[e] # Nil => poll.listed[e].modified <= vtn'[e].modified
            <4>1. e \in Event /\ poll.listed[e].modified \in Int /\ poll.listed[e].modified <= clock
                  /\ (vtn[e] # Nil => poll.listed[e].modified <= vtn[e].modified)
                BY <2>3, ZenonT(60) DEF VenInv, PollInv
            <4> QED
                BY <1>1, <2>2, <4>1
        <3> QED
            BY <1>1, <3>1, <3>2, Zenon DEF VenInv, PollInv
    <2>5. ASSUME NEW m, Dated(m), NEW k \in DOMAIN m
          PROVE m[k] <= clock' /\ (vtn'[k[1]] # Nil => m[k] <= vtn'[k[1]].modified)
        <3>1. k[1] \in Event /\ m[k] \in Int /\ m[k] <= clock /\ (vtn[k[1]] # Nil => m[k] <= vtn[k[1]].modified)
            BY <2>5, VenAssumption DEF Dated, Time
        <3> QED
            BY <1>1, <2>2, <3>1
    <2>6. Dated(seen) /\ Dated(stored)
        BY DEF VenInv, SeenInv
    <2>7. Dated(seen)' /\ Dated(stored)'
        BY <1>1, <2>5, <2>6, Zenon DEF Dated
    <2>8. SeenInv'
        BY <1>1, <2>7, Zenon DEF VenInv, SeenInv, Recalls
    <2> QED
        BY <2>1, <2>4, <2>8 DEF VenInv
<1>2. clock \in Time /\ clock \in Int /\ MaxTime \in Int /\ vtn \in [Event -> Version \cup {Nil}]
      /\ \A e \in Event : vtn[e] # Nil => vtn[e].modified <= clock /\ vtn[e].modified \in Int
    BY VenAssumption DEF VenInv, VenShape, Time, Version
<1>3. ASSUME NEW e \in Event, NEW c \in Content, Publish(e, c) PROVE VenInv'
    <2>1. /\ vtn' = [vtn EXCEPT ![e] = [modified |-> clock, content |-> c]] /\ clock' = clock
          /\ UNCHANGED <<seen, seen_loaded, executed_active, stored, poll, acked, durable, lapsed, ever>>
        BY <1>3 DEF Publish, known
    <2>2. [modified |-> clock, content |-> c] \in Version
        BY <1>2 DEF Version
    <2>3. vtn' \in [Event -> Version \cup {Nil}]
        BY <1>2, <2>1, <2>2
    <2>4. \A x \in Event : vtn'[x] # Nil => vtn'[x].modified <= clock' /\ (vtn'[x] = vtn[x] \/ vtn'[x].modified >= clock)
        BY <1>2, <2>1
    <2>5. clock <= clock'
        BY <1>2, <2>1
    <2> QED
        BY <1>1, <1>2, <2>1, <2>3, <2>4, <2>5
<1>4. ASSUME NEW e \in Event, Withdraw(e) PROVE VenInv'
    <2>1. /\ vtn' = [vtn EXCEPT ![e] = Nil] /\ clock' = clock
          /\ UNCHANGED <<seen, seen_loaded, executed_active, stored, poll, acked, durable, lapsed, ever>>
        BY <1>4 DEF Withdraw, known
    <2>2. vtn' \in [Event -> Version \cup {Nil}]
        BY <1>2, <2>1
    <2>3. \A x \in Event : vtn'[x] # Nil => vtn'[x].modified <= clock' /\ (vtn'[x] = vtn[x] \/ vtn'[x].modified >= clock)
        BY <1>2, <2>1
    <2>4. clock <= clock'
        BY <1>2, <2>1
    <2> QED
        BY <1>1, <1>2, <2>1, <2>2, <2>3, <2>4
<1>5. CASE ClockTick
    <2>1. /\ clock' = clock + 1 /\ clock < MaxTime /\ vtn' = vtn
          /\ UNCHANGED <<seen, seen_loaded, executed_active, stored, poll, acked, durable, lapsed, ever>>
        BY <1>5 DEF ClockTick, known
    <2>2. clock' \in Time /\ clock <= clock'
        BY <1>2, <2>1 DEF Time
    <2>3. \A x \in Event : vtn'[x] # Nil => vtn'[x].modified <= clock' /\ (vtn'[x] = vtn[x] \/ vtn'[x].modified >= clock)
        BY <1>2, <2>1
    <2> QED
        BY <1>1, <1>2, <2>1, <2>2, <2>3
<1>6. CASE Crash
    <2>1. /\ seen' = << >> /\ ~seen_loaded' /\ executed_active' = << >> /\ poll' = Nil /\ acked' = {}
          /\ UNCHANGED <<clock, vtn, stored, durable, lapsed, ever>>
        BY <1>6 DEF Crash
    <2>2. VenShape'
        BY <2>1 DEF VenInv, VenShape
    <2>3. PollInv' /\ DOMAIN seen' = {}
        BY <2>1, SMTT(60) DEF PollInv
    <2>4. Dated(seen)' /\ Dated(stored)'
        BY <2>1, <2>3 DEF VenInv, SeenInv, Dated
    <2>5. SeenInv'
        BY <2>1, <2>3, <2>4, SMTT(60) DEF VenInv, SeenInv, Recalls
    <2> QED
        BY <2>2, <2>3, <2>5 DEF VenInv
<1>7. CASE UNCHANGED venvars
    BY <1>7, ZenonT(60) DEF venvars, known, VenInv, VenShape, PollInv, SeenInv, Dated, Recalls
<1> QED
    BY <1>3, <1>4, <1>5, <1>6, <1>7

LEMMA VenStep == VenInv /\ [VenNext]_venvars => VenInv'
<1> SUFFICES ASSUME VenInv, [VenNext]_venvars PROVE VenInv'
    OBVIOUS
<1>1. CASE \E loads \in BOOLEAN, hidden \in SUBSET Event : PollBegin(loads, hidden)
    BY <1>1, BeginOK, Zenon
<1>2. CASE Work
    BY <1>2, SkipOK, ExecuteOK, Zenon DEF Work
<1> QED
    BY <1>1, <1>2, RememberOK, EndOK, SurroundingsOK, Zenon DEF VenNext

\* The inductive invariant of the listener: what the dedup maps in memory and in
\* Redis know of every confirmed execution.
THEOREM VenInvariant == VenSpec => []VenInv
BY VenStarts, VenStep, PTL DEF VenSpec

\* The maps, the poll cycle and the ghosts have their shapes, and no entry of the
\* dedup map is newer than the event's latest version, for any events, contents,
\* clock and numbers of changes and crashes.
THEOREM VenShapes == VenSpec => []VenTypeOK
<1>1. VenInv => VenTypeOK
    <2> SUFFICES ASSUME VenInv PROVE VenTypeOK
        OBVIOUS
    <2>1. clock \in Time /\ DOMAIN executed_active \subseteq Event /\ acked \cup durable \cup lapsed \subseteq ever
          /\ ever \subseteq Triple
        BY DEF VenInv, VenShape
    <2>2. \A e \in Event : vtn[e] # Nil => vtn[e].modified \in Time /\ vtn[e].content \in Content
        BY DEF VenInv, VenShape, Version
    <2>3. \A m \in {seen, stored} : \A k \in DOMAIN m : k[1] \in Event /\ k[2] \in Nat /\ m[k] \in Time
        BY DEF VenInv, SeenInv, Dated
    <2>4. \A k \in DOMAIN seen : vtn[k[1]] # Nil => seen[k] <= vtn[k[1]].modified
        BY Zenon DEF VenInv, SeenInv, Dated
    <2>5. poll # Nil => /\ poll.now <= clock /\ poll.todo \subseteq DOMAIN poll.listed
                        /\ poll.cur # Nil => poll.cur.event \in DOMAIN poll.listed \ poll.todo
        BY Zenon DEF VenInv, PollInv
    <2> QED
        BY <2>1, <2>2, <2>3, <2>4, <2>5, Zenon DEF VenTypeOK
<1> QED
    BY <1>1, VenInvariant, PTL

\* No interval of an event version is dispatched again once the listener knows it
\* was, in one process life or after a restart that loads the entry from Redis:
\* however polls, failed listings and writes, updates, withdrawals and crashes
\* interleave, for any events, contents and PruneAge.  Not promised is an
\* execution in lapsed, whose entry one listing without the event may have pruned.
THEOREM IntervalsRunOnce == VenSpec => NoReExecution
<1>1. VenInv /\ [VenNext]_venvars =>
        [\A e \in Event :
            DispatchOk(e) =>
                <<e, poll.listed[e].modified, Verdict(e).interval>> \notin acked \ lapsed]_venvars
    <2> SUFFICES ASSUME VenInv, NEW e \in Event, DispatchOk(e)
                 PROVE  <<e, poll.listed[e].modified, Verdict(e).interval>> \notin acked \ lapsed
        OBVIOUS
    <2> QED
        BY ExecutesOwed, Zenon DEF VenInv, SeenInv
<1> QED
    BY <1>1, VenInvariant, PTL DEF VenSpec, NoReExecution

\* A bounded set of naturals with an element has a greatest one.
LEMMA GreatestExists ==
    ASSUME NEW S, NEW B \in Nat, S \subseteq 0 .. B, S # {}
    PROVE  Max(S) \in S /\ \A y \in S : y <= Max(S)
<1> DEFINE T == {B - y : y \in S}
<1>1. T \subseteq Nat /\ T # {}
    <2>1. \A y \in S : B - y \in Nat
        OBVIOUS
    <2>2. PICK y \in S : B - y \in T
        BY ZenonT(60)
    <2> QED
        BY <2>1, <2>2
<1> DEFINE R == {ss \in Nat \X Nat : ss[1] < ss[2]}
<1>2. R = OpToRel(<, Nat)
    BY Zenon DEF OpToRel
<1>3. IsWellFoundedOn(R, Nat)
    BY <1>2, NatLessThanWellFounded, Zenon
<1>4. PICK z \in T : \A y \in T : <<y, z>> \notin R
    BY <1>1, <1>3, WFMin, ZenonT(60)
<1>5. PICK x \in S : z = B - x
    OBVIOUS
<1>6. ASSUME NEW y \in S PROVE x >= y
    <2>1. B - y \in T /\ B - y \in Nat /\ z \in Nat /\ x \in Int /\ y \in Int
        BY <1>1, <1>5
    <2>2. ~(B - y < z)
        BY <1>4, <2>1, ZenonT(60)
    <2> QED
        BY <1>5, <2>1, <2>2
<1>7. Max(S) \in S /\ \A y \in S : Max(S) >= y
    BY <1>6, Zenon DEF Max
<1> QED
    BY <1>7

\* The window that is watched covers every time at which an interval is open.
LEMMA WindowCovers ==
    ASSUME NEW c \in Content, NEW now \in Time, NEW t \in OpenTimes(c, now)
    PROVE  active_window_end(c, now) \in Int /\ t < active_window_end(c, now)
<1> DEFINE end(sp) == IF PeriodOf(c, sp) = Nil THEN now + Fallback
                      ELSE EndOf(c, PeriodOf(c, sp), now + Fallback)
           ends == {end(c.intervals[i]) : i \in find_setpoints(c)}
           B == MaxTime + MaxTime + Fallback
<1>1. MaxTime \in Nat /\ Fallback \in Nat /\ B \in Nat /\ now \in 0 .. MaxTime /\ now + Fallback \in 0 .. B
    BY VenAssumption DEF Time
<1>2. c.intervals \in Seq(Interval) /\ c.period \in Period \cup {Nil} /\ c.duration \in (1 .. MaxTime) \cup {Nil}
    BY VenAssumption DEF ContentType
<1>3. ASSUME NEW i \in find_setpoints(c), PeriodOf(c, c.intervals[i]) # Nil
      PROVE PeriodOf(c, c.intervals[i]) \in Period
    <2>1. c.intervals[i] \in Interval
        BY <1>2 DEF find_setpoints
    <2>2. c.intervals[i].period \in Period \cup {Nil}
        BY <2>1 DEF Interval
    <2> QED
        BY <1>2, <1>3, <2>2 DEF PeriodOf
<1>4. ASSUME NEW i \in find_setpoints(c) PROVE end(c.intervals[i]) \in 0 .. B
    <2>1. CASE PeriodOf(c, c.intervals[i]) = Nil
        BY <1>1, <2>1
    <2>2. CASE PeriodOf(c, c.intervals[i]) # Nil
        <3>1. PICK p \in Period : p = PeriodOf(c, c.intervals[i])
            BY <1>3, <2>2
        <3>2. p.start \in 0 .. MaxTime /\ p.duration \in (1 .. MaxTime) \cup {Nil}
            BY DEF Period, Time
        <3>3. EndOf(c, p, now + Fallback) \in 0 .. B
            BY <1>1, <1>2, <3>2, SMTT(60) DEF EndOf
        <3> QED
            BY <2>2, <3>1, <3>3
    <2> QED
        BY <2>1, <2>2
<1>5. t \in 0 .. MaxTime
    BY DEF OpenTimes, Time
<1>6. PICK i \in find_setpoints(c) :
        Open(c, c.intervals[i], t) /\ (Closes(c, c.intervals[i]) \/ t < now + Fallback)
    BY DEF OpenTimes
<1>7. t < end(c.intervals[i])
    <2>1. CASE PeriodOf(c, c.intervals[i]) = Nil
        BY <1>6, <2>1 DEF Closes
    <2>2. CASE PeriodOf(c, c.intervals[i]) # Nil
        <3>1. PICK p : p = PeriodOf(c, c.intervals[i])
            OBVIOUS
        <3>2. t < EndOf(c, p, t + 1)
            BY <1>6, <2>2, <3>1 DEF Open
        <3>3. t < EndOf(c, p, now + Fallback)
            <4>1. CASE p.duration # Nil \/ c.duration # Nil
                BY <3>2, <4>1 DEF EndOf
            <4>2. CASE ~(p.duration # Nil \/ c.duration # Nil)
                BY <1>6, <3>1, <4>2, ZenonT(60) DEF EndOf, Closes
            <4> QED
                BY <4>1, <4>2
        <3> QED
            BY <2>2, <3>1, <3>3
    <2> QED
        BY <2>1, <2>2
<1>8. ends \subseteq 0 .. B /\ ends # {} /\ end(c.intervals[i]) \in ends
    BY <1>4, ZenonT(60)
<1>9. active_window_end(c, now) = Max(ends)
    BY DEF active_window_end
<1> HIDE DEF ends
<1>10. Max(ends) \in 0 .. B /\ end(c.intervals[i]) <= Max(ends)
    BY <1>1, <1>8, GreatestExists, ZenonT(60)
<1> QED
    BY <1>4, <1>5, <1>7, <1>9, <1>10

\* What an event executed in this process life still has open is watched, lies
\* behind the poll, was reported, or is about to be watched (Remember).
Watched(e, t) == e \in DOMAIN executed_active /\ executed_active[e] \in Int /\ t < executed_active[e]
Behind(t) == IF poll # Nil THEN t < poll.now ELSE t < clock
Executing(e) ==
    /\ poll # Nil /\ poll.cur # Nil /\ poll.cur.event = e
    /\ opens[e] = OpenTimes(poll.listed[e].content, poll.now)
CurIsExecuting == poll # Nil /\ poll.cur # Nil => Executing(poll.cur.event)

WatchInv ==
    /\ DOMAIN opens = Event /\ recent \subseteq Event
    /\ CurIsExecuting
    /\ \A e \in recent : \A t \in opens[e] :
        t \in Time /\ (Watched(e, t) \/ Behind(t) \/ e \in reported \/ Executing(e))

LEMMA WatchStep == VenInv /\ WatchInv /\ [VenNext]_venvars => WatchInv'
<1> SUFFICES ASSUME VenInv, WatchInv, [VenNext]_venvars PROVE WatchInv'
    BY ZenonT(60)
<1>1. clock \in Int /\ (poll # Nil => poll \in Cycle /\ poll.now \in Int /\ poll.now <= clock)
    BY VenAssumption DEF VenInv, VenShape, PollInv, Cycle, Time
<1>2. ASSUME clock' \in Int, clock <= clock',
             poll' # Nil => IF poll # Nil THEN poll'.now = poll.now ELSE poll'.now = clock,
             NEW t \in Time, Behind(t)
      PROVE Behind(t)'
    <2>1. t \in Int
        BY VenAssumption DEF Time
    <2> QED
        BY <1>1, <1>2, <2>1 DEF Behind
<1>3. ASSUME UNCHANGED <<watch, executed_active>>, clock' \in Int, clock <= clock',
             poll' # Nil => IF poll # Nil THEN poll'.now = poll.now ELSE poll'.now = clock,
             \A e \in Event : Executing(e) => Executing(e)',
             CurIsExecuting'
      PROVE WatchInv'
    <2>1. UNCHANGED <<opens, reported, recent, executed_active>>
        BY <1>3 DEF watch
    <2> QED
        BY <1>2, <1>3, <2>1, ZenonT(60) DEF WatchInv, Watched
<1>4. CASE \E loads \in BOOLEAN, hidden \in SUBSET Event : PollBegin(loads, hidden)
    <2>1. poll = Nil /\ UNCHANGED <<watch, executed_active, clock>>
        BY <1>4, Zenon DEF PollBegin
    <2>2. poll' # Nil => poll'.now = clock /\ poll'.cur = Nil
        BY <1>4 DEF PollBegin
    <2> QED
        BY <1>1, <1>3, <2>1, <2>2 DEF Executing, CurIsExecuting
<1>5. CASE \E e \in Event : PollSkip(e) \/ DispatchErr(e)
    <2>1. PICK e \in Event : PollSkip(e) \/ DispatchErr(e)
        BY <1>5
    <2>2. poll # Nil /\ poll.cur = Nil /\ UNCHANGED <<watch, executed_active, clock>>
        BY <2>1, Zenon DEF PollSkip, DispatchErr
    <2>3. poll'.now = poll.now /\ poll'.cur = Nil
        BY <1>1, <2>1, <2>2, ZenonT(60) DEF PollSkip, DispatchErr, Cycle
    <2> QED
        BY <1>1, <1>3, <2>2, <2>3 DEF Executing, CurIsExecuting
<1>6. CASE \E e \in Event : DispatchOk(e)
    <2>1. PICK e \in Event : DispatchOk(e)
        BY <1>6
    <2>2. PICK c : c = [event |-> e, interval |-> Verdict(e).interval, more_pending |-> Verdict(e).more_pending]
        BY ZenonT(60)
    <2>3. /\ poll # Nil /\ poll.cur = Nil /\ poll' = [poll EXCEPT !.todo = @ \ {e}, !.cur = c]
          /\ UNCHANGED <<executed_active, clock>>
          /\ opens' = [opens EXCEPT ![e] = OpenTimes(poll.listed[e].content, poll.now)]
          /\ reported' = reported \ {e} /\ recent' = recent \cup {e}
        BY <2>1, <2>2, ZenonT(60) DEF DispatchOk
    <2>4. poll' # Nil /\ poll'.now = poll.now /\ poll'.listed = poll.listed /\ poll'.cur = c
        <3>1. poll' \in Cycle /\ poll'.now = poll.now /\ poll'.listed = poll.listed /\ poll'.cur = c
            <4>1. c \in Execution
                BY <2>1, <2>2, ExecutesOwed DEF Execution
            <4>2. poll.todo \ {e} \in SUBSET Event
                BY <1>1, <2>3 DEF Cycle
            <4> QED
                BY <1>1, <2>3, <4>1, <4>2, CycleMoves, ZenonT(60)
        <3> QED
            BY <3>1, VenAssumption
    <2>5. c # Nil /\ c.event = e
        <3>1. c \in Execution
            BY <2>1, <2>2, ExecutesOwed DEF Execution
        <3> QED
            BY <2>2, <3>1, VenAssumption
    <2>6. DOMAIN opens' = Event /\ \A x \in Event : opens'[x] = IF x = e THEN OpenTimes(poll.listed[e].content, poll.now) ELSE opens[x]
        BY <2>3 DEF WatchInv
    <2>7. Executing(e)'
        BY <2>4, <2>5, <2>6 DEF Executing
    <2>8. \A t \in opens'[e] : t \in Time
        BY <2>6 DEF OpenTimes
    <2>9. ASSUME NEW x \in recent \ {e}, NEW t \in opens[x]
          PROVE  t \in Time /\ (Watched(x, t)' \/ Behind(t)' \/ x \in reported')
        <3>1. t \in Time /\ (Watched(x, t) \/ Behind(t) \/ x \in reported)
            BY <2>3, Zenon DEF WatchInv, Executing
        <3>2. Behind(t) => Behind(t)'
            BY <1>1, <1>2, <2>3, <2>4, <3>1
        <3> QED
            BY <2>3, <3>1, <3>2 DEF Watched
    <2> QED
        BY <2>1, <2>3, <2>4, <2>5, <2>6, <2>7, <2>8, <2>9, ZenonT(60) DEF WatchInv, CurIsExecuting
<1>7. CASE Remember
    <2>1. PICK c, e, ev : c = poll.cur /\ e = c.event /\ ev = poll.listed[e]
        BY Zenon
    <2>2. /\ poll # Nil /\ poll.cur # Nil /\ poll' = [poll EXCEPT !.cur = Nil] /\ clock' = clock
          /\ executed_active' = Insert(executed_active, e, active_window_end(ev.content, poll.now))
          /\ UNCHANGED <<opens, reported, recent>>
        BY <1>7, <2>1, Zenon DEF Remember, watch
    <2>3. poll \in Cycle /\ e \in DOMAIN poll.listed
        BY <2>1, <2>2, Zenon DEF VenInv, PollInv
    <2>4. poll'.now = poll.now /\ poll'.cur = Nil /\ poll.now \in Time /\ e \in Event /\ ev.content \in Content
        BY <2>1, <2>2, <2>3 DEF Cycle, Version
    <2>5. /\ DOMAIN executed_active' = DOMAIN executed_active \cup {e}
          /\ executed_active'[e] = active_window_end(ev.content, poll.now)
          /\ \A x \in DOMAIN executed_active \ {e} : executed_active'[x] = executed_active[x]
        BY <2>2 DEF Insert
    <2>6. ASSUME NEW x \in recent, NEW t \in opens[x]
          PROVE  t \in Time /\ (Watched(x, t)' \/ Behind(t)' \/ x \in reported')
        <3>1. t \in Time /\ (Watched(x, t) \/ Behind(t) \/ x \in reported \/ Executing(x))
            BY DEF WatchInv
        <3>2. Behind(t) => Behind(t)'
            BY <1>1, <1>2, <2>2, <2>4, <3>1
        <3>3. CASE x = e
            <4>1. opens[e] = OpenTimes(ev.content, poll.now)
                BY <2>1, <2>2, Zenon DEF WatchInv, CurIsExecuting, Executing
            <4> QED
                BY <2>4, <2>5, <3>1, <3>3, <4>1, WindowCovers, Zenon DEF Watched
        <3>4. CASE x # e
            BY <2>1, <2>2, <2>5, <3>1, <3>2, <3>4 DEF Watched, Executing
        <3> QED
            BY <3>3, <3>4
    <2> QED
        BY <2>2, <2>4, <2>6, ZenonT(60) DEF WatchInv, CurIsExecuting
<1>8. CASE PollEnd
    <2>1. /\ poll # Nil /\ poll.cur = Nil /\ poll' = Nil /\ clock' = clock
          /\ executed_active' = [e \in Retained |-> executed_active[e]]
          /\ reported' = reported \cup Cancelled /\ UNCHANGED <<opens, recent>>
        BY <1>8 DEF PollEnd
    <2>2. ASSUME NEW e \in recent, NEW t \in opens[e]
          PROVE  t \in Time /\ (Watched(e, t)' \/ Behind(t)' \/ e \in reported')
        <3>1. t \in Time /\ (Watched(e, t) \/ t < poll.now \/ e \in reported)
            BY <2>1 DEF WatchInv, Behind, Executing
        <3>2. t \in Int
            BY <3>1, VenAssumption DEF Time
        <3>3. CASE t < poll.now
            BY <1>1, <2>1, <3>1, <3>2, <3>3 DEF Behind
        <3>4. CASE Watched(e, t) /\ ~(t < poll.now)
            <4>1. e \in DOMAIN executed_active /\ executed_active[e] > poll.now
                BY <1>1, <2>1, <3>2, <3>4 DEF Watched
            <4>2. CASE e \in DOMAIN poll.listed
                <5>1. e \in Retained
                    BY <4>1, <4>2 DEF Retained
                <5> QED
                    BY <2>1, <3>1, <3>4, <5>1 DEF Watched
            <4>3. CASE e \notin DOMAIN poll.listed
                BY <2>1, <3>1, <4>1, <4>3 DEF Cancelled
            <4> QED
                BY <4>2, <4>3
        <3> QED
            BY <2>1, <3>1, <3>3, <3>4
    <2> QED
        BY <2>1, <2>2, ZenonT(60) DEF WatchInv, CurIsExecuting
<1>9. CASE Crash
    BY <1>9 DEF Crash, WatchInv, CurIsExecuting
<1>10. CASE (\E e \in Event, c \in Content : Publish(e, c)) \/ (\E e \in Event : Withdraw(e)) \/ ClockTick
            \/ UNCHANGED venvars
    <2>1. UNCHANGED <<watch, executed_active, poll>>
        BY <1>10, Zenon DEF Publish, Withdraw, ClockTick, venvars
    <2>2. clock' = clock \/ clock' = clock + 1
        BY <1>10, Zenon DEF Publish, Withdraw, ClockTick, venvars
    <2>3. clock' \in Int /\ clock <= clock'
        BY <1>1, <2>2
    <2>4. \A e \in Event : Executing(e) => Executing(e)'
        BY <2>1 DEF Executing, watch
    <2>5. CurIsExecuting'
        BY <2>1, Zenon DEF WatchInv, CurIsExecuting, Executing, watch
    <2> QED
        BY <1>3, <2>1, <2>3, <2>4, <2>5
<1> QED
    BY <1>4, <1>5, <1>6, <1>7, <1>8, <1>9, <1>10, Zenon DEF VenNext, Work

\* An event executed in this process life that the VTN no longer lists while one
\* of its intervals is still to close is reported by that poll, unless one has
\* reported it since it was executed: for any schedules, default durations, clock,
\* changes and hidden events, the latest end over all setpoint intervals is what
\* is watched, not the end of the one executed.
THEOREM CancellationsAreNoticed == VenSpec => CancellationIsNoticed
<1>1. VenInit => WatchInv
    BY DEF VenInit, WatchInv, CurIsExecuting
<1>2. VenInv /\ WatchInv /\ [VenNext]_venvars =>
        [PollEnd => \A e \in recent \ DOMAIN poll.listed :
                        (\E t \in opens[e] : t >= poll.now) => e \in Cancelled \cup reported]_venvars
    <2> SUFFICES ASSUME VenInv, WatchInv, PollEnd, NEW e \in recent \ DOMAIN poll.listed,
                        NEW t \in opens[e], t >= poll.now
                 PROVE  e \in Cancelled \cup reported
        BY ZenonT(60)
    <2>1. poll # Nil /\ poll.cur = Nil /\ poll.now \in Int
        BY VenAssumption DEF PollEnd, VenInv, PollInv, Cycle, Time
    <2>2. t \in Int
        BY VenAssumption DEF WatchInv, Time
    <2>3. Watched(e, t) \/ e \in reported
        BY <2>1, <2>2 DEF WatchInv, Behind, Executing
    <2> QED
        BY <2>1, <2>2, <2>3 DEF Cancelled, Watched
<1>3. VenInv /\ WatchInv /\ [VenNext]_venvars => WatchInv'
    BY WatchStep
<1> QED
    BY <1>1, <1>2, <1>3, VenInvariant, PTL DEF VenSpec, CancellationIsNoticed
=============================================================================
