--------------------------- MODULE ReadingProofs ----------------------------
(***************************************************************************)
(* What becomes of an accepted reading: the batchers account for every     *)
(* item, for any capacity, batch size and failures; the billing bins, for  *)
(* every set of meters, window width, grace, retention and set of          *)
(* readings, and for any bound of the clock; and the Kafka producer, which *)
(* is replaced only for failures of its own time.                          *)
(***************************************************************************)
EXTENDS Aggregator, BatchSinks, MessageClients, TLAPS

-----------------------------------------------------------------------------
(* The batchers: every item is accounted for. *)

\* The items of a channel come in the order they were recorded.
Ordered(q) == \A i, j \in DOMAIN q : i < j /\ q[i] > 0 /\ q[j] > 0 => q[i] < q[j]

SinkShape ==
    /\ sink \in {"influx", "pg", "forward"} /\ recorded \in Nat
    /\ queue \in Seq(Int) /\ written \in Seq(SUBSET Nat)
    /\ gone \in {"no", "closing", "ending", "flushing", "stopped"}

\* Items pass through the channel, the batch and the write in order.
Passing ==
    /\ Ordered(queue)
    /\ \A k \in batch, n \in Items(queue) : k < n
    /\ \A k \in writing, n \in Items(queue) \cup batch : k < n

\* The history writers get no commands, and write in order; a task that ends
\* has no batch, and one that has ended nothing at all.
Ending ==
    /\ sink # "forward" => /\ \A i \in DOMAIN queue : queue[i] > 0
                           /\ \A i \in DOMAIN written : \A k \in written[i], n \in Waiting : k < n
                           /\ gone # "ending" /\ (gone \in {"flushing", "stopped"} => queue = <<>>)
    /\ gone \in {"ending", "flushing", "stopped"} => batch = {}
    /\ gone = "stopped" => queue = <<>> /\ writing = {}

SinkInv == SinkShape /\ Passing /\ Ending /\ EveryItemAccounted

LEMMA Dropping ==
    ASSUME NEW some, NEW why, dropped' = Drop(some, why)
    PROVE  /\ GivenUp' = GivenUp \cup some
           /\ why # "stopped" /\ (\A d \in dropped : d.why # "stopped") => \A d \in dropped' : d.why # "stopped"
<1>1. \A d \in dropped' : d \in dropped \/ \E k \in some : d = [item |-> k, why |-> why]
    BY DEF Drop
<1>2. dropped \subseteq dropped' /\ \A k \in some : [item |-> k, why |-> why] \in dropped'
    BY DEF Drop
<1>3. GivenUp' \subseteq GivenUp \cup some
    BY <1>1 DEF GivenUp
<1>4. GivenUp \subseteq GivenUp' /\ some \subseteq GivenUp'
    <2>1. GivenUp \subseteq GivenUp'
        BY <1>2, Zenon DEF GivenUp
    <2>2. \A k \in some : [item |-> k, why |-> why].item = k
        OBVIOUS
    <2>3. some \subseteq GivenUp'
        BY <1>2, <2>2, Zenon DEF GivenUp
    <2> QED
        BY <2>1, <2>3
<1> QED
    BY <1>1, <1>3, <1>4

\* Receiving takes the oldest item of the channel.
LEMMA Receiving ==
    ASSUME NEW q \in Seq(Int), q # <<>>, Ordered(q), \A n \in Items(q) : n > 0
    PROVE  /\ Tail(q) \in Seq(Int) /\ Head(q) \in Int /\ Ordered(Tail(q))
           /\ Items(q) = Items(Tail(q)) \cup ({Head(q)} \ {Flush, Shutdown})
           /\ Head(q) > 0 => \A n \in Items(Tail(q)) : Head(q) < n
           /\ (\A i \in DOMAIN q : q[i] > 0) => \A i \in DOMAIN Tail(q) : Tail(q)[i] > 0
<1>1. Len(q) \in Nat /\ Len(q) > 0 /\ DOMAIN q = 1 .. Len(q) /\ Head(q) = q[1] /\ Tail(q) \in Seq(Int)
    OBVIOUS
<1>2. /\ DOMAIN Tail(q) = 1 .. Len(q) - 1 /\ \A i \in 1 .. Len(q) - 1 : Tail(q)[i] = q[i + 1] /\ i + 1 \in DOMAIN q
    BY <1>1
<1>3. \A i \in DOMAIN q : i = 1 \/ (i - 1 \in DOMAIN Tail(q) /\ Tail(q)[i - 1] = q[i])
    BY <1>1, <1>2
<1>4. Head(q) \in Int
    BY <1>1
<1>5. Ordered(Tail(q))
    <2> SUFFICES ASSUME NEW i \in 1 .. Len(q) - 1, NEW j \in 1 .. Len(q) - 1, i < j, Tail(q)[i] > 0, Tail(q)[j] > 0
                 PROVE  Tail(q)[i] < Tail(q)[j]
        BY <1>2, Zenon DEF Ordered
    <2>1. i + 1 \in DOMAIN q /\ j + 1 \in DOMAIN q /\ i + 1 < j + 1 /\ Tail(q)[i] = q[i + 1] /\ Tail(q)[j] = q[j + 1]
        BY <1>1, <1>2
    <2> QED
        BY <2>1 DEF Ordered
<1>6. Items(q) = Items(Tail(q)) \cup ({Head(q)} \ {Flush, Shutdown})
    <2>1. \A x : x \in Items(q) => x \in Items(Tail(q)) \/ x \in {Head(q)} \ {Flush, Shutdown}
        <3> SUFFICES ASSUME NEW i \in DOMAIN q, q[i] \notin {Flush, Shutdown}
                     PROVE  q[i] \in Items(Tail(q)) \/ q[i] = Head(q)
            BY Zenon DEF Items
        <3> QED
            BY <1>1, <1>3, Zenon DEF Items
    <2>2. \A x : x \in Items(Tail(q)) => x \in Items(q)
        BY <1>1, <1>2 DEF Items
    <2>3. \A x : x \in {Head(q)} \ {Flush, Shutdown} => x \in Items(q)
        BY <1>1 DEF Items
    <2> QED
        BY <2>1, <2>2, <2>3
<1>7. ASSUME Head(q) > 0, NEW n \in Items(Tail(q)) PROVE Head(q) < n
    <2>1. PICK i \in 1 .. Len(q) - 1 : n = q[i + 1]
        BY <1>2, <1>7 DEF Items
    <2>2. n > 0
        BY <1>6
    <2> QED
        BY <1>1, <1>2, <1>7, <2>1, <2>2 DEF Ordered
<1>8. (\A i \in DOMAIN q : q[i] > 0) => \A i \in DOMAIN Tail(q) : Tail(q)[i] > 0
    BY <1>2
<1> QED
    BY <1>1, <1>4, <1>5, <1>6, <1>7, <1>8

LEMMA Appending ==
    ASSUME NEW q \in Seq(Int), NEW x \in Int, Ordered(q), x > 0 => \A n \in Items(q) : n < x
    PROVE  /\ Append(q, x) \in Seq(Int) /\ Ordered(Append(q, x))
           /\ Items(Append(q, x)) = Items(q) \cup ({x} \ {Flush, Shutdown})
           /\ x > 0 /\ (\A i \in DOMAIN q : q[i] > 0) => \A i \in DOMAIN Append(q, x) : Append(q, x)[i] > 0
<1> DEFINE p == Append(q, x)
<1>1. /\ Len(q) \in Nat /\ DOMAIN q = 1 .. Len(q) /\ p \in Seq(Int) /\ DOMAIN p = 1 .. Len(q) + 1
      /\ p[Len(q) + 1] = x /\ \A i \in 1 .. Len(q) : p[i] = q[i]
    OBVIOUS
<1> HIDE DEF p
<1>2. \A i \in DOMAIN p : i = Len(q) + 1 \/ i \in DOMAIN q
    BY <1>1
<1>3. Items(p) = Items(q) \cup ({x} \ {Flush, Shutdown})
    <2>1. \A y : y \in Items(p) => y \in Items(q) \/ y \in {x} \ {Flush, Shutdown}
        BY <1>1, <1>2, Zenon DEF Items
    <2>2. \A y : y \in Items(q) => y \in Items(p)
        BY <1>1 DEF Items
    <2>3. \A y : y \in {x} \ {Flush, Shutdown} => y \in Items(p)
        BY <1>1 DEF Items
    <2> QED
        BY <2>1, <2>2, <2>3
<1>4. Ordered(p)
    <2>1. \A i \in DOMAIN q : q[i] > 0 => q[i] \in Items(q)
        BY DEF Items, Flush, Shutdown
    <2> QED
        <3> SUFFICES ASSUME NEW i \in 1 .. Len(q) + 1, NEW j \in 1 .. Len(q) + 1, i < j, p[i] > 0, p[j] > 0
                     PROVE  p[i] < p[j]
            BY <1>1 DEF Ordered
        <3>1. i \in 1 .. Len(q) /\ p[i] = q[i]
            BY <1>1
        <3>2. CASE j = Len(q) + 1
            BY <1>1, <2>1, <3>1, <3>2, ZenonT(60)
        <3>3. CASE j \in 1 .. Len(q)
            BY <1>1, <3>1, <3>3, ZenonT(60) DEF Ordered
        <3> QED
            BY <1>1, <3>2, <3>3
<1>5. x > 0 /\ (\A i \in DOMAIN q : q[i] > 0) => \A i \in DOMAIN p : p[i] > 0
    BY <1>1, <1>2, ZenonT(60)
<1> QED
    BY <1>1, <1>3, <1>4, <1>5 DEF p

LEMMA SinkInitInv == SinkInit => SinkInv
<1> SUFFICES ASSUME SinkInit PROVE SinkInv
    OBVIOUS
<1>1. Waiting = {} /\ Wrote = {} /\ GivenUp = {}
    BY DEF SinkInit, Waiting, Wrote, GivenUp, Items
<1> QED
    BY <1>1 DEF SinkInit, SinkInv, SinkShape, Passing, Ending, Ordered, Items, EveryItemAccounted

\* A flush takes the batch, less what does not build.
LEMMA Flushing ==
    ASSUME SinkInv, Ready, NEW b, FlushOf(b), UNCHANGED <<sink, recorded, written>>,
           b \cup Items(queue') = batch \cup Items(queue), \A k \in b, n \in Items(queue') : k < n,
           queue' \in Seq(Int), Ordered(queue'), sink # "forward" => \A i \in DOMAIN queue' : queue'[i] > 0,
           gone' \in {"no", "closing", "ending", "flushing"},
           sink # "forward" => gone' # "ending" /\ (gone' = "flushing" => queue' = <<>>)
    PROVE  SinkInv'
<1>1. PICK skipped \in SUBSET b : /\ writing' = b \ skipped /\ batch' = {}
                                  /\ dropped' = Drop(skipped, "malformed")
    BY Zenon DEF FlushOf
<1>2. /\ GivenUp' = GivenUp \cup skipped
      /\ (\A d \in dropped : d.why # "stopped") => \A d \in dropped' : d.why # "stopped"
    BY <1>1, Dropping
<1>3. /\ Waiting = b \cup Items(queue') /\ Waiting' = Items(queue') \cup (b \ skipped)
      /\ Wrote' = Wrote /\ writing = {}
    BY <1>1 DEF Waiting, Wrote, Ready
<1>4. Waiting \subseteq 1 .. recorded /\ recorded \in Nat
    BY DEF SinkInv, SinkShape, EveryItemAccounted
<1>5. skipped \cap Items(queue') = {}
    BY <1>3, <1>4
<1>6. EveryItemAccounted'
    <2>1. (1 .. recorded = Waiting \cup Wrote \cup GivenUp)'
        BY <1>1, <1>2, <1>3, Zenon DEF SinkInv, EveryItemAccounted
    <2>2. (Waiting \cap (Wrote \cup GivenUp) = {} /\ Wrote \cap GivenUp = {})'
        BY <1>1, <1>2, <1>3, <1>5 DEF SinkInv, EveryItemAccounted
    <2>3. sink # "forward" => \A d \in dropped' : d.why # "stopped"
        BY <1>2, Zenon DEF SinkInv, EveryItemAccounted
    <2>4. \A i, j \in DOMAIN written' : i < j =>
              \A k \in written'[i], n \in written'[j] : k # n /\ (sink' # "forward" => k < n)
        <3>1. written' = written /\ sink' = sink
            OBVIOUS
        <3> QED
            BY <3>1, Zenon DEF SinkInv, EveryItemAccounted
    <2> QED
        BY <2>1, <2>2, <2>3, <2>4, Zenon DEF EveryItemAccounted
<1>7. SinkShape'
    BY DEF SinkInv, SinkShape
<1>8. Passing'
    BY <1>1, <1>3 DEF Passing
<1>9. Ending'
    BY <1>1, <1>3, Zenon DEF SinkInv, Ending
<1> QED
    BY <1>6, <1>7, <1>8, <1>9 DEF SinkInv

\* A step that writes nothing and drops nothing for the end of the task keeps
\* the order of the history.
LEMMA HistoryStays ==
    ASSUME SinkInv, written' = written, sink' = sink,
           (\A d \in dropped : d.why # "stopped") => \A d \in dropped' : d.why # "stopped"
    PROVE  /\ sink' # "forward" => \A d \in dropped' : d.why # "stopped"
           /\ \A i, j \in DOMAIN written' : i < j =>
                 \A k \in written'[i], n \in written'[j] : k # n /\ (sink' # "forward" => k < n)
BY DEF SinkInv, EveryItemAccounted

LEMMA Recording == ASSUME SinkInv, NEW c, Record(c) PROVE SinkInv'
<1> DEFINE item == recorded + 1
<1>1. recorded' = item /\ recorded \in Nat /\ UNCHANGED <<sink, batch, writing, written, gone>> /\ gone \in {"no", "ending"}
    BY DEF Record, SinkInv, SinkShape
<1>2. /\ Waiting \cup Wrote \cup GivenUp = 1 .. recorded /\ item \notin 1 .. recorded
      /\ 1 .. item = 1 .. recorded \cup {item} /\ \A n \in 1 .. recorded : n < item
    BY <1>1 DEF SinkInv, EveryItemAccounted
<1>3. Items(queue) \subseteq 1 .. recorded /\ batch \subseteq 1 .. recorded /\ writing \subseteq 1 .. recorded
    BY <1>2 DEF Waiting
<1>4. Wrote' = Wrote /\ \A i \in DOMAIN written : written[i] \subseteq 1 .. recorded
    BY <1>1, <1>2 DEF Wrote
<1>5. CASE queue' = Append(queue, item) /\ UNCHANGED dropped
    <2>1. /\ queue' \in Seq(Int) /\ Ordered(queue') /\ Items(queue') = Items(queue) \cup {item}
          /\ (\A i \in DOMAIN queue : queue[i] > 0) => \A i \in DOMAIN queue' : queue'[i] > 0
        <3>1. item \in Int /\ item > 0 /\ {item} \ {Flush, Shutdown} = {item} /\ queue \in Seq(Int) /\ Ordered(queue)
            BY <1>1 DEF SinkInv, SinkShape, Passing, Flush, Shutdown
        <3>2. \A n \in Items(queue) : n < item
            BY <1>2, <1>3
        <3> QED
            BY <1>5, <3>1, <3>2, Appending, Zenon
    <2>2. Waiting' = Waiting \cup {item} /\ GivenUp' = GivenUp
        BY <1>1, <1>5, <2>1 DEF Waiting, GivenUp
    <2>3. EveryItemAccounted'
        <3>1. (1 .. recorded = Waiting \cup Wrote \cup GivenUp)'
            BY <1>1, <1>2, <1>4, <2>2
        <3>2. (Waiting \cap (Wrote \cup GivenUp) = {} /\ Wrote \cap GivenUp = {})'
            BY <1>2, <1>4, <2>2 DEF SinkInv, EveryItemAccounted
        <3>3. written' = written /\ sink' = sink /\ dropped' = dropped /\ gone' # "stopped"
            BY <1>1, <1>5
        <3> QED
            BY <3>1, <3>2, <3>3, HistoryStays, Zenon DEF EveryItemAccounted
    <2>4. SinkShape'
        BY <1>1, <2>1 DEF SinkInv, SinkShape
    <2>5. Passing'
        BY <1>1, <1>2, <1>3, <2>1 DEF SinkInv, Passing
    <2>6. Ending'
        <3>1. \A i \in DOMAIN written, k \in Nat : k \in written[i] => k < item
            BY <1>2, <1>4
        <3>2. sink # "forward" => \A i \in DOMAIN written : \A k \in written[i], n \in Waiting' : k < n
            BY <1>2, <1>4, <2>2 DEF SinkInv, Ending
        <3> QED
            BY <1>1, <2>1, <3>2 DEF SinkInv, Ending
    <2> QED
        BY <2>3, <2>4, <2>5, <2>6 DEF SinkInv
<1>6. CASE UNCHANGED queue /\ dropped' = Drop({item}, "full")
    <2>1. /\ GivenUp' = GivenUp \cup {item} /\ Waiting' = Waiting
          /\ (\A d \in dropped : d.why # "stopped") => \A d \in dropped' : d.why # "stopped"
        <3>1. Waiting' = Waiting
            BY <1>1, <1>6 DEF Waiting
        <3> QED
            BY <1>6, <3>1, Dropping
    <2>2. EveryItemAccounted'
        <3>1. (1 .. recorded = Waiting \cup Wrote \cup GivenUp)'
            BY <1>1, <1>2, <1>4, <2>1
        <3>2. (Waiting \cap (Wrote \cup GivenUp) = {} /\ Wrote \cap GivenUp = {})'
            BY <1>2, <1>4, <2>1 DEF SinkInv, EveryItemAccounted
        <3>3. written' = written /\ sink' = sink /\ gone' # "stopped"
            BY <1>1
        <3> QED
            BY <2>1, <3>1, <3>2, <3>3, HistoryStays, Zenon DEF EveryItemAccounted
    <2>3. SinkShape' /\ Passing' /\ Ending'
        BY <1>1, <1>6, <2>1 DEF SinkInv, SinkShape, Passing, Ending
    <2> QED
        BY <2>2, <2>3 DEF SinkInv
<1> QED
    BY <1>5, <1>6 DEF Record

\* The items in the channel, the batch and the write have been recorded.
LEMMA WaitingItems ==
    ASSUME SinkInv
    PROVE  /\ Waiting \subseteq 1 .. recorded /\ recorded \in Nat
           /\ \A n \in Items(queue) \cup batch \cup writing : n \in Nat /\ n > 0
BY DEF SinkInv, SinkShape, EveryItemAccounted, Waiting

LEMMA TaskStep ==
    ASSUME SinkInv, RecvItem \/ RecvCommand \/ TickFlush \/ RecvClosed
    PROVE  SinkInv'
<1>1. queue \in Seq(Int) /\ Ordered(queue) /\ \A n \in Items(queue) \cup batch : n \in Nat /\ n > 0
    BY WaitingItems DEF SinkInv, SinkShape, Passing
<1>2. \A k \in batch, n \in Items(queue) : k < n
    BY DEF SinkInv, Passing
<1>3. /\ sink # "forward" => \A i \in DOMAIN queue : queue[i] > 0
      /\ sink # "forward" => gone # "ending"
    BY DEF SinkInv, Ending
<1>4. ASSUME queue # <<>>
      PROVE  /\ Tail(queue) \in Seq(Int) /\ Head(queue) \in Int /\ Ordered(Tail(queue))
             /\ Items(queue) = Items(Tail(queue)) \cup ({Head(queue)} \ {Flush, Shutdown})
             /\ Head(queue) > 0 => \A n \in Items(Tail(queue)) : Head(queue) < n
             /\ (\A i \in DOMAIN queue : queue[i] > 0) => \A i \in DOMAIN Tail(queue) : Tail(queue)[i] > 0
    BY <1>1, <1>4, Receiving, ZenonT(60)
<1>5. CASE RecvItem
    <2> DEFINE b == batch \cup {Head(queue)}
    <2>1. Ready /\ queue # <<>> /\ Head(queue) > 0 /\ queue' = Tail(queue) /\ UNCHANGED <<sink, recorded, class, written, gone>>
        BY <1>5 DEF RecvItem
    <2>2. b \cup Items(queue') = batch \cup Items(queue)
        <3>1. {Head(queue)} \ {Flush, Shutdown} = {Head(queue)}
            BY <2>1, <1>4 DEF Flush, Shutdown
        <3> QED
            BY <1>4, <2>1, <3>1
    <2>3. \A k \in b, n \in Items(queue') : k < n
        BY <1>2, <1>4, <2>1
    <2>4. CASE FlushOf(b)
        BY <1>3, <1>4, <2>1, <2>2, <2>3, <2>4, Flushing, ZenonT(60) DEF Ready
    <2>5. CASE batch' = b /\ UNCHANGED <<writing, dropped>>
        <3>1. Waiting' = Waiting /\ GivenUp' = GivenUp /\ Wrote' = Wrote
            BY <2>1, <2>2, <2>5 DEF Waiting, GivenUp, Wrote
        <3>2. EveryItemAccounted'
            <4>1. written' = written /\ sink' = sink /\ dropped' = dropped /\ recorded' = recorded /\ gone' = gone
                BY <2>1, <2>5
            <4> QED
                BY <3>1, <4>1 DEF SinkInv, EveryItemAccounted
        <3>3. SinkShape' /\ Passing'
            BY <1>4, <2>1, <2>3, <2>5 DEF SinkInv, SinkShape, Passing, Ready
        <3>4. Ending'
            BY <1>3, <1>4, <2>1, <3>1 DEF SinkInv, Ending, Ready
        <3> QED
            BY <3>2, <3>3, <3>4 DEF SinkInv
    <2> QED
        BY <1>5, <2>4, <2>5 DEF RecvItem
<1>6. CASE RecvCommand
    <2>1. Ready /\ queue # <<>> /\ Head(queue) <= 0 /\ queue' = Tail(queue) /\ UNCHANGED <<sink, recorded, class, written>>
        BY <1>6 DEF RecvCommand
    <2>2. sink = "forward"
        <3>1. 1 \in DOMAIN queue /\ Head(queue) = queue[1]
            BY <1>1, <2>1
        <3> QED
            BY <1>3, <1>4, <2>1, <3>1
    <2>3. Items(queue') = Items(queue)
        <3>1. Head(queue) \notin Items(queue)
            BY <1>1, <1>4, <2>1
        <3> QED
            BY <1>4, <2>1, <3>1, Zenon
    <2>4. gone' \in {"no", "closing", "ending", "flushing"}
        <3>1. Head(queue) \in {Flush, Shutdown}
            BY <1>4, <2>1, <2>3, <1>1
        <3> QED
            BY <1>6, <2>1, <3>1 DEF RecvCommand, Ready, Flush, Shutdown
    <2> QED
        BY <1>2, <1>4, <1>6, <2>1, <2>2, <2>3, <2>4, Flushing, Zenon DEF RecvCommand
<1>7. CASE TickFlush
    <2>1. Ready /\ FlushOf(batch) /\ UNCHANGED <<sink, recorded, queue, written, gone>>
        BY <1>7 DEF TickFlush, TickDue
    <2> QED
        BY <1>1, <1>2, <1>3, <2>1, Flushing DEF Ready
<1>8. CASE RecvClosed
    <2>1. Ready /\ queue = <<>> /\ gone' = "flushing" /\ UNCHANGED <<sink, recorded, class, queue, written>>
        BY <1>8 DEF RecvClosed
    <2>2. CASE FlushOf(batch)
        BY <1>1, <1>2, <1>3, <2>1, <2>2, Flushing
    <2>3. CASE sink = "forward" /\ batch' = {} /\ dropped' = Drop(batch, "stopped") /\ UNCHANGED writing
        <3>1. GivenUp' = GivenUp \cup batch /\ Waiting = batch /\ Waiting' = {} /\ Wrote' = Wrote
            <4>1. GivenUp' = GivenUp \cup batch
                BY <2>3, Dropping
            <4>2. Items(queue) = {} /\ Items(queue') = {}
                BY <2>1 DEF Items
            <4> QED
                BY <2>1, <2>3, <4>1, <4>2 DEF Waiting, Wrote, Ready
        <3>2. EveryItemAccounted'
            <4>1. (1 .. recorded = Waiting \cup Wrote \cup GivenUp)'
                BY <2>1, <3>1, Zenon DEF SinkInv, EveryItemAccounted
            <4>2. (Waiting \cap (Wrote \cup GivenUp) = {} /\ Wrote \cap GivenUp = {})'
                BY <3>1 DEF SinkInv, EveryItemAccounted
            <4> QED
                BY <2>1, <2>3, <3>1, <4>1, <4>2, Zenon DEF SinkInv, EveryItemAccounted
        <3>3. SinkShape' /\ Passing' /\ Ending'
            BY <2>1, <2>3, <3>1 DEF SinkInv, SinkShape, Passing, Ending, Ready, Items
        <3> QED
            BY <3>2, <3>3 DEF SinkInv
    <2> QED
        BY <1>8, <2>2, <2>3 DEF RecvClosed
<1> QED
    BY <1>5, <1>6, <1>7, <1>8

\* A write or an acknowledgement settles items of the flush: those it reached
\* are written, those it gives up are dropped, and the rest stays.
Settles(did, lost) ==
    /\ did \subseteq writing /\ lost \subseteq writing /\ did \cap lost = {}
    /\ written' = Append(written, did) \/ (written' = written /\ did = {})
    /\ writing' = writing \ (did \cup lost) /\ (sink # "forward" => writing' = {})
    /\ GivenUp' = GivenUp \cup lost
    /\ (\A d \in dropped : d.why # "stopped") => \A d \in dropped' : d.why # "stopped"
    /\ sink' = sink /\ recorded' = recorded /\ queue' = queue /\ batch' = batch /\ gone' = gone

LEMMA Settlement ==
    ASSUME SinkInv, NEW did, NEW lost, Settles(did, lost)
    PROVE  SinkInv'
<1>a. /\ did \subseteq writing /\ lost \subseteq writing /\ did \cap lost = {}
      /\ written' = Append(written, did) \/ (written' = written /\ did = {})
      /\ writing' = writing \ (did \cup lost) /\ (sink # "forward" => writing' = {})
      /\ GivenUp' = GivenUp \cup lost
      /\ (\A d \in dropped : d.why # "stopped") => \A d \in dropped' : d.why # "stopped"
    BY Zenon DEF Settles
<1>b. sink' = sink /\ recorded' = recorded /\ queue' = queue /\ batch' = batch /\ gone' = gone
    BY Zenon DEF Settles
<1>1. /\ \A n \in Items(queue) \cup batch \cup writing : n \in Nat
      /\ \A k \in writing, n \in Items(queue) \cup batch : k < n
      /\ did \in SUBSET Nat
    BY <1>a, <1>b, WaitingItems, ZenonT(60) DEF SinkInv, Passing
<1>2. /\ written' \in Seq(SUBSET Nat) /\ \A i \in DOMAIN written : i \in DOMAIN written' /\ written'[i] = written[i]
      /\ \A i \in DOMAIN written' : i \in DOMAIN written \/ written'[i] = did
      /\ \A i, j \in DOMAIN written' : i < j => i \in DOMAIN written
    <2>1. written \in Seq(SUBSET Nat)
        BY <1>a, <1>b DEF SinkInv, SinkShape
    <2>2. CASE written' = written
        BY <1>a, <1>b, <2>1, <2>2
    <2>3. CASE written' = Append(written, did)
        BY <1>a, <1>b, <1>1, <2>1, <2>3
    <2> QED
        BY <1>a, <1>b, <2>2, <2>3
<1>3. Wrote' = Wrote \cup did
    <2>1. Wrote \subseteq Wrote'
        BY <1>a, <1>b, <1>2 DEF Wrote
    <2>2. Wrote' \subseteq Wrote \cup did
        BY <1>a, <1>b, <1>2 DEF Wrote
    <2>3. did \subseteq Wrote'
        <3>1. CASE did = {}
            BY <1>a, <1>b, <3>1
        <3>2. CASE written' = Append(written, did)
            <4>1. Len(written) + 1 \in DOMAIN written' /\ written'[Len(written) + 1] = did
                BY <1>a, <1>b, <3>2 DEF SinkInv, SinkShape
            <4> QED
                BY <1>a, <1>b, <4>1 DEF Wrote
        <3> QED
            BY <1>a, <1>b, <3>1, <3>2
    <2> QED
        BY <1>a, <1>b, <2>1, <2>2, <2>3
<1>4. Waiting' = Waiting \ (did \cup lost) /\ writing \subseteq Waiting
    <2>1. writing \cap (Items(queue) \cup batch) = {}
        BY <1>a, <1>b, <1>1
    <2> QED
        BY <1>a, <1>b, <2>1 DEF Waiting
<1>5. Waiting' \subseteq Waiting /\ did \subseteq Waiting /\ lost \subseteq Waiting
    BY <1>a, <1>b, <1>4
<1>6. EveryItemAccounted'
    <2>1. (1 .. recorded = Waiting \cup Wrote \cup GivenUp)'
        BY <1>a, <1>b, <1>3, <1>4, <1>5 DEF SinkInv, EveryItemAccounted
    <2>2. (Waiting \cap (Wrote \cup GivenUp) = {} /\ Wrote \cap GivenUp = {})'
        BY <1>a, <1>b, <1>3, <1>4, <1>5 DEF SinkInv, EveryItemAccounted
    <2>3. ASSUME NEW i \in DOMAIN written', NEW j \in DOMAIN written', i < j, NEW k \in written'[i], NEW n \in written'[j]
          PROVE  k # n /\ (sink' # "forward" => k < n)
        <3>1. i \in DOMAIN written /\ k \in written[i] /\ k \in Wrote
            BY <1>a, <1>b, <1>2, <2>3 DEF Wrote
        <3>2. CASE j \in DOMAIN written
            <4>1. n \in written[j]
                BY <1>a, <1>b, <1>2, <2>3, <3>2, ZenonT(60)
            <4> QED
                BY <1>a, <1>b, <2>3, <3>1, <3>2, <4>1, ZenonT(60) DEF SinkInv, EveryItemAccounted
        <3>3. CASE n \in Waiting
            BY <1>a, <1>b, <3>1, <3>3, ZenonT(60) DEF SinkInv, Ending, EveryItemAccounted
        <3> QED
            BY <1>a, <1>b, <1>2, <1>5, <2>3, <3>2, <3>3, ZenonT(60)
    <2>4. gone' = "stopped" => Waiting' = {}
        BY <1>a, <1>b, <1>5 DEF SinkInv, EveryItemAccounted
    <2>5. sink' # "forward" => \A d \in dropped' : d.why # "stopped"
        BY <1>a, <1>b, Zenon DEF SinkInv, EveryItemAccounted
    <2> QED
        BY <1>a, <1>b, <2>1, <2>2, <2>3, <2>4, <2>5, Zenon DEF EveryItemAccounted
<1>7. SinkShape'
    BY <1>a, <1>b, <1>2, ZenonT(60) DEF SinkInv, SinkShape
<1>8. Passing'
    BY <1>a, <1>b DEF SinkInv, Passing
<1>9. Ending'
    <2>1. ASSUME sink # "forward", NEW i \in DOMAIN written', NEW k \in written'[i], NEW n \in Waiting' PROVE k < n
        <3>1. CASE i \in DOMAIN written
            BY <1>a, <1>b, <1>2, <1>5, <2>1, <3>1, ZenonT(60) DEF SinkInv, Ending
        <3>2. CASE k \in did
            <4>1. n \in Items(queue) \cup batch
                BY <1>a, <1>b, <2>1 DEF Waiting
            <4> QED
                BY <1>a, <1>b, <1>1, <3>2, <4>1, ZenonT(60)
        <3> QED
            BY <1>a, <1>b, <1>2, <2>1, <3>1, <3>2, SMTT(60)
    <2> QED
        BY <1>a, <1>b, <2>1, SMTT(60) DEF SinkInv, Ending
<1> QED
    BY <1>6, <1>7, <1>8, <1>9 DEF SinkInv

\* A write of the history, or an acknowledgement, ends.
LEMMA WriteStep ==
    ASSUME SinkInv, (\E o \in Outcome : Written(o)) \/ (\E o \in Outcome, s \in {"good", "bad"} : Ack(s, o))
    PROVE  SinkInv'
<1>1. ASSUME NEW o \in Outcome, Written(o) PROVE SinkInv'
    <2> DEFINE unowned == {k \in writing : sink = "pg" /\ class[k] = "bad"}
    <2>1. writing' = {} /\ UNCHANGED <<sink, recorded, queue, batch, gone>>
        BY <1>1 DEF Written
    <2>2. CASE o = "unapplied"
        <3>1. written' = written /\ dropped' = Drop(writing, "failed")
            BY <1>1, <2>2 DEF Written
        <3> QED
            <4>1. Settles({}, writing)
                BY <2>1, <3>1, Dropping DEF Settles
            <4> QED
                BY <4>1, Settlement
    <2>3. CASE o # "unapplied"
        <3>1. written' = Append(written, writing \ unowned) /\ dropped' = Drop(unowned, "unattributed") /\ unowned \in SUBSET writing
            BY <1>1, <2>3 DEF Written
        <3> HIDE DEF unowned
        <3>2. /\ GivenUp' = GivenUp \cup unowned
              /\ (\A d \in dropped : d.why # "stopped") => \A d \in dropped' : d.why # "stopped"
            BY <3>1, Dropping
        <3>3. Settles(writing \ unowned, unowned)
            BY <2>1, <3>1, <3>2 DEF Settles
        <3> QED
            BY <3>3, Settlement
    <2> QED
        BY <2>2, <2>3
<1>2. ASSUME NEW o \in Outcome, NEW s \in {"good", "bad"}, Ack(s, o) PROVE SinkInv'
    <2> DEFINE ids == {k \in writing : class[k] = s}
    <2>1. sink = "forward" /\ ids \in SUBSET writing /\ UNCHANGED <<sink, recorded, queue, batch, gone>>
        BY <1>2 DEF Ack
    <2>2. CASE o = "ok"
        <3>1. written' = Append(written, ids) /\ UNCHANGED dropped /\ writing' = writing \ ids
            BY <1>2, <2>2 DEF Ack
        <3>2. GivenUp' = GivenUp \cup {}
            BY <3>1 DEF GivenUp
        <3> HIDE DEF ids
        <3> QED
            <4>1. Settles(ids, {})
                BY <2>1, <3>1, <3>2 DEF Settles
            <4> QED
                BY <4>1, Settlement
    <2>3. CASE o = "lost"
        <3>1. written' = Append(written, ids) /\ dropped' = Drop(writing \ ids, "failed") /\ writing' = {}
            BY <1>2, <2>3 DEF Ack
        <3> HIDE DEF ids
        <3>2. GivenUp' = GivenUp \cup (writing \ ids)
            BY <3>1, Dropping, Zenon
        <3>3. (\A d \in dropped : d.why # "stopped") => \A d \in dropped' : d.why # "stopped"
            <4>1. "failed" # "stopped"
                OBVIOUS
            <4> QED
                BY <3>1, <4>1, Dropping, Zenon
        <3> QED
            <4>1. Settles(ids, writing \ ids)
                BY <2>1, <3>1, <3>2, <3>3, Zenon DEF Settles
            <4> QED
                BY <4>1, Settlement
    <2>4. CASE o = "unapplied"
        <3>1. written' = written /\ dropped' = Drop(writing, "failed") /\ writing' = {}
            BY <1>2, <2>4 DEF Ack
        <3> QED
            <4>1. Settles({}, writing)
                BY <2>1, <3>1, Dropping DEF Settles
            <4> QED
                BY <4>1, Settlement
    <2> QED
        BY <2>2, <2>3, <2>4 DEF Outcome
<1> QED
    BY <1>1, <1>2

LEMMA SinkStepInv == SinkInv /\ [SinkNext]_sinkvars => SinkInv'
<1> SUFFICES ASSUME SinkInv, [SinkNext]_sinkvars PROVE SinkInv'
    OBVIOUS
<1>1. ASSUME NEW c \in {"good", "bad"}, Record(c) PROVE SinkInv'
    BY <1>1, Recording, ZenonT(60)
<1>2. ASSUME NEW c \in {Flush, Shutdown}, Command(c) PROVE SinkInv'
    <2>1. sink = "forward" /\ gone = "no" /\ queue' = Append(queue, c) /\ c \in Int /\ ~(c > 0) /\ {c} \ {Flush, Shutdown} = {}
        BY <1>2 DEF Command, Flush, Shutdown
    <2>2. queue' \in Seq(Int) /\ Ordered(queue') /\ Items(queue') = Items(queue)
        <3>1. queue \in Seq(Int) /\ Ordered(queue)
            BY DEF SinkInv, SinkShape, Passing
        <3> QED
            <4>1. /\ Append(queue, c) \in Seq(Int) /\ Ordered(Append(queue, c))
                  /\ Items(Append(queue, c)) = Items(queue) \cup ({c} \ {Flush, Shutdown})
                BY <2>1, <3>1, Appending, Zenon
            <4> QED
                BY <2>1, <4>1
    <2>3. UNCHANGED <<sink, recorded, batch, writing, written, dropped, gone>>
        BY <1>2, ZenonT(60) DEF Command
    <2>4. Waiting' = Waiting /\ Wrote' = Wrote /\ GivenUp' = GivenUp
        BY <2>2, <2>3 DEF Waiting, Wrote, GivenUp
    <2> QED
        BY <2>1, <2>2, <2>3, <2>4 DEF SinkInv, SinkShape, Passing, Ending, EveryItemAccounted
<1>3. CASE Close
    <2>1. /\ sink' = sink /\ recorded' = recorded /\ queue' = queue /\ batch' = batch /\ writing' = writing
          /\ written' = written /\ dropped' = dropped /\ gone' = "closing"
        BY <1>3 DEF Close
    <2>2. Waiting' = Waiting /\ Wrote' = Wrote /\ GivenUp' = GivenUp
        BY <2>1, Zenon DEF Waiting, Wrote, GivenUp
    <2>3. EveryItemAccounted'
        BY <2>1, <2>2 DEF SinkInv, EveryItemAccounted
    <2>4. SinkShape' /\ Passing' /\ Ending'
        BY <2>1, <2>2 DEF SinkInv, SinkShape, Passing, Ending
    <2> QED
        BY <2>3, <2>4 DEF SinkInv
<1>4. CASE RecvItem \/ RecvCommand \/ TickFlush \/ RecvClosed
    BY <1>4, TaskStep
<1>5. CASE Return
    <2>1. /\ writing = {} /\ batch = {} /\ gone \in {"ending", "flushing"} /\ gone' = "stopped" /\ queue' = <<>>
          /\ dropped' = Drop(Items(queue), "stopped") /\ UNCHANGED <<sink, recorded, batch, writing, written>>
        BY <1>5 DEF Return, SinkInv, Ending
    <2>2. GivenUp' = GivenUp \cup Items(queue)
        BY <2>1, Dropping, ZenonT(60)
    <2>3. Waiting = Items(queue) /\ Waiting' = {} /\ Wrote' = Wrote /\ Items(queue') = {}
        BY <2>1 DEF Waiting, Wrote, Items
    <2>4. sink # "forward" => dropped' = dropped
        BY <2>1 DEF SinkInv, Ending, Drop, Items
    <2>5. EveryItemAccounted'
        <3>1. (1 .. recorded = Waiting \cup Wrote \cup GivenUp)'
            BY <2>1, <2>2, <2>3, Zenon DEF SinkInv, EveryItemAccounted
        <3>2. (Waiting \cap (Wrote \cup GivenUp) = {} /\ Wrote \cap GivenUp = {})'
            BY <2>2, <2>3 DEF SinkInv, EveryItemAccounted
        <3> QED
            BY <2>1, <2>3, <2>4, <3>1, <3>2, Zenon DEF SinkInv, EveryItemAccounted
    <2>6. SinkShape'
        BY <2>1 DEF SinkInv, SinkShape
    <2>7. Passing'
        BY <2>1, <2>3 DEF Passing, Ordered
    <2>8. Ending'
        BY <2>1, <2>3 DEF Ending
    <2> QED
        BY <2>5, <2>6, <2>7, <2>8 DEF SinkInv
<1>6. CASE (\E o \in Outcome : Written(o)) \/ (\E o \in Outcome, s \in {"good", "bad"} : Ack(s, o))
    BY <1>6, WriteStep
<1>7. CASE UNCHANGED sinkvars
    <2>1. /\ sink' = sink /\ recorded' = recorded /\ queue' = queue /\ batch' = batch /\ writing' = writing
          /\ written' = written /\ dropped' = dropped /\ gone' = gone
        BY <1>7 DEF sinkvars
    <2>2. Waiting' = Waiting /\ Wrote' = Wrote /\ GivenUp' = GivenUp
        BY <2>1, Zenon DEF Waiting, Wrote, GivenUp
    <2> QED
        BY <2>1, <2>2, ZenonT(60) DEF SinkInv, SinkShape, Passing, Ending, EveryItemAccounted
<1> QED
    BY <1>1, <1>2, <1>3, <1>4, <1>5, <1>6, <1>7, Zenon DEF SinkNext, WorkerStep

\* Every item handed to a batcher waits, is written once, in order for the
\* history, or was given up for a reason (InfluxWriter::record and run,
\* PgReadingsWriter, BatchWorker::run), whatever the capacity, the batch size,
\* the failures of the database and the number of items.
THEOREM ItemsAreAccounted == SinkSpec => []EveryItemAccounted
<1>1. SinkInv => EveryItemAccounted
    BY DEF SinkInv
<1> QED
    BY <1>1, SinkInitInv, SinkStepInv, PTL DEF SinkSpec

-----------------------------------------------------------------------------
(* The billing bins. *)

USE AggregatorAssumption

\* Adding a reading keeps a bin a bin.
LEMMA AddedType ==
    ASSUME NEW b \in Bin, NEW r \in Reading
    PROVE  Added(b, r) \in Bin
BY DEF Added, Bin

\* A window start lies on the grid of windows.
LEMMA WindowStartType ==
    ASSUME NEW t \in Time
    PROVE  IsStart(get_window_start(t))
<1>1. t \in Nat
  BY DEF Time
<1>2. PICK q \in Int : q = t \div Width
  BY <1>1
<1>3. q * Width \in Int /\ (q * Width) % Width = 0
  OBVIOUS
<1> QED
  BY <1>2, <1>3 DEF get_window_start, IsStart

\* A reading moves its meter's watermark forward or leaves it, and no other's.
LEMMA AdvanceFacts ==
    ASSUME TypeOK, NEW m \in Meter, NEW t \in Time
    PROVE  /\ DOMAIN Advance(m, t) = DOMAIN progress \cup {m}
           /\ Advance(m, t) \in [DOMAIN progress \cup {m} ->
                                    [watermark : Int, last : Int]]
           /\ \A n \in DOMAIN progress :
                Advance(m, t)[n].watermark >= progress[n].watermark
BY DEF TypeOK, Advance, Time

\* The progress map stays well typed.
LEMMA ProgressType ==
    ASSUME TypeOK, NEW m \in Meter, NEW t \in Time, progress' = Advance(m, t)
    PROVE  /\ DOMAIN progress' \subseteq Meter
           /\ progress' \in [DOMAIN progress' -> [watermark : Int, last : Int]]
<1>1. DOMAIN progress' = DOMAIN progress \cup {m}
  BY AdvanceFacts, Zenon
<1>2. progress' \in [DOMAIN progress \cup {m} -> [watermark : Int, last : Int]]
  BY AdvanceFacts
<1> QED
  BY <1>1, <1>2 DEF TypeOK

\* No watermark recedes.
LEMMA WatermarkAdvances ==
    ASSUME TypeOK, NEW m \in Meter, NEW t \in Time, progress' = Advance(m, t)
    PROVE  /\ DOMAIN progress \subseteq DOMAIN progress'
           /\ \A n \in DOMAIN progress :
                progress'[n].watermark >= progress[n].watermark
<1>1. /\ DOMAIN progress' = DOMAIN progress \cup {m}
      /\ \A n \in DOMAIN progress :
            progress'[n].watermark >= progress[n].watermark
  BY AdvanceFacts, Zenon
<1> QED
  BY <1>1

\* What remove_bins leaves of the bins.
LEMMA RemoveBinsFacts ==
    ASSUME TypeOK, NEW keys, remove_bins(keys)
    PROVE  /\ DOMAIN bins' = DOMAIN bins \ keys
           /\ \A k \in DOMAIN bins' : bins'[k] = bins[k]
           /\ bins' \in [DOMAIN bins' -> Bin]
BY DEF TypeOK, remove_bins, Restrict

\* The state of the aggregator is well typed.
THEOREM TypeCorrect == Spec => []TypeOK
<1>1. Init => TypeOK
  <2> SUFFICES ASSUME Init PROVE TypeOK
    OBVIOUS
  <2>1. Restored \subseteq Bin
    <3>1. EmptyBin \in Bin
      BY DEF EmptyBin, Bin
    <3> QED
      BY <3>1, AddedType DEF Restored
  <2>2. DOMAIN bins \subseteq Key /\ bins \in [DOMAIN bins -> Bin]
    BY <2>1 DEF Init, Key, Start, Time
  <2> QED
    BY <2>2 DEF Init, TypeOK, Time
<1>2. TypeOK /\ [Next]_vars => TypeOK'
  <2> SUFFICES ASSUME TypeOK, [Next]_vars PROVE TypeOK'
    BY ZenonT(60)
  <2>1. ASSUME NEW m \in Meter, NEW t \in Time, NEW r \in Reading, Accept(m, t, r)
        PROVE  TypeOK'
    <3> DEFINE k == <<m, get_window_start(t)>>
               b == Added(BinAt(k), r)
    <3>1. k \in Key
      BY WindowStartType DEF Key, IsStart
    <3>2. b \in Bin
      <4>1. BinAt(k) \in Bin
        BY DEF BinAt, EmptyBin, Bin, TypeOK
      <4> QED
        BY <4>1, AddedType
    <3>3. /\ DOMAIN bins' = DOMAIN bins \cup {k}
          /\ bins' = [x \in DOMAIN bins \cup {k} |-> IF x = k THEN b ELSE bins[x]]
      BY <2>1, Zenon DEF Accept
    <3> HIDE DEF k, b
    <3>4. bins' \in [DOMAIN bins' -> Bin] /\ DOMAIN bins' \subseteq Key
      BY <3>1, <3>2, <3>3, ZenonT(60) DEF TypeOK
    <3> QED
      BY <2>1, <3>4, ProgressType, SMTT(30), ZenonT(60) DEF Accept, TypeOK
  <2>2. ASSUME NEW m \in Meter, NEW t \in Time, DropLate(m, t)
        PROVE  TypeOK'
    BY <2>2, ProgressType DEF DropLate, TypeOK
  <2>3. CASE Sweep
    <3>1. settled' \in [Meter -> SUBSET {w \in Int : IsStart(w)}]
      BY <2>3 DEF Sweep, remove_bins, Remembered, TypeOK, peek_completed_bins, Key
    <3>2. peek_completed_bins(Grace) \subseteq Key
      BY DEF peek_completed_bins, TypeOK
    <3> QED
      BY <2>3, <3>1, <3>2, RemoveBinsFacts, Zenon DEF Sweep, TypeOK
  <2>4. CASE Tick
    BY <2>4 DEF Tick, TypeOK
  <2>5. CASE UNCHANGED vars
    BY <2>5 DEF vars, TypeOK
  <2> QED
    BY <2>1, <2>2, <2>3, <2>4, <2>5 DEF Next, HandleReading
<1> QED
  BY <1>1, <1>2, PTL DEF Spec

-----------------------------------------------------------------------------
\* A settled window is remembered until the watermark is past it by the
\* retention, and no window is open and remembered at once.
LEMMA SettledMemoryStep ==
    ASSUME TypeOK, SettledMemory, [Next]_vars
    PROVE  SettledMemory'
<1>1. ASSUME NEW m \in Meter, NEW t \in Time, NEW r \in Reading, Accept(m, t, r)
      PROVE  SettledMemory'
  <2>1. /\ DOMAIN bins' = DOMAIN bins \cup {<<m, get_window_start(t)>>}
        /\ get_window_start(t) \notin settled[m]
        /\ UNCHANGED <<settled, swept>>
    BY <1>1, Zenon DEF Accept
  <2>2. /\ DOMAIN progress \subseteq DOMAIN progress'
        /\ \A n \in DOMAIN progress :
            progress'[n].watermark >= progress[n].watermark
    <3>1. progress' = Advance(m, t)
      BY <1>1, Zenon DEF Accept
    <3> QED
      BY <3>1, WatermarkAdvances
  <2>3. \A k \in DOMAIN bins' : k[2] \notin settled'[k[1]]
    BY <2>1, SMTT(60) DEF SettledMemory
  <2> QED
    BY <2>1, <2>2, <2>3, <1>1, ProgressType DEF Accept, SettledMemory, TypeOK, Key
<1>2. ASSUME NEW m \in Meter, NEW t \in Time, DropLate(m, t)
      PROVE  SettledMemory'
  <2>1. /\ DOMAIN progress \subseteq DOMAIN progress'
        /\ \A n \in DOMAIN progress :
            progress'[n].watermark >= progress[n].watermark
    BY <1>2, WatermarkAdvances, Zenon DEF DropLate
  <2> QED
    BY <2>1, <1>2, ProgressType DEF DropLate, SettledMemory, TypeOK, Key
<1>3. CASE Sweep
  <2> DEFINE keys == peek_completed_bins(Grace)
  <2>1. /\ remove_bins(keys) /\ swept' = swept \cup keys
        /\ UNCHANGED progress
    BY <1>3 DEF Sweep
  <2>2. keys \subseteq DOMAIN bins
    BY DEF peek_completed_bins
  <2>3. /\ DOMAIN bins' = DOMAIN bins \ keys
        /\ settled' = [m \in Meter |-> Remembered(m, keys)]
    BY <2>1, RemoveBinsFacts, Zenon DEF remove_bins
  <2> HIDE DEF keys
  <2>4. ASSUME NEW k \in DOMAIN bins' PROVE k[2] \notin settled'[k[1]]
    <3>1. k \in DOMAIN bins /\ k \notin keys /\ k[1] \in Meter
      BY <2>3 DEF TypeOK, Key
    <3>2. DOMAIN bins \subseteq Meter \X Int
      BY DEF TypeOK, Key
    <3>3. \A x \in keys : x[1] = k[1] => x[2] # k[2]
      BY <2>2, <3>1, <3>2, SMTT(60)
    <3> QED
      BY <2>3, <3>1, <3>3 DEF Remembered, SettledMemory
  <2>5. ASSUME NEW k \in swept'
        PROVE  \/ k[2] \in settled'[k[1]]
               \/ /\ k[1] \in DOMAIN progress'
                  /\ k[2] < progress'[k[1]].watermark - Retention
    <3>1. k[1] \in Meter /\ k[2] \in Int
      BY <2>1, <2>2, ZenonT(60) DEF TypeOK, Key
    <3>2. CASE k[1] \in DOMAIN progress
               /\ k[2] < progress[k[1]].watermark - Retention
      BY <3>2, <2>1, ZenonT(60)
    <3>3. CASE ~(k[1] \in DOMAIN progress
                 /\ k[2] < progress[k[1]].watermark - Retention)
      <4>1. k[2] \in settled[k[1]] \/ k \in keys
        BY <3>3, <2>1 DEF SettledMemory
      <4>2. k[1] \in DOMAIN progress =>
                k[2] >= progress[k[1]].watermark - Retention
        BY <3>1, <3>3, SMTT(60) DEF TypeOK
      <4>3. k[2] \in Remembered(k[1], keys)
        BY <4>1, <4>2 DEF Remembered
      <4> QED
        BY <4>3, <3>1, <2>3
    <3> QED
      BY <3>2, <3>3
  <2> QED
    BY <2>4, <2>5 DEF SettledMemory
<1>4. CASE Tick
  BY <1>4 DEF Tick, SettledMemory
<1>5. CASE UNCHANGED vars
  BY <1>5 DEF vars, SettledMemory
<1> QED
  BY <1>1, <1>2, <1>3, <1>4, <1>5, ZenonT(60) DEF Next, HandleReading

\* A straggler re-creates the bin of a window this process has settled only if
\* the window lies further back than the retention (remove_bins).
THEOREM NoReopening == Spec => []ReopenedOnlyBeyondRetention
<1>1. Init => SettledMemory
  BY DEF Init, SettledMemory, Start
<1>2. TypeOK /\ SettledMemory /\ [Next]_vars => SettledMemory'
  BY SettledMemoryStep
<1>3. SettledMemory => ReopenedOnlyBeyondRetention
  BY DEF SettledMemory, ReopenedOnlyBeyondRetention
<1> QED
  BY <1>1, <1>2, <1>3, TypeCorrect, PTL DEF Spec

\* A meter that is not taken for idle loses no reading that is late by less than
\* the grace (peek_completed_bins_at and the late-arrival check).
THEOREM GraceIsHonoured == Spec => []LateOnlyBeyondGrace
<1>1. Init => LateOnlyBeyondGrace
  BY DEF Init, LateOnlyBeyondGrace
<1>2. TypeOK /\ LateOnlyBeyondGrace /\ [Next]_vars => LateOnlyBeyondGrace'
  <2> SUFFICES ASSUME TypeOK, LateOnlyBeyondGrace, [Next]_vars
               PROVE  LateOnlyBeyondGrace'
    OBVIOUS
  <2>1. ASSUME NEW m \in Meter, NEW t \in Time, progress' = Advance(m, t),
               UNCHANGED <<settled, byClock>>
        PROVE  LateOnlyBeyondGrace'
    <3>1. /\ DOMAIN progress \subseteq DOMAIN progress'
          /\ \A n \in DOMAIN progress :
                progress'[n].watermark >= progress[n].watermark
      BY <2>1, WatermarkAdvances
    <3>2. progress' \in [DOMAIN progress' -> [watermark : Int, last : Int]]
      BY <2>1, ProgressType
    <3>3. ASSUME NEW n \in Meter, NEW w \in settled[n], n \in DOMAIN progress,
                 progress[n].watermark >= w + Width + Grace
          PROVE  progress'[n].watermark >= w + Width + Grace
      <4>1. /\ w \in Int
            /\ progress[n].watermark \in Int /\ progress'[n].watermark \in Int
        BY <3>1, <3>2, <3>3 DEF TypeOK
      <4>2. progress'[n].watermark >= progress[n].watermark
        BY <3>1, <3>3
      <4> QED
        BY <4>1, <4>2, <3>3
    <3> QED
      BY <2>1, <3>1, <3>3, Zenon DEF LateOnlyBeyondGrace
  <2>2. CASE Sweep
    <3> DEFINE keys == peek_completed_bins(Grace)
    <3>1. /\ byClock' = byClock \cup {k \in keys : ~PastWatermark(k, Grace)}
          /\ settled' = [m \in Meter |-> Remembered(m, keys)]
          /\ UNCHANGED progress
      BY <2>2 DEF Sweep, remove_bins
    <3>2. keys \subseteq Key
      BY ZenonT(60) DEF peek_completed_bins, TypeOK
    <3> HIDE DEF keys
    <3>3. ASSUME NEW m \in Meter, NEW w \in settled'[m]
          PROVE  \/ w \in settled[m]
                 \/ <<m, w>> \in keys
      BY <3>1, <3>2 DEF Remembered, Key
    <3>4. ASSUME NEW m \in Meter, NEW w \in settled'[m], <<m, w>> \in keys
          PROVE  \/ <<m, w>> \in byClock'
                 \/ /\ m \in DOMAIN progress'
                    /\ progress'[m].watermark >= w + Width + Grace
      BY <3>1, <3>4 DEF PastWatermark, End
    <3> QED
      BY <3>1, <3>3, <3>4, Zenon DEF LateOnlyBeyondGrace
  <2>3. CASE Tick
    BY <2>3, Zenon DEF Tick, LateOnlyBeyondGrace
  <2>4. CASE UNCHANGED vars
    BY <2>4, Zenon DEF vars, LateOnlyBeyondGrace
  <2> QED
    BY <2>1, <2>2, <2>3, <2>4, ZenonT(60) DEF Next, HandleReading, Accept, DropLate
<1> QED
  BY <1>1, <1>2, TypeCorrect, PTL DEF Spec

\* The tariff buckets of a bin never add up to more than its totals
\* (handle_reading).
THEOREM SplitIsBounded == Spec => []SplitWithinTotals
<1> DEFINE Split(b) == b.genPeak + b.genOff <= b.gen /\ b.consPeak + b.consOff <= b.cons
<1>1. ASSUME NEW b \in Bin, NEW r \in Reading, Split(b)
      PROVE  Split(Added(b, r))
  <2> DEFINE s == Added(b, r)
  <2>1. b.gen \in Nat /\ b.cons \in Nat /\ b.genPeak \in Nat /\ b.genOff \in Nat /\ b.consPeak \in Nat /\ b.consOff \in Nat
    BY DEF Bin
  <2>2. r.gen \in Nat /\ r.cons \in Nat
    OBVIOUS
  <2>3. /\ s.gen = b.gen + r.gen /\ s.cons = b.cons + r.cons
        /\ s.genPeak = (IF r.tariff = 1 THEN b.genPeak + r.gen ELSE b.genPeak)
        /\ s.genOff = (IF r.tariff = 2 THEN b.genOff + r.gen ELSE b.genOff)
        /\ s.consPeak = (IF r.tariff = 1 THEN b.consPeak + r.cons ELSE b.consPeak)
        /\ s.consOff = (IF r.tariff = 2 THEN b.consOff + r.cons ELSE b.consOff)
    BY Zenon DEF Added
  <2> HIDE DEF s
  <2>4. Split(s)
    BY <1>1, <2>1, <2>2, <2>3, SMTT(60)
  <2> QED
    BY <2>4 DEF s
<1>2. EmptyBin \in Bin /\ Split(EmptyBin)
  BY SMTT(60) DEF EmptyBin, Bin
<1>3. Init => SplitWithinTotals
  <2> SUFFICES ASSUME Init, NEW k \in DOMAIN bins PROVE Split(bins[k])
    BY DEF SplitWithinTotals
  <2>1. PICK r \in Reading : bins[k] = Added(EmptyBin, r)
    BY ZenonT(60) DEF Init, Restored
  <2> QED
    BY <2>1, <1>1, <1>2, SMTT(60)
<1>4. TypeOK /\ SplitWithinTotals /\ [Next]_vars => SplitWithinTotals'
  <2> SUFFICES ASSUME TypeOK, SplitWithinTotals, [Next]_vars
               PROVE  SplitWithinTotals'
    OBVIOUS
  <2>1. ASSUME NEW m \in Meter, NEW t \in Time, NEW r \in Reading, Accept(m, t, r)
        PROVE  SplitWithinTotals'
    <3> DEFINE k == <<m, get_window_start(t)>>
               b == Added(BinAt(k), r)
    <3>1. Split(b)
      <4>1. BinAt(k) \in Bin /\ Split(BinAt(k))
        BY <1>2, SMTT(60) DEF BinAt, TypeOK, SplitWithinTotals
      <4> QED
        BY <4>1, <1>1, ZenonT(60)
    <3>2. bins' = [x \in DOMAIN bins \cup {k} |-> IF x = k THEN b ELSE bins[x]]
      BY <2>1, ZenonT(60) DEF Accept
    <3> HIDE DEF k, b
    <3> QED
      BY <3>1, <3>2, ZenonT(60) DEF SplitWithinTotals
  <2>2. CASE Sweep
    BY <2>2, RemoveBinsFacts, Zenon DEF Sweep, SplitWithinTotals
  <2>3. ASSUME UNCHANGED bins PROVE SplitWithinTotals'
    BY <2>3 DEF SplitWithinTotals
  <2> QED
    BY <2>1, <2>2, <2>3, ZenonT(60) DEF Next, HandleReading, DropLate, Tick, vars
<1> QED
  BY <1>3, <1>4, TypeCorrect, PTL DEF Spec

-----------------------------------------------------------------------------
(* The Kafka producer. *)

SenderState == [pc : {"idle", "clone", "sending", "try", "recheck", "build"},
                of : {"current", "old"}, dead : BOOLEAN]

\* The lock has one holder, who is between try_write and its release, and the
\* failures counted against the producer are at least the consecutive ones.
EarnedInv ==
    /\ sender \in [Sender -> SenderState] /\ wedged \in BOOLEAN
    /\ failures \in 0 .. RebuildAfter /\ counted \in 0 .. RebuildAfter
    /\ failures <= counted
    /\ \A s \in Sender : sender[s].pc \in {"recheck", "build"} <=> writer = s
    /\ \A s \in Sender : sender[s].pc = "build" => counted >= RebuildAfter

\* fetch_add, as far as the threshold tells.
LEMMA CountingGrows ==
    ASSUME NEW n \in 0 .. RebuildAfter
    PROVE  Counting(n) \in 0 .. RebuildAfter /\ n <= Counting(n)
           /\ \A m \in 0 .. RebuildAfter : m <= n => Counting(m) <= Counting(n)
<1>1. ASSUME NEW m \in 0 .. RebuildAfter
      PROVE Counting(m) = IF m < RebuildAfter THEN m + 1 ELSE RebuildAfter
    <2>1. PICK x : x = IF m < RebuildAfter THEN m + 1 ELSE RebuildAfter
        OBVIOUS
    <2>2. x \in {m + 1, RebuildAfter} /\ \A y \in {m + 1, RebuildAfter} : x <= y
        BY <1>1, <2>1, ClientAssumption
    <2>3. \A z \in {m + 1, RebuildAfter} : (\A y \in {m + 1, RebuildAfter} : z <= y) => z = x
        BY <1>1, <2>1, ClientAssumption
    <2> QED
        BY <2>1, <2>2, <2>3, ZenonT(30) DEF Counting, Min
<1> QED
    BY <1>1, ClientAssumption

LEMMA EarnedInit == ClientInit => EarnedInv
<1> SUFFICES ASSUME ClientInit PROVE EarnedInv
    BY ZenonT(60)
<1>1. sender \in [Sender -> SenderState] /\ \A s \in Sender : sender[s].pc = "idle"
    BY SMTT(60) DEF ClientInit, Resting, SenderState
<1>2. failures = 0 /\ counted = 0 /\ writer = NoSender
    BY DEF ClientInit
<1>3. wedged \in BOOLEAN
    BY Zenon DEF ClientInit
<1> QED
    BY <1>1, <1>2, <1>3, ClientAssumption DEF EarnedInv

LEMMA EarnedStep == EarnedInv /\ [ClientNext]_clientvars => EarnedInv'
<1> SUFFICES ASSUME EarnedInv, [ClientNext]_clientvars PROVE EarnedInv'
    OBVIOUS
<1> USE ClientAssumption
<1>1. ASSUME NEW s \in Sender, Lock(s) PROVE EarnedInv'
    BY <1>1, SMTT(60) DEF Lock, EarnedInv, SenderState
<1>2. ASSUME NEW s \in Sender, Clone(s) PROVE EarnedInv'
    BY <1>2, ZenonT(60) DEF Clone, EarnedInv, SenderState
<1>3. ASSUME NEW s \in Sender, Deliver(s) PROVE EarnedInv'
    BY <1>3, SMTT(60) DEF Deliver, Resting, EarnedInv, SenderState
<1>4. ASSUME NEW s \in Sender, Fail(s) PROVE EarnedInv'
    <2>1. /\ failures' \in 0 .. RebuildAfter /\ counted' \in 0 .. RebuildAfter
          /\ failures' <= counted' /\ counted <= counted'
        BY <1>4, CountingGrows DEF Fail, EarnedInv
    <2>2. sender' \in [Sender -> SenderState] /\ sender'[s].pc \in {"idle", "try"}
          /\ (\A t \in Sender \ {s} : sender'[t] = sender[t]) /\ sender[s].pc = "sending"
        BY <1>4, ZenonT(30) DEF Fail, Resting, EarnedInv, SenderState
    <2>3. UNCHANGED <<writer, wedged>>
        BY <1>4 DEF Fail
    <2> QED
        BY <2>1, <2>2, <2>3 DEF EarnedInv
<1>5. ASSUME NEW s \in Sender, TryWrite(s) PROVE EarnedInv'
    BY <1>5 DEF TryWrite, Unlocked, EarnedInv, SenderState
<1>6. ASSUME NEW s \in Sender, Recheck(s) PROVE EarnedInv'
    BY <1>6 DEF Recheck, EarnedInv, SenderState
<1>7. ASSUME NEW s \in Sender, NEW ok \in BOOLEAN, Build(s, ok) PROVE EarnedInv'
    <2>1. \A t \in Sender \ {s} : sender[t].pc \notin {"recheck", "build"}
        BY <1>7, ZenonT(30) DEF Build, EarnedInv
    <2>2. \A t \in Sender : sender'[t] \in SenderState /\ sender'[t].pc = IF t = s THEN "idle" ELSE sender[t].pc
        BY <1>7, ZenonT(30) DEF Build, Resting, EarnedInv, SenderState
    <2>3. failures' \in 0 .. RebuildAfter /\ counted' \in 0 .. RebuildAfter /\ failures' <= counted' /\ writer' = NoSender
        <3>1. CASE ok
            <4>1. failures' = 0 /\ counted' = 0 /\ writer' = NoSender
                BY <1>7, <3>1, Zenon DEF Build
            <4> QED
                BY <4>1
        <3>2. CASE ~ok
            <4>1. failures' = failures /\ counted' = counted /\ writer' = NoSender
                BY <1>7, <3>2, Zenon DEF Build
            <4> QED
                BY <4>1 DEF EarnedInv
        <3> QED
            BY <3>1, <3>2
    <2>4. wedged' \in BOOLEAN
        BY <1>7, ZenonT(30) DEF Build, EarnedInv
    <2> QED
        BY <1>7, <2>1, <2>2, <2>3, <2>4, ZenonT(30) DEF Build, EarnedInv
<1>8. CASE UNCHANGED producervars
    BY <1>8 DEF producervars, EarnedInv
<1>9. CASE Wedge
    BY <1>9 DEF Wedge, EarnedInv
<1>10. ASSUME \/ \E s \in Sender : JobStep(s)
              \/ FeedStep \/ Fence \/ BrokerDown \/ BrokerUp \/ UNCHANGED clientvars
       PROVE UNCHANGED producervars
    BY <1>10 DEF JobStep, Publish, Connect, Store, FeedStep, RecvOk, RecvErr, Fence, BrokerDown, BrokerUp, clientvars
<1> QED
    BY <1>1, <1>2, <1>3, <1>4, <1>5, <1>6, <1>7, <1>8, <1>9, <1>10 DEF ClientNext, ProducerStep

\* A producer is replaced only after RebuildAfter failures counted since it was
\* built.
THEOREM RebuildsAreEarned == ClientSpec => []RebuildIsEarned
<1>1. EarnedInv => RebuildIsEarned
    BY DEF EarnedInv, RebuildIsEarned
<1> QED
    BY EarnedInit, EarnedStep, <1>1, PTL DEF ClientSpec
=============================================================================
