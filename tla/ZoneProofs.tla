----------------------------- MODULE ZoneProofs -----------------------------
(***************************************************************************)
(* The zone's stream.  ZoneIngester, for every stream length, semaphore,   *)
(* COUNT and mix of kinds; and what its tasks tell the frequency monitor   *)
(* is what the publisher tells, for every window, band and number of       *)
(* samples.                                                                *)
(***************************************************************************)
EXTENDS ZoneIngester, GridStatus, FiniteSetTheorems, TLAPS

\* A sequence that is not empty has a first element.
LEMMA NonEmptySeq ==
    ASSUME NEW S, NEW s \in Seq(S), s # << >>
    PROVE  /\ Len(s) = 1 \/ Len(s) > 1
           /\ Head(s) = s[1] /\ 1 \in 1 .. Len(s)
  OBVIOUS

USE DEF Entry

\* The empty bin is a bin.
LEMMA NoBinType == NoBin \in Snapshot
  BY DEF NoBin, Snapshot

\* What XREADGROUP delivers exists.
LEMMA NewCursorFacts ==
    ASSUME TypeOK
    PROVE  /\ NewCursor \in Int /\ NewCursor <= Len(stream)
           /\ cursor <= NewCursor
  BY ZoneAssumption DEF TypeOK, NewCursor

\* An update of the bin keeps its type, and only adds.
LEMMA CountedFacts ==
    ASSUME TypeOK, NEW e \in Entry, Counted(e)
    PROVE  /\ agg' \in Snapshot /\ writes' \in Seq(Snapshot)
           /\ agg'[e] > 0 /\ Grows(agg, agg')
           /\ writes' = Append(writes, agg')
  <1>1. agg \in [Entry -> 0 .. 2] /\ writes \in Seq(Snapshot)
    BY DEF TypeOK, Snapshot
  <1>2. agg' = [agg EXCEPT ![e] = IF agg[e] = 2 THEN 2 ELSE agg[e] + 1]
    BY DEF Counted
  <1>3. writes' = Append(writes, agg')
    BY <1>2 DEF Counted
  <1>4. agg' \in Snapshot
    BY <1>1, <1>2 DEF Snapshot
  <1>5. agg'[e] > 0 /\ Grows(agg, agg')
    <2>1. agg'[e] = IF agg[e] = 2 THEN 2 ELSE agg[e] + 1
      BY <1>1, <1>2
    <2>2. \A d \in Entry : d # e => agg'[d] = agg[d]
      BY <1>1, <1>2
    <2> QED
      BY <1>1, <2>1, <2>2 DEF Grows
  <1> QED
    BY <1>1, <1>3, <1>4, <1>5

\* The types are kept by an entry's way to its XACK.
LEMMA ToAckType ==
    ASSUME TypeOK, NEW e \in Entry, ToAck(e) \/ UNCHANGED binVars
    PROVE  agg' \in Snapshot /\ writes' \in Seq(Snapshot)
  BY CountedFacts DEF TypeOK, ToAck, binVars

\* TypeOK is inductive.
LEMMA TypeStep == TypeOK /\ [Next]_vars => TypeOK'
  <1> SUFFICES ASSUME TypeOK, [Next]_vars PROVE TypeOK'
    OBVIOUS
  <1> USE DEF redisVars, readVars, redoVars, binVars, histVars
  <1>1. CASE UNCHANGED vars
    BY <1>1 DEF vars, TypeOK
  <1>2. CASE XAdd
    BY <1>2, ZoneAssumption DEF XAdd, TypeOK
  <1>3. ASSUME NEW e \in Entry, Idle(e) PROVE TypeOK'
    BY <1>3 DEF Idle, TypeOK
  <1>4. CASE XReadGroup
    <2>1. NewCursor \in 0 .. Len(stream) /\ cursor \in 0 .. NewCursor
      BY NewCursorFacts DEF TypeOK
    <2>2. buffer' \in Seq(1 .. cursor')
      <3>1. CASE UNCHANGED buffer
        BY <1>4, <3>1 DEF XReadGroup
      <3>2. CASE buffer' = [i \in 1 .. (NewCursor - cursor) |-> cursor + i]
        BY <1>4, <3>2, <2>1 DEF XReadGroup, TypeOK
      <3> QED
        BY <1>4, <3>1, <3>2 DEF XReadGroup
    <2>3. pending' \subseteq 1 .. cursor' /\ stale' \subseteq pending'
      BY <1>4, <2>1 DEF XReadGroup, TypeOK
    <2> QED
      BY <1>4, <2>1, <2>2, <2>3 DEF XReadGroup, TypeOK
  <1>5. CASE SpawnTask
    <2>1. Head(buffer) \in 1 .. cursor /\ Tail(buffer) \in Seq(1 .. cursor)
      BY <1>5 DEF SpawnTask, TypeOK
    <2> QED
      BY <1>5, <2>1, ZenonT(60) DEF SpawnTask, TypeOK, TaskState
  <1>6. ASSUME NEW e \in Entry, Task(e) PROVE TypeOK'
    <2>1. CASE HandleTask(e)
      BY <2>1, ToAckType, ZenonT(60) DEF HandleTask, TypeOK, TaskState
    <2>2. CASE SkipTask(e) \/ AckTaskErr(e)
      BY <2>2, ZenonT(60) DEF SkipTask, AckTaskErr, TypeOK, TaskState
    <2>3. CASE AckTask(e)
      BY <2>3 DEF AckTask, Acked, TypeOK, TaskState
    <2> QED
      BY <1>6, <2>1, <2>2, <2>3 DEF Task
  <1>7. ASSUME NEW e \in Entry, Redo(e) PROVE TypeOK'
    <2>1. CASE HandleRedo(e)
      BY <2>1, ToAckType, ZenonT(60) DEF HandleRedo, TypeOK, TaskState
    <2>2. CASE SkipRedo(e) \/ AckRedoErr(e)
      BY <2>2, ZenonT(60) DEF SkipRedo, AckRedoErr, NextClaimed, TypeOK, TaskState
    <2>3. CASE AckRedo(e)
      BY <2>3 DEF AckRedo, Acked, NextClaimed, TypeOK, TaskState
    <2> QED
      BY <1>7, <2>1, <2>2, <2>3 DEF Redo
  <1>8. CASE XPending \/ XClaim \/ XClaimErr
    BY <1>8, ZenonT(60) DEF XPending, XClaim, XClaimErr, Oldest, TypeOK, TaskState
  <1>9. CASE BinWrite \/ BinWriteErr
    <2>1. Head(writes) \in Snapshot /\ Tail(writes) \in Seq(Snapshot)
      BY <1>9 DEF BinWrite, BinWriteErr, TypeOK
    <2> QED
      BY <1>9, <2>1, ZenonT(60) DEF BinWrite, BinWriteErr, TypeOK
  <1>10. CASE Crash
    <2>1. agg' \in Snapshot /\ writes' \in Seq(Snapshot)
      BY <1>10, NoBinType DEF Crash, TypeOK
    <2>2. lost' \subseteq Entry
      <3>1. Settled \subseteq Entry
        BY ZoneAssumption DEF Settled, TypeOK
      <3> QED
        BY <1>10, <3>1, ZenonT(60) DEF Crash, TypeOK
    <2>3. task' \in [Entry -> TaskState] /\ redo' \in TaskState
      BY <1>10 DEF Crash, TaskState
    <2>4. buffer' \in Seq(1 .. cursor') /\ listed' = {} /\ claimed' = {}
      BY <1>10 DEF Crash
    <2>5. behind' \in BOOLEAN /\ blank' \in BOOLEAN
      BY <1>10, ZenonT(60) DEF Crash
    <2>6. UNCHANGED redisVars
      BY <1>10 DEF Crash
    <2> QED
      BY <2>1, <2>2, <2>3, <2>4, <2>5, <2>6 DEF TypeOK
  <1> QED
    BY <1>1, <1>2, <1>3, <1>4, <1>5, <1>6, <1>7, <1>8, <1>9, <1>10 DEF Next

\* Redis' lists, the reply being worked off, the tasks and the bins always have
\* the types TypeOK gives them; tasks and redeliveries are of delivered entries.
THEOREM TypeCorrect == Spec => []TypeOK
  <1>1. Init => TypeOK
    <2> SUFFICES ASSUME Init PROVE TypeOK
      OBVIOUS
    <2>1. task \in [Entry -> TaskState] /\ redo \in TaskState
      BY DEF Init, TaskState
    <2>2. store \in Snapshot /\ agg \in Snapshot
      BY NoBinType DEF Init
    <2>3. buffer \in Seq(1 .. cursor) /\ writes \in Seq(Snapshot)
      BY DEF Init
    <2>4. stream \in Seq(Kinds) /\ Len(stream) = 0 /\ cursor = 0
      BY DEF Init
    <2>5. Len(stream) <= Length /\ cursor \in 0 .. Len(stream)
      BY ZoneAssumption, <2>4
    <2>6. behind \in BOOLEAN /\ blank \in BOOLEAN
      BY ZenonT(60) DEF Init
    <2>7. /\ pending = {} /\ stale = {} /\ listed = {} /\ claimed = {}
          /\ lost = {}
      BY DEF Init
    <2> QED
      BY <2>1, <2>2, <2>3, <2>4, <2>5, <2>6, <2>7 DEF TypeOK
  <1> QED
    BY <1>1, TypeStep, PTL DEF Spec

-----------------------------------------------------------------------------
\* DeliveredOnly is kept: a task is only spawned for an entry of a reply.
LEMMA DeliveredStep == TypeOK /\ DeliveredOnly /\ [Next]_vars => DeliveredOnly'
  <1> SUFFICES ASSUME TypeOK, DeliveredOnly, [Next]_vars PROVE DeliveredOnly'
    OBVIOUS
  <1> USE DEF redisVars, readVars, redoVars, binVars, histVars, DeliveredOnly
  <1>1. CASE UNCHANGED <<task, cursor>>
    BY <1>1
  <1>2. CASE XReadGroup
    BY <1>2, NewCursorFacts DEF XReadGroup, TypeOK
  <1>3. CASE SpawnTask
    <2>1. Head(buffer) \in 1 .. cursor
      BY <1>3 DEF SpawnTask, TypeOK
    <2> QED
      BY <1>3, <2>1 DEF SpawnTask, TypeOK
  <1>4. ASSUME NEW e \in Entry, Task(e) PROVE DeliveredOnly'
    BY <1>4, ZenonT(60) DEF Task, HandleTask, SkipTask, AckTask, AckTaskErr, TypeOK
  <1>5. CASE Crash
    BY <1>5 DEF Crash
  <1>6. ASSUME NEW e \in Entry, Idle(e) \/ Redo(e) PROVE UNCHANGED <<task, cursor>>
    BY <1>6 DEF Idle, Redo, HandleRedo, SkipRedo, AckRedo, AckRedoErr
  <1>7. CASE XAdd \/ XPending \/ XClaim \/ XClaimErr \/ BinWrite \/ BinWriteErr
    BY <1>7, <1>1 DEF XAdd, XPending, XClaim, XClaimErr, BinWrite, BinWriteErr
  <1> QED
    BY <1>1, <1>2, <1>3, <1>4, <1>5, <1>6, <1>7 DEF Next, vars

\* Outside a restart the bin only grows.
LEMMA BinGrows ==
    ASSUME TypeOK, [Next]_vars, ~Crash
    PROVE  Grows(agg, agg')
  <1> USE DEF redisVars, readVars, redoVars, binVars, histVars
  <1>1. agg' = agg => Grows(agg, agg')
    <2>1. agg \in [Entry -> 0 .. 2]
      BY DEF TypeOK, Snapshot
    <2>2. Grows(agg, agg)
      BY <2>1 DEF Grows
    <2> QED
      BY <2>2 DEF Grows
  <1>2. ASSUME NEW e \in Entry, ToAck(e) PROVE Grows(agg, agg')
    BY <1>1, <1>2, CountedFacts DEF ToAck
  <1>3. ASSUME NEW e \in Entry, Task(e) PROVE Grows(agg, agg')
    BY <1>1, <1>2, <1>3 DEF Task, HandleTask, SkipTask, AckTask, AckTaskErr
  <1>4. ASSUME NEW e \in Entry, Redo(e) PROVE Grows(agg, agg')
    BY <1>1, <1>2, <1>4 DEF Redo, HandleRedo, SkipRedo, AckRedo, AckRedoErr
  <1>5. ASSUME NEW e \in Entry, Idle(e) PROVE Grows(agg, agg')
    BY <1>1, <1>5, ZenonT(60) DEF Idle
  <1>6. CASE XAdd \/ XReadGroup \/ SpawnTask \/ XPending \/ XClaim
             \/ XClaimErr \/ BinWrite \/ BinWriteErr
    BY <1>1, <1>6 DEF XAdd, XReadGroup, SpawnTask, XPending, XClaim, XClaimErr,
                      BinWrite, BinWriteErr
  <1>7. CASE UNCHANGED vars
    BY <1>1, <1>7 DEF vars
  <1> QED
    BY <1>3, <1>4, <1>5, <1>6, <1>7 DEF Next

\* CountedBeforeAck is kept: an entry gets to its XACK by being counted.
LEMMA CountedStep ==
    TypeOK /\ DeliveredOnly /\ CountedBeforeAck /\ [Next]_vars
        => CountedBeforeAck'
  <1> SUFFICES ASSUME TypeOK, DeliveredOnly, CountedBeforeAck, [Next]_vars,
                      NEW d \in (1 .. cursor)', (stream[d] = "reading")'
               PROVE  /\ (task[d] = "ack")' => (agg[d] > 0)'
                      /\ (redo = "ack" /\ First(d))' => (agg[d] > 0)'
    BY DEF CountedBeforeAck
  <1> USE DEF redisVars, readVars, redoVars, binVars, histVars
  <1>t. TypeOK'
    BY TypeStep
  <1>d. d \in Entry
    BY <1>t, ZoneAssumption DEF TypeOK
  <1>1. CASE Crash
    BY <1>1, <1>d DEF Crash
  <1> SUFFICES ASSUME ~Crash
               PROVE  /\ (task[d] = "ack")' => (agg[d] > 0)'
                      /\ (redo = "ack" /\ First(d))' => (agg[d] > 0)'
    BY <1>1
  <1>g. agg[d] \in Int /\ agg'[d] \in Int /\ agg[d] <= agg'[d]
    <2>1. agg \in [Entry -> 0 .. 2] /\ agg' \in [Entry -> 0 .. 2]
      BY <1>t, ZenonT(60) DEF TypeOK, Snapshot
    <2> QED
      BY <2>1, <1>d, BinGrows DEF Grows
  <1>s. ASSUME d \in 1 .. cursor, stream[d] = "reading",
               task'[d] = "ack" => task[d] = "ack",
               redo' = "ack" /\ First(d)' => redo = "ack" /\ First(d)
        PROVE  /\ (task[d] = "ack")' => (agg[d] > 0)'
               /\ (redo = "ack" /\ First(d))' => (agg[d] > 0)'
    BY <1>g, <1>s DEF CountedBeforeAck
  <1>2. CASE UNCHANGED vars
    BY <1>2, <1>s DEF vars, First
  <1>3. CASE XAdd
    BY <1>3, <1>s DEF XAdd, TypeOK, First
  <1>4. CASE XReadGroup
    <2>1. d \in 1 .. cursor \/ (task[d] = "none" /\ d \notin claimed)
      BY <1>4, <1>d DEF XReadGroup, DeliveredOnly, TypeOK
    <2> QED
      BY <1>4, <2>1, <1>s DEF XReadGroup, First
  <1>5. CASE SpawnTask
    BY <1>5, <1>s, <1>d DEF SpawnTask, TypeOK, First
  <1>6. ASSUME NEW e \in Entry, Task(e)
        PROVE  /\ (task[d] = "ack")' => (agg[d] > 0)'
               /\ (redo = "ack" /\ First(d))' => (agg[d] > 0)'
    <2>1. CASE HandleTask(e)
      <3>1. CASE d = e
        <4>1. agg'[d] > 0
          BY <2>1, <3>1, CountedFacts DEF HandleTask, ToAck
        <4> QED
          BY <4>1
      <3>2. CASE d # e
        BY <2>1, <3>2, <1>s, <1>d, SMTT(60) DEF HandleTask, TypeOK, First
      <3> QED
        BY <3>1, <3>2
    <2>2. CASE SkipTask(e) \/ AckTask(e) \/ AckTaskErr(e)
      BY <2>2, <1>s, <1>d, ZenonT(60) DEF SkipTask, AckTask, AckTaskErr, TypeOK, First
    <2> QED
      BY <1>6, <2>1, <2>2 DEF Task
  <1>7. ASSUME NEW e \in Entry, Redo(e)
        PROVE  /\ (task[d] = "ack")' => (agg[d] > 0)'
               /\ (redo = "ack" /\ First(d))' => (agg[d] > 0)'
    <2>1. CASE HandleRedo(e)
      <3>1. CASE d = e
        <4>1. agg'[d] > 0
          BY <2>1, <3>1, CountedFacts DEF HandleRedo, ToAck
        <4> QED
          BY <4>1
      <3>2. CASE d # e
        <4>1. ~First(d)'
          BY <2>1, <3>2, <1>d DEF HandleRedo, First
        <4> QED
          BY <2>1, <4>1, <1>s DEF HandleRedo
      <3> QED
        BY <3>1, <3>2
    <2>2. CASE SkipRedo(e) \/ AckRedo(e) \/ AckRedoErr(e)
      BY <2>2, <1>s DEF SkipRedo, AckRedo, AckRedoErr, NextClaimed
    <2> QED
      BY <1>7, <2>1, <2>2, ZenonT(60) DEF Redo
  <1>8. ASSUME NEW e \in Entry, Idle(e)
        PROVE  /\ (task[d] = "ack")' => (agg[d] > 0)'
               /\ (redo = "ack" /\ First(d))' => (agg[d] > 0)'
    BY <1>8, <1>s DEF Idle, First
  <1>9. CASE XPending \/ XClaimErr
    BY <1>9, <1>s DEF XPending, XClaimErr, First
  <1>10. CASE XClaim
    BY <1>10, <1>s DEF XClaim
  <1>11. CASE BinWrite \/ BinWriteErr
    BY <1>11, <1>s DEF BinWrite, BinWriteErr, First
  <1> QED
    BY <1>2, <1>3, <1>4, <1>5, <1>6, <1>7, <1>8, <1>9, <1>10, <1>11, ZenonT(60) DEF Next

\* AckedIsCounted is kept: only an XACK settles a reading, and only a restart,
\* which records it, takes one out of the bin.
LEMMA AckedStep ==
    TypeOK /\ CountedBeforeAck /\ AckedIsCounted /\ [Next]_vars
        => AckedIsCounted'
  <1> SUFFICES ASSUME TypeOK, CountedBeforeAck, AckedIsCounted, [Next]_vars,
                      NEW d \in Settled'
               PROVE  (agg[d] > 0 \/ d \in lost)'
    BY DEF AckedIsCounted
  <1> USE DEF redisVars, readVars, redoVars, binVars, histVars
  <1>t. TypeOK'
    BY TypeStep
  <1>d. d \in Entry
    BY <1>t, ZoneAssumption, SMTT(30) DEF TypeOK, Settled
  <1>n. agg'[d] \in 0 .. 2 /\ agg[d] \in 0 .. 2
    BY <1>t, <1>d, ZenonT(60) DEF TypeOK, Snapshot
  <1>1. CASE Crash
    <2>1. d \in Settled
      BY <1>1 DEF Crash, Settled
    <2>2. agg'[d] = 0 => d \in lost'
      BY <1>1, <2>1 DEF Crash
    <2> QED
      BY <2>2, <1>n
  <1> SUFFICES ASSUME ~Crash PROVE (agg[d] > 0 \/ d \in lost)'
    BY <1>1
  <1>g. agg[d] <= agg'[d]
    BY <1>d, BinGrows DEF Grows
  <1>s. ASSUME agg[d] > 0 \/ d \in Settled, UNCHANGED lost
        PROVE  (agg[d] > 0 \/ d \in lost)'
    BY <1>g, <1>n, <1>s DEF AckedIsCounted
  <1>2. CASE UNCHANGED vars
    BY <1>2, <1>s DEF vars, Settled
  <1>3. CASE XAdd
    BY <1>3, <1>s DEF XAdd, TypeOK, Settled
  <1>4. CASE XReadGroup
    <2>1. d \in Settled
      BY <1>4, <1>d, NewCursorFacts DEF XReadGroup, TypeOK, Settled
    <2> QED
      BY <1>4, <2>1, <1>s DEF XReadGroup
  <1>5. CASE SpawnTask \/ XPending \/ XClaim \/ XClaimErr
    BY <1>5, <1>s DEF SpawnTask, XPending, XClaim, XClaimErr, Settled
  <1>6. CASE BinWrite \/ BinWriteErr
    BY <1>6, <1>s DEF BinWrite, BinWriteErr, Settled
  <1>7. ASSUME NEW e \in Entry, Task(e) PROVE (agg[d] > 0 \/ d \in lost)'
    <2>1. CASE AckTask(e)
      <3>1. agg[d] > 0 \/ d \in Settled
        BY <2>1 DEF AckTask, Acked, Settled, CountedBeforeAck
      <3> QED
        BY <2>1, <3>1, <1>s DEF AckTask
    <2>2. CASE HandleTask(e) \/ SkipTask(e) \/ AckTaskErr(e)
      BY <2>2, <1>s DEF HandleTask, SkipTask, AckTaskErr, Settled
    <2> QED
      BY <1>7, <2>1, <2>2 DEF Task
  <1>8. ASSUME NEW e \in Entry, Redo(e) PROVE (agg[d] > 0 \/ d \in lost)'
    <2>1. CASE AckRedo(e)
      <3>1. agg[d] > 0 \/ d \in Settled
        BY <2>1 DEF AckRedo, Acked, Settled, CountedBeforeAck
      <3> QED
        BY <2>1, <3>1, <1>s DEF AckRedo
    <2>2. CASE HandleRedo(e) \/ SkipRedo(e) \/ AckRedoErr(e)
      BY <2>2, <1>s DEF HandleRedo, SkipRedo, AckRedoErr, Settled
    <2> QED
      BY <1>8, <2>1, <2>2 DEF Redo
  <1>9. ASSUME NEW e \in Entry, Idle(e) PROVE (agg[d] > 0 \/ d \in lost)'
    BY <1>9, <1>s DEF Idle, Settled
  <1> QED
    BY <1>2, <1>3, <1>4, <1>5, <1>6, <1>7, <1>8, <1>9 DEF Next

-----------------------------------------------------------------------------
\* The steps that touch neither the bin, nor its snapshots, nor the store.
LEMMA BinSteps ==
    ASSUME TypeOK, [Next]_vars
    PROVE  \/ UNCHANGED <<agg, writes, store, behind, blank>>
           \/ /\ agg' \in Snapshot /\ Grows(agg, agg')
              /\ writes' = Append(writes, agg')
              /\ UNCHANGED <<store, behind, blank>>
           \/ BinWrite \/ BinWriteErr \/ Crash
  <1> USE DEF redisVars, readVars, redoVars, binVars, histVars
  <1>1. ASSUME NEW e \in Entry, ToAck(e), UNCHANGED <<store, behind, blank>>
        PROVE  \/ UNCHANGED <<agg, writes, store, behind, blank>>
               \/ /\ agg' \in Snapshot /\ Grows(agg, agg')
                  /\ writes' = Append(writes, agg')
                  /\ UNCHANGED <<store, behind, blank>>
    BY <1>1, CountedFacts DEF ToAck
  <1>2. ASSUME NEW e \in Entry, Task(e)
        PROVE  \/ UNCHANGED <<agg, writes, store, behind, blank>>
               \/ ToAck(e) /\ UNCHANGED <<store, behind, blank>>
    BY <1>2 DEF Task, HandleTask, SkipTask, AckTask, AckTaskErr
  <1>3. ASSUME NEW e \in Entry, Redo(e)
        PROVE  \/ UNCHANGED <<agg, writes, store, behind, blank>>
               \/ ToAck(e) /\ UNCHANGED <<store, behind, blank>>
    BY <1>3 DEF Redo, HandleRedo, SkipRedo, AckRedo, AckRedoErr
  <1>4. ASSUME NEW e \in Entry, Idle(e)
        PROVE  UNCHANGED <<agg, writes, store, behind, blank>>
    BY <1>4, ZenonT(60) DEF Idle
  <1>5. ASSUME \/ XAdd \/ XReadGroup \/ SpawnTask \/ XPending \/ XClaim
               \/ XClaimErr \/ UNCHANGED vars
        PROVE  UNCHANGED <<agg, writes, store, behind, blank>>
    BY <1>5 DEF XAdd, XReadGroup, SpawnTask, XPending, XClaim, XClaimErr, vars
  <1> QED
    BY <1>1, <1>2, <1>3, <1>4, <1>5 DEF Next

\* DurableIsCurrent is kept: the last snapshot queued is of the last update.
LEMMA DurableStep == TypeOK /\ DurableIsCurrent /\ [Next]_vars => DurableIsCurrent'
  <1> SUFFICES ASSUME TypeOK, DurableIsCurrent, [Next]_vars
               PROVE  DurableIsCurrent'
    OBVIOUS
  <1>w. writes \in Seq(Snapshot)
    BY DEF TypeOK
  <1>1. CASE UNCHANGED <<agg, writes, store, behind, blank>>
    BY <1>1 DEF DurableIsCurrent
  <1>2. CASE agg' \in Snapshot /\ writes' = Append(writes, agg')
    <2>1. writes' # << >> /\ writes'[Len(writes')] = agg'
      BY <1>2, <1>w
    <2> QED
      BY <2>1 DEF DurableIsCurrent
  <1>3. CASE BinWrite \/ BinWriteErr
    <2>1. writes # << >> /\ writes' = Tail(writes) /\ agg' = agg
      BY <1>3 DEF BinWrite, BinWriteErr
    <2>2. CASE Len(writes) = 1
      <3>1. writes' = << >> /\ Head(writes) = agg
        BY <1>w, <2>1, <2>2 DEF DurableIsCurrent
      <3>2. store' = agg' \/ behind'
        BY <1>3, <2>1, <3>1 DEF BinWrite, BinWriteErr
      <3> QED
        BY <3>1, <3>2 DEF DurableIsCurrent
    <2>3. CASE Len(writes) > 1
      <3>1. writes' # << >> /\ writes'[Len(writes')] = writes[Len(writes)]
        BY <1>w, <2>1, <2>3
      <3> QED
        BY <2>1, <3>1 DEF DurableIsCurrent
    <2>4. Len(writes) = 1 \/ Len(writes) > 1
      BY <1>w, <2>1, NonEmptySeq
    <2> QED
      BY <2>2, <2>3, <2>4
  <1>4. CASE Crash
    BY <1>4 DEF Crash, DurableIsCurrent, redisVars
  <1> QED
    BY <1>1, <1>2, <1>3, <1>4, BinSteps

\* SnapshotsGrow is kept: the lock serializes update and send, and one writer
\* takes the snapshots in the order they were sent.
LEMMA SnapshotsStep == TypeOK /\ SnapshotsGrow /\ [Next]_vars => SnapshotsGrow'
  <1> SUFFICES ASSUME TypeOK, SnapshotsGrow, [Next]_vars PROVE SnapshotsGrow'
    OBVIOUS
  <1>w. writes \in Seq(Snapshot) /\ store \in Snapshot /\ agg \in Snapshot
    BY DEF TypeOK
  <1>r. \A s \in Snapshot : Grows(s, s)
    BY DEF Snapshot, Grows
  <1>tr. ASSUME NEW s \in Snapshot, NEW t \in Snapshot, NEW u \in Snapshot,
                Grows(s, t), Grows(t, u)
         PROVE  Grows(s, u)
    <2>1. /\ s \in [Entry -> 0 .. 2] /\ t \in [Entry -> 0 .. 2]
          /\ u \in [Entry -> 0 .. 2]
      BY DEF Snapshot
    <2> QED
      BY <1>tr, <2>1 DEF Grows
  <1>1. CASE UNCHANGED <<agg, writes, store, behind, blank>>
    BY <1>1 DEF SnapshotsGrow, Grows
  <1>2. CASE /\ agg' \in Snapshot /\ Grows(agg, agg')
             /\ writes' = Append(writes, agg')
             /\ UNCHANGED <<store, behind, blank>>
    <2>1. /\ Len(writes) \in Nat /\ Len(writes') = Len(writes) + 1
          /\ writes'[Len(writes) + 1] = agg'
          /\ \A i \in 1 .. Len(writes) : writes'[i] = writes[i]
                                         /\ writes[i] \in Snapshot
      BY <1>2, <1>w, SMTT(60)
    <2>2. \A i \in 1 .. Len(writes) : Grows(writes[i], agg')
      BY <1>2, <1>w, <1>tr, <2>1 DEF SnapshotsGrow
    <2>3. Grows(agg', agg')
      BY <1>2, <1>r
    <2>4. \A i \in 1 .. Len(writes') : Grows(writes'[i], agg')
      BY <2>1, <2>2, <2>3
    <2>5. ASSUME NEW i \in 1 .. Len(writes'), NEW j \in 1 .. Len(writes'), i <= j
          PROVE  Grows(writes'[i], writes'[j])
      <3>1. CASE j = Len(writes) + 1
        BY <3>1, <2>1, <2>4
      <3>2. CASE j # Len(writes) + 1
        BY <2>5, <3>2, <2>1 DEF SnapshotsGrow
      <3> QED
        BY <3>1, <3>2
    <2>6. ASSUME ~blank PROVE Grows(store, agg')
      BY <1>2, <1>w, <1>tr, <2>6, ZenonT(60) DEF SnapshotsGrow
    <2>7. ASSUME ~blank, NEW i \in 1 .. Len(writes')
          PROVE  Grows(store, writes'[i])
      BY <2>1, <2>6, <2>7, SMTT(60) DEF SnapshotsGrow
    <2>8. SnapshotsGrow' = /\ \A i \in 1 .. Len(writes') : Grows(writes'[i], agg')
                           /\ \A i, j \in 1 .. Len(writes') :
                                 i <= j => Grows(writes'[i], writes'[j])
                           /\ ~blank' =>
                                /\ Grows(store', agg')
                                /\ \A i \in 1 .. Len(writes') :
                                      Grows(store', writes'[i])
      BY DEF SnapshotsGrow, Grows
    <2>9. store' = store /\ blank' = blank
      BY <1>2, ZenonT(60)
    <2> QED
      BY <2>4, <2>5, <2>6, <2>7, <2>8, <2>9
  <1>3. CASE BinWrite \/ BinWriteErr
    <2>1. /\ writes # << >> /\ writes' = Tail(writes) /\ agg' = agg
          /\ blank' = blank /\ store' \in {store, writes[1]}
      BY <1>3, <1>w DEF BinWrite, BinWriteErr
    <2>2. /\ Len(writes) \in Nat \ {0} /\ Len(writes') = Len(writes) - 1
          /\ \A i \in 1 .. Len(writes') : writes'[i] = writes[i + 1]
                                          /\ i + 1 \in 1 .. Len(writes)
          /\ 1 \in 1 .. Len(writes)
      BY <1>w, <2>1
    <2>3. \A i \in 1 .. Len(writes') : Grows(writes'[i], agg')
      BY <2>1, <2>2 DEF SnapshotsGrow
    <2>4. ASSUME NEW i \in 1 .. Len(writes'), NEW j \in 1 .. Len(writes'), i <= j
          PROVE  Grows(writes'[i], writes'[j])
      BY <2>2, <2>4 DEF SnapshotsGrow
    <2>5. ASSUME ~blank' PROVE Grows(store', agg')
      BY <2>1, <2>2, <2>5 DEF SnapshotsGrow
    <2>6. ASSUME ~blank', NEW i \in 1 .. Len(writes')
          PROVE  Grows(store', writes'[i])
      <3>1. Grows(store, writes[i + 1]) /\ Grows(writes[1], writes[i + 1])
        BY <2>1, <2>2, <2>6 DEF SnapshotsGrow
      <3> QED
        BY <2>1, <2>2, <3>1
    <2> QED
      BY <2>3, <2>4, <2>5, <2>6 DEF SnapshotsGrow, Grows
  <1>4. CASE Crash
    <2>1. writes' = << >> /\ store' = store /\ (~blank' => agg' = store')
      BY <1>4 DEF Crash, redisVars
    <2> QED
      BY <1>w, <1>r, <2>1 DEF SnapshotsGrow, Grows
  <1> QED
    BY <1>1, <1>2, <1>3, <1>4, BinSteps

-----------------------------------------------------------------------------
\* IndInv always holds.
THEOREM Inductive == Spec => []IndInv
  <1>1. Init => IndInv
    <2> SUFFICES ASSUME Init PROVE IndInv
      OBVIOUS
    <2>1. DeliveredOnly /\ CountedBeforeAck /\ AckedIsCounted
      BY DEF Init, DeliveredOnly, CountedBeforeAck, AckedIsCounted, Settled
    <2>2. DurableIsCurrent
      BY DEF Init, DurableIsCurrent
    <2>3. SnapshotsGrow
      BY NoBinType DEF Init, SnapshotsGrow, Grows, Snapshot
    <2> QED
      BY <2>1, <2>2, <2>3 DEF IndInv
  <1>2. TypeOK /\ IndInv /\ [Next]_vars => IndInv'
    BY DeliveredStep, CountedStep, AckedStep, DurableStep, SnapshotsStep DEF IndInv
  <1> QED
    BY <1>1, <1>2, TypeCorrect, PTL DEF Spec

\* A reading the group is no longer owed is in the bin unless a restart dropped
\* it (handle_iot_reading counts before its XACK).
THEOREM AckedReadingsAreCounted == Spec => []AckedIsCounted
  BY Inductive, PTL DEF IndInv

\* With nothing queued, the durable bin is the one in memory (the ordered
\* channel of spawn_ordered_writer).
THEOREM DurableBinIsCurrent == Spec => []DurableIsCurrent
  BY Inductive, PTL DEF IndInv

\* No step takes a reading out of the durable bin, in a process that loaded it.
THEOREM DurableBinOnlyGrows == Spec => DurableNeverRecedes
  <1>1. TypeOK /\ IndInv /\ [Next]_vars
            => [blank \/ \A e \in Entry : store'[e] >= store[e]]_vars
    <2> SUFFICES ASSUME TypeOK, IndInv, [Next]_vars, ~blank, NEW e \in Entry
                 PROVE  store'[e] >= store[e]
      OBVIOUS
    <2>1. store \in [Entry -> 0 .. 2]
      BY DEF TypeOK, Snapshot
    <2>2. CASE UNCHANGED store
      BY <2>1, <2>2
    <2>3. CASE BinWrite \/ BinWriteErr
      <3>1. writes \in Seq(Snapshot) /\ writes # << >>
        BY <2>3 DEF TypeOK, BinWrite, BinWriteErr
      <3>2. 1 \in 1 .. Len(writes) /\ Head(writes) = writes[1]
        BY <3>1, NonEmptySeq
      <3>3. Grows(store, writes[1]) /\ writes[1] \in [Entry -> 0 .. 2]
        BY <3>1, <3>2 DEF IndInv, SnapshotsGrow, Snapshot
      <3>4. store' \in {store, writes[1]}
        BY <2>3, <3>2 DEF BinWrite, BinWriteErr
      <3>5. writes[1][e] >= store[e] /\ store[e] >= store[e]
        BY <2>1, <3>3 DEF Grows
      <3> QED
        BY <3>4, <3>5
    <2>4. Crash => UNCHANGED store
      BY DEF Crash, redisVars
    <2> QED
      BY <2>2, <2>3, <2>4, BinSteps
  <1> QED
    BY <1>1, TypeCorrect, Inductive, PTL DEF Spec, DurableNeverRecedes

-----------------------------------------------------------------------------
(* The grid-status publisher. *)

Sample == [hz : Nat, age : 0 .. Window + 1]
GridShape == measured \in Seq(Sample) /\ front \in 1 .. Len(measured) + 1

\* The samples are in order, and those before the front are too old.
GridInv ==
    /\ GridShape
    /\ \A i, j \in DOMAIN measured : i < j => measured[i].age >= measured[j].age
    /\ \A i \in DOMAIN measured : i < front => measured[i].age > Window
    /\ EventIsFresh

LEMMA GridTypes ==
    ASSUME GridShape
    PROVE  /\ Window \in Nat /\ Len(measured) \in Nat /\ DOMAIN measured = 1 .. Len(measured)
           /\ front \in 1 .. Len(measured) + 1
           /\ \A n \in DOMAIN measured : measured[n] \in Sample /\ measured[n].age \in Nat
<1>1. Window \in Nat
    BY GridAssumption
<1>2. \A x \in Sample : x.age \in Nat
    BY <1>1 DEF Sample
<1> QED
    BY <1>1, <1>2 DEF GridShape

LEMMA GridInitInv == GridInit => GridInv
<1> SUFFICES ASSUME GridInit PROVE GridInv
    OBVIOUS
<1>1. measured = <<>> /\ front = 1 /\ DOMAIN measured = {}
    BY DEF GridInit
<1> QED
    BY <1>1 DEF GridInit, GridInv, GridShape, EventIsFresh

\* What is left after an eviction is what the window holds.
LEMMA DequeIsWindow ==
    ASSUME GridInv, NEW k \in evict(measured)
    PROVE  k .. Len(measured) = {n \in DOMAIN measured : measured[n].age <= Window}
<1>1. /\ Len(measured) \in Nat /\ DOMAIN measured = 1 .. Len(measured) /\ front \in 1 .. Len(measured) + 1 /\ Window \in Nat
      /\ \A n \in DOMAIN measured : measured[n].age \in Nat
    BY GridTypes DEF GridInv
<1>2. /\ k \in front .. Len(measured) + 1 /\ \A n \in front .. k - 1 : measured[n].age > Window
      /\ k <= Len(measured) => measured[k].age <= Window
    BY Zenon DEF evict
<1>3. ASSUME NEW n \in k .. Len(measured) PROVE n \in DOMAIN measured /\ measured[n].age <= Window
    <2>1. n \in DOMAIN measured /\ k \in DOMAIN measured /\ measured[k].age <= Window
        BY <1>1, <1>2
    <2>2. n = k \/ measured[k].age >= measured[n].age
        <3>1. n = k \/ k < n
            BY <1>1, <1>2
        <3> QED
            BY <2>1, <3>1, Zenon DEF GridInv
    <2> QED
        BY <1>1, <2>1, <2>2
<1>4. ASSUME NEW n \in DOMAIN measured, measured[n].age <= Window PROVE n \in k .. Len(measured)
    <2>1. ~(n < front)
        BY <1>1, <1>4 DEF GridInv
    <2>2. n \notin front .. k - 1
        BY <1>1, <1>2, <1>4
    <2> QED
        BY <1>1, <1>2, <2>1, <2>2
<1> QED
    BY <1>3, <1>4

LEMMA GridStepInv == GridInv /\ [GridNext]_gridvars => GridInv'
<1> SUFFICES ASSUME GridInv, [GridNext]_gridvars PROVE GridInv'
    OBVIOUS
<1>1. /\ Len(measured) \in Nat /\ DOMAIN measured = 1 .. Len(measured) /\ front \in 1 .. Len(measured) + 1 /\ Window \in Nat
      /\ \A n \in DOMAIN measured : measured[n] \in Sample /\ measured[n].age \in Nat
    BY GridTypes DEF GridInv
<1>2. ASSUME NEW hz \in Hz, RecordHz(hz) PROVE GridInv'
    <2>1. CASE ~Plausible(hz)
        BY <1>2, <2>1, ZenonT(60) DEF RecordHz, GridInv, GridShape, EventIsFresh
    <2>2. CASE Plausible(hz)
        <3> DEFINE x == [hz |-> hz, age |-> 0]
        <3>1. measured' = Append(measured, x) /\ front' \in evict(measured') /\ UNCHANGED event
            BY <1>2, <2>2 DEF RecordHz
        <3>2. x \in Sample /\ x.age = 0
            BY <1>1, GridAssumption DEF Sample
        <3> HIDE DEF x
        <3>3. /\ measured' \in Seq(Sample) /\ Len(measured') = Len(measured) + 1
              /\ DOMAIN measured' = 1 .. Len(measured) + 1 /\ measured'[Len(measured) + 1] = x
              /\ \A n \in 1 .. Len(measured) : measured'[n] = measured[n]
            BY <3>1, <3>2 DEF GridInv, GridShape
        <3>4. \A n \in DOMAIN measured : measured[n].age \in Nat
            BY <1>1
        <3>5. ASSUME NEW i \in DOMAIN measured', NEW j \in DOMAIN measured', i < j
              PROVE  measured'[i].age >= measured'[j].age
            <4>0. i \in 1 .. Len(measured)
                <5>1. i \in 1 .. Len(measured) + 1 /\ j \in 1 .. Len(measured) + 1
                    BY <3>3
                <5> QED
                    BY <1>1, <3>5, <5>1
            <4>1. i \in DOMAIN measured /\ measured'[i] = measured[i]
                BY <1>1, <3>3, <4>0, Zenon
            <4>2. CASE j = Len(measured) + 1
                BY <3>2, <3>3, <3>4, <4>1, <4>2, SMTT(60)
            <4>3. CASE j \in DOMAIN measured
                BY <1>1, <3>3, <3>5, <4>1, <4>3 DEF GridInv
            <4>4. j \in 1 .. Len(measured) + 1
                BY <3>3
            <4> QED
                BY <1>1, <4>2, <4>3, <4>4
        <3>6. front' \in front .. Len(measured) + 2 /\ \A n \in front .. front' - 1 : measured'[n].age > Window
            <4>1. /\ front' \in front .. Len(measured') + 1
                  /\ \A n \in front .. front' - 1 : measured'[n].age > Window
                BY <3>1, Zenon DEF evict
            <4>2. Len(measured') = Len(measured) + 1
                BY <3>3
            <4>3. front' \in front .. Len(measured) + 2
                BY <1>1, <4>1, <4>2
            <4> QED
                BY <4>1, <4>3, Zenon
        <3>7. front' \in 1 .. Len(measured') + 1
            BY <1>1, <3>3, <3>6
        <3>8. ASSUME NEW i \in DOMAIN measured', i < front' PROVE measured'[i].age > Window
            <4>1. CASE i < front
                <5>1. i \in DOMAIN measured /\ measured'[i] = measured[i]
                    BY <1>1, <3>3, <4>1
                <5> QED
                    BY <4>1, <5>1, ZenonT(60) DEF GridInv
            <4>2. CASE ~(i < front)
                <5>1. i \in 1 .. Len(measured) + 1
                    BY <3>3, ZenonT(60)
                <5>2. i \in front .. front' - 1
                    BY <1>1, <3>6, <3>8, <4>2, <5>1
                <5> QED
                    BY <3>6, <5>2, Zenon
            <4> QED
                BY <4>1, <4>2
        <3> QED
            BY <3>1, <3>3, <3>5, <3>7, <3>8 DEF GridInv, GridShape, EventIsFresh
    <2> QED
        BY <2>1, <2>2, ZenonT(60)
<1>3. ASSUME NEW ok \in BOOLEAN, PublishStatus(ok) PROVE GridInv'
    <2> DEFINE deque == front' .. Len(measured)
               window == {k \in DOMAIN measured : measured[k].age <= Window}
    <2>1. front' \in evict(measured) /\ UNCHANGED measured
        BY <1>3 DEF PublishStatus
    <2>2. deque = window
        BY <2>1, DequeIsWindow
    <2>3. front' \in front .. Len(measured) + 1
        BY <2>1 DEF evict
    <2>4. event' = IF deque # {} /\ ok THEN [mean |-> Mean(deque), due |-> Mean(deque)] ELSE event
        BY <1>3, <2>2, Zenon DEF PublishStatus
    <2>5. deque # {} => Mean(deque).count > 0
        <3>1. IsFiniteSet(deque) /\ Cardinality(deque) \in Nat
            BY <1>1, <2>3, FS_Interval, FS_CardinalityType
        <3>2. deque # {} => Cardinality(deque) # 0
            BY <3>1, FS_EmptySet, Zenon
        <3>3. Mean(deque).count = Cardinality(deque)
            BY DEF Mean
        <3> HIDE DEF deque
        <3> QED
            BY <3>1, <3>2, <3>3
    <2>6. EventIsFresh'
        <3> HIDE DEF deque
        <3>1. CASE deque # {} /\ ok
            <4>1. event' = [mean |-> Mean(deque), due |-> Mean(deque)]
                BY <2>4, <3>1, ZenonT(60)
            <4> QED
                BY <2>5, <3>1, <4>1 DEF EventIsFresh
        <3>2. CASE ~(deque # {} /\ ok)
            BY <2>4, <3>2 DEF GridInv, EventIsFresh
        <3> QED
            BY <3>1, <3>2
    <2>7. \A i \in DOMAIN measured : i < front' => measured[i].age > Window
        <3>1. \A i \in DOMAIN measured : i < front' => i \notin deque
            BY <1>1, <2>3
        <3>2. \A i \in DOMAIN measured : i < front' => ~(measured[i].age <= Window)
            BY <2>2, <3>1
        <3> QED
            BY <1>1, <3>2
    <2>8. front' \in 1 .. Len(measured) + 1
        BY <1>1, <2>3
    <2> QED
        BY <2>1, <2>6, <2>7, <2>8, ZenonT(60) DEF GridInv, GridShape
<1>4. CASE GridPass
    <2> DEFINE Older1(x) == IF x > Window THEN x ELSE x + 1
    <2>1. /\ measured' = [k \in DOMAIN measured |-> [measured[k] EXCEPT !.age = Older1(measured[k].age)]]
          /\ UNCHANGED <<front, event>>
        BY <1>4 DEF GridPass
    <2>2. /\ DOMAIN measured' = DOMAIN measured
          /\ \A k \in DOMAIN measured : measured'[k] = [measured[k] EXCEPT !.age = Older1(measured[k].age)]
        BY <2>1
    <2>3. \A k \in DOMAIN measured : /\ measured'[k] \in Sample
                                     /\ measured'[k].age = Older1(measured[k].age)
        BY <1>1, <2>2 DEF Sample
    <2>4. measured' \in Seq(Sample) /\ Len(measured') = Len(measured)
        <3>1. measured' \in [1 .. Len(measured) -> Sample]
            BY <1>1, <2>1, <2>3, Zenon
        <3> QED
            BY <1>1, <3>1
    <2>5. \A k \in DOMAIN measured : measured[k].age \in Nat
        BY <1>1, ZenonT(60)
    <2>6. \A i, j \in DOMAIN measured : i < j => measured'[i].age >= measured'[j].age
        BY <1>1, <2>3, <2>5 DEF GridInv
    <2>7. \A i \in DOMAIN measured : i < front => measured'[i].age > Window
        BY <1>1, <2>3, <2>5 DEF GridInv
    <2> QED
        BY <1>1, <2>1, <2>2, <2>4, <2>6, <2>7, Zenon DEF GridInv, GridShape, EventIsFresh
<1>5. CASE UNCHANGED gridvars
    BY <1>5 DEF gridvars, GridInv, GridShape, EventIsFresh
<1> QED
    BY <1>2, <1>3, <1>4, <1>5 DEF GridNext

\* The published frequency is the mean of exactly the samples of the window
\* (FrequencyMonitor::record, evict and mean, and the publisher of src/main.rs),
\* for every window, band and number of samples.
THEOREM EventsAreFresh == GridSpec => []EventIsFresh
<1>1. GridInv => EventIsFresh
    BY DEF GridInv
<1> QED
    BY <1>1, GridInitInv, GridStepInv, PTL DEF GridSpec
=============================================================================
